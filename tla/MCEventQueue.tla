---------------------------- MODULE MCEventQueue ----------------------------
(* One flag, two messages and one type that does not merge: enough for an  *)
(* add and a remove of the same message to be pushed in every order around *)
(* a real event, a restart, fetches and a dump.                            *)
EXTENDS EventQueue

MCFlagOps == {"add", "remove"}
MCFlags == {"starred"}
MCOtherTypes == {<<"message">>}
=============================================================================
