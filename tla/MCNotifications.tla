--------------------------- MODULE MCNotifications ---------------------------
(* A message that is pushed in any case and emailed to an idle user, and   *)
(* one that arrives with the user away from the keyboard.                  *)
EXTENDS Notifications, TLC

CONSTANTS q1, q2, q3

MCQueues == {q1, q2, q3}
MCSymmetry == Permutations(MCQueues)

MCMessageData == {
    [notify |-> Kinds, online_push_enabled |-> TRUE, presence_idle |-> FALSE],
    [notify |-> {"email"}, online_push_enabled |-> FALSE, presence_idle |-> TRUE]}
=============================================================================
