---------------------------- MODULE MCCountStats ----------------------------
(* An hourly statistic that is logged, a daily one that is pulled, and one *)
(* that depends on it.  A day has two hours.                               *)
EXTENDS CountStats, TLC

MCDependencies ==
    ("read" :> {}) @@ ("audit" :> {}) @@ ("humans" :> {"audit"})
MCTimeIncrement ==
    ("read" :> 1) @@ ("audit" :> 2) @@ ("humans" :> 2)

MCdependencies == [s \in Stats |-> MCDependencies[s]]
MCtime_increment == [s \in Stats |-> MCTimeIncrement[s]]
MCEnds == [s \in Stats |-> {h \in 1 .. MaxHour : h % MCTimeIncrement[s] = 0}]
=============================================================================
