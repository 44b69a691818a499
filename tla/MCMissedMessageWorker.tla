----------------------- MODULE MCMissedMessageWorker -----------------------
(* One user missed two messages, which are interchangeable.                *)
EXTENDS MissedMessageWorker, TLC

CONSTANTS u1, m1, m2

MCMissed == {<<u1, m1>>, <<u1, m2>>}
MCSymmetry == Permutations({m1, m2})
=============================================================================
