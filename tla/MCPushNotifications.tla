------------------------- MODULE MCPushNotifications -------------------------
(* Messages are interchangeable.                                           *)
EXTENDS PushNotifications, TLC

MCSymmetry == Permutations(Messages)
=============================================================================
