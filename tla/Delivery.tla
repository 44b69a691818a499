------------------------------ MODULE Delivery ------------------------------
(***************************************************************************)
(* What the events system promises a page: the events produced for it are  *)
(* delivered in the order they were produced, each once, none skipped; and *)
(* none is left undelivered unless the page abandons its state and starts  *)
(* from the database again.                                                *)
(***************************************************************************)
EXTENDS Naturals

VARIABLES
    produced,       \* number of events produced, 0 .. produced - 1
    delivered,      \* the events delivered
    abandoned       \* the page has dropped its state

deliveryVars == <<produced, delivered, abandoned>>

DeliveryInit == produced = 0 /\ delivered = {} /\ abandoned = FALSE

Produce ==
    /\ produced' = produced + 1
    /\ UNCHANGED <<delivered, abandoned>>

(* A longer prefix of what was produced is delivered.                      *)
Deliver ==
    /\ ~abandoned
    /\ \E n \in 1 .. produced : delivered' = 0 .. (n - 1)
    /\ delivered \subseteq delivered'
    /\ UNCHANGED <<produced, abandoned>>

Abandon ==
    /\ abandoned' = TRUE
    /\ UNCHANGED <<produced, delivered>>

DeliveryNext == Produce \/ Deliver \/ Abandon

DeliverySpec == DeliveryInit /\ [][DeliveryNext]_deliveryVars

AllDelivered == abandoned \/ delivered = 0 .. (produced - 1)

(* Infinitely often nothing is missing, as long as production pauses.      *)
EventuallyDelivered == []<>AllDelivered
=============================================================================
