--------------------------- MODULE MCTornadoQueue ---------------------------
(* Two notices of the queue that Tornado consumes, which Django publishes  *)
(* and Tornado publishes again, and one for a worker.                      *)
EXTENDS TornadoQueue

CONSTANTS n1, e1, e2

MCBodies == {n1, e1, e2}
MCQueueNames == {"notify_tornado", "missedmessage_emails"}
MCQueueOf == (n1 :> "notify_tornado") @@ (e1 :> "missedmessage_emails")
             @@ (e2 :> "missedmessage_emails")
MCConsumed == {"notify_tornado"}
=============================================================================
