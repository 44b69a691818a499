---------------------------- MODULE MCQueueWorker ----------------------------
(* Two events, for a worker that takes single events and for one that      *)
(* takes them in batches.                                                  *)
EXTENDS QueueWorker
=============================================================================
