----------------------------- MODULE QueueWorker -----------------------------
(***************************************************************************)
(* One queue of RabbitMQ and the process that works it off:                *)
(* SimpleQueueClient.start_json_consumer (zerver/lib/queue.py), the        *)
(* do_consume of zerver/worker/queue_processors.py around the consume of   *)
(* a worker, retry_event, and the signal handler of process_queue.         *)
(*                                                                         *)
(* The process collects a batch, handles its events one after the other    *)
(* and acknowledges the batch.  It can be told to stop, or be killed,      *)
(* between any two of these steps; supervisor starts it again.             *)
(***************************************************************************)
EXTENDS Integers, Sequences, SequencesExt, FiniteSets

CONSTANTS
    Events,             \* what is published
    BatchSizes,         \* 1, or that of a LoopQueueProcessingWorker
    MAX_REQUEST_RETRIES,
    MaxInterruptions    \* bound: signals and kills

ASSUME BatchAssumption == BatchSizes \subseteq Nat \ {0}
ASSUME RetriesAssumption == MAX_REQUEST_RETRIES \in Nat
ASSUME InterruptionsAssumption == MaxInterruptions \in Nat

VARIABLES
    queue,          \* the queue of the broker, without what it has delivered
    waiting,        \* delivered, in pika's generator
    (* The process.                                                        *)
    batch_size,     \* of its worker
    pc,             \* "down", "consuming", "callback", "returning"
    events,         \* the batch of start_json_consumer
    position,       \* in the callback: the event of the batch to be handled
    is_consuming,
    (* History.                                                            *)
    published,
    handled,        \* event -> how often consume has completed
    errors,         \* events written to QUEUE_ERROR_DIR
    given_up,       \* events retry_event gave to failure_processor
    skipped,        \* events that InterruptConsumeException ended
    lost,           \* events acknowledged although a signal cut them short
    interruptions

processVars == <<pc, events, position, is_consuming>>
outcomeVars == <<handled, errors, given_up, skipped, lost>>
vars == <<queue, waiting, processVars, published, outcomeVars, batch_size,
                   interruptions>>

Message == [event : Events, failed_tries : 0 .. MAX_REQUEST_RETRIES]

(* What the broker has delivered and not seen acknowledged.                *)
Unacked == events \o waiting

EventsOf(batch) == {m.event : m \in Range(batch)}

(* A callback has a batch of the right size and is somewhere in it, or     *)
(* past its end; retries never exceed their maximum.                       *)
TypeOK ==
    /\ queue \in Seq(Message) /\ waiting \in Seq(Message) /\ events \in Seq(Message)
    /\ pc \in {"down", "consuming", "callback", "returning"}
    /\ batch_size \in BatchSizes /\ Len(events) <= batch_size
    /\ pc = "callback" => events # <<>> /\ position \in 1 .. Len(events) + 1
    /\ pc # "callback" => position = 1
    /\ pc = "consuming" => is_consuming
    /\ pc = "down" => Unacked = <<>>
    /\ published \in SUBSET Events
    /\ handled \in [Events -> Nat]
    /\ errors \cup given_up \cup skipped \cup lost \subseteq published
    /\ interruptions \in 0 .. MaxInterruptions

Init ==
    /\ queue = <<>> /\ waiting = <<>> /\ batch_size \in BatchSizes
    /\ pc = "down" /\ events = <<>> /\ position = 1 /\ is_consuming = FALSE
    /\ published = {}
    /\ handled = [e \in Events |-> 0]
    /\ errors = {} /\ given_up = {} /\ skipped = {} /\ lost = {}
    /\ interruptions = 0

-----------------------------------------------------------------------------
(* The broker                                                              *)

(* queue_json_publish of a server process.                                 *)
queue_json_publish ==
    \E e \in Events \ published :
        /\ published' = published \cup {e}
        /\ queue' = Append(queue, [event |-> e, failed_tries |-> 0])
        /\ UNCHANGED <<waiting, processVars, outcomeVars, batch_size, interruptions>>

(* No prefetch limit is set: the broker sends whatever it has.             *)
Deliver ==
    /\ queue # <<>> /\ pc # "down"
    /\ is_consuming
    /\ waiting' = Append(waiting, Head(queue))
    /\ queue' = Tail(queue)
    /\ UNCHANGED <<processVars, published, outcomeVars, batch_size,
                   interruptions>>

(* The connection of the process is gone: what it did not acknowledge is   *)
(* back at its place in the queue.                                         *)
ConnectionEnds ==
    /\ pc' = "down" /\ events' = <<>> /\ position' = 1 /\ is_consuming' = FALSE
    /\ waiting' = <<>>

Requeue == queue' = Unacked \o queue

-----------------------------------------------------------------------------
(* start_json_consumer                                                     *)

(* setup and start.                                                        *)
start ==
    /\ pc = "down"
    /\ pc' = "consuming" /\ is_consuming' = TRUE
    /\ UNCHANGED <<queue, waiting, events, position, published, outcomeVars, batch_size,
                   interruptions>>

Call == pc' = "callback" /\ position' = 1

(* The generator yields a message; a full batch goes to the callback.      *)
Collect ==
    /\ pc = "consuming" /\ waiting # <<>>
    /\ events' = Append(events, Head(waiting))
    /\ waiting' = Tail(waiting)
    /\ IF Len(events') >= batch_size THEN Call ELSE UNCHANGED <<pc, position>>
    /\ UNCHANGED <<queue, is_consuming, published, outcomeVars, batch_size,
                   interruptions>>

(* Mutant: a batch waits until it is full.                                 *)
TimeoutPasses_never == FALSE

(* A batch has waited for timeout seconds: None for single events.         *)
TimeoutPasses == batch_size > 1

CollectTimesOut ==
    /\ pc = "consuming" /\ events # <<>> /\ TimeoutPasses
    /\ Call
    /\ UNCHANGED <<queue, waiting, events, is_consuming, published, outcomeVars, batch_size,
                   interruptions>>

(* Mutant: the list is not emptied for the next batch.                     *)
Collected_kept == events

(* events = [] after the callback.                                         *)
Collected == <<>>

(* Mutant: the ack takes everything that was delivered along.              *)
StillWaiting_none == <<>>

(* What basic_ack(max_processed, multiple=True) leaves unacknowledged.     *)
StillWaiting == waiting

(* The callback has returned: basic_ack, and the loop goes on or ends.     *)
Acknowledge ==
    /\ pc = "callback" /\ position > Len(events)
    /\ events' = Collected /\ waiting' = StillWaiting
    /\ position' = 1
    /\ pc' = IF is_consuming THEN "consuming" ELSE "returning"
    /\ UNCHANGED <<queue, is_consuming, published, outcomeVars, batch_size,
                   interruptions>>

(* start returns, and the process ends.                                    *)
Return ==
    /\ pc = "returning"
    /\ Requeue /\ ConnectionEnds
    /\ UNCHANGED <<published, outcomeVars, batch_size,
                   interruptions>>

-----------------------------------------------------------------------------
(* The callback: do_consume and the consume of the worker                  *)

Handling == pc = "callback" /\ position <= Len(events)
Current == events[position]
NextEvent == position' = position + 1

Completes ==
    /\ Handling
    /\ handled' = [handled EXCEPT ![Current.event] = @ + 1]
    /\ NextEvent
    /\ UNCHANGED <<queue, waiting, pc, events, is_consuming, published,
                   errors, given_up, skipped, lost, batch_size, interruptions>>

(* The event that is published again.                                      *)
Retried(m) == [m EXCEPT !.failed_tries = @ + 1]

(* retry_event, for a failure that retry_send_email_failures or the        *)
(* worker itself takes for temporary.                                      *)
retry_event ==
    /\ Handling
    /\ IF Current.failed_tries + 1 > MAX_REQUEST_RETRIES
       THEN given_up' = given_up \cup {Current.event} /\ UNCHANGED queue
       ELSE queue' = Append(queue, Retried(Current)) /\ UNCHANGED given_up
    /\ NextEvent
    /\ UNCHANGED <<waiting, pc, events, is_consuming, published,
                   handled, errors, skipped, lost, batch_size, interruptions>>

(* _handle_consume_exception: any other exception, an expired timer or a   *)
(* failed publication ends the whole batch, which goes to the errors file. *)
_handle_consume_exception ==
    /\ Handling
    /\ errors' = errors \cup EventsOf(events)
    /\ position' = Len(events) + 1
    /\ UNCHANGED <<queue, waiting, pc, events, is_consuming, published,
                   handled, given_up, skipped, lost, batch_size, interruptions>>

(* InterruptConsumeException of a worker that takes single events.         *)
InterruptConsume ==
    /\ Handling /\ batch_size = 1
    /\ skipped' = skipped \cup {Current.event}
    /\ NextEvent
    /\ UNCHANGED <<queue, waiting, pc, events, is_consuming, published,
                   handled, errors, given_up, lost, batch_size, interruptions>>

-----------------------------------------------------------------------------
(* Stopping                                                                *)

Interruption ==
    /\ interruptions < MaxInterruptions /\ interruptions' = interruptions + 1
    /\ UNCHANGED batch_size

(* Mutant: after an exception the batch is acknowledged all the same.      *)
Nack_acks == queue' = waiting \o queue

(* basic_nack(max_processed, multiple=True), and the end of the process.   *)
Nack == Requeue

(* signal_handler outside do_consume: worker.stop(), then SystemExit ends  *)
(* the process, with a nack if the callback had not returned.              *)
Signal ==
    /\ pc \in {"consuming", "callback"} /\ is_consuming
    /\ pc = "callback" => position > Len(events) \/ waiting # <<>>
    /\ Interruption
    /\ Nack /\ ConnectionEnds
    /\ UNCHANGED <<published, outcomeVars>>

(* signal_handler inside do_consume when the local queue is empty: the     *)
(* return in its finally block discards the SystemExit, the batch is       *)
(* acknowledged, and the loop ends because is_consuming is false.          *)
SignalDiscarded ==
    /\ pc = "callback" /\ is_consuming /\ waiting = <<>>
    /\ Interruption
    /\ is_consuming' = FALSE
    /\ lost' = lost \cup EventsOf(SubSeq(events, position, Len(events)))
    /\ position' = Len(events) + 1
    /\ UNCHANGED <<queue, waiting, pc, events, published, handled, errors,
                   given_up, skipped>>

(* The process is killed, or loses its connection.                         *)
Kill ==
    /\ pc # "down"
    /\ Interruption
    /\ Requeue /\ ConnectionEnds
    /\ UNCHANGED <<published, outcomeVars>>

-----------------------------------------------------------------------------
Callback ==
    \/ Completes \/ retry_event \/ _handle_consume_exception \/ InterruptConsume
    \/ Acknowledge

Next ==
    \/ queue_json_publish \/ Deliver
    \/ start \/ Collect \/ CollectTimesOut \/ Callback \/ Return
    \/ Signal \/ SignalDiscarded \/ Kill

Spec == Init /\ [][Next]_vars

(* supervisor restarts the process (autorestart=true), the broker delivers *)
(* what it has, and consume ends, if only by its timer.                    *)
Fairness ==
    /\ WF_vars(start) /\ WF_vars(Deliver)
    /\ WF_vars(Collect) /\ WF_vars(CollectTimesOut)
    /\ WF_vars(Callback) /\ WF_vars(Return)

FairSpec == Spec /\ Fairness

-----------------------------------------------------------------------------
Occurrences(seq, e) == Cardinality({i \in DOMAIN seq : seq[i].event = e})

(* Copies of an event that are still to be handled.                        *)
Owed(e) ==
    Occurrences(queue, e) + Occurrences(waiting, e)
    + Cardinality({i \in position .. Len(events) : events[i].event = e})

Settled(e) == handled[e] > 0 \/ e \in errors \cup given_up \cup skipped

(* Every published event is still in the queue or with the process, or has *)
(* been handled, given up or written to the errors file; the exception is  *)
(* an event that a discarded SystemExit cut short.  Whatever happens       *)
(* between consume and the ack, no event falls between the two.            *)
Accounted ==
    \A e \in published :
        Settled(e) \/ e \in EventsOf(queue \o Unacked) \/ e \in lost

(* An event is handled again only because the process was interrupted      *)
(* between handling and acknowledging it: every interruption at most       *)
(* doubles what is owed, and retries and errors never multiply an event.   *)
RepeatsAreInterruptions ==
    \A e \in Events : handled[e] + Owed(e) <= 2 ^ interruptions

(* An exception in the callback puts the batch back into the queue, as     *)
(* test_register_consumer_nack confirms for a callback that stops the      *)
(* consumer and raises: no event is acknowledged unless it was dealt with. *)
InterruptedIsRequeued ==
    \A e \in published : Settled(e) \/ e \in EventsOf(queue \o Unacked)

(* Once nothing new is published the queue runs empty and stays empty:     *)
(* what fails is not retried for ever.                                     *)
Drains == <>[](queue \o Unacked = <<>>)
=============================================================================
