----------------------------- MODULE LongPollInv ----------------------------
(***************************************************************************)
(* The inductive invariant behind the safety properties of LongPoll, in    *)
(* parts that are named for what they are about.  TLC checks it on the     *)
(* small instance; LongPollHandlerProofs and LongPollDeliveryProofs prove  *)
(* it for all.                                                             *)
(***************************************************************************)
EXTENDS LongPoll

(* Whether c is settled in the log as it is now.                           *)
SettledNow(c) == Settled(pending, next_event_id, newest_pruned_id, c)

(* Only ids that have been given to an event are used.                     *)
IdsInv ==
    /\ \A e \in pending : e.id < next_event_id
    /\ \A r \in responses : \A e \in r.events : e.id < next_event_id

(* Requests are told apart by their xhr, and a new one is not yet known to *)
(* anybody.                                                                *)
XhrInv ==
    /\ \A q \in requests : q.xhr < next_xhr /\ q.xhr # handler_zero
    /\ \A q \in requests : q.xhr = get_events_xhr => q.op = "get"
    /\ \A q1, q2 \in requests : q1.xhr = q2.xhr => q1 = q2
    /\ \A r \in responses : r.xhr < next_xhr
    /\ \A x \in {current_handler_id, get_events_xhr, handler_zero} \ {None} :
          x < next_xhr

(* Before the page is open nothing is under way.                           *)
LoadInv ==
    /\ page \in {"loading", "loaded"} =>
          /\ requests = {}
          /\ get_events_xhr = None /\ ~get_events_timeout
          /\ current_handler_id = None
    /\ page = "loading" =>
          newest_pruned_id = -1 /\ last_event_id = -1 /\ applied = {}

(* The queue holds exactly the pushes after the last prune, and what the   *)
(* page has is settled in it.                                              *)
QueueInv ==
    /\ Exact(pending, next_event_id, newest_pruned_id)
    /\ SettledNow(last_event_id)

(* A request acknowledges what the page had when it was sent, which is     *)
(* still settled unless the queue has been pruned beyond it.               *)
RequestInv ==
    \A q \in requests : q.op = "get" =>
        /\ q.last_event_id <= last_event_id
        /\ newest_pruned_id <= q.last_event_id => SettledNow(q.last_event_id)
        /\ q.xhr = get_events_xhr => q.last_event_id = last_event_id

(* While the page's request waits, the queue is pruned up to what the page *)
(* has.                                                                    *)
WaitInv ==
    get_events_xhr # None /\ current_handler_id = get_events_xhr
        => newest_pruned_id = last_event_id

(* An entry has the id of the last push that it covers.                    *)
WellCovered(events) ==
    \A e \in events : e.id \in e.covers /\ \A k \in e.covers : k <= e.id

(* These events are the pushes after c up to some settled id.              *)
Batch(events, entries, n, w, c) ==
    /\ WellCovered(events)
    /\ \E b \in c .. (n - 1) :
          Covered(events) = (c + 1) .. b /\ Settled(entries, n, w, b)

(* What the page's request is answered with comes right after its          *)
(* last_event_id.                                                          *)
NextBatch(events) ==
    Batch(events, pending, next_event_id, newest_pruned_id, last_event_id)

ResponseInv ==
    \A r \in responses : r.xhr = get_events_xhr =>
        /\ r.result # "error"
        /\ r.result = "events" => NextBatch(r.events)

(* The page has dispatched a prefix of the pushes, and stored the rest of  *)
(* what it has.                                                            *)
ViewInv ==
    /\ \E a \in -1 .. last_event_id :
          /\ applied = 0 .. a
          /\ Covered(events_stored_while_loading) = (a + 1) .. last_event_id
    /\ ~waiting_on_homeview_load => events_stored_while_loading = {}
    /\ repeated = {}

(* A queue that gets `restart' events is not empty before the first        *)
(* request of a process, and is never served by handler 0.                 *)
HandlerZeroInv ==
    /\ current_handler_id # None => handler_zero # None
    /\ AcceptsRestart =>
          /\ current_handler_id # None => current_handler_id # handler_zero
          /\ up /\ queue_exists /\ handler_zero = None =>
                \E e \in pending : e.virtual = Restart

(* The parts, in the order the proofs build them up.                       *)
TypeInv == TypeOK /\ IdsInv

HandlerInv ==
    TypeInv /\ XhrInv /\ WaitingHandler /\ HandlerZeroInv /\ NoHandlerLeak

(* The inductive invariant: it implies ExactlyOnce and NeverRefused, and   *)
(* its steps are steps of Delivery.  A queue, the requests and responses   *)
(* on their way and the page agree on which events the page has: every     *)
(* request acknowledges a settled id, and a response the page waits for    *)
(* begins right after its last_event_id.                                   *)
DeliveryInv ==
    /\ HandlerInv
    /\ LoadInv /\ QueueInv /\ RequestInv /\ WaitInv /\ ResponseInv /\ ViewInv
=============================================================================
