---------------------------- MODULE Notifications ----------------------------
(***************************************************************************)
(* The event queues of one user in the Tornado server, and the missed-     *)
(* message notifications that depend on them: a message that arrives while *)
(* the user is idle is notified at once (process_message_event), any other *)
(* one when the last queue of the user is collected with the message still *)
(* in it (missedmessage_hook).                                             *)
(*                                                                         *)
(* One handler of the IOLoop is one action.  A message is its number in    *)
(* the order of sending, and what the notification settings say of it.     *)
(* Only `message' events are kept in the queues; the connection of a queue *)
(* is left out, so that any set of queues may have expired.                *)
(***************************************************************************)
EXTENDS Integers, Sequences

CONSTANTS
    Queues,                 \* queue ids; a removed one may be allocated again
    MessageQueues,          \* those whose event_types include "message"
    MessageData,            \* what can be known of a message, see below
    MAX_REQUEST_RETRIES,
    MaxMessages,            \* bound: messages sent
    MaxFailures             \* bound: publications that fail, lost acks

Kinds == {"push", "email"}

(* UserMessageNotificationsData: the kinds of notice the user gets if idle, *)
(* and whether a push is due in any case; presence_idle_user_ids.          *)
AllMessageData ==
    [notify : SUBSET Kinds, online_push_enabled : BOOLEAN, presence_idle : BOOLEAN]

ASSUME QueuesAssumption == MessageQueues \subseteq Queues
ASSUME MessageDataAssumption == MessageData \subseteq AllMessageData
ASSUME BoundsAssumption ==
    MAX_REQUEST_RETRIES \in Nat /\ MaxMessages \in Nat /\ MaxFailures \in Nat

VARIABLES
    messages,           \* the messages sent so far
    inbox,              \* the RabbitMQ queue notify_tornado
    clients,            \* keys of clients
    user_clients,       \* queues in user_clients[user]
    waiting,            \* queue -> its `message' events
    deliveries,         \* number of message events pushed so far
    noticed,            \* history: notices published, <<message, kind>>
    again,              \* history: those published by a second handler
    seen,               \* history: messages a client acknowledged or fetched
    lost,               \* history: messages dropped by retry_event or a crash
    failures,           \* failures so far
    hook_failed         \* history: one of them inside a gc hook

vars == <<messages, inbox, clients, user_clients, waiting, deliveries,
          noticed, again, seen, lost, failures, hook_failed>>

Message == 1 .. MaxMessages
Notice == [message : Message, failed_tries : 0 .. MAX_REQUEST_RETRIES]

(* A `message' event: its place among all, the message, and internal_data's *)
(* push_notified and email_notified.                                       *)
Event == [order : Nat, message : Message, notified : SUBSET Kinds]

(* Every queue the fan-out knows can be asked for, and what is in a queue  *)
(* has been sent.                                                          *)
TypeOK ==
    /\ messages \in Seq(MessageData) /\ Len(messages) <= MaxMessages
    /\ inbox \in SUBSET Notice
    /\ \A n \in inbox : n.message <= Len(messages)
    /\ clients \in SUBSET Queues /\ user_clients \in SUBSET clients
    /\ waiting \in [Queues -> SUBSET Event]
    /\ \A q \in Queues : \A e \in waiting[q] :
          e.message <= Len(messages) /\ e.order < deliveries
    /\ deliveries \in Nat
    /\ noticed \in SUBSET (Message \X Kinds)
    /\ again \in SUBSET noticed
    /\ seen \in SUBSET Message /\ lost \in SUBSET Message
    /\ failures \in 0 .. MaxFailures /\ hook_failed \in BOOLEAN

Init ==
    /\ messages = <<>> /\ inbox = {}
    /\ clients = {} /\ user_clients = {}
    /\ waiting = [q \in Queues |-> {}]
    /\ deliveries = 0
    /\ noticed = {} /\ again = {} /\ seen = {} /\ lost = {}
    /\ failures = 0 /\ hook_failed = FALSE

Failure == failures < MaxFailures /\ failures' = failures + 1

-----------------------------------------------------------------------------
(* Notices                                                                 *)

(* is_push_notifiable, is_email_notifiable                                 *)
Notifiable(m, idle) ==
    {kind \in messages[m].notify :
        idle \/ (kind = "push" /\ messages[m].online_push_enabled)}

(* maybe_enqueue_notifications: the kinds it publishes, push before email. *)
maybe_enqueue_notifications(m, idle, already_notified) ==
    Notifiable(m, idle) \ already_notified

(* What it has published when a publication raises an exception.           *)
Interrupted(kinds) ==
    {done \in SUBSET kinds :
        done # kinds /\ ("email" \in done => "push" \notin kinds \ done)}

Publish(new) ==
    /\ noticed' = noticed \cup new
    /\ again' = again \cup (new \cap noticed)

-----------------------------------------------------------------------------
(* Arrival of a message                                                    *)

(* Django stores the message, then sends the notice to Tornado.            *)
SendEvent ==
    /\ Len(messages) < MaxMessages
    /\ \E data \in MessageData : messages' = Append(messages, data)
    /\ inbox' = inbox \cup {[message |-> Len(messages) + 1, failed_tries |-> 0]}
    /\ UNCHANGED <<clients, user_clients, waiting, deliveries, noticed, again,
                   seen, lost, failures, hook_failed>>

receiver_is_off_zulip == user_clients \cap MessageQueues = {}

(* What process_message_event notifies at once.                            *)
NotifiedNow(m) ==
    maybe_enqueue_notifications(m,
        receiver_is_off_zulip \/ messages[m].presence_idle, {})

(* Mutant: internal_data does not record what was notified.                *)
InternalData_forgets(m) == {}

InternalData(m) == NotifiedNow(m)

(* process_message_event: first the notices, then the event for each queue *)
(* that takes messages.                                                    *)
process_message_event(m) ==
    LET event == [order |-> deliveries, message |-> m, notified |-> InternalData(m)]
    IN  /\ Publish({m} \X NotifiedNow(m))
        /\ waiting' = [q \in Queues |->
                IF q \in user_clients \cap MessageQueues THEN waiting[q] \cup {event}
                ELSE waiting[q]]
        /\ deliveries' = deliveries + 1

(* RabbitMQ sends the notice again when the connection breaks before the   *)
(* acknowledgement of the consumer.                                        *)
ProcessNotification ==
    \E n \in inbox :
        /\ process_message_event(n.message)
        /\ \/ inbox' = inbox \ {n} /\ UNCHANGED failures
           \/ Failure /\ UNCHANGED inbox
        /\ UNCHANGED <<messages, clients, user_clients, seen, lost, hook_failed>>

(* retry_event: publishes the notice again, up to MAX_REQUEST_RETRIES      *)
(* times.                                                                  *)
retry_event(n) ==
    LET failed_tries == n.failed_tries + 1
    IN  IF failed_tries > MAX_REQUEST_RETRIES
        THEN /\ inbox' = inbox \ {n}
             /\ lost' = lost \cup {n.message}
        ELSE /\ inbox' = (inbox \ {n})
                    \cup {[message |-> n.message, failed_tries |-> failed_tries]}
             /\ UNCHANGED lost

(* A publication raises an exception: no queue has got the event.  If the  *)
(* publication of retry_event raises one too, the notice is not            *)
(* acknowledged and comes again as it was.                                 *)
ProcessNotificationFails ==
    \E n \in inbox : \E done \in Interrupted(NotifiedNow(n.message)) :
        /\ Failure
        /\ Publish({n.message} \X done)
        /\ retry_event(n) \/ UNCHANGED <<inbox, lost>>
        /\ UNCHANGED <<messages, clients, user_clients, waiting, deliveries,
                       seen, hook_failed>>

-----------------------------------------------------------------------------
(* The queues                                                              *)

(* do_events_register: allocate_client_descriptor, add_to_client_dicts;    *)
(* the initial state that is read afterwards has the messages sent before. *)
Register ==
    \E q \in Queues \ clients :
        /\ clients' = clients \cup {q}
        /\ user_clients' = user_clients \cup {q}
        /\ waiting' = [waiting EXCEPT ![q] = {}]
        /\ seen' = IF q \in MessageQueues THEN seen \cup 1 .. Len(messages) ELSE seen
        /\ UNCHANGED <<messages, inbox, deliveries, noticed, again, lost, failures, hook_failed>>

(* fetch_events: the client acknowledges an event and those before it.     *)
Acknowledge ==
    \E q \in clients : \E last \in waiting[q] :
        LET acknowledged == {e \in waiting[q] : e.order <= last.order}
        IN  /\ waiting' = [waiting EXCEPT ![q] = @ \ acknowledged]
            /\ seen' = seen \cup {e.message : e \in acknowledged}
            /\ UNCHANGED <<messages, inbox, clients, user_clients, deliveries,
                           noticed, again, lost, failures, hook_failed>>

(* missedmessage_hook for these events of a queue.                         *)
HookNotices(events) ==
    UNION {{e.message} \X maybe_enqueue_notifications(e.message, TRUE, e.notified)
             : e \in events}

(* Mutant: the queues are still in user_clients when the hooks run.        *)
LastForClient_early(to_remove) == user_clients = {}

(* The argument of the hooks: no queue of the user is left in user_clients *)
(* once all of to_remove are filtered out.                                 *)
LastForClient(to_remove) == user_clients \ to_remove = {}

Notified(to_remove, events) ==
    IF LastForClient(to_remove) THEN HookNotices(events) ELSE {}

(* Mutant: the queues stay in user_clients.                                *)
FilterClientDict_keeps(to_remove) == UNCHANGED user_clients

FilterClientDict(to_remove) == user_clients' = user_clients \ to_remove

(* Mutant: the queues stay in clients.                                     *)
DeleteClients_keeps(removed) == UNCHANGED clients

DeleteClients(removed) == clients' = clients \ removed

(* do_gc_event_queues, with `removed' the queues whose hooks return.        *)
Remove(to_remove, removed) ==
    /\ FilterClientDict(to_remove)
    /\ DeleteClients(removed)
    /\ waiting' = [q \in Queues |-> IF q \in removed THEN {} ELSE waiting[q]]
    /\ UNCHANGED <<messages, inbox, deliveries, seen, lost>>

do_gc_event_queues(to_remove) ==
    /\ Remove(to_remove, to_remove)
    /\ Publish(Notified(to_remove, UNION {waiting[q] : q \in to_remove}))
    /\ UNCHANGED <<failures, hook_failed>>

(* A publication for event e of queue `at' raises an exception, with       *)
(* `done' published before; this ends the loop over to_remove.             *)
HookFails(to_remove, removed, at, e, done) ==
    /\ LastForClient(to_remove)
    /\ Failure /\ hook_failed' = TRUE
    /\ Remove(to_remove, removed)
    /\ Publish(Notified(to_remove,
                    (UNION {waiting[q] : q \in removed})
                        \cup {f \in waiting[at] : f.order < e.order})
                \cup ({e.message} \X done))

do_gc_event_queues_fails(to_remove) ==
    \E at \in to_remove : \E removed \in SUBSET (to_remove \ {at}) :
    \E e \in waiting[at] :
    \E done \in Interrupted(maybe_enqueue_notifications(e.message, TRUE, e.notified)) :
        HookFails(to_remove, removed, at, e, done)

Collect(to_remove) ==
    do_gc_event_queues(to_remove) \/ do_gc_event_queues_fails(to_remove)

(* gc_event_queues: the queues that have expired, all at once.             *)
GcEventQueues == \E to_remove \in SUBSET clients \ {{}} : Collect(to_remove)

(* cleanup_event_queue: the client says that it is leaving.                *)
CleanupEventQueue == \E q \in clients : Collect({q})

(* The process ends with dump_event_queues, and starts again with          *)
(* load_event_queues.                                                      *)
Restart ==
    /\ user_clients' = clients
    /\ UNCHANGED <<messages, inbox, clients, waiting, deliveries, noticed,
                   again, seen, lost, failures, hook_failed>>

(* It ends without the dump.                                               *)
Crash ==
    /\ clients' = {} /\ user_clients' = {}
    /\ waiting' = [q \in Queues |-> {}]
    /\ lost' = lost \cup {e.message : e \in UNION {waiting[q] : q \in Queues}}
    /\ UNCHANGED <<messages, inbox, deliveries, noticed, again, seen, failures, hook_failed>>

-----------------------------------------------------------------------------
Next ==
    \/ SendEvent \/ ProcessNotification \/ ProcessNotificationFails
    \/ Register \/ Acknowledge
    \/ GcEventQueues \/ CleanupEventQueue
    \/ Restart \/ Crash

Spec == Init /\ [][Next]_vars

-----------------------------------------------------------------------------
Pending(m) == \E n \in inbox : n.message = m

DealtWith(m) ==
    m \in seen \cup lost \/ {m} \X messages[m].notify \subseteq noticed

(* When no queue of the user is left, the user has seen each message or    *)
(* has been notified of it as the settings demand, however the queues came *)
(* and went; but for the messages of a process that crashed, and those     *)
(* that retry_event dropped.  A gc hook that failed ends the promise: its   *)
(* queue is no longer in user_clients, but can still be asked for.         *)
(* docs/subsystems/notifications.md calls this the "hard disconnect        *)
(* problem".                                                               *)
NotifiedOrSeen ==
    clients = {} /\ ~hook_failed =>
        \A m \in DOMAIN messages : Pending(m) \/ DealtWith(m)

(* No two handlers publish the same notice, unless a publication failed or *)
(* an acknowledgement was lost: the notice of the arrival is not repeated  *)
(* when the queues are collected, nor by a later collection.  What one     *)
(* collection of several queues publishes is one set here, in which the    *)
(* same notice of two queues cannot be told apart.                         *)
NoticedOnce == failures = 0 => again = {}

-----------------------------------------------------------------------------
(* The inductive invariant behind NotifiedOrSeen and NoticedOnce.          *)

(* Nothing is noticed before it is sent, and no queue is left filled.      *)
SentInv ==
    /\ \A t \in noticed : t[1] <= Len(messages)
    /\ \A q \in Queues \ clients : waiting[q] = {}

(* The two dicts agree unless a hook has failed.                           *)
RegistryInv == ~hook_failed => clients = user_clients

(* An event of m that waits in q; what it does not record as notified will *)
(* be notified by the hook.                                                *)
InHand(m, q) ==
    \E e \in waiting[q] : e.message = m
        /\ {m} \X (messages[m].notify \cap e.notified) \subseteq noticed

InEachQueue(m) == user_clients # {} /\ \A q \in user_clients : InHand(m, q)

(* A message that is not yet dealt with waits in every queue of the user,  *)
(* and so in the last one.                                                 *)
CareInv ==
    Queues \subseteq MessageQueues /\ ~hook_failed =>
        \A m \in DOMAIN messages : Pending(m) \/ DealtWith(m) \/ InEachQueue(m)

(* What a handler may still publish for a notice in the inbox or an event  *)
(* in a queue has not been published.                                      *)
FreshInv ==
    failures = 0 =>
        /\ again = {} /\ ~hook_failed
        /\ \A n \in inbox : \A t \in noticed : t[1] # n.message
        /\ \A n1, n2 \in inbox : n1.message = n2.message => n1 = n2
        /\ \A q \in Queues : \A e \in waiting[q] :
              /\ \A n \in inbox : n.message # e.message
              /\ \A kind \in messages[e.message].notify \ e.notified :
                    <<e.message, kind>> \notin noticed

(* NotifiedOrSeen and NoticedOnce follow from it, and no handler makes it  *)
(* false.                                                                  *)
NotificationsInv == TypeOK /\ SentInv /\ RegistryInv /\ CareInv /\ FreshInv
=============================================================================
