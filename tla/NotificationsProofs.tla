------------------------- MODULE NotificationsProofs -------------------------
(***************************************************************************)
(* The user is notified of each message or has seen it, and the handlers   *)
(* do not repeat each other's notices.  Both follow from the inductive     *)
(* invariant NotificationsInv, whose parts are preserved one after the     *)
(* other.                                                                  *)
(***************************************************************************)
EXTENDS Notifications, TLAPS

-----------------------------------------------------------------------------
(* What the actions have in common.                                        *)

(* The kinds published for a message are kinds its receiver wants.         *)
LEMMA PublishedKinds ==
    ASSUME TypeOK, NEW m \in DOMAIN messages
    PROVE  /\ messages[m].notify \in SUBSET Kinds
           /\ \A idle \in BOOLEAN, already \in SUBSET Kinds :
                 maybe_enqueue_notifications(m, idle, already)
                     \in SUBSET (messages[m].notify \ already)
           /\ \A already \in SUBSET Kinds :
                 maybe_enqueue_notifications(m, TRUE, already)
                     = messages[m].notify \ already
<1>1. messages[m] \in AllMessageData
    BY MessageDataAssumption DEF TypeOK
<1>2. messages[m].notify \in SUBSET Kinds
    BY <1>1 DEF AllMessageData
<1> QED BY <1>2 DEF maybe_enqueue_notifications, Notifiable

(* Messages in a queue or in the inbox have been sent.                     *)
LEMMA SentMessages ==
    ASSUME TypeOK
    PROVE  /\ DOMAIN messages = 1 .. Len(messages) /\ Len(messages) \in Nat
           /\ DOMAIN messages \subseteq Message
           /\ \A n \in inbox : n.message \in DOMAIN messages
           /\ \A q \in Queues : \A e \in waiting[q] :
                 /\ e \in Event /\ e.message \in DOMAIN messages
                 /\ e.order \in Nat /\ e.notified \in SUBSET Kinds
<1>1. /\ DOMAIN messages = 1 .. Len(messages) /\ Len(messages) \in Nat
      /\ DOMAIN messages \subseteq Message
    BY BoundsAssumption DEF TypeOK, Message
<1>2. \A n \in inbox : n.message \in DOMAIN messages
    BY <1>1 DEF TypeOK, Notice, Message
<1>3. ASSUME NEW q \in Queues, NEW e \in waiting[q]
      PROVE  /\ e \in Event /\ e.message \in DOMAIN messages
             /\ e.order \in Nat /\ e.notified \in SUBSET Kinds
    <2>1. e \in Event /\ e.message <= Len(messages)
        BY <1>3 DEF TypeOK
    <2> QED BY <2>1, <1>1 DEF Event, Message
<1> QED BY <1>1, <1>2, <1>3

(* A hook publishes what is wanted and not recorded as notified.           *)
LEMMA HookPublishes ==
    ASSUME TypeOK, NEW events, events \subseteq UNION {waiting[q] : q \in Queues}
    PROVE  HookNotices(events) =
               {t \in Message \X Kinds :
                  \E e \in events : e.message = t[1]
                     /\ t[2] \in messages[t[1]].notify \ e.notified}
<1> DEFINE Due(e) == messages[e.message].notify \ e.notified
<1>1. ASSUME NEW e \in events
      PROVE  /\ e.message \in Message
             /\ maybe_enqueue_notifications(e.message, TRUE, e.notified) = Due(e)
             /\ Due(e) \in SUBSET Kinds
    <2>1. PICK q \in Queues : e \in waiting[q]
        OBVIOUS
    <2>2. /\ e.message \in DOMAIN messages /\ e.message \in Message
          /\ e.notified \in SUBSET Kinds
        BY <2>1, SentMessages
    <2>3. maybe_enqueue_notifications(e.message, TRUE, e.notified) = Due(e)
        <3>1. \A already \in SUBSET Kinds :
                maybe_enqueue_notifications(e.message, TRUE, already)
                    = messages[e.message].notify \ already
            BY <2>2, PublishedKinds
        <3> QED BY <2>2, <3>1
    <2>4. messages[e.message].notify \in SUBSET Kinds
        BY <2>2, PublishedKinds
    <2> QED BY <2>2, <2>3, <2>4
<1>2. HookNotices(events) = UNION {{e.message} \X Due(e) : e \in events}
    BY <1>1 DEF HookNotices
<1>3. \A t : t \in HookNotices(events) <=>
                \E e \in events : t \in {e.message} \X Due(e)
    BY <1>2
<1>4. ASSUME NEW e \in events, NEW t
      PROVE  t \in {e.message} \X Due(e) <=>
                /\ t \in Message \X Kinds
                /\ e.message = t[1] /\ t[2] \in messages[t[1]].notify \ e.notified
    <2> DEFINE D == Due(e)
    <2>1. e.message \in Message /\ D \in SUBSET Kinds
        BY <1>1
    <2>2. t \in {e.message} \X D <=>
            t \in Message \X Kinds /\ e.message = t[1] /\ t[2] \in D
        <3> HIDE DEF D
        <3> QED BY <2>1
    <2> QED BY <2>2
<1> QED BY <1>3, <1>4

(* What one collection publishes.                                          *)
LEMMA NotifiedTypes ==
    ASSUME TypeOK, NEW to_remove, NEW events,
           events \subseteq UNION {waiting[q] : q \in Queues}
    PROVE  Notified(to_remove, events) \in SUBSET (Message \X Kinds)
BY HookPublishes DEF Notified

-----------------------------------------------------------------------------
(* Types                                                                   *)

(* The kinds that an interrupted call has published are among those it     *)
(* would publish.                                                          *)
LEMMA InterruptedKinds ==
    ASSUME NEW kinds, NEW done \in Interrupted(kinds)
    PROVE  done \in SUBSET kinds
BY DEF Interrupted

(* What a message's arrival publishes.                                     *)
LEMMA ArrivalTypes ==
    ASSUME TypeOK, NEW m \in DOMAIN messages
    PROVE  NotifiedNow(m) \in SUBSET Kinds /\ InternalData(m) = NotifiedNow(m)
<1>1. messages[m] \in AllMessageData
    BY MessageDataAssumption DEF TypeOK
<1>2. messages[m].presence_idle \in BOOLEAN
    BY <1>1 DEF AllMessageData
<1>3. (receiver_is_off_zulip \/ messages[m].presence_idle) \in BOOLEAN
    BY <1>2
<1>4. maybe_enqueue_notifications(m,
            receiver_is_off_zulip \/ messages[m].presence_idle, {}) \in SUBSET Kinds
    BY <1>3, PublishedKinds
<1> QED BY <1>4 DEF NotifiedNow, InternalData

LEMMA PublishTypes ==
    ASSUME TypeOK, NEW new \in SUBSET (Message \X Kinds), Publish(new)
    PROVE  noticed' \in SUBSET (Message \X Kinds) /\ again' \in SUBSET noticed'
BY DEF TypeOK, Publish

LEMMA FailureTypes ==
    ASSUME TypeOK, Failure
    PROVE  failures' \in 0 .. MaxFailures
BY BoundsAssumption DEF TypeOK, Failure

LEMMA InitTypes == Init => TypeOK
<1> SUFFICES ASSUME Init PROVE TypeOK
    OBVIOUS
<1>1. messages \in Seq(MessageData) /\ Len(messages) <= MaxMessages
    BY BoundsAssumption DEF Init
<1>2. failures \in 0 .. MaxFailures
    BY BoundsAssumption DEF Init
<1> QED BY <1>1, <1>2 DEF Init, TypeOK

LEMMA SendEventTypes == TypeOK /\ SendEvent => TypeOK'
<1> SUFFICES ASSUME TypeOK, SendEvent PROVE TypeOK'
    OBVIOUS
<1>1. PICK data \in MessageData : messages' = Append(messages, data)
    BY DEF SendEvent
<1>2. /\ messages' \in Seq(MessageData) /\ Len(messages') = Len(messages) + 1
      /\ Len(messages) \in Nat /\ Len(messages) < MaxMessages
    BY <1>1 DEF SendEvent, TypeOK
<1>3. /\ inbox' \in SUBSET Notice
      /\ \A n \in inbox' : n.message <= Len(messages')
    BY <1>2, BoundsAssumption DEF SendEvent, TypeOK, Notice, Message
<1>4. \A q \in Queues : \A e \in waiting'[q] :
          e.message <= Len(messages') /\ e.order < deliveries'
    BY <1>2, SentMessages DEF SendEvent, TypeOK
<1> QED BY <1>2, <1>3, <1>4, BoundsAssumption DEF SendEvent, TypeOK

LEMMA ProcessNotificationTypes == TypeOK /\ ProcessNotification => TypeOK'
<1> SUFFICES ASSUME TypeOK, NEW n \in inbox, process_message_event(n.message),
                    \/ inbox' = inbox \ {n} /\ UNCHANGED failures
                    \/ Failure /\ UNCHANGED inbox,
                    UNCHANGED <<messages, clients, user_clients, seen, lost,
                                hook_failed>>
             PROVE  TypeOK'
    BY DEF ProcessNotification
<1> DEFINE m == n.message
           event == [order |-> deliveries, message |-> m,
                     notified |-> InternalData(m)]
<1>1. m \in DOMAIN messages /\ m \in Message /\ m <= Len(messages)
    BY SentMessages
<1>2. NotifiedNow(m) \in SUBSET Kinds /\ InternalData(m) = NotifiedNow(m)
    BY <1>1, ArrivalTypes
<1>3. event \in Event /\ event.message = m /\ event.order = deliveries
    BY <1>1, <1>2 DEF TypeOK, Event
<1>4. noticed' \in SUBSET (Message \X Kinds) /\ again' \in SUBSET noticed'
    <2>1. {m} \X NotifiedNow(m) \in SUBSET (Message \X Kinds)
        BY <1>1, <1>2
    <2> QED BY <2>1, PublishTypes DEF process_message_event
<1>5. waiting' = [q \in Queues |->
            IF q \in user_clients \cap MessageQueues THEN waiting[q] \cup {event}
            ELSE waiting[q]]
    BY DEF process_message_event
<1>6. deliveries' = deliveries + 1
    BY DEF process_message_event
<1>7. /\ waiting' \in [Queues -> SUBSET Event]
      /\ \A q \in Queues : \A e \in waiting'[q] :
            e.message <= Len(messages') /\ e.order < deliveries'
    <2> HIDE DEF event
    <2>1. ASSUME NEW q \in Queues
          PROVE  /\ waiting'[q] \subseteq waiting[q] \cup {event}
                 /\ waiting'[q] \in SUBSET Event
        BY <1>3, <1>5 DEF TypeOK
    <2>2. DOMAIN waiting' = Queues /\ waiting' = [q \in Queues |-> waiting'[q]]
        BY <1>5
    <2>3. \A q \in Queues : \A e \in waiting[q] :
            e.message <= Len(messages') /\ e.order < deliveries'
        BY <1>6, SentMessages DEF TypeOK
    <2>4. event.message <= Len(messages') /\ event.order < deliveries'
        BY <1>1, <1>3, <1>6 DEF TypeOK
    <2> QED BY <2>1, <2>2, <2>3, <2>4
<1>8. failures' \in 0 .. MaxFailures
    BY FailureTypes DEF TypeOK
<1>9. inbox' \in SUBSET inbox
    OBVIOUS
<1> QED BY <1>4, <1>6, <1>7, <1>8, <1>9 DEF TypeOK

LEMMA ProcessNotificationFailsTypes ==
    TypeOK /\ ProcessNotificationFails => TypeOK'
<1> SUFFICES ASSUME TypeOK, NEW n \in inbox,
                    NEW done \in Interrupted(NotifiedNow(n.message)),
                    Failure, Publish({n.message} \X done),
                    retry_event(n) \/ UNCHANGED <<inbox, lost>>,
                    UNCHANGED <<messages, clients, user_clients, waiting,
                                deliveries, seen, hook_failed>>
             PROVE  TypeOK'
    BY DEF ProcessNotificationFails
<1>1. n.message \in DOMAIN messages /\ n.message \in Message
    BY SentMessages
<1>2. {n.message} \X done \in SUBSET (Message \X Kinds)
    <2>1. done \in SUBSET Kinds
        BY <1>1, ArrivalTypes, InterruptedKinds
    <2> QED BY <1>1, <2>1
<1>3. noticed' \in SUBSET (Message \X Kinds) /\ again' \in SUBSET noticed'
    BY <1>2, PublishTypes
<1>4. /\ inbox' \in SUBSET Notice /\ lost' \in SUBSET Message
      /\ \A i \in inbox' : i.message <= Len(messages)
    BY <1>1, BoundsAssumption DEF TypeOK, retry_event, Notice
<1>5. failures' \in 0 .. MaxFailures
    BY FailureTypes
<1> QED BY <1>3, <1>4, <1>5 DEF TypeOK

LEMMA RegisterTypes == TypeOK /\ Register => TypeOK'
<1> SUFFICES ASSUME TypeOK, Register PROVE TypeOK'
    OBVIOUS
<1> USE DEF Register, TypeOK
<1>1. 1 .. Len(messages) \subseteq Message
    BY SentMessages
<1>2. seen' \in SUBSET Message
    BY <1>1
<1>3. /\ waiting' \in [Queues -> SUBSET Event]
      /\ \A q \in Queues : waiting'[q] \subseteq waiting[q]
    OBVIOUS
<1> QED BY <1>2, <1>3

LEMMA AcknowledgeTypes == TypeOK /\ Acknowledge => TypeOK'
<1> SUFFICES ASSUME TypeOK, Acknowledge PROVE TypeOK'
    OBVIOUS
<1> USE DEF Acknowledge, TypeOK
<1>1. /\ waiting' \in [Queues -> SUBSET Event]
      /\ \A q \in Queues : waiting'[q] \subseteq waiting[q]
    OBVIOUS
<1>2. seen' \in SUBSET Message
    BY SentMessages
<1> QED BY <1>1, <1>2

(* The part of a collection that a failing hook does not change.           *)
LEMMA RemoveTypes ==
    ASSUME TypeOK, NEW to_remove \in SUBSET clients, NEW removed \in SUBSET to_remove,
           Remove(to_remove, removed)
    PROVE  /\ clients' \in SUBSET Queues /\ user_clients' \in SUBSET clients'
           /\ waiting' \in [Queues -> SUBSET Event]
           /\ \A q \in Queues : waiting'[q] \subseteq waiting[q]
BY DEF TypeOK, Remove, FilterClientDict, DeleteClients

LEMMA CollectTypes ==
    ASSUME TypeOK, NEW to_remove \in SUBSET clients, Collect(to_remove)
    PROVE  TypeOK'
<1>1. to_remove \in SUBSET Queues
    BY DEF TypeOK
<1>2. CASE do_gc_event_queues(to_remove)
    <2>1. Notified(to_remove, UNION {waiting[q] : q \in to_remove})
            \in SUBSET (Message \X Kinds)
        BY <1>1, NotifiedTypes
    <2>2. noticed' \in SUBSET (Message \X Kinds) /\ again' \in SUBSET noticed'
        BY <1>2, <2>1, PublishTypes DEF do_gc_event_queues
    <2>3. /\ Remove(to_remove, to_remove)
          /\ UNCHANGED <<failures, hook_failed>>
        BY <1>2 DEF do_gc_event_queues
    <2>4. /\ clients' \in SUBSET Queues /\ user_clients' \in SUBSET clients'
          /\ waiting' \in [Queues -> SUBSET Event]
          /\ \A q \in Queues : waiting'[q] \subseteq waiting[q]
        BY <2>3, RemoveTypes
    <2> QED BY <2>2, <2>3, <2>4 DEF Remove, TypeOK
<1>3. CASE do_gc_event_queues_fails(to_remove)
    <2> SUFFICES ASSUME NEW at \in to_remove, NEW removed \in SUBSET (to_remove \ {at}),
                        NEW e \in waiting[at],
                        NEW done \in Interrupted(maybe_enqueue_notifications(
                                                    e.message, TRUE, e.notified)),
                        HookFails(to_remove, removed, at, e, done)
                 PROVE  TypeOK'
        BY <1>3 DEF do_gc_event_queues_fails
    <2>1. /\ Failure /\ hook_failed' = TRUE
          /\ Remove(to_remove, removed)
          /\ Publish(Notified(to_remove,
                        (UNION {waiting[q] : q \in removed})
                            \cup {f \in waiting[at] : f.order < e.order})
                    \cup ({e.message} \X done))
        BY DEF HookFails
    <2>2. {e.message} \X done \in SUBSET (Message \X Kinds)
        <3>1. /\ e.message \in DOMAIN messages /\ e.message \in Message
              /\ e.notified \in SUBSET Kinds
            BY <1>1, SentMessages
        <3>2. maybe_enqueue_notifications(e.message, TRUE, e.notified) \in SUBSET Kinds
            <4>1. messages[e.message].notify \in SUBSET Kinds
                BY <3>1, PublishedKinds
            <4>2. \A already \in SUBSET Kinds :
                    maybe_enqueue_notifications(e.message, TRUE, already)
                        = messages[e.message].notify \ already
                BY <3>1, PublishedKinds
            <4>3. maybe_enqueue_notifications(e.message, TRUE, e.notified)
                    = messages[e.message].notify \ e.notified
                BY <3>1, <4>2
            <4> QED BY <4>1, <4>3
        <3>3. done \in SUBSET maybe_enqueue_notifications(e.message, TRUE, e.notified)
            BY InterruptedKinds
        <3>4. done \in SUBSET Kinds
            BY <3>2, <3>3
        <3> QED BY <3>1, <3>4
    <2>3. Notified(to_remove,
                (UNION {waiting[q] : q \in removed})
                    \cup {f \in waiting[at] : f.order < e.order})
            \in SUBSET (Message \X Kinds)
        <3>1. (UNION {waiting[q] : q \in removed})
                    \cup {f \in waiting[at] : f.order < e.order}
                \subseteq UNION {waiting[q] : q \in Queues}
            <4>1. at \in Queues /\ removed \subseteq Queues
                BY <1>1
            <4> QED BY <4>1
        <3> QED BY <3>1, NotifiedTypes
    <2>4. noticed' \in SUBSET (Message \X Kinds) /\ again' \in SUBSET noticed'
        BY <2>1, <2>2, <2>3, PublishTypes
    <2>5. /\ clients' \in SUBSET Queues /\ user_clients' \in SUBSET clients'
          /\ waiting' \in [Queues -> SUBSET Event]
          /\ \A q \in Queues : waiting'[q] \subseteq waiting[q]
        <3>1. removed \in SUBSET to_remove /\ removed \cup {at} \in SUBSET to_remove
            OBVIOUS
        <3> QED BY <2>1, <3>1, RemoveTypes
    <2>6. failures' \in 0 .. MaxFailures
        BY <2>1, FailureTypes
    <2> QED BY <2>1, <2>4, <2>5, <2>6 DEF Remove, TypeOK
<1> QED BY <1>2, <1>3 DEF Collect

LEMMA CrashTypes == TypeOK /\ Crash => TypeOK'
<1> SUFFICES ASSUME TypeOK, Crash PROVE TypeOK'
    OBVIOUS
<1>1. lost' \in SUBSET Message
    BY SentMessages DEF Crash, TypeOK
<1> QED BY <1>1 DEF Crash, TypeOK

LEMMA NextTypes == TypeOK /\ [Next]_vars => TypeOK'
<1> SUFFICES ASSUME TypeOK, [Next]_vars PROVE TypeOK'
    OBVIOUS
<1>1. CASE SendEvent
    BY <1>1, SendEventTypes
<1>2. CASE ProcessNotification
    BY <1>2, ProcessNotificationTypes
<1>3. CASE ProcessNotificationFails
    BY <1>3, ProcessNotificationFailsTypes
<1>4. CASE Register
    BY <1>4, RegisterTypes
<1>5. CASE Acknowledge
    BY <1>5, AcknowledgeTypes
<1>6. CASE GcEventQueues
    BY <1>6, CollectTypes DEF GcEventQueues
<1>7. CASE CleanupEventQueue
    <2>1. PICK q \in clients : Collect({q})
        BY <1>7 DEF CleanupEventQueue
    <2> QED BY <2>1, CollectTypes
<1>8. CASE Restart
    BY <1>8 DEF Restart, TypeOK
<1>9. CASE Crash
    BY <1>9, CrashTypes
<1>10. CASE UNCHANGED vars
    BY <1>10 DEF vars, TypeOK
<1> QED BY <1>1, <1>2, <1>3, <1>4, <1>5, <1>6, <1>7, <1>8, <1>9, <1>10 DEF Next

-----------------------------------------------------------------------------
(* What a collection does to the registry and the notices.                 *)

LEMMA CollectEffect ==
    ASSUME TypeOK, NEW to_remove \in SUBSET clients, Collect(to_remove)
    PROVE  /\ user_clients' = user_clients \ to_remove
           /\ \A q \in Queues : waiting'[q] = waiting[q] \/ waiting'[q] = {}
           /\ \A q \in clients : q \in clients' \/ waiting'[q] = {}
           /\ UNCHANGED <<messages, inbox, seen, lost>>
           /\ \A t \in noticed' : t \in noticed
                 \/ \E q \in Queues : \E e \in waiting[q] : e.message = t[1]
           /\ do_gc_event_queues(to_remove) \/ (hook_failed' /\ failures' # 0)
<1>1. to_remove \in SUBSET Queues
    BY DEF TypeOK
<1>2. ASSUME NEW removed \in SUBSET to_remove,
             Remove(to_remove, removed)
      PROVE  /\ user_clients' = user_clients \ to_remove
             /\ \A q \in Queues : waiting'[q] = waiting[q] \/ waiting'[q] = {}
             /\ \A q \in clients : q \in clients' \/ waiting'[q] = {}
             /\ UNCHANGED <<messages, inbox, seen, lost>>
    BY <1>1, <1>2 DEF TypeOK, Remove, FilterClientDict, DeleteClients
<1>3. ASSUME NEW events \in SUBSET (UNION {waiting[q] : q \in Queues}),
             NEW t \in Notified(to_remove, events)
      PROVE  \E q \in Queues : \E e \in waiting[q] : e.message = t[1]
    <2>1. t \in HookNotices(events)
        BY DEF Notified
    <2>2. PICK e \in events : e.message = t[1]
        BY <2>1, HookPublishes
    <2> QED BY <2>2
<1>4. CASE do_gc_event_queues(to_remove)
    <2> DEFINE events == UNION {waiting[q] : q \in to_remove}
    <2>1. Remove(to_remove, to_remove) /\ Publish(Notified(to_remove, events))
        BY <1>4 DEF do_gc_event_queues
    <2>2. events \in SUBSET (UNION {waiting[q] : q \in Queues})
        BY <1>1
    <2>3. \A t \in noticed' : t \in noticed
            \/ \E q \in Queues : \E e \in waiting[q] : e.message = t[1]
        <3> HIDE DEF events
        <3> QED BY <1>3, <2>1, <2>2 DEF Publish
    <2> QED BY <1>2, <1>4, <2>1, <2>3
<1>5. CASE do_gc_event_queues_fails(to_remove)
    <2> SUFFICES ASSUME NEW at \in to_remove, NEW removed \in SUBSET (to_remove \ {at}),
                        NEW e \in waiting[at],
                        NEW done \in Interrupted(maybe_enqueue_notifications(
                                                    e.message, TRUE, e.notified)),
                        HookFails(to_remove, removed, at, e, done)
                 PROVE  /\ user_clients' = user_clients \ to_remove
                        /\ \A q \in Queues : waiting'[q] = waiting[q] \/ waiting'[q] = {}
                        /\ \A q \in clients : q \in clients' \/ waiting'[q] = {}
                        /\ UNCHANGED <<messages, inbox, seen, lost>>
                        /\ \A t \in noticed' : t \in noticed
                              \/ \E q \in Queues : \E f \in waiting[q] : f.message = t[1]
                        /\ hook_failed' /\ failures' # 0
        BY <1>5 DEF do_gc_event_queues_fails
    <2> DEFINE events == (UNION {waiting[q] : q \in removed})
                            \cup {f \in waiting[at] : f.order < e.order}
    <2>1. /\ Failure /\ hook_failed' = TRUE
          /\ Remove(to_remove, removed)
          /\ Publish(Notified(to_remove, events) \cup ({e.message} \X done))
        BY DEF HookFails
    <2>2. events \in SUBSET (UNION {waiting[q] : q \in Queues})
        <3>1. at \in Queues /\ removed \subseteq Queues
            BY <1>1
        <3> QED BY <3>1
    <2>3. \A t \in noticed' : t \in noticed
            \/ \E q \in Queues : \E f \in waiting[q] : f.message = t[1]
        <3> HIDE DEF events
        <3>1. \A t \in {e.message} \X done :
                \E q \in Queues : \E f \in waiting[q] : f.message = t[1]
            BY <1>1
        <3>2. \A t \in Notified(to_remove, events) :
                \E q \in Queues : \E f \in waiting[q] : f.message = t[1]
            BY <1>3, <2>2
        <3> QED BY <2>1, <3>1, <3>2 DEF Publish
    <2>4. failures' # 0
        BY <2>1 DEF Failure, TypeOK
    <2>5. removed \in SUBSET to_remove
        OBVIOUS
    <2> QED BY <1>2, <2>1, <2>3, <2>4, <2>5
<1> QED BY <1>4, <1>5 DEF Collect

(* Every handler that may publish only adds to what is noticed.            *)
LEMMA NoticedGrows ==
    ASSUME [Next]_vars
    PROVE  noticed \subseteq noticed'
<1>1. \A new : Publish(new) => noticed \subseteq noticed'
    BY DEF Publish
<1>2. \A to_remove : Collect(to_remove) => noticed \subseteq noticed'
    BY <1>1 DEF Collect, do_gc_event_queues, do_gc_event_queues_fails, HookFails
<1>3. CASE ProcessNotification \/ ProcessNotificationFails
    BY <1>1, <1>3 DEF ProcessNotification, ProcessNotificationFails, process_message_event
<1>4. CASE GcEventQueues \/ CleanupEventQueue
    BY <1>2, <1>4 DEF GcEventQueues, CleanupEventQueue
<1>5. CASE SendEvent \/ Register \/ Acknowledge \/ Restart \/ Crash \/ UNCHANGED vars
    BY <1>5 DEF SendEvent, Register, Acknowledge, Restart, Crash, vars
<1> QED BY <1>3, <1>4, <1>5 DEF Next

-----------------------------------------------------------------------------
(* SentInv and RegistryInv                                                 *)

LEMMA SentStep == TypeOK /\ SentInv /\ [Next]_vars => SentInv'
<1> SUFFICES ASSUME TypeOK, SentInv, [Next]_vars PROVE SentInv'
    OBVIOUS
<1> USE DEF SentInv
<1>1. CASE SendEvent
    <2>1. Len(messages') = Len(messages) + 1 /\ Len(messages) \in Nat
        BY <1>1 DEF SendEvent, TypeOK
    <2>2. \A t \in noticed : t[1] \in Nat
        BY DEF TypeOK, Message
    <2> QED BY <1>1, <2>1, <2>2 DEF SendEvent
<1>2. CASE ProcessNotification
    <2>1. PICK n \in inbox : process_message_event(n.message)
                /\ UNCHANGED <<messages, clients, user_clients>>
        BY <1>2 DEF ProcessNotification
    <2>2. n.message \in DOMAIN messages /\ n.message <= Len(messages)
        BY SentMessages
    <2>3. \A t \in noticed' : t[1] <= Len(messages')
        BY <2>1, <2>2 DEF process_message_event, Publish
    <2>4. \A q \in Queues \ clients' : waiting'[q] = {}
        BY <2>1 DEF process_message_event, TypeOK
    <2> QED BY <2>3, <2>4
<1>3. CASE ProcessNotificationFails
    <2>1. PICK n \in inbox : \E done \in Interrupted(NotifiedNow(n.message)) :
                /\ Publish({n.message} \X done)
                /\ UNCHANGED <<messages, clients, waiting>>
        BY <1>3 DEF ProcessNotificationFails
    <2>2. n.message <= Len(messages)
        BY DEF TypeOK
    <2> QED BY <2>1, <2>2 DEF Publish
<1>4. CASE Register
    BY <1>4 DEF Register, TypeOK
<1>5. CASE Acknowledge
    BY <1>5 DEF Acknowledge, TypeOK
<1>6. ASSUME NEW to_remove \in SUBSET clients, Collect(to_remove)
      PROVE  SentInv'
    <2>1. \A q \in Queues : \A e \in waiting[q] : e.message <= Len(messages)
        BY DEF TypeOK
    <2> QED BY <1>6, <2>1, CollectEffect
<1>7. CASE GcEventQueues
    BY <1>6, <1>7 DEF GcEventQueues
<1>8. CASE CleanupEventQueue
    <2>1. PICK q \in clients : Collect({q})
        BY <1>8 DEF CleanupEventQueue
    <2> QED BY <1>6, <2>1
<1>9. CASE Restart
    BY <1>9 DEF Restart
<1>10. CASE Crash
    BY <1>10 DEF Crash
<1>11. CASE UNCHANGED vars
    BY <1>11 DEF vars
<1> QED BY <1>1, <1>2, <1>3, <1>4, <1>5, <1>7, <1>8, <1>9, <1>10, <1>11 DEF Next

LEMMA RegistryStep == TypeOK /\ RegistryInv /\ [Next]_vars => RegistryInv'
<1> SUFFICES ASSUME TypeOK, RegistryInv, [Next]_vars PROVE RegistryInv'
    OBVIOUS
<1> USE DEF RegistryInv
<1>1. ASSUME NEW to_remove \in SUBSET clients, Collect(to_remove)
      PROVE  RegistryInv'
    <2>1. CASE do_gc_event_queues(to_remove)
        BY <2>1 DEF do_gc_event_queues, Remove, FilterClientDict, DeleteClients
    <2> QED BY <1>1, <2>1, CollectEffect
<1>2. CASE GcEventQueues
    BY <1>1, <1>2 DEF GcEventQueues
<1>3. CASE CleanupEventQueue
    <2>1. PICK q \in clients : Collect({q})
        BY <1>3 DEF CleanupEventQueue
    <2> QED BY <1>1, <2>1
<1>4. CASE Register
    BY <1>4 DEF Register
<1>5. CASE Restart
    BY <1>5 DEF Restart
<1>6. CASE Crash
    BY <1>6 DEF Crash
<1>7. CASE SendEvent \/ ProcessNotification \/ ProcessNotificationFails
             \/ Acknowledge \/ UNCHANGED vars
    BY <1>7 DEF SendEvent, ProcessNotification, ProcessNotificationFails,
                Acknowledge, vars
<1> QED BY <1>2, <1>3, <1>4, <1>5, <1>6, <1>7 DEF Next

-----------------------------------------------------------------------------
(* CareInv: what is not dealt with is in hand                              *)

Cared(m) == Pending(m) \/ DealtWith(m) \/ InEachQueue(m)

(* Publishing and acknowledging only help.                                 *)
LEMMA StaysDealtWith ==
    ASSUME NEW m, DealtWith(m), noticed \subseteq noticed',
           seen \subseteq seen', lost \subseteq lost', messages'[m] = messages[m]
    PROVE  DealtWith(m)'
BY DEF DealtWith

LEMMA SendEventCare ==
    ASSUME TypeOK, NEW m \in DOMAIN messages', SendEvent,
           m \in DOMAIN messages => Cared(m)
    PROVE  Cared(m)'
<1>1. PICK data \in MessageData : messages' = Append(messages, data)
    BY DEF SendEvent
<1>2. /\ DOMAIN messages' = 1 .. Len(messages) + 1 /\ Len(messages) \in Nat
      /\ DOMAIN messages = 1 .. Len(messages)
      /\ \A i \in DOMAIN messages : messages'[i] = messages[i]
    BY <1>1 DEF TypeOK
<1>3. CASE m \in DOMAIN messages
    BY <1>2, <1>3 DEF SendEvent, Cared, Pending, DealtWith, InEachQueue, InHand
<1>4. CASE m = Len(messages) + 1
    <2> DEFINE n == [message |-> Len(messages) + 1, failed_tries |-> 0]
    <2>1. n \in inbox' /\ n.message = m
        BY <1>4 DEF SendEvent
    <2> HIDE DEF n
    <2> QED BY <2>1 DEF Cared, Pending
<1> QED BY <1>2, <1>3, <1>4

LEMMA ProcessNotificationCare ==
    ASSUME TypeOK, Queues \subseteq MessageQueues, NEW m \in DOMAIN messages,
           ProcessNotification, Cared(m)
    PROVE  Cared(m)'
<1>1. PICK n \in inbox : /\ process_message_event(n.message)
                         /\ inbox' = inbox \ {n} \/ UNCHANGED inbox
                         /\ UNCHANGED <<messages, clients, user_clients, seen, lost>>
    BY DEF ProcessNotification
<1>2. noticed \subseteq noticed' /\ {n.message} \X NotifiedNow(n.message) \subseteq noticed'
    BY <1>1 DEF process_message_event, Publish
<1>3. CASE DealtWith(m)
    BY <1>1, <1>2, <1>3, StaysDealtWith DEF Cared
<1>4. CASE InEachQueue(m)
    <2>1. \A q \in user_clients : q \in Queues /\ waiting[q] \subseteq waiting'[q]
        BY <1>1 DEF process_message_event, TypeOK
    <2> QED BY <1>1, <1>2, <1>4, <2>1 DEF Cared, InEachQueue, InHand
<1>5. CASE m # n.message /\ Pending(m)
    BY <1>1, <1>5 DEF Cared, Pending
<1>6. CASE m = n.message
    <2> DEFINE event == [order |-> deliveries, message |-> m,
                         notified |-> InternalData(m)]
    <2>1. InternalData(m) = NotifiedNow(m)
        BY ArrivalTypes
    <2>2. CASE receiver_is_off_zulip
        <3>1. NotifiedNow(m) = messages[m].notify
            BY <2>2 DEF NotifiedNow, maybe_enqueue_notifications, Notifiable
        <3> QED BY <1>1, <1>2, <1>6, <3>1 DEF Cared, DealtWith
    <2>3. CASE ~receiver_is_off_zulip
        <3>1. user_clients # {}
            BY <2>3 DEF receiver_is_off_zulip
        <3>2. \A q \in user_clients : event \in waiting'[q]
            BY <1>1, <1>6 DEF process_message_event, TypeOK
        <3>3. {m} \X (messages[m].notify \cap event.notified) \subseteq noticed'
            BY <1>2, <1>6, <2>1
        <3>4. event.message = m
            OBVIOUS
        <3> HIDE DEF event
        <3>5. \A q \in user_clients' : InHand(m, q)'
            BY <1>1, <3>2, <3>3, <3>4 DEF InHand
        <3> QED BY <1>1, <3>1, <3>5 DEF Cared, InEachQueue
    <2> QED BY <2>2, <2>3
<1> QED BY <1>3, <1>4, <1>5, <1>6 DEF Cared

LEMMA ProcessNotificationFailsCare ==
    ASSUME TypeOK, NEW m \in DOMAIN messages, ProcessNotificationFails, Cared(m)
    PROVE  Cared(m)'
<1>1. PICK n \in inbox : /\ \E done : Publish({n.message} \X done)
                         /\ retry_event(n) \/ UNCHANGED <<inbox, lost>>
                         /\ UNCHANGED <<messages, user_clients, waiting, seen>>
    BY DEF ProcessNotificationFails
<1>2. noticed \subseteq noticed' /\ lost \subseteq lost'
    BY <1>1 DEF Publish, retry_event
<1>3. CASE DealtWith(m)
    BY <1>1, <1>2, <1>3, StaysDealtWith DEF Cared
<1>4. CASE InEachQueue(m)
    BY <1>1, <1>2, <1>4 DEF Cared, InEachQueue, InHand
<1>5. CASE Pending(m)
    <2>1. PICK i \in inbox : i.message = m
        BY <1>5 DEF Pending
    <2>2. CASE i \in inbox'
        BY <2>1, <2>2 DEF Cared, Pending
    <2>3. CASE i \notin inbox'
        <3>1. i = n /\ retry_event(n)
            BY <1>1, <2>1, <2>3 DEF retry_event
        <3> DEFINE retried == [message |-> n.message,
                               failed_tries |-> n.failed_tries + 1]
        <3>2. n.message \in lost' \/ retried \in inbox'
            BY <3>1 DEF retry_event
        <3>3. retried.message = m
            BY <2>1, <3>1
        <3> HIDE DEF retried
        <3> QED BY <2>1, <3>1, <3>2, <3>3 DEF Cared, Pending, DealtWith
    <2> QED BY <2>2, <2>3
<1> QED BY <1>3, <1>4, <1>5 DEF Cared

LEMMA AcknowledgeCare ==
    ASSUME TypeOK, NEW m \in DOMAIN messages, Acknowledge, Cared(m)
    PROVE  Cared(m)'
<1>0. PICK q \in clients : \E last \in waiting[q] :
        LET acknowledged == {e \in waiting[q] : e.order <= last.order}
        IN  /\ waiting' = [waiting EXCEPT ![q] = @ \ acknowledged]
            /\ seen' = seen \cup {e.message : e \in acknowledged}
            /\ UNCHANGED <<messages, inbox, clients, user_clients, noticed, lost>>
    BY DEF Acknowledge
<1> PICK last \in waiting[q] :
        LET acknowledged == {e \in waiting[q] : e.order <= last.order}
        IN  /\ waiting' = [waiting EXCEPT ![q] = @ \ acknowledged]
            /\ seen' = seen \cup {e.message : e \in acknowledged}
            /\ UNCHANGED <<messages, inbox, clients, user_clients, noticed, lost>>
    BY <1>0
<1> DEFINE acknowledged == {e \in waiting[q] : e.order <= last.order}
<1>1. /\ waiting' = [waiting EXCEPT ![q] = @ \ acknowledged]
      /\ seen' = seen \cup {e.message : e \in acknowledged}
      /\ UNCHANGED <<messages, inbox, clients, user_clients, noticed, lost>>
    OBVIOUS
<1>2. /\ seen \subseteq seen' /\ \A e \in acknowledged : e.message \in seen'
      /\ \A p \in Queues : waiting'[p] = waiting[p]
            \/ waiting'[p] = waiting[p] \ acknowledged
    BY <1>1 DEF TypeOK
<1> HIDE DEF acknowledged
<1>3. CASE Pending(m) \/ DealtWith(m)
    BY <1>1, <1>2, <1>3, StaysDealtWith DEF Cared, Pending
<1>4. CASE InEachQueue(m) /\ m \notin seen'
    <2>1. ASSUME NEW p \in user_clients
          PROVE  InHand(m, p)'
        <3>1. PICK e \in waiting[p] : e.message = m
                /\ {m} \X (messages[m].notify \cap e.notified) \subseteq noticed
            BY <1>4 DEF InEachQueue, InHand
        <3>2. e \in waiting'[p]
            BY <1>2, <1>4, <3>1 DEF TypeOK
        <3> QED BY <1>1, <3>1, <3>2 DEF InHand
    <2> QED BY <1>1, <1>4, <2>1 DEF Cared, InEachQueue
<1> QED BY <1>3, <1>4 DEF Cared, DealtWith

(* The last collection notifies of what waits in the queues it removes.    *)
LEMMA CollectCare ==
    ASSUME TypeOK, NEW m \in DOMAIN messages, NEW to_remove \in SUBSET clients,
           do_gc_event_queues(to_remove), Cared(m)
    PROVE  Cared(m)'
<1> DEFINE events == UNION {waiting[q] : q \in to_remove}
<1>1. /\ Publish(Notified(to_remove, events))
      /\ user_clients' = user_clients \ to_remove
      /\ waiting' = [q \in Queues |-> IF q \in to_remove THEN {} ELSE waiting[q]]
      /\ UNCHANGED <<messages, inbox, seen, lost>>
    BY DEF do_gc_event_queues, Remove, FilterClientDict
<1>2. noticed \subseteq noticed' /\ Notified(to_remove, events) \subseteq noticed'
    BY <1>1 DEF Publish
<1>3. CASE Pending(m) \/ DealtWith(m)
    BY <1>1, <1>2, <1>3, StaysDealtWith DEF Cared, Pending
<1>4. CASE InEachQueue(m) /\ user_clients' # {}
    BY <1>1, <1>2, <1>4 DEF Cared, InEachQueue, InHand, TypeOK
<1>5. CASE InEachQueue(m) /\ user_clients' = {}
    <2>1. PICK q \in user_clients : q \in to_remove /\ InHand(m, q)
        BY <1>1, <1>5 DEF InEachQueue
    <2>2. PICK e \in waiting[q] : e.message = m
            /\ {m} \X (messages[m].notify \cap e.notified) \subseteq noticed
        BY <2>1 DEF InHand
    <2>3. e \in events /\ events \subseteq UNION {waiting[p] : p \in Queues}
        BY <2>1, <2>2 DEF TypeOK
    <2>4. Notified(to_remove, events) = HookNotices(events)
        BY <1>1, <1>5 DEF Notified, LastForClient
    <2>5. m \in Message /\ messages[m].notify \in SUBSET Kinds
        BY SentMessages, PublishedKinds
    <2> HIDE DEF events
    <2>6. \A kind \in messages[m].notify \ e.notified :
            <<m, kind>> \in HookNotices(events)
        BY <2>2, <2>3, <2>5, HookPublishes
    <2>7. {m} \X messages[m].notify \subseteq noticed'
        BY <1>2, <2>2, <2>4, <2>6
    <2> QED BY <1>1, <2>7 DEF Cared, DealtWith
<1> QED BY <1>3, <1>4, <1>5 DEF Cared

LEMMA CareStep ==
    TypeOK /\ RegistryInv /\ CareInv /\ [Next]_vars => CareInv'
<1> SUFFICES ASSUME TypeOK, RegistryInv, CareInv, [Next]_vars,
                    Queues \subseteq MessageQueues, ~hook_failed',
                    NEW m \in DOMAIN messages'
             PROVE  Cared(m)'
    BY DEF CareInv, Cared
<1>1. ~hook_failed
    BY DEF Next, vars, SendEvent, ProcessNotification, ProcessNotificationFails,
           Register, Acknowledge, GcEventQueues, CleanupEventQueue, Collect,
           do_gc_event_queues, do_gc_event_queues_fails, HookFails, Restart, Crash
<1>2. \A i \in DOMAIN messages : Cared(i)
    BY <1>1 DEF CareInv, Cared
<1>3. clients = user_clients
    BY <1>1 DEF RegistryInv
<1>4. CASE SendEvent
    BY <1>2, <1>4, SendEventCare
<1>5. ASSUME UNCHANGED messages
      PROVE  m \in DOMAIN messages /\ Cared(m)
    BY <1>2, <1>5
<1>6. CASE ProcessNotification
    BY <1>5, <1>6, ProcessNotificationCare DEF ProcessNotification
<1>7. CASE ProcessNotificationFails
    BY <1>5, <1>7, ProcessNotificationFailsCare DEF ProcessNotificationFails
<1>8. CASE Register
    <2>1. PICK q \in Queues \ clients : seen' = seen \cup 1 .. Len(messages)
        BY <1>8 DEF Register
    <2>2. m \in seen'
        BY <1>5, <1>8, <2>1, SentMessages DEF Register
    <2> QED BY <2>2 DEF Cared, DealtWith
<1>9. CASE Acknowledge
    BY <1>5, <1>9, AcknowledgeCare DEF Acknowledge
<1>10. ASSUME NEW to_remove \in SUBSET clients, Collect(to_remove)
       PROVE  Cared(m)'
    <2>1. do_gc_event_queues(to_remove) /\ UNCHANGED messages
        BY <1>10, CollectEffect
    <2> QED BY <1>5, <2>1, CollectCare
<1>11. CASE GcEventQueues
    BY <1>10, <1>11 DEF GcEventQueues
<1>12. CASE CleanupEventQueue
    <2>1. PICK q \in clients : Collect({q})
        BY <1>12 DEF CleanupEventQueue
    <2> QED BY <1>10, <2>1
<1>13. CASE Restart
    BY <1>3, <1>5, <1>13
       DEF Restart, Cared, Pending, DealtWith, InEachQueue, InHand
<1>14. CASE Crash
    <2>1. CASE InEachQueue(m)
        <3>1. PICK q \in Queues : InHand(m, q)
            BY <2>1 DEF InEachQueue, TypeOK
        <3>2. m \in lost'
            BY <1>14, <3>1 DEF Crash, InHand
        <3> QED BY <3>2 DEF Cared, DealtWith
    <2>2. CASE Pending(m) \/ DealtWith(m)
        BY <1>5, <1>14, <2>2 DEF Crash, Cared, Pending, DealtWith
    <2> QED BY <1>5, <1>14, <2>1, <2>2 DEF Crash, Cared
<1>15. CASE UNCHANGED vars
    BY <1>5, <1>15 DEF vars, Cared, Pending, DealtWith, InEachQueue, InHand
<1> QED BY <1>4, <1>6, <1>7, <1>8, <1>9, <1>11, <1>12, <1>13, <1>14, <1>15 DEF Next

-----------------------------------------------------------------------------
(* FreshInv: what may still be published has not been                      *)

(* What is fresh stays so when no notice is added and nothing new waits.   *)
LEMMA StaysFresh ==
    ASSUME FreshInv, UNCHANGED <<messages, noticed, again, failures, hook_failed>>,
           inbox' \subseteq inbox,
           \A q \in Queues : waiting'[q] \subseteq waiting[q]
    PROVE  FreshInv'
BY DEF FreshInv

LEMMA SendEventFresh ==
    TypeOK /\ SentInv /\ FreshInv /\ SendEvent => FreshInv'
<1> SUFFICES ASSUME TypeOK, SentInv, FreshInv, SendEvent, failures = 0
             PROVE  FreshInv'
    BY DEF FreshInv, SendEvent
<1> DEFINE n == [message |-> Len(messages) + 1, failed_tries |-> 0]
<1>1. PICK data \in MessageData : messages' = Append(messages, data)
    BY DEF SendEvent
<1>2. \A i \in DOMAIN messages : messages'[i] = messages[i]
    BY <1>1 DEF TypeOK
<1>3. n.message = Len(messages) + 1 /\ Len(messages) \in Nat
      /\ inbox' = inbox \cup {n}
    BY SentMessages DEF SendEvent
<1> HIDE DEF n
<1>4. /\ \A t \in noticed : t[1] <= Len(messages) /\ t[1] \in Nat
      /\ \A i \in inbox : i.message <= Len(messages) /\ i.message \in Nat
      /\ \A q \in Queues : \A e \in waiting[q] :
            e.message <= Len(messages) /\ e.message \in DOMAIN messages
            /\ e.message \in Nat
    BY SentMessages DEF TypeOK, SentInv, Message, Notice
<1>5. /\ \A t \in noticed : t[1] # n.message
      /\ \A i \in inbox : i.message # n.message
      /\ \A q \in Queues : \A e \in waiting[q] : e.message # n.message
    BY <1>3, <1>4
<1>6. UNCHANGED <<waiting, noticed, again, failures, hook_failed>>
    BY DEF SendEvent
<1>7. \A q \in Queues : \A e \in waiting[q] :
          messages'[e.message] = messages[e.message]
    BY <1>2, <1>4
<1> QED BY <1>3, <1>5, <1>6, <1>7 DEF FreshInv

LEMMA ProcessNotificationFresh ==
    TypeOK /\ FreshInv /\ ProcessNotification => FreshInv'
<1> SUFFICES ASSUME TypeOK, FreshInv, ProcessNotification, failures' = 0
             PROVE  FreshInv'
    BY DEF FreshInv
<1>1. PICK n \in inbox : /\ process_message_event(n.message)
                         /\ inbox' = inbox \ {n} /\ UNCHANGED failures
                         /\ UNCHANGED <<messages, hook_failed>>
    BY DEF ProcessNotification, Failure, TypeOK
<1> DEFINE m == n.message
           kinds == NotifiedNow(m)
           event == [order |-> deliveries, message |-> m,
                     notified |-> InternalData(m)]
<1>2. event.message = m /\ event.notified = kinds
    BY SentMessages, ArrivalTypes
<1>3. /\ noticed' = noticed \cup ({m} \X kinds)
      /\ again' = again \cup (({m} \X kinds) \cap noticed)
      /\ \A q \in Queues : waiting'[q] \subseteq waiting[q] \cup {event}
    BY <1>1 DEF process_message_event, Publish
<1> HIDE DEF event, kinds
<1>4. /\ \A t \in noticed : t[1] # m
      /\ \A i \in inbox' : i.message # m
      /\ \A q \in Queues : \A e \in waiting[q] : e.message # m
    BY <1>1 DEF FreshInv
<1>5. /\ again' = {} /\ ~hook_failed'
      /\ \A i \in inbox' : \A t \in noticed' : t[1] # i.message
      /\ \A n1, n2 \in inbox' : n1.message = n2.message => n1 = n2
    BY <1>1, <1>3, <1>4 DEF FreshInv
<1>6. ASSUME NEW q \in Queues, NEW e \in waiting'[q]
      PROVE  /\ \A i \in inbox' : i.message # e.message
             /\ \A kind \in messages'[e.message].notify \ e.notified :
                    <<e.message, kind>> \notin noticed'
    <2>1. CASE e \in waiting[q]
        BY <1>1, <1>3, <1>4, <2>1 DEF FreshInv
    <2>2. CASE e = event
        BY <1>1, <1>2, <1>3, <1>4, <2>2
    <2> QED BY <1>3, <2>1, <2>2
<1> QED BY <1>5, <1>6 DEF FreshInv

(* A collection that notifies leaves no event behind.                      *)
LEMMA CollectFresh ==
    ASSUME TypeOK, SentInv, RegistryInv, FreshInv, failures = 0,
           NEW to_remove \in SUBSET clients, do_gc_event_queues(to_remove)
    PROVE  FreshInv'
<1> DEFINE events == UNION {waiting[q] : q \in to_remove}
<1>1. /\ Publish(Notified(to_remove, events))
      /\ waiting' = [q \in Queues |-> IF q \in to_remove THEN {} ELSE waiting[q]]
      /\ UNCHANGED <<messages, inbox, failures, hook_failed>>
    BY DEF do_gc_event_queues, Remove
<1>2. events \subseteq UNION {waiting[q] : q \in Queues}
    BY DEF TypeOK
<1> HIDE DEF events
<1>3. CASE ~LastForClient(to_remove)
    <2>1. noticed' = noticed /\ again' = again
        BY <1>1, <1>3 DEF Publish, Notified
    <2> QED BY <1>1, <2>1, StaysFresh
<1>4. CASE LastForClient(to_remove)
    <2>1. clients = user_clients
        BY DEF RegistryInv, FreshInv
    <2>2. \A q \in Queues : waiting'[q] = {}
        BY <1>1, <1>4, <2>1 DEF SentInv, LastForClient
    <2>3. ASSUME NEW t \in HookNotices(events)
          PROVE  t \notin noticed /\ \A n \in inbox : t[1] # n.message
        <3>1. PICK e \in events : /\ t \in Message \X Kinds /\ e.message = t[1]
                                  /\ t[2] \in messages[t[1]].notify \ e.notified
            BY <1>2, HookPublishes
        <3>2. PICK q \in Queues : e \in waiting[q]
            BY <1>2, <3>1
        <3>3. t = <<t[1], t[2]>>
            BY <3>1
        <3> QED BY <3>1, <3>2, <3>3 DEF FreshInv
    <2>4. noticed' = noticed \cup HookNotices(events)
          /\ again' = again \cup (HookNotices(events) \cap noticed)
        BY <1>1, <1>4 DEF Publish, Notified
    <2>5. again' = {}
        BY <2>3, <2>4 DEF FreshInv
    <2> QED BY <1>1, <2>2, <2>3, <2>4, <2>5 DEF FreshInv
<1> QED BY <1>3, <1>4

LEMMA FreshStep ==
    TypeOK /\ SentInv /\ RegistryInv /\ FreshInv /\ [Next]_vars => FreshInv'
<1> SUFFICES ASSUME TypeOK, SentInv, RegistryInv, FreshInv, [Next]_vars
             PROVE  FreshInv'
    OBVIOUS
<1>1. CASE SendEvent
    BY <1>1, SendEventFresh
<1>2. CASE ProcessNotification
    BY <1>2, ProcessNotificationFresh
<1>3. CASE ProcessNotificationFails
    <2>1. failures' # 0
        BY <1>3 DEF ProcessNotificationFails, Failure, TypeOK
    <2> QED BY <2>1 DEF FreshInv
<1>4. CASE Register
    <2>1. \A q \in Queues : waiting'[q] \subseteq waiting[q]
        BY <1>4 DEF Register, TypeOK
    <2> QED BY <1>4, <2>1, StaysFresh DEF Register
<1>5. CASE Acknowledge
    <2>1. \A q \in Queues : waiting'[q] \subseteq waiting[q]
        BY <1>5 DEF Acknowledge, TypeOK
    <2> QED BY <1>5, <2>1, StaysFresh DEF Acknowledge
<1>6. ASSUME NEW to_remove \in SUBSET clients, Collect(to_remove)
      PROVE  FreshInv'
    <2>1. CASE do_gc_event_queues(to_remove) /\ failures = 0
        BY <2>1, CollectFresh
    <2>2. CASE do_gc_event_queues(to_remove) /\ failures # 0
        BY <2>2 DEF do_gc_event_queues, FreshInv
    <2>3. CASE failures' # 0
        BY <2>3 DEF FreshInv
    <2> QED BY <1>6, <2>1, <2>2, <2>3, CollectEffect
<1>7. CASE GcEventQueues
    BY <1>6, <1>7 DEF GcEventQueues
<1>8. CASE CleanupEventQueue
    <2>1. PICK q \in clients : Collect({q})
        BY <1>8 DEF CleanupEventQueue
    <2> QED BY <1>6, <2>1
<1>9. CASE Restart
    BY <1>9, StaysFresh DEF Restart
<1>10. CASE Crash
    <2>1. \A q \in Queues : waiting'[q] \subseteq waiting[q]
        BY <1>10 DEF Crash
    <2> QED BY <1>10, <2>1, StaysFresh DEF Crash
<1>11. CASE UNCHANGED vars
    BY <1>11, StaysFresh DEF vars
<1> QED BY <1>1, <1>2, <1>3, <1>4, <1>5, <1>7, <1>8, <1>9, <1>10, <1>11 DEF Next

-----------------------------------------------------------------------------
(* NotificationsInv is an invariant: the registry, the queues and the      *)
(* notices agree on which messages are still in hand.                      *)
THEOREM NotificationsCorrect == Spec => []NotificationsInv
<1>1. Init => NotificationsInv
    <2> SUFFICES ASSUME Init PROVE NotificationsInv
        OBVIOUS
    <2>1. TypeOK
        BY InitTypes
    <2>2. SentInv /\ RegistryInv
        BY DEF Init, SentInv, RegistryInv
    <2>3. CareInv
        BY DEF Init, CareInv
    <2>4. FreshInv
        BY DEF Init, FreshInv
    <2> QED BY <2>1, <2>2, <2>3, <2>4 DEF NotificationsInv
<1>2. NotificationsInv /\ [Next]_vars => NotificationsInv'
    BY NextTypes, SentStep, RegistryStep, CareStep, FreshStep DEF NotificationsInv
<1> QED BY <1>1, <1>2, PTL DEF Spec

(* The maps, the queues, the inbox and the notices keep their types, for   *)
(* any clients and any number of messages: what waits in an inbox or in a  *)
(* queue is a message the user was sent.                                   *)
THEOREM TypeCorrect == Spec => []TypeOK
<1>1. NotificationsInv => TypeOK
    BY DEF NotificationsInv
<1> QED BY <1>1, NotificationsCorrect, PTL

(* A user whose clients all take messages has seen each message or has     *)
(* been notified of it when no queue is left.                              *)
THEOREM NotifiedOrSeenCorrect ==
    ASSUME Queues \subseteq MessageQueues
    PROVE  Spec => []NotifiedOrSeen
<1>1. NotificationsInv => NotifiedOrSeen
    BY DEF NotificationsInv, TypeOK, CareInv, InEachQueue, NotifiedOrSeen
<1> QED BY <1>1, NotificationsCorrect, PTL

(* No notice is published by two handlers, whatever event types the        *)
(* clients take.                                                           *)
THEOREM NoticedOnceCorrect == Spec => []NoticedOnce
<1>1. NotificationsInv => NoticedOnce
    BY DEF NotificationsInv, FreshInv, NoticedOnce
<1> QED BY <1>1, NotificationsCorrect, PTL
=============================================================================
