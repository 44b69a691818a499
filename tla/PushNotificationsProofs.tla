----------------------- MODULE PushNotificationsProofs -----------------------
(***************************************************************************)
(* No notification is sent while it is shown, for any messages and any     *)
(* bounds.  The inductive invariant says why: what is shown and has a row  *)
(* keeps its flag active_mobile_push_notification, and the worker, from    *)
(* the moment it decides to push, holds messages that are not shown.       *)
(* What is read is removed: the second part relates every message on the   *)
(* device to the removals in the queue and to what each request has still  *)
(* to do.                                                                  *)
(***************************************************************************)
EXTENDS PushNotifications, SequenceTheorems, TLAPS

OfSent ==
    /\ shown \subseteq sent
    /\ \A i \in 1 .. Len(queue) : queue[i].message_ids \subseteq sent
    /\ \A r \in requests : r.message_ids \subseteq sent

OneEach ==
    \A i \in 1 .. Len(queue) :
        queue[i].type = "add" => \E m \in Messages : queue[i].message_ids = {m}

ShownIsActive == \A m \in shown \cap rows : active \in flags[m]

(* What the worker has in hand.                                            *)
InHand ==
    /\ pc \in {"save", "push"} => Current.message_ids \cap shown = {}
    /\ pc = "push" => \A m \in Ids : active \in flags[m]
    /\ pc = "clear" => Ids \cap shown = {}
    /\ user_message = {}

IInv == TypeOK /\ OfSent /\ OneEach /\ ShownIsActive /\ InHand /\ PushedOnce

-----------------------------------------------------------------------------
LEMMA AppendNotice ==
    ASSUME NEW s \in Seq(Notice), NEW n \in Notice
    PROVE  /\ Append(s, n) \in Seq(Notice)
           /\ Len(Append(s, n)) = Len(s) + 1
           /\ \A i \in 1 .. Len(s) + 1 :
                (i \in 1 .. Len(s) /\ Append(s, n)[i] = s[i]) \/ Append(s, n)[i] = n
           /\ s # <<>> => Head(Append(s, n)) = Head(s)
           /\ Append(s, n) # <<>>
  <1>. DEFINE t == Append(s, n)
  <1>1. t \in Seq(Notice) /\ Len(t) = Len(s) + 1 /\ Len(s) \in Nat
    OBVIOUS
  <1>2. ASSUME NEW i \in 1 .. Len(s) + 1
        PROVE  (i \in 1 .. Len(s) /\ t[i] = s[i]) \/ t[i] = n
    BY <1>1
  <1>3. s # <<>> => Head(t) = Head(s)
    BY <1>1
  <1>. QED  BY <1>1, <1>2, <1>3

LEMMA HeadNotice ==
    ASSUME NEW s \in Seq(Notice), s # <<>>
    PROVE  /\ Head(s) \in Notice /\ Head(s) = s[1] /\ 1 \in 1 .. Len(s)
           /\ Tail(s) \in Seq(Notice)
           /\ \A i \in 1 .. Len(Tail(s)) :
                i + 1 \in 1 .. Len(s) /\ Tail(s)[i] = s[i + 1]
  <1>1. Len(s) \in Nat \ {0} /\ Tail(s) \in Seq(Notice) /\ Len(Tail(s)) = Len(s) - 1
    OBVIOUS
  <1>. QED  BY <1>1

(* The records of the queue.                                               *)
LEMMA NoticeFields ==
    ASSUME NEW n \in Notice
    PROVE  /\ n.message_ids \in SUBSET Messages
           /\ n.type \in {"add", "remove"}
           /\ n.failed_tries \in 0 .. MAX_REQUEST_RETRIES
           /\ MAX_REQUEST_RETRIES \in Nat
  BY BoundsAssumption DEF Notice

LEMMA StepsLeft ==
    ASSUME NEW s \in Seq(Steps), s # <<>>, Len(s) # 1
    PROVE  Tail(s) \in Seq(Steps) /\ Tail(s) # <<>>
  <1>1. Len(s) \in Nat \ {0, 1} /\ Tail(s) \in Seq(Steps) /\ Len(Tail(s)) = Len(s) - 1
    OBVIOUS
  <1>2. Tail(s) = <<>> => Len(Tail(s)) = 0
    BY <1>1, EmptySeq
  <1>. QED  BY <1>1, <1>2

(* A request that has executed a statement.                                *)
LEMMA ContinueRequest ==
    ASSUME requests \subseteq Request, \A r \in requests : r.steps # <<>>,
           NEW r \in requests, NEW ids \in SUBSET Messages,
           Continue(r, ids)
    PROVE  /\ requests' \subseteq Request
           /\ \A q \in requests' : q.steps # <<>>
           /\ \A q \in requests' : q \in requests \/ q.message_ids = ids
  <1>1. r \in Request /\ r.steps \in Seq(Steps) /\ r.steps # <<>>
    BY DEF Request
  <1>2. CASE Len(r.steps) = 1
    BY <1>2 DEF Continue
  <1>3. CASE Len(r.steps) # 1
    <2>. DEFINE q == [r EXCEPT !.steps = Tail(@), !.message_ids = ids]
    <2>1. Tail(r.steps) \in Seq(Steps) /\ Tail(r.steps) # <<>>
      BY <1>1, <1>3, StepsLeft
    <2>2. q \in Request /\ q.steps = Tail(r.steps) /\ q.message_ids = ids
      BY <1>1, <2>1 DEF Request
    <2>. QED  BY <1>3, <2>1, <2>2 DEF Continue
  <1>. QED  BY <1>2, <1>3

-----------------------------------------------------------------------------
(* The conjuncts of TypeOK a step leaves alone are cited as a whole.       *)
LEMMA QueueGrows ==
    ASSUME TypeOK, OfSent, OneEach, NEW n \in Notice, n.message_ids \subseteq sent,
           n.type = "add" => \E m \in Messages : n.message_ids = {m},
           queue' = Append(queue, n)
    PROVE  /\ queue' \in Seq(Notice) /\ queue' # <<>>
           /\ queue # <<>> => Head(queue') = Head(queue)
           /\ \A i \in 1 .. Len(queue') : queue'[i].message_ids \subseteq sent
           /\ OneEach'
  <1>1. queue \in Seq(Notice)
    BY DEF TypeOK
  <1>2. \A i \in 1 .. Len(queue') : (i \in 1 .. Len(queue) /\ queue'[i] = queue[i]) \/ queue'[i] = n
    BY <1>1, AppendNotice
  <1>3. /\ queue' \in Seq(Notice) /\ queue' # <<>>
        /\ queue # <<>> => Head(queue') = Head(queue)
    BY <1>1, AppendNotice
  <1>4. \A i \in 1 .. Len(queue') : queue'[i].message_ids \subseteq sent
    BY <1>2 DEF OfSent
  <1>5. OneEach'
    BY <1>2 DEF OneEach
  <1>. QED  BY <1>3, <1>4, <1>5

LEMMA QueueShrinks ==
    ASSUME TypeOK, OfSent, OneEach, queue # <<>>, queue' = Tail(queue)
    PROVE  /\ queue' \in Seq(Notice)
           /\ \A i \in 1 .. Len(queue') : queue'[i].message_ids \subseteq sent
           /\ OneEach'
  <1>1. queue \in Seq(Notice)
    BY DEF TypeOK
  <1>2. /\ queue' \in Seq(Notice)
        /\ \A i \in 1 .. Len(queue') : i + 1 \in 1 .. Len(queue) /\ queue'[i] = queue[i + 1]
    BY <1>1, HeadNotice
  <1>. QED  BY <1>2 DEF OfSent, OneEach

(* The notice in hand.                                                     *)
LEMMA CurrentNotice ==
    ASSUME TypeOK, OfSent, OneEach, queue # <<>>
    PROVE  /\ Current \in Notice
           /\ Current.message_ids \in SUBSET Messages /\ Current.message_ids \subseteq sent
           /\ Current.type = "add" => \E m \in Messages : Current.message_ids = {m}
  <1>1. queue \in Seq(Notice)
    BY DEF TypeOK
  <1>2. Current \in Notice /\ Current = queue[1] /\ 1 \in 1 .. Len(queue)
    BY <1>1, HeadNotice DEF Current
  <1>. QED  BY <1>2, NoticeFields DEF OfSent, OneEach

-----------------------------------------------------------------------------
LEMMA InitInvariant == Init => IInv
  <1>. SUFFICES ASSUME Init PROVE IInv
    OBVIOUS
  <1>1. TypeOK
    <2>1. queue \in Seq(Notice)
      BY DEF Init
    <2>2. flags \in [Messages -> SUBSET Flags]
      BY DEF Init
    <2>3. /\ notices \in 0 .. MaxNotices /\ started \in 0 .. MaxRequests
          /\ failures \in 0 .. MaxFailures
      BY BoundsAssumption DEF Init
    <2>. QED  BY <2>1, <2>2, <2>3 DEF Init, TypeOK, Request
  <1>2. Len(queue) = 0
    BY DEF Init
  <1>3. OfSent /\ OneEach
    BY <1>2 DEF Init, OfSent, OneEach
  <1>. QED  BY <1>1, <1>3 DEF Init, IInv, ShownIsActive, InHand, PushedOnce

(* Sending, notifying and deleting messages.                               *)
LEMMA MessageSteps ==
    ASSUME IInv, SendMessage \/ NotifyMessage \/ DeleteMessage
    PROVE  IInv'
  <1>. USE DEF IInv
  <1>1. CASE SendMessage
    <2>1. PICK m \in Messages \ sent :
            /\ sent' = sent \cup {m} /\ rows' = rows \cup {m}
            /\ UNCHANGED <<flags, queue, pc, user_message, requests, deviceVars, historyVars,
                           counterVars>>
      BY <1>1 DEF SendMessage
    <2>. USE DEF deviceVars, historyVars, counterVars
    <2>2. TypeOK'
      BY <2>1 DEF TypeOK
    <2>3. OfSent' /\ OneEach'
      BY <2>1 DEF OfSent, OneEach
    <2>4. ShownIsActive' /\ PushedOnce'
      BY <2>1 DEF OfSent, ShownIsActive, PushedOnce
    <2>5. pc # "idle" => m \notin Current.message_ids
      BY <2>1, CurrentNotice DEF TypeOK
    <2>6. InHand'
      BY <2>1, <2>5 DEF InHand, Current, Ids
    <2>. QED  BY <2>2, <2>3, <2>4, <2>6
  <1>2. CASE NotifyMessage
    <2>. DEFINE n(m) == [type |-> "add", message_ids |-> {m}, failed_tries |-> 0]
    <2>1. PICK m \in sent :
            /\ notices < MaxNotices /\ notices' = notices + 1
            /\ queue' = Append(queue, n(m))
            /\ UNCHANGED <<dbVars, pc, user_message, requests, deviceVars, sent, historyVars,
                           started, failures>>
      BY <1>2 DEF NotifyMessage
    <2>. USE DEF dbVars, deviceVars, historyVars
    <2>2. m \in Messages
      BY DEF TypeOK
    <2>3. n(m) \in Notice /\ n(m).message_ids = {m}
      BY <2>2, BoundsAssumption DEF Notice
    <2>4. /\ queue' \in Seq(Notice) /\ queue' # <<>>
          /\ queue # <<>> => Head(queue') = Head(queue)
          /\ \A i \in 1 .. Len(queue') : queue'[i].message_ids \subseteq sent
          /\ OneEach'
      <3>. HIDE DEF n
      <3>. QED  BY <2>1, <2>2, <2>3, QueueGrows
    <2>. HIDE DEF n
    <2>5. notices' \in 0 .. MaxNotices
      BY <2>1, BoundsAssumption DEF TypeOK
    <2>6. TypeOK'
      BY <2>1, <2>4, <2>5 DEF TypeOK
    <2>7. OfSent'
      BY <2>1, <2>4 DEF OfSent
    <2>8. ShownIsActive' /\ PushedOnce'
      BY <2>1 DEF ShownIsActive, PushedOnce
    <2>9. InHand'
      BY <2>1, <2>4 DEF InHand, Current, Ids, TypeOK
    <2>. QED  BY <2>4, <2>6, <2>7, <2>8, <2>9
  <1>3. CASE DeleteMessage
    <2>1. PICK m \in rows :
            /\ rows' = rows \ {m} /\ flags' = [flags EXCEPT ![m] = {}]
            /\ read' = read \ {m} /\ undone' = undone \ {m}
            /\ UNCHANGED <<queue, pc, user_message, requests, deviceVars, sent,
                           unrevoked, raced, counterVars>>
      BY <1>3 DEF DeleteMessage
    <2>. USE DEF deviceVars, historyVars, counterVars
    <2>2. /\ flags' \in [Messages -> SUBSET Flags]
          /\ \A k \in rows' : flags'[k] = flags[k]
      BY <2>1 DEF TypeOK
    <2>3. TypeOK'
      BY <2>1, <2>2 DEF TypeOK
    <2>4. OfSent' /\ OneEach'
      BY <2>1 DEF OfSent, OneEach
    <2>5. ShownIsActive' /\ PushedOnce'
      BY <2>1, <2>2 DEF ShownIsActive, PushedOnce
    <2>6. InHand'
      BY <2>1, <2>2 DEF InHand, Current, Ids
    <2>. QED  BY <2>3, <2>4, <2>5, <2>6
  <1>. QED  BY <1>1, <1>2, <1>3

-----------------------------------------------------------------------------
(* Requests.  They leave the queue, the device and the worker alone, but   *)
(* for the removals they publish.                                          *)
LEMMA Started ==
    ASSUME IInv, NEW ids \in SUBSET sent, NEW steps \in Seq(Steps), steps # <<>>,
           Start(steps, ids)
    PROVE  IInv'
  <1>. USE DEF IInv, deviceVars, historyVars, dbVars
  <1>. DEFINE r == [id |-> started + 1, steps |-> steps, message_ids |-> ids]
  <1>1. started + 1 \in 1 .. MaxRequests /\ started' = started + 1
    BY BoundsAssumption DEF Start, TypeOK
  <1>2. r \in Request /\ r.steps = steps /\ r.message_ids = ids
    BY <1>1 DEF Request, TypeOK
  <1>3. requests' = requests \cup {r}
    BY DEF Start
  <1>. HIDE DEF r
  <1>4. started' \in 0 .. MaxRequests
    BY <1>1
  <1>5. TypeOK'
    BY <1>2, <1>3, <1>4 DEF Start, TypeOK
  <1>6. OfSent' /\ OneEach'
    BY <1>2, <1>3 DEF Start, OfSent, OneEach
  <1>7. ShownIsActive' /\ InHand' /\ PushedOnce'
    BY DEF Start, ShownIsActive, InHand, PushedOnce, Current, Ids
  <1>. QED  BY <1>5, <1>6, <1>7

LEMMA StartRequestStep ==
    ASSUME IInv, StartRequest PROVE IInv'
  <1>1. rows \subseteq sent
    BY DEF IInv, TypeOK
  <1>2. CASE \E m \in rows : Start(do_update_message_flags, {m})
    <2>1. do_update_message_flags \in Seq(Steps) /\ do_update_message_flags # <<>>
      BY DEF do_update_message_flags, Steps
    <2>. QED  BY <1>1, <1>2, <2>1, Started
  <1>3. CASE \E m \in rows : Start(do_update_mobile_push_notification, {m})
    <2>1. /\ do_update_mobile_push_notification \in Seq(Steps)
          /\ do_update_mobile_push_notification # <<>>
      BY DEF do_update_mobile_push_notification, Steps
    <2>. QED  BY <1>1, <1>3, <2>1, Started
  <1>4. CASE Start(do_mark_all_as_read, {})
    <2>1. do_mark_all_as_read \in Seq(Steps) /\ do_mark_all_as_read # <<>>
      BY DEF do_mark_all_as_read, Steps
    <2>. QED  BY <1>4, <2>1, Started
  <1>5. CASE Start(do_mark_stream_messages_as_read, {})
    <2>1. do_mark_stream_messages_as_read \in Seq(Steps) /\ do_mark_stream_messages_as_read # <<>>
      BY DEF do_mark_stream_messages_as_read, Steps
    <2>. QED  BY <1>5, <2>1, Started
  <1>. QED  BY <1>2, <1>3, <1>4, <1>5 DEF StartRequest

LEMMA MarkUnreadStep ==
    ASSUME IInv, MarkUnread PROVE IInv'
  <1>. USE DEF IInv, deviceVars, historyVars, counterVars
  <1>1. PICK m \in rows \cap read :
            /\ flags' = [flags EXCEPT ![m] = @ \ {"read"}]
            /\ read' = read \ {m} /\ undone' = undone \ {m}
            /\ UNCHANGED <<rows, queue, pc, user_message, requests, deviceVars, sent,
                           unrevoked, raced, counterVars>>
    BY DEF MarkUnread
  <1>2. /\ flags' \in [Messages -> SUBSET Flags]
        /\ \A k \in Messages : active \in flags[k] => active \in flags'[k]
    BY <1>1 DEF TypeOK, active
  <1>3. TypeOK'
    BY <1>1, <1>2 DEF TypeOK
  <1>4. rows \subseteq Messages
    BY DEF TypeOK
  <1>5. OfSent' /\ OneEach' /\ ShownIsActive' /\ PushedOnce'
    BY <1>1, <1>2, <1>4 DEF OfSent, OneEach, ShownIsActive, PushedOnce
  <1>6. InHand'
    BY <1>1, <1>2, <1>4 DEF InHand, Current, Ids
  <1>. QED  BY <1>3, <1>5, <1>6

LEMMA UpdateStep ==
    ASSUME IInv, Update PROVE IInv'
  <1>. USE DEF IInv, deviceVars, historyVars, counterVars
  <1>0. PICK r \in requests :
            LET ids == IF Head(r.steps) = "update" THEN r.message_ids ELSE Messages
                marked == ids \cap rows
            IN  /\ flags' = [m \in Messages |->
                        IF m \in marked THEN flags[m] \cup {"read"} ELSE flags[m]]
                /\ read' = read \cup marked /\ undone' = undone \ marked
                /\ Continue(r, r.message_ids)
                /\ UNCHANGED <<rows, queue, pc, user_message, deviceVars, sent,
                               unrevoked, raced, counterVars>>
    BY DEF Update
  <1>. DEFINE marked ==
         (IF Head(r.steps) = "update" THEN r.message_ids ELSE Messages) \cap rows
  <1>1. /\ flags' = [m \in Messages |->
                    IF m \in marked THEN flags[m] \cup {"read"} ELSE flags[m]]
        /\ read' = read \cup marked /\ undone' = undone \ marked
        /\ Continue(r, r.message_ids)
        /\ UNCHANGED <<rows, queue, pc, user_message, deviceVars, sent,
                       unrevoked, raced, counterVars>>
    BY <1>0
  <1>9. marked \subseteq Messages
    BY DEF TypeOK
  <1>. HIDE DEF marked
  <1>2. /\ flags' \in [Messages -> SUBSET Flags]
        /\ \A k \in Messages : active \in flags[k] => active \in flags'[k]
    BY <1>1 DEF TypeOK, Flags
  <1>3. /\ r.message_ids \in SUBSET Messages /\ r.message_ids \subseteq sent
        /\ rows \subseteq Messages
    BY DEF TypeOK, OfSent
  <1>4. /\ requests' \subseteq Request /\ \A q \in requests' : q.steps # <<>>
        /\ \A q \in requests' : q \in requests \/ q.message_ids = r.message_ids
    BY <1>1, <1>3, ContinueRequest DEF TypeOK
  <1>5. TypeOK'
    BY <1>1, <1>2, <1>4, <1>9 DEF TypeOK
  <1>6. OfSent' /\ OneEach'
    BY <1>1, <1>3, <1>4 DEF OfSent, OneEach
  <1>7. ShownIsActive' /\ PushedOnce'
    BY <1>1, <1>2, <1>3 DEF ShownIsActive, PushedOnce
  <1>8. InHand'
    BY <1>1, <1>2, <1>3 DEF InHand, Current, Ids
  <1>. QED  BY <1>5, <1>6, <1>7, <1>8

LEMMA ListStep ==
    ASSUME IInv, List PROVE IInv'
  <1>. USE DEF IInv, dbVars, deviceVars, historyVars, counterVars
  <1>1. PICK r \in requests :
            /\ Head(r.steps) \in {"list", "list_all", "list_unread"}
            /\ Continue(r, Listed(r))
            /\ UNCHANGED <<dbVars, queue, pc, user_message, deviceVars, sent, historyVars,
                           counterVars>>
    BY DEF List
  <1>2. Listed(r) \subseteq sent /\ Listed(r) \in SUBSET Messages
    BY <1>1 DEF Listed, Active, Unread, TypeOK
  <1>3. /\ requests' \subseteq Request /\ \A q \in requests' : q.steps # <<>>
        /\ \A q \in requests' : q \in requests \/ q.message_ids = Listed(r)
    BY <1>1, <1>2, ContinueRequest DEF TypeOK
  <1>4. TypeOK'
    BY <1>1, <1>3 DEF TypeOK
  <1>5. OfSent' /\ OneEach'
    BY <1>1, <1>2, <1>3 DEF OfSent, OneEach
  <1>6. ShownIsActive' /\ PushedOnce' /\ InHand'
    BY <1>1 DEF ShownIsActive, PushedOnce, InHand, Current, Ids
  <1>. QED  BY <1>4, <1>5, <1>6

LEMMA PublishRemoveStep ==
    ASSUME IInv, PublishRemove PROVE IInv'
  <1>. USE DEF IInv, dbVars, deviceVars, historyVars, counterVars
  <1>. DEFINE n(r) == [type |-> "remove", message_ids |-> r.message_ids, failed_tries |-> 0]
  <1>1. PICK r \in requests :
            /\ queue' = IF r.message_ids = {} THEN queue ELSE Append(queue, n(r))
            /\ Continue(r, {})
            /\ UNCHANGED <<dbVars, pc, user_message, deviceVars, sent, historyVars, counterVars>>
    BY DEF PublishRemove
  <1>2. r.message_ids \in SUBSET Messages /\ r.message_ids \subseteq sent
    BY DEF TypeOK, OfSent, Request
  <1>3. n(r) \in Notice /\ n(r).message_ids = r.message_ids /\ n(r).type = "remove"
    BY <1>2, BoundsAssumption DEF Notice
  <1>. HIDE DEF n
  <1>4. /\ queue' \in Seq(Notice)
        /\ queue # <<>> => queue' # <<>> /\ Head(queue') = Head(queue)
        /\ \A i \in 1 .. Len(queue') : queue'[i].message_ids \subseteq sent
        /\ OneEach'
    <2>1. CASE r.message_ids = {}
      BY <1>1, <2>1 DEF TypeOK, OfSent, OneEach
    <2>2. CASE r.message_ids # {}
      BY <1>1, <1>2, <1>3, <2>2, QueueGrows
    <2>. QED  BY <2>1, <2>2
  <1>5. /\ requests' \subseteq Request /\ \A q \in requests' : q.steps # <<>>
        /\ \A q \in requests' : q \in requests \/ q.message_ids = {}
    BY <1>1, ContinueRequest DEF TypeOK
  <1>6. TypeOK'
    BY <1>1, <1>4, <1>5 DEF TypeOK
  <1>7. OfSent'
    BY <1>1, <1>4, <1>5 DEF OfSent
  <1>8. ShownIsActive' /\ PushedOnce'
    BY <1>1 DEF ShownIsActive, PushedOnce
  <1>9. InHand'
    BY <1>1, <1>4 DEF InHand, Current, Ids, TypeOK
  <1>. QED  BY <1>4, <1>6, <1>7, <1>8, <1>9

LEMMA FailureCounted ==
    ASSUME TypeOK, Failure PROVE failures' \in 0 .. MaxFailures
  BY BoundsAssumption DEF TypeOK, Failure

LEMMA RequestKilledStep ==
    ASSUME IInv, RequestKilled PROVE IInv'
  <1>. USE DEF IInv, dbVars, deviceVars
  <1>1. PICK r \in requests :
            /\ requests' = requests \ {r}
            /\ \/ unrevoked' = unrevoked \cup r.message_ids
               \/ unrevoked' = unrevoked
            /\ UNCHANGED <<dbVars, queue, pc, user_message, deviceVars, sent, raced, read, undone,
                           notices, started>>
    BY DEF RequestKilled
  <1>2. failures' \in 0 .. MaxFailures
    BY FailureCounted DEF RequestKilled
  <1>3. unrevoked' \subseteq Messages
    BY <1>1 DEF TypeOK, Request
  <1>4. TypeOK'
    BY <1>1, <1>2, <1>3 DEF TypeOK
  <1>5. OfSent' /\ OneEach' /\ ShownIsActive' /\ PushedOnce' /\ InHand'
    BY <1>1 DEF OfSent, OneEach, ShownIsActive, PushedOnce, InHand, Current, Ids
  <1>. QED  BY <1>4, <1>5

-----------------------------------------------------------------------------
(* The worker.                                                             *)
LEMMA HandlePushStep ==
    ASSUME IInv, HandlePush PROVE IInv'
  <1>. USE DEF IInv, dbVars, deviceVars, historyVars, counterVars
  <1>1. /\ queue # <<>> /\ Current.type = "add" /\ pc' \in {"save", "ack"}
        /\ pc' = "save" => /\ Wanted(Current.message_ids)
                           /\ user_message' = UNION {flags[m] : m \in Ids}
        /\ pc' # "save" => user_message' = user_message
        /\ UNCHANGED <<dbVars, queue, requests, deviceVars, sent, historyVars, counterVars>>
    BY DEF HandlePush
  <1>2. PICK m \in Messages : Current.message_ids = {m}
    BY <1>1, CurrentNotice
  <1>3. pc' = "save" => m \in rows /\ flags[m] = {}
    BY <1>1, <1>2 DEF Wanted
  <1>8. user_message' = {}
    BY <1>1, <1>2, <1>3 DEF Ids, InHand
  <1>4. pc' = "save" => Current.message_ids \cap shown = {}
    BY <1>2, <1>3 DEF ShownIsActive
  <1>5. TypeOK'
    BY <1>1, <1>8 DEF TypeOK, Current
  <1>6. OfSent' /\ OneEach' /\ ShownIsActive' /\ PushedOnce'
    BY <1>1 DEF OfSent, OneEach, ShownIsActive, PushedOnce
  <1>7. InHand'
    BY <1>1, <1>4, <1>8 DEF InHand, Current
  <1>. QED  BY <1>5, <1>6, <1>7

LEMMA SaveStep ==
    ASSUME IInv, Save PROVE IInv'
  <1>. USE DEF IInv, deviceVars, counterVars
  <1>1. /\ pc = "save" /\ queue # <<>> /\ Current.type = "add"
        /\ user_message = {} /\ user_message' = {}
        /\ UNCHANGED <<rows, queue, requests, deviceVars, sent, unrevoked, read, counterVars>>
    BY DEF Save, InHand, TypeOK, Current
  <1>2. PICK m \in Messages : Current.message_ids = {m}
    BY <1>1, CurrentNotice
  <1>3. \/ /\ m \in rows /\ flags' = [flags EXCEPT ![m] = {active}] /\ pc' = "push"
           /\ raced' \in {raced \cup {m}, raced} /\ undone' \in {undone \cup {m}, undone}
        \/ /\ m \notin rows /\ flags' = flags /\ pc' = "ack"
           /\ raced' = raced /\ undone' = undone
    BY <1>1, <1>2 DEF Save
  <1>4. /\ flags' \in [Messages -> SUBSET Flags]
        /\ \A k \in Messages : active \in flags[k] => active \in flags'[k]
        /\ pc' = "push" => active \in flags'[m]
    BY <1>2, <1>3 DEF TypeOK, Flags, active
  <1>5. raced' \cup undone' \subseteq Messages /\ pc' \in {"push", "ack"} /\ rows \subseteq Messages
    BY <1>3 DEF TypeOK
  <1>6. TypeOK'
    BY <1>1, <1>4, <1>5 DEF TypeOK, Current
  <1>7. OfSent' /\ OneEach' /\ PushedOnce'
    BY <1>1 DEF OfSent, OneEach, PushedOnce
  <1>8. ShownIsActive'
    BY <1>1, <1>4, <1>5 DEF ShownIsActive
  <1>9. InHand'
    BY <1>1, <1>2, <1>4, <1>5 DEF InHand, Current, Ids
  <1>. QED  BY <1>6, <1>7, <1>8, <1>9

(* A call of the bouncer that shows or hides what the worker has in hand,  *)
(* or does neither.                                                        *)
LEMMA DeliveredKeeps ==
    ASSUME IInv, queue # <<>>, pc = "push" \/ Removes,
           Delivered \/ UNCHANGED <<shown, repeated>>,
           settled' = settled \/ settled' = settled \cup Current.message_ids,
           rows' = rows, flags' = flags, sent' = sent
    PROVE  /\ shown' \subseteq settled' /\ settled' \subseteq Messages /\ repeated' = {}
           /\ shown' \subseteq sent /\ ShownIsActive'
  <1>. USE DEF IInv
  <1>1. /\ Current.message_ids \in SUBSET Messages
        /\ Current.message_ids \subseteq sent
    BY CurrentNotice
  <1>2. settled' \subseteq Messages /\ settled \subseteq settled' /\ shown \subseteq settled
    BY <1>1 DEF TypeOK
  <1>3. CASE UNCHANGED <<shown, repeated>>
    BY <1>2, <1>3 DEF OfSent, ShownIsActive, PushedOnce
  <1>4. CASE pc = "push" /\ Show(Current.message_ids)
    <2>1. /\ shown' = shown \cup Current.message_ids
          /\ settled' = settled \cup Current.message_ids
          /\ repeated' = repeated \cup (Current.message_ids \cap shown)
      BY <1>4 DEF Show
    <2>2. Current.message_ids \cap shown = {}
      BY <1>4 DEF InHand
    <2>3. \A m \in Current.message_ids \cap rows : active \in flags[m]
      BY <1>4 DEF InHand, Ids
    <2>. QED  BY <1>1, <1>2, <2>1, <2>2, <2>3 DEF OfSent, ShownIsActive, PushedOnce
  <1>5. CASE pc # "push" /\ Hide(Ids)
    BY <1>1, <1>2, <1>5 DEF Hide, OfSent, ShownIsActive, PushedOnce
  <1>. QED  BY <1>3, <1>4, <1>5 DEF Delivered

LEMMA PushStep ==
    ASSUME IInv, Push PROVE IInv'
  <1>. USE DEF IInv, dbVars, historyVars, counterVars
  <1>1. /\ pc = "push" /\ pc' = "ack" /\ queue # <<>>
        /\ Show(Current.message_ids)
        /\ UNCHANGED <<dbVars, queue, user_message, requests, sent, historyVars, counterVars>>
    BY DEF Push, TypeOK
  <1>2. /\ shown' \subseteq settled' /\ settled' \subseteq Messages /\ repeated' = {}
        /\ shown' \subseteq sent /\ ShownIsActive'
    <2>1. Delivered /\ settled' = settled \cup Current.message_ids
      BY <1>1 DEF Delivered, Show
    <2>. QED  BY <1>1, <2>1, DeliveredKeeps
  <1>3. TypeOK'
    BY <1>1, <1>2 DEF TypeOK
  <1>4. OfSent' /\ OneEach' /\ PushedOnce' /\ InHand'
    BY <1>1, <1>2 DEF OfSent, OneEach, PushedOnce, InHand
  <1>. QED  BY <1>2, <1>3, <1>4

LEMMA RevokeStep ==
    ASSUME IInv, NothingToRemove \/ Revoke PROVE IInv'
  <1>. USE DEF IInv, dbVars, historyVars, counterVars
  <1>1. CASE NothingToRemove
    <2>1. TypeOK'
      BY <1>1 DEF NothingToRemove, Removes, TypeOK, deviceVars
    <2>. QED  BY <1>1, <2>1 DEF NothingToRemove, OfSent, OneEach, ShownIsActive,
              InHand, PushedOnce, deviceVars
  <1>2. CASE Revoke
    <2>1. /\ Removes /\ pc' = "clear" /\ queue # <<>> /\ Current.type = "remove"
          /\ pc # "push" /\ shown' = shown \ Ids
          /\ settled' = settled /\ repeated' = repeated
          /\ UNCHANGED <<dbVars, queue, user_message, requests, sent, historyVars, counterVars>>
      BY <1>2 DEF Revoke, Removes, Hide
    <2>2. Ids' = Ids
      BY <2>1 DEF Ids, Current
    <2>3. TypeOK'
      BY <2>1 DEF TypeOK, Current
    <2>4. OfSent' /\ OneEach' /\ PushedOnce' /\ ShownIsActive'
      BY <2>1 DEF OfSent, OneEach, PushedOnce, ShownIsActive
    <2>5. InHand'
      BY <2>1, <2>2 DEF InHand
    <2>. QED  BY <2>3, <2>4, <2>5
  <1>. QED  BY <1>1, <1>2

LEMMA ClearStep ==
    ASSUME IInv, Clear PROVE IInv'
  <1>. USE DEF IInv, deviceVars, historyVars, counterVars
  <1>1. /\ pc = "clear" /\ pc' = "ack"
        /\ flags' = [m \in Messages |->
                IF m \in Ids THEN flags[m] \ {active} ELSE flags[m]]
        /\ UNCHANGED <<rows, queue, user_message, requests, deviceVars, sent, historyVars,
                       counterVars>>
    BY DEF Clear
  <1>2. Ids \cap shown = {} /\ shown \subseteq Messages
    BY <1>1 DEF InHand, TypeOK
  <1>3. /\ flags' \in [Messages -> SUBSET Flags]
        /\ \A m \in shown : flags'[m] = flags[m]
    BY <1>1, <1>2 DEF TypeOK
  <1>4. TypeOK'
    BY <1>1, <1>3 DEF TypeOK
  <1>5. OfSent' /\ OneEach' /\ PushedOnce' /\ ShownIsActive' /\ InHand'
    BY <1>1, <1>3 DEF OfSent, OneEach, PushedOnce, ShownIsActive, InHand
  <1>. QED  BY <1>4, <1>5

LEMMA FailureSteps ==
    ASSUME IInv, RetryLater \/ Fails PROVE IInv'
  <1>. USE DEF IInv, dbVars
  <1>1. /\ queue # <<>>
        /\ pc = "push" \/ Removes
        /\ failures' \in 0 .. MaxFailures /\ pc' = "ack"
        /\ Delivered \/ UNCHANGED <<shown, repeated>>
        /\ settled' = settled \/ settled' = settled \cup Current.message_ids
        /\ UNCHANGED <<dbVars, user_message, requests, sent, raced, read, undone,
                       notices, started>>
    <2>1. Sending /\ Failure
      BY DEF RetryLater, Fails
    <2>2. queue # <<>> /\ (pc = "push" \/ Removes)
      BY <2>1 DEF Sending, Removes, TypeOK
    <2>3. Delivered => settled' = settled \/ settled' = settled \cup Current.message_ids
      BY DEF Delivered, Show, Hide
    <2>. QED  BY <2>1, <2>2, <2>3, FailureCounted DEF RetryLater, Fails, deviceVars, historyVars
  <1>2. /\ shown' \subseteq settled' /\ settled' \subseteq Messages /\ repeated' = {}
        /\ shown' \subseteq sent /\ ShownIsActive'
    BY <1>1, DeliveredKeeps
  <1>3. /\ Current \in Notice /\ Current.message_ids \in SUBSET Messages
        /\ Current.message_ids \subseteq sent
        /\ Current.type = "add" => \E m \in Messages : Current.message_ids = {m}
    BY <1>1, CurrentNotice
  <1>4. /\ queue' \in Seq(Notice) /\ queue' # <<>>
        /\ \A i \in 1 .. Len(queue') : queue'[i].message_ids \subseteq sent
        /\ OneEach' /\ unrevoked' \subseteq Messages
    <2>1. CASE RetryLater
      <3>. DEFINE n == [Current EXCEPT !.failed_tries = @ + 1]
      <3>1. queue' = Append(queue, n) /\ unrevoked' = unrevoked
        BY <2>1 DEF RetryLater, historyVars
      <3>2. Current.failed_tries + 1 \in 0 .. MAX_REQUEST_RETRIES
        BY <1>3, <2>1, NoticeFields DEF RetryLater, GivesUp
      <3>3. n \in Notice /\ n.message_ids = Current.message_ids /\ n.type = Current.type
        BY <1>3, <3>2 DEF Notice
      <3>. HIDE DEF n
      <3>. QED  BY <1>3, <3>1, <3>3, QueueGrows DEF TypeOK
    <2>2. CASE Fails
      <3>1. queue' = queue
        BY <2>2 DEF Fails
      <3>2. unrevoked' \subseteq Messages
        BY <1>3, <2>2 DEF Fails, TypeOK
      <3>. QED  BY <1>1, <3>1, <3>2 DEF TypeOK, OfSent, OneEach
    <2>. QED  BY <2>1, <2>2
  <1>5. TypeOK'
    BY <1>1, <1>2, <1>4 DEF TypeOK
  <1>6. OfSent' /\ PushedOnce' /\ InHand'
    BY <1>1, <1>2, <1>4 DEF OfSent, PushedOnce, InHand
  <1>. QED  BY <1>2, <1>4, <1>5, <1>6

LEMMA CrashStep ==
    ASSUME IInv, Crash PROVE IInv'
  <1>1. failures' \in 0 .. MaxFailures
    BY FailureCounted DEF Crash, IInv
  <1>2. TypeOK'
    BY <1>1 DEF IInv, TypeOK, Crash, dbVars, deviceVars, historyVars
  <1>. QED  BY <1>2 DEF IInv, OfSent, OneEach, ShownIsActive, InHand, PushedOnce,
            Crash, dbVars, deviceVars, historyVars

LEMMA AcknowledgeStep ==
    ASSUME IInv, Acknowledge PROVE IInv'
  <1>. USE DEF IInv, dbVars, deviceVars, historyVars, counterVars
  <1>1. /\ pc = "ack" /\ pc' = "idle" /\ queue # <<>> /\ queue' = Tail(queue)
        /\ UNCHANGED <<dbVars, user_message, requests, deviceVars, sent, historyVars,
                       counterVars>>
    BY DEF Acknowledge, TypeOK
  <1>2. /\ queue' \in Seq(Notice)
        /\ \A i \in 1 .. Len(queue') : queue'[i].message_ids \subseteq sent
        /\ OneEach'
    BY <1>1, QueueShrinks
  <1>3. TypeOK'
    BY <1>1, <1>2 DEF TypeOK
  <1>4. OfSent' /\ ShownIsActive' /\ InHand' /\ PushedOnce'
    BY <1>1, <1>2 DEF OfSent, ShownIsActive, InHand, PushedOnce
  <1>. QED  BY <1>2, <1>3, <1>4

-----------------------------------------------------------------------------
LEMMA NextInvariant == IInv /\ [Next]_vars => IInv'
  <1>. SUFFICES ASSUME IInv, [Next]_vars PROVE IInv'
    OBVIOUS
  <1>1. CASE SendMessage \/ NotifyMessage \/ DeleteMessage
    BY <1>1, MessageSteps
  <1>2. CASE StartRequest \/ MarkUnread \/ Update \/ List \/ PublishRemove \/ RequestKilled
    BY <1>2, StartRequestStep, MarkUnreadStep, UpdateStep, ListStep,
       PublishRemoveStep, RequestKilledStep
  <1>3. CASE HandlePush \/ Save \/ Push \/ NothingToRemove \/ Revoke \/ Clear
    BY <1>3, HandlePushStep, SaveStep, PushStep, RevokeStep, ClearStep
  <1>4. CASE RetryLater \/ Fails \/ Acknowledge \/ Crash
    BY <1>4, FailureSteps, AcknowledgeStep, CrashStep
  <1>5. CASE UNCHANGED vars
    BY <1>5 DEF vars, dbVars, deviceVars, historyVars, counterVars, IInv, TypeOK,
       OfSent, OneEach, ShownIsActive, InHand, PushedOnce, Current, Ids
  <1>. QED  BY <1>1, <1>2, <1>3, <1>4, <1>5 DEF Next, Worker

(* The inductive invariant holds in every state: what is shown has its     *)
(* flag, and what the worker is about to push is not shown.                *)
THEOREM PushInvariant == Spec => []IInv
  <1>. QED  BY InitInvariant, NextInvariant, PTL DEF Spec

(* The rows, the queue of the worker and the requests have their types; in *)
(* particular no notice is retried more than MAX_REQUEST_RETRIES times.    *)
THEOREM PushTypeCorrect == Spec => []TypeOK
  <1>1. IInv => TypeOK
    BY DEF IInv
  <1>. QED  BY <1>1, PushInvariant, PTL

(* No notification is sent while it is shown, whatever is repeated,        *)
(* retried or killed.                                                      *)
THEOREM PushedOnceCorrect == Spec => []PushedOnce
  <1>1. IInv => PushedOnce
    BY DEF IInv
  <1>. QED  BY <1>1, PushInvariant, PTL

-----------------------------------------------------------------------------
(* What is read is removed.  While a message may be on the device, its     *)
(* removal must be in sight as soon as it is read, and already when a      *)
(* request that is going to mark it read has passed it over.  A removal in *)
(* hand does not count once its call was made.  The flags and the history  *)
(* differ by the marks a Save lost: the lists of requests go by the flags, *)
(* the promise by what the user did.                                       *)

(* The statements requests still have to execute.                          *)
Programs ==
    {do_update_message_flags, do_update_mobile_push_notification, <<"publish">>,
     do_mark_all_as_read, <<"publish", "update_all">>, <<"update_all">>,
     do_mark_stream_messages_as_read, <<"update_all", "list", "publish">>}

Programmed ==
    \A r \in requests :
        /\ r.steps \in Programs
        /\ r.steps = <<"update_all">> => r.message_ids = {}

OnDevice == (shown \cup (IF pc = "push" THEN Current.message_ids ELSE {})) \cap rows

Removal(m, i) ==
    /\ queue[i].type = "remove" /\ m \in queue[i].message_ids
    /\ i = 1 => pc \notin {"clear", "ack"}

Withdraws(r, m) ==
    /\ m \in r.message_ids
    /\ Last(r.steps) = "publish" /\ Head(r.steps) \in {"list", "publish"}

InSight(m) ==
    \/ \E i \in 1 .. Len(queue) : Removal(m, i)
    \/ \E r \in requests : Withdraws(r, m)
    \/ m \in unrevoked \cup raced

Decided ==
    \A m \in OnDevice :
        "read" \in flags[m] \/ (\E r \in requests : Misses(r, m)) => InSight(m)

(* A message marked read, whether or not its flag says so.                 *)
Seen == \A m \in OnDevice \cap read : InSight(m) \/ m \in undone

RevokeInv == Programmed /\ Decided /\ Seen

(* How far the programs are.                                               *)
Withdrawing == {<<"list", "publish">>, <<"publish">>}

Deciding == {<<"publish", "update_all">>, <<"update_all">>, <<"update_all", "list", "publish">>}

LEMMA HeadOfProgram ==
    ASSUME NEW s \in Programs
    PROVE  /\ Head(s) = "update" => s = <<"update", "list", "publish">>
           /\ Head(s) = "list" => s = <<"list", "publish">>
           /\ Head(s) = "list_all" => s = <<"list_all", "publish", "update_all">>
           /\ Head(s) = "list_unread" => s = <<"list_unread", "update_all", "list", "publish">>
           /\ Head(s) = "publish" => s \in {<<"publish">>, <<"publish", "update_all">>}
           /\ Head(s) = "update_all" =>
                s \in {<<"update_all">>, <<"update_all", "list", "publish">>}
  BY DEF Programs, do_update_message_flags, do_update_mobile_push_notification,
         do_mark_all_as_read, do_mark_stream_messages_as_read

LEMMA LastOfProgram ==
    ASSUME NEW s \in Programs
    PROVE  Last(s) = "publish" /\ Head(s) \in {"list", "publish"} <=> s \in Withdrawing
  BY DEF Programs, do_update_message_flags, do_update_mobile_push_notification,
         do_mark_all_as_read, do_mark_stream_messages_as_read, Last, Withdrawing

LEMMA ProgramDecides ==
    ASSUME NEW s \in Programs
    PROVE  Head(s) \in {"publish", "update_all"} /\ "update_all" \in Range(s)
                <=> s \in Deciding
  <1>1. CASE s \in {do_update_message_flags, do_update_mobile_push_notification,
                    do_mark_all_as_read, do_mark_stream_messages_as_read}
    BY <1>1 DEF do_update_message_flags, do_update_mobile_push_notification,
       do_mark_all_as_read, do_mark_stream_messages_as_read, Deciding
  <1>2. CASE s = <<"publish">>
    BY <1>2 DEF Range, Deciding
  <1>3. CASE s = <<"publish", "update_all">>
    <2>1. 2 \in DOMAIN s /\ s[2] = "update_all" /\ Head(s) = "publish" /\ s \in Deciding
      BY <1>3 DEF Deciding
    <2>. QED  BY <2>1 DEF Range
  <1>4. CASE s = <<"update_all", "list", "publish">>
    <2>1. 1 \in DOMAIN s /\ s[1] = "update_all" /\ Head(s) = "update_all" /\ s \in Deciding
      BY <1>4 DEF Deciding
    <2>. QED  BY <2>1 DEF Range
  <1>5. CASE s = <<"update_all">>
    <2>1. 1 \in DOMAIN s /\ s[1] = "update_all" /\ Head(s) = "update_all" /\ s \in Deciding
      BY <1>5 DEF Deciding
    <2>. QED  BY <2>1 DEF Range
  <1>. QED  BY <1>1, <1>2, <1>3, <1>4, <1>5 DEF Programs

LEMMA LengthOfProgram ==
    ASSUME NEW s \in Programs
    PROVE  Len(s) = 1 <=> s \in {<<"publish">>, <<"update_all">>}
  BY DEF Programs, do_update_message_flags, do_update_mobile_push_notification,
         do_mark_all_as_read, do_mark_stream_messages_as_read

LEMMA TailOfProgram ==
    /\ Tail(<<"update", "list", "publish">>) = <<"list", "publish">>
    /\ Tail(<<"list", "publish">>) = <<"publish">>
    /\ Tail(<<"list_all", "publish", "update_all">>) = <<"publish", "update_all">>
    /\ Tail(<<"list_unread", "update_all", "list", "publish">>)
            = <<"update_all", "list", "publish">>
    /\ Tail(<<"publish", "update_all">>) = <<"update_all">>
    /\ Tail(<<"update_all", "list", "publish">>) = <<"list", "publish">>
  OBVIOUS

LEMMA TailIsProgram ==
    ASSUME NEW s \in Programs, Len(s) # 1
    PROVE  /\ Tail(s) \in Programs
           /\ Tail(s) = <<"update_all">> => s = <<"publish", "update_all">>
  <1>. USE DEF Programs, do_update_message_flags, do_update_mobile_push_notification,
       do_mark_all_as_read, do_mark_stream_messages_as_read
  <1>1. CASE s = <<"update", "list", "publish">>
    <2>1. Tail(s) = <<"list", "publish">>
      BY <1>1
    <2>. QED  BY <2>1
  <1>7. CASE s = <<"update_all", "list", "publish">>
    <2>1. Tail(s) = <<"list", "publish">>
      BY <1>7
    <2>. QED  BY <2>1
  <1>2. CASE s = <<"list", "publish">>
    <2>1. Tail(s) = <<"publish">>
      BY <1>2
    <2>. QED  BY <2>1
  <1>3. CASE s = <<"list_all", "publish", "update_all">>
    <2>1. Tail(s) = <<"publish", "update_all">>
      BY <1>3
    <2>. QED  BY <2>1
  <1>4. CASE s = <<"publish", "update_all">>
    <2>1. Tail(s) = <<"update_all">>
      BY <1>4
    <2>. QED  BY <1>4, <2>1
  <1>5. CASE s = <<"list_unread", "update_all", "list", "publish">>
    <2>1. Tail(s) = <<"update_all", "list", "publish">>
      BY <1>5
    <2>. QED  BY <2>1
  <1>6. s \notin {<<"publish">>, <<"update_all">>}
    OBVIOUS
  <1>. QED  BY <1>1, <1>2, <1>3, <1>4, <1>5, <1>6, <1>7

LEMMA WithdrawsIs ==
    ASSUME NEW r, NEW m, r.steps \in Programs
    PROVE  Withdraws(r, m) <=> m \in r.message_ids /\ r.steps \in Withdrawing
  BY LastOfProgram DEF Withdraws

LEMMA MissesIs ==
    ASSUME NEW r, NEW m, r.steps \in Programs
    PROVE  Misses(r, m) <=> m \notin r.message_ids /\ r.steps \in Deciding
  BY ProgramDecides DEF Misses

(* The requests after one of them has executed a statement.                *)
LEMMA Continued ==
    ASSUME TypeOK, NEW r \in requests, NEW ids \in SUBSET Messages,
           Continue(r, ids)
    PROVE  /\ \A q \in requests' :
                \/ q \in requests \ {r}
                \/ Len(r.steps) # 1 /\ q.steps = Tail(r.steps) /\ q.message_ids = ids
           /\ requests \ {r} \subseteq requests'
           /\ Len(r.steps) # 1 =>
                \E q \in requests' : q.steps = Tail(r.steps) /\ q.message_ids = ids
  <1>1. r \in Request
    BY DEF TypeOK
  <1>2. CASE Len(r.steps) = 1
    BY <1>2 DEF Continue
  <1>3. CASE Len(r.steps) # 1
    <2>. DEFINE q == [r EXCEPT !.steps = Tail(@), !.message_ids = ids]
    <2>1. q.steps = Tail(r.steps) /\ q.message_ids = ids
      BY <1>1 DEF Request
    <2>2. requests' = (requests \ {r}) \cup {q}
      BY <1>3 DEF Continue
    <2>. HIDE DEF q
    <2>. QED  BY <1>3, <2>1, <2>2
  <1>. QED  BY <1>2, <1>3

-----------------------------------------------------------------------------
(* What is on the device has its flag.                                     *)
LEMMA OnDeviceActive ==
    ASSUME IInv, NEW m \in OnDevice
    PROVE  m \in Messages /\ m \in sent /\ m \in rows /\ active \in flags[m]
  <1>1. pc = "push" => queue # <<>>
    BY DEF IInv, TypeOK
  <1>2. pc = "push" => Current.message_ids \in SUBSET Messages /\ Current.message_ids \subseteq sent
    BY <1>1, CurrentNotice DEF IInv
  <1>. QED  BY <1>2 DEF IInv, TypeOK, OfSent, OnDevice, ShownIsActive, InHand, Ids

(* A removal stays in sight while the worker does nothing and the queue    *)
(* grows.                                                                  *)
LEMMA RemovalStays ==
    ASSUME TypeOK, NEW m, NEW i \in 1 .. Len(queue), Removal(m, i), pc' = pc,
           queue' = queue \/ \E n \in Notice : queue' = Append(queue, n)
    PROVE  \E j \in 1 .. Len(queue') : Removal(m, j)'
  <1>1. queue \in Seq(Notice) /\ Len(queue) \in Nat
    BY DEF TypeOK
  <1>2. i \in 1 .. Len(queue') /\ queue'[i] = queue[i]
    BY <1>1
  <1>. QED  BY <1>2 DEF Removal

LEMMA RemovalAppended ==
    ASSUME TypeOK, NEW m, NEW n \in Notice, n.type = "remove", m \in n.message_ids,
           queue' = Append(queue, n), pc' = pc \/ queue # <<>>, pc # "idle" => queue # <<>>
    PROVE  \E j \in 1 .. Len(queue') : Removal(m, j)'
  <1>1. queue \in Seq(Notice) /\ Len(queue) \in Nat
    BY DEF TypeOK
  <1>2. Len(queue) + 1 \in 1 .. Len(queue') /\ queue'[Len(queue) + 1] = n
    BY <1>1
  <1>3. CASE queue = <<>>
    <2>1. pc' = "idle"
      BY <1>3 DEF TypeOK
    <2>. QED  BY <1>2, <2>1 DEF Removal
  <1>4. CASE queue # <<>>
    <2>1. Len(queue) + 1 # 1
      BY <1>1, <1>4, EmptySeq
    <2>. QED  BY <1>2, <2>1 DEF Removal
  <1>. QED  BY <1>3, <1>4

(* What the messages and the requests do leaves what is on the device      *)
(* alone, but for rows that are deleted.                                   *)
LEMMA DeviceStays ==
    ASSUME IInv, NEW m \in OnDevice',
           rows' \subseteq rows \cup (Messages \ sent), shown' = shown, pc' = pc,
           queue' = queue \/ \E n \in Notice : queue' = Append(queue, n)
    PROVE  m \in OnDevice
  <1>1. pc = "push" => queue # <<>> /\ queue \in Seq(Notice)
    BY DEF IInv, TypeOK
  <1>2. pc = "push" => Current' = Current
    BY <1>1, AppendNotice DEF Current
  <1>3. pc = "push" => Current.message_ids \subseteq sent
    BY <1>1, CurrentNotice DEF IInv
  <1>4. m \in sent /\ m \in rows'
    BY <1>2, <1>3 DEF OnDevice, IInv, OfSent
  <1>. QED  BY <1>2, <1>4 DEF OnDevice

(* What has to be shown of a step that marks nothing read: what was in     *)
(* sight stays, and no message is read or passed over that was neither.    *)
LEMMA StaysInSight ==
    ASSUME RevokeInv, Programmed', read' \subseteq read, undone \cap read' \subseteq undone',
           \A m \in OnDevice' :
              /\ m \in OnDevice
              /\ InSight(m) => InSight(m)'
              /\ "read" \in flags'[m] \/ (\E r \in requests' : Misses(r, m)) =>
                    \/ "read" \in flags[m] \/ \E r \in requests : Misses(r, m)
                    \/ InSight(m)'
    PROVE  RevokeInv'
  <1>1. Decided'
    BY DEF RevokeInv, Decided
  <1>2. Seen'
    BY DEF RevokeInv, Seen
  <1>. QED  BY <1>1, <1>2 DEF RevokeInv

(* A step that neither reads a message nor concerns the requests.          *)
LEMMA QuietStep ==
    ASSUME IInv, RevokeInv, requests' = requests, pc' = pc, shown' = shown,
           rows' \subseteq rows \cup (Messages \ sent),
           \A k \in rows \cap rows' : "read" \in flags'[k] => "read" \in flags[k],
           queue' = queue \/ \E n \in Notice : queue' = Append(queue, n),
           unrevoked \subseteq unrevoked', raced \subseteq raced',
           read' \subseteq read, undone \cap read' \subseteq undone'
    PROVE  RevokeInv'
  <1>1. Programmed'
    BY DEF RevokeInv, Programmed
  <1>2. ASSUME NEW m \in OnDevice'
        PROVE  /\ m \in OnDevice
               /\ "read" \in flags'[m] => "read" \in flags[m]
               /\ InSight(m) => InSight(m)'
    <2>1. m \in OnDevice
      BY <1>2, DeviceStays
    <2>2. m \in rows \cap rows'
      BY <1>2, <2>1 DEF OnDevice
    <2>3. (\E i \in 1 .. Len(queue) : Removal(m, i)) => \E i \in 1 .. Len(queue') : Removal(m, i)'
      BY RemovalStays DEF IInv
    <2>4. InSight(m) => InSight(m)'
      BY <2>3 DEF InSight
    <2>. QED  BY <2>1, <2>2, <2>4
  <1>. QED  BY <1>1, <1>2, StaysInSight

LEMMA MessageStepsRevoke ==
    ASSUME IInv, RevokeInv, SendMessage \/ NotifyMessage \/ DeleteMessage \/ MarkUnread
    PROVE  RevokeInv'
  <1>. USE DEF deviceVars, historyVars, dbVars
  <1>0. rows \subseteq sent /\ sent \subseteq Messages /\ flags \in [Messages -> SUBSET Flags]
    BY DEF IInv, TypeOK
  <1>1. CASE SendMessage
    BY <1>0, <1>1, QuietStep DEF SendMessage
  <1>2. CASE NotifyMessage
    <2>1. PICK m \in sent : queue' = Append(queue,
                [type |-> "add", message_ids |-> {m}, failed_tries |-> 0])
      BY <1>2 DEF NotifyMessage
    <2>2. [type |-> "add", message_ids |-> {m}, failed_tries |-> 0] \in Notice
      BY <1>0, BoundsAssumption DEF Notice
    <2>3. \E n \in Notice : queue' = Append(queue, n)
      BY <2>1, <2>2
    <2>. QED  BY <1>2, <2>3, QuietStep DEF NotifyMessage
  <1>3. CASE DeleteMessage
    <2>1. PICK m \in rows : /\ rows' = rows \ {m} /\ flags' = [flags EXCEPT ![m] = {}]
                            /\ read' = read \ {m} /\ undone' = undone \ {m}
      BY <1>3 DEF DeleteMessage
    <2>2. \A k \in rows \cap rows' : flags'[k] = flags[k]
      BY <1>0, <2>1
    <2>. QED  BY <1>3, <2>1, <2>2, QuietStep DEF DeleteMessage
  <1>4. CASE MarkUnread
    <2>1. PICK m \in rows : /\ flags' = [flags EXCEPT ![m] = @ \ {"read"}]
                            /\ read' = read \ {m} /\ undone' = undone \ {m}
      BY <1>4 DEF MarkUnread
    <2>2. \A k \in rows : "read" \in flags'[k] => "read" \in flags[k]
      BY <1>0, <2>1
    <2>. QED  BY <1>4, <2>1, <2>2, QuietStep DEF MarkUnread, counterVars
  <1>. QED  BY <1>1, <1>2, <1>3, <1>4

(* A new request has decided nothing.                                      *)
LEMMA StartedRevoke ==
    ASSUME IInv, RevokeInv, NEW ids, NEW steps \in Programs,
           Head(steps) \notin {"publish", "update_all"}, Start(steps, ids)
    PROVE  RevokeInv'
  <1>. DEFINE r == [id |-> started + 1, steps |-> steps, message_ids |-> ids]
  <1>1. requests' = requests \cup {r} /\ r.steps = steps
    BY DEF Start
  <1>. HIDE DEF r
  <1>2. UNCHANGED <<dbVars, queue, pc, deviceVars, historyVars>>
    BY DEF Start
  <1>3. steps # <<"update_all">>
    BY HeadOfProgram
  <1>4. Programmed'
    BY <1>1, <1>3 DEF RevokeInv, Programmed
  <1>5. ASSUME NEW m \in OnDevice'
        PROVE  /\ m \in OnDevice
               /\ flags' = flags
               /\ \A q \in requests' : Misses(q, m) => q \in requests
               /\ InSight(m) => InSight(m)'
    <2>1. m \in OnDevice
      BY <1>2, <1>5 DEF OnDevice, Current, dbVars, deviceVars
    <2>2. ~Misses(r, m)
      BY <1>1 DEF Misses
    <2>3. InSight(m) => InSight(m)'
      BY <1>1, <1>2 DEF InSight, Removal, historyVars
    <2>. QED  BY <1>1, <1>2, <2>1, <2>2, <2>3 DEF dbVars
  <1>. QED  BY <1>2, <1>4, <1>5, StaysInSight DEF historyVars

LEMMA StartRequestRevoke ==
    ASSUME IInv, RevokeInv, StartRequest PROVE RevokeInv'
  <1>1. /\ do_update_message_flags \in Programs
        /\ Head(do_update_message_flags) \notin {"publish", "update_all"}
    BY DEF Programs, do_update_message_flags
  <1>2. /\ do_update_mobile_push_notification \in Programs
        /\ Head(do_update_mobile_push_notification) \notin {"publish", "update_all"}
    BY DEF Programs, do_update_mobile_push_notification
  <1>3. /\ do_mark_all_as_read \in Programs
        /\ Head(do_mark_all_as_read) \notin {"publish", "update_all"}
    BY DEF Programs, do_mark_all_as_read
  <1>4. /\ do_mark_stream_messages_as_read \in Programs
        /\ Head(do_mark_stream_messages_as_read) \notin {"publish", "update_all"}
    BY DEF Programs, do_mark_stream_messages_as_read
  <1>. QED  BY <1>1, <1>2, <1>3, <1>4, StartedRevoke DEF StartRequest

(* A statement of request r: what is in sight through others stays, and    *)
(* only r can pass a message over that nobody had passed over.             *)
LEMMA StatementRevoke ==
    ASSUME IInv, RevokeInv, NEW r \in requests, NEW ids \in SUBSET Messages,
           Continue(r, ids), NEW m \in OnDevice',
           rows' = rows, shown' = shown, pc' = pc, unrevoked' = unrevoked, raced' = raced,
           queue' = queue \/ \E n \in Notice : queue' = Append(queue, n)
    PROVE  /\ m \in OnDevice
           /\ InSight(m) => InSight(m)' \/ Withdraws(r, m)
           /\ \A q \in requests' : Misses(q, m) =>
                \/ \E p \in requests : Misses(p, m)
                \/ Len(r.steps) # 1 /\ q.steps = Tail(r.steps) /\ q.message_ids = ids
  <1>1. /\ \A q \in requests' :
                \/ q \in requests \ {r}
                \/ Len(r.steps) # 1 /\ q.steps = Tail(r.steps) /\ q.message_ids = ids
        /\ requests \ {r} \subseteq requests'
    BY Continued DEF IInv
  <1>2. m \in OnDevice
    BY DeviceStays
  <1>3. (\E i \in 1 .. Len(queue) : Removal(m, i)) => \E i \in 1 .. Len(queue') : Removal(m, i)'
    BY RemovalStays DEF IInv
  <1>4. InSight(m) => InSight(m)' \/ Withdraws(r, m)
    BY <1>1, <1>3 DEF InSight
  <1>. QED  BY <1>1, <1>2, <1>4

(* The requests keep to their programs.                                    *)
LEMMA ProgramGoesOn ==
    ASSUME IInv, RevokeInv, NEW r \in requests, NEW ids \in SUBSET Messages,
           Continue(r, ids), r.steps = <<"publish", "update_all">> => ids = {}
    PROVE  Programmed'
  <1>. SUFFICES ASSUME NEW q \in requests'
                PROVE  q.steps \in Programs /\ (q.steps = <<"update_all">> => q.message_ids = {})
    BY DEF Programmed
  <1>1. \/ q \in requests
        \/ Len(r.steps) # 1 /\ q.steps = Tail(r.steps) /\ q.message_ids = ids
    BY Continued DEF IInv
  <1>2. CASE q \in requests
    BY <1>2 DEF RevokeInv, Programmed
  <1>3. CASE Len(r.steps) # 1 /\ q.steps = Tail(r.steps) /\ q.message_ids = ids
    <2>1. r.steps \in Programs
      BY DEF RevokeInv, Programmed
    <2>2. /\ Tail(r.steps) \in Programs
          /\ Tail(r.steps) = <<"update_all">> => r.steps = <<"publish", "update_all">>
      BY <1>3, <2>1, TailIsProgram
    <2>. QED  BY <1>3, <2>2
  <1>. QED  BY <1>1, <1>2, <1>3

LEMMA UpdateRevoke ==
    ASSUME IInv, RevokeInv, Update PROVE RevokeInv'
  <1>0. PICK r \in requests :
            LET ids == IF Head(r.steps) = "update" THEN r.message_ids ELSE Messages
                marked == ids \cap rows
            IN  /\ Head(r.steps) \in {"update", "update_all"}
                /\ flags' = [m \in Messages |->
                        IF m \in marked THEN flags[m] \cup {"read"} ELSE flags[m]]
                /\ read' = read \cup marked /\ undone' = undone \ marked
                /\ Continue(r, r.message_ids)
                /\ UNCHANGED <<rows, queue, pc, user_message, deviceVars, sent,
                               unrevoked, raced, counterVars>>
    BY DEF Update
  <1>1. r.steps \in Programs /\ r.message_ids \in SUBSET Messages
    BY DEF RevokeInv, Programmed, IInv, TypeOK, Request
  <1>2. Continue(r, r.message_ids) /\ UNCHANGED <<rows, queue, pc, shown, unrevoked, raced>>
    BY <1>0 DEF deviceVars
  <1>3. /\ Head(r.steps) \in {"update", "update_all"}
        /\ \A m \in Messages : "read" \in flags'[m] =>
              "read" \in flags[m] \/ Head(r.steps) = "update_all" \/ m \in r.message_ids
        /\ \A m \in Messages : \/ "read" \in flags'[m]
                               \/ (m \in read' => m \in read) /\ (m \in undone => m \in undone')
    BY <1>0
  <1>4. \/ r.steps = <<"update_all">>
        \/ r.steps \in {<<"update", "list", "publish">>, <<"update_all", "list", "publish">>}
    BY <1>1, <1>3, HeadOfProgram
  <1>5. r.steps # <<"publish", "update_all">>
    BY <1>3
  <1>6. Programmed'
    BY <1>1, <1>2, <1>5, ProgramGoesOn
  <1>7. Decided'
    <2>. SUFFICES ASSUME NEW m \in OnDevice',
                         "read" \in flags'[m] \/ \E q \in requests' : Misses(q, m)
                  PROVE  InSight(m)'
      BY DEF Decided
    <2>1. /\ m \in OnDevice
          /\ InSight(m) => InSight(m)' \/ Withdraws(r, m)
          /\ \A q \in requests' : Misses(q, m) =>
                \/ \E p \in requests : Misses(p, m)
                \/ Len(r.steps) # 1 /\ q.steps = Tail(r.steps) /\ q.message_ids = r.message_ids
      BY <1>1, <1>2, StatementRevoke
    <2>2. ~Withdraws(r, m)
      BY <1>3 DEF Withdraws
    <2>3. m \in Messages
      BY <2>1, OnDeviceActive
    <2>4. CASE r.steps = <<"update_all">>
      <3>1. m \notin r.message_ids /\ Len(r.steps) = 1
        BY <2>4 DEF RevokeInv, Programmed
      <3>2. Misses(r, m)
        BY <2>4, <3>1, <1>1, MissesIs DEF Deciding
      <3>. QED  BY <2>1, <2>2, <3>2 DEF RevokeInv, Decided
    <2>5. CASE r.steps \in {<<"update", "list", "publish">>, <<"update_all", "list", "publish">>}
      <3>1. Tail(r.steps) = <<"list", "publish">> /\ Len(r.steps) # 1
        <4>1. CASE r.steps = <<"update", "list", "publish">>
          BY <4>1
        <4>2. CASE r.steps = <<"update_all", "list", "publish">>
          BY <4>2
        <4>. QED  BY <2>5, <4>1, <4>2
      <3>2. <<"list", "publish">> \in Programs \cap Withdrawing
        BY DEF Programs, Withdrawing, do_update_mobile_push_notification
      <3>3. <<"list", "publish">> \notin Deciding
        BY DEF Deciding
      <3>4. \E q \in requests' : q.steps = Tail(r.steps) /\ q.message_ids = r.message_ids
        BY <1>1, <1>2, <3>1, Continued DEF IInv
      <3>5. CASE m \in r.message_ids
        <4>1. \E q \in requests' : Withdraws(q, m)
          BY <3>1, <3>2, <3>4, <3>5, WithdrawsIs
        <4>. QED  BY <4>1 DEF InSight, Withdraws
      <3>6. CASE m \notin r.message_ids
        <4>1. \A q \in requests' : Misses(q, m) => \E p \in requests : Misses(p, m)
          <5>. SUFFICES ASSUME NEW q \in requests', Misses(q, m),
                               q.steps = Tail(r.steps)
                        PROVE  FALSE
            BY <2>1
          <5>. QED  BY <3>1, <3>2, <3>3, MissesIs
        <4>2. "read" \in flags'[m] => "read" \in flags[m] \/ \E p \in requests : Misses(p, m)
          <5>. SUFFICES ASSUME Head(r.steps) = "update_all" PROVE Misses(r, m)
            BY <1>3, <2>3, <3>6
          <5>1. r.steps \in Deciding
            BY <2>5 DEF Deciding
          <5>. QED  BY <1>1, <3>6, <5>1, MissesIs
        <4>. QED  BY <2>1, <2>2, <4>1, <4>2 DEF RevokeInv, Decided
      <3>. QED  BY <3>5, <3>6
    <2>. QED  BY <1>4, <2>4, <2>5
  <1>8. Seen'
    <2>. SUFFICES ASSUME NEW m \in OnDevice', m \in read' PROVE InSight(m)' \/ m \in undone'
      BY DEF Seen
    <2>1. /\ m \in OnDevice
          /\ InSight(m) => InSight(m)' \/ Withdraws(r, m)
      BY <1>1, <1>2, StatementRevoke
    <2>2. ~Withdraws(r, m)
      BY <1>3 DEF Withdraws
    <2>3. m \in Messages
      BY <2>1, OnDeviceActive
    <2>4. CASE "read" \in flags'[m]
      BY <1>7, <2>4 DEF Decided
    <2>5. CASE "read" \notin flags'[m]
      BY <1>3, <2>1, <2>2, <2>3, <2>5 DEF RevokeInv, Seen
    <2>. QED  BY <2>4, <2>5
  <1>. QED  BY <1>6, <1>7, <1>8 DEF RevokeInv

LEMMA ListRevoke ==
    ASSUME IInv, RevokeInv, List PROVE RevokeInv'
  <1>1. PICK r \in requests :
            /\ Head(r.steps) \in {"list", "list_all", "list_unread"}
            /\ Continue(r, Listed(r))
            /\ UNCHANGED <<dbVars, queue, pc, user_message, deviceVars, sent, historyVars,
                           counterVars>>
    BY DEF List
  <1>2. UNCHANGED <<rows, flags, queue, pc, shown, unrevoked, raced, read, undone>>
    BY <1>1 DEF dbVars, deviceVars, historyVars
  <1>3. r.steps \in Programs /\ Listed(r) \in SUBSET Messages
    BY <1>1 DEF RevokeInv, Programmed, IInv, TypeOK, Listed, Active, Unread
  <1>4. r.steps # <<"publish", "update_all">>
    BY <1>1
  <1>5. Programmed'
    BY <1>1, <1>3, <1>4, ProgramGoesOn
  <1>6. ASSUME NEW m \in OnDevice'
        PROVE  /\ m \in OnDevice
               /\ InSight(m) => InSight(m)'
               /\ \A q \in requests' : Misses(q, m) =>
                    \/ "read" \in flags[m] \/ \E p \in requests : Misses(p, m)
                    \/ InSight(m)'
    <2>1. /\ m \in OnDevice
          /\ InSight(m) => InSight(m)' \/ Withdraws(r, m)
          /\ \A q \in requests' : Misses(q, m) =>
                \/ \E p \in requests : Misses(p, m)
                \/ Len(r.steps) # 1 /\ q.steps = Tail(r.steps) /\ q.message_ids = Listed(r)
      BY <1>1, <1>2, <1>3, <1>6, StatementRevoke
    <2>2. m \in Messages /\ m \in rows /\ active \in flags[m]
      BY <2>1, OnDeviceActive
    <2>3. CASE r.steps = <<"list", "publish">>
      <3>1. Tail(r.steps) = <<"publish">> /\ Len(r.steps) # 1 /\ Head(r.steps) = "list"
        BY <2>3
      <3>2. <<"publish">> \in Programs \cap Withdrawing
        BY DEF Programs, Withdrawing
      <3>3. <<"publish">> \notin Deciding
        BY DEF Deciding
      <3>4. \E q \in requests' : q.steps = Tail(r.steps) /\ q.message_ids = Listed(r)
        BY <1>1, <1>3, <3>1, Continued DEF IInv
      <3>5. CASE m \in r.message_ids
        <4>1. m \in Listed(r)
          BY <2>2, <3>1, <3>5 DEF Listed, Active
        <4>2. \E q \in requests' : Withdraws(q, m)
          BY <3>1, <3>2, <3>4, <4>1, WithdrawsIs
        <4>3. InSight(m)'
          BY <4>2 DEF InSight, Withdraws
        <4>. QED  BY <2>1, <4>3
      <3>6. CASE m \notin r.message_ids
        <4>1. \A q \in requests' : Misses(q, m) => \E p \in requests : Misses(p, m)
          <5>. SUFFICES ASSUME NEW q \in requests', Misses(q, m),
                               q.steps = Tail(r.steps)
                        PROVE  FALSE
            BY <2>1
          <5>. QED  BY <3>1, <3>2, <3>3, MissesIs
        <4>. QED  BY <2>1, <3>6, <4>1 DEF Withdraws
      <3>. QED  BY <3>5, <3>6
    <2>4. CASE r.steps = <<"list_all", "publish", "update_all">>
      <3>1. Head(r.steps) = "list_all"
        BY <2>4
      <3>2. m \in Listed(r)
        BY <2>2, <3>1 DEF Listed, Active
      <3>3. \A q \in requests' : Misses(q, m) => \E p \in requests : Misses(p, m)
        BY <2>1, <3>2 DEF Misses
      <3>. QED  BY <2>1, <3>1, <3>3 DEF Withdraws
    <2>5. CASE r.steps = <<"list_unread", "update_all", "list", "publish">>
      <3>1. Head(r.steps) = "list_unread"
        BY <2>5
      <3>2. "read" \in flags[m] \/ m \in Listed(r)
        BY <2>2, <3>1 DEF Listed, Unread
      <3>3. \A q \in requests' : Misses(q, m) =>
                "read" \in flags[m] \/ \E p \in requests : Misses(p, m)
        BY <2>1, <3>2 DEF Misses
      <3>. QED  BY <2>1, <3>1, <3>3 DEF Withdraws
    <2>. QED  BY <1>1, <1>3, <2>3, <2>4, <2>5, HeadOfProgram
  <1>. QED  BY <1>2, <1>5, <1>6, StaysInSight

LEMMA PublishRevoke ==
    ASSUME IInv, RevokeInv, PublishRemove PROVE RevokeInv'
  <1>. DEFINE n(r) == [type |-> "remove", message_ids |-> r.message_ids, failed_tries |-> 0]
  <1>1. PICK r \in requests :
            /\ Head(r.steps) = "publish"
            /\ queue' = IF r.message_ids = {} THEN queue ELSE Append(queue, n(r))
            /\ Continue(r, {})
            /\ UNCHANGED <<dbVars, pc, user_message, deviceVars, sent, historyVars, counterVars>>
    BY DEF PublishRemove
  <1>2. UNCHANGED <<rows, flags, pc, shown, unrevoked, raced, read, undone>>
    BY <1>1 DEF dbVars, deviceVars, historyVars
  <1>3. r.steps \in Programs /\ r.message_ids \in SUBSET Messages
    BY DEF RevokeInv, Programmed, IInv, TypeOK, Request
  <1>4. n(r) \in Notice /\ n(r).message_ids = r.message_ids /\ n(r).type = "remove"
    BY <1>3, BoundsAssumption DEF Notice
  <1>. HIDE DEF n
  <1>5. queue' = queue \/ \E k \in Notice : queue' = Append(queue, k)
    BY <1>1, <1>4
  <1>6. Programmed'
    BY <1>1, ProgramGoesOn
  <1>7. ASSUME NEW m \in OnDevice'
        PROVE  /\ m \in OnDevice
               /\ InSight(m) => InSight(m)'
               /\ \A q \in requests' : Misses(q, m) =>
                    (\E p \in requests : Misses(p, m)) \/ InSight(m)'
    <2>1. /\ m \in OnDevice
          /\ InSight(m) => InSight(m)' \/ Withdraws(r, m)
          /\ \A q \in requests' : Misses(q, m) =>
                \/ \E p \in requests : Misses(p, m)
                \/ Len(r.steps) # 1 /\ q.steps = Tail(r.steps) /\ q.message_ids = {}
      BY <1>1, <1>2, <1>5, <1>7, StatementRevoke
    <2>2. CASE m \in r.message_ids
      <3>1. queue' = Append(queue, n(r))
        BY <1>1, <2>2
      <3>2. pc # "idle" => queue # <<>>
        BY DEF IInv, TypeOK
      <3>3. \E j \in 1 .. Len(queue') : Removal(m, j)'
        BY <1>2, <1>4, <2>2, <3>1, <3>2, RemovalAppended DEF IInv
      <3>4. InSight(m)'
        BY <3>3 DEF InSight
      <3>. QED  BY <2>1, <3>4
    <2>3. CASE m \notin r.message_ids
      <3>1. Len(r.steps) # 1 => Misses(r, m)
        <4>. SUFFICES ASSUME Len(r.steps) # 1 PROVE r.steps \in Deciding
          BY <1>3, <2>3, MissesIs
        <4>1. r.steps # <<"publish">>
          OBVIOUS
        <4>2. r.steps = <<"publish", "update_all">>
          BY <1>1, <1>3, <4>1, HeadOfProgram
        <4>. QED  BY <4>2 DEF Deciding
      <3>. QED  BY <2>1, <2>3, <3>1 DEF Withdraws
    <2>. QED  BY <2>2, <2>3
  <1>. QED  BY <1>2, <1>6, <1>7, StaysInSight

LEMMA RequestKilledRevoke ==
    ASSUME IInv, RevokeInv, RequestKilled PROVE RevokeInv'
  <1>1. PICK r \in requests :
            /\ requests' = requests \ {r}
            /\ unrevoked' = unrevoked \cup
                  (IF Head(r.steps) \in {"list", "publish"} THEN r.message_ids ELSE {})
            /\ UNCHANGED <<dbVars, queue, pc, user_message, deviceVars, sent, raced, read, undone,
                           notices, started>>
    BY DEF RequestKilled
  <1>2. UNCHANGED <<rows, flags, queue, pc, shown, raced, read, undone>>
    BY <1>1 DEF dbVars, deviceVars
  <1>3. Programmed'
    BY <1>1 DEF RevokeInv, Programmed
  <1>4. ASSUME NEW m \in OnDevice'
        PROVE  m \in OnDevice /\ (InSight(m) => InSight(m)')
    <2>1. m \in OnDevice
      BY <1>2, <1>4 DEF OnDevice, Current
    <2>2. Withdraws(r, m) => m \in unrevoked'
      BY <1>1 DEF Withdraws
    <2>3. m \in unrevoked \cup raced => m \in unrevoked' \cup raced'
      BY <1>1, <1>2
    <2>4. (\E i \in 1 .. Len(queue) : Removal(m, i)) => \E i \in 1 .. Len(queue') : Removal(m, i)'
      BY <1>2 DEF Removal
    <2>. QED  BY <1>1, <2>1, <2>2, <2>3, <2>4 DEF InSight
  <1>. QED  BY <1>1, <1>2, <1>3, <1>4, StaysInSight

-----------------------------------------------------------------------------
(* A step of the worker that leaves the queue: a removal at its head stays *)
(* in sight until its call is made.                                        *)
LEMMA WorkerQuiet ==
    ASSUME requests' = requests, queue' = queue,
           unrevoked \subseteq unrevoked', raced \subseteq raced',
           NEW m, InSight(m), Removal(m, 1) => InSight(m)'
    PROVE  InSight(m)'
  <1>1. ASSUME NEW i \in 1 .. Len(queue), Removal(m, i), i # 1
        PROVE  Removal(m, i)'
    BY <1>1 DEF Removal
  <1>. QED  BY <1>1 DEF InSight

LEMMA HeadOfQueue ==
    ASSUME IInv, queue # <<>>
    PROVE  1 \in 1 .. Len(queue) /\ Current = queue[1]
  BY HeadNotice DEF IInv, TypeOK, Current

LEMMA HandleRevoke ==
    ASSUME IInv, RevokeInv, HandlePush \/ NothingToRemove \/ Revoke \/ Push \/ Clear \/ Crash
    PROVE  RevokeInv'
  <1>. USE DEF dbVars, deviceVars, historyVars, counterVars
  <1>1. UNCHANGED <<rows, queue, requests, unrevoked, raced, read, undone>>
    BY DEF HandlePush, NothingToRemove, Revoke, Push, Clear, Crash
  <1>2. queue # <<>>
    BY DEF HandlePush, NothingToRemove, Revoke, Push, Clear, Crash, Removes, IInv, TypeOK
  <1>3. 1 \in 1 .. Len(queue) /\ Current = queue[1] /\ Current' = Current
    BY <1>1, <1>2, HeadOfQueue DEF Current
  <1>4. Programmed'
    BY <1>1 DEF RevokeInv, Programmed
  <1>5. ASSUME NEW m \in OnDevice'
        PROVE  /\ m \in OnDevice
               /\ "read" \in flags'[m] => "read" \in flags[m]
               /\ InSight(m) => InSight(m)'
    <2>1. m \in OnDevice
      BY <1>1, <1>3, <1>5 DEF OnDevice, HandlePush, NothingToRemove, Revoke, Push, Clear, Crash,
            Show, Hide
    <2>2. m \in Messages /\ m \in rows
      BY <2>1, OnDeviceActive
    <2>3. "read" \in flags'[m] => "read" \in flags[m]
      <3>1. CASE Clear
        BY <2>2, <3>1 DEF Clear
      <3>2. CASE HandlePush \/ NothingToRemove \/ Revoke \/ Push \/ Crash
        BY <3>2 DEF HandlePush, NothingToRemove, Revoke, Push, Crash
      <3>. QED  BY <3>1, <3>2
    <2>4. Removal(m, 1) => InSight(m)'
      <3>. SUFFICES ASSUME Removal(m, 1) PROVE InSight(m)'
        OBVIOUS
      <3>1. Current.type = "remove" /\ m \in Ids /\ pc \notin {"clear", "ack"}
        BY <1>3, <2>2 DEF Removal, Ids
      <3>2. ~HandlePush /\ ~NothingToRemove /\ ~Push /\ ~Clear
        BY <3>1 DEF HandlePush, NothingToRemove, Push, Clear, IInv, TypeOK, Current
      <3>3. ~Revoke
        <4>. SUFFICES ASSUME Revoke PROVE FALSE
          OBVIOUS
        <4>1. shown' = shown \ Ids /\ pc' = "clear"
          BY DEF Revoke, Hide
        <4>. QED  BY <1>5, <3>1, <4>1 DEF OnDevice
      <3>4. Crash
        BY <3>2, <3>3
      <3>5. Removal(m, 1)'
        BY <1>1, <3>4 DEF Removal, Crash
      <3>. QED  BY <1>1, <1>3, <3>5 DEF InSight
    <2>. QED  BY <1>1, <2>1, <2>3, <2>4, WorkerQuiet
  <1>. QED  BY <1>1, <1>4, <1>5, StaysInSight

(* The worker is going to show a notification: what the user marked read   *)
(* is in sight of a removal, or the history records the lost mark.         *)
LEMMA SaveRevoke ==
    ASSUME IInv, RevokeInv, Save PROVE RevokeInv'
  <1>1. /\ pc = "save" /\ queue # <<>> /\ Current.type = "add" /\ user_message = {}
        /\ UNCHANGED <<rows, queue, requests, shown, unrevoked, read>>
    BY DEF Save, IInv, TypeOK, InHand, Current, deviceVars
  <1>2. PICK k \in Messages : Current.message_ids = {k}
    BY <1>1, CurrentNotice DEF IInv
  <1>3. \/ /\ k \in rows /\ flags' = [flags EXCEPT ![k] = {active}] /\ pc' = "push"
           /\ raced' = IF \E r \in requests : Misses(r, k) THEN raced \cup {k} ELSE raced
           /\ undone' = IF k \in read /\ ~Revoking(k) THEN undone \cup {k} ELSE undone
        \/ /\ k \notin rows /\ flags' = flags /\ pc' = "ack"
           /\ raced' = raced /\ undone' = undone
    BY <1>1, <1>2 DEF Save
  <1>4. 1 \in 1 .. Len(queue) /\ Current = queue[1] /\ Current' = Current
    BY <1>1, HeadOfQueue DEF Current
  <1>5. Programmed'
    BY <1>1 DEF RevokeInv, Programmed
  <1>6. flags \in [Messages -> SUBSET Flags] /\ DOMAIN queue = 1 .. Len(queue)
    BY DEF IInv, TypeOK
  <1>7. ASSUME NEW m \in OnDevice', m # k
        PROVE  m \in OnDevice /\ flags'[m] = flags[m] /\ (InSight(m) => InSight(m)')
    <2>1. m \in OnDevice
      BY <1>1, <1>2, <1>4, <1>7 DEF OnDevice
    <2>2. flags'[m] = flags[m]
      BY <1>3, <1>6, <1>7, <2>1, OnDeviceActive
    <2>3. ~Removal(m, 1)
      BY <1>1, <1>4 DEF Removal
    <2>. QED  BY <1>1, <1>3, <2>1, <2>2, <2>3, WorkerQuiet
  <1>8. Decided'
    <2>. SUFFICES ASSUME NEW m \in OnDevice',
                         "read" \in flags'[m] \/ \E r \in requests' : Misses(r, m)
                  PROVE  InSight(m)'
      BY DEF Decided
    <2>1. CASE m = k
      <3>1. k \in rows
        BY <1>1, <2>1 DEF OnDevice
      <3>2. "read" \notin flags'[k]
        BY <1>2, <1>3, <1>6, <3>1 DEF active
      <3>. QED  BY <1>1, <1>3, <2>1, <3>1, <3>2 DEF InSight
    <2>2. CASE m # k
      BY <1>1, <1>7, <2>2 DEF RevokeInv, Decided
    <2>. QED  BY <2>1, <2>2
  <1>9. Seen'
    <2>. SUFFICES ASSUME NEW m \in OnDevice', m \in read' PROVE InSight(m)' \/ m \in undone'
      BY DEF Seen
    <2>1. CASE m = k
      <3>1. k \in rows
        BY <1>1, <2>1 DEF OnDevice
      <3>2. CASE Revoking(k)
        <4>1. ASSUME NEW i \in 1 .. Len(queue), queue[i].type = "remove",
                     k \in queue[i].message_ids
              PROVE  Removal(k, i)'
          BY <1>1, <1>3, <1>4, <3>1, <4>1 DEF Removal
        <4>. QED  BY <1>1, <1>6, <2>1, <3>2, <4>1 DEF Revoking, InSight, Withdraws
      <3>3. CASE ~Revoking(k)
        BY <1>1, <1>3, <2>1, <3>1, <3>3
      <3>. QED  BY <3>2, <3>3
    <2>2. CASE m # k
      BY <1>1, <1>3, <1>7, <2>2 DEF RevokeInv, Seen
    <2>. QED  BY <2>1, <2>2
  <1>. QED  BY <1>5, <1>8, <1>9 DEF RevokeInv

(* A call of the bouncer that failed: a removal is published again, or     *)
(* recorded as given up.                                                   *)
LEMMA FailureRevoke ==
    ASSUME IInv, RevokeInv, RetryLater \/ Fails PROVE RevokeInv'
  <1>1. /\ queue # <<>>
        /\ pc = "push" \/ Removes
        /\ UNCHANGED <<rows, flags, requests, raced, read, undone>> /\ pc' = "ack"
        /\ unrevoked \subseteq unrevoked'
    <2>1. Sending
      BY DEF RetryLater, Fails
    <2>2. queue # <<>> /\ (pc = "push" \/ Removes)
      BY <2>1 DEF Sending, Removes, IInv, TypeOK
    <2>. QED  BY <2>2 DEF RetryLater, Fails, dbVars, historyVars
  <1>2. 1 \in 1 .. Len(queue) /\ Current = queue[1] /\ Current \in Notice
    BY <1>1, HeadOfQueue, CurrentNotice DEF IInv
  <1>3. pc = "push" => Current.type = "add"
    BY DEF IInv, TypeOK, Current
  <1>4. Programmed'
    BY <1>1 DEF RevokeInv, Programmed
  <1>5. ASSUME NEW m \in OnDevice' PROVE m \in OnDevice
    <2>1. \/ shown' \subseteq shown
          \/ pc = "push" /\ shown' = shown \cup Current.message_ids
      BY DEF RetryLater, Fails, Delivered, Show, Hide, deviceVars
    <2>. QED  BY <1>1, <1>5, <2>1 DEF OnDevice
  <1>6. ASSUME NEW m \in OnDevice, InSight(m) PROVE InSight(m)'
    <2>1. CASE Fails
      <3>1. queue' = queue
        BY <2>1 DEF Fails
      <3>2. Removal(m, 1) => InSight(m)'
        <4>. SUFFICES ASSUME Removal(m, 1) PROVE m \in unrevoked'
          BY DEF InSight
        <4>1. pc # "push" /\ m \in Current.message_ids
          BY <1>2, <1>3 DEF Removal
        <4>. QED  BY <2>1, <4>1 DEF Fails
      <3>. QED  BY <1>1, <1>6, <3>1, <3>2, WorkerQuiet
    <2>2. CASE RetryLater
      <3>. DEFINE n == [Current EXCEPT !.failed_tries = @ + 1]
      <3>1. queue' = Append(queue, n) /\ unrevoked' = unrevoked
        BY <2>2 DEF RetryLater, historyVars
      <3>2. Current.failed_tries + 1 \in 0 .. MAX_REQUEST_RETRIES
        BY <1>2, <2>2, NoticeFields DEF RetryLater, GivesUp
      <3>3. n \in Notice /\ n.message_ids = Current.message_ids /\ n.type = Current.type
        BY <1>2, <3>2 DEF Notice
      <3>. HIDE DEF n
      <3>4. queue \in Seq(Notice) /\ Len(queue) \in Nat
        BY DEF IInv, TypeOK
      <3>5. ASSUME NEW i \in 1 .. Len(queue), Removal(m, i), i # 1
            PROVE  i \in 1 .. Len(queue') /\ Removal(m, i)'
        BY <3>1, <3>3, <3>4, <3>5 DEF Removal
      <3>6. Removal(m, 1) => \E j \in 1 .. Len(queue') : Removal(m, j)'
        <4>. SUFFICES ASSUME Removal(m, 1) PROVE \E j \in 1 .. Len(queue') : Removal(m, j)'
          OBVIOUS
        <4>1. n.type = "remove" /\ m \in n.message_ids
          BY <1>2, <3>3 DEF Removal
        <4>. QED  BY <1>1, <3>1, <3>3, <4>1, RemovalAppended DEF IInv
      <3>. QED  BY <1>1, <1>6, <3>1, <3>5, <3>6 DEF InSight
    <2>. QED  BY <2>1, <2>2
  <1>. QED  BY <1>1, <1>4, <1>5, <1>6, StaysInSight

LEMMA AcknowledgeRevoke ==
    ASSUME IInv, RevokeInv, Acknowledge PROVE RevokeInv'
  <1>1. /\ pc = "ack" /\ pc' = "idle" /\ queue # <<>> /\ queue' = Tail(queue)
        /\ UNCHANGED <<rows, flags, requests, shown, unrevoked, raced, read, undone>>
    BY DEF Acknowledge, IInv, TypeOK, dbVars, deviceVars, historyVars
  <1>2. queue \in Seq(Notice) /\ Len(queue) \in Nat
    BY DEF IInv, TypeOK
  <1>3. Programmed'
    BY <1>1 DEF RevokeInv, Programmed
  <1>4. ASSUME NEW m \in OnDevice' PROVE m \in OnDevice /\ (InSight(m) => InSight(m)')
    <2>1. m \in OnDevice
      BY <1>1, <1>4 DEF OnDevice
    <2>2. ASSUME NEW i \in 1 .. Len(queue), Removal(m, i)
          PROVE  i - 1 \in 1 .. Len(queue') /\ Removal(m, i - 1)'
      <3>1. i # 1
        BY <1>1, <2>2 DEF Removal
      <3>2. i - 1 \in 1 .. Len(queue') /\ queue'[i - 1] = queue[i]
        BY <1>1, <1>2, <3>1
      <3>. QED  BY <1>1, <2>2, <3>2 DEF Removal
    <2>. QED  BY <1>1, <2>1, <2>2 DEF InSight
  <1>. QED  BY <1>1, <1>3, <1>4, StaysInSight

LEMMA NextRevoke == IInv /\ RevokeInv /\ [Next]_vars => RevokeInv'
  <1>. SUFFICES ASSUME IInv, RevokeInv, [Next]_vars PROVE RevokeInv'
    OBVIOUS
  <1>1. CASE SendMessage \/ NotifyMessage \/ DeleteMessage \/ MarkUnread
    BY <1>1, MessageStepsRevoke
  <1>2. CASE StartRequest \/ Update \/ List \/ PublishRemove \/ RequestKilled
    BY <1>2, StartRequestRevoke, UpdateRevoke, ListRevoke, PublishRevoke, RequestKilledRevoke
  <1>3. CASE HandlePush \/ NothingToRemove \/ Revoke \/ Push \/ Clear \/ Crash
    BY <1>3, HandleRevoke
  <1>4. CASE Save \/ RetryLater \/ Fails \/ Acknowledge
    BY <1>4, SaveRevoke, FailureRevoke, AcknowledgeRevoke
  <1>5. CASE UNCHANGED vars
    BY <1>5 DEF vars, dbVars, deviceVars, historyVars, counterVars, RevokeInv, Programmed,
       Decided, Seen, OnDevice, InSight, Removal, Current
  <1>. QED  BY <1>1, <1>2, <1>3, <1>4, <1>5 DEF Next, Worker

(* The notification of a message the user marked read does not stay on the *)
(* device, in whatever order the worker and the requests execute their     *)
(* statements: its removal is in sight, or one of the three named          *)
(* exceptions has come.                                                    *)
THEOREM RevokedCorrect == Spec => []RevokedWhenRead
  <1>1. Init => RevokeInv
    BY DEF Init, RevokeInv, Programmed, Decided, Seen, OnDevice
  <1>2. IInv /\ RevokeInv => RevokedWhenRead
    <2>. SUFFICES ASSUME IInv, RevokeInv, NEW m \in shown \cap rows \cap read
                  PROVE  Revoking(m) \/ m \in unrevoked \cup raced \cup undone
      BY DEF RevokedWhenRead
    <2>1. InSight(m) \/ m \in undone
      BY DEF RevokeInv, Seen, OnDevice
    <2>2. DOMAIN queue = 1 .. Len(queue)
      BY DEF IInv, TypeOK
    <2>. QED  BY <2>1, <2>2 DEF InSight, Removal, Withdraws, Revoking
  <1>. QED  BY <1>1, <1>2, NextRevoke, PushInvariant, PTL DEF Spec
=============================================================================
