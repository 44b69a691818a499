------------------------- MODULE MissedMessageProofs -------------------------
(***************************************************************************)
(* What MissedMessageWorker promises, for any users, messages, periods and *)
(* number of failures: rows have a timer, an acknowledged notice has its   *)
(* row or was dealt with, the rows of a user stay together, and a message  *)
(* is emailed again only for a failure or a change that explains it.       *)
(***************************************************************************)
EXTENDS MissedMessageWorker, SequenceTheorems, FiniteSetTheorems, TLAPS

Row == [user : Users, message : Messages, scheduled : Int, delivery : Nat]

CountersInv ==
    /\ changes \in Nat /\ crashes \in Nat /\ aborts \in Nat
    /\ aborted => aborts # 0
    /\ \A row \in rows : row.delivery <= crashes

(* What consume has in hand is the first notice of the queue.              *)
ConsumerInv ==
    /\ consumer \in [pc : {"idle", "period", "pending", "create", "ack"},
                     pair : Missed \cup {None}, batch_duration : Int \cup {None},
                     scheduled : Int \cup {None}]
    /\ consumer.pc # "idle" => queued # <<>> /\ consumer.pair = Head(queued)
    /\ consumer.pc = "pending" => consumer.batch_duration \in Periods
    /\ consumer.pc = "create" => consumer.scheduled \in Int

(* The rows that the end of the run deletes are in the batch, unless they  *)
(* were moved, and those of the batch are handled user by user.            *)
BatchInv ==
    /\ batch \subseteq Row /\ \A row \in batch : PairOf(row) \in Missed
    /\ lock = "timer" =>
        \A row \in rows : row.scheduled <= current_time =>
            row \in batch \/ PairOf(row) \in moved
    /\ \A row \in batch : row.user \in recipients \/ DealtWith(PairOf(row))

Safe(p) == Planned(p) \/ DealtWith(p) \/ p \in moved

AckInv == consumer.pc = "ack" => Safe(consumer.pair)

TogetherInv ==
    changes = 0 =>
        /\ \A u \in Users : change[u] = 0
        /\ consumer.pc = "create" =>
            \A row \in RowsOf(consumer.pair[1]) : row.scheduled = consumer.scheduled

IInv ==
    /\ TypeOK /\ CountersInv /\ ConsumerInv /\ BatchInv /\ AckInv /\ TogetherInv
    /\ RowsHaveTimer /\ NoticeAccounted /\ SentTogether

-----------------------------------------------------------------------------
(* Every notice is in the queue at first.                                  *)
LEMMA AllQueued ==
    ASSUME NEW q \in SetToSeqs(Missed)
    PROVE  q \in Seq(Missed) /\ Range(q) = Missed
  <1>. DEFINE n == Cardinality(Missed)  D == 1 .. n
  <1>1. n \in Nat
    BY FS_CardinalityType, MissedAssumption
  <1>2. q \in [D -> Missed] /\ \A i, j \in D : i # j => q[i] # q[j]
    BY DEF SetToSeqs
  <1>3. q \in Injection(D, Missed)
    BY <1>2 DEF Injection, IsInjective
  <1>4. Cardinality(D) = n
    BY <1>1, FS_Interval
  <1>5. q \in Surjection(D, Missed)
    BY <1>3, <1>4, FS_Injection, MissedAssumption
  <1>6. Range(q) = Missed
    BY <1>2, <1>5 DEF Surjection, Range
  <1>7. q \in Seq(Missed)
    BY <1>1, <1>2
  <1>. QED  BY <1>6, <1>7

LEMMA PairIn ==
    ASSUME NEW p \in Missed
    PROVE  p = <<p[1], p[2]>> /\ p[1] \in Users /\ p[2] \in Messages
  BY MissedAssumption

LEMMA PeriodIsInt ==
    ASSUME NEW t \in Periods PROVE t \in Int
  <1>1. t \in Nat
    BY PeriodsAssumption
  <1>. QED  BY <1>1

(* The notice that is acknowledged is the only one that leaves the queue.  *)
LEMMA TailRange ==
    ASSUME NEW s \in Seq(Missed), s # <<>>
    PROVE  /\ Tail(s) \in Seq(Missed) /\ Head(s) \in Missed
           /\ \A p \in Missed \ Range(Tail(s)) : p = Head(s) \/ p \notin Range(s)
  <1>1. /\ Len(s) \in Nat \ {0} /\ Tail(s) \in Seq(Missed) /\ Len(Tail(s)) = Len(s) - 1
        /\ Head(s) = s[1] /\ Head(s) \in Missed
        /\ DOMAIN s = 1 .. Len(s) /\ DOMAIN Tail(s) = 1 .. Len(Tail(s))
        /\ \A i \in 1 .. Len(s) - 1 : Tail(s)[i] = s[i + 1]
    OBVIOUS
  <1>2. ASSUME NEW p \in Range(s), p # Head(s) PROVE p \in Range(Tail(s))
    <2>1. PICK i \in 1 .. Len(s) : s[i] = p
      BY <1>1, <1>2 DEF Range
    <2>2. i - 1 \in DOMAIN Tail(s) /\ Tail(s)[i - 1] = p
      BY <1>1, <1>2, <2>1
    <2>. QED  BY <2>2 DEF Range
  <1>. QED  BY <1>1, <1>2

-----------------------------------------------------------------------------
LEMMA InitInvariant == Init => IInv
  <1>. SUFFICES ASSUME Init PROVE IInv
    OBVIOUS
  <1>1. queued \in Seq(Missed) /\ Range(queued) = Missed
    BY AllQueued DEF Init
  <1>2. TypeOK
    <2>1. now \in 0 .. MaxTime
      BY BoundsAssumption DEF Init
    <2>2. change \in [Users -> Int] /\ emailed \in [Missed -> Nat]
      BY DEF Init
    <2>3. /\ consumer.pc = "idle" /\ lock = "free" /\ timer_event \in BOOLEAN
          /\ batch = {} /\ recipients = {} /\ ~aborted /\ rows = {}
      BY DEF Init, Idle
    <2>4. period \in [Users -> Periods] /\ read = {} /\ deleted = {} /\ raised = {} /\ moved = {}
      BY DEF Init
    <2>. QED  BY <1>1, <2>1, <2>2, <2>3, <2>4 DEF TypeOK
  <1>3. CountersInv /\ ConsumerInv /\ BatchInv /\ AckInv /\ TogetherInv
    BY DEF Init, CountersInv, ConsumerInv, BatchInv, AckInv, TogetherInv, Idle
  <1>4. RowsHaveTimer /\ NoticeAccounted /\ SentTogether
    BY <1>1 DEF Init, RowsHaveTimer, NoticeAccounted, SentTogether
  <1>. QED  BY <1>2, <1>3, <1>4 DEF IInv

-----------------------------------------------------------------------------
(* Steps that only add to what was dealt with or moved keep a notice safe. *)
LEMMA StaysDealtWith ==
    ASSUME TypeOK, emailed' \in [Missed -> Nat],
           \A p \in Missed : emailed[p] <= emailed'[p],
           read \subseteq read', raised \subseteq raised', deleted \subseteq deleted',
           NEW p \in Missed, DealtWith(p)
    PROVE  DealtWith(p)'
  <1>1. emailed[p] \in Nat /\ emailed'[p] \in Nat /\ emailed[p] <= emailed'[p]
    BY DEF TypeOK
  <1>. QED  BY <1>1 DEF DealtWith

(* Consuming a notice.                                                     *)
LEMMA ConsumerIdle ==
    ASSUME IInv, ConsumeStarts \/ ConsumeReadsPeriod \/ ConsumeReadsPending
    PROVE  IInv'
  <1>. USE DEF IInv, dbVars, timerVars, historyVars, counterVars
  <1>1. /\ UNCHANGED <<now, queued, dbVars, timer_event, timerVars, change, historyVars, counterVars>>
        /\ lock \in {"free", "consumer"} /\ lock' = "consumer" /\ queued # <<>>
        /\ consumer'.pc \in {"pending", "period", "create"}
        /\ consumer'.pc = "create" => consumer.pc = "pending"
        /\ consumer' \in [pc : {"idle", "period", "pending", "create", "ack"},
                     pair : Missed \cup {None}, batch_duration : Int \cup {None},
                     scheduled : Int \cup {None}]
        /\ consumer'.pair = Head(queued)
        /\ consumer'.pc = "pending" => consumer'.batch_duration \in Periods
        /\ consumer'.pc = "create" =>
                /\ consumer'.scheduled \in Int
                /\ \/ \E row \in RowsOf(Head(queued)[1]) : consumer'.scheduled = row.scheduled
                   \/ RowsOf(Head(queued)[1]) = {}
    <2>1. CASE ConsumeStarts
      <3>1. Head(queued) \in Missed
        BY <2>1, TailRange DEF ConsumeStarts, TypeOK
      <3>. QED  BY <2>1, <3>1 DEF ConsumeStarts, Idle
    <2>2. CASE ConsumeReadsPeriod
      <3>1. consumer.pair = Head(queued) /\ Head(queued) \in Missed /\ queued # <<>>
        BY <2>2, TailRange DEF ConsumeReadsPeriod, ConsumerInv, TypeOK
      <3>0. consumer.pair[1] \in Users
        BY <3>1, PairIn
      <3>2. period[consumer.pair[1]] \in Periods /\ period[consumer.pair[1]] \in Int
        BY <3>0, PeriodIsInt DEF TypeOK
      <3>3. lock = "consumer"
        BY <2>2 DEF ConsumeReadsPeriod, TypeOK
      <3>4. /\ consumer' \in [pc : {"idle", "period", "pending", "create", "ack"},
                     pair : Missed \cup {None}, batch_duration : Int \cup {None},
                     scheduled : Int \cup {None}]
            /\ consumer'.pc = "pending" /\ consumer'.pair = consumer.pair
            /\ consumer'.batch_duration \in Periods
        BY <2>2, <3>2 DEF ConsumeReadsPeriod, ConsumerInv
      <3>. QED  BY <2>2, <3>1, <3>3, <3>4 DEF ConsumeReadsPeriod
    <2>3. CASE ConsumeReadsPending
      <3>1. /\ consumer.pair = Head(queued) /\ queued # <<>>
            /\ consumer.batch_duration \in Periods /\ lock = "consumer" /\ consumer.pc = "pending"
        BY <2>3 DEF ConsumeReadsPending, ConsumerInv, TypeOK
      <3>2. /\ now + consumer.batch_duration \in Int
            /\ \A row \in rows : row.scheduled \in Int
        <4>1. now \in Int
          BY DEF TypeOK
        <4>2. consumer.batch_duration \in Int
          BY <3>1, PeriodIsInt
        <4>. QED  BY <4>1, <4>2 DEF TypeOK
      <3>3. PICK t \in Int :
                /\ consumer' = [consumer EXCEPT !.pc = "create", !.scheduled = t]
                /\ \/ \E row \in RowsOf(consumer.pair[1]) : t = row.scheduled
                   \/ RowsOf(consumer.pair[1]) = {}
        BY <2>3, <3>2 DEF ConsumeReadsPending, PendingEmails, RowsOf
      <3>. QED  BY <2>3, <3>1, <3>3 DEF ConsumeReadsPending, ConsumerInv
    <2>. QED  BY <2>1, <2>2, <2>3
  <1>2. TypeOK'
    BY <1>1 DEF TypeOK, PairOf
  <1>3. CountersInv' /\ ConsumerInv' /\ AckInv'
    BY <1>1 DEF CountersInv, ConsumerInv, AckInv
  <1>4. BatchInv'
    BY <1>1 DEF BatchInv, DealtWith, PairOf, TypeOK
  <1>5. TogetherInv'
    <2>1. SUFFICES ASSUME changes = 0, consumer'.pc = "create",
                          NEW row \in RowsOf(Head(queued)[1])
                   PROVE  row.scheduled = consumer'.scheduled
      BY <1>1 DEF TogetherInv, RowsOf
    <2>2. PICK r \in RowsOf(Head(queued)[1]) : consumer'.scheduled = r.scheduled
      BY <1>1, <2>1
    <2>. QED  BY <2>1, <2>2 DEF SentTogether, RowsOf
  <1>6. RowsHaveTimer' /\ NoticeAccounted' /\ SentTogether'
    BY <1>1 DEF RowsHaveTimer, NoticeAccounted, SentTogether, Planned, DealtWith
  <1>. QED  BY <1>2, <1>3, <1>4, <1>5, <1>6

LEMMA ConsumeCreatesStep ==
    ASSUME IInv, ConsumeCreates PROVE IInv'
  <1>. USE DEF IInv, dbVars, timerVars, historyVars, counterVars
  <1>. DEFINE p == consumer.pair
              new == [user |-> p[1], message |-> p[2], scheduled |-> consumer.scheduled,
                      delivery |-> crashes]
  <1>1. /\ consumer.pc = "create" /\ lock = "consumer" /\ lock' = "free"
        /\ consumer' = [consumer EXCEPT !.pc = "ack"]
        /\ UNCHANGED <<now, queued, period, read, deleted, timerVars, change,
                       historyVars, counterVars>>
        /\ p \in Missed /\ p = Head(queued) /\ queued # <<>> /\ consumer.scheduled \in Int
    BY TailRange DEF ConsumeCreates, ConsumerInv, TypeOK
  <1>2. /\ consumer'.pc = "ack" /\ consumer'.pair = p
        /\ consumer' \in [pc : {"idle", "period", "pending", "create", "ack"},
                     pair : Missed \cup {None}, batch_duration : Int \cup {None},
                     scheduled : Int \cup {None}]
    BY <1>1 DEF ConsumerInv
  <1>3. p = <<p[1], p[2]>> /\ p[1] \in Users /\ p[2] \in Messages
    BY <1>1, PairIn
  <1>4. new \in Row /\ PairOf(new) = p /\ new.user = p[1] /\ new.message = p[2]
        /\ new.scheduled = consumer.scheduled /\ new.delivery = crashes
    BY <1>1, <1>3 DEF Row, PairOf, CountersInv
  <1>5. \/ p[2] \in deleted /\ rows' = rows /\ timer_event' = timer_event
        \/ p[2] \notin deleted /\ rows' = rows \cup {new} /\ timer_event' = TRUE
    BY DEF ConsumeCreates
  <1>. HIDE DEF new
  <1>6. /\ rows' \subseteq Row
        /\ \A row \in rows' : PairOf(row) \in Missed /\ row.message \notin deleted
    BY <1>1, <1>4, <1>5 DEF TypeOK, Row
  <1>7. TypeOK'
    BY <1>1, <1>2, <1>5, <1>6 DEF TypeOK, PairOf, Row
  <1>8. ConsumerInv' /\ TogetherInv'
    BY <1>1, <1>2 DEF ConsumerInv, TogetherInv
  <1>14. CountersInv'
    BY <1>1, <1>4, <1>5 DEF CountersInv
  <1>9. BatchInv'
    BY <1>1 DEF BatchInv, TypeOK
  <1>10. AckInv'
    BY <1>1, <1>2, <1>4, <1>5 DEF AckInv, Safe, Planned, DealtWith, PairOf
  <1>11. RowsHaveTimer'
    BY <1>1, <1>5 DEF RowsHaveTimer
  <1>12. NoticeAccounted'
    BY <1>1, <1>5 DEF NoticeAccounted, Planned, DealtWith, PairOf
  <1>13. SentTogether'
    <2>1. SUFFICES ASSUME changes = 0, NEW r \in rows', NEW s \in rows', r.user = s.user
                   PROVE  r.scheduled = s.scheduled
      BY <1>1 DEF SentTogether
    <2>2. \A row \in rows : row.user = p[1] => row.scheduled = consumer.scheduled
      BY <1>1, <2>1 DEF TogetherInv, RowsOf
    <2>. QED  BY <1>4, <1>5, <2>1, <2>2 DEF SentTogether
  <1>. QED  BY <1>7, <1>8, <1>9, <1>10, <1>11, <1>12, <1>13, <1>14

LEMMA AcknowledgeStep ==
    ASSUME IInv, Acknowledge PROVE IInv'
  <1>. USE DEF IInv, dbVars, timerVars, historyVars, counterVars
  <1>1. /\ consumer.pc = "ack" /\ consumer' = Idle /\ queued' = Tail(queued)
        /\ UNCHANGED <<now, dbVars, lock, timer_event, timerVars, change,
                       historyVars, counterVars>>
    BY DEF Acknowledge
  <1>2. queued # <<>> /\ consumer.pair = Head(queued) /\ queued \in Seq(Missed)
    BY <1>1 DEF ConsumerInv, TypeOK
  <1>3. /\ queued' \in Seq(Missed)
        /\ \A p \in Missed \ Range(queued') : p = consumer.pair \/ p \notin Range(queued)
    BY <1>1, <1>2, TailRange
  <1>4. /\ consumer'.pc = "idle"
        /\ consumer' \in [pc : {"idle", "period", "pending", "create", "ack"},
                     pair : Missed \cup {None}, batch_duration : Int \cup {None},
                     scheduled : Int \cup {None}]
    BY <1>1 DEF Idle
  <1>5. TypeOK'
    BY <1>1, <1>3, <1>4 DEF TypeOK, PairOf
  <1>6. CountersInv' /\ ConsumerInv' /\ AckInv' /\ TogetherInv'
    BY <1>1, <1>4 DEF CountersInv, ConsumerInv, AckInv, TogetherInv
  <1>7. BatchInv' /\ RowsHaveTimer' /\ SentTogether'
    BY <1>1 DEF BatchInv, DealtWith, PairOf, RowsHaveTimer, SentTogether
  <1>8. NoticeAccounted'
    BY <1>1, <1>3 DEF NoticeAccounted, AckInv, Safe, Planned, DealtWith, PairOf
  <1>. QED  BY <1>5, <1>6, <1>7, <1>8

-----------------------------------------------------------------------------
(* The timer thread.                                                       *)
LEMMA TimerFiresStep ==
    ASSUME IInv, TimerFires PROVE IInv'
  <1>. USE DEF IInv, dbVars, historyVars, counterVars
  <1>1. /\ lock = "free" /\ lock' = "timer" /\ timer_event' = FALSE /\ current_time' = now
        /\ batch' = Due(now) /\ recipients' = {row.user : row \in batch'}
        /\ batch' \subseteq rows
        /\ UNCHANGED <<now, queued, dbVars, consumer, aborted, change, historyVars, counterVars>>
    BY DEF TimerFires, TimerCleared, Due
  <1>2. TypeOK'
    BY <1>1 DEF TypeOK, PairOf
  <1>3. CountersInv' /\ ConsumerInv' /\ AckInv' /\ TogetherInv'
    BY <1>1 DEF CountersInv, ConsumerInv, AckInv, TogetherInv, Safe, Planned, DealtWith,
       PairOf, RowsOf
  <1>4. BatchInv'
    BY <1>1 DEF BatchInv, TypeOK, Due, Row, PairOf
  <1>5. RowsHaveTimer' /\ NoticeAccounted' /\ SentTogether'
    BY <1>1 DEF RowsHaveTimer, NoticeAccounted, SentTogether, Planned, DealtWith, PairOf
  <1>. QED  BY <1>2, <1>3, <1>4, <1>5

LEMMA HandlingSteps ==
    ASSUME IInv, HandleUser \/ HandlingRaises PROVE IInv'
  <1>. USE DEF IInv, dbVars, counterVars
  <1>0. PICK u \in recipients :
            \E pairs \in SUBSET Unread(u) :
                /\ Email(pairs) /\ recipients' = recipients \ {u}
                /\ raised' = raised \cup (Unread(u) \ pairs)
    BY DEF HandleUser, HandlingRaises
  <1>1. PICK pairs \in SUBSET Unread(u) :
            /\ Email(pairs) /\ recipients' = recipients \ {u}
            /\ raised' = raised \cup (Unread(u) \ pairs)
    BY <1>0
  <1>2. /\ lock = "timer" /\ ~aborted
        /\ UNCHANGED <<now, queued, dbVars, lock, timer_event, consumer, batch,
                       current_time, aborted, change, moved, counterVars>>
    BY DEF HandleUser, HandlingRaises
  <1>3. Unread(u) \subseteq Missed
    BY DEF Unread, BatchInv
  <1>4. /\ emailed' \in [Missed -> Nat]
        /\ \A p \in Missed : emailed[p] <= emailed'[p]
        /\ \A p \in pairs : emailed'[p] > 0
    <2>1. ASSUME NEW p \in Missed
          PROVE  /\ emailed[p] \in Nat
                 /\ emailed'[p] = IF p \in pairs THEN emailed[p] + 1 ELSE emailed[p]
      BY <1>1 DEF Email, TypeOK
    <2>2. emailed' = [p \in Missed |-> emailed'[p]]
      BY <1>1 DEF Email
    <2>. QED  BY <1>1, <1>3, <2>1, <2>2
  <1>5. raised' \subseteq Missed
    BY <1>1, <1>3 DEF TypeOK
  <1>6. TypeOK'
    BY <1>1, <1>2, <1>4, <1>5 DEF TypeOK, PairOf
  <1>7. \A p \in Missed : DealtWith(p) => DealtWith(p)'
    BY <1>1, <1>2, <1>4, StaysDealtWith
  <1>8. BatchInv'
    <2>1. ASSUME NEW row \in batch
          PROVE  row.user \in recipients' \/ DealtWith(PairOf(row))'
      <3>1. PairOf(row) \in Missed /\ (row.user \in recipients \/ DealtWith(PairOf(row)))
        BY DEF BatchInv
      <3>2. CASE row.user # u
        BY <1>1, <1>7, <3>1, <3>2
      <3>3. CASE row.user = u
        <4>1. CASE PairOf(row) \in Unread(u)
          BY <1>1, <1>4, <4>1 DEF DealtWith, PairOf
        <4>2. CASE PairOf(row) \notin Unread(u)
          BY <1>2, <3>3, <4>2 DEF DealtWith, Unread, PairOf
        <4>. QED  BY <4>1, <4>2
      <3>. QED  BY <3>2, <3>3
    <2>. QED  BY <1>2, <2>1 DEF BatchInv, PairOf
  <1>9. CountersInv' /\ ConsumerInv' /\ TogetherInv'
    BY <1>2 DEF CountersInv, ConsumerInv, TogetherInv, RowsOf
  <1>10. AckInv'
    <2>1. consumer.pc = "ack" => consumer.pair \in Missed
      BY TailRange DEF ConsumerInv, TypeOK
    <2>. QED  BY <1>2, <1>7, <2>1 DEF AckInv, Safe, Planned, PairOf
  <1>11. NoticeAccounted'
    BY <1>2, <1>7 DEF NoticeAccounted, Planned, PairOf
  <1>12. RowsHaveTimer' /\ SentTogether'
    BY <1>2 DEF RowsHaveTimer, SentTogether
  <1>. QED  BY <1>6, <1>8, <1>9, <1>10, <1>11, <1>12

LEMMA DatabaseFailsStep ==
    ASSUME IInv, DatabaseFails PROVE IInv'
  <1>. USE DEF IInv, dbVars, historyVars
  <1>1. /\ lock = "timer" /\ aborts' = aborts + 1 /\ aborted' = TRUE
        /\ UNCHANGED <<now, queued, dbVars, lock, timer_event, consumer, batch,
                       recipients, current_time, change, historyVars, changes, crashes>>
    BY DEF DatabaseFails
  <1>2. TypeOK'
    BY <1>1 DEF TypeOK, PairOf
  <1>3. CountersInv' /\ RowsHaveTimer'
    BY <1>1 DEF CountersInv, RowsHaveTimer
  <1>4. ConsumerInv' /\ BatchInv' /\ AckInv' /\ TogetherInv'
    BY <1>1 DEF ConsumerInv, BatchInv, AckInv, TogetherInv, Safe, Planned, DealtWith, PairOf, RowsOf
  <1>5. NoticeAccounted' /\ SentTogether'
    BY <1>1 DEF NoticeAccounted, SentTogether, Planned, DealtWith, PairOf
  <1>. QED  BY <1>2, <1>3, <1>4, <1>5

LEMMA DeleteProcessedStep ==
    ASSUME IInv, DeleteProcessed PROVE IInv'
  <1>. USE DEF IInv, historyVars, counterVars, EndOfRun
  <1>1. /\ lock = "timer" /\ recipients = {} /\ rows' = rows \ Due(current_time)
        /\ timer_event' = (rows' # {})
        /\ lock' = "free" /\ batch' = {} /\ recipients' = {} /\ aborted' = FALSE
        /\ UNCHANGED <<now, queued, period, read, deleted, consumer, current_time,
                       change, historyVars, counterVars>>
    BY DEF DeleteProcessed, RestartTimer, Deleted
  <1>2. \A row \in Due(current_time) : DealtWith(PairOf(row)) \/ PairOf(row) \in moved
    BY <1>1 DEF BatchInv, Due
  <1>3. \A p \in Missed : Safe(p) => Safe(p)'
    BY <1>1, <1>2 DEF Safe, Planned, DealtWith, PairOf
  <1>4. TypeOK'
    BY <1>1 DEF TypeOK, PairOf
  <1>5. CountersInv' /\ ConsumerInv' /\ BatchInv' /\ TogetherInv'
    BY <1>1 DEF CountersInv, ConsumerInv, BatchInv, TogetherInv, RowsOf
  <1>6. consumer.pc = "ack" => consumer.pair \in Missed
    BY TailRange DEF ConsumerInv, TypeOK
  <1>7. AckInv'
    BY <1>1, <1>3, <1>6 DEF AckInv, Safe
  <1>8. NoticeAccounted'
    BY <1>1, <1>3 DEF NoticeAccounted, Safe
  <1>9. RowsHaveTimer' /\ SentTogether'
    BY <1>1 DEF RowsHaveTimer, SentTogether
  <1>. QED  BY <1>4, <1>5, <1>7, <1>8, <1>9

LEMMA RunEndsEarly ==
    ASSUME IInv, RunRaises \/ Crash PROVE IInv'
  <1>. USE DEF IInv, dbVars, historyVars, counterVars, EndOfRun
  <1>1. /\ lock' = "free" /\ batch' = {} /\ recipients' = {} /\ aborted' = FALSE
        /\ UNCHANGED <<now, queued, dbVars, change, historyVars, changes, aborts>>
        /\ timer_event' \in BOOLEAN /\ crashes' \in Nat
        /\ aborts # 0 \/ crashes' = crashes + 1
        /\ \/ consumer' = consumer /\ lock = "timer"
           \/ consumer' = Idle
    <2>1. crashes \in Nat /\ aborts \in Nat /\ (aborted => aborts # 0) /\ timer_event \in BOOLEAN
      BY DEF CountersInv, TypeOK
    <2>2. CASE RunRaises
      BY <2>1, <2>2 DEF RunRaises
    <2>3. CASE Crash
      <3>1. crashes' = crashes + 1 /\ aborts' = aborts
        BY <2>3 DEF Crash
      <3>2. crashes' \in Nat
        BY <2>1, <3>1
      <3>3. timer_event' \in BOOLEAN
        BY <2>3 DEF Crash
      <3>. QED  BY <2>3, <3>1, <3>2, <3>3 DEF Crash
    <2>. QED  BY <2>2, <2>3
  <1>2. ConsumerInv' /\ consumer'.pc \in {"idle", "ack"} /\ (consumer'.pc = "ack" => consumer' = consumer)
    <2>1. CASE consumer' = consumer /\ lock = "timer"
      BY <1>1, <2>1 DEF ConsumerInv, TypeOK
    <2>2. CASE consumer' = Idle
      BY <1>1, <2>2 DEF ConsumerInv, Idle
    <2>. QED  BY <1>1, <2>1, <2>2
  <1>3. TypeOK'
    BY <1>1, <1>2 DEF TypeOK, PairOf
  <1>4. BatchInv' /\ TogetherInv'
    BY <1>1, <1>2 DEF BatchInv, TogetherInv
  <1>6. /\ \A row \in rows' : row \in rows /\ row.delivery \in Nat /\ row.delivery <= crashes
        /\ crashes \in Nat /\ crashes' \in {crashes, crashes + 1}
    <2>1. crashes' \in {crashes, crashes + 1}
      BY DEF RunRaises, Crash
    <2>. QED  BY <1>1, <2>1 DEF CountersInv, TypeOK
  <1>7. CountersInv'
    BY <1>1, <1>6 DEF CountersInv
  <1>8. RowsHaveTimer'
    BY <1>1, <1>6 DEF RowsHaveTimer
  <1>5. AckInv' /\ NoticeAccounted' /\ SentTogether'
    BY <1>1, <1>2 DEF AckInv, Safe, NoticeAccounted, SentTogether, Planned, DealtWith, PairOf
  <1>. QED  BY <1>2, <1>3, <1>4, <1>5, <1>7, <1>8

-----------------------------------------------------------------------------
(* The server processes, the clock and the end.                            *)
LEMMA ChangePeriodStep ==
    ASSUME IInv, ChangePeriod PROVE IInv'
  <1>. USE DEF IInv, timerVars, historyVars
  <1>1. PICK u \in Users, new \in Periods :
            /\ changes' = changes + 1
            /\ change' = [change EXCEPT ![u] = new - period[u]]
            /\ period' = [period EXCEPT ![u] = new]
            /\ UNCHANGED <<now, queued, rows, read, deleted, lock, timer_event,
                           consumer, timerVars, historyVars, crashes, aborts>>
    BY DEF ChangePeriod
  <1>2. period' \in [Users -> Periods] /\ change' \in [Users -> Int]
    <2>1. new \in Int /\ period[u] \in Int
      BY PeriodIsInt DEF TypeOK
    <2>. QED  BY <1>1, <2>1 DEF TypeOK
  <1>3. TypeOK'
    BY <1>1, <1>2 DEF TypeOK, PairOf
  <1>4. changes' \in Nat /\ changes' # 0
    BY <1>1 DEF CountersInv
  <1>5. CountersInv' /\ ConsumerInv' /\ TogetherInv' /\ SentTogether'
    BY <1>1, <1>4 DEF CountersInv, ConsumerInv, TogetherInv, SentTogether
  <1>6. BatchInv' /\ AckInv' /\ RowsHaveTimer' /\ NoticeAccounted'
    BY <1>1 DEF BatchInv, AckInv, Safe, RowsHaveTimer, NoticeAccounted, Planned, DealtWith, PairOf
  <1>. QED  BY <1>3, <1>5, <1>6

LEMMA RowsMovedStep ==
    ASSUME IInv, update_scheduled_email_notifications_time PROVE IInv'
  <1>. USE DEF IInv, timerVars, counterVars
  <1>. DEFINE Moved(u, row) == [row EXCEPT !.scheduled = @ + change[u]]
  <1>1. PICK u \in Users :
            /\ change[u] # 0 /\ change' = [change EXCEPT ![u] = 0]
            /\ rows' = (rows \ RowsOf(u)) \cup {Moved(u, row) : row \in RowsOf(u)}
            /\ moved' = IF lock = "timer" THEN moved \cup {PairOf(row) : row \in RowsOf(u)}
                        ELSE moved
            /\ UNCHANGED <<now, queued, period, read, deleted, lock, timer_event,
                           consumer, timerVars, emailed, raised, counterVars>>
    BY DEF update_scheduled_email_notifications_time
  <1>2. rows \subseteq Row /\ change \in [Users -> Int]
    BY DEF TypeOK, Row
  <1>3. ASSUME NEW row \in RowsOf(u)
        PROVE  /\ Moved(u, row) \in Row /\ PairOf(Moved(u, row)) = PairOf(row)
               /\ Moved(u, row).message = row.message /\ Moved(u, row).user = row.user
               /\ Moved(u, row).delivery = row.delivery
    <2>1. row \in Row /\ change[u] \in Int
      BY <1>2 DEF RowsOf
    <2>. QED  BY <2>1 DEF Row, PairOf
  <1>. HIDE DEF Moved
  <1>4. ASSUME NEW row \in rows'
        PROVE  /\ row \in Row
               /\ \E r \in rows : /\ PairOf(row) = PairOf(r) /\ row.message = r.message
                                 /\ row.delivery = r.delivery
               /\ row \in rows \/ (\E r \in RowsOf(u) : PairOf(row) = PairOf(r))
    BY <1>1, <1>2, <1>3 DEF RowsOf
  <1>5. \A row \in rows : \E r \in rows' : PairOf(row) = PairOf(r)
    BY <1>1, <1>3 DEF RowsOf
  <1>6. \A row \in rows : PairOf(row) \in Missed
    BY DEF TypeOK
  <1>7. moved \subseteq moved' /\ moved' \subseteq Missed
    BY <1>1, <1>6 DEF TypeOK, RowsOf
  <1>8. TypeOK'
    <2>1. rows' \subseteq Row
      BY <1>4
    <2>2. \A row \in rows' : PairOf(row) \in Missed /\ row.message \notin deleted
      BY <1>4, <1>6 DEF TypeOK
    <2>3. change' \in [Users -> Int]
      BY <1>1, <1>2
    <2>. QED  BY <1>1, <1>7, <2>1, <2>2, <2>3 DEF TypeOK, Row, PairOf
  <1>9. changes # 0
    BY <1>1 DEF TogetherInv
  <1>10. CountersInv' /\ ConsumerInv' /\ TogetherInv' /\ SentTogether'
    BY <1>1, <1>4, <1>9 DEF CountersInv, ConsumerInv, TogetherInv, SentTogether
  <1>11. \A p \in Missed : Safe(p) => Safe(p)'
    BY <1>1, <1>5, <1>7 DEF Safe, Planned, DealtWith, PairOf
  <1>12. BatchInv'
    <2>1. ASSUME lock = "timer", NEW row \in rows', row.scheduled <= current_time
          PROVE  row \in batch \/ PairOf(row) \in moved'
      BY <1>1, <1>4, <1>7, <2>1 DEF BatchInv
    <2>. QED  BY <1>1, <2>1 DEF BatchInv, DealtWith, PairOf
  <1>13. consumer.pc = "ack" => consumer.pair \in Missed
    BY TailRange DEF ConsumerInv, TypeOK
  <1>14. AckInv' /\ NoticeAccounted'
    BY <1>1, <1>11, <1>13 DEF AckInv, NoticeAccounted, Safe
  <1>15. RowsHaveTimer'
    BY <1>1, <1>4 DEF RowsHaveTimer
  <1>. QED  BY <1>8, <1>10, <1>12, <1>14, <1>15

LEMMA ReadAndDeleted ==
    ASSUME IInv, MarkRead \/ DeleteMessage PROVE IInv'
  <1>. USE DEF IInv, timerVars, historyVars, counterVars
  <1>1. /\ read \subseteq read' /\ read' \subseteq Missed
        /\ deleted \subseteq deleted' /\ deleted' \subseteq Messages
        /\ rows' = {row \in rows : row.message \notin deleted'}
        /\ UNCHANGED <<now, queued, period, lock, timer_event, consumer, timerVars, change,
                       historyVars, counterVars>>
    <2>1. CASE MarkRead
      BY <2>1 DEF MarkRead, TypeOK
    <2>2. CASE DeleteMessage
      BY <2>2 DEF DeleteMessage, TypeOK
    <2>. QED  BY <2>1, <2>2
  <1>2. TypeOK'
    BY <1>1 DEF TypeOK, PairOf
  <1>3. \A p \in Missed : DealtWith(p) => DealtWith(p)'
    BY <1>1 DEF DealtWith
  <1>4. \A p \in Missed : Safe(p) => Safe(p)'
    BY <1>1, <1>3 DEF Safe, Planned, DealtWith, PairOf
  <1>5. CountersInv' /\ ConsumerInv' /\ TogetherInv'
    BY <1>1 DEF CountersInv, ConsumerInv, TogetherInv, RowsOf
  <1>6. BatchInv'
    BY <1>1, <1>3 DEF BatchInv, PairOf
  <1>7. consumer.pc = "ack" => consumer.pair \in Missed
    BY TailRange DEF ConsumerInv, TypeOK
  <1>8. AckInv' /\ NoticeAccounted'
    BY <1>1, <1>4, <1>7 DEF AckInv, NoticeAccounted, Safe
  <1>9. RowsHaveTimer' /\ SentTogether'
    BY <1>1 DEF RowsHaveTimer, SentTogether
  <1>. QED  BY <1>2, <1>5, <1>6, <1>8, <1>9

LEMMA NextInvariant == IInv /\ [Next]_vars => IInv'
  <1>. SUFFICES ASSUME IInv, [Next]_vars PROVE IInv'
    OBVIOUS
  <1>1. CASE Consume
    BY <1>1, ConsumerIdle, ConsumeCreatesStep, AcknowledgeStep DEF Consume
  <1>2. CASE TimerThread
    BY <1>2, TimerFiresStep, HandlingSteps, DeleteProcessedStep, RunEndsEarly DEF TimerThread
  <1>3. CASE DatabaseFails \/ Crash
    BY <1>3, DatabaseFailsStep, RunEndsEarly
  <1>4. CASE ChangePeriod \/ update_scheduled_email_notifications_time
    BY <1>4, ChangePeriodStep, RowsMovedStep
  <1>5. CASE MarkRead \/ DeleteMessage
    BY <1>5, ReadAndDeleted
  <1>6. CASE Tick \/ UNCHANGED vars
    <2>. USE DEF dbVars, timerVars, historyVars, counterVars
    <2>1. /\ UNCHANGED <<queued, dbVars, lock, timer_event, consumer, timerVars,
                         change, historyVars, counterVars>>
          /\ now' \in 0 .. MaxTime
      BY <1>6, BoundsAssumption DEF Tick, vars, IInv, TypeOK
    <2>2. TypeOK'
      BY <2>1 DEF IInv, TypeOK, PairOf
    <2>3. CountersInv' /\ ConsumerInv' /\ BatchInv' /\ AckInv' /\ TogetherInv'
      BY <2>1 DEF IInv, CountersInv, ConsumerInv, BatchInv, AckInv, TogetherInv, Safe,
         Planned, DealtWith, PairOf, RowsOf
    <2>4. RowsHaveTimer' /\ NoticeAccounted' /\ SentTogether'
      BY <2>1 DEF IInv, RowsHaveTimer, NoticeAccounted, SentTogether, Planned, DealtWith, PairOf
    <2>. QED  BY <2>2, <2>3, <2>4 DEF IInv
  <1>. QED  BY <1>1, <1>2, <1>3, <1>4, <1>5, <1>6 DEF Next

(* The inductive invariant: rows, lock, batch and notices agree.           *)
THEOREM MissedInvariant == Spec => []IInv
  <1>. QED  BY InitInvariant, NextInvariant, PTL DEF Spec

(* The lock, the timer, the rows and the notices have their types and      *)
(* agree.                                                                  *)
THEOREM MissedTypeCorrect == Spec => []TypeOK
  <1>1. IInv => TypeOK
    BY DEF IInv
  <1>. QED  BY <1>1, MissedInvariant, PTL

(* Rows never wait without a timer once the process has consumed a notice, *)
(* as long as the database answers.                                        *)
THEOREM TimerKept == Spec => []RowsHaveTimer
  <1>1. IInv => RowsHaveTimer
    BY DEF IInv
  <1>. QED  BY <1>1, MissedInvariant, PTL

(* A notice that was acknowledged has its row or was dealt with, or its    *)
(* row was moved under an open batch, whatever fails in between.           *)
THEOREM NothingForgotten == Spec => []NoticeAccounted
  <1>1. IInv => NoticeAccounted
    BY DEF IInv
  <1>. QED  BY <1>1, MissedInvariant, PTL

(* The rows of a user are scheduled together until a period changes.       *)
THEOREM RowsTogether == Spec => []SentTogether
  <1>1. IInv => SentTogether
    BY DEF IInv
  <1>. QED  BY <1>1, MissedInvariant, PTL
-----------------------------------------------------------------------------
(* How often a message is shown as missed.  Emails are counted together    *)
(* with what may still bring one: the rows of the pair, its notice if a    *)
(* row is still to be created for it, and a row that was moved out of the  *)
(* open batch before its user's turn.  A row that was sent and is about to *)
(* be deleted counts on the other side.                                    *)

(* A row is still to be created for the notice.                            *)
Coming(p) == p \in Range(queued) /\ ~(consumer.pc = "ack" /\ consumer.pair = p)

RowsFor(p) == {row \in rows : PairOf(row) = p}

(* The row was sent and is going to be deleted.                            *)
Done(row) == lock = "timer" /\ ~aborted /\ row \in batch /\ row.user \notin recipients
SomeDone(p) == \E row \in RowsFor(p) : Done(row)

(* The batch still has to send a row that was moved.                       *)
Stranded(p) ==
    /\ lock = "timer" /\ ~aborted /\ p[1] \in recipients /\ p[2] \notin deleted
    /\ \E row \in batch \ rows : PairOf(row) = p

ToCome(p) == IF Coming(p) THEN 1 ELSE 0
ToSend(p) == IF Stranded(p) THEN 1 ELSE 0
ToDelete(p) == IF SomeDone(p) THEN 1 ELSE 0

(* The moves that a moved pair may have had.                               *)
Moves(p) ==
    IF p \notin moved THEN 0
    ELSE IF change[p[1]] = 0 THEN changes ELSE changes - 1

BoundFor(p) ==
    emailed[p] + Cardinality(RowsFor(p)) + ToCome(p) + ToSend(p)
        <= 1 + 2 * crashes + aborts + Moves(p) + ToDelete(p)

BoundInv == \A p \in Missed : BoundFor(p)

QueueInv ==
    /\ IsFiniteSet(rows)
    /\ \A i, j \in 1 .. Len(queued) : queued[i] = queued[j] => i = j

(* A notice that is delivered again is the first of the queue, and no      *)
(* timer runs before it has been consumed.                                 *)
Known(p) == Planned(p) \/ emailed[p] > 0 \/ \E row \in batch : PairOf(row) = p

Redelivered ==
    \A p \in Missed :
        Coming(p) /\ Known(p) => p = Head(queued) /\ ~timer_event /\ lock # "timer"

DueInv ==
    /\ \A row \in batch :
        /\ row.scheduled <= current_time
        /\ row \in rows \/ row.message \in deleted \/ PairOf(row) \in moved
    /\ changes = 0 => moved = {}

(* Without a change of the period, all that may still bring an email of a  *)
(* pair brings one.                                                        *)
Owed(p) == Coming(p) \/ \E row \in RowsFor(p) : ~Done(row)

OwedFor(p) ==
    /\ emailed[p] <= 1 + crashes + aborts
    /\ Owed(p) => emailed[p] <= crashes + aborts

OwedInv == changes = 0 => \A p \in Missed : OwedFor(p)

RepeatInv == QueueInv /\ Redelivered /\ DueInv /\ OwedInv /\ BoundInv

-----------------------------------------------------------------------------
LEMMA HeadLeaves ==
    ASSUME NEW s \in Seq(Missed), s # <<>>,
           \A i, j \in 1 .. Len(s) : s[i] = s[j] => i = j
    PROVE  /\ Head(s) \notin Range(Tail(s)) /\ Range(Tail(s)) \subseteq Range(s)
           /\ Head(s) \in Range(s)
           /\ \A i, j \in 1 .. Len(Tail(s)) : Tail(s)[i] = Tail(s)[j] => i = j
  <1>1. /\ Len(s) \in Nat \ {0} /\ Tail(s) \in Seq(Missed) /\ Len(Tail(s)) = Len(s) - 1
        /\ Head(s) = s[1] /\ Head(s) \in Missed
        /\ DOMAIN s = 1 .. Len(s) /\ DOMAIN Tail(s) = 1 .. Len(Tail(s))
        /\ \A i \in 1 .. Len(s) - 1 : Tail(s)[i] = s[i + 1]
    OBVIOUS
  <1>2. ASSUME NEW i \in 1 .. Len(Tail(s))
        PROVE  /\ i + 1 \in 1 .. Len(s) /\ Tail(s)[i] = s[i + 1] /\ i + 1 # 1 /\ 1 \in 1 .. Len(s)
    BY <1>1
  <1>3. ASSUME NEW p \in Range(Tail(s)) PROVE p \in Range(s) /\ p # Head(s)
    <2>1. PICK i \in 1 .. Len(Tail(s)) : Tail(s)[i] = p
      BY <1>1 DEF Range
    <2>2. i + 1 \in DOMAIN s /\ s[i + 1] = p /\ s[i + 1] # s[1]
      BY <1>1, <1>2, <2>1
    <2>. QED  BY <1>1, <2>2 DEF Range
  <1>4. ASSUME NEW i \in 1 .. Len(Tail(s)), NEW j \in 1 .. Len(Tail(s)), Tail(s)[i] = Tail(s)[j]
        PROVE  i = j
    <2>1. i + 1 = j + 1
      BY <1>2, <1>4
    <2>. QED  BY <1>1, <2>1
  <1>5. Head(s) \in Range(s)
    BY <1>1 DEF Range
  <1>. QED  BY <1>3, <1>4, <1>5

LEMMA CountRows ==
    ASSUME NEW S, IsFiniteSet(S), NEW p
    PROVE  /\ IsFiniteSet({row \in S : PairOf(row) = p})
           /\ Cardinality({row \in S : PairOf(row) = p}) \in Nat
  BY FS_Subset, FS_CardinalityType

(* The numbers of the bound.                                               *)
LEMMA Numbers ==
    ASSUME IInv, QueueInv, NEW p \in Missed
    PROVE  /\ emailed[p] \in Nat /\ Cardinality(RowsFor(p)) \in Nat
           /\ ToCome(p) \in {0, 1} /\ ToSend(p) \in {0, 1} /\ ToDelete(p) \in {0, 1}
           /\ Moves(p) \in Int /\ Moves(p) <= changes
           /\ crashes \in Nat /\ aborts \in Nat /\ changes \in Nat
           /\ ToDelete(p) <= Cardinality(RowsFor(p))
  <1>1. IsFiniteSet(RowsFor(p)) /\ Cardinality(RowsFor(p)) \in Nat
    BY CountRows DEF QueueInv, RowsFor
  <1>2. SomeDone(p) => Cardinality(RowsFor(p)) # 0
    BY <1>1, FS_EmptySet DEF SomeDone
  <1>3. crashes \in Nat /\ aborts \in Nat /\ changes \in Nat /\ emailed[p] \in Nat
    BY DEF IInv, CountersInv, TypeOK
  <1>4. Moves(p) \in Int /\ Moves(p) <= changes
    BY <1>3 DEF Moves
  <1>5. ToCome(p) \in {0, 1} /\ ToSend(p) \in {0, 1}
    BY DEF ToCome, ToSend
  <1>6. ToDelete(p) \in {0, 1} /\ ToDelete(p) <= Cardinality(RowsFor(p))
    BY <1>1, <1>2 DEF ToDelete
  <1>. QED  BY <1>1, <1>3, <1>4, <1>5, <1>6

(* The invariant gives the property.                                       *)
LEMMA BoundsRepeats ==
    ASSUME IInv, RepeatInv PROVE RepeatsExplained
  <1>. SUFFICES ASSUME NEW p \in Missed
                PROVE  /\ changes = 0 => emailed[p] <= 1 + crashes + aborts
                       /\ p \notin moved => emailed[p] <= 1 + 2 * crashes + aborts
                       /\ emailed[p] <= 1 + 2 * crashes + aborts + changes
    BY DEF RepeatsExplained
  <1>1. changes = 0 => emailed[p] <= 1 + crashes + aborts
    BY DEF RepeatInv, OwedInv, OwedFor
  <1>2. /\ emailed[p] \in Nat /\ Cardinality(RowsFor(p)) \in Nat
        /\ ToCome(p) \in {0, 1} /\ ToSend(p) \in {0, 1} /\ ToDelete(p) \in {0, 1}
        /\ Moves(p) \in Int /\ Moves(p) <= changes
        /\ crashes \in Nat /\ aborts \in Nat /\ changes \in Nat
        /\ ToDelete(p) <= Cardinality(RowsFor(p))
    BY Numbers DEF RepeatInv
  <1>3. emailed[p] + Cardinality(RowsFor(p)) + ToCome(p) + ToSend(p)
            <= 1 + 2 * crashes + aborts + Moves(p) + ToDelete(p)
    BY DEF RepeatInv, BoundInv, BoundFor
  <1>4. emailed[p] <= 1 + 2 * crashes + aborts + Moves(p)
    BY <1>2, <1>3
  <1>5. p \notin moved => Moves(p) = 0
    BY DEF Moves
  <1>6. p \notin moved => emailed[p] <= 1 + 2 * crashes + aborts
    BY <1>2, <1>4, <1>5
  <1>7. emailed[p] <= 1 + 2 * crashes + aborts + changes
    BY <1>2, <1>4
  <1>. QED  BY <1>1, <1>6, <1>7

-----------------------------------------------------------------------------
(* Steps that leave the rows, the batch and the history alone.             *)
LEMMA RepeatQuiet ==
    ASSUME IInv, RepeatInv,
           UNCHANGED <<queued, rows, deleted, batch, recipients, aborted, current_time,
                       change, emailed, moved, counterVars, timer_event>>,
           (lock' = "timer") <=> (lock = "timer"),
           \A p \in Missed : Coming(p)' <=> Coming(p)
    PROVE  RepeatInv'
  <1>. USE DEF RepeatInv, counterVars
  <1>1. QueueInv' /\ DueInv'
    BY DEF QueueInv, DueInv, PairOf
  <1>2. Redelivered'
    BY DEF Redelivered, Known, Planned, PairOf
  <1>3. \A row : Done(row)' <=> Done(row)
    BY DEF Done
  <1>4. \A p \in Missed : RowsFor(p)' = RowsFor(p)
    BY DEF RowsFor, PairOf
  <1>5. OwedInv'
    <2>. SUFFICES ASSUME changes = 0, NEW p \in Missed PROVE OwedFor(p)'
      BY DEF OwedInv
    <2>1. OwedFor(p)
      BY DEF OwedInv
    <2>2. Owed(p)' <=> Owed(p)
      BY <1>3, <1>4 DEF Owed
    <2>. QED  BY <2>1, <2>2 DEF OwedFor
  <1>6. BoundInv'
    <2>. SUFFICES ASSUME NEW p \in Missed PROVE BoundFor(p)'
      BY DEF BoundInv
    <2>1. ToCome(p)' = ToCome(p)
      BY DEF ToCome
    <2>2. Stranded(p)' <=> Stranded(p)
      BY DEF Stranded, PairOf
    <2>3. ToSend(p)' = ToSend(p)
      BY <2>2 DEF ToSend
    <2>4. SomeDone(p)' <=> SomeDone(p)
      BY <1>3, <1>4 DEF SomeDone
    <2>5. ToDelete(p)' = ToDelete(p)
      BY <2>4 DEF ToDelete
    <2>6. Moves(p)' = Moves(p)
      BY DEF Moves
    <2>7. BoundFor(p)
      BY DEF BoundInv
    <2>. QED  BY <1>4, <2>1, <2>3, <2>5, <2>6, <2>7 DEF BoundFor
  <1>. QED  BY <1>1, <1>2, <1>5, <1>6

LEMMA RepeatIdle ==
    ASSUME IInv, RepeatInv,
           \/ ConsumeStarts \/ ConsumeReadsPeriod \/ ConsumeReadsPending
           \/ Tick \/ MarkRead \/ UNCHANGED vars
    PROVE  RepeatInv'
  <1>. USE DEF dbVars, timerVars, historyVars, counterVars
  <1>1. CASE ConsumeStarts \/ ConsumeReadsPeriod \/ ConsumeReadsPending
    <2>1. consumer.pc # "ack" /\ consumer'.pc # "ack" /\ lock # "timer" /\ lock' # "timer"
      <3>1. CASE ConsumeStarts
        BY <3>1 DEF ConsumeStarts, Idle
      <3>2. CASE ConsumeReadsPeriod
        BY <3>2 DEF ConsumeReadsPeriod, IInv, TypeOK, ConsumerInv
      <3>3. CASE ConsumeReadsPending
        BY <3>3 DEF ConsumeReadsPending, IInv, TypeOK, ConsumerInv
      <3>. QED  BY <1>1, <3>1, <3>2, <3>3
    <2>2. UNCHANGED <<queued, rows, deleted, batch, recipients, aborted, current_time,
                      change, emailed, moved, counterVars, timer_event>>
      BY <1>1 DEF ConsumeStarts, ConsumeReadsPeriod, ConsumeReadsPending
    <2>. QED  BY <2>1, <2>2, RepeatQuiet DEF Coming
  <1>2. CASE Tick \/ MarkRead \/ UNCHANGED vars
    <2>1. UNCHANGED <<queued, rows, deleted, batch, recipients, aborted, current_time,
                      change, emailed, moved, counterVars, timer_event, lock, consumer>>
      BY <1>2 DEF Tick, MarkRead, vars
    <2>. QED  BY <2>1, RepeatQuiet DEF Coming
  <1>. QED  BY <1>1, <1>2

(* While the timer thread does not run, nothing is sent or stranded.       *)
LEMMA NoRun ==
    ASSUME NEW p, lock # "timer"
    PROVE  ToSend(p) = 0 /\ ToDelete(p) = 0 /\ \A row : ~Done(row)
  BY DEF ToSend, ToDelete, Stranded, SomeDone, Done

LEMMA ConsumeCreatesRepeat ==
    ASSUME IInv, RepeatInv, ConsumeCreates PROVE RepeatInv'
  <1>. USE DEF RepeatInv, timerVars, historyVars, counterVars
  <1>. DEFINE q == consumer.pair
              new == [user |-> q[1], message |-> q[2], scheduled |-> consumer.scheduled,
                      delivery |-> crashes]
  <1>1. /\ consumer.pc = "create" /\ lock = "consumer" /\ lock' = "free"
        /\ consumer'.pc = "ack" /\ consumer'.pair = q
        /\ UNCHANGED <<now, queued, period, read, deleted, timerVars, change,
                       historyVars, counterVars>>
        /\ q \in Missed /\ q = Head(queued) /\ queued # <<>> /\ queued \in Seq(Missed)
    BY TailRange DEF ConsumeCreates, IInv, ConsumerInv, TypeOK
  <1>2. q = <<q[1], q[2]>>
    BY <1>1, PairIn
  <1>3. PairOf(new) = q
    BY <1>2 DEF PairOf
  <1>4. rows' = rows \/ rows' = rows \cup {new}
    BY DEF ConsumeCreates
  <1>. HIDE DEF new
  <1>5. batch = {} /\ batch' = {}
    BY <1>1 DEF IInv, TypeOK
  <1>6. /\ Coming(q)
        /\ \A p \in Missed : /\ p # q => (Coming(p)' <=> Coming(p))
                             /\ p = q => ~Coming(p)'
    <2>1. q \in Range(queued)
      BY <1>1, HeadLeaves DEF QueueInv
    <2>2. Coming(q)
      BY <1>1, <2>1 DEF Coming
    <2>3. ASSUME NEW p \in Missed
          PROVE  /\ p # q => (Coming(p)' <=> Coming(p))
                 /\ p = q => ~Coming(p)'
      BY <1>1 DEF Coming
    <2>. QED  BY <2>2, <2>3
  <1>. HIDE DEF q
  <1>7. \A p \in Missed : p # q => RowsFor(p)' = RowsFor(p)
    BY <1>3, <1>4 DEF RowsFor, PairOf
  <1>8. QueueInv'
    <2>1. IsFiniteSet(rows')
      BY <1>4, FS_AddElement DEF QueueInv
    <2>. QED  BY <1>1, <2>1 DEF QueueInv
  <1>9. DueInv'
    BY <1>1, <1>5 DEF DueInv
  <1>10. Redelivered'
    <2>. SUFFICES ASSUME NEW p \in Missed, Coming(p)', Known(p)' PROVE FALSE
      BY DEF Redelivered
    <2>1. p # q /\ Coming(p)
      BY <1>6
    <2>2. Planned(p)' => Planned(p)
      BY <1>7, <2>1 DEF Planned, RowsFor, PairOf
    <2>3. Known(p)
      BY <1>1, <1>5, <2>2 DEF Known, PairOf
    <2>. QED  BY <1>1, <2>1, <2>3 DEF Redelivered
  <1>11. OwedInv'
    <2>. SUFFICES ASSUME changes = 0, NEW p \in Missed PROVE OwedFor(p)'
      BY <1>1 DEF OwedInv
    <2>1. OwedFor(p)
      BY DEF OwedInv
    <2>2. \A row : ~Done(row)
      BY <1>1, NoRun
    <2>3. Owed(p)' => Owed(p)
      <3>1. CASE p = q
        BY <1>6, <3>1 DEF Owed
      <3>2. CASE p # q
        BY <1>6, <1>7, <2>2, <3>2 DEF Owed
      <3>. QED  BY <3>1, <3>2
    <2>. QED  BY <1>1, <2>1, <2>3 DEF OwedFor
  <1>12. BoundInv'
    <2>. SUFFICES ASSUME NEW p \in Missed PROVE BoundFor(p)'
      BY DEF BoundInv
    <2>1. BoundFor(p)
      BY DEF BoundInv
    <2>2. /\ ToSend(p) = 0 /\ ToDelete(p) = 0 /\ ToSend(p)' = 0 /\ ToDelete(p)' = 0
      BY <1>1, NoRun DEF ToSend, ToDelete, Stranded, SomeDone, Done
    <2>3. Moves(p)' = Moves(p) /\ emailed'[p] = emailed[p] /\ crashes' = crashes /\ aborts' = aborts
      BY <1>1 DEF Moves
    <2>4. /\ emailed[p] \in Nat /\ Cardinality(RowsFor(p)) \in Nat
          /\ crashes \in Nat /\ aborts \in Nat /\ Moves(p) \in Int
      BY Numbers
    <2>5. CASE p = q
      <3>1. ToCome(p) = 1 /\ ToCome(p)' = 0
        BY <1>6, <2>5 DEF ToCome
      <3>2. IsFiniteSet(RowsFor(p))
        BY CountRows DEF RowsFor, QueueInv
      <3>3. RowsFor(p)' = RowsFor(p) \/ RowsFor(p)' = RowsFor(p) \cup {new}
        BY <1>3, <1>4, <2>5 DEF RowsFor, PairOf
      <3>4. \A S : IsFiniteSet(S) => /\ Cardinality(S) \in Nat
                                     /\ Cardinality(S \cup {new}) \in Nat
                                     /\ Cardinality(S \cup {new}) <= Cardinality(S) + 1
        <4>. SUFFICES ASSUME NEW S, IsFiniteSet(S)
                      PROVE  /\ Cardinality(S) \in Nat
                             /\ Cardinality(S \cup {new}) \in Nat
                             /\ Cardinality(S \cup {new}) <= Cardinality(S) + 1
          OBVIOUS
        <4>1. Cardinality(S) \in Nat /\ IsFiniteSet(S \cup {new})
          BY FS_CardinalityType, FS_AddElement
        <4>2. Cardinality(S \cup {new}) = IF new \in S THEN Cardinality(S) ELSE Cardinality(S) + 1
          BY FS_AddElement
        <4>. QED  BY <4>1, <4>2
      <3>5. /\ Cardinality(RowsFor(p))' \in Nat
            /\ Cardinality(RowsFor(p))' <= Cardinality(RowsFor(p)) + 1
        <4>. DEFINE S == RowsFor(p)  T == RowsFor(p)'
        <4>1. T = S \/ T = S \cup {new}
          BY <3>3
        <4>2. /\ Cardinality(S) \in Nat /\ Cardinality(S \cup {new}) \in Nat
              /\ Cardinality(S \cup {new}) <= Cardinality(S) + 1
          BY <3>2, <3>4
        <4>3. Cardinality(T) \in Nat /\ Cardinality(T) <= Cardinality(S) + 1
          <5>. HIDE DEF S, T
          <5>1. CASE T = S
            BY <4>2, <5>1
          <5>2. CASE T = S \cup {new}
            BY <4>2, <5>2
          <5>. QED  BY <4>1, <5>1, <5>2
        <4>. QED  BY <4>3
      <3>. QED  BY <2>1, <2>2, <2>3, <2>4, <3>1, <3>5 DEF BoundFor
    <2>6. CASE p # q
      <3>1. ToCome(p)' = ToCome(p)
        BY <1>6, <2>6 DEF ToCome
      <3>. QED  BY <1>7, <2>1, <2>2, <2>3, <2>6, <3>1 DEF BoundFor
    <2>. QED  BY <2>5, <2>6
  <1>. QED  BY <1>8, <1>9, <1>10, <1>11, <1>12

LEMMA AcknowledgeRepeat ==
    ASSUME IInv, RepeatInv, Acknowledge PROVE RepeatInv'
  <1>. USE DEF RepeatInv, dbVars, timerVars, historyVars, counterVars
  <1>1. /\ consumer.pc = "ack" /\ consumer'.pc = "idle" /\ queued' = Tail(queued)
        /\ UNCHANGED <<now, dbVars, lock, timer_event, timerVars, change,
                       historyVars, counterVars>>
        /\ queued # <<>> /\ consumer.pair = Head(queued) /\ queued \in Seq(Missed)
    BY DEF Acknowledge, IInv, ConsumerInv, TypeOK, Idle
  <1>2. /\ Head(queued) \notin Range(queued') /\ Range(queued') \subseteq Range(queued)
        /\ \A i, j \in 1 .. Len(queued') : queued'[i] = queued'[j] => i = j
    BY <1>1, HeadLeaves DEF QueueInv
  <1>3. \A p \in Missed : Coming(p)' => Coming(p) /\ p # Head(queued)
    BY <1>1, <1>2 DEF Coming
  <1>4. QueueInv' /\ DueInv'
    BY <1>1, <1>2 DEF QueueInv, DueInv, PairOf
  <1>5. Redelivered'
    BY <1>1, <1>3 DEF Redelivered, Known, Planned, PairOf
  <1>6. \A row : Done(row)' <=> Done(row)
    BY <1>1 DEF Done
  <1>7. \A p \in Missed : RowsFor(p)' = RowsFor(p)
    BY <1>1 DEF RowsFor, PairOf
  <1>8. OwedInv'
    <2>. SUFFICES ASSUME changes = 0, NEW p \in Missed PROVE OwedFor(p)'
      BY <1>1 DEF OwedInv
    <2>1. OwedFor(p)
      BY DEF OwedInv
    <2>2. Owed(p)' => Owed(p)
      BY <1>3, <1>6, <1>7 DEF Owed
    <2>. QED  BY <1>1, <2>1, <2>2 DEF OwedFor
  <1>9. BoundInv'
    <2>. SUFFICES ASSUME NEW p \in Missed PROVE BoundFor(p)'
      BY DEF BoundInv
    <2>1. ToCome(p)' \in {0, 1} /\ ToCome(p)' <= ToCome(p)
      BY <1>3 DEF ToCome
    <2>2. Stranded(p)' <=> Stranded(p)
      BY <1>1 DEF Stranded, PairOf
    <2>3. SomeDone(p)' <=> SomeDone(p)
      BY <1>6, <1>7 DEF SomeDone
    <2>4. ToSend(p)' = ToSend(p) /\ ToDelete(p)' = ToDelete(p) /\ Moves(p)' = Moves(p)
      BY <1>1, <2>2, <2>3 DEF ToSend, ToDelete, Moves
    <2>5. BoundFor(p)
      BY DEF BoundInv
    <2>6. emailed'[p] = emailed[p] /\ crashes' = crashes /\ aborts' = aborts
      BY <1>1
    <2>. QED  BY <1>7, <2>1, <2>4, <2>5, <2>6, Numbers DEF BoundFor
  <1>. QED  BY <1>4, <1>5, <1>8, <1>9

-----------------------------------------------------------------------------
LEMMA TimerFiresRepeat ==
    ASSUME IInv, RepeatInv, TimerFires PROVE RepeatInv'
  <1>. USE DEF RepeatInv, dbVars, historyVars, counterVars
  <1>1. /\ lock = "free" /\ lock' = "timer" /\ timer_event /\ current_time' = now
        /\ batch' = Due(now) /\ recipients' = {row.user : row \in batch'}
        /\ UNCHANGED <<now, queued, dbVars, consumer, aborted, change, historyVars, counterVars>>
    BY DEF TimerFires, TimerCleared, Due
  <1>2. \A row \in batch' : row \in rows /\ row.scheduled <= now
    BY <1>1 DEF Due
  <1>3. \A row : ~Done(row) /\ ~Done(row)'
    BY <1>1 DEF Done
  <1>4. \A p \in Missed : RowsFor(p)' = RowsFor(p)
    BY <1>1 DEF RowsFor, PairOf
  <1>5. \A p \in Missed : Coming(p)' <=> Coming(p)
    BY <1>1 DEF Coming
  <1>6. QueueInv' /\ DueInv'
    BY <1>1, <1>2 DEF QueueInv, DueInv, PairOf
  <1>7. Redelivered'
    <2>. SUFFICES ASSUME NEW p \in Missed, Coming(p)', Known(p)' PROVE FALSE
      BY DEF Redelivered
    <2>1. Known(p)
      BY <1>1, <1>2 DEF Known, Planned, PairOf
    <2>. QED  BY <1>1, <1>5, <2>1 DEF Redelivered
  <1>8. OwedInv'
    <2>. SUFFICES ASSUME changes = 0, NEW p \in Missed PROVE OwedFor(p)'
      BY <1>1 DEF OwedInv
    <2>1. OwedFor(p)
      BY DEF OwedInv
    <2>2. Owed(p)' <=> Owed(p)
      BY <1>3, <1>4, <1>5 DEF Owed
    <2>. QED  BY <1>1, <2>1, <2>2 DEF OwedFor
  <1>9. BoundInv'
    <2>. SUFFICES ASSUME NEW p \in Missed PROVE BoundFor(p)'
      BY DEF BoundInv
    <2>1. ToCome(p)' = ToCome(p)
      BY <1>5 DEF ToCome
    <2>2. ToSend(p) = 0 /\ ToDelete(p) = 0
      BY <1>1, NoRun
    <2>3. ToSend(p)' = 0 /\ ToDelete(p)' = 0
      BY <1>1, <1>2, <1>3 DEF ToSend, ToDelete, SomeDone, Stranded
    <2>4. Moves(p)' = Moves(p)
      BY <1>1 DEF Moves
    <2>5. BoundFor(p)
      BY DEF BoundInv
    <2>. QED  BY <1>1, <1>4, <2>1, <2>2, <2>3, <2>4, <2>5 DEF BoundFor
  <1>. QED  BY <1>6, <1>7, <1>8, <1>9

(* The run fails, is aborted, or the process crashes: nothing is sent or   *)
(* deleted any more.                                                       *)
LEMMA FailureRepeat ==
    ASSUME IInv, RepeatInv, DatabaseFails \/ RunRaises \/ Crash PROVE RepeatInv'
  <1>. USE DEF RepeatInv, dbVars, historyVars, counterVars, EndOfRun
  <1>1. /\ UNCHANGED <<now, queued, dbVars, current_time, change, historyVars, changes>>
        /\ batch' \subseteq batch
        /\ lock' # "timer" \/ aborted'
    BY DEF DatabaseFails, RunRaises, Crash
  <1>2. /\ crashes \in Nat /\ aborts \in Nat /\ crashes' \in Nat /\ aborts' \in Nat
        /\ \/ /\ crashes' = crashes /\ aborts' = aborts + 1 /\ lock = "timer"
              /\ UNCHANGED <<consumer, timer_event, lock>>
           \/ /\ crashes' = crashes /\ aborts' = aborts /\ aborted /\ lock' # "timer"
              /\ UNCHANGED <<consumer, timer_event>>
           \/ /\ crashes' = crashes + 1 /\ aborts' = aborts /\ consumer' = Idle
              /\ lock' # "timer" /\ ~timer_event'
    <2>1. crashes \in Nat /\ aborts \in Nat
      BY DEF IInv, CountersInv
    <2>. QED  BY <2>1 DEF DatabaseFails, RunRaises, Crash
  <1>3. \A row : ~Done(row)'
    BY <1>1 DEF Done
  <1>4. \A p \in Missed : RowsFor(p)' = RowsFor(p)
    BY <1>1 DEF RowsFor, PairOf
  <1>5. ASSUME crashes' = crashes, NEW p \in Missed PROVE Coming(p)' <=> Coming(p)
    BY <1>1, <1>2, <1>5 DEF Coming
  <1>6. ASSUME crashes' # crashes, NEW p \in Missed, Coming(p)'
        PROVE  Coming(p) \/ p = Head(queued)
    <2>1. consumer.pc = "ack" => consumer.pair = Head(queued)
      BY DEF IInv, ConsumerInv
    <2>. QED  BY <1>1, <1>6, <2>1 DEF Coming
  <1>7. QueueInv' /\ DueInv'
    BY <1>1 DEF QueueInv, DueInv, PairOf
  <1>8. Redelivered'
    <2>. SUFFICES ASSUME NEW p \in Missed, Coming(p)', Known(p)'
                  PROVE  p = Head(queued) /\ ~timer_event' /\ lock' # "timer"
      BY <1>1 DEF Redelivered
    <2>1. Known(p)
      BY <1>1 DEF Known, Planned, PairOf
    <2>2. CASE crashes' = crashes
      BY <1>2, <1>5, <2>1, <2>2 DEF Redelivered
    <2>3. CASE crashes' # crashes
      BY <1>2, <1>6, <2>1, <2>3 DEF Redelivered
    <2>. QED  BY <2>2, <2>3
  <1>9. aborted => \A row : ~Done(row)
    BY DEF Done
  <1>10. OwedInv'
    <2>. SUFFICES ASSUME changes = 0, NEW p \in Missed PROVE OwedFor(p)'
      BY <1>1 DEF OwedInv
    <2>1. OwedFor(p) /\ emailed'[p] = emailed[p] /\ emailed[p] \in Nat
      BY <1>1 DEF OwedInv, IInv, TypeOK
    <2>2. CASE crashes' + aborts' = crashes + aborts + 1
      <3>1. emailed[p] <= 1 + crashes + aborts
        BY <2>1 DEF OwedFor
      <3>2. crashes' \in Nat /\ aborts' \in Nat /\ crashes \in Nat /\ aborts \in Nat
        BY <1>2
      <3>3. emailed'[p] = emailed[p] /\ emailed[p] \in Nat
        BY <2>1
      <3>4. emailed'[p] <= crashes' + aborts' /\ emailed'[p] <= 1 + crashes' + aborts'
        BY <2>2, <3>1, <3>2, <3>3
      <3>. QED  BY <3>4 DEF OwedFor
    <2>3. CASE crashes' = crashes /\ aborts' = aborts
      <3>1. Owed(p)' => Owed(p)
        BY <1>2, <1>3, <1>4, <1>5, <1>9, <2>3 DEF Owed
      <3>. QED  BY <2>1, <2>3, <3>1 DEF OwedFor
    <2>4. \/ crashes' = crashes + 1 /\ aborts' = aborts
          \/ crashes' = crashes /\ aborts' = aborts + 1
          \/ crashes' = crashes /\ aborts' = aborts
      BY <1>2
    <2>5. \/ crashes' + aborts' = crashes + aborts + 1
          \/ crashes' = crashes /\ aborts' = aborts
      <3>1. crashes \in Nat /\ aborts \in Nat
        BY <1>2
      <3>. QED  BY <2>4, <3>1
    <2>. QED  BY <2>2, <2>3, <2>5
  <1>11. BoundInv'
    <2>. SUFFICES ASSUME NEW p \in Missed PROVE BoundFor(p)'
      BY DEF BoundInv
    <2>1. ToSend(p)' = 0 /\ ToDelete(p)' = 0
      BY <1>1, <1>3 DEF ToSend, ToDelete, SomeDone, Stranded
    <2>2. emailed'[p] = emailed[p] /\ Moves(p)' = Moves(p)
      BY <1>1 DEF Moves
    <2>3. ToCome(p)' \in {0, 1} /\ (crashes' = crashes => ToCome(p)' = ToCome(p))
      BY <1>5 DEF ToCome
    <2>4. aborted => ToSend(p) = 0 /\ ToDelete(p) = 0
      BY <1>9 DEF ToSend, ToDelete, SomeDone, Stranded
    <2>5. BoundFor(p)
      BY DEF BoundInv
    <2>6. /\ emailed[p] \in Nat /\ Cardinality(RowsFor(p)) \in Nat
          /\ ToCome(p) \in {0, 1} /\ ToSend(p) \in {0, 1} /\ ToDelete(p) \in {0, 1}
          /\ Moves(p) \in Int
      BY Numbers
    <2>7. Cardinality(RowsFor(p))' = Cardinality(RowsFor(p))
      BY <1>4
    <2>. QED  BY <1>2, <2>1, <2>2, <2>3, <2>4, <2>5, <2>6, <2>7 DEF BoundFor
  <1>. QED  BY <1>7, <1>8, <1>10, <1>11

(* An email of a pair is sent for a row that is deleted afterwards, or for *)
(* one that was moved.                                                     *)
LEMMA HandlingRepeat ==
    ASSUME IInv, RepeatInv, HandleUser \/ HandlingRaises PROVE RepeatInv'
  <1>. USE DEF RepeatInv, dbVars, counterVars
  <1>0. PICK u \in recipients :
            \E pairs \in SUBSET Unread(u) : Email(pairs) /\ recipients' = recipients \ {u}
    BY DEF HandleUser, HandlingRaises
  <1>1. PICK pairs \in SUBSET Unread(u) : Email(pairs) /\ recipients' = recipients \ {u}
    BY <1>0
  <1>2. /\ lock = "timer" /\ ~aborted
        /\ UNCHANGED <<now, queued, dbVars, lock, timer_event, consumer, batch,
                       current_time, aborted, change, moved, counterVars>>
    BY DEF HandleUser, HandlingRaises
  <1>3. \A p \in Missed :
            /\ emailed[p] \in Nat
            /\ p \in pairs => emailed'[p] = emailed[p] + 1
            /\ p \notin pairs => emailed'[p] = emailed[p]
    BY <1>1 DEF Email, IInv, TypeOK
  <1>4. ASSUME NEW p \in pairs
        PROVE  /\ p[1] = u /\ p[2] \notin deleted
               /\ \E row \in batch : row.user = u /\ PairOf(row) = p
    BY <1>1 DEF Unread, PairOf
  <1>5. \A row : PairOf(row) = <<row.user, row.message>>
    BY DEF PairOf
  <1>6. ASSUME NEW p \in Missed, Known(p) PROVE ~Coming(p)
    BY <1>2, <1>6 DEF Redelivered
  <1>7. ASSUME NEW p \in pairs, p \in Missed PROVE Known(p) /\ ~Coming(p)
    BY <1>4, <1>6, <1>7 DEF Known
  <1>8. \A p \in Missed : Coming(p)' <=> Coming(p)
    BY <1>2 DEF Coming
  <1>9. \A p \in Missed : RowsFor(p)' = RowsFor(p)
    BY <1>2 DEF RowsFor, PairOf
  <1>10. \A row : /\ Done(row) => Done(row)'
                  /\ row \in batch /\ row.user = u => Done(row)' /\ ~Done(row)
    BY <1>1, <1>2 DEF Done
  <1>11. QueueInv' /\ DueInv'
    BY <1>2 DEF QueueInv, DueInv, PairOf
  <1>12. Redelivered'
    <2>. SUFFICES ASSUME NEW p \in Missed, Coming(p)', Known(p)' PROVE FALSE
      BY DEF Redelivered
    <2>1. Known(p)
      <3>1. CASE p \in pairs
        BY <1>7, <3>1
      <3>2. CASE p \notin pairs
        BY <1>2, <1>3, <3>2 DEF Known, Planned, PairOf
      <3>. QED  BY <3>1, <3>2
    <2>. QED  BY <1>6, <1>8, <2>1
  <1>13. OwedInv'
    <2>. SUFFICES ASSUME changes = 0, NEW p \in Missed PROVE OwedFor(p)'
      BY <1>2 DEF OwedInv
    <2>1. OwedFor(p)
      BY DEF OwedInv
    <2>2. CASE p \notin pairs
      <3>1. Owed(p)' => Owed(p)
        BY <1>8, <1>9, <1>10 DEF Owed
      <3>. QED  BY <1>2, <1>3, <2>1, <2>2, <3>1 DEF OwedFor
    <2>3. CASE p \in pairs
      <3>1. PICK r0 \in batch : r0.user = u /\ PairOf(r0) = p
        BY <1>4, <2>3
      <3>2. moved = {} /\ p[2] \notin deleted /\ p[1] = u
        BY <1>4, <2>3 DEF DueInv
      <3>3. r0.message = p[2]
        BY <1>5, <3>1
      <3>4. r0 \in rows /\ r0.scheduled <= current_time /\ r0 \in RowsFor(p)
        BY <3>1, <3>2, <3>3 DEF DueInv, RowsFor
      <3>5. Owed(p)
        BY <1>10, <3>1, <3>4 DEF Owed
      <3>6. emailed[p] <= crashes + aborts
        BY <2>1, <3>5 DEF OwedFor
      <3>7. ASSUME NEW row \in RowsFor(p) PROVE Done(row)'
        <4>1. row \in rows /\ row.user = u
          BY <1>5, <3>2 DEF RowsFor
        <4>2. row.scheduled = r0.scheduled
          BY <3>1, <3>4, <4>1 DEF IInv, SentTogether
        <4>3. row \in batch
          BY <1>2, <3>2, <3>4, <4>1, <4>2 DEF IInv, BatchInv
        <4>. QED  BY <1>10, <4>1, <4>3
      <3>8. ~Owed(p)'
        BY <1>7, <1>8, <1>9, <2>3, <3>7 DEF Owed
      <3>9. /\ emailed[p] \in Nat /\ emailed'[p] = emailed[p] + 1
            /\ crashes \in Nat /\ aborts \in Nat
        BY <1>3, <2>3 DEF IInv, CountersInv
      <3>10. emailed'[p] <= 1 + crashes + aborts
        BY <3>6, <3>9
      <3>. QED  BY <1>2, <3>8, <3>10 DEF OwedFor
    <2>. QED  BY <2>2, <2>3
  <1>14. BoundInv'
    <2>. SUFFICES ASSUME NEW p \in Missed PROVE BoundFor(p)'
      BY DEF BoundInv
    <2>1. ToCome(p)' = ToCome(p) /\ Moves(p)' = Moves(p)
      BY <1>2, <1>8 DEF ToCome, Moves
    <2>2. /\ ToSend(p)' \in {0, 1} /\ ToSend(p)' <= ToSend(p)
      <3>1. Stranded(p)' => Stranded(p)
        BY <1>1, <1>2 DEF Stranded, PairOf
      <3>. QED  BY <3>1 DEF ToSend
    <2>3. ToDelete(p)' \in {0, 1} /\ ToDelete(p) <= ToDelete(p)'
      <3>1. SomeDone(p) => SomeDone(p)'
        BY <1>9, <1>10 DEF SomeDone
      <3>. QED  BY <3>1 DEF ToDelete
    <2>4. BoundFor(p)
      BY DEF BoundInv
    <2>5. /\ emailed[p] \in Nat /\ Cardinality(RowsFor(p)) \in Nat
          /\ ToCome(p) \in {0, 1} /\ ToSend(p) \in {0, 1} /\ ToDelete(p) \in {0, 1}
          /\ crashes \in Nat /\ aborts \in Nat /\ Moves(p) \in Int
      BY Numbers
    <2>6. /\ Cardinality(RowsFor(p))' = Cardinality(RowsFor(p))
          /\ crashes' = crashes /\ aborts' = aborts
      BY <1>2, <1>9
    <2>7. CASE p \notin pairs
      <3>1. emailed'[p] = emailed[p]
        BY <1>3, <2>7
      <3>. QED  BY <2>1, <2>2, <2>3, <2>4, <2>5, <2>6, <3>1 DEF BoundFor
    <2>8. CASE p \in pairs
      <3>1. PICK r0 \in batch : r0.user = u /\ PairOf(r0) = p
        BY <1>4, <2>8
      <3>2. p[1] = u /\ p[2] \notin deleted /\ emailed'[p] = emailed[p] + 1
        BY <1>3, <1>4, <2>8
      <3>3. ToDelete(p) = 0
        BY <1>5, <3>2 DEF ToDelete, SomeDone, Done, RowsFor
      <3>4. CASE r0 \in rows
        <4>1. ToDelete(p)' = 1
          <5>1. r0 \in RowsFor(p)' /\ Done(r0)'
            BY <1>9, <1>10, <3>1, <3>4 DEF RowsFor
          <5>. QED  BY <5>1 DEF ToDelete, SomeDone
        <4>. QED  BY <2>1, <2>2, <2>4, <2>5, <2>6, <3>2, <3>3, <4>1 DEF BoundFor
      <3>5. CASE r0 \notin rows
        <4>1. ToSend(p) = 1
          BY <1>2, <3>1, <3>2, <3>5 DEF ToSend, Stranded
        <4>2. ToSend(p)' = 0
          BY <1>1, <3>2 DEF ToSend, Stranded
        <4>. QED  BY <2>1, <2>3, <2>4, <2>5, <2>6, <3>2, <3>3, <4>1, <4>2 DEF BoundFor
      <3>. QED  BY <3>4, <3>5
    <2>. QED  BY <2>7, <2>8
  <1>. QED  BY <1>11, <1>12, <1>13, <1>14

(* The rows of a smaller set.                                              *)
LEMMA FewerRows ==
    ASSUME NEW S, IsFiniteSet(S), NEW T, T \subseteq S
    PROVE  /\ Cardinality(S) \in Nat /\ Cardinality(T) \in Nat
           /\ Cardinality(T) <= Cardinality(S)
           /\ T # S => Cardinality(T) + 1 <= Cardinality(S)
  <1>1. IsFiniteSet(T) /\ Cardinality(S) \in Nat /\ Cardinality(T) \in Nat
        /\ Cardinality(T) <= Cardinality(S)
    BY FS_Subset, FS_CardinalityType
  <1>2. ASSUME T # S PROVE Cardinality(T) + 1 <= Cardinality(S)
    <2>1. Cardinality(T) # Cardinality(S)
      BY <1>2, FS_Subset
    <2>. QED  BY <1>1, <2>1
  <1>. QED  BY <1>1, <1>2

LEMMA DeleteProcessedRepeat ==
    ASSUME IInv, RepeatInv, DeleteProcessed PROVE RepeatInv'
  <1>. USE DEF RepeatInv, historyVars, counterVars, EndOfRun
  <1>1. /\ lock = "timer" /\ recipients = {} /\ ~aborted /\ rows' = rows \ Due(current_time)
        /\ lock' = "free" /\ batch' = {} /\ recipients' = {}
        /\ UNCHANGED <<now, queued, period, read, deleted, consumer, current_time,
                       change, historyVars, counterVars>>
    BY DEF DeleteProcessed, Deleted
  <1>2. \A row : (Done(row) <=> row \in batch) /\ ~Done(row)'
    BY <1>1 DEF Done
  <1>3. ASSUME NEW row \in rows' PROVE row \in rows /\ ~Done(row)
    BY <1>1, <1>2 DEF Due, DueInv
  <1>4. ASSUME NEW p \in Missed
        PROVE  /\ RowsFor(p)' \subseteq RowsFor(p)
               /\ \A row \in RowsFor(p)' : ~Done(row)
    BY <1>3 DEF RowsFor, PairOf
  <1>5. \A p \in Missed : Coming(p)' <=> Coming(p)
    BY <1>1 DEF Coming
  <1>6. QueueInv' /\ DueInv'
    <2>1. IsFiniteSet(rows')
      BY <1>1, FS_Subset DEF QueueInv
    <2>. QED  BY <1>1, <2>1 DEF QueueInv, DueInv
  <1>7. Redelivered'
    <2>. SUFFICES ASSUME NEW p \in Missed, Coming(p)', Known(p)' PROVE FALSE
      BY DEF Redelivered
    <2>1. Known(p)
      BY <1>1, <1>3 DEF Known, Planned, PairOf
    <2>. QED  BY <1>1, <1>5, <2>1 DEF Redelivered
  <1>8. OwedInv'
    <2>. SUFFICES ASSUME changes = 0, NEW p \in Missed PROVE OwedFor(p)'
      BY <1>1 DEF OwedInv
    <2>1. OwedFor(p)
      BY DEF OwedInv
    <2>2. Owed(p)' => Owed(p)
      BY <1>4, <1>5 DEF Owed
    <2>. QED  BY <1>1, <2>1, <2>2 DEF OwedFor
  <1>9. BoundInv'
    <2>. SUFFICES ASSUME NEW p \in Missed PROVE BoundFor(p)'
      BY DEF BoundInv
    <2>1. ToCome(p)' = ToCome(p) /\ Moves(p)' = Moves(p)
      BY <1>1, <1>5 DEF ToCome, Moves
    <2>2. ToSend(p)' = 0 /\ ToDelete(p)' = 0
      BY <1>1, <1>2 DEF ToSend, Stranded, ToDelete, SomeDone
    <2>3. /\ emailed[p] \in Nat /\ Cardinality(RowsFor(p)) \in Nat
          /\ ToCome(p) \in {0, 1} /\ ToSend(p) \in {0, 1} /\ ToDelete(p) \in {0, 1}
          /\ crashes \in Nat /\ aborts \in Nat /\ Moves(p) \in Int
      BY Numbers
    <2>4. /\ Cardinality(RowsFor(p))' \in Nat
          /\ Cardinality(RowsFor(p))' + ToDelete(p) <= Cardinality(RowsFor(p))
      <3>. DEFINE S == RowsFor(p)  T == RowsFor(p)'
      <3>1. IsFiniteSet(S) /\ T \subseteq S
        <4>1. IsFiniteSet(S)
          BY CountRows DEF RowsFor, QueueInv
        <4>. QED  BY <1>4, <4>1
      <3>2. ToDelete(p) = 1 => T # S
        BY <1>4 DEF ToDelete, SomeDone
      <3>3. /\ Cardinality(T) \in Nat /\ Cardinality(T) <= Cardinality(S)
            /\ T # S => Cardinality(T) + 1 <= Cardinality(S)
        <4>. HIDE DEF S, T
        <4>. QED  BY <3>1, FewerRows
      <3>4. Cardinality(T) \in Nat /\ Cardinality(T) + ToDelete(p) <= Cardinality(S)
        <4>. HIDE DEF S, T
        <4>. QED  BY <2>3, <3>2, <3>3
      <3>. QED  BY <3>4
    <2>5. BoundFor(p)
      BY DEF BoundInv
    <2>. QED  BY <1>1, <2>1, <2>2, <2>3, <2>4, <2>5 DEF BoundFor
  <1>. QED  BY <1>6, <1>7, <1>8, <1>9

-----------------------------------------------------------------------------
LEMMA DeleteMessageRepeat ==
    ASSUME IInv, RepeatInv, DeleteMessage PROVE RepeatInv'
  <1>. USE DEF RepeatInv, timerVars, historyVars, counterVars
  <1>1. PICK msg \in Messages \ deleted :
            /\ deleted' = deleted \cup {msg}
            /\ rows' = {row \in rows : row.message # msg}
            /\ UNCHANGED <<now, queued, period, read, lock, timer_event,
                           consumer, timerVars, change, historyVars, counterVars>>
    BY DEF DeleteMessage
  <1>2. \A row : Done(row)' <=> Done(row)
    BY <1>1 DEF Done
  <1>3. \A p \in Missed : Coming(p)' <=> Coming(p)
    BY <1>1 DEF Coming
  <1>4. ASSUME NEW p \in Missed
        PROVE  \A row : PairOf(row) = p => row.message = p[2]
    BY DEF PairOf
  <1>5. ASSUME NEW p \in Missed
        PROVE  /\ p[2] = msg => RowsFor(p)' = {}
               /\ p[2] # msg => RowsFor(p)' = RowsFor(p)
               /\ RowsFor(p)' \subseteq RowsFor(p)
    BY <1>1, <1>4 DEF RowsFor, PairOf
  <1>6. QueueInv' /\ DueInv'
    <2>1. IsFiniteSet(rows')
      BY <1>1, FS_Subset DEF QueueInv
    <2>. QED  BY <1>1, <2>1 DEF QueueInv, DueInv, PairOf
  <1>7. Redelivered'
    <2>1. ASSUME NEW p \in Missed, Known(p)' PROVE Known(p)
      BY <1>1, <2>1 DEF Known, Planned, PairOf
    <2>. QED  BY <1>1, <1>3, <2>1 DEF Redelivered
  <1>8. OwedInv'
    <2>. SUFFICES ASSUME changes = 0, NEW p \in Missed PROVE OwedFor(p)'
      BY <1>1 DEF OwedInv
    <2>1. OwedFor(p)
      BY DEF OwedInv
    <2>2. Owed(p)' => Owed(p)
      BY <1>2, <1>3, <1>5 DEF Owed
    <2>. QED  BY <1>1, <2>1, <2>2 DEF OwedFor
  <1>9. BoundInv'
    <2>. SUFFICES ASSUME NEW p \in Missed PROVE BoundFor(p)'
      BY DEF BoundInv
    <2>1. /\ ToCome(p)' = ToCome(p) /\ Moves(p)' = Moves(p) /\ emailed'[p] = emailed[p]
          /\ crashes' = crashes /\ aborts' = aborts
      BY <1>1, <1>3 DEF ToCome, Moves
    <2>2. BoundFor(p)
      BY DEF BoundInv
    <2>3. CASE p[2] = msg
      <3>1. RowsFor(p)' = {} /\ Cardinality({}) = 0
        BY <1>5, <2>3, FS_EmptySet
      <3>2. ToSend(p)' = 0 /\ ToDelete(p)' = 0
        BY <1>1, <2>3, <3>1 DEF ToSend, Stranded, ToDelete, SomeDone
      <3>3. Cardinality(RowsFor(p))' = 0
        BY <3>1
      <3>4. /\ emailed[p] \in Nat /\ Cardinality(RowsFor(p)) \in Nat
            /\ ToCome(p) \in {0, 1} /\ ToSend(p) \in {0, 1} /\ ToDelete(p) \in {0, 1}
            /\ crashes \in Nat /\ aborts \in Nat /\ Moves(p) \in Int
            /\ ToDelete(p) <= Cardinality(RowsFor(p))
        BY Numbers
      <3>. QED  BY <2>1, <2>2, <3>2, <3>3, <3>4 DEF BoundFor
    <2>4. CASE p[2] # msg
      <3>1. RowsFor(p)' = RowsFor(p)
        BY <1>5, <2>4
      <3>2. SomeDone(p)' <=> SomeDone(p)
        BY <1>2, <3>1 DEF SomeDone
      <3>3. \A row : PairOf(row) = p => (row \in rows' <=> row \in rows)
        BY <1>1, <1>4, <2>4
      <3>4. Stranded(p)' <=> Stranded(p)
        BY <1>1, <2>4, <3>3 DEF Stranded, PairOf
      <3>5. ToSend(p)' = ToSend(p) /\ ToDelete(p)' = ToDelete(p)
        BY <3>2, <3>4 DEF ToSend, ToDelete
      <3>. QED  BY <2>1, <2>2, <3>1, <3>5 DEF BoundFor
    <2>. QED  BY <2>3, <2>4
  <1>. QED  BY <1>6, <1>7, <1>8, <1>9

LEMMA ChangePeriodRepeat ==
    ASSUME IInv, RepeatInv, ChangePeriod PROVE RepeatInv'
  <1>. USE DEF RepeatInv, timerVars, historyVars
  <1>1. PICK u \in Users, new \in Periods :
            /\ new # period[u] /\ changes' = changes + 1
            /\ change[u] = 0 /\ change' = [change EXCEPT ![u] = new - period[u]]
            /\ UNCHANGED <<now, queued, rows, read, deleted, lock, timer_event,
                           consumer, timerVars, historyVars, crashes, aborts>>
    BY DEF ChangePeriod
  <1>2. changes \in Nat /\ changes' # 0
    BY <1>1 DEF IInv, CountersInv
  <1>3. /\ change'[u] # 0
        /\ \A v \in Users : v # u => change'[v] = change[v]
    <2>1. new \in Int /\ period[u] \in Int
      BY PeriodIsInt DEF IInv, TypeOK
    <2>. QED  BY <1>1, <2>1 DEF IInv, TypeOK
  <1>4. \A row : Done(row)' <=> Done(row)
    BY <1>1 DEF Done
  <1>5. \A p \in Missed : Coming(p)' <=> Coming(p)
    BY <1>1 DEF Coming
  <1>6. \A p \in Missed : RowsFor(p)' = RowsFor(p)
    BY <1>1 DEF RowsFor, PairOf
  <1>7. QueueInv' /\ DueInv' /\ OwedInv'
    BY <1>1, <1>2 DEF QueueInv, DueInv, PairOf, OwedInv
  <1>8. Redelivered'
    <2>1. ASSUME NEW p \in Missed, Known(p)' PROVE Known(p)
      BY <1>1, <2>1 DEF Known, Planned, PairOf
    <2>. QED  BY <1>1, <1>5, <2>1 DEF Redelivered
  <1>9. BoundInv'
    <2>. SUFFICES ASSUME NEW p \in Missed PROVE BoundFor(p)'
      BY DEF BoundInv
    <2>1. SomeDone(p)' <=> SomeDone(p)
      BY <1>4, <1>6 DEF SomeDone
    <2>2. Stranded(p)' <=> Stranded(p)
      BY <1>1 DEF Stranded, PairOf
    <2>3. ToCome(p)' = ToCome(p) /\ ToSend(p)' = ToSend(p) /\ ToDelete(p)' = ToDelete(p)
      BY <1>5, <2>1, <2>2 DEF ToCome, ToSend, ToDelete
    <2>4. Moves(p)' \in Int /\ Moves(p) <= Moves(p)'
      <3>1. p[1] \in Users
        BY PairIn
      <3>2. CASE p \notin moved
        BY <1>1, <3>2 DEF Moves
      <3>3. CASE p \in moved /\ p[1] = u
        <4>1. Moves(p) = changes /\ Moves(p)' = changes' - 1
          BY <1>1, <1>3, <3>3 DEF Moves
        <4>. QED  BY <1>1, <1>2, <4>1
      <3>4. CASE p \in moved /\ p[1] # u
        <4>1. change'[p[1]] = change[p[1]]
          BY <1>3, <3>1, <3>4
        <4>2. CASE change[p[1]] = 0
          <5>1. Moves(p) = changes /\ Moves(p)' = changes'
            BY <1>1, <3>4, <4>1, <4>2 DEF Moves
          <5>. QED  BY <1>1, <1>2, <5>1
        <4>3. CASE change[p[1]] # 0
          <5>1. Moves(p) = changes - 1 /\ Moves(p)' = changes' - 1
            BY <1>1, <3>4, <4>1, <4>3 DEF Moves
          <5>. QED  BY <1>1, <1>2, <5>1
        <4>. QED  BY <4>2, <4>3
      <3>. QED  BY <3>2, <3>3, <3>4
    <2>5. BoundFor(p)
      BY DEF BoundInv
    <2>6. /\ emailed[p] \in Nat /\ Cardinality(RowsFor(p)) \in Nat
          /\ ToCome(p) \in {0, 1} /\ ToSend(p) \in {0, 1} /\ ToDelete(p) \in {0, 1}
          /\ crashes \in Nat /\ aborts \in Nat /\ Moves(p) \in Int
      BY Numbers
    <2>7. /\ Cardinality(RowsFor(p))' = Cardinality(RowsFor(p)) /\ emailed'[p] = emailed[p]
          /\ crashes' = crashes /\ aborts' = aborts
      BY <1>1, <1>6
    <2>. QED  BY <2>3, <2>4, <2>5, <2>6, <2>7 DEF BoundFor
  <1>. QED  BY <1>7, <1>8, <1>9

(* The rows that update_scheduled_email_notifications_time moves.          *)
Later(row, delay) == [row EXCEPT !.scheduled = @ + delay]

LEMMA LaterRow ==
    ASSUME NEW row \in Row, NEW delay \in Int
    PROVE  PairOf(Later(row, delay)) = PairOf(row) /\ Later(row, delay).user = row.user
  BY DEF Row, PairOf, Later

LEMMA LaterRows ==
    ASSUME NEW S, IsFiniteSet(S), NEW delay
    PROVE  LET T == {Later(row, delay) : row \in S}
           IN  /\ IsFiniteSet(T) /\ Cardinality(T) \in Nat
               /\ Cardinality(T) <= Cardinality(S)
  <1>. DEFINE T == {Later(row, delay) : row \in S}
              f == [row \in S |-> Later(row, delay)]
  <1>1. f \in Surjection(S, T)
    BY DEF Surjection
  <1>. HIDE DEF T, f
  <1>2. IsFiniteSet(T) /\ Cardinality(T) <= Cardinality(S)
    BY <1>1, FS_Surjection
  <1>3. Cardinality(T) \in Nat
    BY <1>2, FS_CardinalityType
  <1>4. IsFiniteSet(T) /\ Cardinality(T) \in Nat /\ Cardinality(T) <= Cardinality(S)
    BY <1>2, <1>3
  <1>. QED  BY <1>4 DEF T

LEMMA RowsMovedRepeat ==
    ASSUME IInv, RepeatInv, update_scheduled_email_notifications_time PROVE RepeatInv'
  <1>. USE DEF RepeatInv, timerVars, counterVars
  <1>1. PICK u \in Users :
            /\ change[u] # 0 /\ change' = [change EXCEPT ![u] = 0]
            /\ rows' = (rows \ RowsOf(u)) \cup {Later(row, change[u]) : row \in RowsOf(u)}
            /\ moved' = IF lock = "timer" THEN moved \cup {PairOf(row) : row \in RowsOf(u)}
                        ELSE moved
            /\ UNCHANGED <<now, queued, period, read, deleted, lock, timer_event,
                           consumer, timerVars, emailed, raised, counterVars>>
    BY DEF update_scheduled_email_notifications_time, Later
  <1>. DEFINE delay == change[u]  L(row) == Later(row, delay)
  <1>2. rows \subseteq Row /\ delay \in Int /\ change \in [Users -> Int]
    BY DEF IInv, TypeOK, Row
  <1>3. \A row \in rows : PairOf(L(row)) = PairOf(row) /\ L(row).user = row.user
    BY <1>2, LaterRow
  <1>4. rows' = (rows \ RowsOf(u)) \cup {L(row) : row \in RowsOf(u)}
    BY <1>1
  <1>. HIDE DEF delay, L
  <1>5. changes \in Nat /\ changes # 0 /\ changes' = changes
    BY <1>1 DEF IInv, TogetherInv, CountersInv
  <1>6. \A row : PairOf(row) = <<row.user, row.message>>
    BY DEF PairOf
  <1>7. \A row : Done(row)' <=> Done(row)
    BY <1>1 DEF Done
  <1>8. \A p \in Missed : Coming(p)' <=> Coming(p)
    BY <1>1 DEF Coming
  <1>9. \A row : row.user # u => (row \in rows' <=> row \in rows)
    BY <1>3, <1>4 DEF RowsOf
  <1>10. ASSUME NEW p \in Missed, p[1] # u PROVE RowsFor(p)' = RowsFor(p)
    BY <1>6, <1>9, <1>10 DEF RowsFor, PairOf
  <1>11. ASSUME NEW p \in Missed, p[1] = u
         PROVE  RowsFor(p)' = {L(row) : row \in RowsFor(p)}
    <2>1. ASSUME NEW row \in RowsFor(p) PROVE row \in RowsOf(u) /\ L(row) \in RowsFor(p)'
      <3>1. row \in rows /\ PairOf(row) = p /\ row.user = u
        BY <1>6, <1>11 DEF RowsFor
      <3>2. L(row) \in rows' /\ PairOf(L(row)) = p
        BY <1>3, <1>4, <3>1 DEF RowsOf
      <3>. QED  BY <3>1, <3>2 DEF RowsOf, RowsFor, PairOf
    <2>2. ASSUME NEW row \in RowsFor(p)' PROVE \E r \in RowsFor(p) : row = L(r)
      <3>1. row \in rows' /\ PairOf(row) = p /\ row.user = u
        BY <1>6, <1>11 DEF RowsFor, PairOf
      <3>2. PICK r \in RowsOf(u) : row = L(r)
        BY <1>4, <3>1 DEF RowsOf
      <3>. QED  BY <1>3, <3>1, <3>2 DEF RowsOf, RowsFor
    <2>. QED  BY <2>1, <2>2
  <1>12. \A row \in rows' : \E r \in rows : PairOf(r) = PairOf(row)
    BY <1>3, <1>4 DEF RowsOf
  <1>13. QueueInv'
    <2>1. IsFiniteSet(RowsOf(u)) /\ IsFiniteSet(rows \ RowsOf(u))
      BY FS_Subset DEF QueueInv, RowsOf
    <2>2. IsFiniteSet({Later(row, delay) : row \in RowsOf(u)})
      BY <2>1, LaterRows
    <2>3. IsFiniteSet(rows')
      BY <1>4, <2>1, <2>2, FS_Union DEF L
    <2>. QED  BY <1>1, <2>3 DEF QueueInv
  <1>14. DueInv'
    <2>1. ASSUME NEW row \in batch
          PROVE  row \in rows' \/ row.message \in deleted \/ PairOf(row) \in moved'
      <3>1. lock = "timer"
        BY DEF IInv, TypeOK
      <3>2. row \in rows \/ row.message \in deleted \/ PairOf(row) \in moved
        BY DEF DueInv
      <3>. QED  BY <1>1, <1>9, <3>1, <3>2 DEF RowsOf
    <2>. QED  BY <1>1, <1>5, <2>1 DEF DueInv, PairOf
  <1>15. Redelivered'
    <2>1. ASSUME NEW p \in Missed, Known(p)' PROVE Known(p)
      <3>1. Planned(p)' => Planned(p)
        BY <1>12 DEF Planned, PairOf
      <3>. QED  BY <1>1, <2>1, <3>1 DEF Known, PairOf
    <2>. QED  BY <1>1, <1>8, <2>1 DEF Redelivered
  <1>16. OwedInv'
    BY <1>5 DEF OwedInv
  <1>17. ASSUME NEW p \in Missed, p[1] # u
         PROVE  /\ ToSend(p)' = ToSend(p) /\ ToDelete(p)' = ToDelete(p)
                /\ Moves(p)' = Moves(p)
    <2>1. SomeDone(p)' <=> SomeDone(p)
      BY <1>7, <1>10, <1>17 DEF SomeDone
    <2>2. Stranded(p)' <=> Stranded(p)
      BY <1>1, <1>6, <1>9, <1>17 DEF Stranded, PairOf
    <2>3. p \in moved' <=> p \in moved
      BY <1>1, <1>6, <1>17 DEF RowsOf
    <2>4. change'[p[1]] = change[p[1]]
      BY <1>1, <1>2, <1>17, PairIn
    <2>5. Moves(p)' = Moves(p)
      BY <1>5, <2>3, <2>4 DEF Moves
    <2>. QED  BY <2>1, <2>2, <2>5 DEF ToSend, ToDelete
  <1>18. ASSUME NEW p \in Missed, p[1] = u
         PROVE  /\ Moves(p)' \in Int /\ Moves(p) <= Moves(p)'
                /\ p \notin moved /\ p \in moved' => Moves(p) + 1 <= Moves(p)'
                /\ p \in moved => Moves(p) + 1 <= Moves(p)'
    <2>1. change'[p[1]] = 0 /\ change[p[1]] # 0 /\ moved \subseteq moved'
      BY <1>1, <1>2, <1>18
    <2>2. CASE p \in moved
      <3>1. Moves(p) = changes - 1 /\ Moves(p)' = changes
        BY <1>5, <2>1, <2>2 DEF Moves
      <3>. QED  BY <1>5, <2>2, <3>1
    <2>3. CASE p \notin moved /\ p \in moved'
      <3>1. Moves(p) = 0 /\ Moves(p)' = changes
        BY <1>5, <2>1, <2>3 DEF Moves
      <3>. QED  BY <1>5, <2>3, <3>1
    <2>4. CASE p \notin moved /\ p \notin moved'
      <3>1. Moves(p) = 0 /\ Moves(p)' = 0
        BY <2>4 DEF Moves
      <3>. QED  BY <2>4, <3>1
    <2>. QED  BY <2>2, <2>3, <2>4
  <1>19. BoundInv'
    <2>. SUFFICES ASSUME NEW p \in Missed PROVE BoundFor(p)'
      BY DEF BoundInv
    <2>1. ToCome(p)' = ToCome(p)
      BY <1>8 DEF ToCome
    <2>2. BoundFor(p)
      BY DEF BoundInv
    <2>3. /\ emailed[p] \in Nat /\ Cardinality(RowsFor(p)) \in Nat
          /\ ToCome(p) \in {0, 1} /\ ToSend(p) \in {0, 1} /\ ToDelete(p) \in {0, 1}
          /\ crashes \in Nat /\ aborts \in Nat /\ Moves(p) \in Int
      BY Numbers
    <2>4. emailed'[p] = emailed[p] /\ crashes' = crashes /\ aborts' = aborts
      BY <1>1
    <2>5. CASE p[1] # u
      BY <1>10, <1>17, <2>1, <2>2, <2>4, <2>5 DEF BoundFor
    <2>6. CASE p[1] = u
      <3>1. /\ Cardinality(RowsFor(p))' \in Nat
            /\ Cardinality(RowsFor(p))' <= Cardinality(RowsFor(p))
        <4>. DEFINE S == RowsFor(p)  T == {Later(row, delay) : row \in S}
        <4>1. IsFiniteSet(S)
          BY CountRows DEF RowsFor, QueueInv
        <4>2. RowsFor(p)' = T
          BY <1>11, <2>6 DEF L
        <4>3. Cardinality(T) \in Nat /\ Cardinality(T) <= Cardinality(S)
          <5>. HIDE DEF S
          <5>. QED  BY <4>1, LaterRows
        <4>. QED  BY <4>2, <4>3
      <3>2. ToSend(p)' \in {0, 1} /\ ToDelete(p)' \in {0, 1}
        BY DEF ToSend, ToDelete
      <3>3. /\ Moves(p)' \in Int /\ Moves(p) <= Moves(p)'
            /\ p \in moved' => Moves(p) + 1 <= Moves(p)'
        BY <1>18, <2>6
      <3>4. CASE lock # "timer" \/ RowsFor(p) = {}
        <4>1. ToDelete(p)' = 0 /\ ToDelete(p) = 0
          <5>1. CASE lock # "timer"
            BY <1>1, <5>1 DEF ToDelete, SomeDone, Done
          <5>2. CASE RowsFor(p) = {}
            <6>1. RowsFor(p)' = {}
              BY <1>11, <2>6, <5>2
            <6>. QED  BY <5>2, <6>1 DEF ToDelete, SomeDone
          <5>. QED  BY <3>4, <5>1, <5>2
        <4>2. Stranded(p)' => Stranded(p)
          <5>1. CASE lock # "timer"
            BY <1>1, <5>1 DEF Stranded
          <5>2. CASE RowsFor(p) = {}
            BY <1>1, <5>2 DEF Stranded, RowsFor, PairOf
          <5>. QED  BY <3>4, <5>1, <5>2
        <4>3. ToSend(p)' <= ToSend(p)
          BY <4>2 DEF ToSend
        <4>. QED  BY <2>1, <2>2, <2>3, <2>4, <3>1, <3>2, <3>3, <4>1, <4>3 DEF BoundFor
      <3>5. CASE lock = "timer" /\ RowsFor(p) # {}
        <4>1. p \in moved'
          BY <1>1, <1>6, <2>6, <3>5 DEF RowsFor, RowsOf
        <4>2. \/ ToDelete(p)' = 0 /\ ToDelete(p) = 0
              \/ ToSend(p)' = 0 /\ ToSend(p) = 0
          <5>1. CASE u \in recipients
            <6>1. \A row \in RowsFor(p) : ~Done(row)
              BY <1>6, <2>6, <5>1 DEF RowsFor, Done
            <6>2. \A row \in RowsFor(p)' : ~Done(row)'
              BY <1>1, <1>6, <2>6, <5>1 DEF RowsFor, Done, PairOf
            <6>. QED  BY <6>1, <6>2 DEF ToDelete, SomeDone
          <5>2. CASE u \notin recipients
            BY <1>1, <2>6, <5>2 DEF ToSend, Stranded
          <5>. QED  BY <5>1, <5>2
        <4>3. Moves(p) + 1 <= Moves(p)'
          BY <3>3, <4>1
        <4>. QED  BY <2>1, <2>2, <2>3, <2>4, <3>1, <3>2, <3>3, <4>2, <4>3 DEF BoundFor
      <3>. QED  BY <3>4, <3>5
    <2>. QED  BY <2>5, <2>6
  <1>. QED  BY <1>13, <1>14, <1>15, <1>16, <1>19

-----------------------------------------------------------------------------
LEMMA QueuedOnce ==
    ASSUME NEW q \in SetToSeqs(Missed)
    PROVE  \A i, j \in 1 .. Len(q) : q[i] = q[j] => i = j
  <1>. DEFINE n == Cardinality(Missed)
  <1>1. n \in Nat
    BY FS_CardinalityType, MissedAssumption
  <1>. HIDE DEF n
  <1>2. q \in [1 .. n -> Missed] /\ \A i, j \in 1 .. n : i # j => q[i] # q[j]
    BY DEF SetToSeqs, n
  <1>3. Len(q) = n
    BY <1>1, <1>2
  <1>. QED  BY <1>2, <1>3

LEMMA InitRepeat == Init => RepeatInv
  <1>. SUFFICES ASSUME Init PROVE RepeatInv
    OBVIOUS
  <1>1. QueueInv
    BY QueuedOnce, FS_EmptySet DEF Init, QueueInv
  <1>2. \A p \in Missed : ~Known(p) /\ RowsFor(p) = {} /\ emailed[p] = 0
    BY DEF Init, Known, Planned, RowsFor
  <1>3. Redelivered /\ DueInv
    BY <1>2 DEF Redelivered, DueInv, Init
  <1>4. OwedInv
    BY <1>2 DEF OwedInv, OwedFor, Init
  <1>5. BoundInv
    <2>. SUFFICES ASSUME NEW p \in Missed PROVE BoundFor(p)
      BY DEF BoundInv
    <2>1. Cardinality(RowsFor(p)) = 0
      BY <1>2, FS_EmptySet
    <2>2. /\ ToSend(p) = 0 /\ ToDelete(p) = 0 /\ Moves(p) = 0
          /\ crashes = 0 /\ aborts = 0
      BY DEF Init, ToSend, ToDelete, Stranded, SomeDone, Done, Moves
    <2>3. ToCome(p) \in {0, 1}
      BY DEF ToCome
    <2>. QED  BY <1>2, <2>1, <2>2, <2>3 DEF BoundFor
  <1>. QED  BY <1>1, <1>3, <1>4, <1>5 DEF RepeatInv

LEMMA NextRepeat == IInv /\ RepeatInv /\ [Next]_vars => RepeatInv'
  <1>. SUFFICES ASSUME IInv, RepeatInv, [Next]_vars PROVE RepeatInv'
    OBVIOUS
  <1>1. CASE Consume
    BY <1>1, RepeatIdle, ConsumeCreatesRepeat, AcknowledgeRepeat DEF Consume
  <1>2. CASE TimerThread
    BY <1>2, TimerFiresRepeat, HandlingRepeat, DeleteProcessedRepeat, FailureRepeat
       DEF TimerThread
  <1>3. CASE DatabaseFails \/ Crash
    BY <1>3, FailureRepeat
  <1>4. CASE ChangePeriod \/ update_scheduled_email_notifications_time
    BY <1>4, ChangePeriodRepeat, RowsMovedRepeat
  <1>5. CASE Tick \/ MarkRead \/ UNCHANGED vars
    BY <1>5, RepeatIdle
  <1>6. CASE DeleteMessage
    BY <1>6, DeleteMessageRepeat
  <1>. QED  BY <1>1, <1>2, <1>3, <1>4, <1>5, <1>6 DEF Next

(* A message is shown as missed again only because of a crash, a failure   *)
(* of the database or a move under an open batch: at most once for each    *)
(* crash and each failure, and twice for a crash if a period changed.      *)
THEOREM RepeatsCorrect == Spec => []RepeatsExplained
  <1>1. Spec => []RepeatInv
    <2>1. IInv /\ RepeatInv /\ [Next]_vars => RepeatInv'
      BY NextRepeat
    <2>. QED  BY <2>1, InitRepeat, MissedInvariant, PTL DEF Spec
  <1>2. IInv /\ RepeatInv => RepeatsExplained
    BY BoundsRepeats
  <1>. QED  BY <1>1, <1>2, MissedInvariant, PTL

=============================================================================
