--------------------------- MODULE QueueWorkerProofs ---------------------------
(***************************************************************************)
(* Theorems about QueueWorker, for every set of events, every batch size   *)
(* and every number of retries and interruptions: TypeCorrect,             *)
(* NothingFallsBetween and OnlyInterruptionsRepeat.                        *)
(*                                                                         *)
(* An event is not a record of its own in this system but copies of it in  *)
(* three sequences, so the second half of the argument counts copies: the  *)
(* lemmas say what appending, taking and requeueing do to the count, and   *)
(* that an interruption at most doubles it.                                *)
(***************************************************************************)
EXTENDS QueueWorker, FiniteSetTheorems, FunctionTheorems, SequenceTheorems,
        TLAPS

-----------------------------------------------------------------------------
(* Powers of two, which the library knows as the size of a SUBSET.         *)
LEMMA PowerOfZero == 2^0 = 1
<1>1. Cardinality(SUBSET {}) = 2^Cardinality({})
  BY FS_EmptySet, FS_SUBSET
<1>2. SUBSET {} = {{}}
  OBVIOUS
<1> QED BY <1>1, <1>2, FS_EmptySet, FS_Singleton

LEMMA PowerType ==
    ASSUME NEW n \in Nat
    PROVE  2^n \in Nat \ {0}
<1>1. IsFiniteSet(1..n) /\ Cardinality(1..n) = n
  BY FS_Interval
<1>2. 2^n = Cardinality(SUBSET (1..n))
  BY <1>1, FS_SUBSET
<1>3. IsFiniteSet(SUBSET (1..n)) /\ SUBSET (1..n) # {}
  BY <1>1, FS_SUBSET
<1>4. Cardinality(SUBSET (1..n)) \in Nat /\ Cardinality(SUBSET (1..n)) # 0
  BY <1>3, FS_CardinalityType, FS_EmptySet
<1> QED BY <1>2, <1>4

LEMMA PowerDoubles ==
    ASSUME NEW n \in Nat
    PROVE  2^(n+1) = 2^n + 2^n
<1> DEFINE S == 1..n
           T == 1..(n+1)
           with == {X \cup {n+1} : X \in SUBSET S}
           f == [X \in SUBSET S |-> X \cup {n+1}]
<1>1. IsFiniteSet(S) /\ Cardinality(S) = n /\ IsFiniteSet(T) /\ Cardinality(T) = n+1
  BY FS_Interval
<1>2. /\ 2^n = Cardinality(SUBSET S) /\ IsFiniteSet(SUBSET S)
      /\ 2^(n+1) = Cardinality(SUBSET T)
  BY <1>1, FS_SUBSET
<1>3. SUBSET T = (SUBSET S) \cup with
  <2>1. ASSUME NEW X \in SUBSET T PROVE X \in (SUBSET S) \cup with
    <3>1. CASE n+1 \in X
      <4>1. X \ {n+1} \in SUBSET S /\ X = (X \ {n+1}) \cup {n+1}
        BY <3>1
      <4> QED BY <4>1
    <3>2. CASE n+1 \notin X
      BY <3>2
    <3> QED BY <3>1, <3>2
  <2>2. ASSUME NEW X \in (SUBSET S) \cup with PROVE X \in SUBSET T
    OBVIOUS
  <2> QED BY <2>1, <2>2
<1>4. (SUBSET S) \cap with = {}
  BY n+1 \notin 1..n
<1>5. IsFiniteSet(with) /\ Cardinality(with) = Cardinality(SUBSET S)
  <2>1. f \in Bijection(SUBSET S, with)
    <3>1. f \in [SUBSET S -> with]
      OBVIOUS
    <3>2. ASSUME NEW X \in SUBSET S, NEW Y \in SUBSET S, f[X] = f[Y] PROVE X = Y
      BY <3>2, n+1 \notin 1..n
    <3>3. \A t \in with : \E X \in SUBSET S : f[X] = t
      OBVIOUS
    <3> HIDE DEF f, with
    <3> QED BY <3>1, <3>2, <3>3, Fun_IsBij
  <2>2. ExistsBijection(SUBSET S, with)
    BY <2>1, Fun_ExistsBij
  <2> HIDE DEF with
  <2> QED BY <1>2, <2>2, FS_Bijection
<1> HIDE DEF S, T, with, f
<1>6. Cardinality(SUBSET S) \in Nat
  BY <1>2, FS_CardinalityType
<1>7. Cardinality((SUBSET S) \cap with) = 0
  BY <1>4, FS_EmptySet
<1>8. /\ IsFiniteSet(SUBSET S)
      /\ Cardinality(SUBSET T) = Cardinality(SUBSET S) + Cardinality(with)
                                   - Cardinality((SUBSET S) \cap with)
  BY <1>2, <1>3, <1>5, FS_Union
<1> QED BY <1>2, <1>5, <1>6, <1>7, <1>8

-----------------------------------------------------------------------------
(* Counting the copies of an event in a sequence                           *)

(* Those from position p on.                                               *)
Left(seq, p, e) == Cardinality({i \in p .. Len(seq) : seq[i].event = e})

Hit(m, e) == IF m.event = e THEN 1 ELSE 0

LEMMA LeftType ==
    ASSUME NEW seq \in Seq(Message), NEW p \in Nat, NEW e
    PROVE  /\ Left(seq, p, e) \in Nat
           /\ IsFiniteSet({i \in p .. Len(seq) : seq[i].event = e})
<1> DEFINE S == {i \in p .. Len(seq) : seq[i].event = e}
<1>1. IsFiniteSet(p .. Len(seq))
  BY FS_Interval
<1>2. S \in SUBSET (p .. Len(seq))
  OBVIOUS
<1>3. IsFiniteSet(S)
  BY <1>1, <1>2, FS_Subset
<1> QED BY <1>3, FS_CardinalityType DEF Left

LEMMA OccurrencesAreLeft ==
    ASSUME NEW seq \in Seq(Message), NEW e
    PROVE  Occurrences(seq, e) = Left(seq, 1, e)
<1>1. {i \in DOMAIN seq : seq[i].event = e} = {i \in 1 .. Len(seq) : seq[i].event = e}
  OBVIOUS
<1> QED BY <1>1 DEF Occurrences, Left

LEMMA NoneLeft ==
    ASSUME NEW seq \in Seq(Message), NEW p \in Nat, p > Len(seq), NEW e
    PROVE  Left(seq, p, e) = 0
<1>1. {i \in p .. Len(seq) : seq[i].event = e} = {}
  OBVIOUS
<1> QED BY <1>1, FS_EmptySet DEF Left

LEMMA LeftSteps ==
    ASSUME NEW seq \in Seq(Message), NEW p \in 1 .. Len(seq), NEW e
    PROVE  Left(seq, p, e) = Left(seq, p + 1, e) + Hit(seq[p], e)
<1> DEFINE S == {i \in p .. Len(seq) : seq[i].event = e}
           R == {i \in (p + 1) .. Len(seq) : seq[i].event = e}
<1>0. p \in Nat /\ p + 1 \in Nat
  OBVIOUS
<1>1. IsFiniteSet(R) /\ Cardinality(R) \in Nat /\ p \notin R
  <2>1. IsFiniteSet(R) /\ Cardinality(R) \in Nat
    BY <1>0, LeftType DEF Left
  <2> QED BY <2>1, <1>0
<1>2. CASE seq[p].event = e
  <2>1. S = R \cup {p}
    BY <1>2
  <2> HIDE DEF S, R
  <2>2. Cardinality(S) = Cardinality(R) + 1
    BY <1>1, <2>1, FS_AddElement
  <2> QED BY <1>2, <2>2 DEF Left, Hit, S, R
<1>3. CASE seq[p].event # e
  <2>1. S = R
    BY <1>3
  <2> HIDE DEF S, R
  <2>2. Cardinality(S) = Cardinality(R) + 0
    BY <1>1, <2>1
  <2> QED BY <1>3, <2>2 DEF Left, Hit, S, R
<1> QED BY <1>2, <1>3

LEMMA OccurrencesConcat ==
    ASSUME NEW s \in Seq(Message), NEW t \in Seq(Message), NEW e
    PROVE  Occurrences(s \o t, e) = Occurrences(s, e) + Occurrences(t, e)
<1> DEFINE A == {i \in 1 .. Len(s) : s[i].event = e}
           B == {i \in 1 .. Len(t) : t[i].event = e}
           D == {i + Len(s) : i \in B}
           U == {i \in 1 .. Len(s \o t) : (s \o t)[i].event = e}
           f == [i \in B |-> i + Len(s)]
<1>0. Len(s) \in Nat /\ Len(t) \in Nat /\ Len(s \o t) = Len(s) + Len(t)
  OBVIOUS
<1>1. /\ IsFiniteSet(A) /\ Cardinality(A) \in Nat
      /\ IsFiniteSet(B) /\ Cardinality(B) \in Nat
  BY LeftType DEF Left
<1>2. U = A \cup D
  <2>1. ASSUME NEW i \in U PROVE i \in A \cup D
    <3>1. CASE i <= Len(s)
      BY <3>1
    <3>2. CASE i > Len(s)
      <4>1. i - Len(s) \in B /\ i = (i - Len(s)) + Len(s)
        BY <3>2
      <4> QED BY <4>1
    <3> QED BY <3>1, <3>2
  <2>2. ASSUME NEW i \in A PROVE i \in U
    OBVIOUS
  <2>3. ASSUME NEW j \in B PROVE j + Len(s) \in U
    OBVIOUS
  <2> QED BY <2>1, <2>2, <2>3
<1>3. A \cap D = {}
  OBVIOUS
<1>4. IsFiniteSet(D) /\ Cardinality(D) = Cardinality(B)
  <2>1. f \in Bijection(B, D)
    <3>1. f \in [B -> D]
      OBVIOUS
    <3>2. \A i, j \in B : f[i] = f[j] => i = j
      OBVIOUS
    <3>3. \A d \in D : \E i \in B : f[i] = d
      OBVIOUS
    <3> HIDE DEF f, B, D
    <3> QED BY <3>1, <3>2, <3>3, Fun_IsBij
  <2>2. ExistsBijection(B, D)
    BY <2>1, Fun_ExistsBij
  <2> HIDE DEF B, D
  <2> QED BY <1>1, <2>2, FS_Bijection
<1>5. Occurrences(s \o t, e) = Cardinality(U)
  <2>1. s \o t \in Seq(Message)
    OBVIOUS
  <2> QED BY <2>1, OccurrencesAreLeft DEF Left
<1>6. Occurrences(s, e) = Cardinality(A) /\ Occurrences(t, e) = Cardinality(B)
  BY OccurrencesAreLeft DEF Left
<1> HIDE DEF A, B, D, U, f
<1>7. Cardinality(U) = Cardinality(A) + Cardinality(D) - Cardinality(A \cap D)
  BY <1>1, <1>2, <1>4, FS_Union
<1>8. Cardinality(A \cap D) = 0
  BY <1>3, FS_EmptySet
<1> QED BY <1>1, <1>4, <1>5, <1>6, <1>7, <1>8

LEMMA OccurrencesEmpty ==
    ASSUME NEW e
    PROVE  Occurrences(<<>>, e) = 0
<1>1. {i \in DOMAIN <<>> : <<>>[i].event = e} = {}
  OBVIOUS
<1> QED BY <1>1, FS_EmptySet DEF Occurrences

LEMMA OccurrencesAppend ==
    ASSUME NEW seq \in Seq(Message), NEW m \in Message, NEW e
    PROVE  Occurrences(Append(seq, m), e) = Occurrences(seq, e) + Hit(m, e)
<1>1. <<m>> \in Seq(Message) /\ Append(seq, m) = seq \o <<m>>
  OBVIOUS
<1>2. Left(<<m>>, 1, e) = Left(<<m>>, 2, e) + Hit(<<m>>[1], e)
  <2>1. 1 \in 1 .. Len(<<m>>) /\ 1 + 1 = 2
    OBVIOUS
  <2> QED BY <1>1, <2>1, LeftSteps
<1>3. Left(<<m>>, 2, e) = 0
  <2>1. 2 \in Nat /\ 2 > Len(<<m>>)
    OBVIOUS
  <2> QED BY <1>1, <2>1, NoneLeft
<1>4. Hit(m, e) \in Nat /\ <<m>>[1] = m
  BY DEF Hit
<1>5. Occurrences(<<m>>, e) = Hit(m, e)
  <2>1. Occurrences(<<m>>, e) = Left(<<m>>, 1, e)
    BY <1>1, OccurrencesAreLeft
  <2> QED BY <1>2, <1>3, <1>4, <2>1
<1>6. Occurrences(seq \o <<m>>, e) = Occurrences(seq, e) + Occurrences(<<m>>, e)
  BY <1>1, OccurrencesConcat
<1> QED BY <1>1, <1>5, <1>6

LEMMA OccurrencesTail ==
    ASSUME NEW seq \in Seq(Message), seq # <<>>, NEW e
    PROVE  Occurrences(seq, e) = Occurrences(Tail(seq), e) + Hit(Head(seq), e)
<1> DEFINE h == Head(seq)
           t == Tail(seq)
<1>1. /\ t \in Seq(Message) /\ h \in Message
      /\ <<h>> \in Seq(Message) /\ seq = <<h>> \o t
  BY HeadTailProperties, ConcatProperties
<1> HIDE DEF h, t
<1>2. Occurrences(<<h>> \o t, e) = Occurrences(<<h>>, e) + Occurrences(t, e)
  BY <1>1, OccurrencesConcat
<1>3. Occurrences(<<h>>, e) = Hit(h, e)
  <2>1. <<>> \in Seq(Message)
    OBVIOUS
  <2>2. Occurrences(Append(<<>>, h), e) = Occurrences(<<>>, e) + Hit(h, e)
    BY <1>1, <2>1, OccurrencesAppend
  <2>3. Append(<<>>, h) = <<h>> /\ Hit(h, e) \in Nat
    BY DEF Hit
  <2> QED BY <2>2, <2>3, OccurrencesEmpty
<1>4. Occurrences(t, e) \in Nat /\ Hit(h, e) \in Nat
  <2>1. Left(t, 1, e) \in Nat
    BY <1>1, LeftType, 1 \in Nat
  <2>2. Occurrences(t, e) = Left(t, 1, e)
    BY <1>1, OccurrencesAreLeft
  <2> QED BY <2>1, <2>2 DEF Hit
<1>5. Occurrences(seq, e) = Occurrences(t, e) + Hit(h, e)
  BY <1>1, <1>2, <1>3, <1>4
<1> QED BY <1>5 DEF h, t

-----------------------------------------------------------------------------
(* The events of a sequence                                                *)

LEMMA EventsOfIndices ==
    ASSUME NEW s \in Seq(Message)
    PROVE  EventsOf(s) = {s[i].event : i \in 1 .. Len(s)}
BY DEF EventsOf, Range

LEMMA EventsOfType ==
    ASSUME NEW s \in Seq(Message)
    PROVE  EventsOf(s) \subseteq Events
<1>1. \A i \in 1 .. Len(s) : s[i] \in Message
  OBVIOUS
<1>2. \A m \in Message : m.event \in Events
  BY DEF Message
<1> QED BY <1>1, <1>2, EventsOfIndices

LEMMA EventsOfConcat ==
    ASSUME NEW s \in Seq(Message), NEW t \in Seq(Message)
    PROVE  EventsOf(s \o t) = EventsOf(s) \cup EventsOf(t)
<1> DEFINE u == s \o t
<1>1. /\ u \in Seq(Message) /\ Len(u) = Len(s) + Len(t)
      /\ \A i \in 1 .. Len(s) : u[i] = s[i]
      /\ \A i \in 1 .. Len(t) : u[i + Len(s)] = t[i]
      /\ Len(s) \in Nat /\ Len(t) \in Nat
  OBVIOUS
<1> HIDE DEF u
<1>0. /\ EventsOf(u) = {u[i].event : i \in 1 .. Len(u)}
      /\ EventsOf(s) = {s[i].event : i \in 1 .. Len(s)}
      /\ EventsOf(t) = {t[i].event : i \in 1 .. Len(t)}
  BY <1>1, EventsOfIndices
<1>2. EventsOf(u) \subseteq EventsOf(s) \cup EventsOf(t)
  <2>1. ASSUME NEW i \in 1 .. Len(u)
        PROVE  u[i].event \in EventsOf(s) \cup EventsOf(t)
    <3>1. CASE i <= Len(s)
      <4>1. i \in 1 .. Len(s) /\ u[i] = s[i]
        BY <1>1, <3>1
      <4> QED BY <1>0, <4>1
    <3>2. CASE i > Len(s)
      <4>1. i - Len(s) \in 1 .. Len(t) /\ (i - Len(s)) + Len(s) = i
        BY <1>1, <3>2
      <4>2. u[i] = t[i - Len(s)]
        BY <1>1, <4>1
      <4> QED BY <1>0, <4>1, <4>2
    <3> QED BY <1>1, <3>1, <3>2
  <2> QED BY <1>0, <2>1
<1>3. EventsOf(s) \subseteq EventsOf(u)
  <2>1. ASSUME NEW i \in 1 .. Len(s) PROVE s[i].event \in EventsOf(u)
    <3>1. i \in 1 .. Len(u) /\ u[i] = s[i]
      BY <1>1
    <3> QED BY <1>0, <3>1
  <2> QED BY <1>0, <2>1
<1>4. EventsOf(t) \subseteq EventsOf(u)
  <2>1. ASSUME NEW i \in 1 .. Len(t) PROVE t[i].event \in EventsOf(u)
    <3>1. i + Len(s) \in 1 .. Len(u) /\ u[i + Len(s)] = t[i]
      BY <1>1
    <3> QED BY <1>0, <3>1
  <2> QED BY <1>0, <2>1
<1> QED BY <1>2, <1>3, <1>4 DEF u

LEMMA EventsOfEmpty == EventsOf(<<>>) = {}
BY DEF EventsOf, Range

LEMMA EventsOfSingle ==
    ASSUME NEW m \in Message
    PROVE  EventsOf(<<m>>) = {m.event}
<1> DEFINE u == <<m>>
<1>1. u \in Seq(Message) /\ 1 .. Len(u) = {1} /\ u[1] = m
  OBVIOUS
<1> HIDE DEF u
<1>2. EventsOf(u) = {u[i].event : i \in {1}}
  BY <1>1, EventsOfIndices
<1> QED BY <1>1, <1>2 DEF u

LEMMA EventsOfAppend ==
    ASSUME NEW s \in Seq(Message), NEW m \in Message
    PROVE  EventsOf(Append(s, m)) = EventsOf(s) \cup {m.event}
<1>1. <<m>> \in Seq(Message) /\ Append(s, m) = s \o <<m>>
  OBVIOUS
<1> QED BY <1>1, EventsOfConcat, EventsOfSingle

LEMMA EventsOfTail ==
    ASSUME NEW s \in Seq(Message), s # <<>>
    PROVE  EventsOf(s) = {Head(s).event} \cup EventsOf(Tail(s))
<1> DEFINE h == Head(s)
           t == Tail(s)
<1>1. /\ t \in Seq(Message) /\ h \in Message
      /\ <<h>> \in Seq(Message) /\ s = <<h>> \o t
  BY HeadTailProperties, ConcatProperties
<1> HIDE DEF h, t
<1>2. EventsOf(<<h>> \o t) = EventsOf(<<h>>) \cup EventsOf(t)
  BY <1>1, EventsOfConcat
<1>3. EventsOf(<<h>>) = {h.event}
  BY <1>1, EventsOfSingle
<1>4. EventsOf(s) = {h.event} \cup EventsOf(t)
  BY <1>1, <1>2, <1>3
<1> QED BY <1>4 DEF h, t

LEMMA EventsOfSubSeq ==
    ASSUME NEW s \in Seq(Message), NEW p \in 1 .. Len(s) + 1
    PROVE  EventsOf(SubSeq(s, p, Len(s))) = {s[i].event : i \in p .. Len(s)}
<1> DEFINE u == SubSeq(s, p, Len(s))
           n == Len(s)
<1>1. n \in Nat /\ p \in 1 .. n + 1
  OBVIOUS
<1>2. /\ u \in Seq(Message) /\ Len(u) = n - p + 1
      /\ \A i \in 1 .. (n - p + 1) : u[i] = s[p + i - 1]
  OBVIOUS
<1> HIDE DEF u, n
<1>3. {u[i].event : i \in 1 .. Len(u)} = {s[i].event : i \in p .. n}
  <2>1. ASSUME NEW i \in 1 .. Len(u)
        PROVE  u[i].event \in {s[j].event : j \in p .. n}
    <3>1. p + i - 1 \in p .. n /\ u[i] = s[p + i - 1]
      BY <1>1, <1>2
    <3> QED BY <3>1
  <2>2. ASSUME NEW j \in p .. n
        PROVE  s[j].event \in {u[i].event : i \in 1 .. Len(u)}
    <3>1. j - p + 1 \in 1 .. (n - p + 1) /\ p + (j - p + 1) - 1 = j
      BY <1>1
    <3>2. u[j - p + 1] = s[j]
      BY <1>2, <3>1
    <3> QED BY <1>2, <3>1, <3>2
  <2> QED BY <2>1, <2>2
<1> QED BY <1>2, <1>3, EventsOfIndices DEF u, n

-----------------------------------------------------------------------------
(* Types                                                                   *)

(* The broker's copies, and all copies.                                    *)
Elsewhere == EventsOf(queue) \cup EventsOf(waiting)

InFlight == Elsewhere \cup EventsOf(events)

(* The inductive form of TypeOK: a batch that is still being collected is  *)
(* not full, and only a published event is anywhere or has an outcome.     *)
TypeInv ==
    /\ TypeOK
    /\ pc = "consuming" => Len(events) < batch_size
    /\ pc = "returning" => events = <<>>
    /\ InFlight \subseteq published
    /\ \A e \in Events \ published : handled[e] = 0

(* What every way to end the process has in common.                        *)
ProcessEnds ==
    /\ Requeue /\ ConnectionEnds
    /\ UNCHANGED <<published, outcomeVars, batch_size>>
    /\ interruptions' \in {interruptions, interruptions + 1}
    /\ interruptions' <= MaxInterruptions

LEMMA Ends ==
    ASSUME TypeInv, Return \/ Signal \/ Kill
    PROVE  ProcessEnds
BY InterruptionsAssumption
   DEF TypeInv, TypeOK, Return, Signal, Kill, ProcessEnds, Nack, Interruption,
       vars, outcomeVars

LEMMA TypeInit ==
    ASSUME Init
    PROVE  TypeInv
<1>1. /\ <<>> \in Seq(Message) /\ Len(<<>>) = 0 /\ <<>> \o <<>> = <<>>
      /\ \A b \in BatchSizes : b \in Nat
  BY BatchAssumption
<1>2. TypeOK
  BY <1>1, InterruptionsAssumption DEF Init, TypeOK, Unacked
<1> QED BY <1>2, EventsOfEmpty DEF Init, TypeInv, InFlight, Elsewhere

LEMMA CurrentType ==
    ASSUME TypeInv, Handling
    PROVE  /\ position \in 1 .. Len(events) /\ Current = events[position]
           /\ Current \in Message /\ Current.event \in EventsOf(events)
<1>1. position \in 1 .. Len(events) /\ events \in Seq(Message)
  BY DEF TypeInv, TypeOK, Handling
<1>2. events[position] \in Message
  BY <1>1
<1> QED BY <1>1, <1>2, EventsOfIndices DEF Current

LEMMA RetriedType ==
    ASSUME NEW m \in Message, m.failed_tries + 1 <= MAX_REQUEST_RETRIES
    PROVE  Retried(m) \in Message /\ Retried(m).event = m.event
BY RetriesAssumption DEF Retried, Message

LEMMA RetryEffect ==
    ASSUME TypeInv, retry_event
    PROVE  /\ waiting' = waiting /\ events' = events /\ published' = published
           /\ \/ /\ queue' = queue
                 /\ given_up' = given_up \cup {Current.event}
              \/ /\ queue' = Append(queue, Retried(Current))
                 /\ Current.failed_tries + 1 <= MAX_REQUEST_RETRIES
                 /\ given_up' = given_up
<1>1. Current \in Message
  BY CurrentType DEF retry_event
<1>2. Current.failed_tries \in Int
  BY <1>1 DEF Message
<1>3. \/ Current.failed_tries + 1 > MAX_REQUEST_RETRIES
      \/ Current.failed_tries + 1 <= MAX_REQUEST_RETRIES
  BY <1>2, RetriesAssumption
<1>4. ~ (Current.failed_tries + 1 > MAX_REQUEST_RETRIES
            /\ Current.failed_tries + 1 <= MAX_REQUEST_RETRIES)
  BY <1>2, RetriesAssumption
<1> QED BY <1>3, <1>4 DEF retry_event

(* Where the messages go.                                                  *)
LEMMA FlightStep ==
    ASSUME TypeInv, Next
    PROVE  /\ queue' \in Seq(Message) /\ waiting' \in Seq(Message)
           /\ events' \in Seq(Message)
           /\ published' \in SUBSET Events /\ published \subseteq published'
           /\ InFlight' \subseteq published'
           /\ published' \subseteq published \cup InFlight'
           /\ ~ Acknowledge => InFlight \subseteq InFlight'
           /\ ~ Collect => Elsewhere \subseteq Elsewhere'
<1> USE DEF TypeInv, TypeOK, InFlight, Elsewhere
<1>1. CASE queue_json_publish
  <2>1. PICK e \in Events \ published :
              /\ published' = published \cup {e}
              /\ queue' = Append(queue, [event |-> e, failed_tries |-> 0])
              /\ waiting' = waiting /\ events' = events
    BY <1>1 DEF queue_json_publish, processVars
  <2> DEFINE m == [event |-> e, failed_tries |-> 0]
  <2>2. m \in Message /\ m.event = e
    BY RetriesAssumption DEF Message
  <2> HIDE DEF m
  <2>3. queue' = Append(queue, m)
    BY <2>1 DEF m
  <2>4. EventsOf(queue') = EventsOf(queue) \cup {e} /\ queue' \in Seq(Message)
    BY <2>2, <2>3, EventsOfAppend
  <2> QED BY <2>1, <2>4
<1>2. CASE Deliver
  <2>1. /\ queue # <<>> /\ waiting' = Append(waiting, Head(queue))
        /\ queue' = Tail(queue) /\ events' = events /\ published' = published
    BY <1>2 DEF Deliver, processVars
  <2>2. Head(queue) \in Message /\ Tail(queue) \in Seq(Message)
    BY <2>1, HeadTailProperties
  <2>3. EventsOf(queue) = {Head(queue).event} \cup EventsOf(queue')
    BY <2>1, EventsOfTail
  <2>4. EventsOf(waiting') = EventsOf(waiting) \cup {Head(queue).event}
    BY <2>1, <2>2, EventsOfAppend
  <2>5. waiting' \in Seq(Message)
    BY <2>1, <2>2
  <2> QED BY <2>1, <2>2, <2>3, <2>4, <2>5
<1>3. CASE Collect
  <2>1. /\ waiting # <<>> /\ events' = Append(events, Head(waiting))
        /\ waiting' = Tail(waiting) /\ queue' = queue /\ published' = published
    BY <1>3 DEF Collect
  <2>2. Head(waiting) \in Message /\ Tail(waiting) \in Seq(Message)
    BY <2>1, HeadTailProperties
  <2>3. EventsOf(waiting) = {Head(waiting).event} \cup EventsOf(waiting')
    BY <2>1, EventsOfTail
  <2>4. EventsOf(events') = EventsOf(events) \cup {Head(waiting).event}
    BY <2>1, <2>2, EventsOfAppend
  <2>5. events' \in Seq(Message)
    BY <2>1, <2>2
  <2> QED BY <1>3, <2>1, <2>2, <2>3, <2>4, <2>5
<1>4. CASE start \/ CollectTimesOut \/ Completes \/ _handle_consume_exception
           \/ InterruptConsume \/ SignalDiscarded
  BY <1>4 DEF start, CollectTimesOut, Completes, _handle_consume_exception,
              InterruptConsume, SignalDiscarded
<1>5. CASE Acknowledge
  <2>1. <<>> \in Seq(Message)
    OBVIOUS
  <2> QED BY <1>5, <2>1, EventsOfEmpty DEF Acknowledge, Collected, StillWaiting
<1>6. CASE retry_event
  <2>1. /\ waiting' = waiting /\ events' = events /\ published' = published
        /\ \/ queue' = queue
           \/ /\ queue' = Append(queue, Retried(Current))
              /\ Current.failed_tries + 1 <= MAX_REQUEST_RETRIES
    BY <1>6, RetryEffect
  <2>2. Current \in Message /\ Current.event \in EventsOf(events)
    BY <1>6, CurrentType DEF retry_event
  <2>3. CASE queue' = queue
    BY <2>1, <2>3
  <2>4. CASE queue' # queue
    <3>1. Retried(Current) \in Message /\ Retried(Current).event = Current.event
      BY <2>1, <2>2, <2>4, RetriedType
    <3>2. EventsOf(queue') = EventsOf(queue) \cup {Current.event}
      BY <2>1, <2>4, <3>1, EventsOfAppend
    <3>3. queue' \in Seq(Message)
      <4> DEFINE m == Retried(Current)
      <4>1. m \in Message /\ queue' = Append(queue, m)
        BY <2>1, <2>4, <3>1
      <4> HIDE DEF m
      <4> QED BY <4>1
    <3> QED BY <2>1, <2>2, <3>2, <3>3
  <2> QED BY <2>3, <2>4
<1>7. CASE Return \/ Signal \/ Kill
  <2>1. /\ queue' = (events \o waiting) \o queue /\ waiting' = <<>> /\ events' = <<>>
        /\ published' = published
    BY <1>7, Ends DEF ProcessEnds, Requeue, Unacked, ConnectionEnds
  <2>2. events \o waiting \in Seq(Message) /\ <<>> \in Seq(Message)
    OBVIOUS
  <2>3. EventsOf(queue') = (EventsOf(events) \cup EventsOf(waiting)) \cup EventsOf(queue)
    <3> DEFINE u == events \o waiting
    <3>1. u \in Seq(Message) /\ queue' = u \o queue
      BY <2>1, <2>2
    <3> HIDE DEF u
    <3>2. EventsOf(u \o queue) = EventsOf(u) \cup EventsOf(queue)
      BY <3>1, EventsOfConcat
    <3>3. EventsOf(events \o waiting) = EventsOf(events) \cup EventsOf(waiting)
      BY EventsOfConcat
    <3> QED BY <3>1, <3>2, <3>3 DEF u
  <2>4. queue' \in Seq(Message)
    BY <2>1, <2>2
  <2> QED BY <2>1, <2>2, <2>3, <2>4, EventsOfEmpty
<1> QED BY <1>1, <1>2, <1>3, <1>4, <1>5, <1>6, <1>7 DEF Next, Callback

LEMMA TypeStep ==
    ASSUME TypeInv, Next
    PROVE  TypeInv'
<1>1. /\ queue' \in Seq(Message) /\ waiting' \in Seq(Message)
      /\ events' \in Seq(Message)
      /\ published' \in SUBSET Events /\ published \subseteq published'
      /\ InFlight' \subseteq published'
  BY FlightStep
<1>2. batch_size' = batch_size /\ batch_size \in BatchSizes /\ batch_size \in Nat \ {0}
  BY BatchAssumption
     DEF TypeInv, TypeOK, Next, Callback, queue_json_publish, Deliver, start,
         Collect, CollectTimesOut, Completes, retry_event,
         _handle_consume_exception, InterruptConsume, Acknowledge, Return,
         Signal, SignalDiscarded, Kill, Interruption
<1>3. /\ Len(events) \in Nat /\ Len(events') \in Nat
      /\ Len(events) = 0 <=> events = <<>>
      /\ Len(events') = 0 <=> events' = <<>>
  BY <1>1, EmptySeq, LenProperties DEF TypeInv, TypeOK
<1>4. /\ pc' \in {"down", "consuming", "callback", "returning"}
      /\ Len(events') <= batch_size'
      /\ pc' = "callback" => events' # <<>> /\ position' \in 1 .. Len(events') + 1
      /\ pc' # "callback" => position' = 1
      /\ pc' = "consuming" => is_consuming' /\ Len(events') < batch_size'
      /\ pc' = "returning" => events' = <<>>
      /\ pc' = "down" => waiting' = <<>> /\ events' = <<>>
  <2> USE <1>2, <1>3 DEF TypeInv, TypeOK
  <2>0. events = <<>> /\ waiting = <<>> <=> Unacked = <<>>
    BY ConcatEqualIffEmpty DEF Unacked
  <2>1. CASE Collect
    <3>1. events' = Append(events, Head(waiting)) /\ pc = "consuming" /\ waiting # <<>>
      BY <2>1 DEF Collect
    <3>2. Head(waiting) \in Message
      BY <3>1, HeadTailProperties
    <3>3. Len(events') = Len(events) + 1
      BY <3>1, <3>2
    <3> QED BY <2>1, <3>1, <3>3 DEF Collect, Call
  <2>2. CASE queue_json_publish \/ Deliver
    <3>1. UNCHANGED processVars /\ (pc = "down" => waiting' = waiting)
      BY <2>2 DEF queue_json_publish, Deliver
    <3> QED BY <2>0, <3>1 DEF processVars
  <2>6. CASE start \/ CollectTimesOut
    BY <2>0, <2>6 DEF start, CollectTimesOut, Call
  <2>3. CASE Completes \/ retry_event \/ _handle_consume_exception
             \/ InterruptConsume \/ SignalDiscarded
    BY <2>3 DEF Completes, retry_event, _handle_consume_exception,
                InterruptConsume, SignalDiscarded, Handling, NextEvent
  <2>4. CASE Acknowledge
    BY <2>4 DEF Acknowledge, Collected
  <2>5. CASE Return \/ Signal \/ Kill
    <3>1. pc' = "down" /\ events' = <<>> /\ position' = 1 /\ waiting' = <<>>
      BY <2>5, Ends DEF ProcessEnds, ConnectionEnds
    <3>2. Len(events') = 0
      BY <3>1
    <3> QED BY <3>1, <3>2
  <2> QED BY <2>1, <2>2, <2>3, <2>4, <2>5, <2>6 DEF Next, Callback
<1>5. /\ handled' \in [Events -> Nat]
      /\ \A e \in Events \ published' : handled'[e] = 0
  <2>1. CASE Completes
    <3>1. Current.event \in published /\ published' = published
      BY <2>1, CurrentType DEF Completes, TypeInv, InFlight, Elsewhere
    <3> QED BY <2>1, <3>1 DEF Completes, TypeInv, TypeOK
  <2>2. CASE handled' = handled
    BY <1>1, <2>2 DEF TypeInv, TypeOK
  <2>3. Completes \/ handled' = handled
    BY Ends
       DEF Next, Callback, queue_json_publish, Deliver, start, Collect,
           CollectTimesOut, retry_event, _handle_consume_exception,
           InterruptConsume, Acknowledge, SignalDiscarded, ProcessEnds,
           outcomeVars
  <2> QED BY <2>1, <2>2, <2>3
<1>6. errors' \cup given_up' \cup skipped' \cup lost' \subseteq published'
  <2>1. CASE Completes \/ retry_event \/ _handle_consume_exception \/ InterruptConsume
    <3>1. Current.event \in published /\ published' = published
      BY <2>1, CurrentType
         DEF Completes, retry_event, _handle_consume_exception, InterruptConsume,
             TypeInv, InFlight, Elsewhere
    <3> QED BY <2>1, <3>1, RetryEffect
            DEF Completes, retry_event, _handle_consume_exception,
                InterruptConsume, TypeInv, TypeOK, InFlight, Elsewhere
  <2>2. CASE SignalDiscarded
    <3>1. /\ position \in 1 .. Len(events) + 1 /\ events \in Seq(Message)
          /\ published' = published
      BY <2>2 DEF SignalDiscarded, TypeInv, TypeOK
    <3>2. EventsOf(SubSeq(events, position, Len(events))) \subseteq EventsOf(events)
      BY <3>1, EventsOfSubSeq, EventsOfIndices
    <3> QED BY <2>2, <3>1, <3>2 DEF SignalDiscarded, TypeInv, TypeOK, InFlight, Elsewhere
  <2>3. CASE queue_json_publish \/ Deliver \/ start \/ Collect \/ CollectTimesOut
             \/ Acknowledge
    BY <1>1, <2>3 DEF queue_json_publish, Deliver, start, Collect, CollectTimesOut,
                      Acknowledge, outcomeVars, TypeInv, TypeOK
  <2>4. CASE Return \/ Signal \/ Kill
    BY <2>4, Ends DEF ProcessEnds, outcomeVars, TypeInv, TypeOK
  <2> QED BY <2>1, <2>2, <2>3, <2>4 DEF Next, Callback
<1>7. interruptions' \in 0 .. MaxInterruptions
  <2>1. CASE Return \/ Signal \/ Kill
    BY <2>1, Ends, InterruptionsAssumption DEF ProcessEnds, TypeInv, TypeOK
  <2>2. CASE SignalDiscarded
    BY <2>2, InterruptionsAssumption
       DEF SignalDiscarded, Interruption, TypeInv, TypeOK
  <2>3. CASE interruptions' = interruptions
    BY <2>3 DEF TypeInv, TypeOK
  <2>4. Return \/ Signal \/ Kill \/ SignalDiscarded \/ interruptions' = interruptions
    BY DEF Next, Callback, queue_json_publish, Deliver, start, Collect,
           CollectTimesOut, Completes, retry_event, _handle_consume_exception,
           InterruptConsume, Acknowledge
  <2> QED BY <2>1, <2>2, <2>3, <2>4
<1>8. pc' = "down" => Unacked' = <<>>
  <2>1. <<>> \o <<>> = <<>>
    OBVIOUS
  <2> QED BY <1>4, <2>1 DEF Unacked
<1>9. TypeOK'
  BY <1>1, <1>2, <1>4, <1>5, <1>6, <1>7, <1>8 DEF TypeOK
<1> QED BY <1>1, <1>2, <1>4, <1>5, <1>9 DEF TypeInv

-----------------------------------------------------------------------------
(* Nothing is lost                                                         *)

(* What the callback has passed is settled, or has gone back to the queue. *)
(* The ack takes the whole batch, so this is what it rests on.             *)
PastSettled ==
    pc = "callback" =>
        \A j \in 1 .. Len(events) :
            j < position =>
                Settled(events[j].event) \/ events[j].event \in lost \cup Elsewhere

AccountInv == TypeInv /\ PastSettled /\ Accounted

LEMMA EventsOfAll ==
    ASSUME NEW q \in Seq(Message), NEW v \in Seq(Message), NEW w \in Seq(Message)
    PROVE  EventsOf(q \o (v \o w)) = EventsOf(q) \cup EventsOf(w) \cup EventsOf(v)
<1>1. v \o w \in Seq(Message)
  OBVIOUS
<1>2. EventsOf(q \o (v \o w)) = EventsOf(q) \cup EventsOf(v \o w)
  BY <1>1, EventsOfConcat
<1> QED BY <1>2, EventsOfConcat

(* What is settled stays settled.                                          *)
LEMMA SettledStays ==
    ASSUME TypeInv, Next, NEW e \in Events
    PROVE  (Settled(e) => Settled(e)') /\ lost \subseteq lost'
<1>1. errors \subseteq errors' /\ given_up \subseteq given_up' /\ skipped \subseteq skipped'
      /\ lost \subseteq lost' /\ handled'[e] >= handled[e] /\ handled[e] \in Nat
      /\ handled'[e] \in Nat
  <2>1. CASE Completes
    BY <2>1 DEF Completes, TypeInv, TypeOK
  <2>2. CASE retry_event
    BY <2>2, RetryEffect DEF retry_event, TypeInv, TypeOK
  <2>3. CASE _handle_consume_exception \/ InterruptConsume \/ SignalDiscarded
    BY <2>3 DEF _handle_consume_exception, InterruptConsume, SignalDiscarded,
                TypeInv, TypeOK
  <2>4. CASE UNCHANGED outcomeVars
    BY <2>4 DEF outcomeVars, TypeInv, TypeOK
  <2>5. \/ Completes \/ retry_event \/ _handle_consume_exception
        \/ InterruptConsume \/ SignalDiscarded \/ UNCHANGED outcomeVars
    BY Ends DEF Next, Callback, queue_json_publish, Deliver, start, Collect,
                CollectTimesOut, Acknowledge, ProcessEnds
  <2> QED BY <2>1, <2>2, <2>3, <2>4, <2>5
<1> QED BY <1>1 DEF Settled

LEMMA PastSettledStep ==
    ASSUME TypeInv, PastSettled, Next
    PROVE  PastSettled'
<1>1. SUFFICES ASSUME pc' = "callback", NEW j \in 1 .. Len(events'), j < position'
               PROVE  \/ Settled(events[j].event)'
                      \/ events'[j].event \in lost' \cup Elsewhere'
  BY DEF PastSettled
<1>2. /\ \/ Completes \/ retry_event \/ _handle_consume_exception
         \/ InterruptConsume \/ SignalDiscarded \/ UNCHANGED processVars
      /\ events' = events /\ pc = "callback" /\ ~ Collect
  <2>1. j >= 1 /\ ~ (position' = 1)
    BY <1>1
  <2>2. ~ Return /\ ~ Signal /\ ~ Kill
    BY <1>1, Ends DEF ProcessEnds, ConnectionEnds
  <2>3. ~ Collect /\ ~ CollectTimesOut /\ ~ start /\ ~ Acknowledge
    BY <1>1, <2>1 DEF Collect, CollectTimesOut, start, Acknowledge, Call
  <2>4. CASE queue_json_publish \/ Deliver
    BY <1>1, <2>3, <2>4 DEF queue_json_publish, Deliver, processVars
  <2>5. CASE \/ Completes \/ retry_event \/ _handle_consume_exception
             \/ InterruptConsume \/ SignalDiscarded
    BY <2>3, <2>5 DEF Completes, retry_event, _handle_consume_exception,
                      InterruptConsume, SignalDiscarded, Handling
  <2> QED BY <2>2, <2>3, <2>4, <2>5 DEF Next, Callback
<1>3. j \in 1 .. Len(events) /\ events \in Seq(Message) /\ events[j] \in Message
  BY <1>1, <1>2 DEF TypeInv, TypeOK
<1>4. PICK d \in Events : d = events[j].event
  BY <1>3 DEF Message
<1>5. SUFFICES Settled(d)' \/ d \in lost' \cup Elsewhere'
  BY <1>2, <1>4 DEF Settled
<1>6. d \in EventsOf(events)
  BY <1>3, <1>4, EventsOfIndices
<1>7. (Settled(d) => Settled(d)') /\ lost \subseteq lost' /\ Elsewhere \subseteq Elsewhere'
  BY <1>2, SettledStays, FlightStep
<1>8. CASE j < position
  BY <1>2, <1>3, <1>4, <1>7, <1>8 DEF PastSettled
<1>9. CASE ~ (j < position)
  <2>1. CASE Completes
    <3>1. position' = position + 1 /\ position \in 1 .. Len(events) /\ Current = events[position]
      BY <2>1, CurrentType DEF Completes, NextEvent
    <3>2. Current.event = d
      BY <1>1, <1>3, <1>4, <1>9, <3>1
    <3>3. handled'[d] = handled[d] + 1 /\ handled[d] \in Nat
      BY <2>1, <3>2 DEF Completes, TypeInv, TypeOK
    <3>4. handled'[d] > 0
      BY <3>3
    <3> QED BY <3>4 DEF Settled
  <2>2. CASE retry_event
    <3>1. position' = position + 1 /\ position \in 1 .. Len(events) /\ Current = events[position]
      BY <2>2, CurrentType DEF retry_event, NextEvent
    <3>2. Current.event = d /\ Current \in Message
      BY <1>1, <1>3, <1>4, <1>9, <3>1
    <3>3. CASE given_up' = given_up \cup {Current.event}
      BY <3>2, <3>3 DEF Settled
    <3>4. CASE /\ queue' = Append(queue, Retried(Current))
               /\ Current.failed_tries + 1 <= MAX_REQUEST_RETRIES
      <4>1. Retried(Current) \in Message /\ Retried(Current).event = d
        BY <3>2, <3>4, RetriedType
      <4>2. EventsOf(queue') = EventsOf(queue) \cup {d}
        BY <3>4, <4>1, EventsOfAppend DEF TypeInv, TypeOK
      <4> QED BY <4>2 DEF Elsewhere
    <3> QED BY <2>2, <3>3, <3>4, RetryEffect
  <2>3. CASE _handle_consume_exception
    BY <1>6, <2>3 DEF _handle_consume_exception, Settled
  <2>4. CASE InterruptConsume
    <3>1. position' = position + 1 /\ position \in 1 .. Len(events) /\ Current = events[position]
      BY <2>4, CurrentType DEF InterruptConsume, NextEvent
    <3>2. Current.event = d
      BY <1>1, <1>3, <1>4, <1>9, <3>1
    <3> QED BY <2>4, <3>2 DEF InterruptConsume, Settled
  <2>5. CASE SignalDiscarded
    <3>1. position \in 1 .. Len(events) + 1 /\ j \in position .. Len(events)
      BY <1>3, <1>9, <2>5 DEF SignalDiscarded, TypeInv, TypeOK
    <3>2. d \in EventsOf(SubSeq(events, position, Len(events)))
      BY <1>3, <1>4, <3>1, EventsOfSubSeq
    <3> QED BY <2>5, <3>2 DEF SignalDiscarded
  <2>6. CASE UNCHANGED processVars
    BY <1>1, <1>9, <2>6 DEF processVars
  <2> QED BY <1>2, <2>1, <2>2, <2>3, <2>4, <2>5, <2>6
<1> QED BY <1>8, <1>9

LEMMA AccountStep ==
    ASSUME AccountInv, Next
    PROVE  AccountInv'
<1>1. TypeInv' /\ PastSettled'
  BY TypeStep, PastSettledStep DEF AccountInv
<1>2. EventsOf(queue \o Unacked)' = InFlight'
  BY FlightStep, EventsOfAll DEF AccountInv, Unacked, InFlight, Elsewhere
<1>3. EventsOf(queue \o Unacked) = InFlight
  BY EventsOfAll DEF AccountInv, TypeInv, TypeOK, Unacked, InFlight, Elsewhere
<1>4. SUFFICES ASSUME NEW e \in published'
               PROVE  Settled(e)' \/ e \in InFlight' \/ e \in lost'
  BY <1>1, <1>2 DEF AccountInv, Accounted
<1>5. e \in Events /\ (e \in published \/ e \in InFlight')
  BY FlightStep DEF AccountInv
<1>6. (Settled(e) => Settled(e)') /\ lost \subseteq lost'
  BY <1>5, SettledStays DEF AccountInv
<1>7. ASSUME e \in published
      PROVE  Settled(e) \/ e \in InFlight \/ e \in lost
  BY <1>3, <1>7 DEF AccountInv, Accounted
<1>8. CASE Acknowledge
  <2>1. /\ pc = "callback" /\ position > Len(events) /\ position \in Nat
        /\ events \in Seq(Message) /\ ~ Collect
    BY <1>8 DEF Acknowledge, Collect, AccountInv, TypeInv, TypeOK
  <2>2. Elsewhere \subseteq InFlight'
    BY <2>1, FlightStep DEF AccountInv, InFlight
  <2>3. ASSUME e \in EventsOf(events)
        PROVE  Settled(e) \/ e \in lost \cup Elsewhere
    <3>1. PICK j \in 1 .. Len(events) : e = events[j].event
      BY <2>1, <2>3, EventsOfIndices
    <3>2. j < position
      BY <2>1
    <3> QED BY <2>1, <3>1, <3>2 DEF AccountInv, PastSettled
  <2> QED BY <1>5, <1>6, <1>7, <2>2, <2>3 DEF InFlight
<1>9. CASE ~ Acknowledge
  BY <1>5, <1>6, <1>7, <1>9, FlightStep DEF AccountInv
<1> QED BY <1>8, <1>9

-----------------------------------------------------------------------------
(* Nothing is multiplied                                                   *)

(* An interruption puts the whole batch back, the part that was handled    *)
(* along: the batch itself must stay within the bound that is doubled.     *)
BoundInv ==
    /\ TypeInv
    /\ \A e \in Events :
          /\ handled[e] + Owed(e) <= 2 ^ interruptions
          /\ Left(events, 1, e) <= 2 ^ interruptions

LEMMA NotThereNoneLeft ==
    ASSUME NEW s \in Seq(Message), NEW e, e \notin EventsOf(s), NEW p \in Nat \ {0}
    PROVE  Left(s, p, e) = 0
<1>1. {i \in p .. Len(s) : s[i].event = e} = {}
  <2>1. ASSUME NEW i \in p .. Len(s) PROVE s[i].event # e
    BY EventsOfIndices
  <2> QED BY <2>1
<1> QED BY <1>1, FS_EmptySet DEF Left

LEMMA OccurrencesType ==
    ASSUME NEW s \in Seq(Message), NEW e
    PROVE  Occurrences(s, e) \in Nat
<1>1. Left(s, 1, e) \in Nat
  BY LeftType, 1 \in Nat
<1> QED BY <1>1, OccurrencesAreLeft

LEMMA OwedIs ==
    ASSUME NEW e
    PROVE  /\ Owed(e) = Occurrences(queue, e) + Occurrences(waiting, e)
                           + Left(events, position, e)
           /\ Owed(e)' = Occurrences(queue', e) + Occurrences(waiting', e)
                           + Left(events', position', e)
BY DEF Owed, Occurrences, Left

LEMMA BoundStep ==
    ASSUME BoundInv, Next, NEW e \in Events
    PROVE  /\ handled'[e] + Owed(e)' <= 2 ^ interruptions'
           /\ Left(events', 1, e) <= 2 ^ interruptions'
<1> DEFINE h == handled[e]
           q == Occurrences(queue, e)
           w == Occurrences(waiting, e)
           l == Left(events, position, e)
           n == Left(events, 1, e)
           P == 2 ^ interruptions
           q1 == Occurrences(queue', e)
           w1 == Occurrences(waiting', e)
           l1 == Left(events', position', e)
           n1 == Left(events', 1, e)
<1>1. /\ queue \in Seq(Message) /\ waiting \in Seq(Message) /\ events \in Seq(Message)
      /\ position \in Nat \ {0} /\ interruptions \in Nat /\ interruptions' \in Nat
      /\ position' \in Nat \ {0}
      /\ queue' \in Seq(Message) /\ waiting' \in Seq(Message)
      /\ events' \in Seq(Message)
      /\ pc # "callback" => position = 1
  <2>1. position \in Nat \ {0} /\ interruptions \in Nat
    BY InterruptionsAssumption DEF BoundInv, TypeInv, TypeOK
  <2>2. TypeInv'
    BY TypeStep DEF BoundInv
  <2>3. position' \in Nat \ {0} /\ interruptions' \in Nat
    BY <2>2, InterruptionsAssumption DEF TypeInv, TypeOK
  <2> QED BY <2>1, <2>3, FlightStep DEF BoundInv, TypeInv, TypeOK
<1>2. /\ h \in Nat /\ q \in Nat /\ w \in Nat /\ l \in Nat /\ n \in Nat
      /\ q1 \in Nat /\ w1 \in Nat /\ l1 \in Nat /\ n1 \in Nat
      /\ P \in Nat \ {0} /\ 2 ^ (interruptions + 1) = P + P
  <2>1. h \in Nat
    BY DEF BoundInv, TypeInv, TypeOK
  <2> QED BY <1>1, <2>1, LeftType, OccurrencesType, PowerType, PowerDoubles
<1>3. /\ h + (q + w + l) <= P /\ n <= P
      /\ Owed(e)' = q1 + w1 + l1
  BY OwedIs DEF BoundInv
<1>4. SUFFICES handled'[e] + (q1 + w1 + l1) <= 2 ^ interruptions' /\ n1 <= 2 ^ interruptions'
  BY <1>3
<1>5. \A m \in Message : Hit(m, e) \in {0, 1}
  BY DEF Hit
<1>6. CASE queue_json_publish
  <2>1. PICK x \in Events \ published :
              /\ queue' = Append(queue, [event |-> x, failed_tries |-> 0])
              /\ waiting' = waiting /\ events' = events /\ position' = position
              /\ handled' = handled /\ interruptions' = interruptions
    BY <1>6 DEF queue_json_publish, processVars, outcomeVars
  <2> DEFINE m == [event |-> x, failed_tries |-> 0]
  <2>2. m \in Message /\ m.event = x
    BY RetriesAssumption DEF Message
  <2> HIDE DEF m
  <2>3. q1 = q + Hit(m, e) /\ w1 = w /\ l1 = l /\ n1 = n
    BY <1>1, <2>1, <2>2, OccurrencesAppend DEF m
  <2>4. CASE e = x
    <3>1. /\ e \notin EventsOf(queue) /\ e \notin EventsOf(waiting)
          /\ e \notin EventsOf(events) /\ h = 0
      BY <2>4 DEF BoundInv, TypeInv, InFlight, Elsewhere
    <3>2. l = 0 /\ q = 0 /\ w = 0
      BY <1>1, <3>1, NotThereNoneLeft, OccurrencesAreLeft
    <3> HIDE DEF h, q, w, l, n, P, q1, w1, l1, n1
    <3> QED BY <1>2, <1>3, <1>5, <2>1, <2>2, <2>3, <3>1, <3>2 DEF h, P
  <2>5. CASE e # x
    <3>1. Hit(m, e) = 0
      BY <2>2, <2>5 DEF Hit
    <3> HIDE DEF q, w, l, n, q1, w1, l1, n1
    <3> QED BY <1>2, <1>3, <2>1, <2>3, <3>1
  <2> QED BY <2>4, <2>5
<1>7. CASE Deliver
  <2>1. /\ queue # <<>> /\ waiting' = Append(waiting, Head(queue))
        /\ queue' = Tail(queue) /\ events' = events /\ position' = position
        /\ handled' = handled /\ interruptions' = interruptions
    BY <1>7 DEF Deliver, processVars, outcomeVars
  <2>2. Head(queue) \in Message
    BY <1>1, <2>1, HeadTailProperties
  <2>3. q = q1 + Hit(Head(queue), e) /\ w1 = w + Hit(Head(queue), e)
    BY <1>1, <2>1, <2>2, OccurrencesTail, OccurrencesAppend
  <2>4. l1 = l /\ n1 = n /\ Hit(Head(queue), e) \in {0, 1}
    BY <1>5, <2>1, <2>2
  <2>5. 2 ^ interruptions' = P /\ handled'[e] = h
    BY <2>1
  <2> HIDE DEF h, q, w, l, n, P, q1, w1, l1, n1
  <2> QED BY <1>2, <1>3, <2>3, <2>4, <2>5
<1>8. CASE Collect
  <2>1. /\ waiting # <<>> /\ events' = Append(events, Head(waiting))
        /\ waiting' = Tail(waiting) /\ queue' = queue
        /\ position = 1 /\ position' = 1
        /\ handled' = handled /\ interruptions' = interruptions
    BY <1>1, <1>8 DEF Collect, Call, outcomeVars
  <2>2. Head(waiting) \in Message
    BY <1>1, <2>1, HeadTailProperties
  <2>3. w = w1 + Hit(Head(waiting), e)
    BY <1>1, <2>1, OccurrencesTail
  <2>4. n1 = n + Hit(Head(waiting), e)
    <3> DEFINE m == Head(waiting)
    <3>1. m \in Message /\ events' = Append(events, m)
      BY <2>1, <2>2
    <3> HIDE DEF m
    <3>2. Occurrences(events', e) = Occurrences(events, e) + Hit(m, e)
      BY <1>1, <3>1, OccurrencesAppend
    <3>3. n1 = Occurrences(events', e) /\ n = Occurrences(events, e)
      BY <1>1, OccurrencesAreLeft
    <3> QED BY <3>2, <3>3 DEF m
  <2>5. l1 = n1 /\ l = n /\ q1 = q /\ Hit(Head(waiting), e) \in {0, 1}
    BY <1>5, <2>1, <2>2
  <2>6. 2 ^ interruptions' = P /\ handled'[e] = h
    BY <2>1
  <2> HIDE DEF h, q, w, l, n, P, q1, w1, l1, n1
  <2> QED BY <1>2, <1>3, <2>3, <2>4, <2>5, <2>6
<1>9. CASE start \/ CollectTimesOut
  <2>1. /\ queue' = queue /\ waiting' = waiting /\ events' = events
        /\ position' = position /\ handled' = handled /\ interruptions' = interruptions
    BY <1>1, <1>9 DEF start, CollectTimesOut, Call, outcomeVars
  <2> QED BY <1>3, <2>1
<1>10. CASE Completes
  <2>1. /\ queue' = queue /\ waiting' = waiting /\ events' = events
        /\ position' = position + 1 /\ interruptions' = interruptions
        /\ handled' = [handled EXCEPT ![Current.event] = @ + 1]
        /\ position \in 1 .. Len(events) /\ Current = events[position]
        /\ Current \in Message
    BY <1>10, CurrentType DEF Completes, NextEvent, BoundInv
  <2>2. l = l1 + Hit(Current, e)
    BY <1>1, <2>1, LeftSteps
  <2>3. handled'[e] = h + Hit(Current, e)
    BY <2>1 DEF Hit, BoundInv, TypeInv, TypeOK
  <2>4. q1 = q /\ w1 = w /\ n1 = n /\ Hit(Current, e) \in {0, 1}
    BY <1>5, <2>1
  <2>5. 2 ^ interruptions' = P
    BY <2>1
  <2> HIDE DEF h, q, w, l, n, P, q1, w1, l1, n1
  <2> QED BY <1>2, <1>3, <2>2, <2>3, <2>4, <2>5
<1>11. CASE retry_event
  <2>1. /\ position' = position + 1 /\ handled' = handled
        /\ interruptions' = interruptions
        /\ position \in 1 .. Len(events) /\ Current = events[position]
        /\ Current \in Message /\ waiting' = waiting /\ events' = events
    BY <1>11, CurrentType, RetryEffect DEF retry_event, NextEvent, BoundInv
  <2>2. l = l1 + Hit(Current, e)
    BY <1>1, <2>1, LeftSteps
  <2>3. w1 = w /\ n1 = n /\ Hit(Current, e) \in {0, 1}
    BY <1>5, <2>1
  <2>4. q1 \in {q, q + Hit(Current, e)}
    <3>1. CASE queue' = queue
      BY <3>1
    <3>2. CASE /\ queue' = Append(queue, Retried(Current))
               /\ Current.failed_tries + 1 <= MAX_REQUEST_RETRIES
      <4> DEFINE m == Retried(Current)
      <4>1. m \in Message /\ Hit(m, e) = Hit(Current, e) /\ queue' = Append(queue, m)
        BY <2>1, <3>2, RetriedType DEF Hit
      <4> HIDE DEF m
      <4> QED BY <1>1, <4>1, OccurrencesAppend
    <3> QED BY <1>11, <3>1, <3>2, RetryEffect DEF BoundInv
  <2>5. 2 ^ interruptions' = P /\ handled'[e] = h
    BY <2>1
  <2> HIDE DEF h, q, w, l, n, P, q1, w1, l1, n1
  <2> QED BY <1>2, <1>3, <2>2, <2>3, <2>4, <2>5
<1>12. CASE InterruptConsume
  <2>1. /\ queue' = queue /\ waiting' = waiting /\ events' = events
        /\ position' = position + 1 /\ interruptions' = interruptions
        /\ handled' = handled
        /\ position \in 1 .. Len(events) /\ Current = events[position]
        /\ Current \in Message
    BY <1>12, CurrentType DEF InterruptConsume, NextEvent, BoundInv
  <2>2. l = l1 + Hit(Current, e)
    BY <1>1, <2>1, LeftSteps
  <2>3. q1 = q /\ w1 = w /\ n1 = n /\ Hit(Current, e) \in {0, 1}
    BY <1>5, <2>1
  <2>4. 2 ^ interruptions' = P /\ handled'[e] = h
    BY <2>1
  <2> HIDE DEF h, q, w, l, n, P, q1, w1, l1, n1
  <2> QED BY <1>2, <1>3, <2>2, <2>3, <2>4
<1>13. CASE _handle_consume_exception \/ SignalDiscarded
  <2>1. /\ queue' = queue /\ waiting' = waiting /\ events' = events
        /\ position' = Len(events) + 1 /\ handled' = handled
        /\ interruptions' \in {interruptions, interruptions + 1}
    BY <1>13 DEF _handle_consume_exception, SignalDiscarded, Interruption
  <2>2. Len(events) \in Nat /\ position' > Len(events)
    BY <1>1, <2>1, LenProperties
  <2>3. l1 = 0
    BY <1>1, <2>1, <2>2, NoneLeft
  <2>4. q1 = q /\ w1 = w /\ n1 = n
    BY <2>1
  <2>5. 2 ^ interruptions' \in {P, P + P} /\ handled'[e] = h
    BY <1>2, <2>1
  <2> HIDE DEF h, q, w, l, n, q1, w1, l1, n1, P
  <2> QED BY <1>2, <1>3, <2>3, <2>4, <2>5
<1>14. CASE Acknowledge
  <2>1. /\ queue' = queue /\ waiting' = waiting /\ events' = <<>>
        /\ position' = 1 /\ handled' = handled /\ interruptions' = interruptions
    BY <1>14 DEF Acknowledge, Collected, StillWaiting, outcomeVars
  <2>2. l1 = 0 /\ n1 = 0
    BY <2>1, OccurrencesEmpty, OccurrencesAreLeft, EmptySeq
  <2>3. q1 = q /\ w1 = w /\ 2 ^ interruptions' = P /\ handled'[e] = h
    BY <2>1
  <2> HIDE DEF h, q, w, l, n, P, q1, w1, l1, n1
  <2> QED BY <1>2, <1>3, <2>2, <2>3
<1>15. CASE Return \/ Signal \/ Kill
  <2>1. /\ queue' = (events \o waiting) \o queue
        /\ waiting' = <<>> /\ events' = <<>> /\ position' = 1 /\ handled' = handled
    BY <1>15, Ends DEF BoundInv, ProcessEnds, ConnectionEnds, Requeue, Unacked, outcomeVars
  <2>2. \/ interruptions' = interruptions + 1
        \/ interruptions' = interruptions /\ events = <<>>
    BY <1>15 DEF Return, Signal, Kill, Interruption, BoundInv, TypeInv
  <2>3. <<>> \in Seq(Message) /\ events \o waiting \in Seq(Message)
    BY <1>1
  <2>4. l1 = 0 /\ n1 = 0 /\ w1 = 0
    BY <2>1, <2>3, OccurrencesEmpty, OccurrencesAreLeft
  <2>5. q1 = Occurrences(events \o waiting, e) + q
    <3> DEFINE u == events \o waiting
    <3>1. u \in Seq(Message) /\ queue' = u \o queue
      BY <2>1, <2>3
    <3> HIDE DEF u
    <3>2. Occurrences(u \o queue, e) = Occurrences(u, e) + Occurrences(queue, e)
      BY <1>1, <3>1, OccurrencesConcat
    <3> QED BY <3>1, <3>2 DEF u
  <2>6. Occurrences(events \o waiting, e) = n + w
    BY <1>1, OccurrencesConcat, OccurrencesAreLeft
  <2>7. events = <<>> => n = 0
    BY <1>1, OccurrencesEmpty, OccurrencesAreLeft
  <2>8. \/ 2 ^ interruptions' = P + P
        \/ 2 ^ interruptions' = P /\ n = 0
    BY <1>2, <2>2, <2>7
  <2>9. handled'[e] = h
    BY <2>1
  <2> HIDE DEF h, q, w, l, n, q1, w1, l1, n1, P
  <2> QED BY <1>2, <1>3, <2>4, <2>5, <2>6, <2>8, <2>9
<1> QED BY <1>6, <1>7, <1>8, <1>9, <1>10, <1>11, <1>12, <1>13, <1>14, <1>15
        DEF Next, Callback

-----------------------------------------------------------------------------
(* The process of a queue is always in one of the states of its loop, with *)
(* a batch no larger than its batch_size and a position within it.         *)
THEOREM TypeCorrect == Spec => []TypeOK
<1>1. Init => TypeInv
  BY TypeInit
<1>2. TypeInv /\ [Next]_vars => TypeInv'
  <2>1. TypeInv /\ Next => TypeInv'
    BY TypeStep
  <2>2. TypeInv /\ UNCHANGED vars => TypeInv'
    BY DEF TypeInv, TypeOK, InFlight, Elsewhere, Unacked, vars, processVars, outcomeVars
  <2> QED BY <2>1, <2>2
<1>3. TypeInv => TypeOK
  BY DEF TypeInv
<1> QED BY <1>1, <1>2, <1>3, PTL DEF Spec

(* No event falls between the ack, the retry, the errors file and the      *)
(* queue, however many events there are, whatever the size of the batches  *)
(* and however often the process is stopped: only an event whose handling  *)
(* a discarded SystemExit cut short is missing.                            *)
THEOREM NothingFallsBetween == Spec => []Accounted
<1>1. Init => AccountInv
  <2>1. Init => PastSettled /\ Accounted
    BY DEF Init, PastSettled, Accounted
  <2> QED BY <2>1, TypeInit DEF AccountInv
<1>2. AccountInv /\ [Next]_vars => AccountInv'
  <2>1. AccountInv /\ Next => AccountInv'
    BY AccountStep
  <2>2. AccountInv /\ UNCHANGED vars => AccountInv'
    BY DEF AccountInv, TypeInv, TypeOK, PastSettled, Accounted, Settled, InFlight,
           Elsewhere, Unacked, vars, processVars, outcomeVars
  <2> QED BY <2>1, <2>2
<1>3. AccountInv => Accounted
  BY DEF AccountInv
<1> QED BY <1>1, <1>2, <1>3, PTL DEF Spec

(* retry_event and the errors file never multiply an event: it is handled  *)
(* more than once only after an interruption, and n interruptions leave no *)
(* more than 2^n copies, handled or still owed.                            *)
THEOREM OnlyInterruptionsRepeat == Spec => []RepeatsAreInterruptions
<1>1. Init => BoundInv
  <2>1. ASSUME Init, NEW e \in Events
        PROVE  handled[e] + Owed(e) <= 2 ^ interruptions /\ Left(events, 1, e) <= 2 ^ interruptions
    <3>1. /\ queue = <<>> /\ waiting = <<>> /\ events = <<>> /\ position = 1
          /\ handled[e] = 0 /\ interruptions = 0
      BY <2>1 DEF Init
    <3>2. <<>> \in Seq(Message) /\ Occurrences(<<>>, e) = 0
      BY OccurrencesEmpty
    <3>3. Left(<<>>, 1, e) = 0
      BY <3>2, OccurrencesAreLeft
    <3>4. Owed(e) = 0
      BY <3>1, <3>2, <3>3, OwedIs
    <3> QED BY <3>1, <3>3, <3>4, PowerOfZero
  <2> QED BY <2>1, TypeInit DEF BoundInv
<1>2. BoundInv /\ [Next]_vars => BoundInv'
  <2>1. ASSUME BoundInv, Next PROVE BoundInv'
    <3>1. TypeInv'
      BY <2>1, TypeStep DEF BoundInv
    <3>2. \A e \in Events :
              /\ handled'[e] + Owed(e)' <= 2 ^ interruptions'
              /\ Left(events', 1, e) <= 2 ^ interruptions'
      BY <2>1, BoundStep
    <3> QED BY <3>1, <3>2 DEF BoundInv, Left
  <2>2. ASSUME BoundInv, UNCHANGED vars PROVE BoundInv'
    <3>1. TypeInv'
      BY <2>2 DEF BoundInv, TypeInv, TypeOK, InFlight, Elsewhere, Unacked, vars,
                  processVars, outcomeVars
    <3>2. /\ queue' = queue /\ waiting' = waiting /\ events' = events
          /\ position' = position /\ handled' = handled
          /\ interruptions' = interruptions
      BY <2>2 DEF vars, processVars, outcomeVars
    <3>3. ASSUME NEW e \in Events
          PROVE  /\ handled'[e] + Owed(e)' <= 2 ^ interruptions'
                 /\ Left(events', 1, e) <= 2 ^ interruptions'
      <4>1. Owed(e)' = Owed(e)
        BY <3>2, OwedIs
      <4> QED BY <2>2, <3>2, <4>1 DEF BoundInv
    <3> QED BY <3>1, <3>3 DEF BoundInv, Left
  <2> QED BY <2>1, <2>2
<1>3. BoundInv => RepeatsAreInterruptions
  BY DEF BoundInv, RepeatsAreInterruptions
<1> QED BY <1>1, <1>2, <1>3, PTL DEF Spec

=============================================================================
