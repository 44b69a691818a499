--------------------------- MODULE TornadoQueueProofs ---------------------------
(***************************************************************************)
(* Theorems about TornadoQueue, for every number of queues, consumers,     *)
(* bodies and failures: TypeCorrect, AssertionsNeverFail, NeverGoesDeaf    *)
(* and OnlyDeferredRepeated.                                               *)
(*                                                                         *)
(* What is under way is a pair of sequences whose heads move from one to   *)
(* the other and on to the broker.  The properties only depend on how many *)
(* copies of a command they hold, so the lemmas say what each movement     *)
(* does to that number.                                                    *)
(***************************************************************************)
EXTENDS TornadoQueue, FiniteSetTheorems, FunctionTheorems, SequenceTheorems,
        TLAPS

-----------------------------------------------------------------------------
(* Counting the copies of a command in a sequence                          *)

Copies(seq, c) == Cardinality({i \in 1 .. Len(seq) : seq[i] = c})

Hit(m, c) == IF m = c THEN 1 ELSE 0

LEMMA CopiesType ==
    ASSUME NEW S, NEW seq \in Seq(S), NEW c
    PROVE  /\ Copies(seq, c) \in Nat
           /\ IsFiniteSet({i \in 1 .. Len(seq) : seq[i] = c})
<1> DEFINE A == {i \in 1 .. Len(seq) : seq[i] = c}
<1>1. IsFiniteSet(1 .. Len(seq)) /\ A \in SUBSET (1 .. Len(seq))
  BY FS_Interval
<1>2. IsFiniteSet(A)
  BY <1>1, FS_Subset
<1> QED BY <1>2, FS_CardinalityType DEF Copies

LEMMA CopiesEmpty ==
    ASSUME NEW c
    PROVE  Copies(<<>>, c) = 0
<1>1. {i \in 1 .. Len(<<>>) : <<>>[i] = c} = {}
  OBVIOUS
<1> QED BY <1>1, FS_EmptySet DEF Copies

LEMMA CopiesNone ==
    ASSUME NEW S, NEW seq \in Seq(S), NEW c, c \notin S
    PROVE  Copies(seq, c) = 0
<1>1. {i \in 1 .. Len(seq) : seq[i] = c} = {}
  OBVIOUS
<1> QED BY <1>1, FS_EmptySet DEF Copies

LEMMA CopiesConcat ==
    ASSUME NEW S, NEW s \in Seq(S), NEW t \in Seq(S), NEW c
    PROVE  Copies(s \o t, c) = Copies(s, c) + Copies(t, c)
<1> DEFINE A == {i \in 1 .. Len(s) : s[i] = c}
           B == {i \in 1 .. Len(t) : t[i] = c}
           D == {i + Len(s) : i \in B}
           U == {i \in 1 .. Len(s \o t) : (s \o t)[i] = c}
           f == [i \in B |-> i + Len(s)]
<1>0. Len(s) \in Nat /\ Len(t) \in Nat /\ Len(s \o t) = Len(s) + Len(t)
  OBVIOUS
<1>1. /\ IsFiniteSet(A) /\ Cardinality(A) \in Nat
      /\ IsFiniteSet(B) /\ Cardinality(B) \in Nat
  BY CopiesType DEF Copies
<1>2. U = A \cup D
  <2>1. ASSUME NEW i \in U PROVE i \in A \cup D
    <3>1. CASE i <= Len(s)
      BY <3>1
    <3>2. CASE i > Len(s)
      <4>1. i - Len(s) \in B /\ i = (i - Len(s)) + Len(s)
        BY <3>2
      <4> QED BY <4>1
    <3> QED BY <3>1, <3>2
  <2>2. ASSUME NEW i \in A PROVE i \in U
    OBVIOUS
  <2>3. ASSUME NEW j \in B PROVE j + Len(s) \in U
    OBVIOUS
  <2> QED BY <2>1, <2>2, <2>3
<1>3. A \cap D = {}
  OBVIOUS
<1>4. IsFiniteSet(D) /\ Cardinality(D) = Cardinality(B)
  <2>1. f \in Bijection(B, D)
    <3>1. f \in [B -> D]
      OBVIOUS
    <3>2. \A i, j \in B : f[i] = f[j] => i = j
      OBVIOUS
    <3>3. \A d \in D : \E i \in B : f[i] = d
      OBVIOUS
    <3> HIDE DEF f, B, D
    <3> QED BY <3>1, <3>2, <3>3, Fun_IsBij
  <2>2. ExistsBijection(B, D)
    BY <2>1, Fun_ExistsBij
  <2> HIDE DEF B, D
  <2> QED BY <1>1, <2>2, FS_Bijection
<1>5. /\ Copies(s \o t, c) = Cardinality(U)
      /\ Copies(s, c) = Cardinality(A) /\ Copies(t, c) = Cardinality(B)
  BY DEF Copies
<1> HIDE DEF A, B, D, U, f
<1>6. Cardinality(U) = Cardinality(A) + Cardinality(D) - Cardinality(A \cap D)
  BY <1>1, <1>2, <1>4, FS_Union
<1>7. Cardinality(A \cap D) = 0
  BY <1>3, FS_EmptySet
<1> QED BY <1>1, <1>4, <1>5, <1>6, <1>7

LEMMA CopiesSingle ==
    ASSUME NEW m, NEW c
    PROVE  Copies(<<m>>, c) = Hit(m, c)
<1>1. {i \in 1 .. Len(<<m>>) : <<m>>[i] = c} = IF m = c THEN {1} ELSE {}
  OBVIOUS
<1> QED BY <1>1, FS_EmptySet, FS_Singleton DEF Copies, Hit

LEMMA CopiesAppend ==
    ASSUME NEW S, NEW seq \in Seq(S), NEW m \in S, NEW c
    PROVE  Copies(Append(seq, m), c) = Copies(seq, c) + Hit(m, c)
<1>1. <<m>> \in Seq(S) /\ Append(seq, m) = seq \o <<m>>
  OBVIOUS
<1>2. Copies(seq \o <<m>>, c) = Copies(seq, c) + Copies(<<m>>, c)
  BY <1>1, CopiesConcat
<1> QED BY <1>1, <1>2, CopiesSingle

LEMMA CopiesTail ==
    ASSUME NEW S, NEW seq \in Seq(S), seq # <<>>, NEW c
    PROVE  Copies(seq, c) = Copies(Tail(seq), c) + Hit(Head(seq), c)
<1> DEFINE h == Head(seq)
           t == Tail(seq)
<1>1. t \in Seq(S) /\ h \in S /\ <<h>> \in Seq(S) /\ seq = <<h>> \o t
  BY HeadTailProperties, ConcatProperties
<1> HIDE DEF h, t
<1>2. Copies(<<h>> \o t, c) = Copies(<<h>>, c) + Copies(t, c)
  BY <1>1, CopiesConcat
<1>3. Copies(<<h>>, c) = Hit(h, c) /\ Hit(h, c) \in Nat
  BY CopiesSingle DEF Hit
<1>4. Copies(t, c) \in Nat
  BY <1>1, CopiesType
<1>5. Copies(seq, c) = Copies(t, c) + Hit(h, c)
  BY <1>1, <1>2, <1>3, <1>4
<1> QED BY <1>5 DEF h, t

LEMMA RangeOfSequence ==
    ASSUME NEW S, NEW seq \in Seq(S)
    PROVE  /\ Range(seq) = {seq[i] : i \in 1 .. Len(seq)}
           /\ Range(seq) \subseteq S
BY DEF Range

LEMMA RangeConcat ==
    ASSUME NEW S, NEW s \in Seq(S), NEW t \in Seq(S)
    PROVE  Range(s \o t) = Range(s) \cup Range(t)
<1> DEFINE u == s \o t
<1>1. /\ u \in Seq(S) /\ Len(u) = Len(s) + Len(t)
      /\ \A i \in 1 .. Len(s) : u[i] = s[i]
      /\ \A i \in 1 .. Len(t) : u[i + Len(s)] = t[i]
      /\ Len(s) \in Nat /\ Len(t) \in Nat
  OBVIOUS
<1> HIDE DEF u
<1>2. /\ Range(u) = {u[i] : i \in 1 .. Len(u)}
      /\ Range(s) = {s[i] : i \in 1 .. Len(s)}
      /\ Range(t) = {t[i] : i \in 1 .. Len(t)}
  BY <1>1, RangeOfSequence
<1>3. ASSUME NEW i \in 1 .. Len(u) PROVE u[i] \in Range(s) \cup Range(t)
  <2>1. CASE i <= Len(s)
    <3>1. i \in 1 .. Len(s) /\ u[i] = s[i]
      BY <1>1, <2>1
    <3> QED BY <1>2, <3>1
  <2>2. CASE i > Len(s)
    <3>1. i - Len(s) \in 1 .. Len(t) /\ (i - Len(s)) + Len(s) = i
      BY <1>1, <2>2
    <3>2. u[i] = t[i - Len(s)]
      BY <1>1, <3>1
    <3> QED BY <1>2, <3>1, <3>2
  <2> QED BY <1>1, <2>1, <2>2
<1>4. ASSUME NEW i \in 1 .. Len(s) PROVE s[i] \in Range(u)
  <2>1. i \in 1 .. Len(u) /\ u[i] = s[i]
    BY <1>1
  <2> QED BY <1>2, <2>1
<1>5. ASSUME NEW i \in 1 .. Len(t) PROVE t[i] \in Range(u)
  <2>1. i + Len(s) \in 1 .. Len(u) /\ u[i + Len(s)] = t[i]
    BY <1>1
  <2> QED BY <1>2, <2>1
<1>6. Range(u) = Range(s) \cup Range(t)
  BY <1>2, <1>3, <1>4, <1>5
<1> QED BY <1>6 DEF u

LEMMA RangeSingle ==
    ASSUME NEW m
    PROVE  Range(<<m>>) = {m}
<1> DEFINE u == <<m>>
<1>1. u \in Seq({m}) /\ 1 .. Len(u) = {1} /\ u[1] = m
  OBVIOUS
<1> HIDE DEF u
<1>2. Range(u) = {u[i] : i \in {1}}
  BY <1>1, RangeOfSequence
<1> QED BY <1>1, <1>2 DEF u

LEMMA RangeAppend ==
    ASSUME NEW S, NEW seq \in Seq(S), NEW m \in S
    PROVE  Range(Append(seq, m)) = Range(seq) \cup {m}
<1>1. <<m>> \in Seq(S) /\ Append(seq, m) = seq \o <<m>>
  OBVIOUS
<1> DEFINE u == <<m>>
<1>2. u \in Seq(S) /\ Append(seq, m) = seq \o u /\ Range(u) = {m}
  BY <1>1, RangeSingle
<1> HIDE DEF u
<1>3. Range(seq \o u) = Range(seq) \cup Range(u)
  BY <1>2, RangeConcat
<1> QED BY <1>2, <1>3

LEMMA RangeTail ==
    ASSUME NEW S, NEW seq \in Seq(S), seq # <<>>
    PROVE  Range(seq) = {Head(seq)} \cup Range(Tail(seq))
<1> DEFINE h == Head(seq)
           t == Tail(seq)
           u == <<h>>
<1>1. t \in Seq(S) /\ h \in S /\ u \in Seq(S) /\ seq = u \o t
  BY HeadTailProperties, ConcatProperties
<1>2. Range(u) = {h}
  BY RangeSingle
<1> HIDE DEF h, t, u
<1>3. Range(u \o t) = Range(u) \cup Range(t)
  BY <1>1, RangeConcat
<1>4. Range(seq) = {h} \cup Range(t)
  BY <1>1, <1>2, <1>3
<1> QED BY <1>4 DEF h, t

LEMMA RangeEmpty == Range(<<>>) = {}
BY DEF Range

-----------------------------------------------------------------------------
(* The commands                                                            *)

LEMMA CommandShapes ==
    /\ \A b \in Bodies : Publication(b) \in Command
    /\ \A q \in QueueNames : Consumer(q) \in Command
    /\ \A copy \in Copy : Ack(copy) \in Command
    /\ \A b, x \in Bodies : Publication(b) = Publication(x) => b = x
    /\ \A q, r \in QueueNames : Consumer(q) = Consumer(r) => q = r
    /\ \A copy, x \in Copy : Ack(copy) = Ack(x) => copy = x
    /\ \A b, q : Publication(b) # Consumer(q)
    /\ \A b, copy : Publication(b) # Ack(copy)
    /\ \A q, copy : Consumer(q) # Ack(copy)
<1>1. \A copy \in Copy : copy[1] \in Bodies
  BY DEF Copy
<1>2. /\ \A b \in Bodies : QueueOf[b] \in QueueNames
  BY QueueOfAssumption
<1>3. \A copy \in Copy : Ack(copy) \in Command
  BY <1>1, <1>2 DEF Ack, Command
<1>4. \A b \in Bodies : Publication(b) \in Command
  BY <1>2 DEF Publication, Command
<1>5. \A q \in QueueNames : Consumer(q) \in Command
  BY DEF Consumer, Command
<1> QED BY <1>3, <1>4, <1>5 DEF Publication, Consumer, Ack

(* Every consumer has one callback on a new channel.                       *)
LEMMA ConsumerCallbacksType ==
    /\ ConsumerCallbacks \in Seq({Consumer(q) : q \in Consumed})
    /\ \A q \in Consumed : Copies(ConsumerCallbacks, Consumer(q)) = 1
<1> DEFINE S == {Consumer(q) : q \in Consumed}
           n == Cardinality(S)
           cbs == ConsumerCallbacks
           g == [q \in Consumed |-> Consumer(q)]
<1>1. IsFiniteSet(S)
  <2>1. g \in [Consumed -> S]
    OBVIOUS
  <2>2. \A s \in S : \E q \in Consumed : g[q] = s
    OBVIOUS
  <2> HIDE DEF g, S
  <2>3. g \in Surjection(Consumed, S)
    BY <2>1, <2>2, Fun_IsSurj
  <2> QED BY <2>3, FS_Surjection, ConsumedAssumption
<1> HIDE DEF S, g
<1>2. n \in Nat /\ ExistsBijection(1 .. n, S)
  BY <1>1, FS_CardinalityType
<1>3. \E f \in [1 .. n -> S] : IsInjective(f)
  <2>1. PICK f : f \in Bijection(1 .. n, S)
    BY <1>2 DEF ExistsBijection
  <2>2. f \in [1 .. n -> S] /\ \A a, b \in 1 .. n : f[a] = f[b] => a = b
    BY <2>1, Fun_BijectionProperties
  <2>3. IsInjective(f)
    BY <2>2 DEF IsInjective
  <2> QED BY <2>2, <2>3
<1>4. cbs \in [1 .. n -> S] /\ IsInjective(cbs)
  <2>1. cbs = CHOOSE f \in [1 .. n -> S] : IsInjective(f)
    BY DEF ConsumerCallbacks, SetToSeq, S
  <2> HIDE DEF cbs, n
  <2> QED BY <1>3, <2>1
<1> HIDE DEF cbs, n
<1>5. cbs \in Injection(1 .. n, S)
  <2>1. \A a, b \in 1 .. n : cbs[a] = cbs[b] => a = b
    BY <1>4 DEF IsInjective
  <2> QED BY <1>4, <2>1, Fun_IsInj
<1>6. cbs \in Surjection(1 .. n, S)
  <2>1. Cardinality(1 .. n) = Cardinality(S)
    BY <1>2, FS_Interval DEF n
  <2> QED BY <1>1, <1>5, <2>1, FS_Injection
<1>7. cbs \in Seq(S) /\ Len(cbs) = n
  BY <1>2, <1>4, IsASeq
<1>8. ASSUME NEW c \in S PROVE Copies(cbs, c) = 1
  <2> DEFINE D == 1 .. n
  <2>1. cbs \in Surjection(D, S) /\ D = 1 .. Len(cbs)
    BY <1>6, <1>7
  <2>2. \A x, y \in D : cbs[x] = cbs[y] => x = y
    BY <1>4 DEF IsInjective
  <2> HIDE DEF D
  <2>3. \A t \in S : \E x \in D : cbs[x] = t
    BY <2>1, Fun_SurjectionProperties
  <2>4. PICK i \in D : cbs[i] = c
    BY <1>8, <2>3
  <2>5. {j \in D : cbs[j] = c} = {i}
    BY <2>2, <2>4
  <2> QED BY <2>1, <2>5, FS_Singleton DEF Copies
<1> QED BY <1>7, <1>8 DEF cbs, S

-----------------------------------------------------------------------------
(* Types                                                                   *)

Deferred == {Publication(b) : b \in deferred}

(* What may wait for a queue to be declared, and what may be sent.         *)
Waiting == {Publication(b) : b \in accepted} \cup {Consumer(q) : q \in Consumed}
Sent == Waiting \cup {Ack(copy) : copy \in Copy}

(* The inductive form of TypeOK and AssertionsHold: callbacks and commands *)
(* come from accepted bodies, and a connection that is not ready has       *)
(* neither commands nor consumers, and before _on_channel_open no queues.  *)
TypeInv ==
    /\ TypeOK
    /\ on_open_cbs \in Seq(Deferred)
    /\ declaring \in Seq(Waiting) /\ wire \in Seq(Sent)
    /\ connection # "ready" => declaring = <<>> /\ wire = <<>> /\ consuming = {}
    /\ connection \in {"connecting", "open"} => ~ channel
    /\ connection = "ready" => channel
    /\ ~ channel => queues = {}

LEMMA SeqGrows ==
    ASSUME NEW S, NEW T, S \subseteq T, NEW seq \in Seq(S)
    PROVE  seq \in Seq(T)
BY SeqMonotonic

LEMMA CommandTypes ==
    ASSUME TypeOK
    PROVE  /\ Deferred \subseteq Waiting /\ Waiting \subseteq Sent /\ Sent \subseteq Command
           /\ \A c \in Deferred : \E b \in deferred : c = Publication(b)
           /\ \A c \in Waiting : c.op = "publish" => \E b \in accepted : c = Publication(b)
           /\ \A c \in Waiting : c.op \in {"publish", "consume"}
           /\ \A c \in Sent : c.op = "publish" => \E b \in accepted : c = Publication(b)
           /\ \A c \in Sent : c.op = "ack" => \E copy \in Copy : c = Ack(copy)
           /\ \A c \in Sent : c.op = "consume" => \E q \in Consumed : c = Consumer(q)
           /\ \A c \in Sent : c.op \in {"publish", "consume", "ack"}
<1>1. deferred \subseteq accepted /\ accepted \subseteq Bodies
  BY DEF TypeOK
<1>2. Sent \subseteq Command
  BY <1>1, CommandShapes, ConsumedAssumption DEF Sent, Waiting
<1>3. /\ \A b : Publication(b).op = "publish"
      /\ \A q : Consumer(q).op = "consume"
      /\ \A copy : Ack(copy).op = "ack"
  BY DEF Publication, Consumer, Ack
<1> QED BY <1>1, <1>2, <1>3 DEF Deferred, Waiting, Sent

LEMMA BodiesUnderWay ==
    ASSUME TypeInv
    PROVE  /\ UnderWay \subseteq accepted
           /\ {c.body : c \in Range(on_open_cbs)} \subseteq deferred
<1>1. TypeOK
  BY DEF TypeInv
<1>2. wire \in Seq(Sent) /\ declaring \in Seq(Sent) /\ on_open_cbs \in Seq(Deferred)
  BY <1>1, CommandTypes, SeqGrows DEF TypeInv
<1>3. declaring \o wire \in Seq(Sent)
  BY <1>2
<1>4. Range(declaring \o wire) \subseteq Sent /\ Range(on_open_cbs) \subseteq Deferred
  BY <1>2, <1>3, RangeOfSequence
<1>5. \A b : Publication(b).body = b
  BY DEF Publication
<1> QED BY <1>1, <1>4, <1>5, CommandTypes DEF UnderWay

LEMMA TypeInit ==
    ASSUME Init
    PROVE  TypeInv
<1>1. \A S : <<>> \in Seq(S)
  OBVIOUS
<1>2. /\ on_open_cbs \in Seq(Command) /\ declaring \in Seq(Command)
      /\ wire \in Seq(Command)
  BY <1>1 DEF Init
<1>3. channel \in BOOLEAN /\ received \in [Bodies -> Nat]
  BY DEF Init
<1>4. failures \in 0 .. MaxFailures
  BY MaxFailuresAssumption DEF Init
<1>5. TypeOK
  BY <1>2, <1>3, <1>4 DEF Init, TypeOK
<1> QED BY <1>1, <1>5 DEF Init, TypeInv

(* What every way to lose the connection has in common.                    *)
Breaks ==
    /\ Disconnect
    /\ failures' = failures + 1 /\ failures' \in 0 .. MaxFailures
    /\ dropped' \in SUBSET accepted
    /\ connection' \in {"connecting", "closed"}
    /\ \/ /\ connection' = "connecting" /\ channel' = FALSE
          /\ queues' = {} /\ on_open_cbs' = <<>>
       \/ connection' = "closed" /\ UNCHANGED <<channel, queues, on_open_cbs>>

LEMMA BreaksEffect ==
    ASSUME TypeInv, OnConnectionClosed \/ Restart
    PROVE  Breaks
<1>1. failures' = failures + 1 /\ failures' \in 0 .. MaxFailures
  BY MaxFailuresAssumption
     DEF OnConnectionClosed, Restart, Failure, TypeInv, TypeOK
<1>2. dropped' \in SUBSET accepted
  BY BodiesUnderWay DEF OnConnectionClosed, Restart, TypeInv, TypeOK
<1> QED BY <1>1, <1>2 DEF OnConnectionClosed, Restart, Breaks

(* On a new channel no queue is declared yet.                              *)
LEMMA ChannelOpens ==
    ASSUME TypeInv, OnChannelOpen
    PROVE  /\ connection' = "ready" /\ channel' /\ consuming = {}
           /\ declaring = <<>> /\ wire = <<>> /\ queues = {}
           /\ declaring' = on_open_cbs \o ConsumerCallbacks /\ wire' = <<>>
           /\ on_open_cbs \in Seq(Waiting) /\ ConsumerCallbacks \in Seq(Waiting)
           /\ declaring' \in Seq(Waiting)
           /\ UNCHANGED <<queues, on_open_cbs, brokerVars, historyVars, failures>>
<1>1. /\ connection = "open" /\ connection' = "ready" /\ channel' = TRUE
      /\ declaring' = declaring \o ToDeclare(ChannelCallbacks)
      /\ wire' = wire \o ToCall(ChannelCallbacks)
      /\ UNCHANGED <<queues, on_open_cbs, brokerVars, historyVars, failures>>
  BY DEF OnChannelOpen
<1>2. declaring = <<>> /\ wire = <<>> /\ consuming = {} /\ ~ channel /\ queues = {}
  BY <1>1 DEF TypeInv
<1>3. on_open_cbs \in Seq(Waiting) /\ ConsumerCallbacks \in Seq(Waiting)
  <2>1. on_open_cbs \in Seq(Deferred) /\ Deferred \subseteq Waiting
    BY CommandTypes DEF TypeInv
  <2>2. {Consumer(q) : q \in Consumed} \subseteq Waiting
    BY DEF Waiting
  <2> QED BY <2>1, <2>2, SeqGrows, ConsumerCallbacksType
<1>4. ToDeclare(ChannelCallbacks) = ChannelCallbacks /\ ToCall(ChannelCallbacks) = <<>>
  BY <1>2 DEF ToDeclare, ToCall
<1>5. ChannelCallbacks \in Seq(Waiting)
  BY <1>3 DEF ChannelCallbacks
<1>6. declaring' = ChannelCallbacks /\ wire' = <<>>
  BY <1>1, <1>2, <1>4, <1>5, ConcatEmptySeq
<1> QED BY <1>1, <1>2, <1>3, <1>5, <1>6 DEF ChannelCallbacks

(* The sets of commands only grow.                                         *)
LEMMA CommandsGrow ==
    ASSUME TypeInv, Next
    PROVE  /\ accepted \subseteq accepted' /\ deferred \subseteq deferred'
           /\ accepted' \in SUBSET Bodies /\ deferred' \in SUBSET accepted'
           /\ Deferred \subseteq Deferred' /\ Waiting \subseteq Waiting'
           /\ Sent \subseteq Sent'
<1>1. /\ accepted \subseteq accepted' /\ deferred \subseteq deferred'
      /\ accepted' \in SUBSET Bodies /\ deferred' \in SUBSET accepted'
  <2>1. CASE json_publish \/ DjangoPublishes
    BY <2>1 DEF json_publish, DjangoPublishes, TypeInv, TypeOK
  <2>2. CASE UNCHANGED <<accepted, deferred>>
    BY <2>2 DEF TypeInv, TypeOK
  <2>3. \/ json_publish \/ DjangoPublishes \/ UNCHANGED <<accepted, deferred>>
    BY DEF Next, OnOpen, OnChannelOpen, DeclareOk, OnConnectionClosed,
           OnConnectionOpenError, Reconnect, Restart, Disconnect, BrokerReceives,
           Consume, historyVars
  <2> QED BY <2>1, <2>2, <2>3
<1> QED BY <1>1 DEF Deferred, Waiting, Sent

LEMMA PublishEffect ==
    ASSUME TypeInv, json_publish
    PROVE  \E b \in Bodies \ accepted :
              /\ accepted' = accepted \cup {b}
              /\ UNCHANGED <<connection, channel, queues, brokerVars, dropped,
                             received, processed, failures>>
              /\ \/ /\ connection # "ready" /\ deferred' = deferred \cup {b}
                    /\ on_open_cbs' = Append(on_open_cbs, Publication(b))
                    /\ UNCHANGED <<declaring, wire>>
                 \/ /\ connection = "ready" /\ UNCHANGED <<on_open_cbs, deferred, wire>>
                    /\ declaring' = Append(declaring, Publication(b))
                 \/ /\ connection = "ready" /\ UNCHANGED <<on_open_cbs, deferred, declaring>>
                    /\ wire' = Append(wire, Publication(b))
<1>1. PICK b \in Bodies \ accepted :
          /\ ensure_queue(Publication(b))
          /\ accepted' = accepted \cup {b}
          /\ deferred' = IF Defers(Publication(b)) THEN deferred \cup {b} ELSE deferred
          /\ UNCHANGED <<connection, channel, queues, brokerVars, dropped,
                         received, processed, failures>>
  BY DEF json_publish
<1>2. connection = "ready" => channel
  BY DEF TypeInv
<1> QED BY <1>1, <1>2 DEF ensure_queue, Defers, Declares, Sends

LEMMA BrokerEffect ==
    ASSUME TypeInv, BrokerReceives
    PROVE  /\ wire # <<>> /\ wire' = Tail(wire) /\ Head(wire) \in Sent
           /\ wire' \in Seq(Sent) /\ connection = "ready"
           /\ UNCHANGED <<clientVars, declaring, accepted, deferred, dropped,
                          processed, failures>>
           /\ \/ \E b \in accepted :
                    /\ Head(wire) = Publication(b) /\ Store(b)
                    /\ UNCHANGED <<consuming, unacked>>
              \/ \E q \in Consumed :
                    /\ Head(wire) = Consumer(q) /\ consuming' = consuming \cup {q}
                    /\ UNCHANGED <<stored, unacked, received>>
              \/ \E copy \in Copy :
                    /\ Head(wire) = Ack(copy)
                    /\ stored' = stored \ {copy} /\ unacked' = unacked \ {copy}
                    /\ UNCHANGED <<consuming, received>>
<1>1. /\ wire # <<>> /\ wire' = Tail(wire)
      /\ UNCHANGED <<clientVars, declaring, accepted, deferred, dropped,
                     processed, failures>>
  BY DEF BrokerReceives
<1>2. Head(wire) \in Sent /\ Tail(wire) \in Seq(Sent) /\ connection = "ready"
  BY <1>1, HeadTailProperties DEF TypeInv
<1>3. /\ \A b : Publication(b).op = "publish" /\ Publication(b).body = b
      /\ \A q : Consumer(q).op = "consume" /\ Consumer(q).queue = q
      /\ \A copy : Ack(copy).op = "ack" /\ Ack(copy).body = copy
  BY DEF Publication, Consumer, Ack
<1> DEFINE c == Head(wire)
<1>4. /\ c.op = "publish" => Store(c.body) /\ UNCHANGED <<consuming, unacked>>
      /\ c.op = "consume" => /\ consuming' = consuming \cup {c.queue}
                             /\ UNCHANGED <<stored, unacked, received>>
      /\ c.op = "ack" => /\ stored' = stored \ {c.body} /\ unacked' = unacked \ {c.body}
                         /\ UNCHANGED <<consuming, received>>
  BY DEF BrokerReceives
<1> HIDE DEF c
<1>5. c \in Sent
  BY <1>2 DEF c
<1>6. /\ c.op = "publish" => \E b \in accepted : c = Publication(b)
      /\ c.op = "ack" => \E copy \in Copy : c = Ack(copy)
      /\ c.op = "consume" => \E q \in Consumed : c = Consumer(q)
      /\ c.op \in {"publish", "consume", "ack"}
  BY <1>5, CommandTypes DEF TypeInv
<1>7. CASE c.op = "publish"
  <2>1. PICK b \in accepted : c = Publication(b)
    BY <1>6, <1>7
  <2>2. Store(b) /\ UNCHANGED <<consuming, unacked>>
    BY <1>3, <1>4, <1>7, <2>1
  <2> QED BY <1>1, <1>2, <2>1, <2>2 DEF c
<1>8. CASE c.op = "consume"
  <2>1. PICK q \in Consumed : c = Consumer(q)
    BY <1>6, <1>8
  <2>2. consuming' = consuming \cup {q} /\ UNCHANGED <<stored, unacked, received>>
    BY <1>3, <1>4, <1>8, <2>1
  <2> QED BY <1>1, <1>2, <2>1, <2>2 DEF c
<1>9. CASE c.op = "ack"
  <2>1. PICK copy \in Copy : c = Ack(copy)
    BY <1>6, <1>9
  <2>2. /\ stored' = stored \ {copy} /\ unacked' = unacked \ {copy}
        /\ UNCHANGED <<consuming, received>>
    BY <1>3, <1>4, <1>9, <2>1
  <2> QED BY <1>1, <1>2, <2>1, <2>2 DEF c
<1> QED BY <1>6, <1>7, <1>8, <1>9

LEMMA SequencesStep ==
    ASSUME TypeInv, Next
    PROVE  /\ on_open_cbs' \in Seq(Deferred')
           /\ declaring' \in Seq(Waiting') /\ wire' \in Seq(Sent')
<1>1. /\ Deferred \subseteq Deferred' /\ Waiting \subseteq Waiting' /\ Sent \subseteq Sent'
      /\ accepted' \in SUBSET Bodies
  BY CommandsGrow
<1>2. /\ on_open_cbs \in Seq(Deferred') /\ declaring \in Seq(Waiting')
      /\ wire \in Seq(Sent')
  BY <1>1, SeqGrows DEF TypeInv
<1>3. CASE json_publish
  <2>1. PICK b \in Bodies \ accepted :
              /\ accepted' = accepted \cup {b}
              /\ \/ /\ deferred' = deferred \cup {b}
                    /\ on_open_cbs' = Append(on_open_cbs, Publication(b))
                    /\ UNCHANGED <<declaring, wire>>
                 \/ /\ UNCHANGED <<on_open_cbs, wire>>
                    /\ declaring' = Append(declaring, Publication(b))
                 \/ /\ UNCHANGED <<on_open_cbs, declaring>>
                    /\ wire' = Append(wire, Publication(b))
    BY <1>3, PublishEffect
  <2>2. Publication(b) \in Waiting' /\ Publication(b) \in Sent'
    BY <2>1 DEF Waiting, Sent
  <2>3. b \in deferred' => Publication(b) \in Deferred'
    BY DEF Deferred
  <2> DEFINE m == Publication(b)
  <2> HIDE DEF m
  <2>4. m \in Waiting' /\ m \in Sent' /\ (b \in deferred' => m \in Deferred')
    BY <2>2, <2>3 DEF m
  <2>5. CASE /\ deferred' = deferred \cup {b} /\ on_open_cbs' = Append(on_open_cbs, m)
             /\ UNCHANGED <<declaring, wire>>
    BY <1>2, <2>4, <2>5
  <2>6. CASE UNCHANGED <<on_open_cbs, wire>> /\ declaring' = Append(declaring, m)
    BY <1>2, <2>4, <2>6
  <2>7. CASE UNCHANGED <<on_open_cbs, declaring>> /\ wire' = Append(wire, m)
    BY <1>2, <2>4, <2>7
  <2> QED BY <2>1, <2>5, <2>6, <2>7 DEF m
<1>4. CASE OnChannelOpen
  <2>1. declaring' \in Seq(Waiting) /\ wire' = <<>> /\ on_open_cbs' = on_open_cbs
    BY <1>4, ChannelOpens
  <2>2. declaring' \in Seq(Waiting')
    BY <1>1, <2>1, SeqGrows
  <2> QED BY <1>2, <2>1, <2>2
<1>5. CASE DeclareOk
  <2>1. /\ declaring # <<>> /\ declaring' = Tail(declaring)
        /\ wire' = Append(wire, Head(declaring)) /\ on_open_cbs' = on_open_cbs
    BY <1>5 DEF DeclareOk
  <2>2. Head(declaring) \in Waiting' /\ Tail(declaring) \in Seq(Waiting')
    BY <1>2, <2>1, HeadTailProperties
  <2>3. Head(declaring) \in Sent'
    BY <2>2 DEF Sent
  <2> QED BY <1>2, <2>1, <2>2, <2>3
<1>6. CASE OnConnectionClosed \/ Restart
  <2>1. /\ declaring' = <<>> /\ wire' = <<>>
        /\ on_open_cbs' = <<>> \/ on_open_cbs' = on_open_cbs
    BY <1>6, BreaksEffect DEF Breaks, Disconnect
  <2>2. \A S : <<>> \in Seq(S)
    OBVIOUS
  <2> QED BY <1>2, <2>1, <2>2
<1>7. CASE BrokerReceives
  <2>1. wire' \in Seq(Sent) /\ UNCHANGED <<on_open_cbs, declaring>>
    BY <1>7, BrokerEffect DEF clientVars
  <2>2. wire' \in Seq(Sent')
    BY <1>1, <2>1, SeqGrows
  <2> QED BY <1>2, <2>1, <2>2
<1>8. CASE Consume
  <2>1. PICK copy \in stored \ unacked : wire' = Append(wire, Ack(copy))
    BY <1>8 DEF Consume
  <2>2. Ack(copy) \in Sent'
    BY DEF Sent, TypeInv, TypeOK
  <2>3. wire' \in Seq(Sent')
    BY <1>2, <2>1, <2>2
  <2> QED BY <1>2, <1>8, <2>3 DEF Consume, clientVars
<1>9. CASE DjangoPublishes \/ OnOpen \/ OnConnectionOpenError \/ Reconnect
  BY <1>2, <1>9 DEF DjangoPublishes, OnOpen, OnConnectionOpenError, Reconnect, clientVars
<1> QED BY <1>3, <1>4, <1>5, <1>6, <1>7, <1>8, <1>9 DEF Next

LEMMA ConnectionStep ==
    ASSUME TypeInv, Next
    PROVE  /\ connection' \in {"connecting", "open", "ready", "closed"}
           /\ channel' \in BOOLEAN /\ queues' \in SUBSET QueueNames
           /\ consuming' \in SUBSET QueueNames
           /\ connection' # "ready" => declaring' = <<>> /\ wire' = <<>> /\ consuming' = {}
           /\ connection' \in {"connecting", "open"} => ~ channel'
           /\ connection' = "ready" => channel'
           /\ ~ channel' => queues' = {}
           /\ failures' \in 0 .. MaxFailures
<1> USE DEF TypeInv, TypeOK
<1>1. CASE json_publish
  <2>1. /\ UNCHANGED <<connection, channel, queues, consuming, failures>>
        /\ connection # "ready" => UNCHANGED <<declaring, wire>>
    BY <1>1, PublishEffect DEF brokerVars
  <2> QED BY <2>1
<1>2. CASE OnChannelOpen
  <2>1. /\ connection' = "ready" /\ channel' = TRUE
        /\ UNCHANGED <<queues, consuming, failures>>
    BY <1>2 DEF OnChannelOpen, brokerVars
  <2> QED BY <2>1
<1>3. CASE DeclareOk
  <2>1. /\ declaring # <<>> /\ queues' = queues \cup {Head(declaring).queue}
        /\ UNCHANGED <<connection, channel, consuming, failures>>
    BY <1>3 DEF DeclareOk, brokerVars
  <2>2. Head(declaring) \in Command
    BY <2>1, HeadTailProperties
  <2>3. Head(declaring).queue \in QueueNames
    BY <2>2 DEF Command
  <2>4. connection = "ready"
    BY <2>1
  <2> QED BY <2>1, <2>3, <2>4
<1>4. CASE OnConnectionClosed \/ Restart
  <2>1. Breaks
    BY <1>4, BreaksEffect
  <2>2. /\ declaring' = <<>> /\ wire' = <<>> /\ consuming' = {}
        /\ failures' \in 0 .. MaxFailures
    BY <2>1 DEF Breaks, Disconnect
  <2>3. \/ connection' = "connecting" /\ channel' = FALSE /\ queues' = {}
        \/ connection' = "closed" /\ UNCHANGED <<channel, queues>>
    BY <2>1 DEF Breaks
  <2> QED BY <2>2, <2>3
<1>5. CASE BrokerReceives
  <2>1. /\ connection = "ready"
        /\ UNCHANGED <<connection, channel, queues, declaring, failures>>
        /\ consuming' = consuming \/ \E q \in Consumed : consuming' = consuming \cup {q}
    BY <1>5, BrokerEffect DEF clientVars
  <2> QED BY <2>1, ConsumedAssumption
<1>6. CASE Consume
  <2>1. /\ consuming # {} /\ connection = "ready"
    BY <1>6 DEF Consume
  <2> QED BY <1>6, <2>1 DEF Consume, clientVars
<1>7. CASE DjangoPublishes \/ OnOpen
  BY <1>7 DEF DjangoPublishes, OnOpen, clientVars, brokerVars
<1>8. CASE OnConnectionOpenError
  BY <1>8, MaxFailuresAssumption DEF OnConnectionOpenError, Failure, brokerVars
<1>9. CASE Reconnect
  BY <1>9 DEF Reconnect, Forgotten, brokerVars
<1> QED BY <1>1, <1>2, <1>3, <1>4, <1>5, <1>6, <1>7, <1>8, <1>9 DEF Next

LEMMA StoreTypes ==
    ASSUME TypeInv, NEW b \in Bodies, Store(b)
    PROVE  /\ received' \in [Bodies -> Nat] /\ stored' \in SUBSET Copy
           /\ stored \subseteq stored'
<1>1. received[b] + 1 \in Nat \ {0}
  BY DEF TypeInv, TypeOK
<1>2. <<b, received[b] + 1>> \in Copy
  BY <1>1 DEF Copy
<1> QED BY <1>1, <1>2 DEF Store, TypeInv, TypeOK

LEMMA BrokerStep ==
    ASSUME TypeInv, Next
    PROVE  /\ stored' \in SUBSET Copy /\ unacked' \in SUBSET stored'
           /\ \A copy \in unacked' : Ack(copy) \in Range(wire')
           /\ received' \in [Bodies -> Nat] /\ processed' \in SUBSET Copy
           /\ dropped' \in SUBSET accepted'
<1> USE DEF TypeInv, TypeOK
<1>0. accepted \subseteq accepted'
  BY CommandsGrow
<1>1. CASE json_publish
  <2>1. PICK b \in Bodies :
           /\ UNCHANGED <<stored, unacked, received, processed, dropped>>
           /\ wire' = wire \/ (connection = "ready" /\ wire' = Append(wire, Publication(b)))
    BY <1>1, PublishEffect DEF brokerVars
  <2>2. Range(wire) \subseteq Range(wire')
    <3>1. CASE wire' = wire
      BY <3>1
    <3>2. CASE wire' = Append(wire, Publication(b))
      <4> DEFINE m == Publication(b)
      <4>1. m \in Command /\ wire' = Append(wire, m)
        BY <3>2, CommandShapes
      <4> HIDE DEF m
      <4> QED BY <4>1, RangeAppend
    <3> QED BY <2>1, <3>1, <3>2
  <2> QED BY <1>0, <2>1, <2>2
<1>2. CASE DjangoPublishes
  <2>1. PICK b \in Bodies : /\ Store(b)
                            /\ UNCHANGED <<wire, unacked, processed, dropped>>
    BY <1>2 DEF DjangoPublishes
  <2> QED BY <1>0, <2>1, StoreTypes
<1>3. CASE OnChannelOpen
  <2>1. wire = <<>> /\ UNCHANGED <<stored, unacked, received, processed, dropped>>
    BY <1>3, ChannelOpens DEF brokerVars, historyVars
  <2>2. unacked = {}
    BY <2>1, RangeEmpty
  <2> QED BY <1>0, <2>1, <2>2
<1>4. CASE DeclareOk
  <2>1. /\ declaring # <<>> /\ wire' = Append(wire, Head(declaring))
        /\ UNCHANGED <<stored, unacked, received, processed, dropped>>
    BY <1>4 DEF DeclareOk, brokerVars, historyVars
  <2>2. Head(declaring) \in Command
    BY <2>1, HeadTailProperties
  <2>3. Range(wire) \subseteq Range(wire')
    BY <2>1, <2>2, RangeAppend
  <2> QED BY <1>0, <2>1, <2>3
<1>5. CASE OnConnectionClosed \/ Restart
  BY <1>0, <1>5, BreaksEffect DEF Breaks, Disconnect, OnConnectionClosed, Restart
<1>6. CASE BrokerReceives
  <2>1. /\ wire # <<>> /\ wire' = Tail(wire)
        /\ UNCHANGED <<accepted, dropped, processed>>
    BY <1>6, BrokerEffect
  <2>2. Range(wire) = {Head(wire)} \cup Range(wire')
    BY <2>1, RangeTail
  <2>3. CASE \E b \in accepted : /\ Head(wire) = Publication(b) /\ Store(b)
                                 /\ UNCHANGED <<consuming, unacked>>
    <3>1. PICK b \in accepted : /\ Head(wire) = Publication(b) /\ Store(b)
                                /\ UNCHANGED <<consuming, unacked>>
      BY <2>3
    <3>2. \A copy \in unacked : Ack(copy) # Head(wire)
      BY <3>1, CommandShapes
    <3> QED BY <2>1, <2>2, <3>1, <3>2, StoreTypes
  <2>4. CASE \E q \in Consumed :
                /\ Head(wire) = Consumer(q) /\ consuming' = consuming \cup {q}
                /\ UNCHANGED <<stored, unacked, received>>
    <3>1. \A copy \in unacked : Ack(copy) # Head(wire)
      BY <2>4, CommandShapes
    <3> QED BY <2>1, <2>2, <2>4, <3>1
  <2>5. CASE \E copy \in Copy :
                /\ Head(wire) = Ack(copy)
                /\ stored' = stored \ {copy} /\ unacked' = unacked \ {copy}
                /\ UNCHANGED <<consuming, received>>
    <3>1. PICK x \in Copy : /\ Head(wire) = Ack(x)
                            /\ stored' = stored \ {x} /\ unacked' = unacked \ {x}
                            /\ UNCHANGED received
      BY <2>5
    <3>2. \A copy \in unacked' : Ack(copy) # Head(wire)
      BY <3>1, CommandShapes
    <3> QED BY <2>1, <2>2, <3>1, <3>2
  <2> QED BY <1>6, <2>3, <2>4, <2>5, BrokerEffect
<1>7. CASE Consume
  <2>1. PICK copy \in stored \ unacked :
            /\ unacked' = unacked \cup {copy} /\ processed' = processed \cup {copy}
            /\ wire' = Append(wire, Ack(copy))
            /\ UNCHANGED <<stored, received, dropped>>
    BY <1>7 DEF Consume
  <2>2. Range(wire') = Range(wire) \cup {Ack(copy)}
    <3> DEFINE m == Ack(copy)
    <3>1. m \in Command /\ wire' = Append(wire, m)
      BY <2>1, CommandShapes
    <3> HIDE DEF m
    <3>2. Range(wire') = Range(wire) \cup {m}
      BY <3>1, RangeAppend
    <3> QED BY <3>2 DEF m
  <2> QED BY <1>0, <2>1, <2>2
<1>8. CASE OnOpen \/ OnConnectionOpenError \/ Reconnect
  BY <1>0, <1>8 DEF OnOpen, OnConnectionOpenError, Reconnect, brokerVars, historyVars
<1> QED BY <1>1, <1>2, <1>3, <1>4, <1>5, <1>6, <1>7, <1>8 DEF Next

LEMMA TypeStep ==
    ASSUME TypeInv, Next
    PROVE  TypeInv'
<1>1. /\ accepted' \in SUBSET Bodies /\ deferred' \in SUBSET accepted'
  BY CommandsGrow
<1>2. Deferred' \subseteq Command /\ Waiting' \subseteq Command /\ Sent' \subseteq Command
  BY <1>1, CommandShapes, ConsumedAssumption DEF Deferred, Waiting, Sent
<1>3. /\ on_open_cbs' \in Seq(Command) /\ declaring' \in Seq(Command)
      /\ wire' \in Seq(Command)
  BY <1>2, SequencesStep, SeqGrows
<1>4. TypeOK'
  BY <1>1, <1>3, ConnectionStep, BrokerStep DEF TypeOK
<1> QED BY <1>4, SequencesStep, ConnectionStep DEF TypeInv

-----------------------------------------------------------------------------
(* The consumers                                                           *)

(* Exactly one registration per consumer, on its way or done.              *)
Registered ==
    connection = "ready" =>
        \A q \in Consumed :
            Copies(declaring, Consumer(q)) + Copies(wire, Consumer(q))
                = IF q \in consuming THEN 0 ELSE 1

LEMMA RegisteredIsNeverDeaf ==
    ASSUME TypeInv, Registered
    PROVE  NeverDeaf
<1>1. SUFFICES ASSUME connection = "ready", NEW q \in Consumed
               PROVE  LET commands == declaring \o wire
                          registering == {i \in DOMAIN commands : commands[i] = Consumer(q)}
                      IN  Cardinality(registering) = IF q \in consuming THEN 0 ELSE 1
  BY DEF NeverDeaf
<1> DEFINE u == declaring \o wire
<1>2. declaring \in Seq(Sent) /\ wire \in Seq(Sent)
  BY CommandTypes, SeqGrows DEF TypeInv
<1>3. Copies(u, Consumer(q)) = Copies(declaring, Consumer(q)) + Copies(wire, Consumer(q))
  BY <1>2, CopiesConcat
<1>4. u \in Seq(Sent)
  BY <1>2
<1> HIDE DEF u
<1>5. {i \in DOMAIN u : u[i] = Consumer(q)} = {i \in 1 .. Len(u) : u[i] = Consumer(q)}
  BY <1>4
<1>6. Cardinality({i \in DOMAIN u : u[i] = Consumer(q)}) = IF q \in consuming THEN 0 ELSE 1
  BY <1>1, <1>3, <1>5 DEF Copies, Registered
<1> QED BY <1>6 DEF u

(* A command that is no copy of c changes nothing, wherever it goes.       *)
LEMMA OtherCommand ==
    ASSUME NEW S, NEW seq \in Seq(S), NEW m \in S, NEW c, m # c
    PROVE  Copies(Append(seq, m), c) = Copies(seq, c)
<1>1. Hit(m, c) = 0
  BY DEF Hit
<1>2. Copies(seq, c) \in Nat
  BY CopiesType
<1>3. Copies(Append(seq, m), c) = Copies(seq, c) + Hit(m, c)
  BY CopiesAppend
<1> QED BY <1>1, <1>2, <1>3

(* Once its queue is declared, a command goes from one to the other.       *)
LEMMA DeclareKeeps ==
    ASSUME TypeInv, DeclareOk, NEW c
    PROVE  Copies(declaring', c) + Copies(wire', c)
             = Copies(declaring, c) + Copies(wire, c)
<1> DEFINE m == Head(declaring)
<1>1. /\ declaring # <<>> /\ declaring' = Tail(declaring) /\ wire' = Append(wire, m)
  BY DEF DeclareOk
<1>2. m \in Sent
  BY <1>1, HeadTailProperties, CommandTypes DEF TypeInv
<1>3. Copies(declaring, c) = Copies(declaring', c) + Hit(m, c)
  BY <1>1, CopiesTail DEF TypeInv
<1>4. wire \in Seq(Sent) /\ Tail(declaring) \in Seq(Waiting)
  BY <1>1, HeadTailProperties DEF TypeInv
<1> HIDE DEF m
<1>5. Copies(wire', c) = Copies(wire, c) + Hit(m, c)
  BY <1>1, <1>2, <1>4, CopiesAppend
<1>6. Copies(declaring', c) \in Nat /\ Copies(wire, c) \in Nat /\ Hit(m, c) \in Nat
  BY <1>1, <1>4, CopiesType DEF Hit
<1> QED BY <1>3, <1>5, <1>6

LEMMA RegisteredStep ==
    ASSUME TypeInv, Registered, Next
    PROVE  Registered'
<1>1. SUFFICES ASSUME connection' = "ready", NEW q \in Consumed
               PROVE  Copies(declaring', Consumer(q)) + Copies(wire', Consumer(q))
                        = IF q \in consuming' THEN 0 ELSE 1
  BY DEF Registered
<1> DEFINE r == Consumer(q)
           d == Copies(declaring, r)
           w == Copies(wire, r)
<1>2. /\ d \in Nat /\ w \in Nat
      /\ connection = "ready" => d + w = IF q \in consuming THEN 0 ELSE 1
  BY CopiesType DEF TypeInv, Registered
<1>3. /\ \A b : Publication(b) # r
      /\ \A copy : Ack(copy) # r
      /\ \A x \in Consumed : Consumer(x) = r => x = q
  BY CommandShapes, ConsumedAssumption
<1> HIDE DEF r
<1>4. CASE json_publish
  <2>1. PICK b \in Bodies \ accepted :
           /\ UNCHANGED <<connection, consuming>>
           /\ \/ UNCHANGED <<declaring, wire>>
              \/ /\ declaring' = Append(declaring, Publication(b)) /\ wire' = wire
              \/ /\ declaring' = declaring /\ wire' = Append(wire, Publication(b))
    BY <1>4, PublishEffect DEF brokerVars
  <2> DEFINE m == Publication(b)
  <2>2. m \in Command /\ m # r /\ declaring \in Seq(Command) /\ wire \in Seq(Command)
    BY <1>3, CommandShapes DEF TypeInv, TypeOK
  <2> HIDE DEF m
  <2>3. /\ Copies(Append(declaring, m), r) = d
        /\ Copies(Append(wire, m), r) = w
    BY <2>2, OtherCommand
  <2>4. Copies(declaring', r) = d /\ Copies(wire', r) = w
    BY <2>1, <2>3 DEF m
  <2> QED BY <1>1, <1>2, <2>1, <2>4 DEF r
<1>5. CASE OnChannelOpen
  <2>1. /\ consuming' = {} /\ wire' = <<>>
        /\ declaring' = on_open_cbs \o ConsumerCallbacks
        /\ on_open_cbs \in Seq(Waiting) /\ ConsumerCallbacks \in Seq(Waiting)
        /\ on_open_cbs \in Seq(Deferred)
    BY <1>5, ChannelOpens DEF brokerVars, TypeInv
  <2>2. Copies(ConsumerCallbacks, r) = 1
    BY ConsumerCallbacksType DEF r
  <2>3. Copies(on_open_cbs, r) = 0
    <3>1. r \notin Deferred
      BY <1>3 DEF Deferred
    <3> QED BY <2>1, <3>1, CopiesNone
  <2>4. Copies(on_open_cbs \o ConsumerCallbacks, r)
          = Copies(on_open_cbs, r) + Copies(ConsumerCallbacks, r)
    BY <2>1, CopiesConcat
  <2>5. Copies(<<>>, r) = 0
    BY CopiesEmpty
  <2>6. Copies(declaring', r) = 1 /\ Copies(wire', r) = 0
    BY <2>1, <2>2, <2>3, <2>4, <2>5
  <2> QED BY <2>1, <2>6 DEF r
<1>6. CASE DeclareOk
  <2>1. UNCHANGED <<connection, consuming>>
    BY <1>6 DEF DeclareOk, brokerVars
  <2>2. Copies(declaring', r) + Copies(wire', r) = d + w
    BY <1>6, DeclareKeeps
  <2> QED BY <1>1, <1>2, <2>1, <2>2 DEF r
<1>7. CASE BrokerReceives
  <2>1. /\ wire # <<>> /\ wire' = Tail(wire) /\ connection = "ready"
        /\ declaring' = declaring /\ wire' \in Seq(Sent) /\ wire \in Seq(Sent)
    BY <1>7, BrokerEffect DEF TypeInv
  <2>2. w = Copies(wire', r) + Hit(Head(wire), r) /\ Copies(wire', r) \in Nat
    BY <2>1, CopiesTail, CopiesType
  <2>3. CASE Head(wire) = r
    <3>1. consuming' = consuming \cup {q}
      BY <1>3, <1>7, <2>3, BrokerEffect
    <3>2. Hit(Head(wire), r) = 1
      BY <2>3 DEF Hit
    <3>3. Copies(declaring', r) = d
      BY <2>1
    <3> HIDE DEF d, w
    <3>4. Copies(declaring', r) = 0 /\ Copies(wire', r) = 0
      BY <1>2, <2>1, <2>2, <3>2, <3>3
    <3> QED BY <3>1, <3>4 DEF r
  <2>4. CASE Head(wire) # r
    <3>1. q \in consuming' <=> q \in consuming
      BY <1>7, <2>4, BrokerEffect DEF r
    <3>2. Hit(Head(wire), r) = 0
      BY <2>4 DEF Hit
    <3>3. Copies(declaring', r) = d /\ Copies(wire', r) = w
      BY <2>1, <2>2, <3>2
    <3> QED BY <1>2, <2>1, <3>1, <3>3 DEF r
  <2> QED BY <2>3, <2>4
<1>8. CASE Consume
  <2>1. PICK copy \in Copy :
            /\ wire' = Append(wire, Ack(copy))
            /\ UNCHANGED <<connection, declaring, consuming>>
    BY <1>8 DEF Consume, clientVars, TypeInv, TypeOK
  <2> DEFINE m == Ack(copy)
  <2>2. m \in Command /\ m # r /\ wire \in Seq(Command)
    BY <1>3, CommandShapes DEF TypeInv, TypeOK
  <2> HIDE DEF m
  <2>3. Copies(Append(wire, m), r) = w
    BY <2>2, OtherCommand
  <2>4. Copies(declaring', r) = d /\ Copies(wire', r) = w
    BY <2>1, <2>3 DEF m
  <2> QED BY <1>1, <1>2, <2>1, <2>4 DEF r
<1>9. CASE DjangoPublishes
  BY <1>1, <1>2, <1>9 DEF DjangoPublishes, clientVars, r
<1>10. connection' # "ready" \/ ~ (OnOpen \/ OnConnectionClosed \/ OnConnectionOpenError
                                    \/ Reconnect \/ Restart)
  BY DEF OnOpen, OnConnectionClosed, OnConnectionOpenError, Reconnect, Restart
<1> QED BY <1>1, <1>4, <1>5, <1>6, <1>7, <1>8, <1>9, <1>10 DEF Next

-----------------------------------------------------------------------------
(* Repetitions                                                             *)

(* A body is under way or received once, or has waited for a channel: then *)
(* it is in on_open_cbs at most once, and every new channel, each of which *)
(* but the last has ended in a failure, has sent it at most once.          *)
Once ==
    \A b \in Bodies :
        LET pending == Copies(declaring, Publication(b)) + Copies(wire, Publication(b))
        IN  /\ b \notin accepted => received[b] = 0 /\ pending = 0
            /\ Copies(on_open_cbs, Publication(b)) <= IF b \in deferred THEN 1 ELSE 0
            /\ b \notin deferred => received[b] + pending <= 1
            /\ b \in deferred => received[b] + pending
                                    <= failures + IF connection = "ready" THEN 1 ELSE 0

LEMMA OnceStep ==
    ASSUME TypeInv, Once, Next
    PROVE  Once'
<1>1. SUFFICES ASSUME NEW b \in Bodies
               PROVE  LET p == Publication(b)
                          pending == Copies(declaring', p) + Copies(wire', p)
                      IN  /\ b \notin accepted' => received'[b] = 0 /\ pending = 0
                          /\ Copies(on_open_cbs', p) <= IF b \in deferred' THEN 1 ELSE 0
                          /\ b \notin deferred' => received'[b] + pending <= 1
                          /\ b \in deferred' =>
                                received'[b] + pending
                                    <= failures' + IF connection' = "ready" THEN 1 ELSE 0
  BY DEF Once
<1> DEFINE p == Publication(b)
           d == Copies(declaring, p)
           w == Copies(wire, p)
           o == Copies(on_open_cbs, p)
           n == received[b]
           d1 == Copies(declaring', p)
           w1 == Copies(wire', p)
           o1 == Copies(on_open_cbs', p)
           n1 == received'[b]
<1>2. /\ d \in Nat /\ w \in Nat /\ o \in Nat /\ n \in Nat /\ failures \in Nat
      /\ b \notin accepted => n = 0 /\ d + w = 0
      /\ o <= IF b \in deferred THEN 1 ELSE 0
      /\ b \notin deferred => n + (d + w) <= 1
      /\ b \in deferred => n + (d + w) <= failures + IF connection = "ready" THEN 1 ELSE 0
      /\ b \in deferred => b \in accepted
  <2>1. d \in Nat /\ w \in Nat /\ o \in Nat
    BY CopiesType DEF TypeInv
  <2>2. n \in Nat /\ failures \in Nat
    BY MaxFailuresAssumption DEF TypeInv, TypeOK
  <2> QED BY <2>1, <2>2 DEF Once, TypeInv, TypeOK
<1>3. SUFFICES /\ b \notin accepted' => n1 = 0 /\ d1 + w1 = 0
               /\ o1 <= IF b \in deferred' THEN 1 ELSE 0
               /\ b \notin deferred' => n1 + (d1 + w1) <= 1
               /\ b \in deferred' => n1 + (d1 + w1)
                                        <= failures' + IF connection' = "ready" THEN 1 ELSE 0
  OBVIOUS
<1>4. /\ \A q : Consumer(q) # p
      /\ \A copy : Ack(copy) # p
      /\ \A x \in Bodies : Publication(x) = p => x = b
      /\ p \in Command
  BY CommandShapes
<1>5. /\ declaring \in Seq(Command) /\ wire \in Seq(Command)
      /\ on_open_cbs \in Seq(Command)
  BY DEF TypeInv, TypeOK
<1> HIDE DEF p
<1>6. CASE json_publish
  <2>1. PICK x \in Bodies \ accepted :
              /\ accepted' = accepted \cup {x}
              /\ UNCHANGED <<connection, received, failures>>
              /\ \/ /\ connection # "ready" /\ deferred' = deferred \cup {x}
                    /\ on_open_cbs' = Append(on_open_cbs, Publication(x))
                    /\ UNCHANGED <<declaring, wire>>
                 \/ /\ connection = "ready" /\ UNCHANGED <<on_open_cbs, deferred, wire>>
                    /\ declaring' = Append(declaring, Publication(x))
                 \/ /\ connection = "ready" /\ UNCHANGED <<on_open_cbs, deferred, declaring>>
                    /\ wire' = Append(wire, Publication(x))
    BY <1>6, PublishEffect
  <2> DEFINE m == Publication(x)
  <2>2. m \in Command /\ (m = p <=> x = b)
    BY <1>4, CommandShapes DEF p
  <2> HIDE DEF m
  <2>3. /\ Copies(Append(declaring, m), p) = d + Hit(m, p)
        /\ Copies(Append(wire, m), p) = w + Hit(m, p)
        /\ Copies(Append(on_open_cbs, m), p) = o + Hit(m, p)
        /\ Hit(m, p) = IF x = b THEN 1 ELSE 0
    BY <1>5, <2>2, CopiesAppend DEF Hit
  <2>4. n1 = n /\ failures' = failures /\ connection' = connection
    BY <2>1
  <2>5. CASE /\ connection # "ready" /\ deferred' = deferred \cup {x}
             /\ on_open_cbs' = Append(on_open_cbs, m)
             /\ UNCHANGED <<declaring, wire>>
    <3>1. d1 = d /\ w1 = w /\ o1 = o + IF x = b THEN 1 ELSE 0
      BY <2>3, <2>5
    <3> HIDE DEF d, w, o, n, d1, w1, o1, n1
    <3>2. CASE x = b
      BY <1>2, <2>1, <2>4, <2>5, <3>1, <3>2
    <3>3. CASE x # b
      BY <1>2, <2>1, <2>4, <2>5, <3>1, <3>3
    <3> QED BY <3>2, <3>3
  <2>6. CASE /\ UNCHANGED <<on_open_cbs, deferred>>
             /\ \/ wire' = wire /\ declaring' = Append(declaring, m)
                \/ declaring' = declaring /\ wire' = Append(wire, m)
    <3>1. d1 + w1 = d + w + (IF x = b THEN 1 ELSE 0) /\ o1 = o /\ deferred' = deferred
      <4>1. o1 = o /\ deferred' = deferred
        BY <2>6
      <4>2. CASE wire' = wire /\ declaring' = Append(declaring, m)
        BY <1>2, <2>3, <4>1, <4>2
      <4>3. CASE declaring' = declaring /\ wire' = Append(wire, m)
        BY <1>2, <2>3, <4>1, <4>3
      <4> QED BY <2>6, <4>2, <4>3
    <3> HIDE DEF d, w, o, n, d1, w1, o1, n1
    <3>2. CASE x = b
      BY <1>2, <2>1, <2>4, <3>1, <3>2
    <3>3. CASE x # b
      BY <1>2, <2>1, <2>4, <3>1, <3>3
    <3> QED BY <3>2, <3>3
  <2> QED BY <2>1, <2>5, <2>6 DEF m
<1>7. CASE DjangoPublishes
  <2>1. PICK x \in Bodies \ accepted :
              /\ accepted' = accepted \cup {x} /\ Store(x)
              /\ UNCHANGED <<connection, on_open_cbs, declaring, wire, deferred, failures>>
    BY <1>7 DEF DjangoPublishes, clientVars
  <2>2. n1 = n + IF x = b THEN 1 ELSE 0
    BY <1>2, <2>1 DEF Store, TypeInv, TypeOK
  <2>3. d1 = d /\ w1 = w /\ o1 = o /\ failures' = failures /\ connection' = connection
        /\ deferred' = deferred
    BY <2>1
  <2> HIDE DEF d, w, o, n, d1, w1, o1, n1
  <2>4. CASE x = b
    BY <1>2, <2>1, <2>2, <2>3, <2>4
  <2>5. CASE x # b
    BY <1>2, <2>1, <2>2, <2>3, <2>5
  <2> QED BY <2>4, <2>5
<1>8. CASE OnChannelOpen
  <2>1. /\ connection' = "ready" /\ declaring = <<>> /\ wire = <<>> /\ wire' = <<>>
        /\ declaring' = on_open_cbs \o ConsumerCallbacks
        /\ on_open_cbs \in Seq(Waiting) /\ ConsumerCallbacks \in Seq(Waiting)
        /\ UNCHANGED <<on_open_cbs, accepted, deferred, received, failures>>
    BY <1>8, ChannelOpens DEF historyVars
  <2>2. connection # "ready"
    BY <1>8 DEF OnChannelOpen
  <2>3. Copies(ConsumerCallbacks, p) = 0
    <3>1. p \notin {Consumer(q) : q \in Consumed}
      BY <1>4
    <3> QED BY <3>1, ConsumerCallbacksType, CopiesNone
  <2>4. d1 = o + Copies(ConsumerCallbacks, p)
    BY <2>1, CopiesConcat
  <2>5. d = 0 /\ w = 0 /\ w1 = 0
    BY <2>1, CopiesEmpty
  <2>6. d1 = o /\ o1 = o /\ n1 = n
    BY <1>2, <2>1, <2>3, <2>4
  <2>7. failures' = failures /\ accepted' = accepted /\ deferred' = deferred
    BY <2>1
  <2> HIDE DEF d, w, o, n, d1, w1, o1, n1
  <2>8. CASE b \in deferred
    BY <1>2, <2>1, <2>2, <2>5, <2>6, <2>7, <2>8
  <2>9. CASE b \notin deferred
    BY <1>2, <2>1, <2>5, <2>6, <2>7, <2>9
  <2> QED BY <2>8, <2>9
<1>9. CASE DeclareOk
  <2>1. UNCHANGED <<connection, on_open_cbs, accepted, deferred, received, failures>>
    BY <1>9 DEF DeclareOk, historyVars
  <2>2. d1 + w1 = d + w
    BY <1>9, DeclareKeeps
  <2>3. o1 = o /\ n1 = n
    BY <2>1
  <2> HIDE DEF d, w, o, n, d1, w1, o1, n1
  <2> QED BY <1>2, <2>1, <2>2, <2>3
<1>10. CASE OnConnectionClosed \/ Restart
  <2>1. /\ declaring' = <<>> /\ wire' = <<>>
        /\ UNCHANGED <<accepted, deferred, received>>
        /\ failures' = failures + 1 /\ connection' # "ready"
        /\ on_open_cbs' = <<>> \/ on_open_cbs' = on_open_cbs
    BY <1>10, BreaksEffect DEF Breaks, Disconnect
  <2>2. d1 = 0 /\ w1 = 0 /\ (o1 = 0 \/ o1 = o) /\ n1 = n
    BY <2>1, CopiesEmpty
  <2>3. o1 <= IF b \in deferred' THEN 1 ELSE 0
    BY <1>2, <2>1, <2>2
  <2> HIDE DEF d, w, o, n, d1, w1, o1, n1
  <2>4. CASE b \in deferred
    <3>1. n <= failures + 1
      BY <1>2, <2>4
    <3> QED BY <1>2, <2>1, <2>2, <2>3, <2>4, <3>1
  <2>5. CASE b \notin deferred
    BY <1>2, <2>1, <2>2, <2>3, <2>5
  <2> QED BY <2>4, <2>5
<1>11. CASE BrokerReceives
  <2>1. /\ wire # <<>> /\ wire' = Tail(wire) /\ wire' \in Seq(Sent) /\ wire \in Seq(Sent)
        /\ UNCHANGED <<connection, on_open_cbs, declaring, accepted, deferred, failures>>
    BY <1>11, BrokerEffect DEF TypeInv, clientVars
  <2>2. w = w1 + Hit(Head(wire), p) /\ w1 \in Nat
    BY <2>1, CopiesTail, CopiesType
  <2>3. d1 = d /\ o1 = o
    BY <2>1
  <2>4. n1 = n + Hit(Head(wire), p)
    <3>1. CASE \E x \in accepted : /\ Head(wire) = Publication(x) /\ Store(x)
                                   /\ UNCHANGED <<consuming, unacked>>
      <4>1. PICK x \in Bodies : Head(wire) = Publication(x) /\ Store(x)
        BY <3>1 DEF TypeInv, TypeOK
      <4>2. Hit(Head(wire), p) = IF x = b THEN 1 ELSE 0
        BY <1>4, <4>1 DEF Hit, p
      <4> QED BY <1>2, <4>1, <4>2 DEF Store, TypeInv, TypeOK
    <3>2. CASE received' = received /\ Head(wire) # p
      <4>1. Hit(Head(wire), p) = 0
        BY <3>2 DEF Hit
      <4> QED BY <1>2, <3>2, <4>1
    <3>3. \/ \E x \in accepted : /\ Head(wire) = Publication(x) /\ Store(x)
                                 /\ UNCHANGED <<consuming, unacked>>
          \/ received' = received /\ Head(wire) # p
      BY <1>4, <1>11, BrokerEffect
    <3> QED BY <3>1, <3>2, <3>3
  <2>5. Hit(Head(wire), p) \in Nat
    BY DEF Hit
  <2>6. n1 + (d1 + w1) = n + (d + w) /\ n1 \in Nat /\ d1 \in Nat
    <3> HIDE DEF d, w, o, n, d1, w1, o1, n1
    <3> QED BY <1>2, <2>2, <2>3, <2>4, <2>5
  <2>7. b \notin accepted => n1 = 0 /\ d1 + w1 = 0
    <3> HIDE DEF d, w, o, n, d1, w1, o1, n1
    <3>1. ASSUME b \notin accepted PROVE n1 + (d1 + w1) = 0
      BY <1>2, <2>6, <3>1
    <3>2. w1 \in Nat
      BY <2>2
    <3>3. ASSUME n1 + (d1 + w1) = 0 PROVE n1 = 0 /\ d1 + w1 = 0
      BY <2>6, <3>2, <3>3
    <3> QED BY <3>1, <3>3
  <2> HIDE DEF d, w, o, n, d1, w1, o1, n1
  <2> QED BY <1>2, <2>1, <2>3, <2>6, <2>7
<1>12. CASE Consume
  <2>1. PICK copy \in Copy :
            /\ wire' = Append(wire, Ack(copy))
            /\ UNCHANGED <<connection, on_open_cbs, declaring, accepted, deferred,
                           received, failures>>
    BY <1>12 DEF Consume, clientVars, TypeInv, TypeOK
  <2> DEFINE m == Ack(copy)
  <2>2. m \in Command /\ m # p
    BY <1>4, CommandShapes
  <2> HIDE DEF m
  <2>3. Copies(Append(wire, m), p) = w
    BY <1>5, <2>2, OtherCommand
  <2>4. d1 = d /\ w1 = w /\ o1 = o /\ n1 = n
    BY <2>1, <2>3 DEF m
  <2> HIDE DEF d, w, o, n, d1, w1, o1, n1
  <2> QED BY <1>2, <2>1, <2>4
<1>13. CASE OnOpen \/ OnConnectionOpenError \/ Reconnect
  <2>1. /\ UNCHANGED <<on_open_cbs, declaring, wire, accepted, deferred, received>>
        /\ failures' \in {failures, failures + 1}
        /\ connection # "ready"
    BY <1>13 DEF OnOpen, OnConnectionOpenError, Reconnect, Failure, historyVars
  <2>2. d1 = d /\ w1 = w /\ o1 = o /\ n1 = n
    BY <2>1
  <2>3. failures' \in Nat /\ failures <= failures'
    BY <1>2, <2>1
  <2> HIDE DEF d, w, o, n, d1, w1, o1, n1
  <2>4. CASE b \in deferred
    <3>1. n + (d + w) <= failures
      BY <1>2, <2>1, <2>4
    <3>2. n1 + (d1 + w1) <= failures'
      BY <1>2, <2>2, <2>3, <3>1
    <3>3. n1 + (d1 + w1) \in Nat
      BY <1>2, <2>2
    <3>4. /\ n1 + (d1 + w1) <= failures' + 0
          /\ n1 + (d1 + w1) <= failures' + 1
      BY <2>3, <3>2, <3>3
    <3> QED BY <1>2, <2>1, <2>2, <2>4, <3>4
  <2>5. CASE b \notin deferred
    BY <1>2, <2>1, <2>2, <2>5
  <2> QED BY <2>4, <2>5
<1> QED BY <1>6, <1>7, <1>8, <1>9, <1>10, <1>11, <1>12, <1>13 DEF Next

-----------------------------------------------------------------------------
LEMMA TypeInvariant == Spec => []TypeInv
<1>1. Init => TypeInv
  BY TypeInit
<1>2. TypeInv /\ [Next]_vars => TypeInv'
  <2>1. TypeInv /\ Next => TypeInv'
    BY TypeStep
  <2>2. TypeInv /\ UNCHANGED vars => TypeInv'
    BY DEF TypeInv, TypeOK, Deferred, Waiting, Sent, vars, clientVars, brokerVars,
           historyVars
  <2> QED BY <2>1, <2>2
<1> QED BY <1>1, <1>2, PTL DEF Spec

(* Whatever was deferred, sent or processed, commands, copies and          *)
(* acknowledgements fit together: an unacknowledged copy is in its queue   *)
(* and its ack is on this connection.                                      *)
THEOREM TypeCorrect == Spec => []TypeOK
<1>1. TypeInv => TypeOK
  BY DEF TypeInv
<1> QED BY <1>1, TypeInvariant, PTL

(* The assertions of ensure_queue and finish that there is a channel hold  *)
(* through any sequence of failures and reconnections.                     *)
THEOREM AssertionsNeverFail == Spec => []AssertionsHold
<1>1. TypeInv => AssertionsHold
  BY DEF TypeInv, AssertionsHold
<1> QED BY <1>1, TypeInvariant, PTL

(* On every channel that opens, each consumer is registered exactly once,  *)
(* however many reconnections came before and whatever was deferred.       *)
THEOREM NeverGoesDeaf == Spec => []NeverDeaf
<1> DEFINE IInv == TypeInv /\ Registered
<1>1. Init => IInv
  <2>1. Init => Registered
    BY DEF Init, Registered
  <2> QED BY <2>1, TypeInit
<1>2. IInv /\ [Next]_vars => IInv'
  <2>1. IInv /\ Next => IInv'
    BY TypeStep, RegisteredStep
  <2>2. IInv /\ UNCHANGED vars => IInv'
    BY DEF TypeInv, TypeOK, Deferred, Waiting, Sent, Registered, vars, clientVars,
           brokerVars, historyVars
  <2> QED BY <2>1, <2>2
<1>3. IInv => NeverDeaf
  BY RegisteredIsNeverDeaf
<1> HIDE DEF IInv
<1> QED BY <1>1, <1>2, <1>3, PTL DEF Spec

(* json_publish delivers at most once, but for messages that waited for    *)
(* the first channel: on_open_cbs, which is never emptied, repeats those   *)
(* on every new channel, but never more often than connections failed.     *)
THEOREM OnlyDeferredRepeated == Spec => []OnlyDeferredRepeat
<1> DEFINE IInv == TypeInv /\ Once
<1>1. Init => IInv
  <2>1. ASSUME Init, NEW b \in Bodies
        PROVE  /\ received[b] = 0 /\ failures = 0 /\ b \notin accepted
               /\ b \notin deferred
               /\ Copies(declaring, Publication(b)) = 0
               /\ Copies(wire, Publication(b)) = 0
               /\ Copies(on_open_cbs, Publication(b)) = 0
    BY <2>1, CopiesEmpty DEF Init
  <2>2. Init => Once
    BY <2>1 DEF Once
  <2> QED BY <2>2, TypeInit
<1>2. IInv /\ [Next]_vars => IInv'
  <2>1. IInv /\ Next => IInv'
    BY TypeStep, OnceStep
  <2>2. IInv /\ UNCHANGED vars => IInv'
    BY DEF TypeInv, TypeOK, Deferred, Waiting, Sent, Once, vars, clientVars,
           brokerVars, historyVars
  <2> QED BY <2>1, <2>2
<1>3. IInv => OnlyDeferredRepeat
  <2>1. ASSUME IInv, NEW b \in Bodies, received[b] > 1
        PROVE  b \in deferred /\ received[b] <= failures + 1
    <3> DEFINE d == Copies(declaring, Publication(b))
               w == Copies(wire, Publication(b))
    <3>1. d \in Nat /\ w \in Nat /\ received[b] \in Nat /\ failures \in Nat
      <4>1. received[b] \in Nat /\ failures \in Nat
        BY <2>1, MaxFailuresAssumption DEF TypeInv, TypeOK
      <4>2. d \in Nat /\ w \in Nat
        BY <2>1, CopiesType DEF TypeInv
      <4> QED BY <4>1, <4>2
    <3>2. /\ b \notin deferred => received[b] + (d + w) <= 1
          /\ b \in deferred => received[b] + (d + w)
                                  <= failures + IF connection = "ready" THEN 1 ELSE 0
      BY <2>1 DEF Once
    <3> HIDE DEF d, w
    <3> QED BY <2>1, <3>1, <3>2
  <2> QED BY <2>1 DEF OnlyDeferredRepeat
<1> HIDE DEF IInv
<1> QED BY <1>1, <1>2, <1>3, PTL DEF Spec
=============================================================================
