--------------------------- MODULE LongPollProofs ---------------------------
(***************************************************************************)
(* The safety properties of LongPoll, for any set of merging event types,  *)
(* any number of pushes and any number of failures of the environment.     *)
(***************************************************************************)
EXTENDS LongPollInv, WellFoundedInduction, TLAPS

-----------------------------------------------------------------------------
(* What the operators of PendingLog preserve, for logs of any length.      *)

(* A push keeps the entries within their type.                             *)
LEMMA PushedType ==
    ASSUME NEW entries \in SUBSET Entry, NEW n \in Nat, NEW type \in Types
    PROVE  Pushed(entries, n, type) \in SUBSET Entry
<1> DEFINE merged == {e \in entries : type \in VirtualTypes /\ e.virtual = type}
<1>1. Covered(merged) \in SUBSET Nat
  BY DEF Covered, Entry
<1>2. [id |-> n, covers |-> {n} \cup Covered(merged), virtual |-> type] \in Entry
  BY <1>1 DEF Entry
<1> QED
  BY <1>2 DEF Pushed

(* So does making them final.                                              *)
LEMMA FinalType ==
    ASSUME NEW entries \in SUBSET Entry
    PROVE  Final(entries) \in SUBSET Entry
<1> SUFFICES ASSUME NEW e \in entries
             PROVE  [e EXCEPT !.virtual = Plain] \in Entry
  BY DEF Final
<1> QED
  BY DEF Entry, Types

(* A set of integers that is bounded above has a largest element.          *)
LEMMA MaxExists ==
    ASSUME NEW S \in SUBSET Int, S # {}, NEW c \in Int, \A i \in S : i <= c
    PROVE  \E i \in S : \A j \in S : j <= i
<1> DEFINE T == {c - i : i \in S}
<1>1. T \subseteq Nat
  <2> SUFFICES ASSUME NEW i \in S PROVE c - i \in Nat
    OBVIOUS
  <2> QED
    OBVIOUS
<1>2. T # {}
  OBVIOUS
<1>3. \E x \in T : \A y \in T : ~ (<<y, x>> \in OpToRel(<, Nat))
  <2> HIDE DEF T
  <2> QED
    BY <1>1, <1>2, WFMin, NatLessThanWellFounded
<1>4. PICK x \in T : \A y \in T : ~ (<<y, x>> \in OpToRel(<, Nat))
  BY <1>3
<1>5. \A y \in T : ~ (y < x)
  BY <1>1, <1>4 DEF OpToRel
<1>6. PICK i \in S : x = c - i
  OBVIOUS
<1>7. ASSUME NEW j \in S PROVE j <= i
  <2>1. c - j \in T
    OBVIOUS
  <2> QED
    BY <1>5, <1>6, <2>1
<1> QED
  BY <1>7

(* So the id that a prune reports is that of an event, or the old one.     *)
LEMMA NewestPrunedType ==
    ASSUME NEW entries \in SUBSET Entry, NEW c \in Int, NEW w \in Nat \cup {-1}
    PROVE  NewestPruned(entries, c, w) \in Nat \cup {-1}
<1> DEFINE gone == {e.id : e \in Prunable(entries, c)}
<1>1. gone \in SUBSET Nat /\ \A i \in gone : i <= c
  BY DEF Prunable, Entry
<1>2. CASE gone = {}
  BY <1>2 DEF NewestPruned
<1>3. CASE gone # {}
  <2>1. \E i \in gone : \A j \in gone : j <= i
    <3> HIDE DEF gone
    <3>1. gone \in SUBSET Int
      BY <1>1
    <3> QED
      BY <1>1, <1>3, <3>1, MaxExists
  <2>2. (CHOOSE i \in gone : \A j \in gone : j <= i) \in gone
    BY <2>1
  <2> QED
    BY <1>1, <1>3, <2>2 DEF NewestPruned
<1> QED
  BY <1>2, <1>3

(* The contents of an empty queue are empty.                               *)
LEMMA FinalEmpty == Final({}) = {}
BY DEF Final

(* Ids stay below the next one.                                            *)
LEMMA PushedIds ==
    ASSUME NEW entries \in SUBSET Entry, NEW n \in Nat, NEW type \in Types,
           \A e \in entries : e.id < n
    PROVE  \A e \in Pushed(entries, n, type) : e.id < n + 1
<1> DEFINE merged == {e \in entries : type \in VirtualTypes /\ e.virtual = type}
           new == [id |-> n, covers |-> {n} \cup Covered(merged), virtual |-> type]
<1>1. Pushed(entries, n, type) = (entries \ merged) \cup {new}
  BY DEF Pushed
<1>2. new.id < n + 1
  OBVIOUS
<1>3. \A e \in entries : e.id < n + 1
  BY DEF Entry
<1> HIDE DEF merged, new
<1> QED
  BY <1>1, <1>2, <1>3

(* Making entries final keeps their ids.                                   *)
LEMMA FinalIds ==
    ASSUME NEW entries \in SUBSET Entry, NEW n \in Nat,
           \A e \in entries : e.id < n
    PROVE  \A e \in Final(entries) : e.id < n
BY DEF Final, Entry

(* Making entries final changes none of the pushes they cover.             *)
LEMMA FinalCovered ==
    ASSUME NEW entries \in SUBSET Entry
    PROVE  Covered(Final(entries)) = Covered(entries)
<1>1. ASSUME NEW e \in entries
      PROVE  [e EXCEPT !.virtual = Plain].covers = e.covers
  BY DEF Entry
<1>2. ASSUME NEW k \in Covered(entries) PROVE k \in Covered(Final(entries))
  <2>1. PICK e \in entries : k \in e.covers
    BY <1>2 DEF Covered
  <2>2. [e EXCEPT !.virtual = Plain] \in Final(entries)
    BY DEF Final
  <2> QED
    BY <2>1, <2>2, <1>1 DEF Covered
<1>3. ASSUME NEW k \in Covered(Final(entries)) PROVE k \in Covered(entries)
  <2>1. PICK f \in Final(entries) : k \in f.covers
    BY <1>3 DEF Covered
  <2>2. PICK e \in entries : f = [e EXCEPT !.virtual = Plain]
    BY DEF Final
  <2> QED
    BY <2>1, <2>2, <1>1 DEF Covered
<1> QED
  BY <1>2, <1>3

(* A push covers one more id: its own, alone or with what it merges.       *)
LEMMA PushedExact ==
    ASSUME NEW entries \in SUBSET Entry, NEW n \in Nat, NEW w \in Nat \cup {-1},
           NEW type \in Types, Exact(entries, n, w)
    PROVE  Exact(Pushed(entries, n, type), n + 1, w)
<1> DEFINE merged == {e \in entries : type \in VirtualTypes /\ e.virtual = type}
           new == [id |-> n, covers |-> {n} \cup Covered(merged), virtual |-> type]
<1>1. Pushed(entries, n, type) = (entries \ merged) \cup {new}
  BY DEF Pushed
<1>2. \A k \in Covered(entries) : k \in Nat /\ k < n
  BY DEF Exact
<1>3. Covered(merged) \subseteq Covered(entries)
  BY DEF Covered
<1>4. \A e \in entries \ merged : e.covers \cap new.covers = {}
  <2> SUFFICES ASSUME NEW e \in entries \ merged, NEW k \in e.covers, k \in new.covers
               PROVE  FALSE
    OBVIOUS
  <2>1. k \in Covered(entries)
    BY DEF Covered
  <2>2. k # n
    BY <2>1, <1>2
  <2>3. k \in Covered(merged)
    BY <2>2
  <2>4. PICK f \in merged : k \in f.covers
    BY <2>3 DEF Covered
  <2>5. e \in entries /\ f \in entries /\ e # f
    BY <2>4
  <2>6. e.covers \cap f.covers = {}
    BY <2>5 DEF Exact
  <2> QED
    BY <2>4, <2>6
<1>5. Covered((entries \ merged) \cup {new}) = Covered(entries) \cup {n}
  <2>1. ASSUME NEW k \in Covered((entries \ merged) \cup {new})
        PROVE  k \in Covered(entries) \cup {n}
    <3>1. PICK e \in (entries \ merged) \cup {new} : k \in e.covers
      BY <2>1 DEF Covered
    <3>2. CASE e = new
      BY <3>1, <3>2, <1>3
    <3>3. CASE e \in entries
      BY <3>1, <3>3 DEF Covered
    <3> QED
      BY <3>1, <3>2, <3>3
  <2>2. ASSUME NEW k \in Covered(entries)
        PROVE  k \in Covered((entries \ merged) \cup {new})
    <3>1. PICK e \in entries : k \in e.covers
      BY <2>2 DEF Covered
    <3>2. CASE e \in merged
      <4>1. k \in Covered(merged)
        BY <3>1, <3>2 DEF Covered
      <4>2. k \in new.covers
        BY <4>1
      <4> QED
        BY <4>2 DEF Covered
    <3>3. CASE e \notin merged
      <4>1. e \in (entries \ merged) \cup {new}
        BY <3>1, <3>3
      <4> HIDE DEF merged, new
      <4> QED
        BY <3>1, <4>1 DEF Covered
    <3> QED
      BY <3>2, <3>3
  <2>3. n \in new.covers
    OBVIOUS
  <2>4. n \in Covered((entries \ merged) \cup {new})
    BY <2>3 DEF Covered
  <2> QED
    BY <2>1, <2>2, <2>4
<1>6. \A e \in (entries \ merged) \cup {new} :
         e.id \in e.covers /\ \A k \in e.covers : k <= e.id
  <2>1. new.id = n /\ n \in new.covers
    OBVIOUS
  <2>2. ASSUME NEW k \in new.covers PROVE k <= n
    <3>1. k = n \/ k \in Covered(entries)
      BY <1>3
    <3> QED
      BY <3>1, <1>2
  <2> HIDE DEF merged, new
  <2> QED
    BY <2>1, <2>2 DEF Exact
<1>7. Covered(entries) \cup {n} = (w + 1) .. (n + 1 - 1) /\ w < n + 1
  BY DEF Exact
<1>8. \A e, f \in (entries \ merged) \cup {new} : e # f => e.covers \cap f.covers = {}
  BY <1>4 DEF Exact
<1>9. Exact((entries \ merged) \cup {new}, n + 1, w)
  <2> DEFINE result == (entries \ merged) \cup {new}
  <2>1. Covered(result) = (w + 1) .. (n + 1 - 1)
    BY <1>5, <1>7
  <2>2. /\ \A e \in result : e.id \in e.covers /\ \A k \in e.covers : k <= e.id
        /\ \A e, f \in result : e # f => e.covers \cap f.covers = {}
    BY <1>6, <1>8
  <2>3. Exact(result, n + 1, w)
    <3> HIDE DEF result
    <3> QED
      BY <1>7, <2>1, <2>2 DEF Exact
  <2> QED
    BY <2>3
<1> QED
  BY <1>1, <1>9

(* Making entries final keeps the log exact.                               *)
LEMMA FinalExact ==
    ASSUME NEW entries \in SUBSET Entry, NEW n \in Nat, NEW w \in Nat \cup {-1},
           Exact(entries, n, w)
    PROVE  Exact(Final(entries), n, w)
<1>1. ASSUME NEW f \in Final(entries)
      PROVE  \E e \in entries : /\ f = [e EXCEPT !.virtual = Plain]
                                /\ f.id = e.id /\ f.covers = e.covers
  BY DEF Final, Entry
<1>2. \A e, f \in Final(entries) : e # f => e.covers \cap f.covers = {}
  BY <1>1 DEF Exact
<1>3. \A e \in Final(entries) : e.id \in e.covers /\ \A k \in e.covers : k <= e.id
  BY <1>1 DEF Exact
<1> QED
  BY <1>2, <1>3, FinalCovered DEF Exact

(* A prune at a settled id leaves the entries after it.                    *)
LEMMA PruneLeaves ==
    ASSUME NEW entries \in SUBSET Entry, NEW n \in Nat, NEW w \in Nat \cup {-1},
           NEW c \in Int, Settled(entries, n, w, c)
    PROVE  entries \ Prunable(entries, c) = {e \in entries : c < e.id}
<1>1. \A e \in entries : e.id \in Nat
  BY DEF Entry
<1>2. \A e \in entries : e \in Prunable(entries, c) <=> e.id <= c
  BY <1>1 DEF Prunable, Settled
<1> QED
  BY <1>1, <1>2

(* It leaves exactly the pushes after that id, and reports the id.         *)
LEMMA PruneSettled ==
    ASSUME NEW entries \in SUBSET Entry, NEW n \in Nat, NEW w \in Nat \cup {-1},
           NEW c \in Int, Exact(entries, n, w), Settled(entries, n, w, c)
    PROVE  /\ c \in Nat \cup {-1}
           /\ NewestPruned(entries, c, w) = c
           /\ Exact(entries \ Prunable(entries, c), n, c)
<1> DEFINE gone == {e.id : e \in Prunable(entries, c)}
           rest == entries \ Prunable(entries, c)
<1>1. \A e \in entries : e.id \in Nat /\ e.covers \in SUBSET Nat
  BY DEF Entry
<1>2. \A e \in entries : e \in Prunable(entries, c) <=> e.id <= c
  BY <1>1 DEF Prunable, Settled
<1>3. \A i \in gone : i \in Nat /\ i <= c
  <2>1. \A e \in Prunable(entries, c) : e \in entries /\ e.id <= c
    BY DEF Prunable
  <2> QED
    BY <1>1, <2>1
<1>4. NewestPruned(entries, c, w) = c
  <2>1. CASE gone = {}
    <3>1. \A e \in entries : e.id # c
      BY <2>1, <1>1, <1>2
    <3>2. c = w
      BY <3>1 DEF Settled
    <3> QED
      BY <2>1, <3>2 DEF NewestPruned
  <2>2. CASE gone # {}
    <3>1. c \in gone
      <4>1. CASE c = w
        <5>1. PICK e \in Prunable(entries, c) : TRUE
          BY <2>2
        <5>2. e \in entries /\ e.id <= w /\ e.id \in Covered(entries)
          BY <5>1, <4>1, <1>2 DEF Exact, Covered, Prunable
        <5> QED
          BY <5>2, <1>1 DEF Exact
      <4>2. CASE c # w
        BY <4>2, <1>1, <1>2 DEF Settled
      <4> QED
        BY <4>1, <4>2
    <3> HIDE DEF gone
    <3>2. \A i \in gone : (\A j \in gone : j <= i) => i = c
      BY <3>1, <1>3
    <3>3. \E i \in gone : \A j \in gone : j <= i
      BY <3>1, <1>3
    <3> USE DEF gone
    <3>4. (CHOOSE i \in gone : \A j \in gone : j <= i) = c
      BY <3>2, <3>3
    <3> QED
      BY <2>2, <3>4 DEF NewestPruned
  <2> QED
    BY <2>1, <2>2
<1>5. rest = {e \in entries : c < e.id}
  BY PruneLeaves
<1>6. Covered(rest) = (c + 1) .. (n - 1)
  <2>1. ASSUME NEW k \in Covered(rest) PROVE k \in (c + 1) .. (n - 1)
    <3>1. PICK e \in rest : k \in e.covers
      BY <2>1 DEF Covered
    <3>2. k \in Covered(entries) /\ c < k
      BY <3>1, <1>5, <1>1 DEF Covered, Settled
    <3> QED
      BY <3>2 DEF Exact, Settled
  <2>2. ASSUME NEW k \in (c + 1) .. (n - 1) PROVE k \in Covered(rest)
    <3>1. k \in Covered(entries)
      BY DEF Exact, Settled
    <3>2. PICK e \in entries : k \in e.covers
      BY <3>1 DEF Covered
    <3>3. k <= e.id
      BY <3>2 DEF Exact
    <3>4. e \in rest
      BY <3>2, <3>3, <1>5, <1>1
    <3> QED
      BY <3>2, <3>4 DEF Covered
  <2> QED
    BY <2>1, <2>2
<1>7. Exact(rest, n, c)
  BY <1>6, <1>5 DEF Exact, Settled
<1>8. c \in Nat \cup {-1}
  BY DEF Settled
<1> QED
  BY <1>4, <1>7, <1>8

(* What is settled stays settled: under a push, ...                        *)
LEMMA PushedSettled ==
    ASSUME NEW entries \in SUBSET Entry, NEW n \in Nat, NEW w \in Nat \cup {-1},
           NEW c \in Int, NEW type \in Types,
           Exact(entries, n, w), Settled(entries, n, w, c)
    PROVE  Settled(Pushed(entries, n, type), n + 1, w, c)
<1> DEFINE merged == {e \in entries : type \in VirtualTypes /\ e.virtual = type}
           new == [id |-> n, covers |-> {n} \cup Covered(merged), virtual |-> type]
<1>1. Pushed(entries, n, type) = (entries \ merged) \cup {new}
  BY DEF Pushed
<1>2. c < n
  BY DEF Settled
<1>3. \A e \in merged : ~(e.id <= c)
  BY PlainAssumption DEF Settled
<1>4. \A k \in new.covers : c < k
  <2> SUFFICES ASSUME NEW k \in Covered(merged) PROVE c < k
    BY <1>2
  <2>1. PICK e \in merged : k \in e.covers
    BY DEF Covered
  <2> QED
    BY <2>1, <1>3 DEF Settled
<1>5. c = w \/ \E e \in entries \ merged : e.id = c
  BY <1>3 DEF Settled
<1>6. new.id = n /\ ~(n <= c)
  BY <1>2
<1>7. \A e \in (entries \ merged) \cup {new} :
         IF e.id <= c THEN e.virtual = Plain ELSE \A k \in e.covers : c < k
  <2> HIDE DEF merged, new
  <2> QED
    BY <1>4, <1>6 DEF Settled
<1>8. c \in w .. (n + 1 - 1)
  BY DEF Settled
<1>9. Settled((entries \ merged) \cup {new}, n + 1, w, c)
  <2> HIDE DEF merged, new
  <2> QED
    BY <1>5, <1>7, <1>8 DEF Settled
<1> QED
  BY <1>1, <1>9

(* ... when the entries are made final, ...                                *)
LEMMA FinalSettled ==
    ASSUME NEW entries \in SUBSET Entry, NEW n \in Nat, NEW w \in Nat \cup {-1},
           NEW c \in Int, Settled(entries, n, w, c)
    PROVE  Settled(Final(entries), n, w, c)
<1>1. ASSUME NEW f \in Final(entries)
      PROVE  \E e \in entries : /\ f = [e EXCEPT !.virtual = Plain]
                                /\ f.id = e.id /\ f.covers = e.covers
                                /\ f.virtual = Plain
  BY DEF Final, Entry
<1>2. ASSUME NEW e \in entries
      PROVE  [e EXCEPT !.virtual = Plain] \in Final(entries)
             /\ [e EXCEPT !.virtual = Plain].id = e.id
  BY DEF Final, Entry
<1>3. c = w \/ \E f \in Final(entries) : f.id = c
  BY <1>2 DEF Settled
<1>4. \A f \in Final(entries) :
         IF f.id <= c THEN f.virtual = Plain ELSE \A k \in f.covers : c < k
  BY <1>1 DEF Settled
<1> QED
  BY <1>3, <1>4 DEF Settled

(* ... and under a prune at another settled id before it.                  *)
LEMMA PrunedSettled ==
    ASSUME NEW entries \in SUBSET Entry, NEW n \in Nat, NEW w \in Nat \cup {-1},
           NEW c \in Int, NEW d \in Int, d <= c, Exact(entries, n, w),
           Settled(entries, n, w, c), Settled(entries, n, w, d)
    PROVE  Settled(entries \ Prunable(entries, d), n, d, c)
<1>1. entries \ Prunable(entries, d) = {e \in entries : d < e.id}
  BY PruneLeaves
<1>2. c = d \/ \E e \in {f \in entries : d < f.id} : e.id = c
  <2> SUFFICES ASSUME c # d PROVE \E e \in {f \in entries : d < f.id} : e.id = c
    OBVIOUS
  <2>1. c # w /\ d < c
    BY DEF Settled
  <2>2. PICK e \in entries : e.id = c
    BY <2>1 DEF Settled
  <2> QED
    BY <2>1, <2>2
<1>3. c \in d .. (n - 1)
  BY DEF Settled
<1> QED
  BY <1>1, <1>2, <1>3 DEF Settled

(* After contents() everything pushed so far is settled.                   *)
LEMMA FinalSettlesAll ==
    ASSUME NEW entries \in SUBSET Entry, NEW n \in Nat, NEW w \in Nat \cup {-1},
           Exact(entries, n, w)
    PROVE  Settled(Final(entries), n, w, n - 1)
<1>1. ASSUME NEW f \in Final(entries)
      PROVE  \E e \in entries : /\ f = [e EXCEPT !.virtual = Plain]
                                /\ f.id = e.id /\ f.virtual = Plain
  BY DEF Final, Entry
<1>2. \A e \in entries : e.id \in Nat /\ e.id <= n - 1
  <2> SUFFICES ASSUME NEW e \in entries PROVE e.id \in Nat /\ e.id <= n - 1
    OBVIOUS
  <2>1. e.id \in Covered(entries)
    BY DEF Exact, Covered
  <2> QED
    BY <2>1 DEF Exact
<1>3. n - 1 = w \/ \E f \in Final(entries) : f.id = n - 1
  <2>1. CASE n - 1 # w
    <3>1. n - 1 \in Covered(entries)
      BY <2>1 DEF Exact
    <3>2. PICK e \in entries : n - 1 \in e.covers
      BY <3>1 DEF Covered
    <3>3. e.id = n - 1
      BY <3>2, <1>2 DEF Exact
    <3>4. [e EXCEPT !.virtual = Plain] \in Final(entries)
          /\ [e EXCEPT !.virtual = Plain].id = e.id
      BY DEF Final, Entry
    <3> QED
      BY <3>3, <3>4
  <2> QED
    BY <2>1
<1>4. n - 1 \in w .. (n - 1)
  BY DEF Exact
<1> QED
  BY <1>1, <1>2, <1>3, <1>4 DEF Settled

-----------------------------------------------------------------------------

(* Types.  The id of the newest event of a batch exists because the ids in *)
(* use are bounded, so IdsInv is part of the induction.                    *)

LEMMA InitType == Init => TypeInv
<1> SUFFICES ASSUME Init PROVE TypeInv
  OBVIOUS
<1> USE DEF Init, LogInit, Xhr
<1>1. LogTypeOK
  BY DEF LogTypeOK
<1>2. handler_zero \in Xhr \cup {None} /\ last_event_id \in Nat \cup {-1}
  OBVIOUS
<1>3. IdsInv
  BY DEF IdsInv
<1> QED
  BY <1>1, <1>2, <1>3 DEF TypeOK, TypeInv

LEMMA LastIdType ==
    ASSUME NEW events \in SUBSET Entry, NEW old \in Nat \cup {-1},
           NEW n \in Nat, \A e \in events : e.id < n
    PROVE  /\ LastId(events, old) \in Nat \cup {-1}
           /\ LastId(events, old) \in {old} \cup {e.id : e \in events}
           /\ \A j \in {old} \cup {e.id : e \in events} : j <= LastId(events, old)
<1> DEFINE ids == {old} \cup {e.id : e \in events}
           m == IF n <= old THEN old ELSE n
<1>1. ids \in SUBSET (Nat \cup {-1}) /\ ids # {}
  BY DEF Entry
<1>2. m \in Int /\ \A i \in ids : i <= m
  BY DEF Entry
<1>3. \E i \in ids : \A j \in ids : j <= i
  <2> HIDE DEF ids, m
  <2>1. ids \in SUBSET Int
    BY <1>1
  <2> QED
    BY <1>1, <1>2, <2>1, MaxExists
<1>4. LastId(events, old) = CHOOSE i \in ids : \A j \in ids : j <= i
  BY DEF LastId
<1> HIDE DEF ids
<1>5. LastId(events, old) \in ids /\ \A j \in ids : j <= LastId(events, old)
  BY <1>3, <1>4
<1> QED
  BY <1>1, <1>5 DEF ids

(* What finishing a handler sends and leaves.                              *)
LEMMA SentType ==
    ASSUME TypeOK, NEW ok \in BOOLEAN, NEW events \in SUBSET Entry
    PROVE  SentByFinish(ok, events) \in SUBSET Response
BY DEF SentByFinish, Response, TypeOK

LEMMA DisconnectType ==
    ASSUME TypeOK, disconnect_handler
    PROVE  /\ current_handler_id' \in Xhr \cup {None}
           /\ timeout_handle' \in BOOLEAN
           /\ handlers' \in SUBSET Xhr /\ descriptors' \in SUBSET Xhr
BY DEF Kept, disconnect_handler, TypeOK

LEMMA FinishType ==
    ASSUME TypeOK, NEW ok \in BOOLEAN, finish_current_handler(ok)
    PROVE  /\ current_handler_id' \in Xhr \cup {None}
           /\ timeout_handle' \in BOOLEAN
           /\ handlers' \in SUBSET Xhr /\ descriptors' \in SUBSET Xhr
           /\ open' \in SUBSET Xhr
           /\ mishaps' \in Nat
<1>1. mishaps' \in Nat
  BY DEF finish_current_handler, FinishOutcome, Mishap, TypeOK
<1>2. open' \in SUBSET Xhr
  BY DEF finish_current_handler, OpenAfterFinish, TypeOK
<1>3. CASE current_handler_id # None
  BY <1>1, <1>2, <1>3, DisconnectType DEF finish_current_handler
<1>4. CASE current_handler_id = None
  BY <1>1, <1>2, <1>4 DEF finish_current_handler, TypeOK
<1> QED
  BY <1>3, <1>4

LEMMA AddEventType ==
    ASSUME TypeInv, NEW type \in Types, NEW ok \in BOOLEAN, add_event(type, ok)
    PROVE  TypeInv'
<1> DEFINE queued == Pushed(pending, next_event_id, type)
<1>1. pending \in SUBSET Entry /\ next_event_id \in Nat
  BY DEF TypeInv, TypeOK, LogTypeOK
<1>2. queued \in SUBSET Entry /\ \A e \in queued : e.id < next_event_id + 1
  BY <1>1, PushedType, PushedIds DEF TypeInv, IdsInv
<1>3. Final(queued) \in SUBSET Entry /\ \A e \in Final(queued) : e.id < next_event_id + 1
  <2> HIDE DEF queued
  <2> QED
    BY <1>1, <1>2, FinalType, FinalIds
<1>4. SentByFinish(ok, Final(queued)) \in SUBSET Response
  BY <1>3, SentType DEF TypeInv
<1>5. \A r \in SentByFinish(ok, Final(queued)) : r.events = Final(queued)
  BY DEF SentByFinish
<1> HIDE DEF queued
<1>6. LogTypeOK'
  BY <1>1, <1>2, <1>3 DEF add_event, LogTypeOK, TypeInv, TypeOK, queued
<1>7. IdsInv'
  <2>1. next_event_id' = next_event_id + 1 /\ (pending' = queued \/ pending' = Final(queued))
    BY DEF add_event, queued
  <2>2. \A r \in responses : \A e \in r.events : e.id < next_event_id + 1
    BY <1>1 DEF TypeInv, IdsInv, TypeOK, Response, Entry
  <2>3. responses' = responses \cup SentByFinish(ok, Final(queued))
    BY DEF add_event, queued
  <2> QED
    BY <1>2, <1>3, <1>5, <2>1, <2>2, <2>3 DEF IdsInv
<1>8. responses' \in SUBSET Response
  BY <1>4 DEF add_event, queued, TypeInv, TypeOK
<1> QED
  BY <1>6, <1>7, <1>8, FinishType DEF TypeInv, TypeOK, add_event, loopVars, viewVars

LEMMA ReceivedType ==
    ASSUME TypeInv, NEW q \in requests, Received(q)
    PROVE  /\ q \in Request
           /\ requests' \in SUBSET Request
           /\ handler_zero' \in Xhr \cup {None}
           /\ up' = up /\ page' = page
           /\ UNCHANGED loopVars /\ UNCHANGED viewVars
BY DEF TypeInv, TypeOK, Received, allocate_handler_id, Request

LEMMA AnswerType ==
    ASSUME TypeInv, NEW q \in requests, Received(q), NEW result \in {"bad_queue", "error"},
           Answer(q, result), LogTypeOK', next_event_id' = next_event_id,
           \A e \in pending' : e.id < next_event_id
    PROVE  TypeInv'
<1>1. [xhr |-> q.xhr, result |-> result, events |-> {}] \in Response
  BY ReceivedType DEF Request, Response
<1>2. responses' \in SUBSET Response
  BY <1>1 DEF Answer, TypeInv, TypeOK
<1>3. IdsInv'
  BY DEF Answer, IdsInv, TypeInv
<1>4. /\ requests' \in SUBSET Request /\ handler_zero' \in Xhr \cup {None}
      /\ UNCHANGED <<up, page, loopVars, viewVars, queue_exists, clientVars, mishaps>>
  BY ReceivedType DEF Answer
<1>5. TypeOK'
  BY <1>2, <1>4 DEF TypeInv, TypeOK, loopVars, viewVars, clientVars
<1> QED
  BY <1>3, <1>5 DEF TypeInv

(* Contents of what is left of the queue, however much was pruned.         *)
LEMMA LogPruneType ==
    ASSUME TypeInv, NEW c \in Int, LogPrune(c) \/ LogPruneContents(c)
    PROVE  /\ LogTypeOK'
           /\ next_event_id' = next_event_id
           /\ \A e \in pending' : e.id < next_event_id
<1> DEFINE rest == pending \ Prunable(pending, c)
<1>1. /\ pending \in SUBSET Entry /\ next_event_id \in Nat
      /\ newest_pruned_id \in Nat \cup {-1}
      /\ \A e \in pending : e.id < next_event_id
  BY DEF TypeInv, TypeOK, LogTypeOK, IdsInv
<1>2. rest \in SUBSET Entry /\ \A e \in rest : e.id < next_event_id
  BY <1>1
<1>3. Final(rest) \in SUBSET Entry /\ \A e \in Final(rest) : e.id < next_event_id
  <2> HIDE DEF rest
  <2> QED
    BY <1>1, <1>2, FinalType, FinalIds
<1>4. newest_pruned_id' \in Nat \cup {-1}
  BY <1>1, NewestPrunedType DEF LogPrune, LogPruneContents
<1>5. pending' \in {rest, Final(rest)} /\ next_event_id' = next_event_id
  BY DEF LogPrune, LogPruneContents
<1> HIDE DEF rest
<1> QED
  BY <1>1, <1>2, <1>3, <1>4, <1>5 DEF LogTypeOK

LEMMA FetchType ==
    ASSUME TypeInv, NEW q \in requests, NEW ok \in BOOLEAN,
           FetchRespond(q, ok) \/ FetchBlock(q, ok)
    PROVE  TypeInv'
<1>1. Received(q) /\ UNCHANGED queue_exists /\ LogPruneContents(q.last_event_id)
  BY DEF FetchRespond, FetchBlock, FetchAccepted
<1>2. q \in Request /\ q.last_event_id \in Int /\ q.xhr \in Xhr
  BY <1>1, ReceivedType DEF Request
<1>3. /\ LogTypeOK' /\ next_event_id' = next_event_id
      /\ \A e \in pending' : e.id < next_event_id
  BY <1>1, <1>2, LogPruneType
<1>4. pending' \in SUBSET Entry /\ {} \in SUBSET Entry
  BY <1>3 DEF LogTypeOK
<1>5. CASE FetchRespond(q, ok)
  <2>1. [xhr |-> q.xhr, result |-> "events", events |-> pending'] \in Response
    BY <1>2, <1>4 DEF Response
  <2>2. SentByFinish(ok, pending') \in SUBSET Response
    BY <1>4, SentType DEF TypeInv
  <2>3. responses' \in SUBSET Response
    BY <1>5, <2>1, <2>2 DEF FetchRespond, TypeInv, TypeOK
  <2>4. \A r \in responses' : r \in responses \/ r.events = pending'
    BY <1>5 DEF FetchRespond, SentByFinish
  <2>5. IdsInv'
    BY <1>3, <2>4 DEF IdsInv, TypeInv
  <2>6. finish_current_handler(ok)
    BY <1>5 DEF FetchRespond
  <2> QED
    BY <1>1, <1>3, <2>3, <2>5, <2>6, ReceivedType, FinishType
       DEF TypeInv, TypeOK, loopVars, viewVars
<1>6. CASE FetchBlock(q, ok)
  <2>1. SentByFinish(ok, {}) \in SUBSET Response
    BY <1>4, SentType DEF TypeInv
  <2>2. responses' \in SUBSET Response
    BY <1>6, <2>1 DEF FetchBlock, TypeInv, TypeOK
  <2>3. \A r \in responses' : r \in responses \/ r.events = {}
    BY <1>6 DEF FetchBlock, SentByFinish
  <2>4. IdsInv'
    BY <1>3, <2>3 DEF IdsInv, TypeInv
  <2>5. /\ current_handler_id' \in Xhr /\ timeout_handle' \in BOOLEAN
        /\ handlers' \in SUBSET Xhr /\ descriptors' \in SUBSET Xhr
        /\ open' \in SUBSET Xhr
    BY <1>2, <1>6 DEF FetchBlock, Kept, OpenAfterFinish, TypeInv, TypeOK
  <2>6. mishaps' \in Nat
    BY <1>6 DEF FetchBlock, FinishOutcome, Mishap, TypeInv, TypeOK
  <2> QED
    BY <1>1, <1>3, <2>2, <2>4, <2>5, <2>6, ReceivedType
       DEF TypeInv, TypeOK, loopVars, viewVars
<1> QED
  BY <1>5, <1>6

LEMMA CleanupType ==
    ASSUME TypeInv, NEW q \in requests, NEW ok \in BOOLEAN, Cleanup(q, ok)
    PROVE  TypeInv'
<1>1. /\ pending \in SUBSET Entry /\ next_event_id \in Nat
      /\ \A e \in pending : e.id < next_event_id
  BY DEF TypeInv, TypeOK, LogTypeOK, IdsInv
<1>2. Final(pending) \in SUBSET Entry /\ \A e \in Final(pending) : e.id < next_event_id
  BY <1>1, FinalType, FinalIds
<1>3. responses' \in SUBSET Response
  BY <1>2, SentType DEF Cleanup, TypeInv, TypeOK
<1>4. \A r \in responses' : r \in responses \/ r.events = Final(pending)
  BY DEF Cleanup, SentByFinish
<1>5. IdsInv'
  BY <1>1, <1>2, <1>4 DEF Cleanup, IdsInv, TypeInv
<1>6. LogTypeOK'
  BY <1>1, <1>2 DEF Cleanup, LogTypeOK, TypeInv, TypeOK
<1>7. Received(q) /\ finish_current_handler(ok) /\ queue_exists' = FALSE
  BY DEF Cleanup
<1> QED
  BY <1>3, <1>5, <1>6, <1>7, ReceivedType, FinishType
     DEF TypeInv, TypeOK, loopVars, viewVars

LEMMA ReceiveRequestType ==
    ASSUME TypeInv, ReceiveRequest
    PROVE  TypeInv'
<1>1. PICK q \in requests :
        \/ FetchBadQueue(q) \/ FetchAlreadyPruned(q) \/ FetchNotInQueue(q)
        \/ \E ok \in BOOLEAN : FetchRespond(q, ok) \/ FetchBlock(q, ok) \/ Cleanup(q, ok)
  BY DEF ReceiveRequest
<1>2. CASE UNCHANGED logVars /\ \E result \in {"bad_queue", "error"} : Answer(q, result)
           /\ Received(q)
  <2>1. LogTypeOK' /\ next_event_id' = next_event_id
        /\ \A e \in pending' : e.id < next_event_id
    BY <1>2 DEF logVars, LogTypeOK, TypeInv, TypeOK, IdsInv
  <2> QED
    BY <1>2, <2>1, AnswerType
<1>3. CASE FetchBadQueue(q) \/ FetchAlreadyPruned(q)
  BY <1>2, <1>3 DEF FetchBadQueue, FetchAlreadyPruned
<1>4. CASE FetchNotInQueue(q)
  <2>1. Received(q) /\ LogPrune(q.last_event_id) /\ Answer(q, "error")
    BY <1>4 DEF FetchNotInQueue
  <2>2. q.last_event_id \in Int
    BY <2>1, ReceivedType DEF Request
  <2> QED
    BY <2>1, <2>2, LogPruneType, AnswerType
<1> QED
  BY <1>1, <1>3, <1>4, FetchType, CleanupType

(* The server's other steps.                                               *)
LEMMA ServerType ==
    ASSUME TypeInv,
           OtherRequest \/ OnConnectionClose \/ GcEventQueues \/ Shutdown \/ Crash
    PROVE  TypeInv'
<1>1. LogTypeOK' /\ IdsInv'
  BY DEF TypeInv, TypeOK, IdsInv, LogTypeOK, logVars, OtherRequest, OnConnectionClose,
         GcEventQueues, Shutdown, Crash, ProcessEnds
<1>2. CASE OtherRequest
  BY <1>1, <1>2 DEF OtherRequest, allocate_handler_id, TypeInv, TypeOK, Xhr,
                    clientVars, viewVars
<1>3. CASE OnConnectionClose
  <2>1. PICK x \in open :
          /\ Unless(x # get_events_xhr)
          /\ open' = open \ {x}
          /\ \/ disconnect_handler
             \/ UNCHANGED <<current_handler_id, timeout_handle, handlers, descriptors>>
          /\ UNCHANGED <<logVars, up, queue_exists, handler_zero, requests,
                         responses, page, loopVars, viewVars>>
    BY <1>3 DEF OnConnectionClose
  <2>2. mishaps' \in Nat
    BY <2>1 DEF Unless, Mishap, TypeInv, TypeOK
  <2>3. /\ current_handler_id' \in Xhr \cup {None} /\ timeout_handle' \in BOOLEAN
        /\ handlers' \in SUBSET Xhr /\ descriptors' \in SUBSET Xhr
    BY <2>1, DisconnectType DEF TypeInv, TypeOK
  <2>4. /\ open' \in SUBSET Xhr
        /\ UNCHANGED <<up, queue_exists, handler_zero, requests, responses, page,
                       loopVars, viewVars>>
    BY <2>1 DEF TypeInv, TypeOK
  <2>5. TypeOK'
    BY <1>1, <2>2, <2>3, <2>4 DEF TypeInv, TypeOK, loopVars, viewVars
  <2> QED
    BY <1>1, <2>5 DEF TypeInv
<1>4. CASE GcEventQueues
  <2>1. TypeOK'
    BY <1>1, <1>4 DEF GcEventQueues, TypeInv, TypeOK, clientVars, loopVars, viewVars
  <2> QED
    BY <1>1, <2>1 DEF TypeInv
<1>5. CASE Shutdown \/ Crash
  <2>1. ProcessEnds /\ queue_exists' \in {queue_exists, FALSE}
    BY <1>5 DEF Shutdown, Crash
  <2>2. mishaps' \in Nat
    BY <2>1 DEF ProcessEnds, Mishap, TypeInv, TypeOK
  <2> QED
    BY <1>1, <2>1, <2>2 DEF ProcessEnds, TypeInv, TypeOK, loopVars, viewVars
<1> QED
  BY <1>2, <1>3, <1>4, <1>5

LEMMA StartType == ASSUME TypeInv, Start PROVE TypeInv'
<1>1. /\ pending \in SUBSET Entry /\ next_event_id \in Nat
      /\ \A e \in pending : e.id < next_event_id /\ Restart \in Types
  BY RestartAssumption DEF TypeInv, TypeOK, LogTypeOK, IdsInv, Types
<1>2. /\ Pushed(pending, next_event_id, Restart) \in SUBSET Entry
      /\ \A e \in Pushed(pending, next_event_id, Restart) : e.id < next_event_id + 1
  BY <1>1, RestartAssumption, PushedType, PushedIds DEF Types
<1>3. LogTypeOK' /\ next_event_id' \in {next_event_id, next_event_id + 1}
      /\ \A e \in pending' : e.id < next_event_id'
  BY <1>1, <1>2 DEF Start, LogPush, LogTypeOK, logVars, TypeInv, TypeOK
<1>4. IdsInv'
  <2>1. \A r \in responses : \A e \in r.events : e \in Entry
    BY DEF TypeInv, TypeOK, Response
  <2> QED
    BY <1>1, <1>3, <2>1 DEF Start, IdsInv, TypeInv, Entry
<1> QED
  BY <1>3, <1>4 DEF Start, TypeInv, TypeOK, clientVars, loopVars, viewVars

(* The network's steps.                                                    *)
LEMMA NetworkType ==
    ASSUME TypeInv, LoseRequest \/ LoseResponse
    PROVE  TypeInv'
<1>1. LogTypeOK' /\ IdsInv'
  BY DEF TypeInv, TypeOK, IdsInv, LogTypeOK, logVars, LoseRequest, LoseResponse
<1>2. mishaps' \in Nat
  BY DEF LoseRequest, LoseResponse, Unless, Mishap, TypeInv, TypeOK
<1>3. requests' \in SUBSET Request /\ responses' \in SUBSET Response
  BY DEF LoseRequest, LoseResponse, TypeInv, TypeOK
<1>4. UNCHANGED <<serverVars, page, loopVars, viewVars>>
  BY DEF LoseRequest, LoseResponse
<1> QED
  BY <1>1, <1>2, <1>3, <1>4 DEF TypeInv, TypeOK, serverVars, clientVars, loopVars, viewVars

LEMMA RegisterType == ASSUME TypeInv, Register PROVE TypeInv'
<1>1. LogTypeOK' /\ next_event_id' = next_event_id
      /\ \A e \in pending' : e.id < next_event_id
  <2>1. CASE queue_exists
    BY <2>1, LogPruneType, -1 \in Int DEF Register
  <2>2. CASE ~queue_exists
    BY <2>2 DEF Register, logVars, LogTypeOK, TypeInv, TypeOK, IdsInv
  <2> QED
    BY <2>1, <2>2
<1>2. IdsInv'
  BY <1>1 DEF Register, IdsInv, TypeInv
<1>3. last_event_id' \in Nat \cup {-1}
  BY LastIdType DEF Register, TypeInv, TypeOK, LogTypeOK, IdsInv
<1>4. applied' \in SUBSET Nat
  <2>1. Covered(pending) \in SUBSET Nat
    BY DEF TypeInv, TypeOK, LogTypeOK, Entry, Covered
  <2> QED
    BY <2>1 DEF Register, TypeInv, TypeOK
<1>5. handler_zero' \in Xhr \cup {None} /\ next_xhr' \in Nat
  BY DEF Register, allocate_handler_id, TypeInv, TypeOK, Xhr
<1>6. page' \in {"loaded", "gone"}
  BY DEF Register
<1> QED
  BY <1>1, <1>2, <1>3, <1>4, <1>5, <1>6 DEF Register, TypeInv, TypeOK, clientVars

LEMMA GetEventsType ==
    ASSUME TypeInv, NEW dont_block \in BOOLEAN, NEW after_failure \in BOOLEAN,
           get_events(dont_block, after_failure),
           page' \in {page, "open"}, mishaps' \in Nat
    PROVE  TypeInv'
<1>1. LogTypeOK' /\ IdsInv'
  BY DEF get_events, TypeInv, TypeOK, LogTypeOK, IdsInv, logVars
<1>2. [xhr |-> next_xhr, op |-> "get", last_event_id |-> last_event_id,
       dont_block |-> dont_block \/ after_failure] \in Request
  BY DEF Request, TypeInv, TypeOK, Xhr
<1>3. requests' \in SUBSET Request
  BY <1>2 DEF get_events, TypeInv, TypeOK
<1>4. UNCHANGED <<serverVars, responses, last_event_id, viewVars>>
  BY DEF get_events
<1>5. get_events_xhr' \in Xhr /\ next_xhr' \in Nat
  BY DEF get_events, TypeInv, TypeOK, Xhr
<1>6. get_events_timeout' \in BOOLEAN /\ failing' \in BOOLEAN
  BY Zenon DEF get_events
<1> QED
  BY <1>1, <1>3, <1>4, <1>5, <1>6 DEF TypeInv, TypeOK, serverVars, clientVars, viewVars

LEMMA LoopType ==
    ASSUME TypeInv, Initialize \/ TimerFires \/ RestartGetEvents
    PROVE  TypeInv'
<1>1. page' \in {page, "open"}
  BY DEF Initialize, TimerFires, RestartGetEvents
<1>3. mishaps' = mishaps \/ Mishap
  BY DEF Initialize, TimerFires, RestartGetEvents
<1>4. mishaps' \in Nat
  BY <1>3 DEF Mishap, TypeInv, TypeOK
<1>2. \E dont_block, after_failure \in BOOLEAN : get_events(dont_block, after_failure)
  BY DEF Initialize, TimerFires, RestartGetEvents, TypeInv, TypeOK
<1> QED
  BY <1>1, <1>2, <1>4, GetEventsType

LEMMA DispatchType ==
    ASSUME TypeInv, NEW events \in SUBSET Entry, Dispatch(events)
    PROVE  /\ events_stored_while_loading' \in SUBSET Entry
           /\ applied' \in SUBSET Nat /\ repeated' \in SUBSET Nat
<1> DEFINE all == events_stored_while_loading \cup events
<1>1. all \in SUBSET Entry
  BY DEF TypeInv, TypeOK
<1>2. Covered(all) \in SUBSET Nat
  BY <1>1 DEF Covered, Entry
<1> QED
  BY <1>1, <1>2 DEF Dispatch, TypeInv, TypeOK

LEMMA PageType ==
    ASSUME TypeInv, ReceiveResponse \/ XhrFails \/ HomeViewLoaded \/ Unload
    PROVE  TypeInv'
<1>1. LogTypeOK' /\ IdsInv'
  BY DEF TypeInv, TypeOK, IdsInv, LogTypeOK, logVars, ReceiveResponse, Success,
         ErrorResponse, CallbackOf, XhrFails, HomeViewLoaded, Unload
<1>2. CASE \E r \in responses : Success(r)
  <2>1. PICK r \in responses : Success(r)
    BY <1>2
  <2>2. r.events \in SUBSET Entry /\ \A e \in r.events : e.id < next_event_id
    BY DEF TypeInv, TypeOK, Response, IdsInv
  <2>3. last_event_id' \in Nat \cup {-1}
    BY <2>1, <2>2, LastIdType DEF Success, TypeInv, TypeOK, LogTypeOK
  <2>4. /\ events_stored_while_loading' \in SUBSET Entry
        /\ applied' \in SUBSET Nat /\ repeated' \in SUBSET Nat
    BY <2>1, <2>2, DispatchType DEF Success
  <2> QED
    BY <1>1, <2>1, <2>3, <2>4 DEF Success, CallbackOf, TypeInv, TypeOK,
                                  serverVars, clientVars
<1>3. CASE \E r \in responses : ErrorResponse(r)
  BY <1>1, <1>3 DEF ErrorResponse, CallbackOf, TypeInv, TypeOK, serverVars,
                    clientVars, viewVars
<1>4. CASE XhrFails
  BY <1>1, <1>4 DEF XhrFails, Unless, Mishap, TypeInv, TypeOK, serverVars,
                    clientVars, viewVars
<1>5. CASE HomeViewLoaded
  <2>1. /\ events_stored_while_loading' \in SUBSET Entry
        /\ applied' \in SUBSET Nat /\ repeated' \in SUBSET Nat
    BY <1>5, DispatchType DEF HomeViewLoaded
  <2> QED
    BY <1>1, <1>5, <2>1 DEF HomeViewLoaded, TypeInv, TypeOK, serverVars,
                            clientVars, loopVars
<1>6. CASE Unload
  <2>1. [xhr |-> next_xhr, op |-> "delete", last_event_id |-> -1,
         dont_block |-> FALSE] \in Request
    BY DEF Request, TypeInv, TypeOK, Xhr
  <2>2. requests' \in SUBSET Request
    BY <1>6, <2>1 DEF Unload, TypeInv, TypeOK
  <2>3. next_xhr' \in Nat
    BY <1>6 DEF Unload, TypeInv, TypeOK
  <2>4. /\ UNCHANGED <<serverVars, responses, last_event_id, failing, viewVars, mishaps>>
        /\ page' = "gone" /\ get_events_xhr' = None /\ get_events_timeout' = FALSE
    BY <1>6 DEF Unload
  <2> QED
    BY <1>1, <2>2, <2>3, <2>4 DEF TypeInv, TypeOK, serverVars, clientVars, viewVars
<1> QED
  BY <1>2, <1>3, <1>4, <1>5, <1>6 DEF ReceiveResponse

LEMMA TypeStep == TypeInv /\ [Next]_vars => TypeInv'
<1> SUFFICES ASSUME TypeInv, [Next]_vars PROVE TypeInv'
  OBVIOUS
<1>1. CASE UNCHANGED vars
  BY <1>1 DEF vars, logVars, serverVars, clientVars, loopVars, viewVars,
              TypeInv, TypeOK, IdsInv, LogTypeOK
<1>2. CASE AddEvent \/ Heartbeat
  BY <1>2, AddEventType DEF AddEvent, Heartbeat, Types
<1>3. CASE ReceiveRequest
  BY <1>3, ReceiveRequestType
<1> QED
  BY <1>1, <1>2, <1>3, ServerType, StartType, NetworkType, RegisterType,
     LoopType, PageType DEF Next

(* The state of the queue, of the handlers, of the network and of the page *)
(* has the shape the code gives it.                                        *)
THEOREM TypeCorrect == Spec => []TypeOK
<1>1. Spec => []TypeInv
  BY InitType, TypeStep, PTL DEF Spec
<1>2. TypeInv => TypeOK
  BY DEF TypeInv
<1> QED
  BY <1>1, <1>2, PTL

-----------------------------------------------------------------------------
(***************************************************************************)
(* The server's handlers and the page's poll loop: WaitingHandler,         *)
(* NoHandlerLeak and OneLoop are invariants of LongPoll.                   *)
(***************************************************************************)

LEMMA RestartVirtual == Restart \in VirtualTypes /\ Restart # Plain
BY RestartAssumption, PlainAssumption

LEMMA NoneNotXhr == \A x \in Xhr : x # None
BY NoneAssumption DEF Xhr

(* The contents of an empty queue are empty, pruned or not.                *)
LEMMA NothingPending ==
    Final({}) = {} /\ \A c : Final({} \ Prunable({}, c)) = {}
BY DEF Final, Prunable

-----------------------------------------------------------------------------
(* A handler waits only next to an empty queue.                            *)

(* Disconnecting, and so finishing, leaves nobody waiting.                 *)
LEMMA DisconnectWaiting ==
    ASSUME disconnect_handler PROVE WaitingHandler'
BY DEF disconnect_handler, WaitingHandler

LEMMA FinishWaiting ==
    ASSUME WaitingHandler, NEW ok \in BOOLEAN, finish_current_handler(ok)
    PROVE  current_handler_id' = None /\ ~timeout_handle'
BY DEF finish_current_handler, disconnect_handler, WaitingHandler

LEMMA ReceiveRequestWaiting ==
    ASSUME TypeInv, WaitingHandler, ReceiveRequest
    PROVE  WaitingHandler'
<1>1. PICK q \in requests :
        \/ FetchBadQueue(q) \/ FetchAlreadyPruned(q) \/ FetchNotInQueue(q)
        \/ \E ok \in BOOLEAN : FetchRespond(q, ok) \/ FetchBlock(q, ok) \/ Cleanup(q, ok)
  BY DEF ReceiveRequest
<1>2. up /\ up' = up /\ q.xhr # None
  BY <1>1, NoneNotXhr DEF FetchBadQueue, FetchAlreadyPruned, FetchNotInQueue,
     FetchRespond, FetchBlock, Cleanup, FetchAccepted, Received, TypeInv, TypeOK, Request
<1>3. CASE FetchBadQueue(q) \/ FetchAlreadyPruned(q) \/ FetchNotInQueue(q)
  <2>1. pending' = pending \/ pending' = pending \ Prunable(pending, q.last_event_id)
    BY <1>3 DEF FetchBadQueue, FetchAlreadyPruned, FetchNotInQueue, logVars, LogPrune
  <2>2. UNCHANGED <<queue_exists, clientVars>>
    BY <1>3 DEF FetchBadQueue, FetchAlreadyPruned, FetchNotInQueue, Answer
  <2> QED
    BY <1>2, <2>1, <2>2 DEF WaitingHandler, clientVars
<1>4. CASE \E ok \in BOOLEAN : FetchRespond(q, ok) \/ Cleanup(q, ok)
  <2>1. current_handler_id' = None /\ ~timeout_handle'
    BY <1>4, FinishWaiting DEF FetchRespond, Cleanup
  <2> QED
    BY <2>1 DEF WaitingHandler
<1>5. CASE \E ok \in BOOLEAN : FetchBlock(q, ok)
  BY <1>2, <1>5 DEF FetchBlock, FetchAccepted, WaitingHandler
<1> QED
  BY <1>1, <1>3, <1>4, <1>5

LEMMA WaitingStep ==
    ASSUME TypeInv, WaitingHandler, [Next]_vars
    PROVE  WaitingHandler'
<1>1. CASE AddEvent \/ Heartbeat
  <2>1. current_handler_id' = None /\ ~timeout_handle'
    BY <1>1, FinishWaiting DEF AddEvent, Heartbeat, add_event
  <2> QED
    BY <2>1 DEF WaitingHandler
<1>2. CASE ReceiveRequest
  BY <1>2, ReceiveRequestWaiting
<1>3. CASE OnConnectionClose
  <2>1. PICK x \in open :
          /\ open' = open \ {x}
          /\ IF x \in descriptors THEN disconnect_handler
             ELSE UNCHANGED <<current_handler_id, timeout_handle, handlers, descriptors>>
          /\ UNCHANGED <<pending, up, queue_exists>>
    BY <1>3 DEF OnConnectionClose, logVars
  <2>2. CASE x \in descriptors
    BY <2>1, <2>2, DisconnectWaiting
  <2>3. CASE x \notin descriptors
    BY <2>1, <2>3 DEF WaitingHandler
  <2> QED
    BY <2>2, <2>3
<1>4. CASE GcEventQueues \/ Shutdown \/ Crash \/ Start
  BY <1>4 DEF GcEventQueues, Shutdown, Crash, ProcessEnds, Start, WaitingHandler, clientVars
<1>5. CASE Register
  <2>1. pending' = pending \/ pending' = Final(pending \ Prunable(pending, -1))
    BY <1>5 DEF Register, LogPruneContents, logVars
  <2>2. UNCHANGED <<up, queue_exists, clientVars>>
    BY <1>5 DEF Register
  <2> QED
    BY <2>1, <2>2, NothingPending DEF WaitingHandler, clientVars
<1>6. CASE \/ OtherRequest \/ LoseRequest \/ LoseResponse \/ HomeViewLoaded \/ Unload
           \/ ReceiveResponse \/ XhrFails \/ Initialize \/ TimerFires
           \/ RestartGetEvents \/ UNCHANGED vars
  <2>1. UNCHANGED <<pending, up, queue_exists, clientVars>>
    BY <1>6 DEF OtherRequest, LoseRequest, LoseResponse, HomeViewLoaded, Unload,
       ReceiveResponse, Success, ErrorResponse, CallbackOf, XhrFails, Initialize,
       TimerFires, RestartGetEvents, get_events, vars, serverVars, clientVars, logVars
  <2> QED
    BY <2>1 DEF WaitingHandler, clientVars
<1> QED
  BY <1>1, <1>2, <1>3, <1>4, <1>5, <1>6 DEF Next

(* A handler waits only while the queue is empty, is the one the maps      *)
(* know, and belongs to a queue that exists and a process that runs.       *)
THEOREM WaitingCorrect == Spec => []WaitingHandler
<1>1. Init => WaitingHandler
  BY DEF Init, WaitingHandler
<1>2. TypeInv /\ WaitingHandler /\ [Next]_vars => (TypeInv /\ WaitingHandler)'
  BY TypeStep, WaitingStep
<1> QED
  BY <1>1, <1>2, InitType, PTL DEF Spec

-----------------------------------------------------------------------------
(* One poll loop.                                                          *)

LEMMA OneLoopStep ==
    ASSUME TypeInv, OneLoop, [Next]_vars
    PROVE  OneLoop'
<1>1. CASE Initialize \/ TimerFires \/ RestartGetEvents
  <2>1. get_events_xhr' = next_xhr /\ get_events_timeout' = FALSE
    BY <1>1 DEF Initialize, TimerFires, RestartGetEvents, get_events
  <2>2. next_xhr # None
    BY NoneNotXhr DEF TypeInv, TypeOK, Xhr
  <2> QED
    BY <2>1, <2>2 DEF OneLoop
<1>2. CASE ReceiveResponse \/ XhrFails
  BY <1>2 DEF ReceiveResponse, Success, ErrorResponse, CallbackOf, XhrFails, OneLoop
<1>3. CASE Register \/ Unload
  BY <1>3 DEF Register, Unload, OneLoop
<1>4. CASE \/ AddEvent \/ Heartbeat \/ ReceiveRequest \/ OtherRequest
           \/ OnConnectionClose \/ GcEventQueues \/ Shutdown \/ Crash \/ Start
           \/ LoseRequest \/ LoseResponse \/ HomeViewLoaded \/ UNCHANGED vars
  <2>1. UNCHANGED <<page, get_events_xhr, get_events_timeout>>
    BY <1>4 DEF AddEvent, Heartbeat, add_event, ReceiveRequest, FetchBadQueue,
       FetchAlreadyPruned, FetchNotInQueue, FetchAccepted, FetchRespond, FetchBlock,
       Cleanup, Received, OtherRequest, OnConnectionClose, GcEventQueues, Shutdown,
       Crash, ProcessEnds, Start, LoseRequest, LoseResponse, HomeViewLoaded,
       loopVars, vars
  <2> QED
    BY <2>1 DEF OneLoop
<1> QED
  BY <1>1, <1>2, <1>3, <1>4 DEF Next

(* The poll loop of an open page is always under way in exactly one way, a *)
(* request or a timer.                                                     *)
THEOREM OneLoopCorrect == Spec => []OneLoop
<1>1. Init => OneLoop
  BY DEF Init, OneLoop
<1>2. TypeInv /\ OneLoop /\ [Next]_vars => (TypeInv /\ OneLoop)'
  BY TypeStep, OneLoopStep
<1> QED
  BY <1>1, <1>2, InitType, PTL DEF Spec

-----------------------------------------------------------------------------
(* The names of requests.                                                  *)

(* Tornado takes a request: one fewer is under way.                        *)
LEMMA ReceivedXhr ==
    ASSUME TypeInv, XhrInv, NEW q \in requests, Received(q)
    PROVE  /\ q.xhr \in Xhr /\ q.xhr < next_xhr /\ q.xhr # handler_zero
           /\ requests' = requests \ {q}
           /\ \A p \in requests' : p.xhr # handler_zero' /\ p.xhr # q.xhr
           /\ handler_zero' \in {handler_zero, q.xhr} /\ handler_zero' # None
           /\ UNCHANGED <<page, loopVars>>
<1>1. q \in Request /\ q.xhr \in Xhr
  BY DEF TypeInv, TypeOK, Request
<1>2. \A p \in requests' : p.xhr # q.xhr
  BY DEF Received, XhrInv
<1> QED
  BY <1>1, <1>2, NoneNotXhr DEF Received, allocate_handler_id, XhrInv

(* What a finished handler and an answered request are sent.               *)
LEMMA SentXhr ==
    ASSUME TypeInv, XhrInv, NEW ok, NEW events, NEW r \in SentByFinish(ok, events)
    PROVE  r.xhr < next_xhr /\ r.xhr = current_handler_id /\ r.xhr # None
BY DEF SentByFinish, XhrInv

LEMMA ReceiveRequestXhr ==
    ASSUME TypeInv, XhrInv, WaitingHandler, ReceiveRequest
    PROVE  XhrInv'
<1>1. PICK q \in requests :
        \/ FetchBadQueue(q) \/ FetchAlreadyPruned(q) \/ FetchNotInQueue(q)
        \/ \E ok \in BOOLEAN : FetchRespond(q, ok) \/ FetchBlock(q, ok) \/ Cleanup(q, ok)
  BY DEF ReceiveRequest
<1>2. Received(q)
  BY <1>1 DEF FetchBadQueue, FetchAlreadyPruned, FetchNotInQueue, FetchAccepted,
     FetchRespond, FetchBlock, Cleanup
<1>3. /\ q.xhr \in Xhr /\ q.xhr < next_xhr
      /\ requests' \subseteq requests
      /\ \A p \in requests' : p.xhr # handler_zero'
      /\ handler_zero' \in {handler_zero, q.xhr}
      /\ next_xhr' = next_xhr /\ get_events_xhr' = get_events_xhr
  BY <1>2, ReceivedXhr DEF loopVars
<1>4. current_handler_id' \in {current_handler_id, None, q.xhr}
  <2>1. CASE FetchBadQueue(q) \/ FetchAlreadyPruned(q) \/ FetchNotInQueue(q)
    BY <2>1 DEF FetchBadQueue, FetchAlreadyPruned, FetchNotInQueue, Answer, clientVars
  <2>2. CASE \E ok \in BOOLEAN : FetchRespond(q, ok) \/ Cleanup(q, ok)
    BY <2>2, FinishWaiting DEF FetchRespond, Cleanup
  <2>3. CASE \E ok \in BOOLEAN : FetchBlock(q, ok)
    BY <2>3 DEF FetchBlock
  <2> QED
    BY <1>1, <2>1, <2>2, <2>3
<1>5. \A r \in responses' : r.xhr < next_xhr
  <2> SUFFICES ASSUME NEW r \in responses', r \notin responses PROVE r.xhr < next_xhr
    BY DEF XhrInv
  <2>1. CASE FetchBadQueue(q) \/ FetchAlreadyPruned(q) \/ FetchNotInQueue(q)
    BY <1>3, <2>1 DEF FetchBadQueue, FetchAlreadyPruned, FetchNotInQueue, Answer
  <2>2. ASSUME NEW ok \in BOOLEAN, FetchRespond(q, ok) PROVE r.xhr < next_xhr
    BY <1>3, <2>2, SentXhr DEF FetchRespond
  <2>3. ASSUME NEW ok \in BOOLEAN, FetchBlock(q, ok) PROVE r.xhr < next_xhr
    BY <2>3, SentXhr DEF FetchBlock
  <2>4. ASSUME NEW ok \in BOOLEAN, Cleanup(q, ok) PROVE r.xhr < next_xhr
    BY <2>4, SentXhr DEF Cleanup
  <2> QED
    BY <1>1, <2>1, <2>2, <2>3, <2>4
<1> QED
  BY <1>3, <1>4, <1>5 DEF XhrInv

LEMMA XhrStep ==
    ASSUME TypeInv, XhrInv, WaitingHandler, [Next]_vars
    PROVE  XhrInv'
<1> USE DEF XhrInv
<1>0. next_xhr \in Nat /\ None \notin Nat
  BY NoneAssumption DEF TypeInv, TypeOK
<1>1. CASE AddEvent \/ Heartbeat
  <2>1. PICK type \in Types, ok \in BOOLEAN : add_event(type, ok)
    BY <1>1 DEF AddEvent, Heartbeat, Types
  <2>2. current_handler_id' = None
    BY <2>1, FinishWaiting DEF add_event
  <2>3. \A r \in responses' : r.xhr < next_xhr
    BY <2>1, SentXhr DEF add_event
  <2>4. UNCHANGED <<requests, handler_zero, get_events_xhr, next_xhr>>
    BY <2>1 DEF add_event, loopVars
  <2> QED
    BY <2>2, <2>3, <2>4
<1>2. CASE ReceiveRequest
  BY <1>2, ReceiveRequestXhr
<1>3. CASE OnConnectionClose
  <2>1. current_handler_id' \in {current_handler_id, None}
    BY <1>3 DEF OnConnectionClose, disconnect_handler
  <2>2. UNCHANGED <<requests, responses, handler_zero, get_events_xhr, next_xhr>>
    BY <1>3 DEF OnConnectionClose, loopVars
  <2> QED
    BY <2>1, <2>2
<1>4. CASE Shutdown \/ Crash
  <2>1. /\ current_handler_id' = None /\ handler_zero' = None
        /\ UNCHANGED <<requests, responses, get_events_xhr, next_xhr>>
    BY <1>4 DEF Shutdown, Crash, ProcessEnds, loopVars
  <2>2. \A q \in requests : q.xhr # None
    BY <1>0 DEF TypeInv, TypeOK, Request, Xhr
  <2> QED
    BY <2>1, <2>2
<1>5. CASE GcEventQueues \/ Start \/ HomeViewLoaded \/ UNCHANGED vars
  <2>1. UNCHANGED <<requests, responses, handler_zero, current_handler_id,
                    get_events_xhr, next_xhr>>
    BY <1>5 DEF GcEventQueues, Start, HomeViewLoaded, vars, serverVars, clientVars, loopVars
  <2> QED
    BY <2>1
<1>6. CASE LoseRequest \/ LoseResponse
  <2>1. /\ requests' \subseteq requests /\ responses' \subseteq responses
        /\ UNCHANGED <<handler_zero, current_handler_id, get_events_xhr, next_xhr>>
    BY <1>6 DEF LoseRequest, LoseResponse, serverVars, clientVars, loopVars
  <2> QED
    BY <2>1
<1>7. CASE ReceiveResponse \/ XhrFails
  <2>1. /\ requests' = requests /\ responses' \subseteq responses
        /\ get_events_xhr' = None
        /\ UNCHANGED <<handler_zero, current_handler_id, next_xhr>>
    BY <1>7 DEF ReceiveResponse, Success, ErrorResponse, CallbackOf, XhrFails,
       serverVars, clientVars
  <2>2. \A q \in requests : q.xhr # None
    BY <1>0 DEF TypeInv, TypeOK, Request, Xhr
  <2> QED
    BY <2>1, <2>2
<1>8. CASE OtherRequest \/ Register
  <2>1. /\ handler_zero' \in {handler_zero, next_xhr} /\ next_xhr' = next_xhr + 1
        /\ UNCHANGED <<requests, responses, current_handler_id, get_events_xhr>>
    BY <1>8 DEF OtherRequest, Register, allocate_handler_id, clientVars
  <2>2. \A q \in requests : q.xhr \in Nat
    BY DEF TypeInv, TypeOK, Request, Xhr
  <2>3. \A r \in responses : r.xhr \in Nat
    BY DEF TypeInv, TypeOK, Response, Xhr
  <2>4. \A x \in {current_handler_id, get_events_xhr, handler_zero} \ {None} : x \in Nat
    BY DEF TypeInv, TypeOK, Xhr
  <2> QED
    BY <1>0, <2>1, <2>2, <2>3, <2>4
<1>9. CASE Initialize \/ TimerFires \/ RestartGetEvents \/ Unload
  <2>1. PICK q :
          /\ q.xhr = next_xhr /\ requests' = requests \cup {q}
          /\ next_xhr' = next_xhr + 1
          /\ \/ q.op = "get" /\ get_events_xhr' = next_xhr
             \/ get_events_xhr' = None
          /\ UNCHANGED <<responses, handler_zero, current_handler_id>>
    <3>1. CASE Unload
      BY <3>1 DEF Unload, serverVars, clientVars
    <3>2. CASE \E dont_block, after_failure \in BOOLEAN : get_events(dont_block, after_failure)
      BY <3>2 DEF get_events, serverVars, clientVars
    <3> QED
      BY <1>9, <3>1, <3>2 DEF Initialize, TimerFires, RestartGetEvents, TypeInv, TypeOK
  <2>2. \A p \in requests : p.xhr \in Nat
    BY DEF TypeInv, TypeOK, Request, Xhr
  <2>3. \A r \in responses : r.xhr \in Nat
    BY DEF TypeInv, TypeOK, Response, Xhr
  <2>4. \A x \in {current_handler_id, get_events_xhr, handler_zero} \ {None} : x \in Nat
    BY DEF TypeInv, TypeOK, Xhr
  <2>5. next_xhr # handler_zero
    <3>1. handler_zero = None \/ (handler_zero \in Nat /\ handler_zero < next_xhr)
      BY <2>4
    <3> QED
      BY <1>0, <3>1
  <2>6. \A p \in requests' : p.xhr < next_xhr' /\ p.xhr # handler_zero'
    BY <1>0, <2>1, <2>2, <2>5
  <2>7. \A p \in requests' : p.xhr = get_events_xhr' => p.op = "get"
    BY <1>0, <2>1, <2>2
  <2>8. \A p1, p2 \in requests' : p1.xhr = p2.xhr => p1 = p2
    BY <1>0, <2>1, <2>2
  <2>9. \A x \in {current_handler_id', get_events_xhr', handler_zero'} \ {None} : x < next_xhr'
    BY <1>0, <2>1, <2>4
  <2> QED
    BY <1>0, <2>1, <2>3, <2>6, <2>7, <2>8, <2>9
<1> QED
  BY <1>1, <1>2, <1>3, <1>4, <1>5, <1>6, <1>7, <1>8, <1>9 DEF Next

-----------------------------------------------------------------------------
(* Handler 0.                                                              *)

(* A `restart' event waits when it has been pushed, and waits on when      *)
(* another event is pushed.                                                *)
LEMMA PushRestart ==
    ASSUME NEW entries, NEW n
    PROVE  \E e \in Pushed(entries, n, Restart) : e.virtual = Restart
<1> DEFINE merged == {e \in entries : Restart \in VirtualTypes /\ e.virtual = Restart}
           new == [id |-> n, covers |-> {n} \cup Covered(merged), virtual |-> Restart]
<1>1. new \in Pushed(entries, n, Restart)
  BY DEF Pushed
<1>2. new.virtual = Restart
  OBVIOUS
<1> HIDE DEF new
<1> QED
  BY <1>1, <1>2

LEMMA PushKeepsRestart ==
    ASSUME NEW entries, NEW n, NEW type, \E e \in entries : e.virtual = Restart
    PROVE  \E e \in Pushed(entries, n, type) : e.virtual = Restart
<1>1. PICK e \in entries : e.virtual = Restart
  OBVIOUS
<1>2. CASE type = Restart
  BY <1>2, PushRestart
<1>3. CASE type # Restart
  BY <1>1, <1>3 DEF Pushed
<1> QED
  BY <1>2, <1>3

(* A waiting `restart' event cannot be acknowledged before it is sent.     *)
LEMMA PruneKeepsRestart ==
    ASSUME NEW entries, NEW c, \E e \in entries : e.virtual = Restart
    PROVE  Final(entries \ Prunable(entries, c)) # {}
<1>1. PICK e \in entries : e.virtual = Restart
  OBVIOUS
<1>2. e \in entries \ Prunable(entries, c)
  BY <1>1, RestartVirtual DEF Prunable
<1> QED
  BY <1>2 DEF Final

LEMMA ReceiveRequestZero ==
    ASSUME TypeInv, XhrInv, WaitingHandler, HandlerZeroInv, ReceiveRequest
    PROVE  HandlerZeroInv'
<1>1. PICK q \in requests :
        \/ FetchBadQueue(q) \/ FetchAlreadyPruned(q) \/ FetchNotInQueue(q)
        \/ \E ok \in BOOLEAN : FetchRespond(q, ok) \/ FetchBlock(q, ok) \/ Cleanup(q, ok)
  BY DEF ReceiveRequest
<1>2. Received(q)
  BY <1>1 DEF FetchBadQueue, FetchAlreadyPruned, FetchNotInQueue, FetchAccepted,
     FetchRespond, FetchBlock, Cleanup
<1>3. /\ q.xhr # handler_zero /\ handler_zero' # None
      /\ handler_zero' = IF handler_zero = None THEN q.xhr ELSE handler_zero
  BY <1>2, ReceivedXhr DEF Received, allocate_handler_id
<1>4. CASE FetchBadQueue(q) \/ FetchAlreadyPruned(q) \/ FetchNotInQueue(q)
  <2>1. current_handler_id' = current_handler_id
    BY <1>4 DEF FetchBadQueue, FetchAlreadyPruned, FetchNotInQueue, Answer, clientVars
  <2> QED
    BY <1>3, <2>1 DEF HandlerZeroInv
<1>5. CASE \E ok \in BOOLEAN : FetchRespond(q, ok) \/ Cleanup(q, ok)
  <2>1. current_handler_id' = None
    BY <1>5, FinishWaiting DEF FetchRespond, Cleanup
  <2> QED
    BY <1>3, <2>1 DEF HandlerZeroInv
<1>6. CASE \E ok \in BOOLEAN : FetchBlock(q, ok)
  <2>1. /\ current_handler_id' = q.xhr /\ up /\ queue_exists
        /\ pending' = {}
        /\ pending' = Final(pending \ Prunable(pending, q.last_event_id))
    BY <1>2, <1>6 DEF FetchBlock, FetchAccepted, LogPruneContents, Received
  <2>2. ~ \E e \in pending : e.virtual = Restart
    BY <2>1, PruneKeepsRestart
  <2>3. AcceptsRestart => handler_zero # None
    BY <2>1, <2>2 DEF HandlerZeroInv
  <2> QED
    BY <1>3, <2>1, <2>3 DEF HandlerZeroInv
<1> QED
  BY <1>1, <1>4, <1>5, <1>6

LEMMA HandlerZeroStep ==
    ASSUME TypeInv, XhrInv, WaitingHandler, HandlerZeroInv, [Next]_vars
    PROVE  HandlerZeroInv'
<1> USE DEF HandlerZeroInv
<1>0. next_xhr # None
  BY NoneNotXhr DEF TypeInv, TypeOK, Xhr
<1>1. CASE AddEvent \/ Heartbeat
  <2>1. PICK type \in Types, ok \in BOOLEAN : add_event(type, ok)
    BY <1>1 DEF AddEvent, Heartbeat, Types
  <2>2. current_handler_id' = None /\ UNCHANGED <<up, queue_exists, handler_zero>>
    BY <2>1, FinishWaiting DEF add_event
  <2>3. handler_zero = None => pending' = Pushed(pending, next_event_id, type)
    BY <2>1 DEF add_event
  <2> QED
    BY <2>2, <2>3, PushKeepsRestart
<1>2. CASE ReceiveRequest
  BY <1>2, ReceiveRequestZero
<1>3. CASE OtherRequest \/ Register
  <2>1. handler_zero' = IF handler_zero = None THEN next_xhr ELSE handler_zero
    BY <1>3 DEF OtherRequest, Register, allocate_handler_id
  <2>2. current_handler_id' = current_handler_id
    BY <1>3 DEF OtherRequest, Register, clientVars
  <2> QED
    BY <1>0, <2>1, <2>2
<1>4. CASE OnConnectionClose
  <2>1. /\ current_handler_id' \in {current_handler_id, None}
        /\ UNCHANGED <<pending, up, queue_exists, handler_zero>>
    BY <1>4 DEF OnConnectionClose, disconnect_handler, logVars
  <2> QED
    BY <2>1
<1>5. CASE GcEventQueues
  BY <1>5 DEF GcEventQueues, clientVars
<1>6. CASE Shutdown \/ Crash
  BY <1>6 DEF Shutdown, Crash, ProcessEnds
<1>7. CASE Start
  <2>1. UNCHANGED <<queue_exists, handler_zero, current_handler_id>>
    BY <1>7 DEF Start, clientVars
  <2>2. queue_exists /\ AcceptsRestart => pending' = Pushed(pending, next_event_id, Restart)
    BY <1>7 DEF Start, LogPush
  <2> QED
    BY <2>1, <2>2, PushRestart
<1>8. CASE \/ LoseRequest \/ LoseResponse \/ Initialize \/ TimerFires
           \/ RestartGetEvents \/ ReceiveResponse \/ XhrFails \/ HomeViewLoaded
           \/ Unload \/ UNCHANGED vars
  <2>1. UNCHANGED <<pending, up, queue_exists, handler_zero, current_handler_id>>
    BY <1>8 DEF LoseRequest, LoseResponse, Initialize, TimerFires, RestartGetEvents,
       get_events, ReceiveResponse, Success, ErrorResponse, CallbackOf, XhrFails,
       HomeViewLoaded, Unload, vars, serverVars, clientVars, logVars
  <2> QED
    BY <2>1
<1> QED
  BY <1>1, <1>2, <1>3, <1>4, <1>5, <1>6, <1>7, <1>8 DEF Next

-----------------------------------------------------------------------------
(* The two maps.                                                           *)

LEMMA DisconnectLeak ==
    ASSUME TypeInv, HandlerZeroInv, NoHandlerLeak
    PROVE  AcceptsRestart => Kept(handlers) = {} /\ Kept(descriptors) = {}
<1> SUFFICES ASSUME AcceptsRestart
             PROVE  Kept(handlers) = {} /\ Kept(descriptors) = {}
  OBVIOUS
<1>1. handlers \subseteq {current_handler_id} /\ descriptors \subseteq {current_handler_id}
  BY DEF NoHandlerLeak
<1>2. CASE current_handler_id = None
  <2>1. handlers = {} /\ descriptors = {}
    BY <1>1, <1>2, NoneNotXhr DEF TypeInv, TypeOK
  <2> QED
    BY <2>1 DEF Kept
<1>3. CASE current_handler_id # None
  BY <1>1, <1>3 DEF Kept, HandlerZeroInv
<1> QED
  BY <1>2, <1>3

LEMMA FinishLeak ==
    ASSUME TypeInv, HandlerZeroInv, NoHandlerLeak, NEW ok \in BOOLEAN,
           finish_current_handler(ok)
    PROVE  NoHandlerLeak'
BY DisconnectLeak DEF finish_current_handler, disconnect_handler, NoHandlerLeak

LEMMA ReceiveRequestLeak ==
    ASSUME TypeInv, HandlerZeroInv, NoHandlerLeak, ReceiveRequest
    PROVE  NoHandlerLeak'
<1>1. PICK q \in requests :
        \/ FetchBadQueue(q) \/ FetchAlreadyPruned(q) \/ FetchNotInQueue(q)
        \/ \E ok \in BOOLEAN : FetchRespond(q, ok) \/ FetchBlock(q, ok) \/ Cleanup(q, ok)
  BY DEF ReceiveRequest
<1>2. CASE FetchBadQueue(q) \/ FetchAlreadyPruned(q) \/ FetchNotInQueue(q)
  BY <1>2 DEF FetchBadQueue, FetchAlreadyPruned, FetchNotInQueue, Answer, clientVars,
     NoHandlerLeak
<1>3. CASE \E ok \in BOOLEAN : FetchRespond(q, ok) \/ Cleanup(q, ok)
  BY <1>3, FinishLeak DEF FetchRespond, Cleanup
<1>4. CASE \E ok \in BOOLEAN : FetchBlock(q, ok)
  BY <1>4, DisconnectLeak DEF FetchBlock, NoHandlerLeak
<1> QED
  BY <1>1, <1>2, <1>3, <1>4

LEMMA LeakStep ==
    ASSUME TypeInv, HandlerZeroInv, NoHandlerLeak, [Next]_vars
    PROVE  NoHandlerLeak'
<1>1. CASE AddEvent \/ Heartbeat
  BY <1>1, FinishLeak DEF AddEvent, Heartbeat, add_event
<1>2. CASE ReceiveRequest
  BY <1>2, ReceiveRequestLeak
<1>3. CASE OnConnectionClose
  BY <1>3, DisconnectLeak DEF OnConnectionClose, disconnect_handler, NoHandlerLeak
<1>4. CASE Shutdown \/ Crash
  BY <1>4 DEF Shutdown, Crash, ProcessEnds, NoHandlerLeak
<1>5. CASE \/ OtherRequest \/ GcEventQueues \/ Start \/ LoseRequest \/ LoseResponse
           \/ Register \/ Initialize \/ TimerFires \/ RestartGetEvents
           \/ ReceiveResponse \/ XhrFails \/ HomeViewLoaded \/ Unload \/ UNCHANGED vars
  <2>1. UNCHANGED <<current_handler_id, handlers, descriptors>>
    BY <1>5 DEF OtherRequest, GcEventQueues, Start, LoseRequest, LoseResponse, Register,
       Initialize, TimerFires, RestartGetEvents, get_events, ReceiveResponse, Success,
       ErrorResponse, CallbackOf, XhrFails, HomeViewLoaded, Unload, vars, serverVars,
       clientVars
  <2> QED
    BY <2>1 DEF NoHandlerLeak
<1> QED
  BY <1>1, <1>2, <1>3, <1>4, <1>5 DEF Next

LEMMA InitHandler == Init => HandlerInv
<1> SUFFICES ASSUME Init PROVE HandlerInv
  OBVIOUS
<1>1. TypeInv
  BY InitType
<1>2. XhrInv
  BY DEF Init, XhrInv
<1>3. WaitingHandler /\ NoHandlerLeak
  BY DEF Init, WaitingHandler, NoHandlerLeak
<1>4. HandlerZeroInv
  BY NoneNotXhr DEF Init, HandlerZeroInv, Xhr
<1> QED
  BY <1>1, <1>2, <1>3, <1>4 DEF HandlerInv

LEMMA HandlerStep == HandlerInv /\ [Next]_vars => HandlerInv'
BY TypeStep, WaitingStep, XhrStep, HandlerZeroStep, LeakStep DEF HandlerInv

(* The handler and descriptor maps of a queue that gets `restart' events   *)
(* hold no handler but the one that waits.                                 *)
THEOREM NoLeakCorrect == Spec => []NoHandlerLeak
<1>1. HandlerInv => NoHandlerLeak
  BY DEF HandlerInv
<1> QED
  BY <1>1, InitHandler, HandlerStep, PTL DEF Spec

-----------------------------------------------------------------------------
(***************************************************************************)
(* Exactly-once delivery: ExactlyOnce and NeverRefused are invariants of   *)
(* LongPoll, and LongPoll implements Delivery.                             *)
(*                                                                         *)
(* The argument.  The page's last_event_id, and the id in every request,   *)
(* are settled in the log: no later push can merge into what they          *)
(* acknowledge.  A step never unsettles what it does not prune (LogKept),  *)
(* and a request prunes no further than the page has acknowledged.  So a   *)
(* batch that is sent to the page's current request starts right after its *)
(* last_event_id and ends at a settled id, which the page takes over.      *)
(***************************************************************************)

(* The log.                                                                *)

(* What every step does to the log.                                        *)
LogKept ==
    /\ Exact(pending', next_event_id', newest_pruned_id')
    /\ next_event_id <= next_event_id' /\ newest_pruned_id <= newest_pruned_id'
    /\ \A c \in Int : SettledNow(c) /\ newest_pruned_id' <= c
          => Settled(pending', next_event_id', newest_pruned_id', c)

LEMMA LogTypes ==
    ASSUME TypeInv
    PROVE  /\ pending \in SUBSET Entry /\ next_event_id \in Nat
           /\ newest_pruned_id \in Nat \cup {-1} /\ newest_pruned_id \in Int
           /\ last_event_id \in Nat \cup {-1} /\ last_event_id \in Int
BY DEF TypeInv, TypeOK, LogTypeOK

LEMMA KeptUnchanged ==
    ASSUME TypeInv, QueueInv, UNCHANGED logVars
    PROVE  LogKept
BY LogTypes DEF logVars, LogKept, QueueInv, SettledNow

LEMMA KeptFinal ==
    ASSUME TypeInv, QueueInv, pending' = Final(pending),
           UNCHANGED <<next_event_id, newest_pruned_id>>
    PROVE  LogKept
BY LogTypes, FinalExact, FinalSettled DEF LogKept, QueueInv, SettledNow

LEMMA KeptPush ==
    ASSUME TypeInv, QueueInv, NEW type \in Types,
           LET queued == Pushed(pending, next_event_id, type)
           IN  pending' = queued \/ pending' = Final(queued),
           next_event_id' = next_event_id + 1, UNCHANGED newest_pruned_id
    PROVE  LogKept
<1> DEFINE queued == Pushed(pending, next_event_id, type)
           n == next_event_id + 1
           w == newest_pruned_id
<1>1. queued \in SUBSET Entry /\ Exact(queued, n, w)
  BY LogTypes, PushedType, PushedExact DEF QueueInv
<1>2. \A c \in Int : SettledNow(c) => Settled(queued, n, w, c)
  BY LogTypes, PushedSettled DEF QueueInv, SettledNow
<1>3. n \in Nat /\ w \in Nat \cup {-1} /\ n = next_event_id' /\ w = newest_pruned_id'
  BY LogTypes
<1>4. pending' = queued \/ pending' = Final(queued)
  OBVIOUS
<1>5. next_event_id <= n
  BY LogTypes
<1> HIDE DEF queued, n
<1>6. Exact(Final(queued), n, w) /\
      \A c \in Int : SettledNow(c) => Settled(Final(queued), n, w, c)
  BY <1>1, <1>2, <1>3, FinalExact, FinalSettled
<1> QED
  BY <1>1, <1>2, <1>3, <1>4, <1>5, <1>6, LogTypes DEF LogKept

(* An acknowledgement of a settled id prunes the log exactly up to it.     *)
LEMMA SettledExact ==
    ASSUME TypeInv, QueueInv, NEW d \in Int, SettledNow(d)
    PROVE  /\ d \in Nat \cup {-1} /\ NewestPruned(pending, d, newest_pruned_id) = d
           /\ Exact(pending \ Prunable(pending, d), next_event_id, d)
BY LogTypes, PruneSettled DEF QueueInv, SettledNow

LEMMA KeptPrune ==
    ASSUME TypeInv, QueueInv, NEW d \in Int, SettledNow(d),
           LogPrune(d) \/ LogPruneContents(d)
    PROVE  LogKept /\ newest_pruned_id' = d
<1> DEFINE rest == pending \ Prunable(pending, d)
           n == next_event_id
<1>1. /\ d \in Nat \cup {-1} /\ n \in Nat /\ rest \in SUBSET Entry
      /\ NewestPruned(pending, d, newest_pruned_id) = d
      /\ Exact(rest, n, d)
  BY LogTypes, PruneSettled DEF QueueInv, SettledNow
<1>2. \A c \in Int : SettledNow(c) /\ d <= c => Settled(rest, n, d, c)
  BY LogTypes, PrunedSettled DEF QueueInv, SettledNow
<1>3. /\ pending' = rest \/ pending' = Final(rest)
      /\ newest_pruned_id' = d /\ next_event_id' = n
  BY <1>1 DEF LogPrune, LogPruneContents
<1>4. newest_pruned_id <= d
  BY LogTypes DEF SettledNow, Settled
<1> HIDE DEF rest
<1>5. Exact(Final(rest), n, d)
  BY <1>1, FinalExact
<1>6. \A c \in Int : Settled(rest, n, d, c) => Settled(Final(rest), n, d, c)
  BY <1>1, FinalSettled
<1> QED
  BY <1>1, <1>2, <1>3, <1>4, <1>5, <1>6 DEF LogKept

-----------------------------------------------------------------------------
(* Batches.                                                                *)

(* The page's new last_event_id is the end of the batch.                   *)
LEMMA LastIdBatch ==
    ASSUME NEW events \in SUBSET Entry, NEW c \in Nat \cup {-1}, NEW b \in Int, c <= b,
           WellCovered(events), Covered(events) = (c + 1) .. b
    PROVE  LastId(events, c) = b
<1>1. \A e \in events : e.id \in (c + 1) .. b
  BY DEF WellCovered, Covered
<1>2. b \in {c} \cup {e.id : e \in events}
  <2>1. CASE b = c
    BY <2>1
  <2>2. CASE b # c
    <3>1. b \in Covered(events)
      BY <2>2
    <3>2. PICK e \in events : b \in e.covers
      BY <3>1 DEF Covered
    <3>3. b <= e.id /\ e.id <= b /\ e.id \in Int
      BY <1>1, <3>2 DEF WellCovered, Entry
    <3>4. b = e.id
      BY <3>3
    <3> QED
      BY <3>4
  <2> QED
    BY <2>1, <2>2
<1>3. b + 1 \in Nat /\ \A e \in events : e.id < b + 1
  BY <1>1
<1>4. /\ LastId(events, c) \in {c} \cup {e.id : e \in events}
      /\ \A j \in {c} \cup {e.id : e \in events} : j <= LastId(events, c)
  BY <1>3, LastIdType
<1>5. b <= LastId(events, c)
  BY <1>2, <1>4
<1>6. LastId(events, c) <= b /\ LastId(events, c) \in Int
  BY <1>1, <1>4
<1> QED
  BY <1>5, <1>6

(* A batch stays the next one while the log keeps what is settled.         *)
LEMMA BatchStays ==
    ASSUME NEW events, NEW c \in Int,
           NEW entries, NEW n \in Int, NEW w, NEW entries2, NEW n2 \in Int, NEW w2 \in Int,
           n <= n2, w2 <= c,
           \A i \in Int : Settled(entries, n, w, i) /\ w2 <= i => Settled(entries2, n2, w2, i),
           Batch(events, entries, n, w, c)
    PROVE  Batch(events, entries2, n2, w2, c)
<1>1. PICK b \in c .. (n - 1) :
          Covered(events) = (c + 1) .. b /\ Settled(entries, n, w, b)
  BY DEF Batch
<1>2. b \in c .. (n2 - 1) /\ w2 <= b /\ b \in Int
  OBVIOUS
<1> QED
  BY <1>1, <1>2 DEF Batch

(* So after a step, a batch that was next still is, unless the page has    *)
(* moved on or the queue has been pruned beyond it.                        *)
LEMMA BatchKept ==
    ASSUME TypeInv, TypeInv', LogKept, newest_pruned_id' <= last_event_id,
           last_event_id' = last_event_id, NEW events, NextBatch(events)
    PROVE  NextBatch(events)'
<1>1. /\ next_event_id \in Int /\ next_event_id' \in Int /\ newest_pruned_id' \in Int
      /\ last_event_id \in Int
  BY DEF TypeInv, TypeOK, LogTypeOK
<1>2. Batch(events, pending', next_event_id', newest_pruned_id', last_event_id)
  BY <1>1, BatchStays DEF LogKept, SettledNow, NextBatch
<1> QED
  BY <1>2 DEF NextBatch

(* What is left after a prune at c is the batch after c, once it is final. *)
LEMMA FullBatch ==
    ASSUME NEW rest \in SUBSET Entry, NEW n \in Nat, NEW c \in Nat \cup {-1},
           Exact(rest, n, c)
    PROVE  Batch(Final(rest), Final(rest), n, c, c)
<1>1. Exact(Final(rest), n, c) /\ Settled(Final(rest), n, c, n - 1)
  BY FinalExact, FinalSettlesAll
<1>2. WellCovered(Final(rest)) /\ Covered(Final(rest)) = (c + 1) .. (n - 1) /\ c < n
  BY <1>1 DEF Exact, WellCovered
<1>3. n - 1 \in c .. (n - 1)
  BY <1>2
<1> QED
  BY <1>1, <1>2, <1>3 DEF Batch

-----------------------------------------------------------------------------
(* What the steps do to the log.                                           *)

(* A request that is not refused acknowledges a settled id, ...            *)
LEMMA AcceptedSettled ==
    ASSUME DeliveryInv, NEW q \in requests, q.op = "get",
           q.last_event_id >= newest_pruned_id
    PROVE  /\ q.last_event_id \in Int /\ SettledNow(q.last_event_id)
           /\ q.last_event_id <= last_event_id
           /\ Acknowledged(q) = q.last_event_id
<1>1. /\ q.last_event_id \in Int /\ SettledNow(q.last_event_id)
      /\ q.last_event_id <= last_event_id
  BY LogTypes DEF DeliveryInv, HandlerInv, TypeInv, TypeOK, Request, RequestInv
<1>2. Acknowledged(q) = q.last_event_id
  BY <1>1, SettledExact DEF DeliveryInv, HandlerInv, Acknowledged
<1> QED
  BY <1>1, <1>2

(* ... so it is always in the queue, and prunes exactly up to it.          *)
LEMMA AcceptedKept ==
    ASSUME DeliveryInv, NEW q \in requests, FetchAccepted(q)
    PROVE  /\ LogKept /\ newest_pruned_id' = q.last_event_id
           /\ q.last_event_id <= last_event_id
<1>1. /\ q.last_event_id \in Int /\ SettledNow(q.last_event_id)
      /\ q.last_event_id <= last_event_id
  BY AcceptedSettled DEF FetchAccepted
<1>2. LogPruneContents(q.last_event_id)
  BY DEF FetchAccepted
<1> QED
  BY <1>1, <1>2, KeptPrune DEF DeliveryInv, HandlerInv

LEMMA ReceiveRequestLog ==
    ASSUME DeliveryInv, ReceiveRequest
    PROVE  LogKept /\ newest_pruned_id' <= last_event_id
<1>0. newest_pruned_id <= last_event_id /\ TypeInv /\ QueueInv
  BY LogTypes DEF DeliveryInv, HandlerInv, QueueInv, SettledNow, Settled
<1>1. PICK q \in requests :
        \/ FetchBadQueue(q) \/ FetchAlreadyPruned(q) \/ FetchNotInQueue(q)
        \/ \E ok \in BOOLEAN : FetchRespond(q, ok) \/ FetchBlock(q, ok) \/ Cleanup(q, ok)
  BY DEF ReceiveRequest
<1>2. CASE FetchBadQueue(q) \/ FetchAlreadyPruned(q)
  <2>1. UNCHANGED logVars
    BY <1>2 DEF FetchBadQueue, FetchAlreadyPruned
  <2> QED
    BY <2>1, <1>0, KeptUnchanged DEF logVars
<1>3. CASE FetchNotInQueue(q)
  BY <1>3, AcceptedSettled DEF FetchNotInQueue, Received
<1>4. CASE \E ok \in BOOLEAN : FetchRespond(q, ok) \/ FetchBlock(q, ok)
  BY <1>4, AcceptedKept DEF FetchRespond, FetchBlock
<1>5. CASE \E ok \in BOOLEAN : Cleanup(q, ok)
  <2>1. /\ pending' = pending \/ pending' = Final(pending)
        /\ UNCHANGED <<next_event_id, newest_pruned_id>>
    BY <1>5 DEF Cleanup
  <2>2. CASE pending' = pending
    BY <2>1, <2>2, <1>0, KeptUnchanged DEF logVars
  <2>3. CASE pending' = Final(pending)
    BY <2>1, <2>3, <1>0, KeptFinal
  <2> QED
    BY <2>1, <2>2, <2>3
<1> QED
  BY <1>1, <1>2, <1>3, <1>4, <1>5

(* While the page loads, nothing has been acknowledged.                    *)
LEMMA RegisterLog ==
    ASSUME DeliveryInv, Register
    PROVE  /\ LogKept /\ newest_pruned_id' = -1 /\ last_event_id = -1
           /\ pending \ Prunable(pending, -1) = pending
<1>1. newest_pruned_id = -1 /\ last_event_id = -1 /\ TypeInv /\ QueueInv
  BY DEF DeliveryInv, HandlerInv, LoadInv, Register
<1>2. LogKept /\ newest_pruned_id' = -1
  <2>1. CASE queue_exists
    <3>1. SettledNow(-1) /\ LogPruneContents(-1)
      BY <1>1, <2>1 DEF QueueInv, Register
    <3> QED
      BY <1>1, <3>1, KeptPrune
  <2>2. CASE ~queue_exists
    BY <1>1, <2>2, KeptUnchanged DEF Register, logVars
  <2> QED
    BY <2>1, <2>2
<1>3. Prunable(pending, -1) = {}
  BY <1>1, LogTypes DEF Prunable, Entry
<1> QED
  BY <1>1, <1>2, <1>3

LEMMA LogStep ==
    ASSUME DeliveryInv, [Next]_vars
    PROVE  LogKept /\ newest_pruned_id' <= last_event_id
<1>0. newest_pruned_id <= last_event_id /\ TypeInv /\ QueueInv
  BY LogTypes DEF DeliveryInv, HandlerInv, QueueInv, SettledNow, Settled
<1>1. CASE AddEvent \/ Heartbeat
  <2>1. PICK type \in Types, ok \in BOOLEAN : add_event(type, ok)
    BY <1>1 DEF AddEvent, Heartbeat, Types
  <2>2. /\ \/ pending' = Pushed(pending, next_event_id, type)
           \/ pending' = Final(Pushed(pending, next_event_id, type))
        /\ next_event_id' = next_event_id + 1 /\ UNCHANGED newest_pruned_id
    BY <2>1 DEF add_event
  <2> QED
    BY <2>2, <1>0, KeptPush
<1>2. CASE ReceiveRequest
  BY <1>2, ReceiveRequestLog
<1>3. CASE Start
  <2>1. CASE queue_exists /\ AcceptsRestart
    BY <1>0, <1>3, <2>1, KeptPush, RestartVirtual DEF Start, LogPush, Types
  <2>2. CASE ~(queue_exists /\ AcceptsRestart)
    BY <1>0, <1>3, <2>2, KeptUnchanged DEF Start, logVars
  <2> QED
    BY <2>1, <2>2
<1>4. CASE Register
  BY <1>4, RegisterLog
<1>5. CASE \/ OtherRequest \/ OnConnectionClose \/ GcEventQueues \/ Shutdown \/ Crash
           \/ LoseRequest \/ LoseResponse \/ Initialize \/ TimerFires
           \/ RestartGetEvents \/ ReceiveResponse \/ XhrFails \/ HomeViewLoaded
           \/ Unload \/ UNCHANGED vars
  <2>1. UNCHANGED logVars
    BY <1>5 DEF OtherRequest, OnConnectionClose, GcEventQueues, Shutdown, Crash,
       ProcessEnds, LoseRequest, LoseResponse, Initialize, TimerFires,
       RestartGetEvents, get_events, ReceiveResponse, Success, ErrorResponse,
       CallbackOf, XhrFails, HomeViewLoaded, Unload, vars
  <2> QED
    BY <2>1, <1>0, KeptUnchanged DEF logVars
<1> QED
  BY <1>1, <1>2, <1>3, <1>4, <1>5 DEF Next

-----------------------------------------------------------------------------
(* The parts of the invariant that do not speak of the contents.           *)

LEMMA LoadStep ==
    ASSUME DeliveryInv, [Next]_vars
    PROVE  LoadInv'
<1> USE DEF DeliveryInv, LoadInv
<1>1. CASE AddEvent \/ Heartbeat
  <2>1. PICK type \in Types, ok \in BOOLEAN : add_event(type, ok)
    BY <1>1 DEF AddEvent, Heartbeat, Types
  <2>2. /\ current_handler_id' = None
        /\ UNCHANGED <<newest_pruned_id, requests, page, loopVars, viewVars>>
    BY <2>1, FinishWaiting DEF add_event, HandlerInv
  <2> QED
    BY <2>2 DEF loopVars, viewVars
<1>2. CASE ReceiveRequest
  <2>1. requests # {} /\ page' = page
    BY <1>2 DEF ReceiveRequest, FetchBadQueue, FetchAlreadyPruned, FetchNotInQueue,
       FetchAccepted, FetchRespond, FetchBlock, Cleanup, Received
  <2> QED
    BY <2>1
<1>3. CASE OnConnectionClose \/ Shutdown \/ Crash
  <2>1. /\ current_handler_id' \in {current_handler_id, None}
        /\ UNCHANGED <<newest_pruned_id, requests, page, loopVars, viewVars>>
    BY <1>3 DEF OnConnectionClose, disconnect_handler, Shutdown, Crash, ProcessEnds, logVars
  <2> QED
    BY <2>1 DEF loopVars, viewVars
<1>4. CASE Start
  BY <1>4 DEF Start, LogPush, logVars, clientVars, loopVars, viewVars
<1>5. CASE Register
  BY <1>5 DEF Register, clientVars
<1>6. CASE Initialize \/ TimerFires \/ RestartGetEvents \/ ReceiveResponse \/ XhrFails
           \/ HomeViewLoaded \/ Unload
  <2>1. page' \notin {"loading", "loaded"}
    BY <1>6 DEF Initialize, TimerFires, RestartGetEvents, ReceiveResponse, Success,
       ErrorResponse, CallbackOf, XhrFails, HomeViewLoaded, Unload
  <2> QED
    BY <2>1
<1>7. CASE OtherRequest \/ GcEventQueues \/ LoseRequest \/ LoseResponse \/ UNCHANGED vars
  <2>1. /\ requests' \subseteq requests
        /\ UNCHANGED <<newest_pruned_id, page, current_handler_id, last_event_id,
                       get_events_xhr, get_events_timeout, viewVars>>
    BY <1>7 DEF OtherRequest, GcEventQueues, LoseRequest, LoseResponse, vars, logVars,
       serverVars, clientVars, loopVars
  <2> QED
    BY <2>1 DEF viewVars
<1> QED
  BY <1>1, <1>2, <1>3, <1>4, <1>5, <1>6, <1>7 DEF Next

(* The end of a batch is what the page takes over as its last_event_id.    *)
LEMMA SuccessBatch ==
    ASSUME DeliveryInv, NEW r \in responses, Success(r)
    PROVE  /\ UNCHANGED logVars /\ SettledNow(last_event_id')
           /\ last_event_id' \in last_event_id .. (next_event_id - 1)
           /\ Covered(r.events) = (last_event_id + 1) .. last_event_id'
           /\ r.events \in SUBSET Entry
<1>1. /\ r.xhr = get_events_xhr /\ r.result = "events" /\ UNCHANGED logVars
      /\ last_event_id' = LastId(r.events, last_event_id)
  BY DEF Success, CallbackOf
<1>2. NextBatch(r.events)
  BY <1>1 DEF DeliveryInv, ResponseInv
<1>3. r.events \in SUBSET Entry
  BY DEF DeliveryInv, HandlerInv, TypeInv, TypeOK, Response
<1>4. last_event_id \in Nat \cup {-1} /\ next_event_id \in Nat
  BY LogTypes DEF DeliveryInv, HandlerInv
<1>5. PICK b \in last_event_id .. (next_event_id - 1) :
          Covered(r.events) = (last_event_id + 1) .. b /\ SettledNow(b)
  BY <1>2 DEF NextBatch, Batch, SettledNow
<1>6. WellCovered(r.events)
  BY <1>2 DEF NextBatch, Batch
<1>7. b \in Int /\ last_event_id <= b
  BY <1>4
<1>8. LastId(r.events, last_event_id) = b
  BY <1>3, <1>4, <1>5, <1>6, <1>7, LastIdBatch
<1> QED
  BY <1>1, <1>3, <1>5, <1>8

(* The page that registers has everything, and it is settled.              *)
LEMMA RegisterBatch ==
    ASSUME DeliveryInv, Register, last_event_id' # last_event_id \/ applied' # applied
    PROVE  /\ last_event_id' = next_event_id - 1 /\ next_event_id' = next_event_id
           /\ Settled(pending', next_event_id', newest_pruned_id', last_event_id')
           /\ applied' = 0 .. last_event_id'
<1>1. /\ queue_exists /\ LogPruneContents(-1) /\ applied' = Covered(pending)
      /\ last_event_id' = LastId(pending, -1)
  BY DEF Register
<1>2. /\ newest_pruned_id = -1 /\ newest_pruned_id' = -1
      /\ pending' = Final(pending) /\ next_event_id' = next_event_id
  BY <1>1, RegisterLog DEF LogPruneContents, DeliveryInv, LoadInv, Register
<1>3. /\ pending \in SUBSET Entry /\ next_event_id \in Nat
      /\ Exact(pending, next_event_id, -1)
  BY <1>2, LogTypes DEF DeliveryInv, HandlerInv, QueueInv
<1>4. /\ WellCovered(pending) /\ Covered(pending) = 0 .. (next_event_id - 1)
      /\ next_event_id - 1 \in Int /\ -1 <= next_event_id - 1
      /\ Covered(pending) = ((-1) + 1) .. (next_event_id - 1)
  BY <1>3 DEF Exact, WellCovered
<1>5. last_event_id' = next_event_id - 1
  BY <1>1, <1>3, <1>4, LastIdBatch
<1>6. Settled(Final(pending), next_event_id, -1, next_event_id - 1)
  BY <1>3, FinalSettlesAll
<1> QED
  BY <1>1, <1>2, <1>4, <1>5, <1>6

-----------------------------------------------------------------------------
(* What the page has is settled, and so is what its requests acknowledge.  *)

(* Only a response with events and the registration change last_event_id.  *)
LEMMA LastKept ==
    ASSUME DeliveryInv, [Next]_vars, ~ReceiveResponse, ~Register
    PROVE  last_event_id' = last_event_id
BY DEF Next, AddEvent, Heartbeat, add_event, ReceiveRequest, FetchBadQueue,
   FetchAlreadyPruned, FetchNotInQueue, FetchAccepted, FetchRespond, FetchBlock, Cleanup,
   Received, OtherRequest, OnConnectionClose, GcEventQueues, Shutdown, Crash, ProcessEnds,
   Start, LoseRequest, LoseResponse, Initialize, TimerFires, RestartGetEvents, get_events,
   XhrFails, HomeViewLoaded, Unload, vars, loopVars

LEMMA LastStep ==
    ASSUME DeliveryInv, TypeInv', [Next]_vars
    PROVE  /\ last_event_id <= last_event_id'
           /\ Settled(pending', next_event_id', newest_pruned_id', last_event_id')
<1>0. /\ last_event_id \in Nat \cup {-1} /\ last_event_id \in Int /\ next_event_id \in Nat
      /\ SettledNow(last_event_id) /\ LogKept /\ newest_pruned_id' <= last_event_id
  BY LogTypes, LogStep DEF DeliveryInv, HandlerInv, QueueInv
<1>1. CASE last_event_id' = last_event_id
  <2>1. last_event_id <= last_event_id'
    BY <1>0, <1>1
  <2>2. Settled(pending', next_event_id', newest_pruned_id', last_event_id)
    BY <1>0 DEF LogKept
  <2> QED
    BY <1>1, <2>1, <2>2
<1>2. CASE \E r \in responses : Success(r)
  <2>1. /\ UNCHANGED logVars /\ SettledNow(last_event_id')
        /\ last_event_id' \in last_event_id .. (next_event_id - 1)
    BY <1>2, SuccessBatch
  <2>2. last_event_id <= last_event_id'
    BY <1>0, <2>1
  <2> QED
    BY <2>1, <2>2 DEF SettledNow, logVars
<1>3. CASE \E r \in responses : ErrorResponse(r)
  BY <1>1, <1>3 DEF ErrorResponse
<1>4. CASE Register /\ last_event_id' # last_event_id
  <2>1. /\ last_event_id' = next_event_id - 1 /\ last_event_id = -1
        /\ Settled(pending', next_event_id', newest_pruned_id', last_event_id')
    BY <1>4, RegisterBatch, RegisterLog
  <2>2. last_event_id <= last_event_id'
    BY <1>0, <2>1
  <2> QED
    BY <2>1, <2>2
<1> QED
  BY <1>1, <1>2, <1>3, <1>4, LastKept DEF ReceiveResponse

LEMMA QueueStep ==
    ASSUME DeliveryInv, TypeInv', [Next]_vars
    PROVE  QueueInv'
BY LogStep, LastStep DEF QueueInv, SettledNow, LogKept

(* Requests that were there stay right, ...                                *)
LEMMA OldRequest ==
    ASSUME DeliveryInv, TypeInv', [Next]_vars,
           NEW q \in requests, q.op = "get",
           \/ q.xhr # get_events_xhr'
           \/ get_events_xhr' = get_events_xhr /\ last_event_id' = last_event_id
    PROVE  /\ q.last_event_id <= last_event_id'
           /\ newest_pruned_id' <= q.last_event_id =>
                 Settled(pending', next_event_id', newest_pruned_id', q.last_event_id)
           /\ q.xhr = get_events_xhr' => q.last_event_id = last_event_id'
<1> DEFINE c == q.last_event_id
<1>1. /\ c \in Int /\ last_event_id \in Int /\ last_event_id' \in Int
      /\ newest_pruned_id \in Int /\ newest_pruned_id' \in Int
  BY DEF DeliveryInv, HandlerInv, TypeInv, TypeOK, LogTypeOK, Request
<1>2. /\ c <= last_event_id
      /\ newest_pruned_id <= c => SettledNow(c)
      /\ q.xhr = get_events_xhr => c = last_event_id
  BY DEF DeliveryInv, RequestInv
<1>3. LogKept /\ last_event_id <= last_event_id'
  BY LogStep, LastStep
<1>8. q.xhr = get_events_xhr' => c = last_event_id'
  BY <1>2
<1> HIDE DEF c
<1>4. c <= last_event_id'
  BY <1>1, <1>2, <1>3
<1>5. newest_pruned_id' <= c => newest_pruned_id <= c
  BY <1>1, <1>3 DEF LogKept
<1>6. newest_pruned_id' <= c =>
          Settled(pending', next_event_id', newest_pruned_id', c)
  BY <1>1, <1>2, <1>3, <1>5 DEF LogKept
<1> QED
  BY <1>4, <1>6, <1>8 DEF c

(* What each step does to the requests, and to what the page waits for.    *)
LEMMA RequestChange ==
    ASSUME DeliveryInv, [Next]_vars
    PROVE  \/ /\ requests' \subseteq requests
              /\ \/ get_events_xhr' = None
                 \/ get_events_xhr' = get_events_xhr /\ last_event_id' = last_event_id
           \/ \E q : /\ requests' = requests \cup {q} /\ q.xhr = next_xhr
                    /\ last_event_id' = last_event_id
                    /\ \/ q.op = "delete" /\ get_events_xhr' = None
                       \/ /\ q.last_event_id = last_event_id
                          /\ get_events_xhr' = next_xhr
                          /\ UNCHANGED <<responses, logVars, current_handler_id>>
<1>1. CASE Initialize \/ TimerFires \/ RestartGetEvents
  <2>1. PICK dont_block, after_failure : get_events(dont_block, after_failure)
    BY <1>1 DEF Initialize, TimerFires, RestartGetEvents
  <2> DEFINE q == [xhr |-> next_xhr, op |-> "get", last_event_id |-> last_event_id,
                   dont_block |-> dont_block \/ after_failure]
  <2>2. /\ requests' = requests \cup {q} /\ get_events_xhr' = next_xhr
        /\ UNCHANGED <<last_event_id, responses, logVars, current_handler_id>>
    BY <2>1 DEF get_events, serverVars, clientVars
  <2>3. q.xhr = next_xhr /\ q.last_event_id = last_event_id
    OBVIOUS
  <2> HIDE DEF q
  <2> QED
    BY <2>2, <2>3
<1>2. CASE Unload
  <2> DEFINE q == [xhr |-> next_xhr, op |-> "delete", last_event_id |-> -1,
                   dont_block |-> FALSE]
  <2>1. /\ requests' = requests \cup {q} /\ get_events_xhr' = None
        /\ last_event_id' = last_event_id
    BY <1>2 DEF Unload
  <2>2. q.xhr = next_xhr /\ q.op = "delete"
    OBVIOUS
  <2> HIDE DEF q
  <2> QED
    BY <2>1, <2>2
<1>3. CASE ReceiveResponse \/ XhrFails \/ Register
  <2>1. requests' = requests /\ get_events_xhr' = None
    BY <1>3 DEF ReceiveResponse, Success, ErrorResponse, CallbackOf, XhrFails, Register,
       DeliveryInv, LoadInv
  <2> QED
    BY <2>1
<1>4. CASE AddEvent \/ Heartbeat \/ ReceiveRequest
  <2>1. requests' \subseteq requests /\ UNCHANGED loopVars
    BY <1>4 DEF AddEvent, Heartbeat, add_event, ReceiveRequest, FetchBadQueue,
       FetchAlreadyPruned, FetchNotInQueue, FetchAccepted, FetchRespond, FetchBlock,
       Cleanup, Received
  <2> QED
    BY <2>1 DEF loopVars
<1>5. CASE \/ OtherRequest \/ OnConnectionClose \/ GcEventQueues \/ Shutdown \/ Crash
           \/ Start \/ LoseRequest \/ LoseResponse \/ HomeViewLoaded \/ UNCHANGED vars
  <2>1. requests' \subseteq requests /\ UNCHANGED <<get_events_xhr, last_event_id>>
    BY <1>5 DEF OtherRequest, OnConnectionClose, GcEventQueues, Shutdown, Crash,
       ProcessEnds, Start, LoseRequest, LoseResponse, HomeViewLoaded, vars, loopVars
  <2> QED
    BY <2>1
<1> QED
  BY <1>1, <1>2, <1>3, <1>4, <1>5 DEF Next

LEMMA RequestStep ==
    ASSUME DeliveryInv, TypeInv', [Next]_vars
    PROVE  RequestInv'
<1>0. \A q \in requests : q.xhr \in Nat /\ q.xhr # None /\ q.xhr < next_xhr
  BY NoneNotXhr DEF DeliveryInv, HandlerInv, XhrInv, TypeInv, TypeOK, Request, Xhr
<1>1. CASE /\ requests' \subseteq requests
           /\ \/ get_events_xhr' = None
              \/ get_events_xhr' = get_events_xhr /\ last_event_id' = last_event_id
  BY <1>0, <1>1, OldRequest DEF RequestInv, SettledNow
<1>2. ASSUME NEW p, requests' = requests \cup {p}, p.xhr = next_xhr,
             last_event_id' = last_event_id,
             \/ p.op = "delete" /\ get_events_xhr' = None
             \/ /\ p.last_event_id = last_event_id /\ get_events_xhr' = next_xhr
                /\ UNCHANGED <<responses, logVars, current_handler_id>>
      PROVE  RequestInv'
  <2>0. next_xhr \in Nat /\ next_xhr # None
    BY NoneNotXhr DEF DeliveryInv, HandlerInv, TypeInv, TypeOK, Xhr
  <2>1. \A q \in requests : q.xhr # get_events_xhr'
    BY <1>0, <1>2, <2>0
  <2>2. p.op = "get" =>
          /\ p.last_event_id <= last_event_id' /\ p.last_event_id = last_event_id'
          /\ Settled(pending', next_event_id', newest_pruned_id', p.last_event_id)
    <3>1. last_event_id <= last_event_id'
      BY LastStep
    <3>2. Settled(pending', next_event_id', newest_pruned_id', last_event_id')
      BY LastStep
    <3> QED
      BY <1>2, <3>1, <3>2
  <2> QED
    BY <1>2, <2>1, <2>2, OldRequest DEF RequestInv, SettledNow
<1> QED
  BY <1>1, <1>2, RequestChange

(* A new request is not the one that waits.                                *)
LEMMA WaitStep ==
    ASSUME DeliveryInv, [Next]_vars
    PROVE  WaitInv'
<1>0. /\ next_xhr \in Nat
      /\ current_handler_id # None => current_handler_id \in Nat /\ current_handler_id < next_xhr
      /\ TypeInv /\ WaitingHandler
  BY DEF DeliveryInv, HandlerInv, TypeInv, TypeOK, XhrInv, Xhr
<1> DEFINE stays == /\ current_handler_id' \in {current_handler_id, None}
                    /\ get_events_xhr' \in {get_events_xhr, None}
                    /\ UNCHANGED <<newest_pruned_id, last_event_id>>
<1>1. CASE stays
  BY <1>1 DEF DeliveryInv, WaitInv
<1>2. CASE current_handler_id' = None \/ get_events_xhr' = None
  BY <1>2 DEF WaitInv
<1>3. CASE AddEvent \/ Heartbeat
  <2>1. current_handler_id' = None
    BY <1>0, <1>3, FinishWaiting DEF AddEvent, Heartbeat, add_event
  <2> QED
    BY <1>2, <2>1
<1>4. CASE ReceiveRequest
  <2>1. PICK q \in requests :
          \/ FetchBadQueue(q) \/ FetchAlreadyPruned(q) \/ FetchNotInQueue(q)
          \/ \E ok \in BOOLEAN : FetchRespond(q, ok) \/ FetchBlock(q, ok) \/ Cleanup(q, ok)
    BY <1>4 DEF ReceiveRequest
  <2>2. CASE FetchBadQueue(q) \/ FetchAlreadyPruned(q)
    BY <1>1, <2>2 DEF FetchBadQueue, FetchAlreadyPruned, Answer, Received, logVars,
       clientVars, loopVars
  <2>3. CASE FetchNotInQueue(q)
    BY <2>3, AcceptedSettled DEF FetchNotInQueue, Received
  <2>4. CASE \E ok \in BOOLEAN : FetchRespond(q, ok) \/ Cleanup(q, ok)
    <3>1. current_handler_id' = None
      BY <1>0, <2>4, FinishWaiting DEF FetchRespond, Cleanup
    <3> QED
      BY <1>2, <3>1
  <2>5. CASE \E ok \in BOOLEAN : FetchBlock(q, ok)
    <3>1. /\ current_handler_id' = q.xhr /\ newest_pruned_id' = q.last_event_id
          /\ q.op = "get" /\ UNCHANGED <<get_events_xhr, last_event_id>>
      BY <2>5, AcceptedKept DEF FetchBlock, FetchAccepted, Received, loopVars
    <3>2. q.xhr = get_events_xhr => q.last_event_id = last_event_id
      BY <3>1 DEF DeliveryInv, RequestInv
    <3> QED
      BY <3>1, <3>2 DEF WaitInv
  <2> QED
    BY <2>1, <2>2, <2>3, <2>4, <2>5
<1>5. CASE Initialize \/ TimerFires \/ RestartGetEvents
  <2>1. get_events_xhr' = next_xhr /\ current_handler_id' = current_handler_id
    BY <1>5 DEF Initialize, TimerFires, RestartGetEvents, get_events, serverVars, clientVars
  <2>2. current_handler_id' # None => current_handler_id' # get_events_xhr'
    BY <1>0, <2>1
  <2> QED
    BY <2>2 DEF WaitInv
<1>6. CASE ReceiveResponse \/ XhrFails \/ Unload
  BY <1>2, <1>6 DEF ReceiveResponse, Success, ErrorResponse, CallbackOf, XhrFails, Unload
<1>7. CASE Register
  BY <1>2, <1>7 DEF Register, DeliveryInv, LoadInv
<1>8. CASE Start
  BY <1>1, <1>8 DEF Start, LogPush, logVars, clientVars, loopVars
<1>9. CASE \/ OtherRequest \/ OnConnectionClose \/ GcEventQueues \/ Shutdown \/ Crash
           \/ LoseRequest \/ LoseResponse \/ HomeViewLoaded \/ UNCHANGED vars
  BY <1>1, <1>9 DEF OtherRequest, OnConnectionClose, disconnect_handler, GcEventQueues,
     Shutdown, Crash, ProcessEnds, LoseRequest, LoseResponse, HomeViewLoaded, vars, logVars,
     serverVars, clientVars, loopVars
<1> QED
  BY <1>3, <1>4, <1>5, <1>6, <1>7, <1>8, <1>9 DEF Next

-----------------------------------------------------------------------------
(* Responses.                                                              *)

ResponseOK(r) == r.result # "error" /\ (r.result = "events" => NextBatch(r.events))

(* What the page's request waits for, the server sends: everything after   *)
(* its last_event_id.                                                      *)
LEMMA SentNext ==
    ASSUME TypeInv', NEW rest \in SUBSET Entry, pending' = Final(rest),
           Exact(rest, next_event_id', newest_pruned_id'),
           newest_pruned_id' = last_event_id'
    PROVE  Batch(pending', pending', next_event_id', newest_pruned_id', last_event_id')
<1>1. next_event_id' \in Nat /\ newest_pruned_id' \in Nat \cup {-1}
  BY DEF TypeInv, TypeOK, LogTypeOK
<1>2. Batch(Final(rest), Final(rest), next_event_id', newest_pruned_id', newest_pruned_id')
  BY <1>1, FullBatch
<1> QED
  BY <1>2

LEMMA OldResponse ==
    ASSUME DeliveryInv, TypeInv', [Next]_vars, NEW r \in responses,
           r.xhr = get_events_xhr, last_event_id' = last_event_id
    PROVE  ResponseOK(r)'
<1>1. ResponseOK(r)
  BY DEF DeliveryInv, ResponseInv, ResponseOK
<1>2. NextBatch(r.events) => NextBatch(r.events)'
  BY LogStep, BatchKept DEF DeliveryInv, HandlerInv
<1> QED
  BY <1>1, <1>2 DEF ResponseOK

(* The responses of finish_current_handler and of a fetch that does not    *)
(* block carry the contents.                                               *)
LEMMA NewResponse ==
    ASSUME NEW r, r.result = "events", r.events = pending',
           Batch(pending', pending', next_event_id', newest_pruned_id', last_event_id')
    PROVE  ResponseOK(r)'
BY DEF ResponseOK, NextBatch

LEMMA AddEventResponse ==
    ASSUME DeliveryInv, TypeInv', NEW type \in Types, NEW ok \in BOOLEAN,
           add_event(type, ok), NEW r \in responses', r \notin responses,
           r.xhr = get_events_xhr'
    PROVE  ResponseOK(r)'
<1> DEFINE queued == Pushed(pending, next_event_id, type)
<1>1. /\ r \in SentByFinish(ok, Final(queued)) /\ get_events_xhr' = get_events_xhr
      /\ pending' = IF current_handler_id # None THEN Final(queued) ELSE queued
      /\ next_event_id' = next_event_id + 1
      /\ newest_pruned_id' = newest_pruned_id /\ last_event_id' = last_event_id
  BY DEF add_event, loopVars
<1>2. /\ current_handler_id # None /\ r.xhr = current_handler_id
      /\ r.result = "events" /\ r.events = Final(queued)
  BY <1>1 DEF SentByFinish
<1>3. newest_pruned_id = last_event_id /\ pending' = Final(queued)
  BY <1>1, <1>2 DEF DeliveryInv, WaitInv
<1>4. queued \in SUBSET Entry /\ Exact(queued, next_event_id + 1, newest_pruned_id)
  BY LogTypes, PushedType, PushedExact DEF DeliveryInv, HandlerInv, QueueInv
<1> HIDE DEF queued
<1>5. Batch(pending', pending', next_event_id', newest_pruned_id', last_event_id')
  BY <1>1, <1>3, <1>4, SentNext
<1> QED
  BY <1>2, <1>3, <1>5, NewResponse

(* Whoever is answered by a fetch and still waited for had the last events. *)
LEMMA FetchNext ==
    ASSUME DeliveryInv, TypeInv', NEW q \in requests, FetchAccepted(q),
           get_events_xhr # None, get_events_xhr \in {q.xhr, current_handler_id}
    PROVE  Batch(pending', pending', next_event_id', newest_pruned_id', last_event_id')
<1> DEFINE rest == pending \ Prunable(pending, q.last_event_id)
<1>1. /\ q.op = "get" /\ q.last_event_id >= newest_pruned_id
      /\ pending' = Final(rest) /\ UNCHANGED next_event_id
      /\ last_event_id' = last_event_id
  BY DEF FetchAccepted, Received, LogPruneContents, loopVars
<1>2. /\ LogKept /\ newest_pruned_id' = q.last_event_id /\ q.last_event_id <= last_event_id
      /\ q.last_event_id \in Int /\ SettledNow(q.last_event_id)
  BY <1>1, AcceptedKept, AcceptedSettled
<1>3. q.last_event_id = last_event_id
  <2>1. CASE q.xhr = get_events_xhr
    BY <1>1, <2>1 DEF DeliveryInv, RequestInv
  <2>2. CASE current_handler_id = get_events_xhr
    <3>1. newest_pruned_id = last_event_id /\ last_event_id \in Int
      BY <2>2, LogTypes DEF DeliveryInv, HandlerInv, WaitInv
    <3> QED
      BY <1>1, <1>2, <3>1
  <2> QED
    BY <2>1, <2>2
<1>4. rest \in SUBSET Entry
  BY LogTypes DEF DeliveryInv, HandlerInv
<1>5. Exact(rest, next_event_id, q.last_event_id)
  BY <1>2, SettledExact DEF DeliveryInv, HandlerInv
<1> HIDE DEF rest
<1> QED
  BY <1>1, <1>2, <1>3, <1>4, <1>5, SentNext

LEMMA ReceiveRequestResponse ==
    ASSUME DeliveryInv, TypeInv', ReceiveRequest, NEW r \in responses', r \notin responses,
           r.xhr = get_events_xhr', get_events_xhr' # None
    PROVE  ResponseOK(r)'
<1>1. PICK q \in requests :
        \/ FetchBadQueue(q) \/ FetchAlreadyPruned(q) \/ FetchNotInQueue(q)
        \/ \E ok \in BOOLEAN : FetchRespond(q, ok) \/ FetchBlock(q, ok) \/ Cleanup(q, ok)
  BY DEF ReceiveRequest
<1>2. UNCHANGED <<get_events_xhr, last_event_id>>
  BY <1>1 DEF FetchBadQueue, FetchAlreadyPruned, FetchNotInQueue, FetchAccepted,
     FetchRespond, FetchBlock, Cleanup, Received, loopVars
<1>3. CASE FetchBadQueue(q)
  <2>1. r = [xhr |-> q.xhr, result |-> "bad_queue", events |-> {}]
    BY <1>3 DEF FetchBadQueue, Answer
  <2>2. r.result = "bad_queue"
    BY <2>1
  <2> QED
    BY <2>2 DEF ResponseOK
<1>4. CASE FetchAlreadyPruned(q)
  <2>1. /\ r = [xhr |-> q.xhr, result |-> "error", events |-> {}]
        /\ q.op = "get" /\ q.last_event_id < newest_pruned_id
    BY <1>4 DEF FetchAlreadyPruned, Answer, Received
  <2>2. q.xhr = get_events_xhr
    BY <1>2, <2>1
  <2>3. q.last_event_id = last_event_id
    BY <2>1, <2>2 DEF DeliveryInv, RequestInv
  <2>4. /\ newest_pruned_id <= last_event_id
        /\ newest_pruned_id \in Int /\ last_event_id \in Int
    BY LogTypes DEF DeliveryInv, HandlerInv, QueueInv, SettledNow, Settled
  <2> QED
    BY <2>1, <2>3, <2>4
<1>5. CASE FetchNotInQueue(q)
  BY <1>5, AcceptedSettled DEF FetchNotInQueue, Received
<1>6. CASE \E ok \in BOOLEAN : FetchRespond(q, ok) \/ FetchBlock(q, ok)
  <2>1. PICK ok \in BOOLEAN :
          /\ FetchAccepted(q)
          /\ responses' \subseteq responses \cup SentByFinish(ok, pending')
                \cup {[xhr |-> q.xhr, result |-> "events", events |-> pending']}
    BY <1>6 DEF FetchRespond, FetchBlock
  <2>2. /\ r.xhr \in {q.xhr, current_handler_id}
        /\ r.result = "events" /\ r.events = pending'
    <3>1. CASE r \in SentByFinish(ok, pending')
      BY <3>1 DEF SentByFinish
    <3>2. CASE r = [xhr |-> q.xhr, result |-> "events", events |-> pending']
      BY <3>2
    <3> QED
      BY <2>1, <3>1, <3>2
  <2>3. Batch(pending', pending', next_event_id', newest_pruned_id', last_event_id')
    BY <1>2, <2>1, <2>2, FetchNext
  <2> QED
    BY <2>2, <2>3, NewResponse
<1>7. CASE \E ok \in BOOLEAN : Cleanup(q, ok)
  <2>1. PICK ok \in BOOLEAN : Cleanup(q, ok)
    BY <1>7
  <2>2. /\ current_handler_id # None /\ r.xhr = current_handler_id
        /\ r.result = "events" /\ r.events = Final(pending)
    BY <2>1 DEF Cleanup, SentByFinish
  <2>3. /\ pending' = Final(pending) /\ newest_pruned_id = last_event_id
        /\ UNCHANGED <<next_event_id, newest_pruned_id>>
    BY <1>2, <2>1, <2>2 DEF Cleanup, DeliveryInv, WaitInv
  <2>4. pending \in SUBSET Entry /\ Exact(pending, next_event_id, newest_pruned_id)
    BY LogTypes DEF DeliveryInv, HandlerInv, QueueInv
  <2>5. Batch(pending', pending', next_event_id', newest_pruned_id', last_event_id')
    BY <1>2, <2>3, <2>4, SentNext
  <2> QED
    BY <2>2, <2>3, <2>5, NewResponse
<1> QED
  BY <1>1, <1>3, <1>4, <1>5, <1>6, <1>7

LEMMA ResponseStep ==
    ASSUME DeliveryInv, TypeInv', [Next]_vars
    PROVE  ResponseInv'
<1>0. \A r \in responses : r.xhr \in Nat /\ r.xhr # None /\ r.xhr < next_xhr
  BY NoneNotXhr DEF DeliveryInv, HandlerInv, XhrInv, TypeInv, TypeOK, Response, Xhr
<1>1. SUFFICES ASSUME NEW r \in responses', r.xhr = get_events_xhr'
               PROVE  ResponseOK(r)'
  BY DEF ResponseInv, ResponseOK
<1>2. get_events_xhr' # None
  BY <1>1, NoneNotXhr DEF TypeInv, TypeOK, Response, Xhr
<1>3. CASE r \in responses
  <2>1. get_events_xhr' # next_xhr
    BY <1>0, <1>1, <1>3 DEF DeliveryInv, HandlerInv, TypeInv, TypeOK
  <2>2. get_events_xhr' = get_events_xhr /\ last_event_id' = last_event_id
    BY <1>2, <2>1, RequestChange
  <2> QED
    BY <1>1, <1>3, <2>2, OldResponse
<1>4. CASE r \notin responses
  <2>1. CASE AddEvent \/ Heartbeat
    BY <1>1, <1>4, <2>1, AddEventResponse DEF AddEvent, Heartbeat, Types
  <2>2. CASE ReceiveRequest
    BY <1>1, <1>2, <1>4, <2>2, ReceiveRequestResponse
  <2>3. CASE ~(AddEvent \/ Heartbeat \/ ReceiveRequest)
    <3>1. responses' \subseteq responses
      BY <2>3 DEF Next, OtherRequest, OnConnectionClose, GcEventQueues, Shutdown, Crash,
         ProcessEnds, Start, LoseRequest, LoseResponse, Register, Initialize, TimerFires,
         RestartGetEvents, get_events, ReceiveResponse, Success, ErrorResponse, CallbackOf,
         XhrFails, HomeViewLoaded, Unload, vars
    <3> QED
      BY <1>4, <3>1
  <2> QED
    BY <2>1, <2>2, <2>3
<1> QED
  BY <1>3, <1>4

-----------------------------------------------------------------------------
(* The page.                                                               *)

(* The page has a prefix of the pushes up to l, part of it stored.         *)
View(done, stored, l) ==
    \E a \in -1 .. l : done = 0 .. a /\ Covered(stored) = (a + 1) .. l

LEMMA RangeEmpty == \A i \in Int : (i + 1) .. i = {}
OBVIOUS

LEMMA RangeJoin ==
    ASSUME NEW a \in Int, NEW b \in Int, NEW c \in Int, a <= b, b <= c
    PROVE  ((a + 1) .. b) \cup ((b + 1) .. c) = (a + 1) .. c
OBVIOUS

LEMMA CoveredUnion ==
    ASSUME NEW stored, NEW events
    PROVE  Covered(stored \cup events) = Covered(stored) \cup Covered(events)
BY DEF Covered

LEMMA CoveredNothing == Covered({}) = {}
BY DEF Covered

(* get_events_success keeps it so, and dispatches nothing twice.           *)
LEMMA DispatchView ==
    ASSUME DeliveryInv, NEW events, NEW l \in Int, last_event_id <= l,
           Covered(events) = (last_event_id + 1) .. l, Dispatch(events)
    PROVE  /\ View(applied', events_stored_while_loading', l)
           /\ ~waiting_on_homeview_load' => events_stored_while_loading' = {}
           /\ repeated' = {} /\ applied \subseteq applied'
<1>0. last_event_id \in Int
  BY LogTypes DEF DeliveryInv, HandlerInv
<1>1. PICK a \in -1 .. last_event_id :
          /\ applied = 0 .. a
          /\ Covered(events_stored_while_loading) = (a + 1) .. last_event_id
  BY DEF DeliveryInv, ViewInv
<1>2. Covered(events_stored_while_loading \cup events) = (a + 1) .. l
  <2>1. a \in Int /\ a <= last_event_id
    BY <1>0
  <2>2. ((a + 1) .. last_event_id) \cup ((last_event_id + 1) .. l) = (a + 1) .. l
    BY <1>0, <2>1, RangeJoin
  <2>3. Covered(events_stored_while_loading \cup events)
            = Covered(events_stored_while_loading) \cup Covered(events)
    BY CoveredUnion
  <2> QED
    BY <1>1, <2>2, <2>3
<1>3. CASE waiting_on_homeview_load'
  <2>1. /\ events_stored_while_loading' = events_stored_while_loading \cup events
        /\ applied' = applied /\ repeated' = repeated
    BY <1>3 DEF Dispatch
  <2>2. a \in -1 .. l
    BY <1>0
  <2>3. View(applied', events_stored_while_loading', l)
    BY <1>1, <1>2, <2>1, <2>2 DEF View
  <2> QED
    BY <1>3, <2>1, <2>3 DEF DeliveryInv, ViewInv
<1>4. CASE ~waiting_on_homeview_load'
  <2>1. /\ events_stored_while_loading' = {}
        /\ applied' = (0 .. a) \cup ((a + 1) .. l)
        /\ repeated' = repeated \cup (((a + 1) .. l) \cap (0 .. a))
    BY <1>1, <1>2, <1>4 DEF Dispatch
  <2>2. (0 .. a) \cup ((a + 1) .. l) = 0 .. l /\ ((a + 1) .. l) \cap (0 .. a) = {}
    BY <1>0
  <2>3. l \in -1 .. l /\ (l + 1) .. l = {}
    BY <1>0
  <2>4. View(0 .. l, {}, l)
    BY <2>3, CoveredNothing DEF View
  <2>5. repeated = {}
    BY DEF DeliveryInv, ViewInv
  <2> QED
    BY <1>1, <2>1, <2>2, <2>4, <2>5
<1> QED
  BY <1>3, <1>4

LEMMA ViewStep ==
    ASSUME DeliveryInv, TypeInv', [Next]_vars
    PROVE  ViewInv' /\ applied \subseteq applied'
<1>0. /\ last_event_id \in Int /\ last_event_id' \in Int /\ next_event_id \in Int
      /\ last_event_id <= last_event_id'
  BY LastStep DEF DeliveryInv, HandlerInv, TypeInv, TypeOK, LogTypeOK
<1>1. CASE UNCHANGED <<viewVars, last_event_id>>
  BY <1>1 DEF DeliveryInv, ViewInv, viewVars
<1>2. CASE ReceiveResponse
  <2>1. PICK r \in responses : Success(r) \/ ErrorResponse(r)
    BY <1>2 DEF ReceiveResponse
  <2>2. CASE ErrorResponse(r)
    BY <1>1, <2>2 DEF ErrorResponse
  <2>3. CASE Success(r)
    <3>1. Dispatch(r.events)
      BY <2>3 DEF Success
    <3>2. Covered(r.events) = (last_event_id + 1) .. last_event_id'
      BY <2>3, SuccessBatch
    <3> QED
      BY <1>0, <3>1, <3>2, DispatchView DEF View, ViewInv
  <2> QED
    BY <2>1, <2>2, <2>3
<1>3. CASE HomeViewLoaded
  <2>1. Dispatch({}) /\ last_event_id' = last_event_id
    BY <1>3 DEF HomeViewLoaded, loopVars
  <2>2. Covered({}) = (last_event_id + 1) .. last_event_id
    BY <1>0, CoveredNothing, RangeEmpty
  <2> QED
    BY <1>0, <2>1, <2>2, DispatchView DEF View, ViewInv
<1>4. CASE Register
  <2>1. UNCHANGED <<repeated, waiting_on_homeview_load, events_stored_while_loading>>
    BY <1>4 DEF Register
  <2>2. CASE last_event_id' = last_event_id /\ applied' = applied
    BY <1>1, <2>1, <2>2 DEF viewVars
  <2>3. CASE last_event_id' # last_event_id \/ applied' # applied
    <3>1. applied' = 0 .. last_event_id' /\ last_event_id = -1 /\ applied = {}
      BY <1>4, <2>3, RegisterBatch, RegisterLog DEF DeliveryInv, LoadInv, Register
    <3>2. Covered(events_stored_while_loading) = {}
      BY <3>1 DEF DeliveryInv, ViewInv
    <3>3. last_event_id' \in -1 .. last_event_id'
      BY <1>0, <3>1
    <3>4. (last_event_id' + 1) .. last_event_id' = {}
      BY <1>0, RangeEmpty
    <3> QED
      BY <2>1, <3>1, <3>2, <3>3, <3>4 DEF DeliveryInv, ViewInv
  <2> QED
    BY <2>2, <2>3
<1>5. CASE ~(ReceiveResponse \/ HomeViewLoaded \/ Register)
  <2>1. UNCHANGED viewVars
    BY <1>5 DEF Next, AddEvent, Heartbeat, add_event, ReceiveRequest, FetchBadQueue,
       FetchAlreadyPruned, FetchNotInQueue, FetchAccepted, FetchRespond, FetchBlock,
       Cleanup, Received, OtherRequest, OnConnectionClose, GcEventQueues, Shutdown, Crash,
       ProcessEnds, Start, LoseRequest, LoseResponse, Initialize, TimerFires,
       RestartGetEvents, get_events, XhrFails, Unload, vars
  <2>2. last_event_id' = last_event_id
    BY <1>5, LastKept
  <2> QED
    BY <1>1, <2>1, <2>2
<1> QED
  BY <1>2, <1>3, <1>4, <1>5

-----------------------------------------------------------------------------
(* The theorems.                                                           *)

LEMMA InitDelivery == Init => DeliveryInv
<1> SUFFICES ASSUME Init PROVE DeliveryInv
  OBVIOUS
<1> USE DEF Init, LogInit
<1>1. HandlerInv
  BY InitHandler
<1>2. LoadInv /\ RequestInv /\ WaitInv /\ ResponseInv
  BY DEF LoadInv, RequestInv, WaitInv, ResponseInv
<1>3. QueueInv
  BY DEF QueueInv, Exact, SettledNow, Settled, Covered
<1>4. ViewInv
  <2>1. -1 \in -1 .. (-1) /\ 0 .. (-1) = {} /\ ((-1) + 1) .. (-1) = {}
    OBVIOUS
  <2> QED
    BY <2>1, CoveredNothing DEF ViewInv
<1> QED
  BY <1>1, <1>2, <1>3, <1>4 DEF DeliveryInv

LEMMA DeliveryStep == DeliveryInv /\ [Next]_vars => DeliveryInv'
<1> SUFFICES ASSUME DeliveryInv, [Next]_vars PROVE DeliveryInv'
  OBVIOUS
<1>1. HandlerInv' /\ TypeInv'
  BY HandlerStep DEF DeliveryInv, HandlerInv
<1> QED
  BY <1>1, LoadStep, QueueStep, RequestStep, WaitStep, ResponseStep, ViewStep
     DEF DeliveryInv

(* A queue, the requests and responses on their way and the page always    *)
(* agree on which events the page has.                                     *)
THEOREM InvariantCorrect == Spec => []DeliveryInv
BY InitDelivery, DeliveryStep, PTL DEF Spec

(* A page has dispatched every event up to its last_event_id exactly once, *)
(* or has stored it for the end of the page load.                          *)
THEOREM ExactlyOnceCorrect == Spec => []ExactlyOnce
<1>1. DeliveryInv => ExactlyOnce
  <2> SUFFICES ASSUME DeliveryInv PROVE ExactlyOnce
    OBVIOUS
  <2>1. last_event_id \in Int
    BY LogTypes DEF DeliveryInv, HandlerInv
  <2>2. PICK a \in -1 .. last_event_id :
          /\ applied = 0 .. a
          /\ Covered(events_stored_while_loading) = (a + 1) .. last_event_id
    BY DEF DeliveryInv, ViewInv
  <2>3. /\ (0 .. a) \cup ((a + 1) .. last_event_id) = 0 .. last_event_id
        /\ (0 .. a) \cap ((a + 1) .. last_event_id) = {}
    BY <2>1
  <2> QED
    BY <2>2, <2>3 DEF ExactlyOnce, DeliveryInv, ViewInv
<1> QED
  BY <1>1, InvariantCorrect, PTL

(* The server never refuses the last_event_id of a request that the page   *)
(* waits for.                                                              *)
THEOREM NeverRefusedCorrect == Spec => []NeverRefused
<1>1. DeliveryInv => NeverRefused
  BY DEF DeliveryInv, ResponseInv, NeverRefused
<1> QED
  BY <1>1, InvariantCorrect, PTL

(* What a page that has not dropped its state dispatches is a prefix of    *)
(* the pushes, and it only grows.                                          *)
LEMMA DeliverOrStutter ==
    ASSUME DeliveryInv, TypeInv', ViewInv', applied \subseteq applied',
           next_event_id' = next_event_id, page \notin {"reloading", "gone"},
           page' \notin {"reloading", "gone"},
           last_event_id' <= next_event_id - 1
    PROVE  [D!DeliveryNext]_(D!deliveryVars)
<1>0. next_event_id \in Nat /\ last_event_id' \in Int
  BY DEF DeliveryInv, HandlerInv, TypeInv, TypeOK, LogTypeOK
<1>1. PICK a \in -1 .. last_event_id' : applied' = 0 .. a
  BY DEF ViewInv
<1>2. CASE a = -1
  <2>1. applied' = {}
    BY <1>1, <1>2
  <2>2. applied' = applied
    BY <2>1
  <2> QED
    BY <2>2 DEF D!deliveryVars
<1>3. CASE a # -1
  <2>1. a + 1 \in 1 .. next_event_id /\ (a + 1) - 1 = a
    BY <1>0, <1>1, <1>3
  <2>2. \E n \in 1 .. next_event_id : applied' = 0 .. (n - 1)
    BY <1>1, <2>1
  <2> QED
    BY <2>2 DEF D!DeliveryNext, D!Deliver
<1> QED
  BY <1>2, <1>3

LEMMA ImplementsStep ==
    ASSUME DeliveryInv, DeliveryInv', [Next]_vars
    PROVE  [D!DeliveryNext]_(D!deliveryVars)
<1>0. /\ TypeInv' /\ ViewInv' /\ applied \subseteq applied'
      /\ Settled(pending', next_event_id', newest_pruned_id', last_event_id')
      /\ next_event_id' \in Nat /\ last_event_id' \in Int /\ newest_pruned_id' \in Int
  BY ViewStep DEF DeliveryInv, HandlerInv, QueueInv, SettledNow, TypeInv, TypeOK, LogTypeOK
<1>1. last_event_id' <= next_event_id' - 1
  <2>1. last_event_id' \in newest_pruned_id' .. (next_event_id' - 1)
    BY <1>0 DEF Settled
  <2>2. \A w, n, i \in Int : i \in w .. (n - 1) => i <= n - 1
    OBVIOUS
  <2>3. /\ next_event_id' \in Int /\ newest_pruned_id' \in Int
        /\ last_event_id' \in Int
    BY <1>0
  <2> QED
    BY <2>1, <2>2, <2>3
<1>2. CASE AddEvent \/ Heartbeat
  <2>1. next_event_id' = next_event_id + 1 /\ UNCHANGED <<applied, page>>
    BY <1>2 DEF AddEvent, Heartbeat, add_event, viewVars
  <2> QED
    BY <2>1 DEF D!DeliveryNext, D!Produce
<1>3. CASE Start
  <2>1. /\ next_event_id' = next_event_id + 1 \/ next_event_id' = next_event_id
        /\ UNCHANGED <<applied, page>>
    BY <1>3 DEF Start, LogPush, logVars, viewVars
  <2> QED
    BY <2>1 DEF D!DeliveryNext, D!Produce, D!deliveryVars
<1>4. CASE HomeViewLoaded \/ ReceiveResponse
  <2>1. next_event_id' = next_event_id /\ page = "open"
    BY <1>4 DEF HomeViewLoaded, ReceiveResponse, Success, ErrorResponse, CallbackOf, logVars
  <2>2. CASE page' = page
    BY <1>0, <1>1, <2>1, <2>2, DeliverOrStutter
  <2>3. CASE page' # page
    <3>1. page' = "reloading" /\ applied' = applied
      BY <1>4, <2>3 DEF HomeViewLoaded, ReceiveResponse, Success, ErrorResponse, viewVars
    <3> QED
      BY <2>1, <3>1 DEF D!DeliveryNext, D!Abandon
  <2> QED
    BY <2>2, <2>3
<1>5. CASE Register
  <2>1. next_event_id' = next_event_id /\ page = "loading"
    BY <1>5 DEF Register, LogPruneContents, logVars
  <2>2. CASE page' = "loaded"
    BY <1>0, <1>1, <2>1, <2>2, DeliverOrStutter
  <2>3. CASE page' # "loaded"
    <3>1. page' = "gone" /\ applied' = applied
      BY <1>5, <2>3 DEF Register
    <3> QED
      BY <2>1, <3>1 DEF D!DeliveryNext, D!Abandon
  <2> QED
    BY <2>2, <2>3
<1>6. CASE Unload
  <2>1. page' = "gone" /\ UNCHANGED <<applied, next_event_id>>
    BY <1>6 DEF Unload, viewVars, logVars
  <2> QED
    BY <2>1 DEF D!DeliveryNext, D!Abandon
<1>7. CASE \/ ReceiveRequest \/ OtherRequest \/ OnConnectionClose \/ GcEventQueues
           \/ Shutdown \/ Crash \/ LoseRequest \/ LoseResponse \/ Initialize
           \/ TimerFires \/ RestartGetEvents \/ XhrFails \/ UNCHANGED vars
  <2>1. UNCHANGED <<applied, next_event_id>>
    BY <1>7 DEF ReceiveRequest, FetchBadQueue, FetchAlreadyPruned, FetchNotInQueue,
       FetchAccepted, FetchRespond, FetchBlock, Cleanup, Received, LogPrune,
       LogPruneContents, OtherRequest, OnConnectionClose, GcEventQueues, Shutdown, Crash,
       ProcessEnds, LoseRequest, LoseResponse, Initialize, TimerFires, RestartGetEvents,
       get_events, XhrFails, vars, viewVars, logVars
  <2>2. page' = page \/ (page = "loaded" /\ page' = "open")
    BY <1>7 DEF ReceiveRequest, FetchBadQueue, FetchAlreadyPruned, FetchNotInQueue,
       FetchAccepted, FetchRespond, FetchBlock, Cleanup, Received, OtherRequest,
       OnConnectionClose, GcEventQueues, Shutdown, Crash, ProcessEnds, LoseRequest,
       LoseResponse, Initialize, TimerFires, RestartGetEvents, XhrFails, vars
  <2>3. (page' \in {"reloading", "gone"}) = (page \in {"reloading", "gone"})
    BY <2>2
  <2> QED
    BY <2>1, <2>3 DEF D!deliveryVars
<1> QED
  BY <1>2, <1>3, <1>4, <1>5, <1>6, <1>7 DEF Next

(* The page, the queue and the network between them deliver what module    *)
(* Delivery promises.                                                      *)
THEOREM DeliveryImplemented == Spec => ImplementsDelivery
<1>1. Init => D!DeliveryInit
  BY DEF Init, LogInit, D!DeliveryInit
<1> QED
  BY <1>1, InvariantCorrect, ImplementsStep, PTL
     DEF Spec, ImplementsDelivery, D!DeliverySpec
=============================================================================
