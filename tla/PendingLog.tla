----------------------------- MODULE PendingLog -----------------------------
(***************************************************************************)
(* What an event queue of the Tornado server promises to its client, free  *)
(* of the data structure that keeps it: a log of pushed events, numbered   *)
(* 0, 1, 2, ..., of which some are still pending (pushed and not yet       *)
(* acknowledged).                                                          *)
(*                                                                         *)
(* A pending entry is what will be sent as ONE event.  It has the id of    *)
(* the last push that went into it and `covers', the ids of all the pushes *)
(* whose content it carries: `restart' and `flags/...' events are merged   *)
(* while they wait (the "virtual events" of the code), all others stay     *)
(* alone.  `virtual' is the full event type while later pushes of the same *)
(* type still merge into the entry, and Plain once the entry is final.     *)
(* The order of the log is the order of the ids; module EventQueue shows   *)
(* that the deque of the code keeps it.                                    *)
(***************************************************************************)
EXTENDS Integers

CONSTANTS
    VirtualTypes,   \* the full event types that merge: "restart", "flags/..."
    Plain           \* any other full event type, and every final entry

ASSUME PlainAssumption == Plain \notin VirtualTypes

VARIABLES
    pending,            \* the entries not yet acknowledged
    next_event_id,      \* id of the next push
    newest_pruned_id    \* id of the last entry removed by an acknowledgement

logVars == <<pending, next_event_id, newest_pruned_id>>

Types == VirtualTypes \cup {Plain}

Entry == [id : Nat, covers : SUBSET Nat, virtual : Types]

LogTypeOK ==
    /\ pending \in SUBSET Entry
    /\ next_event_id \in Nat
    /\ newest_pruned_id \in Nat \cup {-1}

-----------------------------------------------------------------------------
Covered(entries) == UNION {e.covers : e \in entries}

(* EventQueue.push: a fresh id; merge with the waiting virtual event of    *)
(* the same full type, if there is one.                                    *)
Pushed(entries, n, type) ==
    LET merged == {e \in entries : type \in VirtualTypes /\ e.virtual = type}
    IN  (entries \ merged)
            \cup {[id |-> n, covers |-> {n} \cup Covered(merged), virtual |-> type]}

(* EventQueue.contents: every virtual event becomes a real one, for good.  *)
Final(entries) == {[e EXCEPT !.virtual = Plain] : e \in entries}

(* EventQueue.prune: real events up to through_id leave the queue; virtual *)
(* events are ignored.                                                     *)
Prunable(entries, through_id) ==
    {e \in entries : e.virtual = Plain /\ e.id <= through_id}

NewestPruned(entries, through_id, old) ==
    LET gone == {e.id : e \in Prunable(entries, through_id)}
    IN  IF gone = {} THEN old
        ELSE CHOOSE i \in gone : \A j \in gone : j <= i

-----------------------------------------------------------------------------
(* Facts about `entries' pending after n pushes and a last prune at id w.  *)

(* Each of the pushes after w is covered by exactly one entry, which has   *)
(* the id of the last push that it covers.                                 *)
Exact(entries, n, w) ==
    /\ \A e \in entries : e.id \in e.covers /\ \A k \in e.covers : k <= e.id
    /\ \A e, f \in entries : e # f => e.covers \cap f.covers = {}
    /\ Covered(entries) = (w + 1) .. (n - 1)
    /\ w < n

(* The log is settled up to c: a client can be told that c is the last     *)
(* event it has.  No entry up to c can still merge, none covers pushes on  *)
(* both sides of c, and c is the id of an entry.                           *)
Settled(entries, n, w, c) ==
    /\ c \in w .. (n - 1)
    /\ c = w \/ \E e \in entries : e.id = c
    /\ \A e \in entries : IF e.id <= c THEN e.virtual = Plain
                          ELSE \A k \in e.covers : c < k

-----------------------------------------------------------------------------
LogInit ==
    /\ pending = {}
    /\ next_event_id = 0
    /\ newest_pruned_id = -1

LogPush(type) ==
    /\ pending' = Pushed(pending, next_event_id, type)
    /\ next_event_id' = next_event_id + 1
    /\ UNCHANGED newest_pruned_id

LogContents ==
    /\ pending' = Final(pending)
    /\ UNCHANGED <<next_event_id, newest_pruned_id>>

LogPrune(through_id) ==
    /\ pending' = pending \ Prunable(pending, through_id)
    /\ newest_pruned_id' = NewestPruned(pending, through_id, newest_pruned_id)
    /\ UNCHANGED next_event_id

(* A fetch_events call acknowledges, then reads.                           *)
LogPruneContents(through_id) ==
    /\ pending' = Final(pending \ Prunable(pending, through_id))
    /\ newest_pruned_id' = NewestPruned(pending, through_id, newest_pruned_id)
    /\ UNCHANGED next_event_id

LogNext ==
    \/ \E type \in Types : LogPush(type)
    \/ LogContents
    \/ \E through_id \in -1 .. next_event_id :
          LogPrune(through_id) \/ LogPruneContents(through_id)

LogSpec == LogInit /\ [][LogNext]_logVars
=============================================================================
