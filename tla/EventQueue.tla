----------------------------- MODULE EventQueue -----------------------------
(***************************************************************************)
(* class EventQueue of zerver/tornado/event_queue.py as the code keeps it: *)
(* a deque of real events, a dict of at most one waiting "virtual event"   *)
(* per full event type, and two counters.  Clients call it through         *)
(* fetch_events with any last_event_id they like; the server pushes into   *)
(* it, finishes handlers with its contents, and dumps and loads it.        *)
(*                                                                         *)
(* An event is its id, its full event type and the messages it is about    *)
(* (the payload of update_message_flags; <<>> for every other type).       *)
(* `covers' is a history field: the ids of the pushes merged into it.      *)
(***************************************************************************)
EXTENDS Integers, Sequences, FiniteSets, SequencesExt

CONSTANTS
    FlagOps,        \* the operations of update_message_flags: add, remove
    Flags,          \* message flags: starred, read, ...
    Messages,       \* message ids
    OtherTypes,     \* event types that never merge, and all_flags/...
    MaxEvents       \* bound: number of pushes

ASSUME MaxEventsAssumption == MaxEvents \in Nat

VARIABLES
    queue,              \* self.queue, the deque
    virtual_events,     \* self.virtual_events: full event type -> event
    next_event_id,      \* self.next_event_id
    newest_pruned_id,   \* self.newest_pruned_id
    pushed,             \* history: type and messages of every push
    pruned              \* history: the events pruned so far

vars == <<queue, virtual_events, next_event_id, newest_pruned_id, pushed, pruned>>

(* compute_full_event_type: flags/<op>/<flag>, the bare type otherwise.    *)
FlagTypes == {<<"flags", op, flag>> : op \in FlagOps, flag \in Flags}
Restart == <<"restart">>
VirtualTypes == FlagTypes \cup {Restart}

Payloads(type) == IF type \in FlagTypes THEN {<<m>> : m \in Messages} ELSE {<<>>}

Events == [id : 0 .. MaxEvents - 1, type : VirtualTypes \cup OtherTypes,
           messages : Seq(Messages), covers : SUBSET (0 .. MaxEvents - 1)]

Virtuals == {virtual_events[t] : t \in DOMAIN virtual_events}

(* The queue's fields have their types; a virtual event is filed under its *)
(* own full event type.                                                    *)
EventQueueTypeOK ==
    /\ queue \in Seq(Events)
    /\ DOMAIN virtual_events \subseteq VirtualTypes
    /\ \A t \in DOMAIN virtual_events :
          virtual_events[t] \in Events /\ virtual_events[t].type = t
    /\ next_event_id \in 0 .. MaxEvents
    /\ newest_pruned_id \in -1 .. MaxEvents - 1

-----------------------------------------------------------------------------
(* empty()                                                                 *)
Empty(q, virtual) == q = <<>> /\ DOMAIN virtual = {}

(* push(): a real event is appended; a virtual one starts a new entry of   *)
(* the dict or is merged into the one already there, which takes its id    *)
(* and gains its messages.                                                 *)
(* Mutant: the merged event has the new messages only.                     *)
MergeVirtual_replaces(old, event) ==
    [old EXCEPT !.id = event.id, !.messages = event.messages,
                !.covers = @ \cup event.covers]

MergeVirtual(old, event) ==
    [old EXCEPT !.id = event.id,
                !.messages = @ \o event.messages,
                !.covers = @ \cup event.covers]

FileVirtual(virtual, event) ==
    [t \in DOMAIN virtual \cup {event.type} |->
        IF t # event.type THEN virtual[t]
        ELSE IF t \in DOMAIN virtual THEN MergeVirtual(virtual[t], event)
        ELSE event]

(* A loop over events from the left, while the id is at most `id'.         *)
Leading(events, id) ==
    Cardinality({k \in DOMAIN events : \A i \in 1 .. k : events[i].id <= id})

(* prune(): pop from the left while the first id is at most through_id.    *)
PruneCount(q, through_id) == Leading(q, through_id)

Prune(q, through_id) == SubSeq(q, PruneCount(q, through_id) + 1, Len(q))

Popped(q, through_id) == SubSeq(q, 1, PruneCount(q, through_id))

(* Mutant: remembers the acknowledged id, not the id of the pruned event.  *)
NewestPruned_throughId(q, through_id, old) ==
    IF PruneCount(q, through_id) = 0 THEN old ELSE through_id

NewestPruned(q, through_id, old) ==
    LET k == PruneCount(q, through_id) IN IF k = 0 THEN old ELSE q[k].id

(* sorted(): the k-th event is the one with k ids up to its own.           *)
SortedById(events) ==
    [k \in 1 .. Cardinality(events) |->
        CHOOSE e \in events : Cardinality({f \in events : f.id <= e.id}) = k]

SortedVirtuals(virtual) == SortedById({virtual[t] : t \in DOMAIN virtual})

(* contents(): walk the deque; before each real event, emit the virtual    *)
(* events with a smaller id that are still waiting, in the order of their  *)
(* ids; then emit the rest.                                                *)
Emit(acc, event, waiting) ==
    LET index == acc.index + Leading(SubSeq(waiting, acc.index + 1, Len(waiting)),
                                     event.id - 1)
    IN  [contents |-> acc.contents \o SubSeq(waiting, acc.index + 1, index) \o <<event>>,
         index |-> index]

Loop(q, waiting) ==
    LET loop[k \in 0 .. Len(q)] ==
            IF k = 0 THEN [contents |-> <<>>, index |-> 0]
            ELSE Emit(loop[k - 1], q[k], waiting)
    IN  loop

(* Mutant: the virtual events come after all the real ones.                *)
Contents_appends(q, virtual) == q \o SortedVirtuals(virtual)

Contents(q, virtual) ==
    LET waiting == SortedVirtuals(virtual)
        merged == Loop(q, waiting)[Len(q)]
    IN  merged.contents \o SubSeq(waiting, merged.index + 1, Len(waiting))

NoVirtuals == [t \in {} |-> {}]

(* to_dict() and from_dict(): the fields that survive a restart.           *)
ToDict ==
    [queue |-> queue, virtual_events |-> virtual_events,
     next_event_id |-> next_event_id, newest_pruned_id |-> newest_pruned_id]

(* Mutant: the waiting virtual events are not restored.                    *)
FromDict_dropsVirtual(d) ==
    /\ queue' = d.queue
    /\ virtual_events' = NoVirtuals
    /\ next_event_id' = d.next_event_id
    /\ newest_pruned_id' = d.newest_pruned_id

FromDict(d) ==
    /\ queue' = d.queue
    /\ virtual_events' = d.virtual_events
    /\ next_event_id' = d.next_event_id
    /\ newest_pruned_id' = d.newest_pruned_id

-----------------------------------------------------------------------------
Init ==
    /\ queue = <<>>
    /\ virtual_events = NoVirtuals
    /\ next_event_id = 0
    /\ newest_pruned_id = -1
    /\ pushed = <<>>
    /\ pruned = <<>>

Push(type, messages) ==
    LET event == [id |-> next_event_id, type |-> type, messages |-> messages,
                  covers |-> {next_event_id}]
    IN  /\ next_event_id < MaxEvents
        /\ next_event_id' = next_event_id + 1
        /\ IF type \in VirtualTypes
           THEN /\ virtual_events' = FileVirtual(virtual_events, event)
                /\ UNCHANGED queue
           ELSE /\ queue' = Append(queue, event)
                /\ UNCHANGED virtual_events
        /\ pushed' = Append(pushed, [type |-> type, messages |-> messages])
        /\ UNCHANGED <<newest_pruned_id, pruned>>

(* finish_current_handler: the handler that waits gets the contents.       *)
Finish ==
    /\ queue' = Contents(queue, virtual_events)
    /\ virtual_events' = NoVirtuals
    /\ UNCHANGED <<next_event_id, newest_pruned_id, pushed, pruned>>

(* fetch_events for an existing queue.  Pruning comes between the two      *)
(* checks, and is not undone when the second one fails.                    *)
FetchAlreadyPruned(last_event_id) ==
    /\ last_event_id < newest_pruned_id
    /\ UNCHANGED vars

FetchNotInQueue(last_event_id) ==
    /\ last_event_id >= newest_pruned_id
    /\ NewestPruned(queue, last_event_id, newest_pruned_id) # last_event_id
    /\ queue' = Prune(queue, last_event_id)
    /\ newest_pruned_id' = NewestPruned(queue, last_event_id, newest_pruned_id)
    /\ pruned' = pruned \o Popped(queue, last_event_id)
    /\ UNCHANGED <<virtual_events, next_event_id, pushed>>

FetchRespond(last_event_id, dont_block) ==
    LET rest == Prune(queue, last_event_id)
    IN  /\ last_event_id >= newest_pruned_id
        /\ NewestPruned(queue, last_event_id, newest_pruned_id) = last_event_id
        /\ ~Empty(rest, virtual_events) \/ dont_block
        /\ queue' = Contents(rest, virtual_events)
        /\ virtual_events' = NoVirtuals
        /\ newest_pruned_id' = last_event_id
        /\ pruned' = pruned \o Popped(queue, last_event_id)
        /\ UNCHANGED <<next_event_id, pushed>>

FetchBlock(last_event_id) ==
    LET rest == Prune(queue, last_event_id)
    IN  /\ last_event_id >= newest_pruned_id
        /\ NewestPruned(queue, last_event_id, newest_pruned_id) = last_event_id
        /\ Empty(rest, virtual_events)
        /\ queue' = rest
        /\ newest_pruned_id' = last_event_id
        /\ pruned' = pruned \o Popped(queue, last_event_id)
        /\ UNCHANGED <<virtual_events, next_event_id, pushed>>

(* dump_event_queues on exit, load_event_queues at the next start.         *)
DumpLoad ==
    /\ FromDict(ToDict)
    /\ UNCHANGED <<pushed, pruned>>

(* Any client-chosen last_event_id: a real one, a stale one, or one beyond *)
(* every event of the queue.                                               *)
LastEventIds == -1 .. MaxEvents

Next ==
    \/ \E type \in VirtualTypes \cup OtherTypes : \E messages \in Payloads(type) :
          Push(type, messages)
    \/ Finish
    \/ \E last_event_id \in LastEventIds :
          \/ FetchAlreadyPruned(last_event_id)
          \/ FetchNotInQueue(last_event_id)
          \/ \E dont_block \in BOOLEAN : FetchRespond(last_event_id, dont_block)
          \/ FetchBlock(last_event_id)
    \/ DumpLoad

Spec == Init /\ [][Next]_vars

-----------------------------------------------------------------------------
(* The events a client is given, were it to ask now.                       *)
ContentsNow == Contents(queue, virtual_events)

(* contents() merges "the virtual events into their final place in the     *)
(* queue": whatever was pushed, merged, fetched and acknowledged before,   *)
(* it returns every waiting event once, by increasing id.                  *)
MergeIsSort ==
    ContentsNow = SortedById(Range(queue) \cup Virtuals)

MessagesOf(events, type) ==
    FlattenSeq([i \in DOMAIN events |->
        IF events[i].type = type THEN events[i].messages ELSE <<>>])

(* Merging flag events neither loses, repeats nor reorders a message of    *)
(* one operation on one flag: what was acknowledged and what waits add up  *)
(* to what was pushed, through merges, prunes (also of a last_event_id     *)
(* that is rejected) and restarts of the server.                           *)
MergeKeepsMessages ==
    \A type \in FlagTypes :
        MessagesOf(pruned \o ContentsNow, type) = MessagesOf(pushed, type)

(* What the flags are after the events, applied one after the other.       *)
ApplyFlags(events) ==
    FoldLeft(LAMBDA set, e :
                IF e.type \notin FlagTypes THEN set
                ELSE LET named == {<<e.type[3], m>> : m \in Range(e.messages)}
                     IN  IF e.type[2] = "add" THEN set \cup named ELSE set \ named,
             {}, events)

(* "events need to be synced to every client that has a copy of the old    *)
(* data if one wants to avoid clients displaying inaccurate data": a       *)
(* client that applies all events of its queue has the flags the server    *)
(* has.  Merging moves an earlier `add' behind a later `remove' of the     *)
(* same message, so it does not.                                           *)
FlagsConverge == ApplyFlags(pruned \o ContentsNow) = ApplyFlags(pushed)

(* The deque and the dict implement the log of pending entries.            *)
LogEntry(e, type) == [id |-> e.id, covers |-> e.covers, virtual |-> type]

Log == INSTANCE PendingLog WITH
    Plain <- <<"final">>,
    pending <- {LogEntry(e, <<"final">>) : e \in Range(queue)}
                \cup {LogEntry(e, e.type) : e \in Virtuals}

ImplementsLog == Log!LogSpec
=============================================================================
