------------------------------ MODULE LongPoll ------------------------------
(***************************************************************************)
(* One browser page, its event queue in the Tornado server, and the        *)
(* network between them: the poll loop of static/js/server_events.js       *)
(* against ClientDescriptor and fetch_events of event_queue.py and the     *)
(* request handlers of handlers.py.                                        *)
(*                                                                         *)
(* A request is named by the XMLHttpRequest that carries it; so is the     *)
(* handler that serves it.  Handler ids only matter where the code tests   *)
(* them: `handler_zero' is the request that got id 0 in this life of the   *)
(* process.  The contents of the queue are those of module PendingLog.     *)
(* Time is abstract: a timer that is set may fire.                         *)
(*                                                                         *)
(* What the environment may do wrong (lose or delay a request or response, *)
(* break a connection, kill or restart the server, wake a laptop) costs    *)
(* one of MaxMishaps; everything else is the normal course of events.      *)
(* The queue has just been allocated, by a request of its own, when the    *)
(* model begins.                                                           *)
(***************************************************************************)
EXTENDS PendingLog

CONSTANTS
    Restart,        \* the full event type of send_restart_events
    AcceptsRestart, \* accepts_event(restart): the queue's event_types allow it
    None,           \* JavaScript's undefined and Python's None
    MaxEvents,      \* bound: pushes, those of send_restart_events excepted
    MaxMishaps      \* bound: failures of the environment

ASSUME RestartAssumption == Restart \in VirtualTypes
ASSUME AcceptsRestartAssumption == AcceptsRestart \in BOOLEAN
ASSUME NoneAssumption == None \notin Nat
ASSUME BoundsAssumption == MaxEvents \in Nat /\ MaxMishaps \in Nat

VARIABLES
    (* The Tornado process.                                                *)
    up,                     \* the process runs
    queue_exists,           \* queue_id \in clients, or in the dump when down
    current_handler_id,     \* ClientDescriptor.current_handler_id
    timeout_handle,         \* ClientDescriptor._timeout_handle is set
    handlers,               \* keys of handlers.handlers
    descriptors,            \* keys of descriptors_by_handler_id
    handler_zero,           \* the handler with id 0, None before there is one
    open,                   \* handlers whose response is not finished
    (* The network.                                                        *)
    requests,               \* sent by the page, not yet with Tornado
    responses,              \* sent by Tornado, not yet with the page
    (* The page.                                                           *)
    page,                   \* "loading", "loaded", "open", "reloading", "gone"
    last_event_id,          \* get_events_params.last_event_id
    get_events_xhr,
    get_events_timeout,     \* get_events_timeout is set
    failing,                \* get_events_failures > 0
    waiting_on_homeview_load,
    events_stored_while_loading,
    next_xhr,
    applied,                \* history: pushes whose content was dispatched
    repeated,               \* history: pushes dispatched more than once
    mishaps                 \* failures of the environment so far

clientVars == <<current_handler_id, timeout_handle, handlers, descriptors, open>>
serverVars == <<up, queue_exists, handler_zero, clientVars>>
loopVars == <<last_event_id, get_events_xhr, get_events_timeout, failing, next_xhr>>
viewVars == <<waiting_on_homeview_load, events_stored_while_loading, applied, repeated>>
vars == <<logVars, serverVars, requests, responses, page, loopVars, viewVars, mishaps>>

Xhr == Nat
Request == [xhr : Xhr, op : {"get", "delete"}, last_event_id : Nat \cup {-1},
            dont_block : BOOLEAN]
Response == [xhr : Xhr, result : {"events", "bad_queue", "error"},
             events : SUBSET Entry]

(* The state of the queue, the handlers, the network and the page has the  *)
(* shape the code gives it.                                                *)
TypeOK ==
    /\ LogTypeOK
    /\ up \in BOOLEAN /\ queue_exists \in BOOLEAN
    /\ current_handler_id \in Xhr \cup {None}
    /\ timeout_handle \in BOOLEAN
    /\ handlers \in SUBSET Xhr /\ descriptors \in SUBSET Xhr /\ open \in SUBSET Xhr
    /\ handler_zero \in Xhr \cup {None}
    /\ requests \in SUBSET Request
    /\ responses \in SUBSET Response
    /\ page \in {"loading", "loaded", "open", "reloading", "gone"}
    /\ last_event_id \in Nat \cup {-1}
    /\ get_events_xhr \in Xhr \cup {None}
    /\ get_events_timeout \in BOOLEAN
    /\ failing \in BOOLEAN
    /\ waiting_on_homeview_load \in BOOLEAN
    /\ events_stored_while_loading \in SUBSET Entry
    /\ next_xhr \in Nat
    /\ applied \in SUBSET Nat /\ repeated \in SUBSET Nat
    /\ mishaps \in Nat

Init ==
    /\ LogInit
    /\ up = TRUE /\ queue_exists = TRUE
    /\ current_handler_id = None /\ timeout_handle = FALSE
    /\ handlers = {} /\ descriptors = {} /\ open = {}
    /\ handler_zero = 0 /\ next_xhr = 1
    /\ requests = {} /\ responses = {}
    /\ page = "loading"
    /\ last_event_id = -1
    /\ get_events_xhr = None /\ get_events_timeout = FALSE
    /\ failing = FALSE
    /\ waiting_on_homeview_load = TRUE /\ events_stored_while_loading = {}
    /\ applied = {} /\ repeated = {}
    /\ mishaps = 0

Mishap == mishaps < MaxMishaps /\ mishaps' = mishaps + 1

(* Free when `harmless' holds, a mishap otherwise.                         *)
Unless(harmless) == IF harmless THEN UNCHANGED mishaps ELSE Mishap

-----------------------------------------------------------------------------
(* ClientDescriptor                                                        *)

(* disconnect_handler().  `if self.current_handler_id' is also false for   *)
(* handler 0, whose entries then stay in the two dicts.                    *)
Kept(dict) == IF current_handler_id = handler_zero THEN dict
              ELSE dict \ {current_handler_id}

disconnect_handler ==
    /\ descriptors' = Kept(descriptors)
    /\ handlers' = Kept(handlers)
    /\ current_handler_id' = None
    /\ timeout_handle' = FALSE

(* Mutant: answers without looking whether a handler waits.                *)
SentByFinish_unguarded(ok, events) ==
    IF ~ok THEN {}
    ELSE {[xhr |-> current_handler_id, result |-> "events", events |-> events]}

(* finish_current_handler(): the handler that waits, if any, is sent the   *)
(* contents and disconnected.  finish_handler logs every exception, so it  *)
(* is disconnected also when the response could not be produced (~ok).     *)
SentByFinish(ok, events) ==
    IF current_handler_id = None \/ ~ok THEN {}
    ELSE {[xhr |-> current_handler_id, result |-> "events", events |-> events]}

OpenAfterFinish(ok) == IF ok THEN open \ {current_handler_id} ELSE open

FinishOutcome(ok) ==
    IF ok THEN UNCHANGED mishaps ELSE current_handler_id # None /\ Mishap

finish_current_handler(ok) ==
    /\ FinishOutcome(ok)
    /\ open' = OpenAfterFinish(ok)
    /\ IF current_handler_id # None THEN disconnect_handler
       ELSE UNCHANGED <<current_handler_id, timeout_handle, handlers, descriptors>>

(* add_event(): push, then finish the handler with the contents.           *)
add_event(type, ok) ==
    LET queued == Pushed(pending, next_event_id, type)
    IN  /\ up /\ queue_exists
        /\ next_event_id < MaxEvents
        /\ pending' = IF current_handler_id # None THEN Final(queued) ELSE queued
        /\ next_event_id' = next_event_id + 1
        /\ responses' = responses \cup SentByFinish(ok, Final(queued))
        /\ finish_current_handler(ok)
        /\ UNCHANGED <<newest_pruned_id, up, queue_exists, handler_zero,
                       requests, page, loopVars, viewVars>>

AddEvent == \E type \in Types \ {Restart}, ok \in BOOLEAN : add_event(type, ok)

(* timeout_callback of connect_handler: a heartbeat event.                 *)
Heartbeat == timeout_handle /\ \E ok \in BOOLEAN : add_event(Plain, ok)

-----------------------------------------------------------------------------
(* Tornado receives a request: AsyncDjangoHandler, fetch_events.           *)

(* allocate_handler_id; the entry of a synchronous request is cleared      *)
(* again before its response is written.                                   *)
allocate_handler_id(x) ==
    handler_zero' = IF handler_zero = None THEN x ELSE handler_zero

Received(q) ==
    /\ up
    /\ q \in requests
    /\ requests' = requests \ {q}
    /\ allocate_handler_id(q.xhr)
    /\ UNCHANGED <<up, page, loopVars, viewVars>>

Answer(q, result) ==
    /\ responses' = responses \cup {[xhr |-> q.xhr, result |-> result, events |-> {}]}
    /\ UNCHANGED <<queue_exists, clientVars, mishaps>>

(* get_client_descriptor: BadEventQueueIdError.                            *)
FetchBadQueue(q) ==
    /\ Received(q)
    /\ ~queue_exists
    /\ Answer(q, "bad_queue")
    /\ UNCHANGED logVars

(* Mutant: <= for <.                                                       *)
FetchAlreadyPruned_offByOne(q) ==
    /\ Received(q) /\ q.op = "get"
    /\ queue_exists
    /\ q.last_event_id <= newest_pruned_id
    /\ Answer(q, "error")
    /\ UNCHANGED logVars

(* "An event newer than ... has already been pruned!"                      *)
FetchAlreadyPruned(q) ==
    /\ Received(q) /\ q.op = "get"
    /\ queue_exists
    /\ q.last_event_id < newest_pruned_id
    /\ Answer(q, "error")
    /\ UNCHANGED logVars

Acknowledged(q) == NewestPruned(pending, q.last_event_id, newest_pruned_id)

(* "Event ... was not in this queue", after prune.                         *)
FetchNotInQueue(q) ==
    /\ Received(q) /\ q.op = "get"
    /\ queue_exists
    /\ q.last_event_id >= newest_pruned_id
    /\ Acknowledged(q) # q.last_event_id
    /\ LogPrune(q.last_event_id)
    /\ Answer(q, "error")

(* The rest of fetch_events.  finish_current_handler has taken the         *)
(* contents if a handler was waiting.                                      *)
FetchAccepted(q) ==
    /\ Received(q) /\ q.op = "get"
    /\ queue_exists
    /\ q.last_event_id >= newest_pruned_id
    /\ Acknowledged(q) = q.last_event_id
    /\ LogPruneContents(q.last_event_id)
    /\ UNCHANGED queue_exists

(* The response carries everything that waits; so does the one to the      *)
(* handler that this request supplants.                                    *)
FetchRespond(q, ok) ==
    /\ FetchAccepted(q)
    /\ pending' # {} \/ q.dont_block
    /\ responses' = responses \cup SentByFinish(ok, pending')
            \cup {[xhr |-> q.xhr, result |-> "events", events |-> pending']}
    /\ finish_current_handler(ok)

(* Nothing to send and the request may wait: connect_handler().            *)
FetchBlock(q, ok) ==
    /\ FetchAccepted(q)
    /\ pending' = {} /\ ~q.dont_block
    /\ responses' = responses \cup SentByFinish(ok, {})
    /\ FinishOutcome(ok)
    /\ open' = OpenAfterFinish(ok) \cup {q.xhr}
    /\ handlers' = Kept(handlers) \cup {q.xhr}
    /\ descriptors' = Kept(descriptors) \cup {q.xhr}
    /\ current_handler_id' = q.xhr
    /\ timeout_handle' = TRUE

(* cleanup_event_queue, ClientDescriptor.cleanup: finish the handler, then *)
(* remove the queue.                                                       *)
Cleanup(q, ok) ==
    /\ Received(q) /\ q.op = "delete"
    /\ queue_exists
    /\ queue_exists' = FALSE
    /\ pending' = IF current_handler_id # None THEN Final(pending) ELSE pending
    /\ responses' = responses \cup SentByFinish(ok, Final(pending))
    /\ finish_current_handler(ok)
    /\ UNCHANGED <<next_event_id, newest_pruned_id>>

ReceiveRequest ==
    \E q \in requests :
        \/ FetchBadQueue(q)
        \/ FetchAlreadyPruned(q)
        \/ FetchNotInQueue(q)
        \/ \E ok \in BOOLEAN : FetchRespond(q, ok) \/ FetchBlock(q, ok) \/ Cleanup(q, ok)

(* A request for another queue, or for none, may be the first of the life  *)
(* of the process.                                                         *)
OtherRequest ==
    /\ up /\ handler_zero = None
    /\ allocate_handler_id(next_xhr) /\ next_xhr' = next_xhr + 1
    /\ UNCHANGED <<logVars, up, queue_exists, clientVars, requests, responses,
                   page, last_event_id, get_events_xhr, get_events_timeout,
                   failing, viewVars, mishaps>>

-----------------------------------------------------------------------------
(* Tornado: connections, garbage collection, shutdown and start.           *)

(* on_connection_close: Tornado calls it for a response not yet finished.  *)
OnConnectionClose ==
    \E x \in open :
        /\ up
        /\ Unless(x # get_events_xhr)
        /\ open' = open \ {x}
        /\ IF x \in descriptors THEN disconnect_handler
           ELSE UNCHANGED <<current_handler_id, timeout_handle, handlers, descriptors>>
        /\ UNCHANGED <<logVars, up, queue_exists, handler_zero, requests,
                       responses, page, loopVars, viewVars>>

(* Mutant: expired() looks at the time only.                               *)
GcEventQueues_ignoresHandler ==
    /\ up /\ queue_exists
    /\ queue_exists' = FALSE
    /\ UNCHANGED <<logVars, up, handler_zero, clientVars, requests, responses,
                   page, loopVars, viewVars, mishaps>>

(* gc_event_queues: expired(), so no handler and the timeout has passed.   *)
GcEventQueues ==
    /\ up /\ queue_exists
    /\ current_handler_id = None
    /\ queue_exists' = FALSE
    /\ UNCHANGED <<logVars, up, handler_zero, clientVars, requests, responses,
                   page, loopVars, viewVars, mishaps>>

(* The process ends: every connection and everything in memory is gone.    *)
ProcessEnds ==
    /\ up /\ up' = FALSE
    /\ Mishap
    /\ current_handler_id' = None /\ timeout_handle' = FALSE
    /\ handlers' = {} /\ descriptors' = {} /\ open' = {} /\ handler_zero' = None
    /\ UNCHANGED <<logVars, requests, responses, page, loopVars, viewVars>>

(* exit through SIGTERM or reload: dump_event_queues writes to_dict().     *)
Shutdown == ProcessEnds /\ UNCHANGED queue_exists

(* exit without dump_event_queues.  The file of an earlier dump has been   *)
(* renamed when the process started.                                       *)
Crash == ProcessEnds /\ queue_exists' = FALSE

(* Mutant: send_restart_events before load_event_queues.                   *)
Start_restartBeforeLoad ==
    /\ ~up /\ up' = TRUE
    /\ UNCHANGED <<logVars, queue_exists, handler_zero, clientVars, requests,
                   responses, page, loopVars, viewVars, mishaps>>

(* Mutant: from_dict does not restore newest_pruned_id.                    *)
Start_forgetsPruned ==
    /\ ~up /\ up' = TRUE
    /\ IF queue_exists /\ AcceptsRestart
       THEN /\ pending' = Pushed(pending, next_event_id, Restart)
            /\ next_event_id' = next_event_id + 1
       ELSE UNCHANGED <<pending, next_event_id>>
    /\ newest_pruned_id' = -1
    /\ UNCHANGED <<queue_exists, handler_zero, clientVars, requests, responses,
                   page, loopVars, viewVars, mishaps>>

(* setup_event_queue: load_event_queues, then send_restart_events to the   *)
(* clients that accept the event; no handler waits yet.                    *)
Start ==
    /\ ~up /\ up' = TRUE
    /\ IF queue_exists /\ AcceptsRestart THEN LogPush(Restart) ELSE UNCHANGED logVars
    /\ UNCHANGED <<queue_exists, handler_zero, clientVars, requests, responses,
                   page, loopVars, viewVars, mishaps>>

-----------------------------------------------------------------------------
(* The network                                                             *)

(* Free when the page has given the request up.  A request that meets no   *)
(* running server is lost this way too, or arrives after the start.        *)
LoseRequest ==
    \E q \in requests :
        /\ Unless(q.xhr # get_events_xhr)
        /\ requests' = requests \ {q}
        /\ UNCHANGED <<logVars, serverVars, responses, page, loopVars, viewVars>>

(* Free when the page no longer waits for it: no callback runs.            *)
LoseResponse ==
    \E r \in responses :
        /\ Unless(r.xhr # get_events_xhr)
        /\ responses' = responses \ {r}
        /\ UNCHANGED <<logVars, serverVars, requests, page, loopVars, viewVars>>

-----------------------------------------------------------------------------
(* The page: registration by do_events_register, then server_events.js     *)

(* Math.max over the old value and the ids of the events.                  *)
LastId(events, old) ==
    LET ids == {old} \cup {e.id : e \in events}
    IN  CHOOSE i \in ids : \A j \in ids : j <= i

(* do_events_register calls get_user_events(..., -1), applies the events   *)
(* to the initial state, and gives the page the id of the last one.  A     *)
(* `restart' among them makes it start over with another queue; an error   *)
(* ends the page load.                                                     *)
Register ==
    /\ page = "loading" /\ up
    /\ allocate_handler_id(next_xhr) /\ next_xhr' = next_xhr + 1
    /\ IF queue_exists THEN LogPruneContents(-1) ELSE UNCHANGED logVars
    /\ IF queue_exists /\ \A e \in pending : e.virtual # Restart
       THEN /\ applied' = Covered(pending)
            /\ last_event_id' = LastId(pending, -1)
            /\ page' = "loaded"
       ELSE /\ page' = "gone"
            /\ UNCHANGED <<applied, last_event_id>>
    /\ UNCHANGED <<up, queue_exists, clientVars, requests, responses,
                   get_events_xhr, get_events_timeout, failing, repeated,
                   waiting_on_homeview_load, events_stored_while_loading, mishaps>>

(* Mutant: the timer keeps running.                                        *)
get_events_keepsTimer(dont_block, after_failure) ==
    /\ get_events_xhr' = next_xhr
    /\ next_xhr' = next_xhr + 1
    /\ requests' = requests \cup
            {[xhr |-> next_xhr, op |-> "get", last_event_id |-> last_event_id,
              dont_block |-> dont_block \/ after_failure]}
    /\ failing' = after_failure
    /\ UNCHANGED <<logVars, serverVars, responses, last_event_id, viewVars,
                   get_events_timeout>>

(* get_events(): aborts the request that is under way, clears the timer    *)
(* and sends a new request.                                                *)
get_events(dont_block, after_failure) ==
    /\ get_events_xhr' = next_xhr
    /\ next_xhr' = next_xhr + 1
    /\ get_events_timeout' = FALSE
    /\ requests' = requests \cup
            {[xhr |-> next_xhr, op |-> "get", last_event_id |-> last_event_id,
              dont_block |-> dont_block \/ after_failure]}
    /\ failing' = after_failure
    /\ UNCHANGED <<logVars, serverVars, responses, last_event_id, viewVars>>

(* initialize()                                                            *)
Initialize ==
    /\ page = "loaded" /\ page' = "open"
    /\ get_events(FALSE, failing)
    /\ UNCHANGED mishaps

TimerFires ==
    /\ page = "open" /\ get_events_timeout
    /\ get_events(FALSE, failing)
    /\ UNCHANGED <<page, mishaps>>

(* restart_get_events, from sent_messages (which does not ask for an       *)
(* immediate answer) or from a click; on_unsuspend also resets the count   *)
(* of failures.                                                            *)
RestartGetEvents ==
    /\ page = "open"
    /\ \/ get_events(FALSE, failing)
       \/ get_events(TRUE, failing)
       \/ get_events(TRUE, FALSE)
    /\ Mishap
    /\ UNCHANGED page

(* Mutant: the stored events are dispatched but not cleared.               *)
Dispatch_keepsStored(events) ==
    IF waiting_on_homeview_load'
    THEN /\ events_stored_while_loading' = events_stored_while_loading \cup events
         /\ UNCHANGED <<applied, repeated>>
    ELSE LET ids == Covered(events_stored_while_loading \cup events)
         IN  /\ UNCHANGED events_stored_while_loading
             /\ applied' = applied \cup ids
             /\ repeated' = repeated \cup (ids \cap applied)

(* Mutant: the stored events are cleared but not dispatched.               *)
Dispatch_dropsStored(events) ==
    IF waiting_on_homeview_load'
    THEN /\ events_stored_while_loading' = events_stored_while_loading \cup events
         /\ UNCHANGED <<applied, repeated>>
    ELSE /\ events_stored_while_loading' = {}
         /\ applied' = applied \cup Covered(events)
         /\ repeated' = repeated \cup (Covered(events) \cap applied)

(* get_events_success, the part after last_event_id is updated.            *)
Dispatch(events) ==
    IF waiting_on_homeview_load'
    THEN /\ events_stored_while_loading' = events_stored_while_loading \cup events
         /\ UNCHANGED <<applied, repeated>>
    ELSE LET ids == Covered(events_stored_while_loading \cup events)
         IN  /\ events_stored_while_loading' = {}
             /\ applied' = applied \cup ids
             /\ repeated' = repeated \cup (ids \cap applied)

(* The request's callback has run: it is no longer under way, and the      *)
(* timer for the next one is set.                                          *)
CallbackOf(r) ==
    /\ page = "open"
    /\ r.xhr = get_events_xhr
    /\ responses' = responses \ {r}
    /\ get_events_xhr' = None
    /\ get_events_timeout' = TRUE
    /\ UNCHANGED <<logVars, serverVars, requests, next_xhr, mishaps>>

Success(r) ==
    /\ CallbackOf(r) /\ r.result = "events"
    /\ failing' = FALSE
    /\ last_event_id' = LastId(r.events, last_event_id)
    /\ UNCHANGED waiting_on_homeview_load
    /\ Dispatch(r.events)
    /\ UNCHANGED page

(* The error callback for a response; BAD_EVENT_QUEUE_ID reloads the page. *)
ErrorResponse(r) ==
    /\ CallbackOf(r) /\ r.result # "events"
    /\ failing' = TRUE
    /\ page' = IF r.result = "bad_queue" THEN "reloading" ELSE page
    /\ UNCHANGED <<last_event_id, viewVars>>

ReceiveResponse == \E r \in responses : Success(r) \/ ErrorResponse(r)

(* Nobody will answer the request of the page any more.                    *)
Unanswered ==
    /\ get_events_xhr # current_handler_id
    /\ \A q \in requests : q.xhr # get_events_xhr
    /\ \A r \in responses : r.xhr # get_events_xhr

(* Mutant: returns without a timer, as for an aborted request.             *)
XhrFails_noRetry ==
    /\ page = "open" /\ get_events_xhr # None
    /\ Unless(Unanswered)
    /\ get_events_xhr' = None
    /\ failing' \in BOOLEAN
    /\ UNCHANGED <<logVars, serverVars, requests, responses, page,
                   get_events_timeout, last_event_id, next_xhr, viewVars>>

(* The error callback without a response: the browser's own timeout, which *)
(* resets the count of failures, or a broken connection.                   *)
XhrFails ==
    /\ page = "open" /\ get_events_xhr # None
    /\ Unless(Unanswered)
    /\ get_events_xhr' = None
    /\ get_events_timeout' = TRUE
    /\ failing' \in BOOLEAN
    /\ UNCHANGED <<logVars, serverVars, requests, responses, page,
                   last_event_id, next_xhr, viewVars>>

HomeViewLoaded ==
    /\ page = "open" /\ waiting_on_homeview_load
    /\ waiting_on_homeview_load' = FALSE
    /\ Dispatch({})
    /\ UNCHANGED <<logVars, serverVars, requests, responses, page, loopVars, mishaps>>

(* beforeunload: cleanup_event_queue sends a DELETE that nobody waits for. *)
Unload ==
    /\ page = "open" /\ page' = "gone"
    /\ requests' = requests \cup
            {[xhr |-> next_xhr, op |-> "delete", last_event_id |-> -1,
              dont_block |-> FALSE]}
    /\ next_xhr' = next_xhr + 1
    /\ get_events_xhr' = None /\ get_events_timeout' = FALSE
    /\ UNCHANGED <<logVars, serverVars, responses, last_event_id, failing,
                   viewVars, mishaps>>

-----------------------------------------------------------------------------
Next ==
    \/ AddEvent \/ Heartbeat
    \/ ReceiveRequest \/ OtherRequest
    \/ OnConnectionClose \/ GcEventQueues
    \/ Shutdown \/ Crash \/ Start
    \/ LoseRequest \/ LoseResponse
    \/ Register \/ Initialize \/ TimerFires \/ RestartGetEvents
    \/ ReceiveResponse \/ XhrFails \/ HomeViewLoaded \/ Unload

Spec == Init /\ [][Next]_vars

(* The process is started again; requests and responses that are not lost  *)
(* arrive; timers fire, the browser's request timeout among them; the      *)
(* page finishes loading.  Nothing is assumed of pushes, heartbeats,       *)
(* notices of closed connections or the garbage collector.                 *)
Fairness ==
    /\ WF_vars(Start)
    /\ WF_vars(ReceiveRequest)
    /\ WF_vars(ReceiveResponse)
    /\ WF_vars(Register) /\ WF_vars(Initialize) /\ WF_vars(HomeViewLoaded)
    /\ WF_vars(TimerFires)
    /\ WF_vars(XhrFails /\ Unanswered)

FairSpec == Spec /\ Fairness

-----------------------------------------------------------------------------
(* The page has dispatched every event of the queue up to its              *)
(* last_event_id exactly once, or has stored it for the end of the page    *)
(* load, whatever was lost, delayed, aborted, retried or restarted: events *)
(* are delivered "ideally in an exactly-once fashion".                     *)
ExactlyOnce ==
    /\ applied \cup Covered(events_stored_while_loading) = 0 .. last_event_id
    /\ applied \cap Covered(events_stored_while_loading) = {}
    /\ repeated = {}

(* No request the page waits for is refused because of its last_event_id:  *)
(* the queue never forgets what the page has not acknowledged, and never   *)
(* misses what it has.  Only an aborted request that arrives late is.      *)
NeverRefused ==
    \A r \in responses : r.xhr = get_events_xhr => r.result # "error"

(* A handler waits only while the queue is empty, is the one the maps      *)
(* know, and belongs to a queue that exists and a process that runs: an    *)
(* event is never left waiting next to a waiting handler, and a queue is   *)
(* idle when it is collected.                                              *)
WaitingHandler ==
    /\ current_handler_id # None =>
          /\ pending = {}
          /\ up /\ queue_exists
          /\ current_handler_id \in handlers \cap descriptors \cap open
    /\ timeout_handle <=> current_handler_id # None

(* The two maps hold no handler but the one that waits, so they do not     *)
(* grow and no stale entry can disconnect a later handler.  disconnect_    *)
(* handler would leave handler 0 behind; a queue that gets `restart'       *)
(* events never has it, because the first request of a new process finds   *)
(* that event waiting and does not block.                                  *)
NoHandlerLeak ==
    AcceptsRestart => handlers \cup descriptors \subseteq {current_handler_id}

(* The poll loop of an open page is always under way in exactly one way,   *)
(* a request or a timer: assert_get_events_running has nothing to repair,  *)
(* and no second loop runs beside the first.                               *)
OneLoop == page = "open" => (get_events_xhr # None) = ~get_events_timeout

(* What the page promises its user, as module Delivery states it.          *)
D == INSTANCE Delivery WITH
    produced <- next_event_id, delivered <- applied,
    abandoned <- page \in {"reloading", "gone"}

ImplementsDelivery == D!DeliverySpec

(* Every event pushed while the page is open is dispatched to it, or the   *)
(* page reloads (its queue was collected or lost) or is closed.            *)
EventuallyDelivered == D!EventuallyDelivered
=============================================================================
