# Event delivery and background work in Zulip: a verification development

This directory specifies, in TLA+, how Zulip delivers events (new messages, flag changes, presence, ...) to its
clients, and what happens to a message whose reader is away. It covers the server's event queues, the long-poll
protocol with the browser, the missed-message notices, the RabbitMQ clients of Tornado and of the queue workers, the
workers for missed-message emails and mobile push notifications, and the hourly analytics job: each with its lost
requests, broken connections, retries, crashes and restarts. Paths below are relative to `src/zulip/`.

## 1. The system

```
 Django processes --notices--> RabbitMQ / HTTP --> Tornado process --long poll--> browser page
   (lib/actions.py)             (lib/queue.py)     (tornado/*)                    (server_events.js)
                                                      |  missed messages
                                                      v
                                     queue workers (worker/queue_processors.py)
```

| Component | State | Operations | Interacts with |
|---|---|---|---|
| `EventQueue` (`zerver/tornado/event_queue.py`) | `queue` (deque), `virtual_events` (dict), `next_event_id`, `newest_pruned_id` | `push`, `prune`, `contents`, `empty`, `to_dict`, `from_dict` | called by `ClientDescriptor`, `fetch_events`, dump and load |
| `ClientDescriptor` (same file) | `current_handler_id`, `_timeout_handle`, `last_connection_time`, the queue | `add_event`, `finish_current_handler`, `connect_handler`, `disconnect_handler`, `expired`, `cleanup` | handlers, the IOLoop's timers |
| registry (same file) | `clients`, `user_clients`, `realm_clients_all_streams`, `gc_hooks`, `next_queue_id` | `allocate_client_descriptor`, `do_gc_event_queues`, `gc_event_queues`, `dump_event_queues`, `load_event_queues`, `send_restart_events`, `fetch_events`, `process_notification` | everything that pushes or polls |
| request handlers (`handlers.py`, `descriptors.py`) | `handlers`, `descriptors_by_handler_id`, the id counter | allocate, finish, `on_connection_close` | Tornado, `ClientDescriptor` |
| endpoints (`views.py`) | none | `get_events_backend`, `cleanup_event_queue`, `notify` | `fetch_events` |
| browser poll loop (`static/js/server_events.js`, `channel.js`) | `get_events_xhr`, `get_events_timeout`, `get_events_failures`, `last_event_id`, `waiting_on_homeview_load`, `events_stored_while_loading` | `get_events` and its callbacks, `home_view_loaded`, `restart_get_events`, `cleanup_event_queue` | the network |
| registration (`zerver/lib/events.py`) | none | `do_events_register` | the registry, the page |
| RabbitMQ client of Tornado (`zerver/lib/queue.py`) | connection, channel, `queues`, `consumers`, `_on_open_cbs` | `ensure_queue`, `json_publish`, `_on_open`, `_on_channel_open`, `_reconnect`, `start_json_consumer` | registry, broker |
| RabbitMQ client of a worker (same file), `QueueProcessingWorker` (`worker/queue_processors.py`) | the batch, `is_consuming`, `failed_tries` of events | `start_json_consumer`, `do_consume`, `retry_event`, `timer_expired`, signals | broker, supervisor |
| `MissedMessageWorker` (same file) | rows of `ScheduledMessageNotificationEmail`, `timer_event`, `lock` | `consume`, `maybe_send_batched_emails` in a timer's thread | requests that read, delete, or change the batching period |
| push notifications (`lib/push_notifications.py`, `PushNotificationsWorker`) | `active_mobile_push_notification` among the flags of `UserMessage` | `handle_push_notification`, `handle_remove_push_notification` | the bouncer, the requests that mark read (`lib/actions.py`) |
| analytics (`analytics/lib/counts.py`) | `FillState`, `UserCount`, `RealmCount`, `InstallationCount`, a lock directory | `process_count_stat`, `do_increment_logging_stat`, the command `update_analytics_counts` | cron, requests |

Tornado runs one thread: every handler, timer and periodic callback runs to its end before the next one, so one of
them is one atomic action here. What makes the system hard is between them: requests, responses, closed connections,
restarts and the page's own timers meet in any order.

### Which behaviours are hard

* **Ordering on the network.** The page aborts requests and sends new ones (`restart_get_events`, wake-up from suspend,
  time-outs). An aborted request may reach Tornado after its successor, and its response may still arrive.
* **Acknowledge, then answer.** `fetch_events` prunes what `last_event_id` acknowledges before it knows whether the
  answer will arrive; `finish_handler` may fail to write and swallows the exception.
* **Merged events change their id.** `restart` and `update_message_flags` events wait as "virtual events" and take the
  id of the last push, so the ids a client knows must not be among those that move.
* **Crash and restart.** A shutdown dumps the queues with requests in flight; a crash loses them, and the page must
  find out.
* **Stale entries.** A handler may be finished, supplanted or closed, in any order, and is known to three maps.
* **Several queues of one user.** Whether a message is notified depends on which queues exist when it arrives and on
  which is collected last; a queue may be collected together with others, and publishing a notice may fail half-way.
* **Retries.** A notice whose processing failed is published again, and one that was not acknowledged is redelivered.
* **Unconfirmed publications.** Tornado publishes through a connection that comes and goes; what waits for the channel
  or a queue is kept as callbacks, which are run again at each reconnection.
* **Batches.** A worker acknowledges a batch at once, and can be told to stop or be killed between any two events of it.
* **Statements without a transaction.** The email worker, the push worker and the analytics job work on rows that other
  processes change between any two of their statements, and a crash leaves the sequence half done.

### What makes each part correct

* the queue: every pushed event is given to the client once, in the order of ids, although `restart` and
  `update_message_flags` events are merged while they wait; the ids a client was given stay valid for acknowledgement,
  also across a restart of the server;
* the descriptor and the handlers: at most one handler waits, only while there is nothing to send; the two maps hold
  that handler and no other; a queue is idle when it is collected;
* the poll loop: exactly one request or timer is under way; every event is dispatched exactly once;
* the whole: every event reaches the page, or the page reloads;
* the registry and the notifications: `clients` and `user_clients` agree; when a user's last queue is gone, the user
  has seen every message or been notified of it as the settings demand, and, while nothing fails,
  no notice is published by two handlers;
* Tornado's RabbitMQ client: after each reconnection every consumer is registered once; what was accepted reaches the
  broker; only what waited for the first channel is repeated;
* a worker: no event falls between queue, process and outcome; only an interruption repeats one; the queue runs empty;
* emails: rows have a timer, those of a killed process once the next notice was consumed; a notice has its row until it was dealt with; repeats need a failure; a user's rows go out
  together;
* push notifications: none is sent while it is shown, and one whose message the user marked
  read is removed, but for three races and failures (section 4);
* analytics: what `FillState` calls filled is counted exactly once in every table, however often the job was killed.

## 2. Modules

| Module | Models | Role |
|---|---|---|
| `PendingLog` | what an event queue promises, as a set of entries | abstract specification of the queue, used as the queue in `LongPoll` |
| `EventQueue` | class `EventQueue` | detailed specification; refines `PendingLog` |
| `Delivery` | what the page promises | abstract specification of the protocol |
| `LongPoll` | one page, the network, Tornado with one queue | detailed specification; EXTENDS `PendingLog`, refines `Delivery` |
| `LongPollInv` | the parts of the inductive invariant of `LongPoll` | checked by TLC, proved below |
| `Notifications` | the queues of one user, the notices from RabbitMQ, the missed-message hook | detailed specification |
| `TornadoQueue` | `TornadoQueueClient`, its connection and the broker | detailed specification |
| `QueueWorker` | one queue, `SimpleQueueClient.start_json_consumer`, `do_consume`, retries, signals | detailed specification |
| `MissedMessageWorker` | consumer, timer thread, rows, and the requests that race them | detailed specification |
| `PushNotifications` | the push worker, the requests that mark read, the device | detailed specification |
| `CountStats` | `process_count_stat`, its tables, the hourly command | detailed specification |
| `MC...` | instances for TLC | |
| `EventQueueProofs` | `EventQueue`: the merge of `contents()`, what merging keeps, the refinement of `PendingLog` | theorems |
| `LongPollProofs` | what `PendingLog`'s operations do to a log; `LongPoll`: types; handlers, maps, timers, the poll loop; exactly-once and the refinement | theorems |
| `NotificationsProofs` | the inductive invariant of `Notifications` and what follows | theorems |
| `TornadoQueueProofs` | `TornadoQueue`: types, the client's assertions, registrations, repetitions | theorems |
| `QueueWorkerProofs` | `QueueWorker`: types, where every event is, how often it is handled | theorems |
| `MissedMessageProofs` | `MissedMessageWorker`: types, timer, notices, rows, how often an email is sent | theorems |
| `PushNotificationsProofs` | `PushNotifications`: types, no notification twice, the removal of what is read | theorems |
| `CountStatsProofs` | the stages of `process_count_stat`, exact counts | theorems |

`PROJECT.json` names the lines of the source behind every definition. Definitions keep the names of the code where
there is one; a definition whose comment begins with "Mutant:" is a faulty variant that a property must detect.

### EventQueue

The four fields of the class are the variables, plus two histories. An event is its id, its full event type
(`compute_full_event_type`) and the messages of a flag event; `covers` remembers the pushes merged into it. `Push`,
`Finish` (a response by `finish_current_handler`), the four outcomes of `fetch_events` and `DumpLoad` (`to_dict`, then
`from_dict`) are the actions. Clients send any `last_event_id`. `Contents` is the merge of `contents()` by ids, which
also makes the virtual events real. `Loop[k]` is the state of its `for` loop after k events of the deque, and `Leading`
how far a loop over ids goes that stops at the first larger one. `SortedById`, the code's `sorted`, puts each event at
the place that the number of ids up to its own gives; the ids are distinct. No definition here is a RECURSIVE operator,
so that theorems can be stated about them.

### LongPoll

The queue is the log of `PendingLog`, which `EventQueue` is shown to implement. The actions are the entry points of
the single Tornado thread and of the page's event loop, each up to its end:

| Action | Code |
|---|---|
| `AddEvent`, `Heartbeat` | `ClientDescriptor.add_event`; the timeout callback of `connect_handler` |
| `ReceiveRequest` | `get_events_backend`, `fetch_events` with its six outcomes, `cleanup_event_queue` |
| `OnConnectionClose`, `GcEventQueues` | `on_connection_close`; `gc_event_queues` with `expired()` |
| `Shutdown`, `Crash`, `Start` | the exit handler's dump; its absence; `setup_event_queue` with `send_restart_events` |
| `Register`, `Initialize` | `do_events_register`'s `get_user_events`; `initialize` of the page |
| `TimerFires`, `RestartGetEvents`, `ReceiveResponse`, `XhrFails`, `HomeViewLoaded`, `Unload` | `get_events` and its callbacks |
| `LoseRequest`, `LoseResponse`, `OtherRequest` | the network; a request of somebody else that takes handler id 0 |

Where `finish_handler` may fail to send, the action has a Boolean `ok`, and a failure is one of the mishaps. A request is named by its xhr, and the server's
handler is named by the request it serves; only id 0, which the code tests, is told apart (`handler_zero`). Events
that reach the page are abstracted to the pushes they cover.

### Notifications

One user with a set of queues, some of which take `message` events. `SendEvent` is Django; `ProcessNotification` the
consumer of `notify_tornado` (`process_message_event`: the notices, then the fan-out), with redelivery;
`ProcessNotificationFails` an exception of the publication at any point of `maybe_enqueue_notifications`, followed by
`retry_event`. `GcEventQueues` and `CleanupEventQueue` are `do_gc_event_queues` for any set of queues: first
`user_clients` is filtered for all of them, then, queue by queue, the hook runs and the queue is deleted from
`clients`; the hook may fail after any part of its notices. The connection of a queue is left out, so that any set of
queues may have expired: this allows more than the code. `internal_data` is kept as the set of kinds of notice that
were published on arrival.

### TornadoQueue

A callback of pika or of a timer is one action. What Tornado writes to the connection is a sequence of commands
(publish, consume, ack) that the broker takes in order, and that is lost with the connection; commands whose queue is
still being declared are in `declaring`. `ensure_queue` has the code's three outcomes (deferred to `_on_open_cbs`,
declared, sent) and a fourth where it raises because the channel belongs to a lost connection, in which the publication
does not happen. `OnChannelOpen` runs every callback ever deferred, then registers the consumers. A body is one call of
`json_publish`; a copy is one time the broker got it.

### QueueWorker

One queue, its broker, and a process that works it off. `Collect`, `CollectTimesOut` and `Acknowledge` are the loop of
`start_json_consumer`; `Completes`, `retry_event`, `_handle_consume_exception` and `InterruptConsume` are the outcomes
of one event. `Signal` is the `SystemExit` of the signal handler: it reaches `except BaseException: basic_nack`, unless
`do_consume` returns from its `finally` block (`SignalDiscarded`). `Kill` ends the process between any two steps.

### MissedMessageWorker

`Consume...` are the statements of `consume` under the lock, `TimerFires` to `DeleteProcessed` those of
`maybe_send_batched_emails`, `HandlingRaises` an exception after some of a user's emails, `DatabaseFails` one that
aborts the transaction. `ChangePeriod` and `update_scheduled_email_notifications_time` are the two statements of a
change of the batching period. What is delivered again after a crash makes a second row (`delivery`).

### PushNotifications

The rows of one user's messages have two flags. A request is the sequence of statements it still has to execute:
`do_update_message_flags` updates, looks for active notifications and publishes their removal; `do_mark_all_as_read`
looks and publishes first; `do_mark_stream_messages_as_read` lists, updates, looks and publishes. `HandlePush` reads the
flags of the row into `user_message` and `Save` writes them back with the new one, so a `read` added in between is
lost. The history variable `read` holds what the user marked read, whatever the row says; `undone` those messages whose
`read` a `Save` undid when no removal was on its way any more. A failed call of the bouncer is retried (`RetryLater`) or ends the
notice (`Fails`), and may have been carried out either way.

### CountStats

Each statement of `process_count_stat` is an action: the fill state, the deletions of an undo, the INSERT of the pull
function and of the two aggregations. A statistic's query is abstracted to the number of rows it should find
(`facts`); that of a dependent statistic finds a wrong number when the rows it reads are not complete. The job is
killed between any two statements, and its lock directory stays.

## 3. Runs

| Run | Checks | Shows |
|---|---|---|
| `event_queue` | `EventQueueTypeOK`, `MergeIsSort`, `MergeKeepsMessages`, `ImplementsLog` | the deque and the dict keep every push; `contents()` is sorted by id; merged flag events lose and repeat no message; the class refines `PendingLog` |
| `flags_converge` | `FlagsConverge` (violated) | merging moves an earlier `add` behind a later `remove` |
| `long_poll` | the invariants of `LongPoll`, its inductive invariant, `ImplementsDelivery` | exactly-once dispatch, no refused request, no leaked handler, one poll loop |
| `long_poll_live` | `EventuallyDelivered` | after the failures stop, nothing stays undelivered unless the page reloads or closes |
| `notifications` | `TypeOK`, `NotifiedOrSeen`, `NoticedOnce`, `NotificationsInv` | every message is seen or notified of; no notice published by one handler is published again by another (the duplicates of one collection are outside, section 4) |
| `tornado_queue` | `TypeOK`, `AssertionsHold`, `NeverDeaf`, `OnlyDeferredRepeat`, `EventuallyReceived`, `EventuallyProcessed` | reconnection keeps the consumers and the client's own assertions; accepted messages reach the broker unless a failure meets them under way |
| `queue_worker` | `TypeOK`, `Accounted`, `RepeatsAreInterruptions`, `Drains` | no event is lost but those a discarded `SystemExit` cut short; only interruptions repeat events; the queue runs empty |
| `interrupted` | `InterruptedIsRequeued` (violated) | a worker told to stop acknowledges the event it did not finish |
| `missed_emails` | `TypeOK`, `RowsHaveTimer`, `RepeatsExplained`, `NoticeAccounted`, `SentTogether` | rows have a timer, those of a killed process from the next notice on; repeats and losses have one of the named causes |
| `push_notifications` | `TypeOK`, `PushedOnce`, `RevokedWhenRead` | nothing is sent while it is shown; the notification of a message the user marked read is removed, but for the three named exceptions |
| `push_retry` | `ActiveIsPushed` (violated) | a push that is retried is never sent |
| `count_stats` | `TypeOK`, `FilledIsExact`, `NothingAhead`, `LoggedIsKept`, `EventuallyFilled` | what is filled is exact after any crashes, and everything is filled in the end |

### Bounds

* `EventQueue`: `MaxEvents = 4` pushes, one flag with `add` and `remove`, two messages, one type that does not merge.
  Four pushes suffice for two entries of the dict, one of them merged, around a real event, and for a virtual event to
  be finalised, started again and pruned.
* `LongPoll`: `MaxEvents = 2` pushes (`restart` events come on top) and `MaxMishaps = 2` failures. A mishap is
  anything that the normal course does not have: a lost request or response of the page's current xhr, a failed write,
  a broken connection, an end of the process, an early `restart_get_events`. Two reach the pairs that matter: a request
  that overtakes another, a lost response followed by a restart, a crash during a reconnection. Requests and responses
  the page has given up may be lost, delayed and reordered without limit. The liveness run has one merging type
  instead of two, which keeps its behaviour graph small: a type that does not merge and one that does remain.
* `Notifications`: three queues with symmetry (two that are collected together and one that is left), two messages
  (one that is notified early and waits behind another), two failures with `MAX_REQUEST_RETRIES = 1` (3 in the code),
  so that the drop after the last retry is reached too, and two kinds of message data: a push in any case with email
  when idle; email only, user away. The symmetry permutes queue ids, which no definition tells apart when all of them
  take messages, and the run has no temporal property.
* `TornadoQueue`: two notices of different queues for workers and one that Tornado consumes, two failures: a message
  that waits for the first channel is repeated by the second, and a failure can hit a reconnection.
* `QueueWorker`: two events, batches of one and of two, `MAX_REQUEST_RETRIES = 2`, two interruptions: a batch with a
  retry of its own event in it, interrupted twice.
* `MissedMessageWorker`: one user, two messages with symmetry, periods 1 and 2, a clock up to 2, one change of the
  period and one failure. The email of one user does not look at the rows of another, so a second user adds nothing.
* `PushNotifications`: two messages with symmetry, two notices, two requests at once, `MAX_REQUEST_RETRIES = 1` and two
  failures, so that a notice is given up too. Its run has about 4.6 million states and takes the longest of all.
* `CountStats`: a day of two hours, an hourly statistic that is logged, a daily one, one that depends on it, and two
  killed runs, so that an undo is itself killed.

The constants `Max...` appear in the guards of the actions they bound. The proofs hold for every value of them. Runs
with `CHECK_DEADLOCK FALSE` are of systems that come to rest: when the bounds are used up (and the page is gone, in
`LongPoll`) nothing is left to happen.

### Fairness

Weak fairness of: the start of the process (it is supervised); the receipt of a request or response that is not lost;
the page load (`Register`, `Initialize`, `HomeViewLoaded`); the page's timer; and the failure of a request that nobody
will answer, which the browser's `timeout` of the request brings about. Nothing is assumed of pushes, heartbeats,
the notice of a closed connection, or the garbage collector. A request is received under one weak fairness condition
for all: the page has at most one that it waits for, and others run out, because sending them costs a mishap.
The property is `[]<>AllDelivered`: with bounded pushes and mishaps that means that in the end nothing is missing.

`TornadoQueue`: connections open, the broker takes its commands, and the timer of `_reconnect` fires. Nothing is
assumed of publishers. `QueueWorker`: supervisor restarts the process, the broker delivers, and a `consume` ends, if
only by its timer. `CountStats`: cron starts the job, which runs to its end unless it is killed, and somebody removes a
lock that a killed run left, as the monitoring of the job asks for.

## 4. Findings

Runs show these:

* **Flags** (`flags_converge`). `push` merges a flag event into the waiting one of the same operation and flag, and
  gives it the new id. Pushing add m1, remove m1, add m2 is delivered as remove m1, add m1 and m2.
* **Interrupted events** (`interrupted`). `do_consume` returns from its `finally` block when the local queue is empty
  (`queue_processors.py:336`), which discards the `SystemExit` of the signal handler. The event that was cut short is
  acknowledged and lost.
* **Retried pushes** (`push_retry`). `handle_push_notification` saves `active_mobile_push_notification` before it calls
  the bouncer (`push_notifications.py:928-929`), so the retry returns at line 922 and nothing is sent.

The rest was met while modelling; properties are stated so that these cases are named exceptions, or cannot arise under
the assumptions given:

* **Handler 0** (`event_queue.py:258`). `disconnect_handler` tests `if self.current_handler_id`, false for id 0, while
  `handlers.py:91` asks for the map to be cleared. The entries of the first handler of a process remain. A queue that
  takes `restart` events is safe (`NoHandlerLeak`, proved): after a start it has such an event waiting, so its first
  request does not block.
* **A queue without messages** (`event_queue.py:739`; `docs/subsystems/notifications.md:77-80`).
  `receiver_is_off_zulip` looks at queues that take messages, the hook at all queues. If the user's only browser queue
  is collected while, say, a queue for presence events lives, its messages are not notified. For clients that all take
  messages `NotifiedOrSeen` is proved.
* **Several last queues** (`event_queue.py:496`, comment at 418-422). `do_gc_event_queues` filters `user_clients` for
  all queues first, so each hook sees an empty list and the notices are published once per queue. Workers filter the
  duplicates (`push_notifications.py:922`; an email per message). What one call of `do_gc_event_queues` publishes is one
  set of notices in `Notifications`, so these duplicates are not visible there, and `NoticedOnce` does not speak of them.
* **A failing hook** (`event_queue.py:497`; `docs/subsystems/events-system.md:111-113`). An exception of the publication
  ends the loop after `user_clients` was filtered and before the remaining queues are deleted. Such a queue answers
  requests and heartbeats but receives no event until it expires again. The exception comes from pika when the channel
  is closing; `json_publish` handles `AMQPConnectionError` only.
* **Repeated publications** (`queue.py:322`, comment at 338-339). A message that waited for the first channel is
  published again at every reconnection: `OnlyDeferredRepeat` allows that and nothing else.
* **Two timestamps** (`queue_processors.py:604`, comment at 588-589). When the batching period changes between reading a
  timestamp and creating the row, a user has rows of two times (`SentTogether` excepts it). A row moved under an open
  batch is sent again, or deleted unsent when the period shrinks (`moved`).
* **Emails that failed** (`queue_processors.py:672,680`; `models.py:3598-3601`). An exception of a user's emails is
  logged and the rows are deleted all the same (`raised`).
* **Reading under a push** (`actions.py:5618`, `push_notifications.py:929`). A push whose flag is saved after
  `do_mark_all_as_read` looked for active notifications and before it updates the flags stays on the device (`raced`).
  And `save(update_fields=["flags"])` writes the flags as the worker read them: if `do_update_message_flags` adds
  `read`, finds no notification to remove and ends before that save, the message becomes unread again and its
  notification is sent and stays, although the user has read it (`undone`). If the request has still to look when the
  flags are saved, it finds the new notification, and `RevokedWhenRead` demands that it is removed, although `read` is
  lost all the same.

## 5. Proofs

All theorems hold for every number of pushes, failures, queues, messages, notices, requests, hours and statistics.

**Assumptions on constants**: `Plain \notin VirtualTypes` and `Restart \in VirtualTypes` (a type merges or does not,
and `restart` does), `None \notin Nat`, `AcceptsRestart \in BOOLEAN`, the bounds are naturals,
`MessageQueues \subseteq Queues`, `MessageData \subseteq AllMessageData`, every body has its queue (`QueueOf`) and no body
is `NoBody`, Tornado consumes finitely many queues, batches are not empty (`BatchSizes \subseteq Nat \ {0}`). `NotifiedOrSeenCorrect` also assumes
`Queues \subseteq MessageQueues`; without it the property is false (section 4, a queue
without messages).

**EventQueue.** `MergeIsSort` is about a loop over data, which needs an induction: the invariant `MergedTo` of the loop
says that after k events the output is increasing, consists of the first k events of the deque and the first `index`
waiting ones, and lies below all the rest. The induction over k is over the set of numbers for which that holds
(`SetInduction`, from the well-foundedness of `<`). What the loop starts from is the state invariant `QueueInv`:
the deque is increasing, all ids are distinct and below `next_event_id`, and a deque event of a type that has a virtual
event is older than it. The last part is what makes a merge safe: `MessagesInv` says that for every flag type the
messages acknowledged, then those in the deque, then those of the virtual event are the messages pushed, in that order.
The refinement follows step by step: the entries of `PendingLog` are the events of both containers; a prune of the
deque's front prunes by id because the deque is increasing, and a `fetch_events` that answers is the log's `LogPruneContents`.
With it the theorems about `LongPoll`, which uses the log, are about the class.

**LongPoll.** `ExactlyOnce` is not inductive: that the next response continues where the page is depends on the
queue, on every request under way and on who waits. The invariant `DeliveryInv` rests on the notion of a *settled* id
c of a log (`PendingLog`): c is the id of a waiting entry or of the newest pruned one, no entry up to c can still
merge, and every entry after c covers later pushes only. The first lemmas of `LongPollProofs` show that pushing,
finalising and pruning keep settled ids settled and the log exact. The parts are then: `TypeInv`; `HandlerInv` (requests are distinguished by xhr; a waiting handler goes with an empty queue and is
what the maps know; handler 0 cannot be ours); `QueueInv` and `RequestInv` (every `last_event_id` on its way is settled
or already pruned past); `WaitInv`; `ResponseInv` (the response the page waits for starts right after the page's
`last_event_id`); `ViewInv` (what was dispatched is a prefix, what is stored is the rest). They are proved in this
order, one step per action, each from the former. `ExactlyOnce`, `NeverRefused` and the step simulation of `Delivery`
follow.

**Notifications.** `NotifiedOrSeen` speaks of a state without queues; the invariant `CareInv` says what holds before:
a message that is neither in the inbox nor dealt with waits in *every* queue of the user, with `internal_data` that
claims no notice that was not published. Collecting some queues keeps it, collecting the last ones turns it into
published notices. It needs `SentInv` (a queue that does not exist is empty) and `RegistryInv` (the two maps agree
unless a hook failed). `FreshInv`, for `NoticedOnce`, says that what a handler may still publish has not been
published: a message is in the inbox once, or in queues, and what a waiting event does not record was not published.

**TornadoQueue.** `NeverDeaf` and `OnlyDeferredRepeat` count: `Registered` says that while the connection is ready each
consumer is in the broker's hands, or exactly one registration is declared or written; `Once` that a body is on its way
or received once, unless it has waited for the first channel, and then at most once per channel there has been. The
client's assertions need that no queue is declared before `_on_channel_open` and that a connection that is not ready
has neither commands nor consumers (`TypeInv`). Commands are counted as sets of positions, and the lemmas say what
appending, concatenating and taking the head do to such counts.

**QueueWorker.** `Accounted` needs to know what `except BaseException: basic_nack` returns: `PastSettled` says that the
events of a batch before the one in hand are settled, given up, or elsewhere. `RepeatsAreInterruptions` allows
2^interruptions: an interruption returns the whole batch, so what may still come at most doubles, for which the batch
itself must stay within the bound (`BoundInv`).

**MissedMessageWorker.** `NoticeAccounted` needs to know what the end of a run deletes. `BatchInv` says that every row
due at the run's `current_time` is in the batch, or was moved, and that every row of the batch waits for its user's turn
or was dealt with; `ConsumerInv` ties the notice in hand to the head of the queue, so that acknowledging it removes that
notice. `RowsHaveTimer` needs that no row is of a later `delivery` than `crashes`,
so that a crash leaves no row of the process that runs: while all rows are of earlier ones there may be no timer, and
the first row of this one comes with its `ensure_timer`. `SentTogether` needs `TogetherInv`: the timestamp `consume` holds is that of the user's rows. Assumptions:
`Missed` is a finite set of pairs, `Periods` are naturals, not none.

`RepeatsExplained` bounds the emails of a pair by its failures. Its inductive form `BoundInv` adds to the emails sent
what may still bring one: the rows of the pair, its notice when a row is still to be created for it, and a row moved out
of the open batch before its user's turn; rows that were sent and are about to be deleted count on the other side.
`Redelivered` says that a notice that comes again is the head of the queue and that no timer runs until it has been
consumed, and `OwedInv` is the sharper bound for users whose period did not change.

**PushNotifications.** `PushedOnce` follows from two facts: what is shown and has a row has its flag (`ShownIsActive`),
and what the worker holds from `HandlePush` to the call is not shown (`InHand`). Between `Revoke` and `Clear` the
notice's messages are not shown, so clearing their flags keeps the first. That rows are never created twice is needed,
hence `OfSent`. For `RevokedWhenRead`, `Decided` says of every message that is on the device, or held by the worker
right before the call, that once it is read, *or a request that is going to mark it read has passed it over*, its removal
is in sight: queued and not yet carried out, still to be published by a request, or one of the named exceptions. The
second alternative is the heart: it is `do_mark_all_as_read` before its update. That once it is read means the history
`read`, not the flag, which `Save` may have overwritten: `Seen` is the
same statement about `read`, with `undone` as the one way out that `Decided` does not need. `Programmed` lists the statements that a request can have left.

**CountStats.** `Stages` states, for each value of the program counter, which tables hold what of the interval in hand;
`NoneAhead` that nothing beyond `FillState` is there. An undo deletes exactly what the stage may have left.
Assumptions: `time_increment` is positive, the `Ends` of a statistic are one increment apart, a dependency is pulled
from the database and has the end times of what depends on it.

**Only model-checked**: liveness (`EventuallyDelivered`, `EventuallyReceived`, `EventuallyProcessed`, `Drains`,
`EventuallyFilled`), which rests on fairness and `ENABLED`, out of reach of the proof system; and the violations of
section 4, which are counterexamples. Every other property of the passing runs is a theorem.

## 6. Not modelled

* `channel.js:89-97`, the retry of a request whose 200 response is empty: no handler sends one. `force_get_events`,
  which nothing sets. The migration of a queue file without `newest_pruned_id`.
* `json_publish`'s `except AMQPConnectionError` (`queue.py:128-132`), which reconnects and publishes again: what Tornado's
  channel raises in the modelled cases is another exception. The bound of 10000 messages of `do_mark_all_as_read`.
* Rows that the queries of the statistics read and that a long transaction commits after the job has read their
  interval: `FilledIsExact` assumes that what is pulled is there when its interval ends.
* Narrowed queues, `realm_clients_all_streams`, and the mirror-loop filter in the fan-out; the notices of message edits.
* A signal between two statements of a Tornado handler: shutdown comes between handlers here. `finish_handler`'s
  `finally: return True` (`event_queue.py:205`) discards a `SystemExit` as `do_consume` does.
* Device tokens, direct connections to APNs and GCM, users that are `long_term_idle`; the statistics files of the
  workers; `StreamCount`.
* The rest of the server: views, models, Markdown, search, import and export, authentication backends, the rendering of
  the web client, and the tools. This is by far the larger part of the repository, and it is why the share of source
  lines that the map covers stays small. It transforms data inside one request and one database transaction; its state
  machine is PostgreSQL's, and nothing in it interleaves except through the rows and queues modelled here.

## 7. Plan

In place: the queue and its log (`PendingLog`, `EventQueue`); the protocol (`Delivery`, `LongPoll`); the registry and
the missed messages (`Notifications`); the two RabbitMQ clients (`TornadoQueue`, `QueueWorker`); the workers
(`MissedMessageWorker`, `PushNotifications`); the analytics job (`CountStats`). What remains worthwhile:

1. Message edits in `Notifications` (`maybe_enqueue_notifications_for_message_update`).
2. Composition: `Notifications` over `TornadoQueue` in place of its inbox.
3. Splitting what the invariants of `PushNotifications` and `MissedMessageWorker` say into abstract specifications (a
   device that shows unread messages, an outbox), with refinements in place of the bounds.
