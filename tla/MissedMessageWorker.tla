------------------------- MODULE MissedMessageWorker -------------------------
(***************************************************************************)
(* MissedMessageWorker of zerver/worker/queue_processors.py: notices from  *)
(* the queue missedmessage_emails become rows of the table                 *)
(* ScheduledMessageNotificationEmail, and a timer thread turns the rows    *)
(* that are due into emails, one or more per user.                         *)
(*                                                                         *)
(* The consumer and the timer thread exclude each other by a lock.  Not    *)
(* excluded are the server processes that work on the same rows: they mark *)
(* messages read, delete them, and move all rows of a user when the user   *)
(* changes the batching period, in two statements that no transaction      *)
(* joins.  A step is one statement of the database.                        *)
(***************************************************************************)
EXTENDS Integers, FiniteSets, Sequences, SequencesExt

CONSTANTS
    Users, Messages,
    Missed,         \* the pairs <<user, message>> for which a notice is queued
    Periods,        \* values of email_notifications_batching_period_seconds
    None,           \* no value read yet
    MaxTime,        \* bound: the clock
    MaxChanges,     \* bound: changes of a batching period
    MaxFailures     \* bound: crashes of the worker, database errors

ASSUME MissedAssumption == Missed \subseteq Users \X Messages /\ IsFiniteSet(Missed)
ASSUME PeriodsAssumption == Periods \subseteq Nat /\ Periods # {}
ASSUME BoundsAssumption == {MaxTime, MaxChanges, MaxFailures} \subseteq Nat

VARIABLES
    now,
    queued,         \* the notices not yet acknowledged, in their order
    (* The database.                                                       *)
    rows,           \* ScheduledMessageNotificationEmail
    period,         \* user -> email_notifications_batching_period_seconds
    read, deleted,  \* messages read by a user, messages deleted
    (* The worker.                                                         *)
    lock,           \* "free", "consumer", "timer"
    timer_event,    \* self.timer_event is a Timer that has not got the lock
    consumer,       \* the notice in consume, and what was read for it
    batch,          \* rows read as events_to_process
    recipients,     \* the users of the batch still to be handled
    current_time,
    aborted,        \* the transaction of the batch has failed
    (* A change of a batching period between its two statements.           *)
    change,         \* user -> by how much its rows are still to be moved
    (* History.                                                            *)
    emailed,        \* pair -> number of emails that show it as missed
    raised,         \* pairs whose handling raised an exception
    moved,          \* pairs with a row that was moved while a batch was open
    changes, crashes, aborts

dbVars == <<rows, period, read, deleted>>
timerVars == <<batch, recipients, current_time, aborted>>
historyVars == <<emailed, raised, moved>>
counterVars == <<changes, crashes, aborts>>
vars == <<now, queued, dbVars, lock, timer_event, consumer, timerVars, change,
          historyVars, counterVars>>

Idle == [pc |-> "idle", pair |-> None, batch_duration |-> None, scheduled |-> None]
PairOf(row) == <<row.user, row.message>>
RowsOf(u) == {row \in rows : row.user = u}

(* The lock and the program counters agree.                                *)
TypeOK ==
    /\ now \in 0 .. MaxTime
    /\ queued \in Seq(Missed)
    /\ rows \subseteq [user : Users, message : Messages, scheduled : Int, delivery : Nat]
    /\ \A row \in rows : PairOf(row) \in Missed /\ row.message \notin deleted
    /\ period \in [Users -> Periods]
    /\ read \subseteq Missed /\ deleted \subseteq Messages
    /\ lock \in {"free", "consumer", "timer"}
    /\ consumer.pc \in {"idle", "period", "pending", "create", "ack"}
    /\ lock = "consumer" <=> consumer.pc \in {"period", "pending", "create"}
    /\ timer_event \in BOOLEAN
    /\ lock # "timer" => batch = {} /\ recipients = {} /\ ~aborted
    /\ lock = "timer" => ~timer_event
    /\ recipients \subseteq {row.user : row \in batch}
    /\ change \in [Users -> Int]
    /\ emailed \in [Missed -> Nat]
    /\ raised \cup moved \subseteq Missed

Init ==
    /\ now = 0
    /\ queued \in SetToSeqs(Missed)
    /\ rows = {} /\ period \in [Users -> Periods] /\ read = {} /\ deleted = {}
    /\ lock = "free" /\ timer_event = FALSE /\ consumer = Idle
    /\ batch = {} /\ recipients = {} /\ current_time = 0 /\ aborted = FALSE
    /\ change = [u \in Users |-> 0]
    /\ emailed = [p \in Missed |-> 0] /\ raised = {} /\ moved = {}
    /\ changes = 0 /\ crashes = 0 /\ aborts = 0

Tick ==
    /\ now < MaxTime /\ now' = now + 1
    /\ UNCHANGED <<queued, dbVars, lock, timer_event, consumer, timerVars,
                   change, historyVars, counterVars>>

-----------------------------------------------------------------------------
(* consume                                                                 *)

ConsumeStarts ==
    /\ consumer.pc = "idle" /\ lock = "free" /\ queued # <<>>
    /\ consumer' = [Idle EXCEPT !.pc = "period", !.pair = Head(queued)]
    /\ lock' = "consumer"
    /\ UNCHANGED <<now, queued, dbVars, timer_event, timerVars, change,
                   historyVars, counterVars>>

(* get_user_profile_by_id                                                  *)
ConsumeReadsPeriod ==
    /\ consumer.pc = "period"
    /\ consumer' = [consumer EXCEPT !.pc = "pending",
                                    !.batch_duration = period[consumer.pair[1]]]
    /\ UNCHANGED <<now, queued, dbVars, lock, timer_event, timerVars, change,
                   historyVars, counterVars>>

(* Mutant: pending emails of the user are not looked at.                   *)
PendingEmails_none == {}

PendingEmails == RowsOf(consumer.pair[1])

(* The timestamp of a pending email, or the time the batch is due.         *)
ConsumeReadsPending ==
    /\ consumer.pc = "pending"
    /\ \E t \in IF PendingEmails # {} THEN {row.scheduled : row \in PendingEmails}
                ELSE {now + consumer.batch_duration} :
            consumer' = [consumer EXCEPT !.pc = "create", !.scheduled = t]
    /\ UNCHANGED <<now, queued, dbVars, lock, timer_event, timerVars, change,
                   historyVars, counterVars>>

(* The row is created and a timer ensured, unless the message is gone.     *)
ConsumeCreates ==
    /\ consumer.pc = "create"
    /\ consumer' = [consumer EXCEPT !.pc = "ack"]
    /\ lock' = "free"
    /\ LET p == consumer.pair
           row == [user |-> p[1], message |-> p[2], scheduled |-> consumer.scheduled,
                   delivery |-> crashes]
       IN  IF p[2] \in deleted
           THEN UNCHANGED <<rows, timer_event>>
           ELSE rows' = rows \cup {row} /\ timer_event' = TRUE
    /\ UNCHANGED <<now, queued, period, read, deleted, timerVars, change,
                   historyVars, counterVars>>

(* The basic_ack of start_json_consumer.                                   *)
Acknowledge ==
    /\ consumer.pc = "ack"
    /\ queued' = Tail(queued)
    /\ consumer' = Idle
    /\ UNCHANGED <<now, dbVars, lock, timer_event, timerVars, change,
                   historyVars, counterVars>>

-----------------------------------------------------------------------------
(* maybe_send_batched_emails                                               *)

(* Mutant: the timer that fires stays recorded as active.                  *)
TimerCleared_never == timer_event

(* self.timer_event = None                                                 *)
TimerCleared == FALSE

(* The rows that are due at a time.                                        *)
Due(t) == {row \in rows : row.scheduled <= t}

TimerFires ==
    /\ timer_event /\ lock = "free"
    /\ lock' = "timer" /\ timer_event' = TimerCleared
    /\ current_time' = now
    /\ batch' = Due(now)
    /\ recipients' = {row.user : row \in Due(now)}
    /\ UNCHANGED <<now, queued, dbVars, consumer, aborted, change,
                   historyVars, counterVars>>

(* The messages of handle_missedmessage_emails.                            *)
Unread(u) ==
    {p \in {PairOf(row) : row \in {r \in batch : r.user = u}} :
        p \notin read /\ p[2] \notin deleted}

(* message_ids is keyed by message, so each appears in one email.          *)
Email(pairs) ==
    emailed' = [p \in Missed |-> IF p \in pairs THEN emailed[p] + 1 ELSE emailed[p]]

(* handle_missedmessage_emails sends an email per bucket.                  *)
HandleUser ==
    /\ lock = "timer" /\ ~aborted
    /\ \E u \in recipients :
            /\ Email(Unread(u))
            /\ recipients' = recipients \ {u}
    /\ UNCHANGED <<now, queued, dbVars, lock, timer_event, consumer, batch,
                   current_time, aborted, change, raised, moved, counterVars>>

(* It raises an exception after some of its buckets, which is logged.      *)
HandlingRaises ==
    /\ lock = "timer" /\ ~aborted
    /\ \E u \in recipients : \E pairs \in SUBSET Unread(u) :
            /\ pairs # Unread(u)
            /\ Email(pairs)
            /\ raised' = raised \cup (Unread(u) \ pairs)
            /\ recipients' = recipients \ {u}
    /\ UNCHANGED <<now, queued, dbVars, lock, timer_event, consumer, batch,
                   current_time, aborted, change, moved, counterVars>>

(* The exception comes from the database: it is logged as well, but every  *)
(* later statement of the transaction fails.                               *)
DatabaseFails ==
    /\ lock = "timer" /\ ~aborted /\ recipients # {}
    /\ crashes + aborts < MaxFailures /\ aborts' = aborts + 1
    /\ aborted' = TRUE
    /\ UNCHANGED <<now, queued, dbVars, lock, timer_event, consumer, batch,
                   recipients, current_time, change, historyVars, changes, crashes>>

EndOfRun ==
    /\ lock' = "free" /\ batch' = {} /\ recipients' = {} /\ aborted' = FALSE

(* Mutant: the timer is not set again.                                     *)
RestartTimer_never(remaining) == FALSE

(* It is set again only if there are rows left.                            *)
RestartTimer(remaining) == remaining # {}

(* Mutant: rows that became due in the meantime are deleted along.         *)
Deleted_now == Due(now)

(* Mutant: the boundary is left out.                                       *)
Deleted_before == {row \in rows : row.scheduled < current_time}

(* events_to_process.delete() asks for the rows that are due once more.    *)
Deleted == Due(current_time)

DeleteProcessed ==
    /\ lock = "timer" /\ recipients = {} /\ ~aborted
    /\ rows' = rows \ Deleted
    /\ timer_event' = RestartTimer(rows')
    /\ EndOfRun
    /\ UNCHANGED <<now, queued, period, read, deleted, consumer, current_time,
                   change, historyVars, counterVars>>

(* The delete raises an exception, and the thread ends without a timer.    *)
RunRaises ==
    /\ lock = "timer" /\ aborted
    /\ EndOfRun
    /\ UNCHANGED <<now, queued, dbVars, timer_event, consumer, current_time,
                   change, historyVars, counterVars>>

(* The process is killed and starts again; its transaction is rolled back. *)
Crash ==
    /\ crashes + aborts < MaxFailures /\ crashes' = crashes + 1
    /\ lock' = "free" /\ timer_event' = FALSE /\ consumer' = Idle
    /\ batch' = {} /\ recipients' = {} /\ aborted' = FALSE
    /\ UNCHANGED <<now, queued, dbVars, current_time, change, historyVars,
                   changes, aborts>>

-----------------------------------------------------------------------------
(* The server processes                                                    *)

(* do_change_user_setting saves the new period ...                         *)
ChangePeriod ==
    \E u \in Users, new \in Periods :
        /\ new # period[u]
        /\ changes < MaxChanges /\ changes' = changes + 1
        /\ change[u] = 0 /\ change' = [change EXCEPT ![u] = new - period[u]]
        /\ period' = [period EXCEPT ![u] = new]
        /\ UNCHANGED <<now, queued, rows, read, deleted, lock, timer_event,
                       consumer, timerVars, historyVars, crashes, aborts>>

(* ... and update_scheduled_email_notifications_time moves the rows.       *)
update_scheduled_email_notifications_time ==
    \E u \in Users :
        /\ change[u] # 0 /\ change' = [change EXCEPT ![u] = 0]
        /\ rows' = (rows \ RowsOf(u))
                \cup {[row EXCEPT !.scheduled = @ + change[u]] : row \in RowsOf(u)}
        /\ moved' = IF lock = "timer" THEN moved \cup {PairOf(row) : row \in RowsOf(u)}
                    ELSE moved
        /\ UNCHANGED <<now, queued, period, read, deleted, lock, timer_event,
                       consumer, timerVars, emailed, raised, counterVars>>

MarkRead ==
    \E p \in Missed \ read :
        /\ read' = read \cup {p}
        /\ UNCHANGED <<now, queued, rows, period, deleted, lock, timer_event,
                       consumer, timerVars, change, historyVars, counterVars>>

(* A message is deleted, and its rows with it (CASCADE).                   *)
DeleteMessage ==
    \E msg \in Messages \ deleted :
        /\ deleted' = deleted \cup {msg}
        /\ rows' = {row \in rows : row.message # msg}
        /\ UNCHANGED <<now, queued, period, read, lock, timer_event,
                       consumer, timerVars, change, historyVars, counterVars>>

-----------------------------------------------------------------------------
Consume ==
    \/ ConsumeStarts \/ ConsumeReadsPeriod \/ ConsumeReadsPending
    \/ ConsumeCreates \/ Acknowledge

TimerThread ==
    \/ TimerFires \/ HandleUser \/ HandlingRaises \/ DeleteProcessed \/ RunRaises

Next ==
    \/ Tick \/ Consume \/ TimerThread \/ DatabaseFails \/ Crash
    \/ ChangePeriod \/ update_scheduled_email_notifications_time
    \/ MarkRead \/ DeleteMessage

Spec == Init /\ [][Next]_vars

-----------------------------------------------------------------------------
(* Rows never wait without a timer: whichever thread leaves the lock has   *)
(* seen to one.  A process that was killed loses its timer, and the rows   *)
(* it left wait until the next process has consumed a notice: from the row *)
(* created for it on, there is a timer again, whatever rows there are.  A  *)
(* database error ends the timer thread and is left out.                   *)
RowsHaveTimer ==
    (\E row \in rows : row.delivery = crashes) /\ aborts = 0
        => timer_event \/ lock = "timer"

(* A message is shown as missed again only because a crash or a database  *)
(* error came between an email and the end of its run or of its notice.    *)
(* When the period changes, both can happen to one crash: it repeats the   *)
(* batch, and the notice delivered again gets a row with another time.  A  *)
(* row that was moved out of an open batch is sent again as well.          *)
RepeatsExplained ==
    \A p \in Missed :
        /\ changes = 0 => emailed[p] <= 1 + crashes + aborts
        /\ p \notin moved => emailed[p] <= 1 + 2 * crashes + aborts
        /\ emailed[p] <= 1 + 2 * crashes + aborts + changes

(* A notice that was acknowledged still has its row, or was dealt with;    *)
(* otherwise its row was moved under a batch that was being sent.          *)
Planned(p) == \E row \in rows : PairOf(row) = p

DealtWith(p) == emailed[p] > 0 \/ p \in read \cup raised \/ p[2] \in deleted

NoticeAccounted ==
    \A p \in Missed \ Range(queued) : Planned(p) \/ DealtWith(p) \/ p \in moved

(* The rows of a user go out together, as consume intends ("check if there *)
(* are existing pending emails for that user, and if so use the same       *)
(* scheduled timestamp"), also when notices are delivered again; a change  *)
(* of the batching period can come between reading that timestamp and      *)
(* using it.                                                               *)
SentTogether ==
    changes = 0 => \A r, s \in rows : r.user = s.user => r.scheduled = s.scheduled
=============================================================================
