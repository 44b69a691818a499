-------------------------- MODULE PushNotifications --------------------------
(***************************************************************************)
(* Mobile push notifications of one user: the worker of the queue          *)
(* missedmessage_mobile_notifications (zerver/lib/push_notifications.py),  *)
(* which sends them by the bouncer, and the requests that mark messages    *)
(* read (zerver/lib/actions.py) and have them removed from the device.     *)
(*                                                                         *)
(* Both work on the flags of the user's UserMessage rows, one statement of *)
(* the database at a time: no transaction joins them.  A request is the    *)
(* sequence of the statements it has still to execute.  The user is one    *)
(* whose messages have rows, not one that is long_term_idle.               *)
(***************************************************************************)
EXTENDS Integers, Sequences, SequencesExt

CONSTANTS
    Messages,
    MAX_REQUEST_RETRIES,
    MaxNotices,     \* bound: notices that ask for a push
    MaxRequests,    \* bound: requests
    MaxFailures,    \* bound: failed calls of the bouncer, crashes
    MayCrash        \* whether processes may be killed

ASSUME BoundsAssumption ==
    {MAX_REQUEST_RETRIES, MaxNotices, MaxRequests, MaxFailures} \subseteq Nat
ASSUME MayCrashAssumption == MayCrash \in BOOLEAN

VARIABLES
    rows,           \* messages with a UserMessage row
    flags,          \* message -> its flags
    queue,          \* notices, the first of which the worker handles
    pc,             \* the worker: "idle", "save", "push", "clear", "ack"
    user_message,   \* the flags the worker is going to save
    requests,
    shown,          \* messages with a notification on the device
    (* History.                                                            *)
    sent,           \* messages sent
    settled,        \* messages whose notification was shown, given up or refused
    repeated,       \* those whose notification was sent while it was shown
    unrevoked,      \* messages whose removal was given up, refused or killed
    raced,          \* see Save
    read,           \* messages the user marked read, and not unread since
    undone,         \* those of them a Save made unread again; see there
    notices, started, failures

dbVars == <<rows, flags>>
deviceVars == <<shown, settled, repeated>>
historyVars == <<unrevoked, raced, read, undone>>
counterVars == <<notices, started, failures>>
vars == <<dbVars, queue, pc, user_message, requests, deviceVars, sent,
          historyVars, counterVars>>

Flags == {"read", "active_mobile_push_notification"}
active == "active_mobile_push_notification"

Notice ==
    [type : {"add", "remove"}, message_ids : SUBSET Messages,
     failed_tries : 0 .. MAX_REQUEST_RETRIES]
Steps == {"update", "update_all", "list", "list_all", "list_unread", "publish"}
Request ==
    [id : 1 .. MaxRequests, steps : Seq(Steps), message_ids : SUBSET Messages]

(* A worker in the middle of a notice has the notice, of the right type,   *)
(* at the head of the queue.                                               *)
TypeOK ==
    /\ rows \in SUBSET sent /\ sent \in SUBSET Messages
    /\ flags \in [Messages -> SUBSET Flags]
    /\ queue \in Seq(Notice)
    /\ pc \in {"idle", "save", "push", "clear", "ack"}
    /\ pc # "idle" => queue # <<>>
    /\ pc \in {"save", "push"} => Head(queue).type = "add"
    /\ pc = "clear" => Head(queue).type = "remove"
    /\ requests \subseteq Request /\ \A r \in requests : r.steps # <<>>
    /\ settled \in SUBSET Messages
    /\ shown \in SUBSET settled /\ repeated \in SUBSET settled
    /\ unrevoked \cup raced \cup read \cup undone \subseteq Messages
    /\ user_message \subseteq Flags
    /\ notices \in 0 .. MaxNotices /\ started \in 0 .. MaxRequests
    /\ failures \in 0 .. MaxFailures

Init ==
    /\ rows = {} /\ flags = [m \in Messages |-> {}]
    /\ queue = <<>> /\ pc = "idle" /\ user_message = {} /\ requests = {}
    /\ shown = {} /\ sent = {} /\ settled = {} /\ repeated = {}
    /\ unrevoked = {} /\ raced = {} /\ read = {} /\ undone = {}
    /\ notices = 0 /\ started = 0 /\ failures = 0

Failure == failures < MaxFailures /\ failures' = failures + 1

Active(ids) == {m \in ids \cap rows : active \in flags[m]}
Unread(ids) == {m \in ids \cap rows : "read" \notin flags[m]}

-----------------------------------------------------------------------------
(* Messages                                                                *)

SendMessage ==
    \E m \in Messages \ sent :
        /\ sent' = sent \cup {m} /\ rows' = rows \cup {m}
        /\ UNCHANGED <<flags, queue, pc, user_message, requests, deviceVars,
                       historyVars, counterVars>>

(* Tornado asks for a push, at once or minutes later, and may do so again. *)
NotifyMessage ==
    \E m \in sent :
        /\ notices < MaxNotices /\ notices' = notices + 1
        /\ queue' = Append(queue,
                [type |-> "add", message_ids |-> {m}, failed_tries |-> 0])
        /\ UNCHANGED <<dbVars, pc, user_message, requests, deviceVars, sent,
                       historyVars, started, failures>>

DeleteMessage ==
    \E m \in rows :
        /\ rows' = rows \ {m} /\ flags' = [flags EXCEPT ![m] = {}]
        /\ read' = read \ {m} /\ undone' = undone \ {m}
        /\ UNCHANGED <<queue, pc, user_message, requests, deviceVars, sent,
                       unrevoked, raced, counterVars>>

-----------------------------------------------------------------------------
(* Requests                                                                *)

(* do_update_message_flags that adds `read'.                               *)
do_update_message_flags == <<"update", "list", "publish">>

(* Its query is evaluated twice, for its length, then as a subquery of     *)
(* do_clear_mobile_push_notifications_for_ids: without a message the first *)
(* decides, otherwise the second, so one step lists.  The bound of 10000   *)
(* messages of the query is left out.                                      *)
do_mark_all_as_read == <<"list_all", "publish", "update_all">>

(* Mutant: the unread messages are listed when they are read already.      *)
do_mark_stream_messages_as_read_late == <<"update_all", "list_unread", "list", "publish">>

(* do_mark_muted_user_messages_as_read does the same.                      *)
do_mark_stream_messages_as_read == <<"list_unread", "update_all", "list", "publish">>

(* An edit that removes a mention.                                         *)
do_update_mobile_push_notification == <<"list", "publish">>

Start(steps, ids) ==
    /\ started < MaxRequests /\ started' = started + 1
    /\ requests' = requests \cup
            {[id |-> started + 1, steps |-> steps, message_ids |-> ids]}
    /\ UNCHANGED <<dbVars, queue, pc, user_message, deviceVars, sent, historyVars,
                   notices, failures>>

StartRequest ==
    \/ \E m \in rows :
            \/ Start(do_update_message_flags, {m})
            \/ Start(do_update_mobile_push_notification, {m})
    \/ Start(do_mark_all_as_read, {}) \/ Start(do_mark_stream_messages_as_read, {})

(* do_update_message_flags that removes `read'.                            *)
MarkUnread ==
    \E m \in rows \cap read :
        /\ flags' = [flags EXCEPT ![m] = @ \ {"read"}]
        /\ read' = read \ {m} /\ undone' = undone \ {m}
        /\ UNCHANGED <<rows, queue, pc, user_message, requests, deviceVars, sent,
                       unrevoked, raced, counterVars>>

(* The request has executed a statement and continues with these messages. *)
Continue(r, ids) ==
    requests' = (requests \ {r})
        \cup (IF Len(r.steps) = 1 THEN {}
              ELSE {[r EXCEPT !.steps = Tail(@), !.message_ids = ids]})

Update ==
    \E r \in requests :
        LET ids == IF Head(r.steps) = "update" THEN r.message_ids ELSE Messages
            marked == ids \cap rows
        IN  /\ Head(r.steps) \in {"update", "update_all"}
            /\ flags' = [m \in Messages |->
                    IF m \in marked THEN flags[m] \cup {"read"} ELSE flags[m]]
            /\ read' = read \cup marked /\ undone' = undone \ marked
            /\ Continue(r, r.message_ids)
            /\ UNCHANGED <<rows, queue, pc, user_message, deviceVars, sent,
                           unrevoked, raced, counterVars>>

Listed(r) ==
    CASE Head(r.steps) = "list" -> Active(r.message_ids)
      [] Head(r.steps) = "list_all" -> Active(Messages)
      [] Head(r.steps) = "list_unread" -> Unread(Messages)

List ==
    \E r \in requests :
        /\ Head(r.steps) \in {"list", "list_all", "list_unread"}
        /\ Continue(r, Listed(r))
        /\ UNCHANGED <<dbVars, queue, pc, user_message, deviceVars, sent,
                       historyVars, counterVars>>

(* The end of do_clear_mobile_push_notifications_for_ids.                  *)
PublishRemove ==
    \E r \in requests :
        /\ Head(r.steps) = "publish"
        /\ queue' = IF r.message_ids = {} THEN queue
                    ELSE Append(queue, [type |-> "remove",
                            message_ids |-> r.message_ids, failed_tries |-> 0])
        /\ Continue(r, {})
        /\ UNCHANGED <<dbVars, pc, user_message, deviceVars, sent, historyVars,
                       counterVars>>

(* The process of the request is killed, or its publication fails.         *)
RequestKilled ==
    \E r \in requests :
        /\ MayCrash /\ Failure
        /\ requests' = requests \ {r}
        /\ unrevoked' = unrevoked \cup
                (IF Head(r.steps) \in {"list", "publish"} THEN r.message_ids ELSE {})
        /\ UNCHANGED <<dbVars, queue, pc, user_message, deviceVars, sent, raced,
                       read, undone, notices, started>>

-----------------------------------------------------------------------------
(* The worker                                                              *)

Current == Head(queue)
Ids == Current.message_ids \cap rows

(* Mutant: the notification is sent although there is an active one.       *)
Wanted_unread(ids) == \E m \in ids \cap rows : "read" \notin flags[m]

(* The row is there, with neither of the flags.                            *)
Wanted(ids) == \E m \in ids \cap rows : flags[m] = {}

(* handle_push_notification: access_message reads the flags.               *)
HandlePush ==
    /\ pc = "idle" /\ queue # <<>> /\ Current.type = "add"
    /\ IF Wanted(Current.message_ids)
       THEN pc' = "save" /\ user_message' = UNION {flags[m] : m \in Ids}
       ELSE pc' = "ack" /\ UNCHANGED user_message
    /\ UNCHANGED <<dbVars, queue, requests, deviceVars, sent, historyVars, counterVars>>

(* A request that is going to mark m read has already decided which       *)
(* notifications to look for, and m is not among them.                     *)
Misses(r, m) ==
    /\ Head(r.steps) \in {"publish", "update_all"} /\ "update_all" \in Range(r.steps)
    /\ m \notin r.message_ids

(* A removal of m is in the queue, or a request is going to publish one.   *)
Revoking(m) ==
    \/ \E i \in DOMAIN queue : queue[i].type = "remove" /\ m \in queue[i].message_ids
    \/ \E r \in requests :
          /\ m \in r.message_ids /\ Last(r.steps) = "publish"
          /\ Head(r.steps) \in {"list", "publish"}

(* user_message.save(update_fields=["flags"]) writes the flags as they     *)
(* were read, with the new one: a `read' added since is lost.  It raises   *)
(* an exception when the row is gone.  The history keeps the two races     *)
(* nothing makes up for: the request that is going to add `read' has       *)
(* looked for notifications before this one was there, or the one that     *)
(* added it has.                                                           *)
Save ==
    /\ pc = "save" /\ user_message' = {}
    /\ \E m \in Current.message_ids :
            IF m \in rows
            THEN /\ flags' = [flags EXCEPT ![m] = user_message \cup {active}]
                 /\ pc' = "push"
                 /\ raced' = IF \E r \in requests : Misses(r, m)
                             THEN raced \cup {m} ELSE raced
                 /\ undone' = IF m \in read /\ "read" \notin user_message /\ ~Revoking(m)
                              THEN undone \cup {m} ELSE undone
            ELSE pc' = "ack" /\ UNCHANGED <<flags, raced, undone>>
    /\ UNCHANGED <<rows, queue, requests, deviceVars, sent, unrevoked, read, counterVars>>

Show(ids) ==
    /\ shown' = shown \cup ids /\ settled' = settled \cup ids
    /\ repeated' = repeated \cup (ids \cap shown)

Hide(ids) == shown' = shown \ ids /\ UNCHANGED <<settled, repeated>>

(* send_notifications_to_bouncer returns.                                  *)
Push ==
    /\ pc = "push" /\ pc' = "ack"
    /\ Show(Current.message_ids)
    /\ UNCHANGED <<dbVars, queue, user_message, requests, sent, historyVars, counterVars>>

(* handle_remove_push_notification looks the rows up; without any, an      *)
(* exception ends it.                                                      *)
Removes == pc = "idle" /\ queue # <<>> /\ Current.type = "remove"

NothingToRemove ==
    /\ Removes /\ Ids = {}
    /\ pc' = "ack"
    /\ UNCHANGED <<dbVars, queue, user_message, requests, deviceVars, sent, historyVars,
                   counterVars>>

Revoke ==
    /\ Removes /\ Ids # {}
    /\ Hide(Ids)
    /\ pc' = "clear"
    /\ UNCHANGED <<dbVars, queue, user_message, requests, sent, historyVars, counterVars>>

(* The update at the end of handle_remove_push_notification.               *)
Clear ==
    /\ pc = "clear" /\ pc' = "ack"
    /\ flags' = [m \in Messages |->
            IF m \in Ids THEN flags[m] \ {active} ELSE flags[m]]
    /\ UNCHANGED <<rows, queue, user_message, requests, deviceVars, sent, historyVars,
                   counterVars>>

(* Mutant: one retry too many.                                             *)
GivesUp_late == Current.failed_tries > MAX_REQUEST_RETRIES

GivesUp == Current.failed_tries + 1 > MAX_REQUEST_RETRIES

Sending == pc = "push" \/ (Removes /\ Ids # {})

Delivered == IF pc = "push" THEN Show(Current.message_ids) ELSE Hide(Ids)

(* PushNotificationBouncerRetryLaterError: retry_event publishes the       *)
(* notice again.  If the call timed out, the bouncer may have got it.      *)
RetryLater ==
    /\ Sending /\ Failure /\ ~GivesUp
    /\ queue' = Append(queue, [Current EXCEPT !.failed_tries = @ + 1])
    /\ Delivered \/ UNCHANGED deviceVars
    /\ pc' = "ack"
    /\ UNCHANGED <<dbVars, user_message, requests, sent, historyVars, notices, started>>

(* Too many retries, or the bouncer refuses the call: the notice is not    *)
(* going to be handled again.                                              *)
Fails ==
    /\ Sending /\ Failure
    /\ (GivesUp /\ Delivered) \/ UNCHANGED <<shown, repeated>>
    /\ settled' = settled \cup (IF pc = "push" THEN Current.message_ids ELSE {})
    /\ unrevoked' = unrevoked \cup (IF pc = "push" THEN {} ELSE Current.message_ids)
    /\ pc' = "ack"
    /\ UNCHANGED <<dbVars, queue, user_message, requests, sent, raced, read, undone,
                   notices, started>>

(* The worker is killed and starts again; what it had not acknowledged is  *)
(* delivered again.                                                        *)
Crash ==
    /\ MayCrash /\ Failure
    /\ pc # "idle" /\ pc' = "idle" /\ user_message' = {}
    /\ UNCHANGED <<dbVars, queue, requests, deviceVars, sent, historyVars,
                   notices, started>>

Acknowledge ==
    /\ pc = "ack" /\ pc' = "idle"
    /\ queue' = Tail(queue)
    /\ UNCHANGED <<dbVars, user_message, requests, deviceVars, sent, historyVars,
                   counterVars>>

-----------------------------------------------------------------------------
Worker ==
    \/ HandlePush \/ Save \/ Push \/ NothingToRemove \/ Revoke \/ Clear
    \/ RetryLater \/ Fails \/ Acknowledge

Next ==
    \/ SendMessage \/ NotifyMessage \/ DeleteMessage
    \/ StartRequest \/ MarkUnread \/ Update \/ List \/ PublishRemove \/ RequestKilled
    \/ Worker \/ Crash

Spec == Init /\ [][Next]_vars

-----------------------------------------------------------------------------
(* The user never gets the notification of a message again while it is     *)
(* shown: not when a notice is repeated, nor when a call of the bouncer    *)
(* that seemed to fail is retried, nor after a crash at any statement.     *)
PushedOnce == repeated = {}

(* The notification of a message the user marked read is removed from the  *)
(* device, by a removal that is on its way, in whatever order the worker   *)
(* and the requests execute their statements.  There are three exceptions: *)
(* a removal that was lost for good; a notification sent while a request   *)
(* that marks many messages read had looked for notifications, but not yet *)
(* updated the flags; and one the worker sends although the message is     *)
(* read, because a request added `read', found no notification and ended   *)
(* between the worker's read of the flags and its Save.  The last one also *)
(* makes the message unread again; a `read' lost by Save while its request *)
(* has still to look is none of the exceptions.                            *)
RevokedWhenRead ==
    \A m \in shown \cap rows \cap read :
        Revoking(m) \/ m \in unrevoked \cup raced \cup undone

(* The comment in send_to_push_bouncer: an exception signals "that the     *)
(* attempt failed and they can retry".  So the notification of a message   *)
(* with an active one is shown, or still to be sent, or was given up.      *)
ActiveIsPushed ==
    \A m \in Active(Messages) :
        \/ m \in settled
        \/ \E i \in DOMAIN queue : queue[i].type = "add" /\ m \in queue[i].message_ids
=============================================================================
