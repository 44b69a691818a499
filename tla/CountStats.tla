----------------------------- MODULE CountStats -----------------------------
(***************************************************************************)
(* The analytics tables and the cron job that fills them:                  *)
(* analytics/lib/counts.py and the command update_analytics_counts.        *)
(*                                                                         *)
(* For every statistic and every end of one of its intervals the job pulls *)
(* a count into UserCount (or RealmCount), sums it up into RealmCount, and *)
(* that into InstallationCount.  Every statement is committed by itself;   *)
(* the table FillState says how far a statistic is filled and whether an   *)
(* interval was started, so that a run that was killed can be undone.      *)
(*                                                                         *)
(* Rows that several INSERTs leave for one statistic and hour are summed   *)
(* up here, as they are by whoever reads the tables.                       *)
(***************************************************************************)
EXTENDS Integers

CONSTANTS
    Stats,              \* keys of COUNT_STATS
    UserStats,          \* those whose output_table is UserCount, not RealmCount
    LoggingStats,       \* the LoggingCountStats
    dependencies,       \* stat -> the stats a DependentCountStat reads
    time_increment,     \* stat -> hours from one end_time to the next
    Ends,               \* stat -> its end_times, in hours since installation_epoch
    MaxHour,            \* bound: the clock
    MaxFacts,           \* bound: what is counted in one interval
    MaxCrashes          \* bound: runs that are killed

ASSUME StatsAssumption ==
    /\ UserStats \subseteq Stats /\ LoggingStats \subseteq Stats
    /\ dependencies \in [Stats -> SUBSET (UserStats \ LoggingStats)]
    /\ time_increment \in [Stats -> Nat \ {0}]
    /\ \A s \in LoggingStats : dependencies[s] = {}
    /\ \A s \in Stats : s \notin dependencies[s]
ASSUME BoundsAssumption == MaxHour \in Nat /\ MaxFacts \in Nat /\ MaxCrashes \in Nat

Hours == 0 .. MaxHour

(* An end_time is one time_increment after the one before it.              *)
ASSUME EndsAssumption ==
    /\ Ends \in [Stats -> SUBSET (Hours \ {0})]
    /\ \A s \in Stats : \A g \in Ends[s] : g - time_increment[s] \in Ends[s] \cup {0}
    /\ \A s \in Stats : \A e \in Ends[s] \cup {0} :
        /\ \A g \in Ends[s] : e < g => e + time_increment[s] <= g
        /\ e + time_increment[s] <= MaxHour => e + time_increment[s] \in Ends[s]

(* A DependentCountStat has the end_times of its dependencies.             *)
ASSUME DependenciesAssumption ==
    \A s \in Stats : \A d \in dependencies[s] : Ends[s] \subseteq Ends[d]

VARIABLES
    now,            \* floor_to_hour of the clock
    facts,          \* stat -> end_time -> what there is to count
    late,           \* the intervals for which something was logged after their end
    (* The database.                                                       *)
    UserCount, RealmCount, InstallationCount,
    FillState,      \* stat -> its end_time and state
    (* The run of update_analytics_counts.                                 *)
    lock,           \* ANALYTICS_LOCK_DIR exists
    abandoned,      \* it was left by a run that was killed
    pc,
    time,           \* options["time"]
    stats,          \* those still to be processed
    (* process_count_stat                                                  *)
    stat, fill_to_time, currently_filled,
    undo,           \* tables from which rows are still to be deleted
    crashes

tableVars == <<UserCount, RealmCount, InstallationCount>>
lockVars == <<lock, abandoned, crashes>>
localVars == <<fill_to_time, currently_filled, undo>>
vars == <<now, facts, late, tableVars, FillState, lockVars, pc, time, stats, stat, localVars>>

Counts == [Stats -> [Hours -> Nat]]
DONE == "DONE"
STARTED == "STARTED"
Tables == {"UserCount", "RealmCount", "InstallationCount"}
Filling == {"pull", "realm", "installation", "filled"}

(* An interval is started only when it is over, and FillState names the    *)
(* end of one of the intervals of its statistic.                           *)
TypeOK ==
    /\ now \in Hours
    /\ facts \in Counts
    /\ late \in SUBSET (LoggingStats \X Hours)
    /\ UserCount \in Counts /\ RealmCount \in Counts /\ InstallationCount \in Counts
    /\ FillState \in [Stats -> [end_time : Hours, state : {DONE, STARTED}]]
    /\ \A s \in Stats :
        /\ FillState[s].end_time \in Ends[s] \cup {0}
        /\ FillState[s].end_time <= now
        /\ FillState[s].state = STARTED => FillState[s].end_time # 0
    /\ lock \in BOOLEAN /\ abandoned \in BOOLEAN /\ crashes \in Nat
    /\ pc \in {"off", "choose", "begin", "undo", "limit", "loop"} \cup Filling
    /\ time \in Hours /\ time <= now
    /\ stats \in SUBSET Stats /\ stat \in Stats
    /\ fill_to_time \in Hours /\ fill_to_time <= now
    /\ currently_filled \in Nat
    /\ undo \in SUBSET Tables

Count0 == [s \in Stats |-> [h \in Hours |-> 0]]

(* A statistic without a FillState has one for installation_epoch.         *)
Init ==
    /\ now = 0
    /\ facts = Count0 /\ late = {}
    /\ UserCount = Count0 /\ RealmCount = Count0 /\ InstallationCount = Count0
    /\ FillState = [s \in Stats |-> [end_time |-> 0, state |-> DONE]]
    /\ lock = FALSE /\ abandoned = FALSE /\ crashes = 0
    /\ pc = "off" /\ time = 0 /\ stats = {}
    /\ stat \in Stats /\ fill_to_time = 0 /\ currently_filled = 0 /\ undo = {}

-----------------------------------------------------------------------------
(* What is counted                                                         *)

Tick ==
    /\ now < MaxHour /\ now' = now + 1
    /\ UNCHANGED <<facts, late, tableVars, FillState, lockVars, pc, time, stats, stat, localVars>>

Add(counts, s, h, n) == [counts EXCEPT ![s][h] = @ + n]

(* A row of a table that the SQL of a pulled statistic reads.  It is       *)
(* committed before its interval is over; one that a longer transaction    *)
(* commits after the job has read the interval would never be counted, and *)
(* is outside the model.                                                   *)
Happens ==
    \E s \in Stats \ LoggingStats : \E h \in Ends[s] :
        /\ h - time_increment[s] <= now /\ now < h
        /\ facts[s][h] < MaxFacts
        /\ facts' = Add(facts, s, h, 1)
        /\ UNCHANGED <<now, late, tableVars, FillState, lockVars, pc, time, stats,
                       stat, localVars>>

(* A LoggingCountStat counts it at once, for the interval of event_time;   *)
(* that one may be over when the transaction commits.                      *)
do_increment_logging_stat ==
    \E s \in LoggingStats : \E h \in Ends[s] :
        /\ h - time_increment[s] <= now
        /\ facts[s][h] < MaxFacts
        /\ facts' = Add(facts, s, h, 1)
        /\ late' = IF now < h THEN late ELSE late \cup {<<s, h>>}
        /\ UserCount' = IF s \in UserStats THEN Add(UserCount, s, h, 1) ELSE UserCount
        /\ RealmCount' = IF s \in UserStats THEN RealmCount ELSE Add(RealmCount, s, h, 1)
        /\ UNCHANGED <<now, InstallationCount, FillState, lockVars, pc, time,
                       stats, stat, localVars>>

-----------------------------------------------------------------------------
(* update_analytics_counts                                                 *)

(* os.mkdir succeeds.                                                      *)
LockFree == ~lock

handle ==
    /\ pc = "off" /\ LockFree
    /\ lock' = TRUE /\ pc' = "choose"
    /\ time' = now /\ stats' = Stats
    /\ UNCHANGED <<now, facts, late, tableVars, FillState, abandoned, crashes, stat, localVars>>

(* They are processed in the order of COUNT_STATS, here in any order.      *)
NextStat ==
    /\ pc = "choose"
    /\ \E s \in stats : stat' = s /\ stats' = stats \ {s}
    /\ fill_to_time' = time
    /\ pc' = "begin"
    /\ UNCHANGED <<now, facts, late, tableVars, FillState, lockVars, time,
                   currently_filled, undo>>

(* The process is gone, and its variables with it.                         *)
Exit ==
    /\ pc' = "off" /\ time' = 0 /\ stats' = {}
    /\ fill_to_time' = 0 /\ currently_filled' = 0 /\ undo' = {}
    /\ UNCHANGED <<now, facts, late, tableVars, FillState, stat>>

(* Mutant: the directory is not removed.                                   *)
Finish_keepsLock == pc = "choose" /\ stats = {} /\ Exit /\ UNCHANGED lockVars

(* os.rmdir                                                                *)
Finish ==
    /\ pc = "choose" /\ stats = {} /\ Exit
    /\ lock' = FALSE
    /\ UNCHANGED <<abandoned, crashes>>

(* The process is killed; the directory remains until somebody removes it. *)
Crash ==
    /\ pc # "off" /\ crashes < MaxCrashes /\ Exit
    /\ abandoned' = TRUE /\ crashes' = crashes + 1
    /\ UNCHANGED lock

RemoveLock ==
    /\ abandoned
    /\ lock' = FALSE /\ abandoned' = FALSE
    /\ UNCHANGED <<now, facts, late, tableVars, FillState, crashes, pc, time, stats,
                   stat, localVars>>

-----------------------------------------------------------------------------
(* process_count_stat                                                      *)

(* Mutant: the installation's rows are forgotten.                          *)
Deleted_keepsInstallation(s) == {"UserCount", "RealmCount"}

(* Mutant: every table, also for a LoggingCountStat.                       *)
Deleted_all(s) == Tables

(* The tables of do_delete_counts_at_hour.                                 *)
Deleted(s) ==
    IF s \notin LoggingStats THEN Tables
    ELSE {"InstallationCount"} \cup (IF s \in UserStats THEN {"RealmCount"} ELSE {})

(* The FillState is read.                                                  *)
Begin ==
    /\ pc = "begin"
    /\ IF FillState[stat].state = STARTED
       THEN pc' = "undo" /\ undo' = Deleted(stat)
       ELSE pc' = "limit" /\ UNCHANGED undo
    /\ currently_filled' = FillState[stat].end_time
    /\ UNCHANGED <<now, facts, late, tableVars, FillState, lockVars, time, stats, stat,
                   fill_to_time>>

Clear(counts) == [counts EXCEPT ![stat][currently_filled] = 0]

(* One DELETE statement after the other.                                   *)
do_delete_counts_at_hour ==
    /\ pc = "undo"
    /\ \E table \in undo :
        /\ undo' = undo \ {table}
        /\ UserCount' = IF table = "UserCount" THEN Clear(UserCount) ELSE UserCount
        /\ RealmCount' = IF table = "RealmCount" THEN Clear(RealmCount) ELSE RealmCount
        /\ InstallationCount' = IF table = "InstallationCount"
                                THEN Clear(InstallationCount) ELSE InstallationCount
    /\ UNCHANGED <<now, facts, late, FillState, lockVars, pc, time, stats, stat,
                   fill_to_time, currently_filled>>

do_update_fill_state(end_time, state) ==
    FillState' = [FillState EXCEPT ![stat] = [end_time |-> end_time, state |-> state]]

(* Mutant: the hour before, whatever the statistic's frequency.            *)
Undone_hour == currently_filled - 1

(* The end_time of the last interval that was filled.                      *)
Undone == currently_filled - time_increment[stat]

UndoDone ==
    /\ pc = "undo" /\ undo = {}
    /\ do_update_fill_state(Undone, DONE)
    /\ currently_filled' = Undone
    /\ pc' = "limit"
    /\ UNCHANGED <<now, facts, late, tableVars, lockVars, time, stats, stat, fill_to_time, undo>>

(* Mutant: an interval that was only started counts as filled.             *)
last_successful_fill_started(s) == FillState[s].end_time

last_successful_fill(s) ==
    IF FillState[s].state = DONE THEN FillState[s].end_time
    ELSE FillState[s].end_time - time_increment[s]

(* A dependent statistic is filled no further than its dependencies.       *)
Limit ==
    /\ pc = "limit"
    /\ \E t \in {fill_to_time} \cup {last_successful_fill(d) : d \in dependencies[stat]} :
        /\ \A d \in dependencies[stat] : t <= last_successful_fill(d)
        /\ t <= fill_to_time
        /\ fill_to_time' = t
    /\ currently_filled' = currently_filled + time_increment[stat]
    /\ pc' = "loop"
    /\ UNCHANGED <<now, facts, late, tableVars, FillState, lockVars, time, stats, stat, undo>>

(* The loop starts with the next interval, or process_count_stat returns.  *)
Loop ==
    /\ pc = "loop"
    /\ IF currently_filled <= fill_to_time
       THEN /\ do_update_fill_state(currently_filled, STARTED)
            /\ pc' = "pull"
            /\ UNCHANGED localVars
       ELSE /\ pc' = "choose"
            /\ fill_to_time' = 0 /\ currently_filled' = 0 /\ undo' = {}
            /\ UNCHANGED FillState
    /\ UNCHANGED <<now, facts, late, tableVars, lockVars, time, stats, stat>>

(* What the query of a statistic finds.  That of a dependent statistic     *)
(* reads the tables of others, and is wrong when these are not filled.     *)
Collected(s, h) ==
    IF \A d \in dependencies[s] : UserCount[d][h] = facts[d][h]
    THEN facts[s][h] ELSE facts[s][h] + 1

(* pull_function of do_fill_count_stat_at_hour.                            *)
Pull ==
    /\ pc = "pull"
    /\ LET n == IF stat \in LoggingStats THEN 0 ELSE Collected(stat, currently_filled)
       IN  /\ UserCount' = IF stat \in UserStats
                           THEN Add(UserCount, stat, currently_filled, n) ELSE UserCount
           /\ RealmCount' = IF stat \notin UserStats
                            THEN Add(RealmCount, stat, currently_filled, n) ELSE RealmCount
    /\ pc' = IF stat \in UserStats THEN "realm" ELSE "installation"
    /\ UNCHANGED <<now, facts, late, InstallationCount, FillState, lockVars, time, stats,
                   stat, localVars>>

(* The two INSERTs of do_aggregate_to_summary_table.                       *)
AggregateRealm ==
    /\ pc = "realm"
    /\ RealmCount' = Add(RealmCount, stat, currently_filled,
                         UserCount[stat][currently_filled])
    /\ pc' = "installation"
    /\ UNCHANGED <<now, facts, late, UserCount, InstallationCount, FillState, lockVars, time,
                   stats, stat, localVars>>

AggregateInstallation ==
    /\ pc = "installation"
    /\ InstallationCount' = Add(InstallationCount, stat, currently_filled,
                                RealmCount[stat][currently_filled])
    /\ pc' = "filled"
    /\ UNCHANGED <<now, facts, late, UserCount, RealmCount, FillState, lockVars, time,
                   stats, stat, localVars>>

Filled ==
    /\ pc = "filled"
    /\ do_update_fill_state(currently_filled, DONE)
    /\ currently_filled' = currently_filled + time_increment[stat]
    /\ pc' = "loop"
    /\ UNCHANGED <<now, facts, late, tableVars, lockVars, time, stats, stat, fill_to_time, undo>>

-----------------------------------------------------------------------------
process_count_stat ==
    \/ Begin \/ do_delete_counts_at_hour \/ UndoDone \/ Limit \/ Loop
    \/ Pull \/ AggregateRealm \/ AggregateInstallation \/ Filled

Next ==
    \/ Tick \/ Happens \/ do_increment_logging_stat
    \/ handle \/ NextStat \/ Finish \/ process_count_stat
    \/ Crash \/ RemoveLock

Spec == Init /\ [][Next]_vars

(* The job is started every hour and runs to its end unless it is killed;  *)
(* its monitoring makes somebody remove a lock that was left.              *)
Fairness ==
    /\ WF_vars(Tick) /\ WF_vars(handle)
    /\ WF_vars(NextStat) /\ WF_vars(Finish) /\ WF_vars(process_count_stat)
    /\ WF_vars(RemoveLock)

FairSpec == Spec /\ Fairness

-----------------------------------------------------------------------------
Exact(s, h) ==
    /\ s \in UserStats => UserCount[s][h] = facts[s][h]
    /\ RealmCount[s][h] = facts[s][h]
    /\ InstallationCount[s][h] = facts[s][h]

(* Whatever FillState counts as filled is complete and counted once in     *)
(* every table, after any number of runs that were killed at any statement *)
(* and undone, and also for a statistic that reads the rows of another.    *)
(* What was logged only after the end of its interval may be missing from  *)
(* the sums.                                                               *)
FilledIsExact ==
    \A s \in Stats : \A h \in Ends[s] :
        h <= last_successful_fill(s) /\ <<s, h>> \notin late => Exact(s, h)

(* Nothing of an interval is in the summary tables before it is started:   *)
(* an INSERT never meets rows that are already there (which the unique     *)
(* constraints would reject), because a run that was killed is undone.     *)
Unfilled(s, h) ==
    /\ InstallationCount[s][h] = 0
    /\ s \in UserStats => RealmCount[s][h] = 0
    /\ s \notin LoggingStats => UserCount[s][h] = 0 /\ RealmCount[s][h] = 0

NothingAhead ==
    /\ \A s \in Stats : \A h \in Ends[s] : FillState[s].end_time < h => Unfilled(s, h)
    /\ pc = "pull" => Unfilled(stat, currently_filled)

(* What a LoggingCountStat has logged cannot be counted again: the job     *)
(* never touches the table it is logged in, not even to undo an interval.  *)
LoggedIsKept ==
    \A s \in LoggingStats : \A h \in Ends[s] :
        IF s \in UserStats THEN UserCount[s][h] = facts[s][h]
        ELSE RealmCount[s][h] = facts[s][h]

(* Every interval of every statistic is filled.                            *)
EventuallyFilled ==
    \A s \in Stats : \A h \in Ends[s] : <>(last_successful_fill(s) >= h)
=============================================================================
