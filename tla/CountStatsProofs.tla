-------------------------- MODULE CountStatsProofs --------------------------
(***************************************************************************)
(* The analytics tables are exact as far as FillState says they are        *)
(* filled, and nothing is ahead of it, however often the job is killed.    *)
(* The inductive invariant says besides what the tables hold at each step  *)
(* of process_count_stat.                                                  *)
(***************************************************************************)
EXTENDS CountStats, TLAPS

StartedNow ==
    FillState[stat] = [end_time |-> currently_filled, state |-> STARTED]

(* The tables already deleted from.                                        *)
Cleared ==
    /\ undo \subseteq Deleted(stat)
    /\ \A table \in Deleted(stat) \ undo :
        /\ table = "UserCount" => UserCount[stat][currently_filled] = 0
        /\ table = "RealmCount" => RealmCount[stat][currently_filled] = 0
        /\ table = "InstallationCount" =>
                InstallationCount[stat][currently_filled] = 0

(* The tables while an interval is filled.                                 *)
Pulled ==
    /\ stat \in UserStats =>
            UserCount[stat][currently_filled] = facts[stat][currently_filled]
    /\ InstallationCount[stat][currently_filled] = 0

Stages ==
    /\ pc = "undo" => StartedNow /\ Cleared
    /\ pc = "limit" =>
            FillState[stat] = [end_time |-> currently_filled, state |-> DONE]
    /\ pc = "loop" =>
            /\ FillState[stat].state = DONE
            /\ currently_filled = FillState[stat].end_time + time_increment[stat]
    /\ pc \in Filling => StartedNow /\ currently_filled <= fill_to_time
    /\ pc \in {"loop"} \cup Filling =>
            \A d \in dependencies[stat] : fill_to_time <= last_successful_fill(d)
    /\ pc = "pull" => Unfilled(stat, currently_filled)
    /\ pc = "realm" =>
            Pulled /\ stat \in UserStats /\ RealmCount[stat][currently_filled] = 0
    /\ pc = "installation" =>
        /\ Pulled
        /\ <<stat, currently_filled>> \notin late =>
                RealmCount[stat][currently_filled] = facts[stat][currently_filled]
    /\ pc = "filled" /\ <<stat, currently_filled>> \notin late =>
            Exact(stat, currently_filled)

NoneAhead ==
    \A s \in Stats : \A h \in Ends[s] : FillState[s].end_time < h => Unfilled(s, h)

IInv == TypeOK /\ LoggedIsKept /\ FilledIsExact /\ NoneAhead /\ Stages

-----------------------------------------------------------------------------
(* The end_times of a statistic, and the operations on the tables.         *)

LEMMA EndsOf ==
    ASSUME NEW s \in Stats
    PROVE  /\ MaxHour \in Nat
           /\ time_increment[s] \in Nat \ {0}
           /\ Ends[s] \subseteq Hours \ {0}
           /\ \A g \in Ends[s] : g - time_increment[s] \in Ends[s] \cup {0}
           /\ \A e \in Ends[s] \cup {0} :
                /\ \A g \in Ends[s] : e < g => e + time_increment[s] <= g
                /\ e + time_increment[s] <= MaxHour => e + time_increment[s] \in Ends[s]
BY EndsAssumption, StatsAssumption, BoundsAssumption

LEMMA LastFill ==
    ASSUME TypeOK, NEW s \in Stats
    PROVE  /\ last_successful_fill(s) \in Ends[s] \cup {0}
           /\ last_successful_fill(s) \in Hours
           /\ last_successful_fill(s) <= FillState[s].end_time
<1>1. /\ FillState[s].end_time \in Ends[s] \cup {0}
      /\ FillState[s].state \in {DONE, STARTED}
      /\ FillState[s].state = STARTED => FillState[s].end_time # 0
    BY DEF TypeOK
<1>2. last_successful_fill(s) \in Ends[s] \cup {0}
    BY <1>1, EndsOf DEF last_successful_fill
<1>3. 0 \in Hours /\ Ends[s] \subseteq Hours
    BY EndsOf DEF Hours
<1>4. last_successful_fill(s) <= FillState[s].end_time
    BY <1>1, <1>3, EndsOf DEF last_successful_fill, Hours
<1> QED BY <1>2, <1>3, <1>4

Written(counts, s, h, n) == [counts EXCEPT ![s] = [counts[s] EXCEPT ![h] = n]]

LEMMA Writing ==
    ASSUME NEW counts \in Counts, NEW s \in Stats, NEW h \in Hours, NEW n \in Nat
    PROVE  /\ Written(counts, s, h, n) \in Counts
           /\ \A r \in Stats, g \in Hours :
                Written(counts, s, h, n)[r][g] =
                    IF r = s /\ g = h THEN n ELSE counts[r][g]
<1> DEFINE row == [counts[s] EXCEPT ![h] = n]
<1>1. \A r \in Stats : counts[r] \in [Hours -> Nat]
    BY DEF Counts
<1>2. row \in [Hours -> Nat]
    BY <1>1
<1>3. Written(counts, s, h, n) \in Counts
    BY <1>2 DEF Counts, Written
<1>4. ASSUME NEW r \in Stats, NEW g \in Hours
      PROVE  Written(counts, s, h, n)[r][g] = IF r = s /\ g = h THEN n ELSE counts[r][g]
    <2>1. Written(counts, s, h, n)[r] = IF r = s THEN row ELSE counts[r]
        BY DEF Counts, Written
    <2>2. row[g] = IF g = h THEN n ELSE counts[s][g]
        BY <1>1
    <2> QED BY <2>1, <2>2
<1> QED BY <1>3, <1>4

LEMMA Addition ==
    ASSUME NEW counts \in Counts, NEW s \in Stats, NEW h \in Hours, NEW n \in Nat
    PROVE  /\ Add(counts, s, h, n) \in Counts
           /\ \A r \in Stats, g \in Hours :
                Add(counts, s, h, n)[r][g] =
                    IF r = s /\ g = h THEN counts[s][h] + n ELSE counts[r][g]
<1> DEFINE sum == counts[s][h] + n
<1>1. counts[s] \in [Hours -> Nat]
    BY DEF Counts
<1>2. counts[s][h] \in Nat
    BY <1>1
<1>3. sum \in Nat
    BY <1>2
<1>4. Add(counts, s, h, n) = Written(counts, s, h, sum)
    BY DEF Add, Written
<1> HIDE DEF sum
<1>5. /\ Written(counts, s, h, sum) \in Counts
      /\ \A r \in Stats, g \in Hours :
            Written(counts, s, h, sum)[r][g] = IF r = s /\ g = h THEN sum ELSE counts[r][g]
    BY <1>3, Writing
<1> QED BY <1>4, <1>5 DEF sum

LEMMA Clearing ==
    ASSUME NEW counts \in Counts, stat \in Stats, currently_filled \in Hours
    PROVE  /\ Clear(counts) \in Counts
           /\ \A r \in Stats, g \in Hours :
                Clear(counts)[r][g] =
                    IF r = stat /\ g = currently_filled THEN 0 ELSE counts[r][g]
<1>1. Clear(counts) = Written(counts, stat, currently_filled, 0)
    BY DEF Clear, Written
<1> QED BY <1>1, Writing

LEMMA CellsAreNat ==
    ASSUME NEW counts \in Counts, NEW s \in Stats, NEW h \in Hours
    PROVE  counts[s][h] \in Nat
BY DEF Counts

(* The interval that is being filled is one of the statistic, and over.    *)
LEMMA CurrentInterval ==
    ASSUME IInv, pc \in Filling \cup {"undo"}
    PROVE  /\ stat \in Stats /\ currently_filled \in Ends[stat]
           /\ currently_filled \in Hours /\ currently_filled # 0
           /\ currently_filled <= now
           /\ FillState[stat].end_time = currently_filled
           /\ FillState[stat].state = STARTED
<1>1. stat \in Stats /\ StartedNow
    BY DEF IInv, Stages, TypeOK
<1>2. /\ FillState[stat].end_time = currently_filled
      /\ FillState[stat].state = STARTED
    BY <1>1 DEF StartedNow
<1>3. /\ currently_filled \in Ends[stat] \cup {0} /\ currently_filled # 0
      /\ currently_filled <= now
    BY <1>1, <1>2 DEF IInv, TypeOK
<1> QED BY <1>1, <1>2, <1>3, EndsOf

-----------------------------------------------------------------------------
(* Type correctness                                                        *)

LEMMA StatesAreTyped ==
    ASSUME TypeOK, NEW end_time \in Hours, NEW state \in {DONE, STARTED},
           do_update_fill_state(end_time, state),
           end_time \in Ends[stat] \cup {0}, end_time <= now,
           state = STARTED => end_time # 0, UNCHANGED now
    PROVE  /\ FillState' \in [Stats -> [end_time : Hours, state : {DONE, STARTED}]]
           /\ \A s \in Stats :
                /\ FillState'[s].end_time \in Ends[s] \cup {0}
                /\ FillState'[s].end_time <= now'
                /\ FillState'[s].state = STARTED => FillState'[s].end_time # 0
<1>1. FillState' \in [Stats -> [end_time : Hours, state : {DONE, STARTED}]]
    BY DEF TypeOK, do_update_fill_state
<1>2. ASSUME NEW s \in Stats
      PROVE  /\ FillState'[s].end_time \in Ends[s] \cup {0}
             /\ FillState'[s].end_time <= now'
             /\ FillState'[s].state = STARTED => FillState'[s].end_time # 0
    <2>1. CASE s = stat
        BY <2>1 DEF TypeOK, do_update_fill_state
    <2>2. CASE s # stat
        <3>1. FillState'[s] = FillState[s]
            BY <2>2 DEF TypeOK, do_update_fill_state
        <3> QED BY <3>1 DEF TypeOK
    <2> QED BY <2>1, <2>2
<1> QED BY <1>1, <1>2

LEMMA TypeInit == Init => TypeOK
<1> SUFFICES ASSUME Init PROVE TypeOK
    OBVIOUS
<1>1. 0 \in Hours
    BY BoundsAssumption DEF Hours
<1>2. Count0 \in Counts
    <2>1. [h \in Hours |-> 0] \in [Hours -> Nat]
        OBVIOUS
    <2> QED BY <2>1 DEF Count0, Counts
<1>3. /\ FillState \in [Stats -> [end_time : Hours, state : {DONE, STARTED}]]
      /\ \A s \in Stats : FillState[s].end_time = 0 /\ FillState[s].state = DONE
    BY <1>1 DEF Init
<1>4. DONE # STARTED
    BY DEF DONE, STARTED
<1>5. /\ 0 <= 0 /\ {} \in SUBSET Tables /\ {} \in SUBSET Stats
      /\ {} \in SUBSET (LoggingStats \X Hours)
    OBVIOUS
<1> QED BY <1>1, <1>2, <1>3, <1>4, <1>5 DEF Init, TypeOK

(* An increment touches one cell; a cell of an interval that is over only   *)
(* when it becomes late.                                                   *)
LEMMA Logging ==
    ASSUME TypeOK, do_increment_logging_stat
    PROVE  /\ facts' \in Counts /\ UserCount' \in Counts /\ RealmCount' \in Counts
           /\ late' \in SUBSET (LoggingStats \X Hours) /\ late \subseteq late'
           /\ \A r \in Stats, g \in Hours :
                /\ r \notin LoggingStats => facts'[r][g] = facts[r][g]
                /\ r \notin UserStats \/ r \notin LoggingStats =>
                        UserCount'[r][g] = UserCount[r][g]
                /\ r \in UserStats \/ r \notin LoggingStats =>
                        RealmCount'[r][g] = RealmCount[r][g]
                /\ g <= now /\ <<r, g>> \notin late' =>
                    /\ facts'[r][g] = facts[r][g]
                    /\ UserCount'[r][g] = UserCount[r][g]
                    /\ RealmCount'[r][g] = RealmCount[r][g]
                /\ r \in UserStats /\ UserCount[r][g] = facts[r][g]
                   /\ r \in LoggingStats => UserCount'[r][g] = facts'[r][g]
                /\ r \notin UserStats /\ RealmCount[r][g] = facts[r][g]
                   /\ r \in LoggingStats => RealmCount'[r][g] = facts'[r][g]
<1> DEFINE Logged(s, h) ==
        /\ facts' = Add(facts, s, h, 1)
        /\ late' = IF now < h THEN late ELSE late \cup {<<s, h>>}
        /\ UserCount' = IF s \in UserStats THEN Add(UserCount, s, h, 1) ELSE UserCount
        /\ RealmCount' = IF s \in UserStats THEN RealmCount ELSE Add(RealmCount, s, h, 1)
<1>1. PICK s \in LoggingStats : \E h \in Ends[s] : Logged(s, h)
    BY DEF do_increment_logging_stat
<1>2. PICK h \in Ends[s] : Logged(s, h)
    BY <1>1
<1>3. s \in Stats /\ h \in Hours /\ 1 \in Nat /\ now \in Hours
    BY StatsAssumption, EndsOf DEF TypeOK
<1>4. facts \in Counts /\ UserCount \in Counts /\ RealmCount \in Counts
    BY DEF TypeOK
<1>5. /\ facts' \in Counts
      /\ \A r \in Stats, g \in Hours :
            facts'[r][g] = IF r = s /\ g = h THEN facts[s][h] + 1 ELSE facts[r][g]
    BY <1>2, <1>3, <1>4, Addition
<1>6. /\ UserCount' \in Counts
      /\ \A r \in Stats, g \in Hours :
            UserCount'[r][g] = IF r = s /\ g = h /\ s \in UserStats
                               THEN UserCount[s][h] + 1 ELSE UserCount[r][g]
    BY <1>2, <1>3, <1>4, Addition
<1>7. /\ RealmCount' \in Counts
      /\ \A r \in Stats, g \in Hours :
            RealmCount'[r][g] = IF r = s /\ g = h /\ s \notin UserStats
                                THEN RealmCount[s][h] + 1 ELSE RealmCount[r][g]
    BY <1>2, <1>3, <1>4, Addition
<1>8. /\ late' \in SUBSET (LoggingStats \X Hours) /\ late \subseteq late'
      /\ now < h \/ <<s, h>> \in late'
    BY <1>2, <1>3 DEF TypeOK
<1>9. ASSUME NEW r \in Stats, NEW g \in Hours, g <= now, <<r, g>> \notin late'
      PROVE  ~(r = s /\ g = h)
    BY <1>3, <1>8, <1>9 DEF Hours
<1> QED BY <1>5, <1>6, <1>7, <1>8, <1>9

LEMMA Exiting ==
    ASSUME TypeOK, Exit
    PROVE  /\ pc' = "off" /\ time' \in Hours /\ time' <= now' /\ stats' \in SUBSET Stats
           /\ fill_to_time' \in Hours /\ fill_to_time' <= now'
           /\ currently_filled' \in Nat /\ undo' \in SUBSET Tables
           /\ UNCHANGED <<now, facts, late, UserCount, RealmCount, InstallationCount,
                          FillState, stat>>
<1>1. 0 \in Hours /\ 0 <= now
    BY BoundsAssumption DEF Hours, TypeOK
<1> QED BY <1>1 DEF Exit, tableVars

LEMMA TypeNext == IInv /\ [Next]_vars => TypeOK'
<1> SUFFICES ASSUME IInv, [Next]_vars PROVE TypeOK'
    OBVIOUS
<1> USE DEF IInv
<1>1. CASE Tick
    <2>1. now' \in Hours /\ now <= now' /\ now \in Hours
        BY <1>1, BoundsAssumption DEF Tick, TypeOK, Hours
    <2>2. \A t \in Hours : t <= now => t <= now'
        BY <2>1 DEF Hours
    <2>3. \A s \in Stats : FillState[s].end_time \in Hours
        BY DEF TypeOK
    <2> QED BY <1>1, <2>1, <2>2, <2>3 DEF Tick, TypeOK, tableVars, lockVars, localVars
<1>2. CASE Happens
    <2>1. PICK s \in Stats \ LoggingStats : \E h \in Ends[s] : facts' = Add(facts, s, h, 1)
        BY <1>2 DEF Happens
    <2>2. PICK h \in Ends[s] : facts' = Add(facts, s, h, 1)
        BY <2>1
    <2>3. facts' \in Counts
        BY <2>2, EndsOf, Addition DEF TypeOK
    <2> QED BY <1>2, <2>3 DEF Happens, TypeOK, tableVars, lockVars, localVars
<1>18. CASE do_increment_logging_stat
    <2>1. /\ facts' \in Counts /\ UserCount' \in Counts /\ RealmCount' \in Counts
          /\ late' \in SUBSET (LoggingStats \X Hours)
        BY <1>18, Logging
    <2> QED BY <1>18, <2>1 DEF do_increment_logging_stat, TypeOK, lockVars, localVars
<1>3. CASE handle
    <2>1. now <= now
        BY DEF TypeOK, Hours
    <2> QED BY <1>3, <2>1 DEF handle, TypeOK, tableVars, localVars
<1>4. CASE NextStat
    BY <1>4 DEF NextStat, TypeOK, tableVars, lockVars
<1>5. CASE Finish
    BY <1>5, Exiting DEF Finish, TypeOK
<1>6. CASE Crash
    BY <1>6, Exiting DEF Crash, TypeOK
<1>7. CASE RemoveLock
    BY <1>7 DEF RemoveLock, TypeOK, tableVars, localVars
<1>8. CASE Begin
    <2>1. Deleted(stat) \subseteq Tables
        BY DEF Deleted, Tables
    <2>2. FillState[stat].end_time \in Nat
        BY DEF TypeOK, Hours
    <2> QED BY <1>8, <2>1, <2>2 DEF Begin, TypeOK, tableVars, lockVars
<1>9. CASE do_delete_counts_at_hour
    <2>1. stat \in Stats /\ currently_filled \in Hours
        BY <1>9, CurrentInterval DEF do_delete_counts_at_hour
    <2>2. /\ UserCount' \in Counts /\ RealmCount' \in Counts
          /\ InstallationCount' \in Counts
        BY <1>9, <2>1, Clearing DEF do_delete_counts_at_hour, TypeOK
    <2>3. undo' \subseteq Tables
        BY <1>9 DEF do_delete_counts_at_hour, TypeOK
    <2> QED BY <1>9, <2>2, <2>3 DEF do_delete_counts_at_hour, TypeOK, lockVars
<1>10. CASE UndoDone
    <2>1. /\ stat \in Stats /\ currently_filled \in Ends[stat]
          /\ currently_filled \in Hours /\ currently_filled <= now
        BY <1>10, CurrentInterval DEF UndoDone
    <2>2. Undone \in Ends[stat] \cup {0} /\ Undone \in Hours
        BY <2>1, EndsOf DEF Undone, Hours
    <2>3. Undone <= now /\ Undone \in Nat
        BY <2>1, <2>2, EndsOf DEF Undone, Hours, TypeOK
    <2>4. do_update_fill_state(Undone, DONE)
        BY <1>10 DEF UndoDone
    <2>5. UNCHANGED now
        BY <1>10 DEF UndoDone
    <2>6. /\ FillState' \in [Stats -> [end_time : Hours, state : {DONE, STARTED}]]
          /\ \A s \in Stats :
                /\ FillState'[s].end_time \in Ends[s] \cup {0}
                /\ FillState'[s].end_time <= now'
                /\ FillState'[s].state = STARTED => FillState'[s].end_time # 0
        BY <2>2, <2>3, <2>4, <2>5, StatesAreTyped DEF DONE, STARTED
    <2> QED BY <1>10, <2>3, <2>6 DEF UndoDone, TypeOK, tableVars, lockVars
<1>11. CASE Limit
    <2>1. stat \in Stats /\ dependencies[stat] \subseteq Stats
        BY StatsAssumption DEF TypeOK
    <2>2. /\ fill_to_time' <= fill_to_time
          /\ fill_to_time' \in {fill_to_time}
                \cup {last_successful_fill(d) : d \in dependencies[stat]}
        BY <1>11 DEF Limit
    <2>3. fill_to_time' \in Hours
        BY <2>1, <2>2, LastFill DEF TypeOK
    <2>4. fill_to_time' <= now
        BY <2>2, <2>3 DEF TypeOK, Hours
    <2>5. currently_filled' \in Nat
        BY <1>11, <2>1, EndsOf DEF Limit, TypeOK
    <2> QED BY <1>11, <2>3, <2>4, <2>5 DEF Limit, TypeOK, tableVars, lockVars
<1>12. CASE Loop
    <2>1. CASE currently_filled <= fill_to_time
        <3>1. /\ stat \in Stats
              /\ currently_filled = FillState[stat].end_time + time_increment[stat]
              /\ FillState[stat].end_time \in Ends[stat] \cup {0}
              /\ FillState[stat].end_time \in Hours
              /\ fill_to_time \in Hours /\ fill_to_time <= now /\ now \in Hours
            BY <1>12 DEF Loop, TypeOK, Stages
        <3>2. currently_filled \in Ends[stat] /\ currently_filled <= now
            BY <2>1, <3>1, EndsOf DEF Hours
        <3>3. currently_filled \in Hours /\ currently_filled # 0
            BY <3>1, <3>2, EndsOf
        <3>4. do_update_fill_state(currently_filled, STARTED) /\ UNCHANGED now
            BY <1>12, <2>1 DEF Loop
        <3>5. /\ FillState' \in [Stats -> [end_time : Hours, state : {DONE, STARTED}]]
              /\ \A s \in Stats :
                    /\ FillState'[s].end_time \in Ends[s] \cup {0}
                    /\ FillState'[s].end_time <= now'
                    /\ FillState'[s].state = STARTED => FillState'[s].end_time # 0
            BY <3>2, <3>3, <3>4, StatesAreTyped
        <3> QED BY <1>12, <2>1, <3>5
                DEF Loop, TypeOK, Filling, tableVars, lockVars, localVars
    <2>2. CASE ~(currently_filled <= fill_to_time)
        <3>1. 0 \in Hours /\ 0 <= now
            BY BoundsAssumption DEF Hours, TypeOK
        <3> QED BY <1>12, <2>2, <3>1 DEF Loop, TypeOK, tableVars, lockVars
    <2> QED BY <2>1, <2>2
<1>13. CASE Pull
    <2>1. stat \in Stats /\ currently_filled \in Hours
        BY <1>13, CurrentInterval DEF Pull, Filling
    <2>2. Collected(stat, currently_filled) \in Nat
        BY <2>1, CellsAreNat DEF Collected, TypeOK
    <2>3. UserCount' \in Counts /\ RealmCount' \in Counts
        BY <1>13, <2>1, <2>2, Addition DEF Pull, TypeOK
    <2> QED BY <1>13, <2>3 DEF Pull, TypeOK, Filling, lockVars, localVars
<1>14. CASE AggregateRealm
    <2>1. stat \in Stats /\ currently_filled \in Hours
        BY <1>14, CurrentInterval DEF AggregateRealm, Filling
    <2>2. RealmCount' \in Counts
        BY <1>14, <2>1, Addition, CellsAreNat DEF AggregateRealm, TypeOK
    <2> QED BY <1>14, <2>2 DEF AggregateRealm, TypeOK, Filling, lockVars, localVars
<1>15. CASE AggregateInstallation
    <2>1. stat \in Stats /\ currently_filled \in Hours
        BY <1>15, CurrentInterval DEF AggregateInstallation, Filling
    <2>2. InstallationCount' \in Counts
        BY <1>15, <2>1, Addition, CellsAreNat DEF AggregateInstallation, TypeOK
    <2> QED BY <1>15, <2>2 DEF AggregateInstallation, TypeOK, Filling, lockVars, localVars
<1>16. CASE Filled
    <2>1. /\ stat \in Stats /\ currently_filled \in Ends[stat]
          /\ currently_filled \in Hours /\ currently_filled <= now
        BY <1>16, CurrentInterval DEF Filled, Filling
    <2>2. do_update_fill_state(currently_filled, DONE) /\ UNCHANGED now
        BY <1>16 DEF Filled
    <2>3. /\ FillState' \in [Stats -> [end_time : Hours, state : {DONE, STARTED}]]
          /\ \A s \in Stats :
                /\ FillState'[s].end_time \in Ends[s] \cup {0}
                /\ FillState'[s].end_time <= now'
                /\ FillState'[s].state = STARTED => FillState'[s].end_time # 0
        BY <2>1, <2>2, StatesAreTyped DEF DONE, STARTED
    <2>4. currently_filled' \in Nat
        BY <1>16, <2>1, EndsOf DEF Filled, Hours
    <2> QED BY <1>16, <2>3, <2>4 DEF Filled, TypeOK, tableVars, lockVars
<1>17. CASE UNCHANGED vars
    BY <1>17 DEF TypeOK, vars, tableVars, lockVars, localVars
<1> QED BY <1>1, <1>2, <1>3, <1>4, <1>5, <1>6, <1>7, <1>8, <1>9, <1>10, <1>11,
           <1>12, <1>13, <1>14, <1>15, <1>16, <1>17, <1>18 DEF Next, process_count_stat

-----------------------------------------------------------------------------
(* The steps that leave the tables alone                                   *)

SameTables ==
    UNCHANGED <<facts, late, UserCount, RealmCount, InstallationCount>>

TablesKept == LoggedIsKept /\ FilledIsExact /\ NoneAhead

LEMMA StateOf ==
    ASSUME TypeOK, NEW end_time \in Hours, NEW state \in {DONE, STARTED},
           do_update_fill_state(end_time, state), UNCHANGED stat
    PROVE  /\ FillState'[stat] = [end_time |-> end_time, state |-> state]
           /\ \A s \in Stats \ {stat} : FillState'[s] = FillState[s]
           /\ \A s \in Stats \ {stat} :
                last_successful_fill(s)' = last_successful_fill(s)
           /\ last_successful_fill(stat)' =
                IF state = DONE THEN end_time ELSE end_time - time_increment[stat]
<1>1. /\ FillState'[stat] = [end_time |-> end_time, state |-> state]
      /\ \A s \in Stats \ {stat} : FillState'[s] = FillState[s]
    BY DEF TypeOK, do_update_fill_state
<1>2. \A s \in Stats \ {stat} : last_successful_fill(s)' = last_successful_fill(s)
    BY <1>1 DEF last_successful_fill
<1>3. FillState'[stat].state = state /\ FillState'[stat].end_time = end_time
    BY <1>1
<1>4. last_successful_fill(stat)' =
        IF state = DONE THEN end_time ELSE end_time - time_increment[stat]
    BY <1>3 DEF last_successful_fill
<1> QED BY <1>1, <1>2, <1>4

LEMMA Quiet ==
    ASSUME IInv, SameTables, UNCHANGED FillState
    PROVE  TablesKept' /\ \A s : last_successful_fill(s)' = last_successful_fill(s)
<1>1. \A s : last_successful_fill(s)' = last_successful_fill(s)
    BY DEF last_successful_fill
<1>2. LoggedIsKept'
    BY DEF IInv, LoggedIsKept, SameTables
<1>3. FilledIsExact'
    BY <1>1 DEF IInv, FilledIsExact, Exact, SameTables
<1>4. NoneAhead'
    BY DEF IInv, NoneAhead, Unfilled, SameTables
<1> QED BY <1>1, <1>2, <1>3, <1>4 DEF TablesKept

LEMMA Resting ==
    ASSUME pc' \in {"off", "choose", "begin"}
    PROVE  Stages'
BY DEF Stages, Filling

LEMMA SameStage ==
    ASSUME Stages, SameTables,
           UNCHANGED <<FillState, pc, stat, fill_to_time, currently_filled, undo>>
    PROVE  Stages'
BY DEF Stages, SameTables, StartedNow, Cleared, Pulled, Unfilled, Exact,
       last_successful_fill

LEMMA QuietNext ==
    ASSUME IInv,
           Tick \/ handle \/ NextStat \/ Finish \/ Crash \/ RemoveLock \/ UNCHANGED vars
    PROVE  TablesKept' /\ Stages'
<1>1. SameTables /\ UNCHANGED FillState
    BY DEF Tick, handle, NextStat, Finish, Crash, RemoveLock, Exit, vars, tableVars,
           SameTables
<1>2. \/ pc' \in {"off", "choose", "begin"}
      \/ UNCHANGED <<pc, stat, fill_to_time, currently_filled, undo>>
    BY DEF Tick, handle, NextStat, Finish, Crash, RemoveLock, Exit, vars, localVars
<1>3. Stages'
    BY <1>1, <1>2, Resting, SameStage DEF IInv
<1> QED BY <1>1, <1>3, Quiet

LEMMA BeginNext ==
    ASSUME IInv, Begin
    PROVE  TablesKept' /\ Stages'
<1>1. SameTables /\ UNCHANGED <<FillState, stat>>
    BY DEF Begin, tableVars, SameTables
<1>2. /\ stat \in Stats
      /\ FillState[stat] \in [end_time : Hours, state : {DONE, STARTED}]
    BY DEF IInv, TypeOK
<1>3. CASE FillState[stat].state = STARTED
    <2>1. pc' = "undo" /\ undo' = Deleted(stat) /\ StartedNow'
        BY <1>1, <1>2, <1>3 DEF Begin, StartedNow
    <2>2. Cleared'
        BY <1>1, <2>1 DEF Cleared, Deleted
    <2> QED BY <1>1, <2>1, <2>2, Quiet DEF Stages, Filling
<1>4. CASE FillState[stat].state # STARTED
    <2>1. /\ pc' = "limit"
          /\ FillState'[stat'] = [end_time |-> currently_filled', state |-> DONE]
        BY <1>1, <1>2, <1>4 DEF Begin
    <2> QED BY <1>1, <2>1, Quiet DEF Stages, Filling
<1> QED BY <1>3, <1>4

LEMMA LimitNext ==
    ASSUME IInv, Limit
    PROVE  TablesKept' /\ Stages'
<1>1. SameTables /\ UNCHANGED <<FillState, stat>>
    BY DEF Limit, tableVars, SameTables
<1>2. FillState[stat] = [end_time |-> currently_filled, state |-> DONE]
    BY DEF IInv, Stages, Limit
<1>3. /\ FillState'[stat'].state = DONE
      /\ currently_filled' = FillState'[stat'].end_time + time_increment[stat']
    BY <1>1, <1>2 DEF Limit
<1>4. \A d \in dependencies[stat] : fill_to_time' <= last_successful_fill(d)
    BY DEF Limit
<1>5. \A s : last_successful_fill(s)' = last_successful_fill(s)
    BY <1>1, Quiet
<1>6. \A d \in dependencies[stat'] : fill_to_time' <= last_successful_fill(d)'
    BY <1>1, <1>4, <1>5
<1>7. pc' = "loop"
    BY DEF Limit
<1> QED BY <1>1, <1>3, <1>6, <1>7, Quiet DEF Stages, Filling

-----------------------------------------------------------------------------
(* The steps that write FillState                                          *)

LEMMA LoopNext ==
    ASSUME IInv, Loop
    PROVE  TablesKept' /\ Stages'
<1>1. SameTables /\ UNCHANGED stat
    BY DEF Loop, tableVars, SameTables
<1>2. CASE ~(currently_filled <= fill_to_time)
    BY <1>1, <1>2, Quiet, Resting DEF Loop
<1>3. CASE currently_filled <= fill_to_time
    <2>1. /\ stat \in Stats
          /\ FillState[stat].state = DONE
          /\ currently_filled = FillState[stat].end_time + time_increment[stat]
          /\ FillState[stat].end_time \in Ends[stat] \cup {0}
          /\ FillState[stat].end_time \in Hours /\ fill_to_time \in Hours
          /\ \A d \in dependencies[stat] : fill_to_time <= last_successful_fill(d)
        BY DEF IInv, Loop, TypeOK, Stages
    <2>2. currently_filled \in Ends[stat] /\ FillState[stat].end_time < currently_filled
        BY <1>3, <2>1, EndsOf DEF Hours
    <2>3. currently_filled \in Hours
        BY <2>1, <2>2, EndsOf
    <2>4. /\ do_update_fill_state(currently_filled, STARTED) /\ pc' = "pull"
          /\ UNCHANGED <<fill_to_time, currently_filled, undo>>
        BY <1>3 DEF Loop, localVars
    <2>5. STARTED \in {DONE, STARTED} /\ STARTED # DONE
        BY DEF DONE, STARTED
    <2>6. /\ FillState'[stat] = [end_time |-> currently_filled, state |-> STARTED]
          /\ \A s \in Stats \ {stat} : FillState'[s] = FillState[s]
          /\ \A s \in Stats \ {stat} :
                last_successful_fill(s)' = last_successful_fill(s)
          /\ last_successful_fill(stat)' = currently_filled - time_increment[stat]
        BY <1>1, <2>3, <2>4, <2>5, StateOf DEF IInv
    <2>7. last_successful_fill(stat) = FillState[stat].end_time
        BY <2>1 DEF last_successful_fill
    <2>8. \A s \in Stats : last_successful_fill(s)' = last_successful_fill(s)
        BY <1>1, <2>1, <2>6, <2>7, EndsOf DEF Hours
    <2>9. LoggedIsKept'
        BY <1>1 DEF IInv, LoggedIsKept, SameTables
    <2>10. FilledIsExact'
        BY <1>1, <2>8 DEF IInv, FilledIsExact, Exact, SameTables
    <2>11. ASSUME NEW s \in Stats, NEW h \in Ends[s], FillState'[s].end_time < h
           PROVE  Unfilled(s, h)'
        <3>1. FillState[s].end_time < h
            <4>1. CASE s # stat
                BY <2>6, <2>11, <4>1
            <4>2. CASE s = stat
                BY <2>1, <2>2, <2>3, <2>6, <2>11, <4>2, EndsOf DEF Hours
            <4> QED BY <4>1, <4>2
        <3> QED BY <1>1, <3>1 DEF IInv, NoneAhead, Unfilled, SameTables
    <2>12. NoneAhead'
        BY <2>11 DEF NoneAhead
    <2>13. Unfilled(stat, currently_filled)
        BY <2>1, <2>2 DEF IInv, NoneAhead
    <2>14. Unfilled(stat, currently_filled)'
        BY <1>1, <2>4, <2>13 DEF Unfilled, SameTables
    <2>15. \A d \in dependencies[stat'] : fill_to_time' <= last_successful_fill(d)'
        <3>1. dependencies[stat] \subseteq Stats
            BY <2>1, StatsAssumption
        <3> QED BY <1>1, <2>1, <2>4, <2>8, <3>1
    <2>16. StartedNow'
        BY <1>1, <2>4, <2>6 DEF StartedNow
    <2> QED BY <1>3, <2>4, <2>9, <2>10, <2>12, <2>14, <2>15, <2>16
            DEF TablesKept, Stages, Filling
<1> QED BY <1>2, <1>3

LEMMA UndoDoneNext ==
    ASSUME IInv, UndoDone
    PROVE  TablesKept' /\ Stages'
<1>1. SameTables /\ UNCHANGED stat
    BY DEF UndoDone, tableVars, SameTables
<1>2. /\ stat \in Stats /\ currently_filled \in Ends[stat] /\ currently_filled \in Hours
      /\ FillState[stat].end_time = currently_filled /\ FillState[stat].state = STARTED
    BY CurrentInterval DEF UndoDone
<1>3. Undone \in Ends[stat] \cup {0} /\ Undone \in Hours
    BY <1>2, EndsOf DEF Undone, Hours
<1>4. DONE \in {DONE, STARTED} /\ STARTED # DONE
    BY DEF DONE, STARTED
<1>5. do_update_fill_state(Undone, DONE) /\ currently_filled' = Undone /\ pc' = "limit"
    BY DEF UndoDone
<1>6. /\ FillState'[stat] = [end_time |-> Undone, state |-> DONE]
      /\ \A s \in Stats \ {stat} : FillState'[s] = FillState[s]
      /\ \A s \in Stats \ {stat} :
            last_successful_fill(s)' = last_successful_fill(s)
      /\ last_successful_fill(stat)' = Undone
    BY <1>1, <1>3, <1>4, <1>5, StateOf DEF IInv
<1>7. \A s \in Stats : last_successful_fill(s)' = last_successful_fill(s)
    <2>1. last_successful_fill(stat) = Undone
        BY <1>2, <1>4 DEF last_successful_fill, Undone
    <2> QED BY <1>1, <1>6, <2>1
<1>8. LoggedIsKept'
    BY <1>1 DEF IInv, LoggedIsKept, SameTables
<1>9. FilledIsExact'
    BY <1>1, <1>7 DEF IInv, FilledIsExact, Exact, SameTables
<1>10. Unfilled(stat, currently_filled)
    <2>1. Cleared /\ undo = {}
        BY DEF IInv, Stages, UndoDone
    <2> QED BY <2>1 DEF Cleared, Deleted, Unfilled, Tables
<1>11. ASSUME NEW s \in Stats, NEW h \in Ends[s], FillState'[s].end_time < h
       PROVE  Unfilled(s, h)
    <2>1. CASE s # stat
        BY <1>6, <1>11, <2>1 DEF IInv, NoneAhead
    <2>2. CASE s = stat
        <3>1. Undone < h
            BY <1>6, <1>11, <2>2
        <3>2. Undone + time_increment[stat] <= h
            BY <1>2, <1>3, <2>2, <3>1, EndsOf
        <3>3. h = currently_filled \/ currently_filled < h
            BY <1>2, <2>2, <3>2, EndsOf DEF Undone, Hours
        <3>4. CASE currently_filled < h
            BY <1>2, <2>2, <3>4 DEF IInv, NoneAhead
        <3> QED BY <1>10, <2>2, <3>3, <3>4
    <2> QED BY <2>1, <2>2
<1>12. NoneAhead'
    BY <1>1, <1>11 DEF NoneAhead, Unfilled, SameTables
<1> QED BY <1>1, <1>5, <1>6, <1>8, <1>9, <1>12 DEF TablesKept, Stages, Filling

LEMMA FilledNext ==
    ASSUME IInv, Filled
    PROVE  TablesKept' /\ Stages'
<1>1. SameTables /\ UNCHANGED <<stat, fill_to_time>>
    BY DEF Filled, tableVars, SameTables
<1>2. /\ stat \in Stats /\ currently_filled \in Ends[stat] /\ currently_filled \in Hours
      /\ FillState[stat].end_time = currently_filled /\ FillState[stat].state = STARTED
    BY CurrentInterval DEF Filled, Filling
<1>3. DONE \in {DONE, STARTED} /\ STARTED # DONE
    BY DEF DONE, STARTED
<1>4. /\ do_update_fill_state(currently_filled, DONE) /\ pc' = "loop"
      /\ currently_filled' = currently_filled + time_increment[stat]
    BY DEF Filled
<1>5. /\ FillState'[stat] = [end_time |-> currently_filled, state |-> DONE]
      /\ \A s \in Stats \ {stat} : FillState'[s] = FillState[s]
      /\ \A s \in Stats \ {stat} :
            last_successful_fill(s)' = last_successful_fill(s)
      /\ last_successful_fill(stat)' = currently_filled
    BY <1>1, <1>2, <1>3, <1>4, StateOf DEF IInv
<1>6. last_successful_fill(stat) = currently_filled - time_increment[stat]
    BY <1>2, <1>3 DEF last_successful_fill
<1>7. LoggedIsKept'
    BY <1>1 DEF IInv, LoggedIsKept, SameTables
<1>8. ASSUME NEW s \in Stats, NEW h \in Ends[s],
             h <= last_successful_fill(s)', <<s, h>> \notin late
      PROVE  Exact(s, h)
    <2>1. CASE s # stat
        BY <1>5, <1>8, <2>1 DEF IInv, FilledIsExact
    <2>2. CASE s = stat /\ h = currently_filled
        BY <1>8, <2>2 DEF IInv, Stages, Filled
    <2>3. CASE s = stat /\ h # currently_filled
        <3>1. h \in Hours /\ h < currently_filled
            BY <1>1, <1>2, <1>5, <1>8, <2>3, EndsOf DEF Hours
        <3>2. h + time_increment[stat] <= currently_filled
            BY <1>2, <2>3, <3>1, EndsOf
        <3>3. h <= last_successful_fill(stat)
            BY <1>2, <1>6, <3>1, <3>2, EndsOf DEF Hours
        <3> QED BY <1>8, <2>3, <3>3 DEF IInv, FilledIsExact
    <2> QED BY <2>1, <2>2, <2>3
<1>9. FilledIsExact'
    BY <1>1, <1>8 DEF FilledIsExact, Exact, SameTables
<1>10. NoneAhead'
    <2>1. \A s \in Stats : FillState'[s].end_time = FillState[s].end_time
        BY <1>2, <1>5
    <2> QED BY <1>1, <2>1 DEF IInv, NoneAhead, Unfilled, SameTables
<1>11. \A d \in dependencies[stat'] : fill_to_time' <= last_successful_fill(d)'
    <2>1. dependencies[stat] \subseteq Stats \ {stat}
        BY <1>2, StatsAssumption
    <2>2. \A d \in dependencies[stat] : fill_to_time <= last_successful_fill(d)
        BY DEF IInv, Stages, Filled, Filling
    <2> QED BY <1>1, <1>5, <2>1, <2>2
<1> QED BY <1>1, <1>4, <1>5, <1>7, <1>9, <1>10, <1>11 DEF TablesKept, Stages, Filling

-----------------------------------------------------------------------------
(* The steps that write the tables                                         *)

(* The tables are the same but for the rows of the current interval.       *)
OneCell ==
    \A r \in Stats, g \in Hours : ~(r = stat /\ g = currently_filled) =>
        /\ UserCount'[r][g] = UserCount[r][g]
        /\ RealmCount'[r][g] = RealmCount[r][g]
        /\ InstallationCount'[r][g] = InstallationCount[r][g]

LEMMA Elsewhere ==
    ASSUME IInv, pc \in Filling \cup {"undo"}, OneCell,
           UNCHANGED <<facts, late, FillState>>,
           stat \in LoggingStats =>
                IF stat \in UserStats
                THEN UserCount'[stat][currently_filled] = UserCount[stat][currently_filled]
                ELSE RealmCount'[stat][currently_filled] = RealmCount[stat][currently_filled]
    PROVE  TablesKept' /\ \A s : last_successful_fill(s)' = last_successful_fill(s)
<1>1. /\ stat \in Stats /\ currently_filled \in Ends[stat] /\ currently_filled \in Hours
      /\ FillState[stat].end_time = currently_filled /\ FillState[stat].state = STARTED
    BY CurrentInterval
<1>2. \A s : last_successful_fill(s)' = last_successful_fill(s)
    BY DEF last_successful_fill
<1>3. \A s \in Stats : Ends[s] \subseteq Hours
    BY EndsOf
<1>4. LoggedIsKept'
    <2> SUFFICES ASSUME NEW s \in LoggingStats, NEW h \in Ends[s]
                 PROVE  IF s \in UserStats THEN UserCount'[s][h] = facts[s][h]
                        ELSE RealmCount'[s][h] = facts[s][h]
        BY DEF LoggedIsKept
    <2>1. IF s \in UserStats THEN UserCount[s][h] = facts[s][h]
          ELSE RealmCount[s][h] = facts[s][h]
        BY DEF IInv, LoggedIsKept
    <2>2. s \in Stats /\ h \in Hours
        BY <1>3, StatsAssumption
    <2>3. CASE s = stat /\ h = currently_filled
        BY <2>1, <2>3
    <2>4. CASE ~(s = stat /\ h = currently_filled)
        BY <2>1, <2>2, <2>4 DEF OneCell
    <2> QED BY <2>3, <2>4
<1>5. last_successful_fill(stat) < currently_filled
    <2>1. STARTED # DONE
        BY DEF STARTED, DONE
    <2> QED BY <1>1, <2>1, EndsOf DEF last_successful_fill, Hours
<1>6. FilledIsExact'
    <2> SUFFICES ASSUME NEW s \in Stats, NEW h \in Ends[s],
                        h <= last_successful_fill(s), <<s, h>> \notin late
                 PROVE  Exact(s, h)'
        BY <1>2 DEF FilledIsExact
    <2>1. Exact(s, h)
        BY DEF IInv, FilledIsExact
    <2>2. ~(s = stat /\ h = currently_filled)
        <3>1. last_successful_fill(stat) \in Hours
            BY <1>1, LastFill DEF IInv
        <3> QED BY <1>1, <1>5, <3>1 DEF Hours
    <2> QED BY <1>3, <2>1, <2>2 DEF Exact, OneCell
<1>7. NoneAhead'
    <2> SUFFICES ASSUME NEW s \in Stats, NEW h \in Ends[s], FillState[s].end_time < h
                 PROVE  Unfilled(s, h)'
        BY DEF NoneAhead
    <2>1. Unfilled(s, h)
        BY DEF IInv, NoneAhead
    <2>2. ~(s = stat /\ h = currently_filled)
        BY <1>1 DEF Hours
    <2> QED BY <1>3, <2>1, <2>2 DEF Unfilled, OneCell
<1> QED BY <1>2, <1>4, <1>6, <1>7 DEF TablesKept

LEMMA DeleteNext ==
    ASSUME IInv, do_delete_counts_at_hour
    PROVE  TablesKept' /\ Stages'
<1>1. /\ stat \in Stats /\ currently_filled \in Hours /\ Cleared /\ StartedNow
      /\ pc = "undo" /\ pc' = "undo"
    BY CurrentInterval DEF do_delete_counts_at_hour, IInv, Stages
<1>2. PICK table \in undo :
        /\ undo' = undo \ {table}
        /\ UserCount' = IF table = "UserCount" THEN Clear(UserCount) ELSE UserCount
        /\ RealmCount' = IF table = "RealmCount" THEN Clear(RealmCount) ELSE RealmCount
        /\ InstallationCount' = IF table = "InstallationCount"
                                THEN Clear(InstallationCount) ELSE InstallationCount
    BY DEF do_delete_counts_at_hour
<1>3. UserCount \in Counts /\ RealmCount \in Counts /\ InstallationCount \in Counts
    BY DEF IInv, TypeOK
<1>4. /\ \A r \in Stats, g \in Hours :
            UserCount'[r][g] =
                IF table = "UserCount" /\ r = stat /\ g = currently_filled
                THEN 0 ELSE UserCount[r][g]
      /\ \A r \in Stats, g \in Hours :
            RealmCount'[r][g] =
                IF table = "RealmCount" /\ r = stat /\ g = currently_filled
                THEN 0 ELSE RealmCount[r][g]
      /\ \A r \in Stats, g \in Hours :
            InstallationCount'[r][g] =
                IF table = "InstallationCount" /\ r = stat /\ g = currently_filled
                THEN 0 ELSE InstallationCount[r][g]
    BY <1>1, <1>2, <1>3, Clearing
<1>5. OneCell
    BY <1>4 DEF OneCell
<1>6. UNCHANGED <<facts, late, FillState, stat, currently_filled, fill_to_time>>
    BY DEF do_delete_counts_at_hour
<1>7. table \in Deleted(stat)
    BY <1>1, <1>2 DEF Cleared
<1>8. stat \in LoggingStats =>
        IF stat \in UserStats
        THEN UserCount'[stat][currently_filled] = UserCount[stat][currently_filled]
        ELSE RealmCount'[stat][currently_filled] = RealmCount[stat][currently_filled]
    BY <1>1, <1>4, <1>7 DEF Deleted
<1>9. TablesKept'
    BY <1>1, <1>5, <1>6, <1>8, Elsewhere
<1>10. StartedNow'
    BY <1>1, <1>6 DEF StartedNow
<1>11. Cleared'
    <2>1. undo' \subseteq Deleted(stat)'
        BY <1>1, <1>2, <1>6 DEF Cleared, Deleted
    <2> SUFFICES ASSUME NEW cleared \in Deleted(stat) \ undo'
                 PROVE  /\ cleared = "UserCount" => UserCount'[stat][currently_filled] = 0
                        /\ cleared = "RealmCount" => RealmCount'[stat][currently_filled] = 0
                        /\ cleared = "InstallationCount" =>
                                InstallationCount'[stat][currently_filled] = 0
        BY <1>6, <2>1 DEF Cleared, Deleted
    <2>2. CASE cleared = table
        BY <1>1, <1>4, <2>2
    <2>3. CASE cleared \in Deleted(stat) \ undo
        BY <1>1, <1>4, <2>3 DEF Cleared
    <2> QED BY <1>2, <2>2, <2>3
<1> QED BY <1>1, <1>9, <1>10, <1>11 DEF Stages, Filling

(* What a query of a pulled statistic finds is right.                      *)
LEMMA CollectedIsExact ==
    ASSUME IInv, pc = "pull"
    PROVE  Collected(stat, currently_filled) = facts[stat][currently_filled]
<1>1. stat \in Stats /\ currently_filled \in Ends[stat] /\ currently_filled \in Hours
    BY CurrentInterval DEF Filling
<1>2. /\ currently_filled <= fill_to_time
      /\ \A d \in dependencies[stat] : fill_to_time <= last_successful_fill(d)
    BY DEF IInv, Stages, Filling
<1>3. ASSUME NEW d \in dependencies[stat]
      PROVE  UserCount[d][currently_filled] = facts[d][currently_filled]
    <2>1. d \in Stats /\ d \in UserStats /\ d \notin LoggingStats
        BY <1>1, StatsAssumption
    <2>2. currently_filled \in Ends[d]
        BY <1>1, DependenciesAssumption
    <2>3. last_successful_fill(d) \in Hours /\ fill_to_time \in Hours
        BY <2>1, LastFill DEF IInv, TypeOK
    <2>4. currently_filled <= last_successful_fill(d)
        BY <1>1, <1>2, <2>3 DEF Hours
    <2>5. <<d, currently_filled>> \notin late
        BY <2>1 DEF IInv, TypeOK
    <2> QED BY <2>1, <2>2, <2>4, <2>5 DEF IInv, FilledIsExact, Exact
<1> QED BY <1>3 DEF Collected

(* The stages of Filling share the start of the interval.                  *)
LEMMA StillFilling ==
    ASSUME IInv, pc \in Filling,
           UNCHANGED <<FillState, stat, currently_filled, fill_to_time>>
    PROVE  /\ StartedNow' /\ currently_filled' <= fill_to_time'
           /\ \A d \in dependencies[stat'] : fill_to_time' <= last_successful_fill(d)'
BY DEF IInv, Stages, StartedNow, Filling, last_successful_fill

LEMMA PullNext ==
    ASSUME IInv, Pull
    PROVE  TablesKept' /\ Stages'
<1> DEFINE n == IF stat \in LoggingStats THEN 0 ELSE Collected(stat, currently_filled)
<1>1. /\ stat \in Stats /\ currently_filled \in Hours
      /\ currently_filled \in Ends[stat]
      /\ Unfilled(stat, currently_filled) /\ pc = "pull"
    BY CurrentInterval DEF Pull, IInv, Stages, Filling
<1>2. /\ UserCount \in Counts /\ RealmCount \in Counts
      /\ UserCount[stat][currently_filled] \in Nat
      /\ RealmCount[stat][currently_filled] \in Nat
      /\ facts[stat][currently_filled] \in Nat
    BY <1>1, CellsAreNat DEF IInv, TypeOK
<1>3. n \in Nat /\ (stat \notin LoggingStats => n = facts[stat][currently_filled])
      /\ (stat \in LoggingStats => n = 0)
    BY <1>1, <1>2, CollectedIsExact
<1>4. /\ UserCount' = IF stat \in UserStats
                      THEN Add(UserCount, stat, currently_filled, n) ELSE UserCount
      /\ RealmCount' = IF stat \notin UserStats
                       THEN Add(RealmCount, stat, currently_filled, n) ELSE RealmCount
      /\ pc' = IF stat \in UserStats THEN "realm" ELSE "installation"
      /\ UNCHANGED <<facts, late, FillState, stat, currently_filled, fill_to_time,
                     InstallationCount>>
    BY DEF Pull, localVars
<1> HIDE DEF n
<1>5. /\ \A r \in Stats, g \in Hours :
            UserCount'[r][g] =
                IF stat \in UserStats /\ r = stat /\ g = currently_filled
                THEN UserCount[stat][currently_filled] + n ELSE UserCount[r][g]
      /\ \A r \in Stats, g \in Hours :
            RealmCount'[r][g] =
                IF stat \notin UserStats /\ r = stat /\ g = currently_filled
                THEN RealmCount[stat][currently_filled] + n ELSE RealmCount[r][g]
    <2>1. \A r \in Stats, g \in Hours :
            Add(UserCount, stat, currently_filled, n)[r][g] =
                IF r = stat /\ g = currently_filled
                THEN UserCount[stat][currently_filled] + n ELSE UserCount[r][g]
        BY <1>1, <1>2, <1>3, Addition
    <2>2. \A r \in Stats, g \in Hours :
            Add(RealmCount, stat, currently_filled, n)[r][g] =
                IF r = stat /\ g = currently_filled
                THEN RealmCount[stat][currently_filled] + n ELSE RealmCount[r][g]
        BY <1>1, <1>2, <1>3, Addition
    <2>3. CASE stat \in UserStats
        BY <1>4, <2>1, <2>3
    <2>4. CASE stat \notin UserStats
        BY <1>4, <2>2, <2>4
    <2> QED BY <2>3, <2>4
<1>6. OneCell
    BY <1>4, <1>5 DEF OneCell
<1>7. stat \in LoggingStats =>
        /\ UserCount'[stat][currently_filled] = UserCount[stat][currently_filled]
        /\ RealmCount'[stat][currently_filled] = RealmCount[stat][currently_filled]
    BY <1>1, <1>2, <1>3, <1>5
<1>8. TablesKept'
    BY <1>1, <1>4, <1>6, <1>7, Elsewhere DEF Filling
<1>9. /\ StartedNow' /\ currently_filled' <= fill_to_time'
      /\ \A d \in dependencies[stat'] : fill_to_time' <= last_successful_fill(d)'
    BY <1>1, <1>4, StillFilling DEF Filling
<1>10. InstallationCount'[stat][currently_filled] = 0
    BY <1>1, <1>4 DEF Unfilled
<1>11. stat \in LoggingStats =>
        IF stat \in UserStats
        THEN UserCount[stat][currently_filled] = facts[stat][currently_filled]
        ELSE RealmCount[stat][currently_filled] = facts[stat][currently_filled]
    BY <1>1 DEF IInv, LoggedIsKept
<1>12. CASE stat \in UserStats
    <2>1. UserCount'[stat][currently_filled] = facts[stat][currently_filled]
        <3>1. CASE stat \in LoggingStats
            BY <1>7, <1>11, <1>12, <3>1
        <3>2. CASE stat \notin LoggingStats
            BY <1>1, <1>2, <1>3, <1>5, <1>12, <3>2 DEF Unfilled
        <3> QED BY <3>1, <3>2
    <2>2. RealmCount'[stat][currently_filled] = 0
        BY <1>1, <1>5, <1>12 DEF Unfilled
    <2>3. Pulled'
        BY <1>4, <1>10, <2>1 DEF Pulled
    <2> QED BY <1>4, <1>8, <1>9, <1>12, <2>2, <2>3 DEF Stages, Filling
<1>13. CASE stat \notin UserStats
    <2>1. RealmCount'[stat][currently_filled] = facts[stat][currently_filled]
        <3>1. CASE stat \in LoggingStats
            BY <1>7, <1>11, <1>13, <3>1
        <3>2. CASE stat \notin LoggingStats
            BY <1>1, <1>2, <1>3, <1>5, <1>13, <3>2 DEF Unfilled
        <3> QED BY <3>1, <3>2
    <2>2. Pulled'
        BY <1>4, <1>10, <1>13 DEF Pulled
    <2> QED BY <1>4, <1>8, <1>9, <1>13, <2>1, <2>2 DEF Stages, Filling
<1> QED BY <1>12, <1>13

LEMMA AggregateRealmNext ==
    ASSUME IInv, AggregateRealm
    PROVE  TablesKept' /\ Stages'
<1>1. /\ stat \in Stats /\ currently_filled \in Hours /\ stat \in UserStats
      /\ Pulled /\ RealmCount[stat][currently_filled] = 0 /\ pc = "realm"
    BY CurrentInterval DEF AggregateRealm, IInv, Stages, Filling
<1>2. RealmCount \in Counts /\ UserCount[stat][currently_filled] \in Nat
    BY <1>1, CellsAreNat DEF IInv, TypeOK
<1>3. /\ RealmCount' = Add(RealmCount, stat, currently_filled,
                           UserCount[stat][currently_filled])
      /\ pc' = "installation"
      /\ UNCHANGED <<facts, late, FillState, stat, currently_filled, fill_to_time,
                     UserCount, InstallationCount>>
    BY DEF AggregateRealm, localVars
<1>4. \A r \in Stats, g \in Hours :
        RealmCount'[r][g] =
            IF r = stat /\ g = currently_filled
            THEN RealmCount[stat][currently_filled] + UserCount[stat][currently_filled]
            ELSE RealmCount[r][g]
    BY <1>1, <1>2, <1>3, Addition
<1>5. OneCell
    BY <1>3, <1>4 DEF OneCell
<1>6. TablesKept'
    BY <1>1, <1>3, <1>5, Elsewhere DEF Filling
<1>7. /\ StartedNow' /\ currently_filled' <= fill_to_time'
      /\ \A d \in dependencies[stat'] : fill_to_time' <= last_successful_fill(d)'
    BY <1>1, <1>3, StillFilling DEF Filling
<1>8. RealmCount'[stat][currently_filled] = facts[stat][currently_filled]
    BY <1>1, <1>2, <1>4 DEF Pulled
<1>9. Pulled'
    BY <1>1, <1>3 DEF Pulled
<1> QED BY <1>3, <1>6, <1>7, <1>8, <1>9 DEF Stages, Filling

LEMMA AggregateInstallationNext ==
    ASSUME IInv, AggregateInstallation
    PROVE  TablesKept' /\ Stages'
<1>1. /\ stat \in Stats /\ currently_filled \in Hours /\ Pulled
      /\ <<stat, currently_filled>> \notin late =>
            RealmCount[stat][currently_filled] = facts[stat][currently_filled]
      /\ pc = "installation"
    BY CurrentInterval DEF AggregateInstallation, IInv, Stages, Filling
<1>2. InstallationCount \in Counts /\ RealmCount[stat][currently_filled] \in Nat
    BY <1>1, CellsAreNat DEF IInv, TypeOK
<1>3. /\ InstallationCount' = Add(InstallationCount, stat, currently_filled,
                                  RealmCount[stat][currently_filled])
      /\ pc' = "filled"
      /\ UNCHANGED <<facts, late, FillState, stat, currently_filled, fill_to_time,
                     UserCount, RealmCount>>
    BY DEF AggregateInstallation, localVars
<1>4. \A r \in Stats, g \in Hours :
        InstallationCount'[r][g] =
            IF r = stat /\ g = currently_filled
            THEN InstallationCount[stat][currently_filled]
                    + RealmCount[stat][currently_filled]
            ELSE InstallationCount[r][g]
    <2> DEFINE sum == RealmCount[stat][currently_filled]
    <2>1. InstallationCount' = Add(InstallationCount, stat, currently_filled, sum)
        BY <1>3
    <2>3. /\ InstallationCount \in Counts /\ sum \in Nat
          /\ stat \in Stats /\ currently_filled \in Hours
        BY <1>1, <1>2
    <2> HIDE DEF sum
    <2>2. \A r \in Stats, g \in Hours :
            Add(InstallationCount, stat, currently_filled, sum)[r][g] =
                IF r = stat /\ g = currently_filled
                THEN InstallationCount[stat][currently_filled] + sum
                ELSE InstallationCount[r][g]
        BY <2>3, Addition
    <2> QED BY <2>1, <2>2 DEF sum
<1>5. OneCell
    BY <1>3, <1>4 DEF OneCell
<1>6. TablesKept'
    BY <1>1, <1>3, <1>5, Elsewhere DEF Filling
<1>7. /\ StartedNow' /\ currently_filled' <= fill_to_time'
      /\ \A d \in dependencies[stat'] : fill_to_time' <= last_successful_fill(d)'
    BY <1>1, <1>3, StillFilling DEF Filling
<1>8. InstallationCount'[stat][currently_filled] = RealmCount[stat][currently_filled]
    BY <1>1, <1>2, <1>4 DEF Pulled
<1>9. <<stat, currently_filled>> \notin late => Exact(stat, currently_filled)'
    BY <1>1, <1>3, <1>8 DEF Exact, Pulled
<1> QED BY <1>3, <1>6, <1>7, <1>9 DEF Stages, Filling

-----------------------------------------------------------------------------
(* The steps that change what there is to count                            *)

LEMMA FillsUpToNow ==
    ASSUME TypeOK, NEW s \in Stats, NEW h \in Hours, h <= last_successful_fill(s)
    PROVE  h <= now
<1>1. /\ last_successful_fill(s) \in Hours /\ now \in Hours
      /\ last_successful_fill(s) <= FillState[s].end_time
    BY LastFill DEF TypeOK
<1>2. FillState[s].end_time \in Hours /\ FillState[s].end_time <= now
    BY DEF TypeOK
<1> QED BY <1>1, <1>2 DEF Hours

LEMMA HappensNext ==
    ASSUME IInv, Happens
    PROVE  TablesKept' /\ Stages'
<1>1. PICK s \in Stats \ LoggingStats : \E h \in Ends[s] :
        now < h /\ facts' = Add(facts, s, h, 1)
    BY DEF Happens
<1>2. PICK h \in Ends[s] : now < h /\ facts' = Add(facts, s, h, 1)
    BY <1>1
<1>3. h \in Hours /\ facts \in Counts /\ 1 \in Nat /\ now \in Hours
    BY EndsOf DEF IInv, TypeOK
<1>4. \A r \in Stats, g \in Hours :
        facts'[r][g] = IF r = s /\ g = h THEN facts[s][h] + 1 ELSE facts[r][g]
    BY <1>2, <1>3, Addition
<1>5. \A r \in Stats, g \in Hours :
        g <= now \/ r \in LoggingStats => facts'[r][g] = facts[r][g]
    BY <1>1, <1>2, <1>3, <1>4 DEF Hours
<1>6. UNCHANGED <<late, UserCount, RealmCount, InstallationCount, FillState, pc, stat,
                  fill_to_time, currently_filled, undo>>
    BY DEF Happens, tableVars, localVars
<1>7. \A r \in Stats : Ends[r] \subseteq Hours
    BY EndsOf
<1>8. \A r : last_successful_fill(r)' = last_successful_fill(r)
    BY <1>6 DEF last_successful_fill
<1>9. LoggedIsKept'
    BY <1>5, <1>6, <1>7, StatsAssumption DEF IInv, LoggedIsKept
<1>10. FilledIsExact'
    <2> SUFFICES ASSUME NEW r \in Stats, NEW g \in Ends[r],
                        g <= last_successful_fill(r), <<r, g>> \notin late
                 PROVE  Exact(r, g)'
        BY <1>6, <1>8 DEF FilledIsExact
    <2>1. g \in Hours /\ g <= now
        BY <1>7, FillsUpToNow DEF IInv
    <2>2. Exact(r, g)
        BY DEF IInv, FilledIsExact
    <2> QED BY <1>5, <1>6, <2>1, <2>2 DEF Exact
<1>11. NoneAhead'
    BY <1>6 DEF IInv, NoneAhead, Unfilled
<1>12. Stages'
    <2>1. CASE pc \in Filling
        <3>1. /\ stat \in Stats /\ currently_filled \in Hours
              /\ currently_filled <= now
            BY <2>1, CurrentInterval
        <3>2. facts'[stat][currently_filled] = facts[stat][currently_filled]
            BY <1>5, <3>1
        <3> QED BY <1>6, <1>8, <3>2
                DEF IInv, Stages, StartedNow, Cleared, Pulled, Unfilled, Exact
    <2>2. CASE pc \notin Filling
        BY <1>6, <1>8, <2>2 DEF IInv, Stages, StartedNow, Cleared, Filling
    <2> QED BY <2>1, <2>2
<1> QED BY <1>9, <1>10, <1>11, <1>12 DEF TablesKept

LEMMA LoggingNext ==
    ASSUME IInv, do_increment_logging_stat
    PROVE  TablesKept' /\ Stages'
<1>1. TypeOK
    BY DEF IInv
<1>2. /\ late \subseteq late'
      /\ \A r \in Stats, g \in Hours :
            /\ r \notin UserStats \/ r \notin LoggingStats =>
                    UserCount'[r][g] = UserCount[r][g]
            /\ r \in UserStats \/ r \notin LoggingStats =>
                    RealmCount'[r][g] = RealmCount[r][g]
      /\ \A r \in Stats, g \in Hours : g <= now /\ <<r, g>> \notin late' =>
            /\ facts'[r][g] = facts[r][g]
            /\ UserCount'[r][g] = UserCount[r][g]
            /\ RealmCount'[r][g] = RealmCount[r][g]
      /\ \A r \in Stats, g \in Hours :
            /\ r \notin LoggingStats => facts'[r][g] = facts[r][g]
            /\ r \in LoggingStats /\ r \in UserStats /\ UserCount[r][g] = facts[r][g]
                => UserCount'[r][g] = facts'[r][g]
            /\ r \in LoggingStats /\ r \notin UserStats /\ RealmCount[r][g] = facts[r][g]
                => RealmCount'[r][g] = facts'[r][g]
    BY <1>1, Logging
<1>3. UNCHANGED <<InstallationCount, FillState, pc, stat,
                  fill_to_time, currently_filled, undo>>
    BY DEF do_increment_logging_stat, localVars
<1>4. \A r \in Stats : Ends[r] \subseteq Hours
    BY EndsOf
<1>5. \A r : last_successful_fill(r)' = last_successful_fill(r)
    BY <1>3 DEF last_successful_fill
<1>6. LoggedIsKept'
    BY <1>2, <1>4, StatsAssumption DEF IInv, LoggedIsKept
<1>7. FilledIsExact'
    <2> SUFFICES ASSUME NEW r \in Stats, NEW g \in Ends[r],
                        g <= last_successful_fill(r), <<r, g>> \notin late'
                 PROVE  Exact(r, g)'
        BY <1>5 DEF FilledIsExact
    <2>1. g \in Hours /\ g <= now
        BY <1>1, <1>4, FillsUpToNow
    <2>2. Exact(r, g)
        BY <1>2 DEF IInv, FilledIsExact
    <2> QED BY <1>2, <1>3, <2>1, <2>2 DEF Exact
<1>8. \A r \in Stats, g \in Hours : Unfilled(r, g) => Unfilled(r, g)'
    BY <1>2, <1>3 DEF Unfilled
<1>9. NoneAhead'
    BY <1>3, <1>4, <1>8 DEF IInv, NoneAhead
<1>10. CASE pc \in Filling
    <2>1. /\ stat \in Stats /\ currently_filled \in Hours /\ currently_filled <= now
          /\ currently_filled \in Ends[stat]
        BY <1>10, CurrentInterval
    <2>2. /\ StartedNow' /\ currently_filled' <= fill_to_time'
          /\ \A d \in dependencies[stat'] : fill_to_time' <= last_successful_fill(d)'
        BY <1>3, <1>10, StillFilling
    <2>3. pc = "pull" => Unfilled(stat, currently_filled)'
        BY <1>3, <1>8, <2>1 DEF IInv, Stages
    <2>4. Pulled => Pulled'
        <3>1. ASSUME stat \in UserStats,
                     UserCount[stat][currently_filled] = facts[stat][currently_filled]
              PROVE  UserCount'[stat][currently_filled] = facts'[stat][currently_filled]
            BY <1>2, <2>1, <3>1
        <3> QED BY <1>3, <3>1 DEF Pulled
    <2>5. pc = "realm" =>
            /\ Pulled' /\ stat' \in UserStats
            /\ RealmCount'[stat'][currently_filled'] = 0
        BY <1>2, <1>3, <2>1, <2>4 DEF IInv, Stages
    <2>6. pc = "installation" =>
            /\ Pulled'
            /\ <<stat, currently_filled>> \notin late' =>
                RealmCount'[stat][currently_filled] = facts'[stat][currently_filled]
        BY <1>2, <2>1, <2>4 DEF IInv, Stages
    <2>7. pc = "filled" /\ <<stat, currently_filled>> \notin late' =>
            Exact(stat, currently_filled)'
        BY <1>2, <1>3, <2>1 DEF IInv, Stages, Exact
    <2>8. Stages'
        BY <1>3, <1>10, <2>2, <2>3, <2>5, <2>6, <2>7 DEF Stages, Filling
    <2> QED BY <1>6, <1>7, <1>9, <2>8 DEF TablesKept
<1>11. CASE pc = "undo"
    <2>1. stat \in Stats /\ currently_filled \in Hours /\ Cleared /\ StartedNow
        BY <1>11, CurrentInterval DEF IInv, Stages
    <2>2. \A table \in Deleted(stat) \ undo :
            /\ table = "UserCount" => UserCount'[stat][currently_filled] = 0
            /\ table = "RealmCount" => RealmCount'[stat][currently_filled] = 0
            /\ table = "InstallationCount" =>
                    InstallationCount'[stat][currently_filled] = 0
        BY <1>2, <1>3, <2>1 DEF Cleared, Deleted, Tables
    <2>3. Cleared' /\ StartedNow'
        BY <1>3, <2>1, <2>2 DEF Cleared, StartedNow, Deleted
    <2>4. Stages'
        BY <1>3, <1>11, <2>3 DEF Stages, Filling
    <2> QED BY <1>6, <1>7, <1>9, <2>4 DEF TablesKept
<1>12. CASE pc \notin Filling \cup {"undo"}
    <2>1. Stages'
        BY <1>3, <1>5, <1>12 DEF IInv, Stages, Filling
    <2> QED BY <1>6, <1>7, <1>9, <2>1 DEF TablesKept
<1> QED BY <1>10, <1>11, <1>12

-----------------------------------------------------------------------------
(* The theorems                                                            *)

LEMMA InvInit == Init => IInv
<1> SUFFICES ASSUME Init PROVE IInv
    OBVIOUS
<1>1. TypeOK
    BY TypeInit
<1>2. \A s \in Stats : \A h \in Hours :
        /\ facts[s][h] = 0 /\ UserCount[s][h] = 0 /\ RealmCount[s][h] = 0
        /\ InstallationCount[s][h] = 0
    BY DEF Init, Count0
<1>3. \A s \in Stats : Ends[s] \subseteq Hours
    BY EndsOf
<1>4. LoggedIsKept
    BY <1>2, <1>3, StatsAssumption DEF LoggedIsKept
<1>5. FilledIsExact /\ NoneAhead
    BY <1>2, <1>3 DEF FilledIsExact, NoneAhead, Exact, Unfilled
<1>6. Stages
    BY DEF Init, Stages, Filling
<1> QED BY <1>1, <1>4, <1>5, <1>6 DEF IInv

LEMMA InvNext == IInv /\ [Next]_vars => IInv'
<1> SUFFICES ASSUME IInv, [Next]_vars PROVE IInv'
    OBVIOUS
<1>1. TypeOK'
    BY TypeNext
<1>2. TablesKept' /\ Stages'
    BY QuietNext, BeginNext, LimitNext, LoopNext, UndoDoneNext, FilledNext, DeleteNext,
       PullNext, AggregateRealmNext, AggregateInstallationNext, HappensNext, LoggingNext
    DEF Next, process_count_stat
<1> QED BY <1>1, <1>2 DEF IInv, TablesKept

LEMMA Invariance == Spec => []IInv
BY InvInit, InvNext, PTL DEF Spec

(* Type correctness of the analytics job and of the tables it fills, for   *)
(* any statistics, dependencies and number of runs that are killed.        *)
THEOREM TypeCorrect == Spec => []TypeOK
<1>1. IInv => TypeOK
    BY DEF IInv
<1> QED BY Invariance, <1>1, PTL

(* What process_count_stat has recorded as filled is counted exactly once  *)
(* in every table, wherever earlier runs were killed.                      *)
THEOREM FilledExact == Spec => []FilledIsExact
<1>1. IInv => FilledIsExact
    BY DEF IInv
<1> QED BY Invariance, <1>1, PTL

(* No INSERT of process_count_stat meets rows of an earlier attempt.       *)
THEOREM NothingIsAhead == Spec => []NothingAhead
<1>1. IInv => NothingAhead
    BY DEF IInv, NoneAhead, NothingAhead, Stages
<1> QED BY Invariance, <1>1, PTL

(* do_delete_counts_at_hour and the rest of the job never lose what        *)
(* do_increment_logging_stat has logged.                                   *)
THEOREM LoggedKept == Spec => []LoggedIsKept
<1>1. IInv => LoggedIsKept
    BY DEF IInv
<1> QED BY Invariance, <1>1, PTL
=============================================================================
