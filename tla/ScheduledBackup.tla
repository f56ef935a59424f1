---------------------------- MODULE ScheduledBackup ---------------------------
(***************************************************************************)
(* The ScheduledBackup controller: one schedule, the Backups it creates,   *)
(* which run on their own as OneShotJob says, its status with the history  *)
(* and the counters, and the retention cleanup.  Users edit the schedule   *)
(* and delete Backups; the operator is interrupted between any two calls.  *)
(***************************************************************************)
EXTENDS Integers, Sequences, FiniteSets, JobPhases

CONSTANTS
    Period,      \* the cron expression is due at the multiples of Period
    MaxTime,     \* bound on the clock
    MaxCount,    \* retention.maxCount, 0 for unlimited
    MaxAge,      \* retention.maxAge
    MaxHistory,  \* maxHistoryLen
    MaxEdits,    \* bound on edits of the schedule and deletions by users
    MaxFaults,   \* bound on failing calls and restarts of the operator
    MaxOutdated  \* bound on Reconciles that start from an outdated cache

ASSUME ScheduleAssumption ==
    /\ {Period, MaxHistory} \subseteq Nat \ {0}
    /\ {MaxTime, MaxCount, MaxAge, MaxEdits, MaxFaults, MaxOutdated} \subseteq Nat

VARIABLES
    clock,    \* the time, in ticks
    sb,       \* the ScheduledBackup: mode of its spec, and its status
    older,    \* the earlier versions the informer cache may hold, oldest first
    backups,  \* backups[t]: the phase of the Backup created, and so named, at t
    pc,       \* the next round trip of the running Reconcile
    mine,     \* its copy of the schedule
    now,      \* the time it has read
    todo,     \* toDelete: the Backups cleanupRetention has still to delete
    edits,    \* edits and deletions by users so far
    faults,   \* faults so far
    outdated  \* history: how many Reconciles started from an outdated cache

resource  == <<sb, older>>
reconcile == <<pc, mine, now, todo>>
bounds    == <<edits, faults, outdated>>
vars      == <<clock, resource, backups, reconcile, bounds>>

Time == 0..MaxTime
Name == 1..MaxTime
None == 0            \* no active Backup; no Backup is created at time 0

(* What the spec makes Reconcile do: run, pause, or reject the expression   *)
(* or the template.                                                         *)
Mode   == {"Active", "Suspended", "InvalidSchedule", "TemplateError"}
Reason == (Mode \ {"Active"}) \cup {"None", "BackupCompleted", "BackupFailed"}

Schedule ==
    [mode : Mode, active : Name \cup {None}, last : Time, next : Nat,
     total : Nat, successful : Nat, failed : Nat,
     history : Seq(Name), reason : Reason]

New == [mode |-> "Active", active |-> None, last |-> 0, next |-> 0, total |-> 0,
        successful |-> 0, failed |-> 0, history |-> <<>>, reason |-> "None"]

TypeOK ==
    /\ clock \in Time
    /\ sb \in Schedule /\ Len(sb.history) <= MaxHistory
    /\ older \in Seq(Schedule)
    /\ backups \in [Name -> Phase \cup {"Never"}]
    /\ pc \in {"idle", "condition", "active", "due", "create", "record", "list", "delete"}
    /\ mine \in Schedule
    /\ now \in Time
    /\ todo \subseteq Name
    /\ edits \in 0..MaxEdits
    /\ faults \in 0..MaxFaults
    /\ outdated \in 0..MaxOutdated

Init ==
    /\ clock = 0
    /\ sb = New
    /\ older = <<>>
    /\ backups = [t \in Name |-> "Never"]
    /\ pc = "idle"
    /\ mine = New
    /\ now = 0
    /\ todo = {}
    /\ edits = 0
    /\ faults = 0
    /\ outdated = 0

------------------------------------------------------------------------------
(* sched.Next: the first due time after t. *)
NextTime(t) == ((t \div Period) + 1) * Period

Fault == faults < MaxFaults /\ faults' = faults + 1

Return == pc' = "idle" /\ mine' = New /\ now' = 0 /\ todo' = {}

(* A merge patch: it overwrites the fields that differ from the copy it was *)
(* made from.  The watch brings the new version to the cache later.         *)
Patch(new) == sb' = new /\ older' = IF new = sb THEN older ELSE Append(older, sb)

(* Mutant: the history grows without limit. *)
KeepAll(h) == h

(* The history keeps its last maxHistoryLen entries. *)
Truncate(h) ==
    IF Len(h) > MaxHistory THEN SubSeq(h, Len(h) - MaxHistory + 1, Len(h)) ELSE h

------------------------------------------------------------------------------
(* Reconcile.                                                               *)

(* The cache holds the current version or one that is not older than what it *)
(* held before: Reconcile cannot tell, and goes on with what it finds.      *)
Fetch ==
    /\ pc = "idle"
    /\ \/ mine' = sb /\ older' = <<>> /\ UNCHANGED outdated
       \/ \E i \in DOMAIN older :
             /\ outdated < MaxOutdated /\ outdated' = outdated + 1
             /\ mine' = older[i] /\ older' = SubSeq(older, i, Len(older))
    /\ pc' = CASE mine'.mode \in {"Suspended", "InvalidSchedule"} -> "condition"
               [] mine'.mode \notin {"Suspended", "InvalidSchedule"} /\ mine'.active # None -> "active"
               [] OTHER -> "due"
    /\ UNCHANGED <<sb, now, todo, clock, backups, edits, faults>>

SetCondition ==
    /\ pc = "condition"
    /\ Patch([sb EXCEPT !.reason = IF mine.reason = mine.mode THEN @ ELSE mine.mode])
    /\ Return
    /\ UNCHANGED <<clock, backups, bounds>>

(* Mutants: a completed Backup stays active; a deleted one does. *)
OnCompletedActive ==
    Patch([sb EXCEPT !.successful = mine.successful + 1,
                     !.history = Truncate(Append(mine.history, mine.active)),
                     !.reason = "BackupCompleted"])
ClearNothing == UNCHANGED resource

(* onBackupCompleted, onBackupFailed: counted and moved to the history. *)
OnCompleted ==
    Patch([sb EXCEPT !.active = None, !.successful = mine.successful + 1,
                     !.history = Truncate(Append(mine.history, mine.active)),
                     !.reason = "BackupCompleted"])

OnFailed ==
    Patch([sb EXCEPT !.active = None, !.failed = mine.failed + 1,
                     !.history = Truncate(Append(mine.history, mine.active)),
                     !.reason = "BackupFailed"])

ClearActive == Patch([sb EXCEPT !.active = None])

(* The active Backup: cleanup follows only when it has completed. *)
CheckActive ==
    /\ pc = "active"
    /\ LET phase == backups[mine.active] IN
       \/ /\ phase = "Completed" /\ OnCompleted
          /\ pc' = "list"
          /\ UNCHANGED <<mine, now, todo>>
       \/ phase = "Failed" /\ OnFailed /\ Return
       \/ phase = "Absent" /\ ClearActive /\ Return
       \/ phase \in {"Pending", "Running"} /\ UNCHANGED resource /\ Return
    /\ UNCHANGED <<clock, backups, bounds>>

(* NextScheduleTime: the answer to this patch is the current version; an     *)
(* error of it is ignored.                                                  *)
SetNextTime(copy) ==
    LET next == NextTime(mine.last)
        new  == [sb EXCEPT !.next = next]
    IN  \/ mine.next = next /\ copy = mine /\ UNCHANGED <<resource, faults>>
        \/ mine.next # next /\ copy = new /\ Patch(new) /\ UNCHANGED faults
        \/ mine.next # next /\ copy = mine /\ Fault /\ UNCHANGED resource

Due == NextTime(mine.last) <= clock

(* Steps 5 and 6: the template is rendered only when it is time. *)
CheckDue ==
    /\ pc = "due"
    /\ \E copy \in {mine, [sb EXCEPT !.next = NextTime(mine.last)]} :
          /\ SetNextTime(copy)
          /\ \/ ~Due /\ Return
             \/ /\ Due
                /\ pc' = IF copy.mode = "TemplateError" THEN "condition" ELSE "create"
                /\ mine' = copy
                /\ now' = clock
                /\ UNCHANGED todo
    /\ UNCHANGED <<clock, backups, edits, outdated>>

(* The name is the time to the second; a Backup of that name is an error. *)
Create ==
    /\ pc = "create"
    /\ \/ /\ backups[now] \in {"Never", "Absent"}
          /\ backups' = [backups EXCEPT ![now] = "Pending"]
          /\ pc' = "record"
          /\ UNCHANGED <<mine, now, todo>>
       \/ backups[now] \notin {"Never", "Absent"} /\ Return /\ UNCHANGED backups
    /\ UNCHANGED <<clock, resource, bounds>>

(* Mutant: the new Backup is not made the active one. *)
RecordInactive == Patch([sb EXCEPT !.last = now, !.total = mine.total + 1])

RecordCreated == Patch([sb EXCEPT !.active = now, !.last = now, !.total = mine.total + 1])

Record ==
    /\ pc = "record"
    /\ RecordCreated
    /\ Return
    /\ UNCHANGED <<clock, backups, bounds>>

------------------------------------------------------------------------------
(* cleanupRetention.                                                        *)

Completed == {t \in Name : backups[t] = "Completed"}

NewerThan(t, S) == {u \in S : u > t}

(* Mutants: one more Backup is kept; one fewer.                             *)
ExcessLate  == {t \in Completed : Cardinality(NewerThan(t, Completed)) > MaxCount}
ExcessEarly == {t \in Completed : Cardinality(NewerThan(t, Completed)) >= MaxCount - 1}

(* completed[:len-maxCount], in the order of creation. *)
Excess == {t \in Completed : Cardinality(NewerThan(t, Completed)) >= MaxCount}

Expired == {t \in Completed : clock - t > MaxAge}

List ==
    /\ pc = "list"
    /\ todo' = Expired \cup (IF MaxCount > 0 THEN Excess ELSE {})
    /\ pc' = "delete"
    /\ UNCHANGED <<mine, now, clock, resource, backups, bounds>>

(* Both lists are sorted by age, so the oldest goes first; one that is gone *)
(* already is no error.                                                     *)
Delete ==
    /\ pc = "delete"
    /\ \/ /\ todo = {}
          /\ Return
          /\ UNCHANGED backups
       \/ \E t \in todo :
             /\ NewerThan(t, todo) = todo \ {t}
             /\ backups' = [backups EXCEPT ![t] = "Absent"]
             /\ todo' = todo \ {t}
             /\ UNCHANGED <<pc, mine, now>>
    /\ UNCHANGED <<clock, resource, bounds>>

(* A call fails or the operator dies. *)
Interrupted ==
    /\ pc # "idle"
    /\ Fault
    /\ Return
    /\ UNCHANGED <<clock, resource, backups, edits, outdated>>

------------------------------------------------------------------------------
(* Around Reconcile.                                                        *)

Tick ==
    /\ clock < MaxTime
    /\ clock' = clock + 1
    /\ UNCHANGED <<resource, backups, reconcile, bounds>>

(* A Backup proceeds as OneShotJob lets it. *)
JobStep(t) ==
    /\ \/ backups[t] = "Pending" /\ \E p \in {"Running", "Failed"} : backups' = [backups EXCEPT ![t] = p]
       \/ backups[t] = "Running" /\ \E p \in Finished : backups' = [backups EXCEPT ![t] = p]
    /\ UNCHANGED <<clock, resource, reconcile, bounds>>

EditSchedule ==
    /\ edits < MaxEdits /\ edits' = edits + 1
    /\ \E m \in Mode \ {sb.mode} : Patch([sb EXCEPT !.mode = m])
    /\ UNCHANGED <<clock, backups, reconcile, faults, outdated>>

DeleteBackup(t) ==
    /\ backups[t] \notin {"Never", "Absent"}
    /\ edits < MaxEdits /\ edits' = edits + 1
    /\ backups' = [backups EXCEPT ![t] = "Absent"]
    /\ UNCHANGED <<clock, resource, reconcile, faults, outdated>>

Reconcile ==
    \/ Fetch \/ SetCondition \/ CheckActive \/ CheckDue \/ Create \/ Record
    \/ List \/ Delete \/ Interrupted

Next ==
    \/ Reconcile \/ Tick \/ EditSchedule
    \/ \E t \in Name : JobStep(t) \/ DeleteBackup(t)

Spec == Init /\ [][Next]_vars

(* A schedule that is not suspended is requeued by every Reconcile, and     *)
(* Backups finish (BackupJob's JobFinishes).                                *)
FairSpec ==
    /\ Spec
    /\ WF_vars(Reconcile)
    /\ \A t \in Name : WF_vars(JobStep(t))

------------------------------------------------------------------------------
(* Properties.                                                              *)

Unfinished(t) == backups[t] \in {"Pending", "Running"}

(* A Backup whose creation Reconcile is about to record. *)
Unrecorded == IF pc = "record" THEN {now} ELSE {}

(* The Backups this schedule has created so far.                            *)
Made == {t \in Name : backups[t] # "Never"}

(* While no Reconcile has started from an outdated cache, no Backup is       *)
(* counted twice: the history lists each once, in order, never the active   *)
(* one, the counters agree with it and with one another, and the total      *)
(* misses at most one Backup per fault ("TotalBackups is the total number   *)
(* of backups created by this schedule").                                   *)
CountedOnce ==
    LET made  == Cardinality(Made \ Unrecorded)
        ended == sb.successful + sb.failed
    IN  outdated = 0 =>
            /\ \A i, j \in DOMAIN sb.history : i < j => sb.history[i] < sb.history[j]
            /\ \A i \in DOMAIN sb.history : sb.active # None => sb.history[i] < sb.active
            /\ ended + (IF sb.active = None THEN 0 ELSE 1) <= sb.total
            /\ Len(sb.history) = IF ended < MaxHistory THEN ended ELSE MaxHistory
            /\ sb.total <= made /\ made <= sb.total + faults

(* "ActiveBackup is the name of the currently running Backup CR", and one is *)
(* created per due time: each fault and each outdated read of the schedule  *)
(* leaves at most one Backup running that is not the active one, and makes  *)
(* at most one more for a due time that has had its Backup.  None is        *)
(* created before the first due time.                                       *)
OneAtATime ==
    /\ Cardinality({t \in Name : Unfinished(t)} \ ({sb.active} \cup Unrecorded)) <= faults + outdated
    /\ Cardinality({t \in Made : \E u \in Made : u < t /\ t < NextTime(u)}) <= faults + outdated
    /\ \A t \in Made : t >= Period

(* The cleanup deletes a Backup only if it completed and is too old, or has *)
(* MaxCount newer ones (some may have been deleted since the list was read).*)
RetentionKeeps ==
    [][\A t \in Name : pc = "delete" /\ reconcile' # reconcile /\ backups'[t] # backups[t] =>
          /\ backups[t] = "Completed"
          /\ \/ clock - t > MaxAge
             \/ Cardinality({u \in NewerThan(t, Name) : backups[u] \in {"Completed", "Absent"}})
                   >= MaxCount /\ MaxCount > 0]_vars

(* "MaxCount is the maximum number of successful backups to retain": between *)
(* two runs of Reconcile only a completion not yet noticed exceeds it, and  *)
(* one Backup for each fault or outdated read, which nobody is waiting for. *)
RetentionEnforced ==
    pc = "idle" /\ MaxCount > 0 =>
        Cardinality(Completed \ {sb.active}) <= MaxCount + faults + outdated

(* A finished Backup does not stay active: again and again the schedule is   *)
(* free for the next one, unless it is edited not to run.                   *)
ActiveResolved == []<>(sb.active = None \/ sb.mode # "Active")

==============================================================================
