------------------------------- MODULE BackupJob ------------------------------
(***************************************************************************)
(* The Backup and Restore controllers: their Reconcile is the same state   *)
(* machine around BACKUP or RESTORE.  One resource, the informer cache it  *)
(* is read through, the work queue, the statements on the server, and      *)
(* events, failing calls, restarts and deletion at any point.              *)
(***************************************************************************)
EXTENDS Integers, Sequences, JobPhases

CONSTANTS
    Statements,  \* 1, or 2 for a point-in-time restore
    MaxEvents,   \* bound on Secret events, edits of the spec and deletion
    MaxFaults,   \* bound on failing calls, missing Secrets and restarts
    MaxOutdated  \* bound on Reconciles that start from an outdated cache

ASSUME JobAssumption ==
    /\ Statements \in {1, 2}
    /\ MaxEvents \in Nat
    /\ MaxFaults \in Nat
    /\ MaxOutdated \in Nat

VARIABLES
    status,      \* .status: phase, and whether the two times are set
    cache,       \* the same in the informer cache
    coming,      \* the versions on their way to the cache, oldest first
    ended,       \* history: whether it was Completed or Failed before
    queued,      \* whether the work queue holds the resource
    pc,          \* the next round trip of the running Reconcile
    mine,        \* the phase in its copy of the resource
    sent,        \* how many statements it has executed
    db,          \* how many statements the result on the server holds
    attempts,    \* history: how many Reconciles went on to the statements
    events,      \* events so far
    faults,      \* faults so far
    outdated     \* history: how many of them started from an outdated cache

resource  == <<status, cache, coming, ended>>
reconcile == <<pc, mine, sent>>
bounds    == <<events, faults, outdated>>
vars      == <<resource, queued, reconcile, db, attempts, bounds>>

Status == [phase : Phase, start : BOOLEAN, completion : BOOLEAN]

TypeOK ==
    /\ status \in Status
    /\ cache \in Status
    /\ coming \in Seq(Status)
    /\ ended \in BOOLEAN
    /\ queued \in BOOLEAN
    /\ pc \in {"idle", "fetched", "started", "execute", "failed", "executed"}
    /\ mine \in Phase
    /\ sent \in 0..Statements
    /\ db \in 0..Statements
    /\ attempts \in Nat
    /\ events \in 0..MaxEvents
    /\ faults \in 0..MaxFaults
    /\ outdated \in 0..MaxOutdated

Created == [phase |-> "Pending", start |-> FALSE, completion |-> FALSE]

(* The Create event has put the new resource in the queue. *)
Init ==
    /\ status = Created
    /\ cache = Created
    /\ coming = <<>>
    /\ ended = FALSE
    /\ queued = TRUE
    /\ pc = "idle"
    /\ mine = "Absent"
    /\ sent = 0
    /\ db = 0
    /\ attempts = 0
    /\ events = 0
    /\ faults = 0
    /\ outdated = 0

------------------------------------------------------------------------------
Fault == faults < MaxFaults /\ faults' = faults + 1
Event == events < MaxEvents /\ events' = events + 1

(* Mutants: the statements of the last attempt stay counted; an error is    *)
(* returned without the request coming back.                                *)
ReturnCounting  == pc' = "idle" /\ mine' = "Absent" /\ UNCHANGED sent
ReturnForgetful == pc' = "idle" /\ mine' = "Absent" /\ sent' = 0 /\ UNCHANGED queued

Return == pc' = "idle" /\ mine' = "Absent" /\ sent' = 0

(* Reconcile returns an error: the request comes back after the backoff. *)
ReturnError == Return /\ queued' = TRUE

(* Reconcile returns no error: the request is only there if it came meanwhile. *)
ReturnDone == Return /\ UNCHANGED queued

(* A merge patch on the status subresource, without a version check; the    *)
(* watch brings the new version to the cache later.                         *)
Patch(s) ==
    /\ status' = s
    /\ coming' = Append(coming, s)
    /\ ended' = (ended \/ s.phase \in Finished)
    /\ UNCHANGED cache

(* setBackupStatus, setRestoreStatus: the patch holds what differs from the *)
(* copy it is made from, and so no phase if that copy has phase p already.  *)
(* CompletionTime is set with Completed only.                               *)
SetPhase(p, copy) ==
    Patch([status EXCEPT !.phase = IF copy = p THEN @ ELSE p,
                         !.completion = (p = "Completed") \/ @])

(* What the server does with a statement once it has received it. *)
Executed == db' = sent + 1

------------------------------------------------------------------------------
(* Reconcile.                                                               *)

(* The resource is gone, or the job ran already. *)
Skip(p) == p \in Finished \cup {"Absent"}

(* The job is read from the cache, which may lag behind: Reconcile cannot    *)
(* tell, and goes on with what it finds.                                    *)
Fetch ==
    /\ pc = "idle" /\ queued
    /\ queued' = FALSE
    /\ \/ Skip(cache.phase) /\ UNCHANGED <<reconcile, outdated>>
       \/ /\ ~Skip(cache.phase)
          /\ pc' = "fetched" /\ mine' = cache.phase /\ UNCHANGED sent
          /\ \/ coming = <<>> /\ UNCHANGED outdated
             \/ coming # <<>> /\ outdated < MaxOutdated /\ outdated' = outdated + 1
    /\ UNCHANGED <<resource, db, attempts, events, faults>>

(* The Secret cannot be read or lacks a key. *)
CredentialsMissing ==
    /\ pc = "fetched" /\ status.phase # "Absent"
    /\ Fault
    /\ SetPhase("Failed", mine)
    /\ ReturnDone
    /\ UNCHANGED <<db, attempts, events, outdated>>

(* Connected: a job already Running goes straight to the statements.        *)
SetRunning ==
    /\ pc = "fetched"
    /\ \/ /\ mine = "Running"
          /\ pc' = "execute" /\ attempts' = attempts + 1
          /\ UNCHANGED <<resource, queued, mine, sent>>
       \/ /\ mine # "Running" /\ status.phase # "Absent"
          /\ SetPhase("Running", mine)
          /\ pc' = "started"
          /\ UNCHANGED <<queued, mine, sent, attempts>>
       \/ /\ mine # "Running" /\ status.phase = "Absent"
          /\ ReturnError
          /\ UNCHANGED <<resource, attempts>>
    /\ UNCHANGED <<db, bounds>>

(* The resource is read again and gets its StartTime; the answer to that    *)
(* patch is the current version.                                            *)
SetStartTime ==
    /\ pc = "started"
    /\ \/ /\ status.phase # "Absent" /\ cache.phase # "Absent"
          /\ \/ cache.start /\ mine' = cache.phase /\ UNCHANGED resource
             \/ ~cache.start /\ mine' = status.phase /\ Patch([status EXCEPT !.start = TRUE])
          /\ pc' = "execute" /\ attempts' = attempts + 1
          /\ UNCHANGED <<queued, sent>>
       \/ /\ status.phase = "Absent" \/ cache.phase = "Absent"
          /\ ReturnError
          /\ UNCHANGED <<resource, attempts>>
    /\ UNCHANGED <<db, bounds>>

(* Mutant: success is reported after the first of the statements. *)
EarlySuccess == TRUE

LastStatement == sent + 1 = Statements

(* BackupDatabase, RestoreDatabase, RestoreDatabaseWithMove, or the next of *)
(* the two statements of RestoreDatabasePIT.                                *)
Execute ==
    /\ pc = "execute"
    /\ Executed
    /\ sent' = sent + 1
    /\ pc' = IF LastStatement THEN "executed" ELSE "execute"
    /\ UNCHANGED <<resource, queued, mine, attempts, bounds>>

(* The statement fails, or only its answer comes too late. *)
ExecuteFails ==
    /\ pc = "execute"
    /\ Fault
    /\ Executed \/ UNCHANGED db
    /\ pc' = "failed"
    /\ UNCHANGED <<resource, queued, mine, sent, attempts, events, outdated>>

(* Mutant: the statement is tried again although the job is Failed. *)
SetFailedAndRetry ==
    /\ pc = "failed" /\ status.phase # "Absent"
    /\ SetPhase("Failed", mine)
    /\ pc' = "execute"
    /\ UNCHANGED <<queued, mine, sent, db, attempts, bounds>>

SetFailed ==
    /\ pc = "failed"
    /\ \/ status.phase # "Absent" /\ SetPhase("Failed", mine) /\ ReturnDone
       \/ status.phase = "Absent" /\ ReturnError /\ UNCHANGED resource
    /\ UNCHANGED <<db, attempts, bounds>>

(* The resource is read again before the final patch. *)
SetCompleted ==
    /\ pc = "executed"
    /\ \/ /\ status.phase # "Absent" /\ cache.phase # "Absent"
          /\ SetPhase("Completed", cache.phase)
          /\ ReturnDone
       \/ (status.phase = "Absent" \/ cache.phase = "Absent") /\ ReturnError /\ UNCHANGED resource
    /\ UNCHANGED <<db, attempts, bounds>>

(* The connection or a call to the API server fails. *)
CallFails ==
    /\ pc \notin {"idle", "execute"}
    /\ Fault
    /\ ReturnError
    /\ UNCHANGED <<resource, db, attempts, events, outdated>>

------------------------------------------------------------------------------
(* Around Reconcile.                                                        *)

(* A change of the Secret, or of the part of the spec the webhook lets pass. *)
Trigger ==
    /\ status.phase # "Absent"
    /\ Event
    /\ queued' = TRUE
    /\ UNCHANGED <<resource, reconcile, db, attempts, faults, outdated>>

(* There is no finalizer. *)
Delete ==
    /\ status.phase # "Absent"
    /\ Event
    /\ Patch([status EXCEPT !.phase = "Absent"])
    /\ UNCHANGED <<queued, reconcile, db, attempts, faults, outdated>>

(* The watch delivers the versions in order. *)
Watch ==
    /\ coming # <<>>
    /\ cache' = Head(coming)
    /\ coming' = Tail(coming)
    /\ UNCHANGED <<status, ended, queued, reconcile, db, attempts, bounds>>

(* The operator dies, a statement it has just sent being executed or not;   *)
(* its successor lists every resource and queues it.                        *)
Restart ==
    /\ Fault
    /\ (pc = "execute" /\ Executed) \/ UNCHANGED db
    /\ Return
    /\ queued' = TRUE
    /\ cache' = status
    /\ coming' = <<>>
    /\ UNCHANGED <<status, ended, attempts, events, outdated>>

Reconcile ==
    \/ Fetch \/ CredentialsMissing \/ SetRunning \/ SetStartTime
    \/ Execute \/ ExecuteFails \/ SetFailed \/ SetCompleted \/ CallFails

Next == Reconcile \/ Trigger \/ Delete \/ Watch \/ Restart

Spec == Init /\ [][Next]_vars

(* The work queue hands out what it holds, the watch delivers, and a client *)
(* call ends: sqlContext bounds the statements.                             *)
FairSpec == Spec /\ WF_vars(Reconcile) /\ WF_vars(Watch)

------------------------------------------------------------------------------
(* Properties.                                                              *)

Job == INSTANCE OneShotJob WITH
          phase <- status.phase, done <- (db = Statements), outdated <- (outdated > 0)

(* The controller keeps the promise of OneShotJob: "Pending -> Running ->   *)
(* Completed or Failed", no statement once it is finished, unless a         *)
(* Reconcile started from an outdated cache; and in any case Completed only *)
(* with the whole result in place, and nothing for a deleted job.           *)
ImplementsOneShot == Job!Spec

(* "Once Completed or Failed, they are never re-executed" holds of a job    *)
(* whose Reconciles all started from the last patch.  Otherwise, and for a  *)
(* job that is not finished yet, each attempt but the first has its price:  *)
(* a fault buys one, an outdated read two, because the Reconcile it misled  *)
(* may put the job back to Running and fail to complete it again.           *)
AttemptsAccounted ==
    /\ ended /\ pc = "execute" => outdated > 0
    /\ attempts <= 1 + faults + 2 * outdated

(* However often it was interrupted, a job ends as Completed or Failed and  *)
(* stays so; no restart, failing call or deletion leaves it Running.  Only  *)
(* a Reconcile that started from an outdated cache can.                     *)
JobFinishes == <>[](status.phase \in Finished \cup {"Absent"} \/ outdated > 0)

==============================================================================
