------------------------------ MODULE AGFailover ------------------------------
(***************************************************************************)
(* The AGFailover controller: a one-shot, user-requested failover of the   *)
(* group to a target replica.  A failed or interrupted Reconcile starts    *)
(* again from the fetch.                                                   *)
(***************************************************************************)
EXTENDS AGCluster

VARIABLES
    fpc,        \* the next round trip of the running Reconcile
    previous    \* its local previousPrimary

foVars == <<fpc, previous>>

FoTypeOK ==
    /\ fpc \in {"idle", "start", "exec", "record", "complete", "fail"}
    /\ previous \in Server \cup {NoServer}

FoInit ==
    /\ fpc = "idle"
    /\ previous = NoServer

FoReturn == fpc' = "idle" /\ previous' = NoServer

PatchFailover(new) ==
    \/ failover' = new /\ UNCHANGED faults
    \/ APIError /\ UNCHANGED failover

------------------------------------------------------------------------------
(* A user creates the resource. *)
CreateFailover(t, force) ==
    /\ failover.phase = "NotCreated"
    /\ failover' = [failover EXCEPT !.phase = "Pending", !.target = t, !.force = force]
    /\ UNCHANGED <<foVars, sqlVars, label, status, cooling, faults, reclaims>>

(* Mutants: a Running failover is not taken up again; a Completed one is.   *)
UnfinishedPending   == failover.phase = "Pending"
UnfinishedNotFailed == failover.phase \in {"Pending", "Running", "Completed"}

(* One-shot: a Completed or Failed resource is skipped; a Running one, left  *)
(* by a crash or a failed patch, is taken up again.                         *)
Unfinished == failover.phase \in {"Pending", "Running"}

(* The role of the target.  A target that cannot be queried  *)
(* is retried later.                                                        *)
CheckTarget ==
    /\ fpc = "idle"
    /\ Unfinished
    /\ Hosts(failover.target)
    /\ \/ /\ role[failover.target] = "PRIMARY"
          /\ fpc' = "complete"
          /\ previous' = failover.target
       \/ /\ role[failover.target] = "SECONDARY"
          /\ fpc' = IF failover.phase = "Running" THEN "exec" ELSE "start"
          /\ UNCHANGED previous
       \/ /\ role[failover.target] \notin {"PRIMARY", "SECONDARY"}
          /\ fpc' = "fail"
          /\ UNCHANGED previous
    /\ UNCHANGED <<sqlVars, kubeVars, cooling, faults, reclaims>>

(* The Secret of the target is missing or invalid. *)
FoCredentialsMissing ==
    /\ fpc = "idle"
    /\ Unfinished
    /\ Fault
    /\ failover' = [failover EXCEPT !.phase = "Failed"]
    /\ UNCHANGED <<foVars, sqlVars, label, status, cooling, reclaims>>

(* Phase Running, then startTime; either patch may fail. *)
StartRunning ==
    /\ fpc = "start"
    /\ \/ /\ failover' = [failover EXCEPT !.phase = "Running"]
          /\ fpc' = "exec"
          /\ UNCHANGED <<previous, faults>>
       \/ /\ APIError
          /\ failover' \in {failover, [failover EXCEPT !.phase = "Running"]}
          /\ FoReturn
    /\ UNCHANGED <<sqlVars, label, status, cooling, reclaims>>

ExecuteFailover ==
    /\ fpc = "exec"
    /\ LET t        == failover.target
           outcomes == IF ~Hosts(t) THEN {}
                       ELSE IF failover.force THEN ForceFailoverAG(t) ELSE FailoverAG(t)
       IN  \/ /\ role' \in outcomes
              /\ fpc' = "record"
              /\ UNCHANGED reclaims
           \/ /\ outcomes = {}
              /\ fpc' = "fail"
              /\ UNCHANGED <<role, reclaims>>
           \/ /\ Hosts(t)
              /\ SQLError
              /\ role' \in outcomes \cup {role}
              /\ fpc' = "fail"
    /\ UNCHANGED <<previous, up, lsn, kubeVars, cooling, faults>>

(* "Process of elimination": the first replica of GetAGStatus, in whatever  *)
(* order the rows come, that is not the target and reports SECONDARY.       *)
RecordPrevious ==
    /\ fpc = "record"
    /\ LET t      == failover.target
           others == IF Hosts(t) THEN ConnectedReplicas(t) \ {t} ELSE {}
       IN  \/ previous' \in others
           \/ others = {} /\ previous' = NoServer
    /\ fpc' = "complete"
    /\ UNCHANGED <<sqlVars, kubeVars, cooling, faults, reclaims>>

SetCompleted ==
    /\ fpc = "complete"
    /\ PatchFailover([failover EXCEPT !.phase = "Completed", !.previousPrimary = previous])
    /\ FoReturn
    /\ UNCHANGED <<sqlVars, label, status, cooling, reclaims>>

SetFailed ==
    /\ fpc = "fail"
    /\ PatchFailover([failover EXCEPT !.phase = "Failed"])
    /\ FoReturn
    /\ UNCHANGED <<sqlVars, label, status, cooling, reclaims>>

FoNext ==
    \/ CheckTarget \/ FoCredentialsMissing \/ StartRunning
    \/ ExecuteFailover \/ RecordPrevious \/ SetCompleted \/ SetFailed

==============================================================================
