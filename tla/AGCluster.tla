------------------------------ MODULE AGCluster ------------------------------
(***************************************************************************)
(* What the high-availability controllers of the operator share: the SQL   *)
(* Server instances that host one availability group (external, modelled   *)
(* from how internal/sql/client.go uses them) and the Kubernetes objects   *)
(* the controllers read and write (the AvailabilityGroup's status, the     *)
(* role labels of the pods and one AGFailover resource).                   *)
(*                                                                         *)
(* Every SQL call and every Kubernetes write is one step.  A call to an    *)
(* instance that is down fails; time is present only as the two cooldown   *)
(* windows, which lapse at any moment.                                     *)
(***************************************************************************)
EXTENDS Integers, Sequences, FiniteSets

CONSTANTS
    Server,        \* serverName of every replica; also the name of its pod
    Replicas,      \* ag.Spec.Replicas: the servers in the order of the spec
    NoServer,      \* the empty server name
    MaxLSN,        \* bound on the log records written in one behaviour
    MaxFaults,     \* bound on outages, operator crashes and API errors
    MaxReclaims,   \* bound on rogue promotions and failing ALTER/DROP commands
    APIMayFail     \* whether the operator's Kubernetes calls can fail

(* The validating webhook demands two replicas or more with distinct names. *)
ASSUME ReplicasAssumption ==
    /\ Replicas \in Seq(Server)
    /\ Len(Replicas) >= 2
    /\ \A s \in Server : \E i \in DOMAIN Replicas : Replicas[i] = s
    /\ \A i, j \in DOMAIN Replicas : Replicas[i] = Replicas[j] => i = j

ASSUME NoServerAssumption == NoServer \notin Server

ASSUME BoundsAssumption ==
    /\ MaxLSN \in Nat
    /\ MaxFaults \in Nat
    /\ MaxReclaims \in Nat

ASSUME APIAssumption == APIMayFail \in BOOLEAN

VARIABLES
    up,           \* the instances that answer connections
    role,         \* role[s]: the role s itself reports for the group
    lsn,          \* lsn[s]: last hardened log sequence number of s
    label,        \* label[s]: value of mssql.popul.io/role on the pod of s
    status,       \* .status of the AvailabilityGroup, as stored by the API
    failover,     \* the AGFailover resource
    cooling,      \* the cooldowns running: since status.lastFencingTime and
                  \* since status.lastAutoFailoverTime
    faults,       \* outages, crashes and API errors so far
    reclaims      \* rogue promotions and failed SQL commands so far

sqlVars  == <<up, role, lsn>>
kubeVars == <<label, status, failover>>

------------------------------------------------------------------------------
(* ABSENT: the instance has no such group, so every query about it errors. *)
Role   == {"PRIMARY", "SECONDARY", "RESOLVING", "ABSENT"}
Label  == {"none", "primary", "secondary"}
Cooldown == {"fencing", "autoFailover"}
Phase  == {"NotCreated", "Pending", "Running", "Completed", "Failed"}
Reason == {"None", "Ready", "ReplicaNotHealthy", "FencingExecuted",
           "HardFencingExecuted", "FencingExhausted", "AutoFailoverExecuted",
           "SecretNotFound"}

(* The fields of AvailabilityGroupStatus that decisions depend on, and the  *)
(* reason of the Ready condition.                                           *)
AGStatus == [primary     : Server \cup {NoServer},
             lastFenced  : Server \cup {NoServer},
             consecutive : Nat,
             reason      : Reason]

Failover == [phase           : Phase,
             target          : Server \cup {NoServer},
             force           : BOOLEAN,
             previousPrimary : Server \cup {NoServer}]

ClusterTypeOK ==
    /\ up \subseteq Server
    /\ role \in [Server -> Role]
    /\ lsn \in [Server -> 0..MaxLSN]
    /\ label \in [Server -> Label]
    /\ status \in AGStatus
    /\ failover \in Failover
    /\ cooling \subseteq Cooldown
    /\ faults \in 0..MaxFaults
    /\ reclaims \in 0..MaxReclaims

ClusterInit ==
    /\ up = Server
    /\ role = [s \in Server |-> "ABSENT"]
    /\ lsn = [s \in Server |-> 0]
    /\ label = [s \in Server |-> "none"]
    /\ status = [primary |-> NoServer, lastFenced |-> NoServer,
                 consecutive |-> 0, reason |-> "None"]
    /\ failover = [phase |-> "NotCreated", target |-> NoServer,
                   force |-> FALSE, previousPrimary |-> NoServer]
    /\ cooling = {}
    /\ faults = 0
    /\ reclaims = 0

------------------------------------------------------------------------------
(* Reading the instances.                                                  *)

Before(s, t) ==
    \E i, j \in DOMAIN Replicas : i < j /\ Replicas[i] = s /\ Replicas[j] = t

Hosts(s) == s \in up /\ role[s] # "ABSENT"

UpPrimaries == {s \in Server : s \in up /\ role[s] = "PRIMARY"}

(* Mutant: the error of the query is taken for a role.                      *)
GetAGReplicaRoleUnknown(s) == IF Hosts(s) THEN role[s] ELSE "UNKNOWN"

(* GetAGReplicaRole: the reported role; the empty string the code *)
(* uses for a failing query is "unreachable" here. *)
GetAGReplicaRole(s) == IF Hosts(s) THEN role[s] ELSE "unreachable"

(* GetLastHardenedLSN, with the 0 the controller substitutes on an error. *)
GetLastHardenedLSN(s) == IF Hosts(s) THEN lsn[s] ELSE 0

(* GetAGStatus on s, when s hosts the group: the primary_replica s knows of *)
(* (a secondary follows some primary that is up, if there is one) and the   *)
(* replicas s sees CONNECTED.                                               *)
KnownPrimaries(s) ==
    IF role[s] = "PRIMARY" THEN {s}
    ELSE IF role[s] = "SECONDARY" /\ UpPrimaries # {} THEN UpPrimaries
    ELSE {NoServer}

ConnectedReplicas(s) ==
    IF role[s] = "PRIMARY" THEN {s} \cup {t \in Server : t \in up /\ role[t] = "SECONDARY"}
    ELSE {s}

(* The column read into AGReplicaState.SynchronizationState is              *)
(* synchronization_health_desc.                                             *)
SynchronizationState(s, t) ==
    IF t \in ConnectedReplicas(s) THEN "HEALTHY" ELSE "NOT_HEALTHY"

------------------------------------------------------------------------------
(* Changing the instances: the statements of internal/sql/client.go, as the *)
(* function that role becomes.                                              *)

Demote(D, t) == [s \in Server |-> IF s = t THEN "PRIMARY"
                                  ELSE IF s \in D THEN "SECONDARY" ELSE role[s]]

(* FORCE_FAILOVER_ALLOW_DATA_LOSS promotes t.  With no cluster manager the  *)
(* other primaries that are up may or may not step down.                    *)
ForceFailoverAG(t) == {Demote(D, t) : D \in SUBSET (UpPrimaries \ {t})}

(* A planned FAILOVER needs the primary and makes it step down.             *)
FailoverAG(t) == IF UpPrimaries \ {t} = {} THEN {} ELSE {Demote(UpPrimaries, t)}

(* Mutant: sent over the connection to the first replica.                   *)
SetAGRoleSecondaryOnFirst(s) == [role EXCEPT ![Replicas[1]] = "SECONDARY"]

SetAGRoleSecondary(s) == [role EXCEPT ![s] = "SECONDARY"]

(* Mutant: sent over the connection to the first replica.                   *)
DropAGOnFirst(s) == [role EXCEPT ![Replicas[1]] = "ABSENT"]

DropAG(s) == [role EXCEPT ![s] = "ABSENT"]

CreateAG(s) == [role EXCEPT ![s] = "PRIMARY"]
JoinAG(s) == [role EXCEPT ![s] = "SECONDARY"]

(* A Kubernetes write that the caller does not retry: it happens, or the    *)
(* API server or the network loses it.                                      *)
Fault    == faults < MaxFaults /\ faults' = faults + 1
APIError == APIMayFail /\ Fault

PatchStatus(new) ==
    \/ status' = new /\ UNCHANGED faults
    \/ APIError /\ UNCHANGED status

PatchLabel(s, value) ==
    \/ label' = [label EXCEPT ![s] = value] /\ UNCHANGED faults
    \/ APIError /\ label[s] # value /\ UNCHANGED label

(* Mutant: only the new primary is relabelled.                              *)
DesiredRoleSticky(s, primary) == IF s = primary THEN "primary" ELSE label[s]

DesiredRole(s, primary) == IF s = primary THEN "primary" ELSE "secondary"

(* An ALTER or DROP statement that the instance rejects or times out on.    *)
SQLError == reclaims < MaxReclaims /\ reclaims' = reclaims + 1

------------------------------------------------------------------------------
(* What happens to the instances without the operator.                     *)

(* An instance becomes unreachable. *)
Fail(s) ==
    /\ s \in up
    /\ Fault
    /\ up' = up \ {s}
    /\ UNCHANGED <<role, lsn, kubeVars, cooling, reclaims>>

(* It comes back with the role it had: a former primary still considers     *)
(* itself PRIMARY, a secondary may still be RESOLVING.                      *)
Recover(s) ==
    /\ s \notin up
    /\ up' = up \cup {s}
    /\ \/ UNCHANGED role
       \/ role[s] = "SECONDARY" /\ role' = [role EXCEPT ![s] = "RESOLVING"]
    /\ UNCHANGED <<lsn, kubeVars, cooling, faults, reclaims>>

(* A RESOLVING replica finds the group and follows it. *)
Settle(s) ==
    /\ s \in up /\ role[s] = "RESOLVING"
    /\ role' = [role EXCEPT ![s] = "SECONDARY"]
    /\ UNCHANGED <<up, lsn, kubeVars, cooling, faults, reclaims>>

(* A replica (re)claims PRIMARY beside the current one. *)
Reclaim(s) ==
    /\ s \in up /\ role[s] = "SECONDARY"
    /\ reclaims < MaxReclaims
    /\ reclaims' = reclaims + 1
    /\ role' = [role EXCEPT ![s] = "PRIMARY"]
    /\ UNCHANGED <<up, lsn, kubeVars, cooling, faults>>

(* A primary hardens a log record; some secondaries receive it. *)
Write(s) ==
    /\ s \in up /\ role[s] = "PRIMARY" /\ lsn[s] < MaxLSN
    /\ \E R \in SUBSET {t \in Server : t \in up /\ role[t] = "SECONDARY"} :
          lsn' = [t \in Server |-> IF t \in R \cup {s} THEN lsn[s] + 1 ELSE lsn[t]]
    /\ UNCHANGED <<up, role, kubeVars, cooling, faults, reclaims>>

(* The automatic-failover cooldown lapses. *)
AutoCooldownLapses ==
    /\ "autoFailover" \in cooling
    /\ cooling' = cooling \ {"autoFailover"}
    /\ UNCHANGED <<sqlVars, kubeVars, faults, reclaims>>

ClusterNext ==
    \/ \E s \in Server : Fail(s) \/ Recover(s) \/ Settle(s) \/ Reclaim(s) \/ Write(s)
    \/ AutoCooldownLapses

==============================================================================
