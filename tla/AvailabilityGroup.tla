-------------------------- MODULE AvailabilityGroup --------------------------
(***************************************************************************)
(* The AvailabilityGroup controller: one Reconcile at a time, from the     *)
(* fetch of the resource to the return, with the split-brain fencing of    *)
(* ag_fencing.go and the automatic failover.  Each step is one SQL or      *)
(* Kubernetes round trip, so that everything else may happen in between.   *)
(* Endpoints, databases and listener are left out: no decision of this     *)
(* controller depends on them.                                             *)
(***************************************************************************)
EXTENDS AGCluster

CONSTANTS
    ClusterType,         \* spec.clusterType: "nil", "None", "External" or "WSFC"
    AutoFailover,        \* spec.autoFailover
    MaxFencingAttempts   \* 5 in the code

ASSUME SpecAssumption ==
    /\ ClusterType \in {"nil", "None", "External", "WSFC"}
    /\ AutoFailover \in BOOLEAN
    /\ MaxFencingAttempts \in Nat \ {0}

VARIABLES
    pc,       \* the next round trip of the running Reconcile
    ag,       \* its in-memory copy of the status
    todo,     \* the replicas the current loop has still to visit
    roles,    \* collectReplicaRoles: the roles read so far
    lsns,     \* collectReplicaLSNs: the LSNs read so far
    legit,    \* the legitimate primary so far, NoServer before the first
    cur,      \* the rogue, candidate or label target being worked on
    fences,   \* history: consecutive fencing rounds against s in the window
    touched,  \* history: the replicas a fencing command was sent to in the window
    dropped   \* history: the replicas hard fencing has removed the group from

localVars == <<ag, todo, roles, lsns, legit, cur>>
ghostVars == <<fences, touched, dropped>>
agVars    == <<pc, localVars, ghostVars>>

Steps == {"idle", "connect", "guard", "roles", "decide", "lsns", "select",
          "cut", "fence", "fencePatch", "ensure", "join", "observe", "rejoin",
          "labels", "gate", "candidates", "adopt", "force", "failoverPatch"}

AGTypeOK ==
    /\ pc \in Steps
    /\ ag \in AGStatus
    /\ todo \subseteq Server
    /\ roles \in [Server -> Role \cup {"unreachable"}]
    /\ lsns \in [Server -> 0..MaxLSN]
    /\ legit \in Server \cup {NoServer}
    /\ cur \in Server \cup {NoServer}
    /\ fences \in [Server -> Nat]
    /\ touched \subseteq Server \cup {NoServer}
    /\ dropped \subseteq Server \cup {NoServer}

NoRoles == [s \in Server |-> "unreachable"]
NoLSNs  == [s \in Server |-> 0]
NoAG    == [primary |-> NoServer, lastFenced |-> NoServer,
            consecutive |-> 0, reason |-> "None"]

AGInit ==
    /\ pc = "idle"
    /\ ag = NoAG
    /\ todo = {}
    /\ roles = NoRoles
    /\ lsns = NoLSNs
    /\ legit = NoServer
    /\ cur = NoServer
    /\ fences = [s \in Server |-> 0]
    /\ touched = {}
    /\ dropped = {}

------------------------------------------------------------------------------
(* Loops visit the replicas in the order of the spec.                       *)
Turn(s) == s \in todo /\ \A t \in todo \ {s} : Before(s, t)

(* The replica primaryClient is connected to.                               *)
PrimaryReplica == IF ag.primary \in Server THEN ag.primary ELSE Replicas[1]

Primaries == {s \in Server : roles[s] = "PRIMARY"}

(* Reconcile returns: its locals are gone. *)
Return ==
    /\ pc' = "idle"
    /\ ag' = NoAG
    /\ todo' = {}
    /\ roles' = NoRoles
    /\ lsns' = NoLSNs
    /\ legit' = NoServer
    /\ cur' = NoServer

(* Continue at step p, looping over T. *)
Goto(p, T) ==
    /\ pc' = p
    /\ todo' = T

(* updateReplicaRoleLabelsFromAG(primary), the last thing a Reconcile does. *)
GotoLabels(primary) == Goto("labels", Server) /\ cur' = primary

------------------------------------------------------------------------------
(* Reconcile, steps 1 to 4.                                                 *)

Fetch ==
    /\ pc = "idle"
    /\ ag' = status
    /\ Goto("connect", {})
    /\ UNCHANGED <<roles, lsns, legit, cur, ghostVars, sqlVars, kubeVars, cooling, faults, reclaims>>

CredentialsMissing ==
    /\ pc = "connect"
    /\ Fault
    /\ status' = [ag EXCEPT !.reason = "SecretNotFound"]
    /\ Return
    /\ UNCHANGED <<ghostVars, sqlVars, label, failover, cooling, reclaims>>

(* Without autoFailover nothing is sent: sql.Open does not connect. *)
Connect ==
    /\ pc = "connect"
    /\ Goto(IF AutoFailover /\ PrimaryReplica \notin up THEN "gate"
            ELSE IF ag.primary # NoServer THEN "guard" ELSE "ensure", {})
    /\ UNCHANGED <<ag, roles, lsns, legit, cur, ghostVars, sqlVars, kubeVars, cooling, faults, reclaims>>

------------------------------------------------------------------------------
(* detectAndResolveSplitBrain.                                              *)

(* Mutant: the test on the cluster type is inverted.                        *)
FencingAppliesElsewhere == ClusterType \in {"External", "WSFC"}

FencingApplies == ClusterType \in {"nil", "None"}

(* Guards 1 to 3; a failing List does not suspend fencing. *)
Guard ==
    /\ pc = "guard"
    /\ \/ /\ FencingApplies
          /\ \/ failover.phase # "Running" /\ UNCHANGED faults
             \/ APIError
          /\ Goto("roles", Server)
       \/ /\ FencingApplies => failover.phase = "Running"
          /\ Goto("ensure", {})
          /\ UNCHANGED faults
    /\ UNCHANGED <<ag, roles, lsns, legit, cur, ghostVars, sqlVars, kubeVars, cooling, reclaims>>

ReadRole(s) ==
    /\ pc = "roles" /\ Turn(s)
    /\ roles' = [roles EXCEPT ![s] = GetAGReplicaRole(s)]
    /\ Goto(IF todo = {s} THEN "decide" ELSE "roles", todo \ {s})
    /\ UNCHANGED <<ag, lsns, legit, cur, ghostVars, sqlVars, kubeVars, cooling, faults, reclaims>>

(* Steps 7 and 8, or the start of the LSN tiebreaker.  A single primary     *)
(* that is not the one of the status is written to the in-memory status     *)
(* and to the labels only.                                                  *)
Decide ==
    /\ pc = "decide"
    /\ \/ /\ Primaries \subseteq {ag.primary}
          /\ Goto("ensure", {})
          /\ UNCHANGED <<ag, cur>>
       \/ \E s \in Server :
             /\ Primaries = {s} /\ s # ag.primary
             /\ ag' = [ag EXCEPT !.primary = s]
             /\ GotoLabels(s)
       \/ /\ \E s, t \in Primaries : s # t
          /\ Goto("lsns", Primaries)
          /\ UNCHANGED <<ag, cur>>
    /\ UNCHANGED <<roles, lsns, legit, ghostVars, sqlVars, kubeVars, cooling, faults, reclaims>>

(* Mutant: the last of equals.                                              *)
BeatsOrTies(s, n) == legit = NoServer \/ n >= lsns[legit]

(* The tiebreaker: s with LSN n against the best replica so far. *)
Beats(s, n) ==
    \/ legit = NoServer
    \/ n > lsns[legit]
    \/ n = lsns[legit] /\ s = ag.primary

(* Reads the LSN of one primary and compares it with the best so far. *)
ReadLSN(s) ==
    /\ pc = "lsns" /\ Turn(s)
    /\ lsns' = [lsns EXCEPT ![s] = GetLastHardenedLSN(s)]
    /\ legit' = IF Beats(s, GetLastHardenedLSN(s)) THEN s ELSE legit
    /\ Goto(IF todo = {s} THEN "select" ELSE "lsns", todo \ {s})
    /\ UNCHANGED <<ag, roles, cur, ghostVars, sqlVars, kubeVars, cooling, faults, reclaims>>

(* Mutant: one attempt too many.                                            *)
ExhaustedLate(s) ==
    /\ ag.lastFenced = s
    /\ ag.consecutive > MaxFencingAttempts
    /\ "fencing" \in cooling

Exhausted(s) ==
    /\ ag.lastFenced = s
    /\ ag.consecutive >= MaxFencingAttempts
    /\ "fencing" \in cooling

Rogues == {s \in Primaries \ {legit} : ~Exhausted(s)}

(* The rogue list; when the circuit breaker stops all of them, the          *)
(* condition is patched and the rest of Reconcile goes on.                  *)
SelectRogues ==
    /\ pc = "select"
    /\ \/ /\ Rogues = {}
          /\ PatchStatus([ag EXCEPT !.reason = "FencingExhausted"])
          /\ ag' = [ag EXCEPT !.reason = "FencingExhausted"]
          /\ Goto("ensure", {})
          /\ UNCHANGED fences
       \/ /\ Rogues # {}
          /\ Goto("cut", Rogues)
          /\ fences' = [s \in Server |-> IF s \in Rogues THEN fences[s] + 1 ELSE 0]
          /\ UNCHANGED <<ag, status, faults>>
    /\ UNCHANGED <<roles, lsns, legit, cur, touched, dropped, sqlVars, label, failover,
                   cooling, reclaims>>

(* setPodRoleLabel: traffic is cut before the SQL command. *)
CutTraffic(s) ==
    /\ pc = "cut" /\ Turn(s)
    /\ PatchLabel(s, "secondary")
    /\ cur' = s
    /\ Goto("fence", todo \ {s})
    /\ UNCHANGED <<ag, roles, lsns, legit, ghostVars, sqlVars, status, failover, cooling, reclaims>>

(* Mutant: any recent fencing escalates.                                    *)
HardFencingAny == "fencing" \in cooling

HardFencing == ag.lastFenced = cur /\ "fencing" \in cooling

(* fenceReplica; an error is only logged. *)
FenceReplica ==
    /\ pc = "fence"
    /\ \/ /\ Hosts(cur)
          /\ role' = IF HardFencing THEN DropAG(cur) ELSE SetAGRoleSecondary(cur)
          /\ UNCHANGED reclaims
       \/ ~Hosts(cur) /\ UNCHANGED <<role, reclaims>>
       \/ Hosts(cur) /\ SQLError /\ UNCHANGED role
    /\ touched' = touched \cup {cur}
    /\ dropped' = dropped \cup {s \in {cur} : role[s] # "ABSENT" /\ role'[s] = "ABSENT"}
    /\ Goto(IF todo = {} THEN "fencePatch" ELSE "cut", todo)
    /\ UNCHANGED <<ag, roles, lsns, legit, cur, fences, up, lsn, kubeVars, cooling, faults>>

(* Step 11: the outcome of the round, in one patch. *)
FencePatch ==
    /\ pc = "fencePatch"
    /\ LET n == IF ag.lastFenced = cur THEN ag.consecutive + 1 ELSE 1
       IN  PatchStatus([primary |-> legit, lastFenced |-> cur, consecutive |-> n,
                        reason |-> IF n > 1 THEN "HardFencingExecuted" ELSE "FencingExecuted"])
    /\ cooling' = IF faults' = faults THEN cooling \cup {"fencing"} ELSE cooling
    /\ Return
    /\ UNCHANGED <<ghostVars, sqlVars, label, failover, reclaims>>

------------------------------------------------------------------------------
(* Reconcile, steps 5 to 9.                                                 *)

(* AGExists, then createAG when the group is missing on the primary. *)
EnsureAG ==
    /\ pc = "ensure"
    /\ LET p == PrimaryReplica
       IN  \/ p \notin up /\ Return /\ UNCHANGED role
           \/ /\ Hosts(p)
              /\ Goto("observe", {})
              /\ UNCHANGED <<ag, roles, lsns, legit, cur, role>>
           \/ /\ p \in up /\ role[p] = "ABSENT"
              /\ role' = CreateAG(p)
              /\ Goto("join", Server \ {Replicas[1]})
              /\ UNCHANGED <<ag, roles, lsns, legit, cur>>
    /\ UNCHANGED <<ghostVars, up, lsn, kubeVars, cooling, faults, reclaims>>

(* joinSecondaries: all but the first replica, up to the first error. *)
JoinSecondary(s) ==
    /\ pc = "join" /\ Turn(s)
    /\ \/ /\ s \in up /\ role[s] = "ABSENT"
          /\ role' = JoinAG(s)
          /\ Goto(IF todo = {s} THEN "observe" ELSE "join", todo \ {s})
       \/ /\ s \notin up \/ role[s] # "ABSENT"
          /\ Goto("observe", {})
          /\ UNCHANGED role
    /\ UNCHANGED <<ag, roles, lsns, legit, cur, ghostVars, up, lsn, kubeVars, cooling, faults, reclaims>>

(* updateAGStatus: every replica has to be connected and in one of two      *)
(* synchronization states for the group to be Ready.                        *)
Healthy(p) ==
    \A s \in Server :
        /\ s \in ConnectedReplicas(p)
        /\ SynchronizationState(p, s) \in {"SYNCHRONIZED", "SYNCHRONIZING"}

ObservedStatus(p, v) ==
    [ag EXCEPT !.primary = v,
               !.reason = IF Healthy(p) THEN "Ready" ELSE "ReplicaNotHealthy"]

(* GetAGStatus and updateAGStatus; then the replicas to rejoin are known.   *)
(* An unknown primary_replica is scanned as "" or, if NULL, is an error.    *)
Observe ==
    /\ pc = "observe"
    /\ LET p == PrimaryReplica
       IN  \/ /\ ~Hosts(p) \/ NoServer \in KnownPrimaries(p)
              /\ Return
              /\ UNCHANGED <<status, faults>>
           \/ Hosts(p) /\ APIError /\ Return /\ UNCHANGED status
           \/ \E v \in KnownPrimaries(p) :
                 /\ Hosts(p)
                 /\ status' = ObservedStatus(p, v)
                 /\ ag' = ObservedStatus(p, v)
                 /\ cur' = v
                 /\ Goto("rejoin", Server \ (ConnectedReplicas(p) \cup {v}))
                 /\ UNCHANGED <<roles, lsns, legit, faults>>
    /\ UNCHANGED <<ghostVars, sqlVars, label, failover, cooling, reclaims>>

(* tryRejoinReplica: JOIN succeeds only where the group is absent. *)
Rejoin(s) ==
    /\ pc = "rejoin" /\ Turn(s)
    /\ role' = IF s \in up /\ role[s] = "ABSENT" THEN JoinAG(s) ELSE role
    /\ Goto("rejoin", todo \ {s})
    /\ UNCHANGED <<ag, roles, lsns, legit, cur, ghostVars, up, lsn, kubeVars, cooling, faults, reclaims>>

RejoinDone ==
    /\ pc = "rejoin" /\ todo = {}
    /\ \/ cur = NoServer /\ Return
       \/ /\ cur # NoServer
          /\ GotoLabels(cur)
          /\ UNCHANGED <<ag, roles, lsns, legit>>
    /\ UNCHANGED <<ghostVars, sqlVars, kubeVars, cooling, faults, reclaims>>

(* updateReplicaRoleLabelsFromAG, one pod. *)
SetLabel(s) ==
    /\ pc = "labels" /\ Turn(s)
    /\ PatchLabel(s, DesiredRole(s, cur))
    /\ \/ todo = {s} /\ Return
       \/ todo # {s} /\ Goto("labels", todo \ {s}) /\ UNCHANGED <<ag, roles, lsns, legit, cur>>
    /\ UNCHANGED <<ghostVars, sqlVars, status, failover, cooling, reclaims>>

------------------------------------------------------------------------------
(* handleAutoFailover.                                                      *)

(* Cooldown and lease; the lease may be held by another operator instance.  *)
FailoverGate ==
    /\ pc = "gate"
    /\ \/ "autoFailover" \in cooling /\ Return /\ UNCHANGED faults
       \/ "autoFailover" \notin cooling /\ APIError /\ Return
       \/ /\ "autoFailover" \notin cooling
          /\ Goto("candidates", Server \ {PrimaryReplica})
          /\ UNCHANGED <<ag, roles, lsns, legit, cur, faults>>
    /\ UNCHANGED <<ghostVars, sqlVars, kubeVars, cooling, reclaims>>

(* The role of the next candidate: skipped, adopted or promoted. *)
TryCandidate(s) ==
    /\ pc = "candidates" /\ Turn(s)
    /\ cur' = s
    /\ Goto(IF ~Hosts(s) THEN "candidates"
            ELSE IF role[s] = "PRIMARY" THEN "adopt" ELSE "force", todo \ {s})
    /\ UNCHANGED <<ag, roles, lsns, legit, ghostVars, sqlVars, kubeVars, cooling, faults, reclaims>>

NoCandidate ==
    /\ pc = "candidates" /\ todo = {}
    /\ Return
    /\ UNCHANGED <<ghostVars, sqlVars, kubeVars, cooling, faults, reclaims>>

(* The candidate is already PRIMARY: only the status follows. *)
Adopt ==
    /\ pc = "adopt"
    /\ \/ /\ ~Hosts(cur) \/ NoServer \in KnownPrimaries(cur)
          /\ UNCHANGED <<status, faults>>
       \/ /\ Hosts(cur)
          /\ \E v \in KnownPrimaries(cur) : PatchStatus(ObservedStatus(cur, v))
    /\ Return
    /\ UNCHANGED <<ghostVars, sqlVars, label, failover, cooling, reclaims>>

(* ForceFailoverAG: success, or an error after which the next candidate is  *)
(* tried; a command that timed out may have been executed all the same.     *)
ForceFailover ==
    /\ pc = "force"
    /\ \/ /\ Hosts(cur)
          /\ role' \in ForceFailoverAG(cur)
          /\ Goto("failoverPatch", {})
          /\ UNCHANGED reclaims
       \/ ~Hosts(cur) /\ Goto("candidates", todo) /\ UNCHANGED <<role, reclaims>>
       \/ /\ Hosts(cur)
          /\ SQLError
          /\ role' \in ForceFailoverAG(cur) \cup {role}
          /\ Goto("candidates", todo)
    /\ UNCHANGED <<ag, roles, lsns, legit, cur, ghostVars, up, lsn, kubeVars, cooling, faults>>

FailoverPatch ==
    /\ pc = "failoverPatch"
    /\ PatchStatus([ag EXCEPT !.primary = cur, !.reason = "AutoFailoverExecuted"])
    /\ cooling' = IF faults' = faults THEN cooling \cup {"autoFailover"} ELSE cooling
    /\ GotoLabels(cur)
    /\ UNCHANGED <<ag, roles, lsns, legit, ghostVars, sqlVars, label, failover, reclaims>>

------------------------------------------------------------------------------
(* The fencing cooldown lapses, and with it the window of the history: only *)
(* the round that is still to be recorded counts for the next window.       *)
FenceCooldownLapses ==
    /\ "fencing" \in cooling
    /\ cooling' = cooling \ {"fencing"}
    /\ fences' = [s \in Server |->
                     IF pc \in {"cut", "fence", "fencePatch"} /\ fences[s] > 0 THEN 1 ELSE 0]
    /\ touched' = IF pc \in {"cut", "fencePatch"} THEN touched \cap {cur} ELSE {}
    /\ UNCHANGED <<dropped, pc, localVars, sqlVars, kubeVars, faults, reclaims>>

AGNext ==
    \/ Fetch \/ CredentialsMissing \/ Connect
    \/ Guard \/ Decide \/ SelectRogues \/ FenceReplica \/ FencePatch
    \/ EnsureAG \/ Observe \/ RejoinDone
    \/ FailoverGate \/ NoCandidate \/ Adopt \/ ForceFailover \/ FailoverPatch
    \/ \E s \in Server :
          \/ ReadRole(s) \/ ReadLSN(s) \/ CutTraffic(s)
          \/ JoinSecondary(s) \/ Rejoin(s) \/ SetLabel(s) \/ TryCandidate(s)


==============================================================================
