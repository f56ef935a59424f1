------------------------ MODULE HighAvailabilityProofs ------------------------
(***************************************************************************)
(* What holds of HighAvailability for any number of replicas, any bounds   *)
(* and any configuration of the group.                                     *)
(***************************************************************************)
EXTENDS HighAvailability, TLAPS

------------------------------------------------------------------------------
(* Types.                                                                  *)

(* The first replica of the spec is a server. *)
LEMMA FirstReplica == Replicas[1] \in Server
  BY ReplicasAssumption

(* The replica the controller connects to is a server. *)
LEMMA PrimaryReplicaType == PrimaryReplica \in Server
  BY FirstReplica DEF PrimaryReplica

(* Every SQL statement leaves each instance with a role. *)
LEMMA RoleOperators ==
  ASSUME role \in [Server -> Role], NEW t
  PROVE  /\ DropAG(t) \in [Server -> Role]
         /\ SetAGRoleSecondary(t) \in [Server -> Role]
         /\ CreateAG(t) \in [Server -> Role]
         /\ JoinAG(t) \in [Server -> Role]
         /\ ForceFailoverAG(t) \subseteq [Server -> Role]
         /\ FailoverAG(t) \subseteq [Server -> Role]
  <1>1. \A D : Demote(D, t) \in [Server -> Role]
    BY DEF Demote, Role
  <1>2. ForceFailoverAG(t) \subseteq [Server -> Role]
    BY <1>1 DEF ForceFailoverAG
  <1>3. FailoverAG(t) \subseteq [Server -> Role]
    BY <1>1 DEF FailoverAG
  <1> QED
    BY <1>2, <1>3 DEF DropAG, SetAGRoleSecondary, CreateAG, JoinAG, Role

(* A patch of the status, a label or the failover keeps their types. *)
LEMMA PatchTypes ==
  ASSUME faults \in 0..MaxFaults
  PROVE  /\ \A new \in AGStatus : status \in AGStatus /\ PatchStatus(new) =>
               status' \in AGStatus /\ faults' \in 0..MaxFaults
         /\ \A s \in Server, r \in Label : label \in [Server -> Label] /\ PatchLabel(s, r) =>
               label' \in [Server -> Label] /\ faults' \in 0..MaxFaults
         /\ \A new \in Failover : failover \in Failover /\ PatchFailover(new) =>
               failover' \in Failover /\ faults' \in 0..MaxFaults
  BY BoundsAssumption DEF PatchStatus, PatchLabel, PatchFailover, APIError, Fault

(* The locals a Reconcile starts from. *)
LEMMA NoLocalsTypes ==
  /\ NoAG \in AGStatus
  /\ NoRoles \in [Server -> Role \cup {"unreachable"}]
  /\ NoLSNs \in [Server -> 0..MaxLSN]
  <1>1. NoAG \in AGStatus
    BY DEF NoAG, AGStatus, Reason
  <1>2. NoRoles \in [Server -> Role \cup {"unreachable"}]
    BY DEF NoRoles
  <1>3. NoLSNs \in [Server -> 0..MaxLSN]
    BY BoundsAssumption DEF NoLSNs
  <1> QED
    BY <1>1, <1>2, <1>3

(* Reconcile's locals are well typed once it has returned. *)
LEMMA ReturnTypes ==
  ASSUME Return
  PROVE  /\ pc' \in Steps
         /\ ag' \in AGStatus
         /\ todo' \subseteq Server
         /\ roles' \in [Server -> Role \cup {"unreachable"}]
         /\ lsns' \in [Server -> 0..MaxLSN]
         /\ legit' \in Server \cup {NoServer}
         /\ cur' \in Server \cup {NoServer}
  BY NoLocalsTypes DEF Return, Steps

(* What is written to the status after GetAGStatus. *)
LEMMA ObservedTypes ==
  ASSUME ag \in AGStatus, NEW p \in Server \cup {NoServer}, role \in [Server -> Role]
  PROVE  \A v \in KnownPrimaries(p) :
            v \in Server \cup {NoServer} /\ ObservedStatus(p, v) \in AGStatus
  <1>1. \A v \in KnownPrimaries(p) : v \in Server \cup {NoServer}
    BY DEF KnownPrimaries, UpPrimaries
  <1>2. \A v \in Server \cup {NoServer} : ObservedStatus(p, v) \in AGStatus
    BY DEF ObservedStatus, AGStatus, Reason
  <1> QED
    BY <1>1, <1>2

(* The initial state is well typed. *)
LEMMA TypeInit == Init => TypeOK
  <1> SUFFICES ASSUME Init PROVE TypeOK
    OBVIOUS
  <1> USE DEF Init
  <1>1. status \in AGStatus
    BY DEF ClusterInit, AGStatus, Reason
  <1>2. failover \in Failover
    BY DEF ClusterInit, Failover, Phase
  <1>3. ClusterTypeOK
    BY <1>1, <1>2, BoundsAssumption DEF ClusterInit, ClusterTypeOK, Role, Label
  <1>4. AGTypeOK
    BY NoLocalsTypes DEF AGInit, AGTypeOK, Steps
  <1>5. FoTypeOK /\ SrvTypeOK
    BY DEF FoInit, SrvInit, FoTypeOK, SrvTypeOK
  <1> QED
    BY <1>3, <1>4, <1>5 DEF TypeOK

(* The steps of detectAndResolveSplitBrain keep the types. *)
LEMMA FencingTypes ==
  ASSUME TypeOK, NEW s \in Server,
         \/ Guard \/ ReadRole(s) \/ Decide \/ ReadLSN(s) \/ SelectRogues
         \/ CutTraffic(s) \/ FenceReplica \/ FencePatch
  PROVE  ClusterTypeOK' /\ AGTypeOK'
  <1> USE BoundsAssumption DEF TypeOK, ClusterTypeOK, AGTypeOK
  <1> USE DEF Goto, sqlVars, kubeVars, ghostVars
  <1>1. CASE Guard
    BY <1>1 DEF Guard, APIError, Fault, Steps
  <1>2. CASE ReadRole(s)
    <2>1. GetAGReplicaRole(s) \in Role \cup {"unreachable"}
      BY DEF GetAGReplicaRole
    <2> QED
      BY <1>2, <2>1 DEF ReadRole, Steps
  <1>3. CASE Decide
    <2>1. \A t \in Server : [ag EXCEPT !.primary = t] \in AGStatus
      BY DEF AGStatus
    <2> QED
      BY <1>3, <2>1 DEF Decide, GotoLabels, Primaries, Steps
  <1>4. CASE ReadLSN(s)
    <2>1. GetLastHardenedLSN(s) \in 0..MaxLSN
      BY DEF GetLastHardenedLSN
    <2> QED
      BY <1>4, <2>1 DEF ReadLSN, Steps
  <1>5. CASE SelectRogues
    <2>1. [ag EXCEPT !.reason = "FencingExhausted"] \in AGStatus
      BY DEF AGStatus, Reason
    <2>2. Rogues \subseteq Server
      BY DEF Rogues, Primaries
    <2>3. CASE Rogues = {}
      BY <1>5, <2>1, <2>3, PatchTypes DEF SelectRogues, Steps
    <2>4. CASE Rogues # {}
      BY <1>5, <2>2, <2>4 DEF SelectRogues, Steps
    <2> QED
      BY <2>3, <2>4
  <1>6. CASE CutTraffic(s)
    <2>1. "secondary" \in Label
      BY DEF Label
    <2> QED
      BY <1>6, <2>1, PatchTypes DEF CutTraffic, Steps
  <1>7. CASE FenceReplica
    BY <1>7, RoleOperators DEF FenceReplica, SQLError, Steps
  <1>8. CASE FencePatch
    <2>1. \A n \in Nat, r \in Reason :
             [primary |-> legit, lastFenced |-> cur, consecutive |-> n, reason |-> r] \in AGStatus
      BY DEF AGStatus
    <2>2. ag.consecutive \in Nat
      BY DEF AGStatus
    <2>3. PICK n \in Nat, r \in Reason :
             PatchStatus([primary |-> legit, lastFenced |-> cur, consecutive |-> n, reason |-> r])
      BY <1>8, <2>2 DEF FencePatch, Reason
    <2>4. status' \in AGStatus /\ faults' \in 0..MaxFaults
      BY <2>1, <2>3, PatchTypes
    <2> QED
      BY <1>8, <2>4, ReturnTypes DEF FencePatch, Cooldown
  <1> QED
    BY <1>1, <1>2, <1>3, <1>4, <1>5, <1>6, <1>7, <1>8

(* The other steps of Reconcile keep the types. *)
LEMMA ReconcileTypes ==
  ASSUME TypeOK, NEW s \in Server,
         \/ Fetch \/ CredentialsMissing \/ Connect \/ EnsureAG \/ JoinSecondary(s)
         \/ Observe \/ Rejoin(s) \/ RejoinDone \/ SetLabel(s)
  PROVE  ClusterTypeOK' /\ AGTypeOK'
  <1> USE BoundsAssumption DEF TypeOK, ClusterTypeOK, AGTypeOK
  <1> USE DEF Goto, sqlVars, kubeVars, ghostVars
  <1>1. CASE Fetch
    BY <1>1 DEF Fetch, Steps
  <1>2. CASE CredentialsMissing
    <2>1. [ag EXCEPT !.reason = "SecretNotFound"] \in AGStatus
      BY DEF AGStatus, Reason
    <2> QED
      BY <1>2, <2>1, ReturnTypes DEF CredentialsMissing, Fault
  <1>3. CASE Connect
    BY <1>3 DEF Connect, Steps
  <1>4. CASE EnsureAG
    <2>1. CASE PrimaryReplica \notin up
      BY <1>4, <2>1, ReturnTypes DEF EnsureAG, Hosts
    <2>2. CASE PrimaryReplica \in up
      BY <1>4, <2>2, RoleOperators DEF EnsureAG, Steps
    <2> QED
      BY <2>1, <2>2
  <1>5. CASE JoinSecondary(s)
    BY <1>5, RoleOperators DEF JoinSecondary, Steps
  <1>6. CASE Observe
    <2>1. CASE Return /\ UNCHANGED status /\ (UNCHANGED faults \/ APIError)
      BY <1>6, <2>1, ReturnTypes DEF Observe, APIError, Fault
    <2>2. ASSUME NEW v \in KnownPrimaries(PrimaryReplica),
                 status' = ObservedStatus(PrimaryReplica, v),
                 ag' = ObservedStatus(PrimaryReplica, v),
                 cur' = v,
                 Goto("rejoin", Server \ (ConnectedReplicas(PrimaryReplica) \cup {v})),
                 UNCHANGED <<roles, lsns, legit, faults>>
          PROVE  ClusterTypeOK' /\ AGTypeOK'
      <3>1. v \in Server \cup {NoServer} /\ ObservedStatus(PrimaryReplica, v) \in AGStatus
        BY PrimaryReplicaType, ObservedTypes
      <3> QED
        BY <1>6, <2>2, <3>1 DEF Observe, Steps
    <2> QED
      BY <1>6, <2>1, <2>2 DEF Observe
  <1>7. CASE Rejoin(s)
    BY <1>7, RoleOperators DEF Rejoin, Steps
  <1>8. CASE RejoinDone
    <2>1. CASE Return
      BY <1>8, <2>1, ReturnTypes DEF RejoinDone
    <2>2. CASE GotoLabels(cur) /\ UNCHANGED <<ag, roles, lsns, legit>>
      BY <1>8, <2>2 DEF RejoinDone, GotoLabels, Steps
    <2> QED
      BY <1>8, <2>1, <2>2 DEF RejoinDone
  <1>9. CASE SetLabel(s)
    <2>1. DesiredRole(s, cur) \in Label
      BY DEF DesiredRole, Label
    <2>2. label' \in [Server -> Label] /\ faults' \in 0..MaxFaults
      BY <1>9, <2>1, PatchTypes DEF SetLabel
    <2>3. CASE Return
      BY <1>9, <2>2, <2>3, ReturnTypes DEF SetLabel
    <2>4. CASE Goto("labels", todo \ {s}) /\ UNCHANGED <<ag, roles, lsns, legit, cur>>
      BY <1>9, <2>2, <2>4 DEF SetLabel, Steps
    <2> QED
      BY <1>9, <2>3, <2>4 DEF SetLabel
  <1> QED
    BY <1>1, <1>2, <1>3, <1>4, <1>5, <1>6, <1>7, <1>8, <1>9

(* The steps of handleAutoFailover and the cooldown keep the types. *)
LEMMA AutoFailoverTypes ==
  ASSUME TypeOK, NEW s \in Server,
         \/ FailoverGate \/ TryCandidate(s) \/ NoCandidate \/ Adopt \/ ForceFailover
         \/ FailoverPatch \/ FenceCooldownLapses
  PROVE  ClusterTypeOK' /\ AGTypeOK'
  <1> USE BoundsAssumption DEF TypeOK, ClusterTypeOK, AGTypeOK
  <1> USE DEF Goto, sqlVars, kubeVars, ghostVars
  <1>1. CASE FailoverGate
    <2>1. CASE Return /\ (UNCHANGED faults \/ APIError)
      BY <1>1, <2>1, ReturnTypes DEF FailoverGate, APIError, Fault
    <2>2. CASE Goto("candidates", Server \ {PrimaryReplica})
               /\ UNCHANGED <<ag, roles, lsns, legit, cur, faults>>
      BY <1>1, <2>2 DEF FailoverGate, Steps
    <2> QED
      BY <1>1, <2>1, <2>2 DEF FailoverGate
  <1>2. CASE TryCandidate(s)
    BY <1>2 DEF TryCandidate, Steps
  <1>3. CASE NoCandidate
    BY <1>3, ReturnTypes DEF NoCandidate
  <1>4. CASE Adopt
    <2>1. status' \in AGStatus /\ faults' \in 0..MaxFaults
      <3>1. CASE UNCHANGED <<status, faults>>
        BY <3>1
      <3>2. ASSUME NEW v \in KnownPrimaries(cur), PatchStatus(ObservedStatus(cur, v))
            PROVE  status' \in AGStatus /\ faults' \in 0..MaxFaults
        BY <3>2, ObservedTypes, PatchTypes
      <3> QED
        BY <1>4, <3>1, <3>2 DEF Adopt
    <2> QED
      BY <1>4, <2>1, ReturnTypes DEF Adopt
  <1>5. CASE ForceFailover
    BY <1>5, RoleOperators DEF ForceFailover, SQLError, Steps
  <1>6. CASE FailoverPatch
    <2>1. [ag EXCEPT !.primary = cur, !.reason = "AutoFailoverExecuted"] \in AGStatus
      BY DEF AGStatus, Reason
    <2>2. status' \in AGStatus /\ faults' \in 0..MaxFaults
      BY <1>6, <2>1, PatchTypes DEF FailoverPatch
    <2> QED
      BY <1>6, <2>2 DEF FailoverPatch, GotoLabels, Steps, Cooldown
  <1>7. CASE FenceCooldownLapses
    BY <1>7 DEF FenceCooldownLapses, localVars
  <1> QED
    BY <1>1, <1>2, <1>3, <1>4, <1>5, <1>6, <1>7

(* What happens to the instances keeps the types. *)
LEMMA ClusterTypes == ClusterTypeOK /\ ClusterNext => ClusterTypeOK'
  <1> SUFFICES ASSUME ClusterTypeOK, ClusterNext PROVE ClusterTypeOK'
    OBVIOUS
  <1> USE BoundsAssumption DEF ClusterTypeOK, sqlVars, kubeVars
  <1>1. ASSUME NEW s \in Server, Fail(s) PROVE ClusterTypeOK'
    BY <1>1 DEF Fail, Fault
  <1>2. ASSUME NEW s \in Server, Recover(s) PROVE ClusterTypeOK'
    BY <1>2 DEF Recover, Role
  <1>3. ASSUME NEW s \in Server, Settle(s) PROVE ClusterTypeOK'
    BY <1>3 DEF Settle, Role
  <1>4. ASSUME NEW s \in Server, Reclaim(s) PROVE ClusterTypeOK'
    BY <1>4 DEF Reclaim, Role
  <1>5. ASSUME NEW s \in Server, Write(s) PROVE ClusterTypeOK'
    BY <1>5 DEF Write
  <1>6. ASSUME AutoCooldownLapses PROVE ClusterTypeOK'
    BY <1>6 DEF AutoCooldownLapses
  <1> QED
    BY <1>1, <1>2, <1>3, <1>4, <1>5, <1>6 DEF ClusterNext

(* The AGFailover controller and its users keep the types. *)
LEMMA FailoverTypes ==
  ASSUME TypeOK,
         \/ FoNext
         \/ \E t \in Server, force \in UserFailovers : CreateFailover(t, force)
  PROVE  ClusterTypeOK' /\ FoTypeOK'
  <1> USE BoundsAssumption DEF TypeOK, ClusterTypeOK, FoTypeOK, sqlVars, kubeVars, foVars
  <1>1. /\ failover.target \in Server \cup {NoServer}
        /\ \A p \in Phase : [failover EXCEPT !.phase = p] \in Failover
        /\ \A p \in Phase, q \in Server \cup {NoServer} :
              [failover EXCEPT !.phase = p, !.previousPrimary = q] \in Failover
    BY DEF Failover
  <1>2. {"Pending", "Running", "Completed", "Failed"} \subseteq Phase
    BY DEF Phase
  <1>3. ASSUME NEW t \in Server, NEW force \in UserFailovers, CreateFailover(t, force)
        PROVE  ClusterTypeOK' /\ FoTypeOK'
    <2>1. [failover EXCEPT !.phase = "Pending", !.target = t, !.force = force] \in Failover
      BY <1>2, <1>3, UserAssumption DEF Failover
    <2> QED
      BY <1>3, <2>1 DEF CreateFailover
  <1>4. CASE CheckTarget
    BY <1>1, <1>4 DEF CheckTarget
  <1>5. CASE FoCredentialsMissing
    <2>1. failover' \in Failover
      BY <1>1, <1>2, <1>5 DEF FoCredentialsMissing
    <2>2. faults' \in 0..MaxFaults
      BY <1>5 DEF FoCredentialsMissing, Fault
    <2> QED
      BY <1>5, <2>1, <2>2 DEF FoCredentialsMissing
  <1>6. CASE StartRunning
    <2>1. failover' \in Failover
      BY <1>1, <1>2, <1>6 DEF StartRunning
    <2>2. faults' \in 0..MaxFaults
      BY <1>6 DEF StartRunning, APIError, Fault
    <2> QED
      BY <1>6, <2>1, <2>2 DEF StartRunning, FoReturn
  <1>7. CASE ExecuteFailover
    <2>1. role' \in [Server -> Role]
      BY <1>7, RoleOperators DEF ExecuteFailover
    <2>2. reclaims' \in 0..MaxReclaims
      BY <1>7 DEF ExecuteFailover, SQLError
    <2> QED
      BY <1>7, <2>1, <2>2 DEF ExecuteFailover
  <1>8. CASE RecordPrevious
    <2>1. ConnectedReplicas(failover.target) \ {failover.target} \subseteq Server
      BY <1>1 DEF ConnectedReplicas
    <2> QED
      BY <1>8, <2>1 DEF RecordPrevious
  <1>9. CASE SetCompleted
    <2>1. failover' \in Failover /\ faults' \in 0..MaxFaults
      BY <1>1, <1>2, <1>9, PatchTypes DEF SetCompleted
    <2> QED
      BY <1>9, <2>1 DEF SetCompleted, FoReturn
  <1>10. CASE SetFailed
    <2>1. failover' \in Failover /\ faults' \in 0..MaxFaults
      BY <1>1, <1>2, <1>10, PatchTypes DEF SetFailed
    <2> QED
      BY <1>10, <2>1 DEF SetFailed, FoReturn
  <1> QED
    BY <1>3, <1>4, <1>5, <1>6, <1>7, <1>8, <1>9, <1>10 DEF FoNext

(* The SQLServer controller keeps the types. *)
LEMMA LabelTypes == ASSUME TypeOK, SrvNext PROVE ClusterTypeOK' /\ SrvTypeOK'
  <1> USE BoundsAssumption DEF TypeOK, ClusterTypeOK, SrvTypeOK, sqlVars, kubeVars
  <1>1. CASE CopyPrimary
    <2>1. status.primary \in Server \cup {NoServer}
      BY DEF AGStatus
    <2> QED
      BY <1>1, <2>1 DEF CopyPrimary
  <1>2. ASSUME NEW s \in Server, LabelPod(s) PROVE ClusterTypeOK' /\ SrvTypeOK'
    <2>1. DesiredRole(s, srvPrimary) \in Label
      BY DEF DesiredRole, Label
    <2> QED
      BY <1>2, <2>1, PatchTypes DEF LabelPod
  <1> QED
    BY <1>1, <1>2 DEF SrvNext

(* Every step keeps the types. *)
LEMMA TypeStep == TypeOK /\ [Next]_vars => TypeOK'
  <1> SUFFICES ASSUME TypeOK, [Next]_vars PROVE TypeOK'
    OBVIOUS
  <1>1. CASE AGStep
    <2>1. \E s \in Server : TRUE
      BY FirstReplica
    <2>2. ClusterTypeOK' /\ AGTypeOK'
      BY <1>1, <2>1, FencingTypes, ReconcileTypes, AutoFailoverTypes DEF AGStep, AGNext
    <2> QED
      BY <1>1, <2>2 DEF AGStep, TypeOK, FoTypeOK, SrvTypeOK, foVars, srvVars
  <1>2. CASE FoStep
    BY <1>2, FailoverTypes
    DEF FoStep, TypeOK, AGTypeOK, SrvTypeOK, agVars, localVars, ghostVars, srvVars
  <1>3. CASE SrvStep
    BY <1>3, LabelTypes
    DEF SrvStep, TypeOK, AGTypeOK, FoTypeOK, agVars, localVars, ghostVars, foVars
  <1>4. CASE UserStep
    <2>1. ClusterTypeOK' /\ FoTypeOK'
      BY <1>4, FailoverTypes DEF UserStep
    <2> QED
      BY <1>4, <2>1
      DEF UserStep, TypeOK, AGTypeOK, SrvTypeOK, agVars, localVars, ghostVars, srvVars
  <1>5. CASE EnvStep
    BY <1>5, ClusterTypes
    DEF EnvStep, TypeOK, AGTypeOK, FoTypeOK, SrvTypeOK, agVars, localVars, ghostVars,
        foVars, srvVars
  <1>6. CASE LapseStep
    BY <1>6, AutoFailoverTypes, FirstReplica
    DEF LapseStep, TypeOK, FoTypeOK, SrvTypeOK, foVars, srvVars
  <1>7. CASE OperatorCrash
    BY <1>7, ReturnTypes, BoundsAssumption
    DEF OperatorCrash, FoReturn, Fault, TypeOK, ClusterTypeOK, AGTypeOK, FoTypeOK, SrvTypeOK,
        ghostVars, sqlVars, kubeVars
  <1>8. CASE UNCHANGED vars
    BY <1>8
    DEF vars, clusterVars, TypeOK, ClusterTypeOK, AGTypeOK, FoTypeOK, SrvTypeOK,
        agVars, localVars, ghostVars, foVars, srvVars, sqlVars, kubeVars
  <1> QED
    BY <1>1, <1>2, <1>3, <1>4, <1>5, <1>6, <1>7, <1>8 DEF Next

(* Every variable keeps its type in every behaviour. *)
THEOREM TypeCorrect == Spec => []TypeOK
  BY TypeInit, TypeStep, PTL DEF Spec

------------------------------------------------------------------------------
(* Fencing.                                                                *)

(* The steps of Reconcile that neither start nor continue a fencing round. *)
Elsewhere == {"ensure", "join", "observe", "rejoin", "labels", "gate", "candidates",
              "adopt", "force", "failoverPatch"}

(* ScanInv and RogueInv hold once Reconcile has returned, once it has left  *)
(* the fencing, and in a step that leaves it where it is.                   *)
LEMMA LeavingFencing ==
  ASSUME \/ Return
         \/ pc' \in Elsewhere
         \/ ScanInv /\ RogueInv /\ UNCHANGED <<pc, localVars>>
  PROVE  ScanInv' /\ RogueInv'
  <1>1. CASE Return
    BY <1>1 DEF Return, ScanInv, RogueInv, FencingRound
  <1>2. CASE pc' \in Elsewhere
    BY <1>2 DEF Elsewhere, ScanInv, RogueInv, FencingRound
  <1>3. CASE ScanInv /\ RogueInv /\ UNCHANGED <<pc, localVars>>
    BY <1>3 DEF ScanInv, RogueInv, Best, Primaries, localVars
  <1> QED
    BY <1>1, <1>2, <1>3

(* Reading one more LSN keeps legit the best of those read.                 *)
LEMMA ScanStep ==
  ASSUME TypeOK, ScanInv, NEW s \in Server, ReadLSN(s)
  PROVE  ScanInv' /\ RogueInv'
  <1> DEFINE n == GetLastHardenedLSN(s)
             Seen == Primaries \ todo
  <1>1. /\ todo \subseteq Primaries
        /\ \A t \in Server : Primaries # {t}
        /\ IF todo = Primaries THEN legit = NoServer ELSE Best(Seen)
        /\ s \in todo
    BY DEF ReadLSN, ScanInv, Turn
  <1>2. /\ lsns' = [lsns EXCEPT ![s] = n]
        /\ legit' = IF Beats(s, n) THEN s ELSE legit
        /\ todo' = todo \ {s}
        /\ pc' = IF todo = {s} THEN "select" ELSE "lsns"
        /\ UNCHANGED <<ag, roles>>
    BY DEF ReadLSN, Goto
  <1>3. n \in Int /\ lsns \in [Server -> Int] /\ Primaries \subseteq Server
    BY BoundsAssumption
    DEF GetLastHardenedLSN, TypeOK, ClusterTypeOK, AGTypeOK, Primaries
  <1>4. Primaries' = Primaries
    BY <1>2 DEF Primaries
  <1> HIDE DEF n
  <1>5. /\ legit' \in Seen \cup {s}
        /\ \A t \in Seen \cup {s} :
              /\ lsns'[t] <= lsns'[legit']
              /\ lsns'[t] = lsns'[legit'] /\ t = ag.primary => legit' = t
    <2>1. CASE todo = Primaries
      <3>1. Seen = {} /\ legit' = s
        BY <1>1, <1>2, <2>1 DEF Beats
      <3> QED
        BY <1>2, <1>3, <1>4, <3>1 DEF Best
    <2>2. CASE todo # Primaries
      <3>1. /\ Best(Seen)
            /\ legit \in Seen
            /\ legit # s
            /\ s \notin Seen
        BY <1>1, <2>2 DEF Best
      <3>2. legit # NoServer
        BY <1>3, <3>1, NoServerAssumption
      <3>3. /\ lsns'[s] = n
            /\ \A t \in Seen : lsns'[t] = lsns[t] /\ lsns[t] \in Int
        BY <1>2, <1>3, <3>1, <1>1
      <3>4. CASE Beats(s, n)
        <4>1. legit' = s /\ \A t \in Seen : lsns[t] <= lsns[legit]
          BY <1>2, <3>1, <3>4 DEF Best
        <4>2. n > lsns[legit] \/ (n = lsns[legit] /\ s = ag.primary)
          BY <1>3, <3>1, <3>2, <3>3, <3>4 DEF Beats
        <4>3. \A t \in Seen : lsns[t] <= n /\ (lsns[t] = n /\ t = ag.primary => t = s)
          BY <1>3, <3>1, <3>3, <4>1, <4>2
        <4> QED
          BY <1>2, <1>3, <1>4, <3>3, <4>1, <4>3 DEF Best
      <3>5. CASE ~Beats(s, n)
        <4>1. legit' = legit /\ ~(n > lsns[legit]) /\ ~(n = lsns[legit] /\ s = ag.primary)
          BY <1>2, <3>5 DEF Beats
        <4>2. n <= lsns[legit]
          BY <1>3, <3>1, <3>3, <4>1
        <4> QED
          BY <1>2, <1>4, <3>1, <3>3, <4>1, <4>2 DEF Best
      <3> QED
        BY <3>4, <3>5
    <2> QED
      BY <2>1, <2>2
  <1>6. CASE todo = {s}
    <2>1. Seen \cup {s} = Primaries
      BY <1>1, <1>6
    <2>2. Best(Primaries)'
      BY <1>2, <1>4, <1>5, <2>1 DEF Best
    <2>3. (Primaries # {legit})'
      BY <1>1, <1>3, <1>4, <2>2 DEF Best
    <2> QED
      BY <1>2, <1>6, <2>2, <2>3 DEF ScanInv, RogueInv, FencingRound
  <1>7. CASE todo # {s}
    <2>1. (Primaries \ todo)' = Seen \cup {s} /\ todo' # Primaries'
      BY <1>1, <1>2, <1>4
    <2>2. Best(Primaries \ todo)'
      BY <1>2, <1>5, <2>1 DEF Best
    <2> QED
      BY <1>1, <1>2, <1>4, <1>7, <2>1, <2>2 DEF ScanInv, RogueInv, FencingRound
  <1> QED
    BY <1>6, <1>7

(* The other steps of a Reconcile keep ScanInv and RogueInv.                *)
LEMMA ScanReconcile ==
  ASSUME TypeOK, ScanInv, RogueInv, AGNext
  PROVE  ScanInv' /\ RogueInv'
  <1> USE DEF Goto
  <1>1. CASE Fetch \/ Connect \/ Guard
    BY <1>1 DEF Fetch, Connect, Guard, ScanInv, RogueInv, FencingRound
  <1>2. CASE CredentialsMissing \/ FencePatch \/ NoCandidate \/ Adopt
    BY <1>2, LeavingFencing DEF CredentialsMissing, FencePatch, NoCandidate, Adopt
  <1>3. CASE EnsureAG \/ Observe \/ RejoinDone \/ FailoverGate
    <2>1. Return \/ pc' \in Elsewhere
      BY <1>3 DEF EnsureAG, Observe, RejoinDone, FailoverGate, GotoLabels, Elsewhere
    <2> QED
      BY <2>1, LeavingFencing
  <1>4. CASE ForceFailover \/ FailoverPatch
    <2>1. pc' \in Elsewhere
      BY <1>4 DEF ForceFailover, FailoverPatch, GotoLabels, Elsewhere
    <2> QED
      BY <2>1, LeavingFencing
  <1>5. ASSUME NEW s \in Server, JoinSecondary(s) \/ Rejoin(s) \/ SetLabel(s) \/ TryCandidate(s)
        PROVE  ScanInv' /\ RogueInv'
    <2>1. Return \/ pc' \in Elsewhere
      BY <1>5 DEF JoinSecondary, Rejoin, SetLabel, TryCandidate, Elsewhere
    <2> QED
      BY <2>1, LeavingFencing
  <1>6. ASSUME NEW s \in Server, ReadRole(s) PROVE ScanInv' /\ RogueInv'
    BY <1>6 DEF ReadRole, ScanInv, RogueInv, FencingRound
  <1>7. ASSUME NEW s \in Server, ReadLSN(s) PROVE ScanInv' /\ RogueInv'
    BY <1>7, ScanStep
  <1>8. CASE Decide
    <2>1. CASE pc' \in Elsewhere
      BY <2>1, LeavingFencing
    <2>2. CASE Goto("lsns", Primaries) /\ \E s, t \in Primaries : s # t
      <3>1. Primaries' = Primaries /\ legit' = NoServer
        BY <1>8 DEF Decide, Primaries, ScanInv
      <3> QED
        BY <2>2, <3>1 DEF ScanInv, RogueInv, FencingRound
    <2> QED
      BY <1>8, <2>1, <2>2 DEF Decide, GotoLabels, Elsewhere
  <1>9. CASE SelectRogues
    <2>1. CASE pc' \in Elsewhere
      BY <2>1, LeavingFencing
    <2>2. CASE Goto("cut", Rogues) /\ UNCHANGED ag
      <3>1. Primaries' = Primaries /\ UNCHANGED <<lsns, legit>>
        BY <1>9 DEF SelectRogues, Primaries
      <3>2. Best(Primaries) /\ Primaries # {legit}
        BY <1>9 DEF SelectRogues, ScanInv, FencingRound
      <3>3. Rogues \subseteq Primaries \ {legit}
        BY DEF Rogues
      <3> QED
        BY <2>2, <3>1, <3>2, <3>3 DEF ScanInv, RogueInv, FencingRound, Best
    <2> QED
      BY <1>9, <2>1, <2>2 DEF SelectRogues, Elsewhere
  <1>10. ASSUME NEW s \in Server, CutTraffic(s) PROVE ScanInv' /\ RogueInv'
    <2>1. /\ Primaries' = Primaries
          /\ UNCHANGED <<lsns, legit, ag>>
          /\ pc' = "fence" /\ todo' = todo \ {s} /\ cur' = s /\ s \in todo
      BY <1>10 DEF CutTraffic, Primaries, Turn
    <2>2. Best(Primaries) /\ Primaries # {legit} /\ todo \subseteq Primaries \ {legit}
      BY <1>10 DEF CutTraffic, ScanInv, RogueInv, FencingRound
    <2> QED
      BY <2>1, <2>2 DEF ScanInv, RogueInv, FencingRound, Best
  <1>11. CASE FenceReplica
    <2>1. /\ Primaries' = Primaries
          /\ UNCHANGED <<lsns, legit, ag, cur, todo>>
          /\ pc' \in {"cut", "fencePatch"}
      BY <1>11 DEF FenceReplica, Primaries
    <2>2. /\ Best(Primaries) /\ Primaries # {legit}
          /\ todo \subseteq Primaries \ {legit}
          /\ cur \in Primaries \ {legit}
      BY <1>11 DEF FenceReplica, ScanInv, RogueInv, FencingRound
    <2> QED
      BY <2>1, <2>2 DEF ScanInv, RogueInv, FencingRound, Best
  <1> QED
    BY <1>1, <1>2, <1>3, <1>4, <1>5, <1>6, <1>7, <1>8, <1>9, <1>10, <1>11 DEF AGNext

(* WindowInv survives a step that opens no window, forgets no command and   *)
(* copies the last fenced replica at most between the status and Reconcile. *)
LEMMA WindowFrame ==
  ASSUME WindowInv,
         touched \subseteq touched',
         "fencing" \in cooling' => "fencing" \in cooling,
         status'.lastFenced = status.lastFenced
            \/ (pc # "idle" /\ status'.lastFenced = ag.lastFenced),
         pc' # "idle" => ag'.lastFenced = ag.lastFenced /\ pc # "idle",
         pc' = "fencePatch" => cur' \in touched'
  PROVE  WindowInv'
  BY DEF WindowInv

(* A patch that keeps lastFenced. *)
LEMMA PatchKeepsFenced ==
  ASSUME NEW new, PatchStatus(new), new.lastFenced = ag.lastFenced
  PROVE  status'.lastFenced \in {status.lastFenced, ag.lastFenced}
  BY DEF PatchStatus

(* The steps of a Reconcile keep WindowInv. *)
LEMMA WindowReconcile ==
  ASSUME TypeOK, RogueInv, WindowInv, AGNext
  PROVE  WindowInv'
  <1> USE DEF Goto, sqlVars, kubeVars, ghostVars
  <1>1. ag \in AGStatus /\ faults \in Int
    BY BoundsAssumption DEF TypeOK, ClusterTypeOK, AGTypeOK
  <1>2. /\ \A r : [ag EXCEPT !.reason = r].lastFenced = ag.lastFenced
        /\ \A v : [ag EXCEPT !.primary = v].lastFenced = ag.lastFenced
        /\ \A v, r : [ag EXCEPT !.primary = v, !.reason = r].lastFenced = ag.lastFenced
    BY <1>1 DEF AGStatus
  <1>3. \A p, v : ObservedStatus(p, v).lastFenced = ag.lastFenced
    BY <1>1 DEF ObservedStatus, AGStatus
  <1>4. CASE Fetch
    BY <1>4 DEF Fetch, WindowInv
  <1>5. CASE FencePatch
    <2>1. cur \in touched /\ touched' = touched /\ pc' = "idle"
      BY <1>5 DEF FencePatch, WindowInv, Return
    <2>2. \/ status'.lastFenced = cur
          \/ status' = status /\ cooling' = cooling
      BY <1>1, <1>5 DEF FencePatch, PatchStatus, APIError, Fault
    <2> QED
      BY <2>1, <2>2 DEF WindowInv
  <1>6. CASE FenceReplica
    <2>1. /\ touched' = touched \cup {cur}
          /\ UNCHANGED <<cur, ag, status, cooling>>
          /\ pc = "fence" /\ pc' # "idle"
      BY <1>6 DEF FenceReplica
    <2> QED
      BY <2>1 DEF WindowInv
  <1>7. CASE CredentialsMissing \/ NoCandidate \/ EnsureAG \/ RejoinDone \/ Connect
             \/ Guard \/ FailoverGate \/ ForceFailover
    <2>1. /\ pc # "idle"
          /\ UNCHANGED <<touched, cooling>>
          /\ status'.lastFenced \in {status.lastFenced, ag.lastFenced}
          /\ pc' # "fencePatch"
          /\ pc' = "idle" \/ ag' = ag
      BY <1>2, <1>7
      DEF CredentialsMissing, NoCandidate, EnsureAG, RejoinDone, Connect, Guard, FailoverGate,
          ForceFailover, GotoLabels, Return
    <2> QED
      BY <2>1, WindowFrame
  <1>8. CASE Decide
    <2>1. /\ pc # "idle"
          /\ UNCHANGED <<touched, cooling, status>>
          /\ pc' # "fencePatch"
          /\ ag'.lastFenced = ag.lastFenced
      BY <1>2, <1>8 DEF Decide, GotoLabels
    <2> QED
      BY <2>1, WindowFrame
  <1>9. CASE SelectRogues
    <2>1. /\ pc # "idle"
          /\ UNCHANGED <<touched, cooling>>
          /\ pc' # "fencePatch"
          /\ ag'.lastFenced = ag.lastFenced
          /\ status'.lastFenced \in {status.lastFenced, ag.lastFenced}
      BY <1>2, <1>9, PatchKeepsFenced DEF SelectRogues
    <2> QED
      BY <2>1, WindowFrame
  <1>10. CASE Observe \/ Adopt
    <2>1. /\ pc # "idle"
          /\ UNCHANGED <<touched, cooling>>
          /\ pc' # "fencePatch"
          /\ pc' = "idle" \/ ag'.lastFenced = ag.lastFenced
          /\ status'.lastFenced \in {status.lastFenced, ag.lastFenced}
      BY <1>3, <1>10, PatchKeepsFenced DEF Observe, Adopt, Return
    <2> QED
      BY <2>1, WindowFrame
  <1>11. CASE FailoverPatch
    <2>1. /\ pc # "idle"
          /\ touched' = touched
          /\ "fencing" \in cooling' => "fencing" \in cooling
          /\ pc' # "fencePatch"
          /\ ag' = ag
          /\ status'.lastFenced \in {status.lastFenced, ag.lastFenced}
      BY <1>2, <1>11, PatchKeepsFenced DEF FailoverPatch, GotoLabels
    <2> QED
      BY <2>1, WindowFrame
  <1>12. ASSUME NEW s \in Server,
                \/ ReadRole(s) \/ ReadLSN(s) \/ CutTraffic(s) \/ JoinSecondary(s)
                \/ Rejoin(s) \/ SetLabel(s) \/ TryCandidate(s)
         PROVE  WindowInv'
    <2>1. /\ pc # "idle"
          /\ UNCHANGED <<touched, cooling, status>>
          /\ pc' # "fencePatch"
          /\ pc' = "idle" \/ ag' = ag
      BY <1>12
      DEF ReadRole, ReadLSN, CutTraffic, JoinSecondary, Rejoin, SetLabel, TryCandidate, Return
    <2> QED
      BY <2>1, WindowFrame
  <1> QED
    BY <1>4, <1>5, <1>6, <1>7, <1>8, <1>9, <1>10, <1>11, <1>12 DEF AGNext

(* Every step keeps FencingInv. *)
LEMMA FencingStep == TypeOK /\ FencingInv /\ [Next]_vars => FencingInv'
  <1> SUFFICES ASSUME TypeOK, FencingInv, [Next]_vars PROVE FencingInv'
    OBVIOUS
  <1> USE DEF FencingInv
  <1>1. CASE AGStep
    BY <1>1, ScanReconcile, WindowReconcile DEF AGStep
  <1>2. CASE FoStep \/ UserStep \/ SrvStep \/ EnvStep \/ UNCHANGED vars
    <2>1. UNCHANGED agVars /\ UNCHANGED status
      BY <1>2
      DEF FoStep, FoNext, CheckTarget, FoCredentialsMissing, StartRunning, ExecuteFailover,
          RecordPrevious, SetCompleted, SetFailed, UserStep, CreateFailover, SrvStep, SrvNext,
          CopyPrimary, LabelPod, EnvStep, ClusterNext, Fail, Recover, Settle, Reclaim, Write,
          AutoCooldownLapses, vars, clusterVars, kubeVars
    <2>2. cooling' \subseteq cooling
      BY <1>2
      DEF FoStep, FoNext, CheckTarget, FoCredentialsMissing, StartRunning, ExecuteFailover,
          RecordPrevious, SetCompleted, SetFailed, UserStep, CreateFailover, SrvStep, SrvNext,
          CopyPrimary, LabelPod, EnvStep, ClusterNext, Fail, Recover, Settle, Reclaim, Write,
          AutoCooldownLapses, vars, clusterVars
    <2>3. ScanInv' /\ RogueInv'
      BY <2>1, LeavingFencing DEF agVars
    <2>4. WindowInv'
      BY <2>1, <2>2 DEF WindowInv, agVars, localVars, ghostVars
    <2> QED
      BY <2>3, <2>4
  <1>3. CASE LapseStep
    <2>1. UNCHANGED <<pc, localVars>>
      BY <1>3 DEF LapseStep, FenceCooldownLapses
    <2>2. "fencing" \notin cooling' /\ (pc = "fencePatch" /\ cur \in touched => cur \in touched')
      BY <1>3 DEF LapseStep, FenceCooldownLapses
    <2> QED
      BY <2>1, <2>2, LeavingFencing DEF WindowInv, localVars
  <1>4. CASE OperatorCrash
    <2>1. Return /\ UNCHANGED <<status, cooling, touched>>
      BY <1>4 DEF OperatorCrash, kubeVars, ghostVars
    <2>2. WindowInv'
      BY <2>1 DEF WindowInv, Return
    <2> QED
      BY <2>1, <2>2, LeavingFencing
  <1> QED
    BY <1>1, <1>2, <1>3, <1>4 DEF Next

(* FencingInv is an invariant of the specification. *)
THEOREM FencingInvariant == Spec => []FencingInv
  <1>1. Init => FencingInv
    BY DEF Init, AGInit, ClusterInit, FencingInv, ScanInv, RogueInv, WindowInv, FencingRound
  <1> QED
    BY <1>1, FencingStep, TypeCorrect, PTL DEF Spec

(* For every number of replicas, whatever fails in between: a fencing round *)
(* keeps a primary with the highest LSN of those it read, and the primary   *)
(* of the status when that one has it.                                      *)
THEOREM TiebreakCorrect == Spec => []LegitimateHasHighestLSN
  <1>1. FencingInv => LegitimateHasHighestLSN
    BY DEF FencingInv, ScanInv, LegitimateHasHighestLSN
  <1> QED
    BY <1>1, FencingInvariant, PTL

(* A fencing command never changes the replica the round keeps. *)
THEOREM FencingSparesLegitimateCorrect == Spec => FencingSparesLegitimate
  <1>1. TypeOK /\ FencingInv /\ [Next]_vars =>
           [pc = "fence" /\ pc' # "fence" =>
              \A s \in Server : role'[s] # role[s] =>
                 s # legit /\ s \in Primaries /\ lsns[s] <= lsns[legit]]_vars
    <2> SUFFICES ASSUME TypeOK, FencingInv, Next, pc = "fence", pc' # "fence",
                        NEW s \in Server, role'[s] # role[s]
                 PROVE  s # legit /\ s \in Primaries /\ lsns[s] <= lsns[legit]
      OBVIOUS
    <2>1. CASE FenceReplica
      <3>1. s = cur
        BY <2>1 DEF FenceReplica, DropAG, SetAGRoleSecondary, TypeOK, ClusterTypeOK
      <3>2. cur \in Primaries \ {legit} /\ Best(Primaries)
        BY DEF FencingInv, ScanInv, RogueInv, FencingRound
      <3> QED
        BY <3>1, <3>2 DEF Best
    <2>2. CASE OperatorCrash
      BY <2>2 DEF OperatorCrash, sqlVars
    <2>3. CASE FoStep \/ SrvStep \/ UserStep \/ EnvStep \/ LapseStep
      BY <2>3 DEF FoStep, SrvStep, UserStep, EnvStep, LapseStep, FenceCooldownLapses, agVars
    <2>4. CASE AGStep
      <3>1. FenceReplica
        BY <2>4
        DEF AGStep, AGNext, Fetch, CredentialsMissing, Connect, Guard, Decide, SelectRogues,
            FencePatch, EnsureAG, Observe, RejoinDone, FailoverGate, NoCandidate, Adopt,
            ForceFailover, FailoverPatch, ReadRole, ReadLSN, CutTraffic, JoinSecondary, Rejoin,
            SetLabel, TryCandidate
      <3> QED
        BY <3>1, <2>1
    <2> QED
      BY <2>1, <2>2, <2>3, <2>4 DEF Next
  <1> QED
    BY <1>1, TypeCorrect, FencingInvariant, PTL DEF Spec, FencingSparesLegitimate

(* Only DROP AVAILABILITY GROUP removes the group from an instance.         *)
LEMMA RolesStay ==
  ASSUME TypeOK, NEW t, NEW s \in Server, role[s] # "ABSENT"
  PROVE  /\ SetAGRoleSecondary(t)[s] # "ABSENT"
         /\ CreateAG(t)[s] # "ABSENT"
         /\ JoinAG(t)[s] # "ABSENT"
         /\ \A f \in ForceFailoverAG(t) \cup FailoverAG(t) : f[s] # "ABSENT"
  <1>1. \A D : Demote(D, t)[s] # "ABSENT"
    BY DEF Demote
  <1>2. \A f \in ForceFailoverAG(t) \cup FailoverAG(t) : f[s] # "ABSENT"
    BY <1>1 DEF ForceFailoverAG, FailoverAG
  <1> QED
    BY <1>2 DEF SetAGRoleSecondary, CreateAG, JoinAG, TypeOK, ClusterTypeOK

(* Only fenceReplica takes the group away from an instance.                 *)
LEMMA OnlyFencingDrops ==
  ASSUME TypeOK, [Next]_vars, NEW s \in Server, role[s] # "ABSENT", role'[s] = "ABSENT"
  PROVE  FenceReplica
  <1> USE DEF sqlVars, Goto
  <1>1. role' # role
    OBVIOUS
  <1>2. ~EnsureAG /\ ~ForceFailover /\ \A t \in Server : ~JoinSecondary(t) /\ ~Rejoin(t)
    BY <1>1, RolesStay DEF EnsureAG, ForceFailover, JoinSecondary, Rejoin
  <1>3. ~FoStep
    <2> SUFFICES ASSUME FoStep PROVE FALSE
      OBVIOUS
    <2>1. ExecuteFailover
      BY <1>1
      DEF FoStep, FoNext, CheckTarget, FoCredentialsMissing, StartRunning, RecordPrevious,
          SetCompleted, SetFailed
    <2> QED
      BY <1>1, <2>1, RolesStay DEF ExecuteFailover
  <1>4. ~EnvStep
    BY <1>1
    DEF EnvStep, ClusterNext, Fail, Recover, Settle, Reclaim, Write, AutoCooldownLapses,
        TypeOK, ClusterTypeOK
  <1>5. CASE AGStep
    BY <1>1, <1>2, <1>5
    DEF AGStep, AGNext, Fetch, CredentialsMissing, Connect, Guard, Decide, SelectRogues,
        FencePatch, Observe, RejoinDone, FailoverGate, NoCandidate, Adopt, FailoverPatch,
        ReadRole, ReadLSN, CutTraffic, SetLabel, TryCandidate
  <1>6. ~(SrvStep \/ UserStep \/ LapseStep \/ OperatorCrash \/ UNCHANGED vars)
    BY <1>1
    DEF SrvStep, SrvNext, CopyPrimary, LabelPod, UserStep, CreateFailover, LapseStep,
        FenceCooldownLapses, OperatorCrash, vars, clusterVars
  <1> QED
    BY <1>3, <1>4, <1>5, <1>6 DEF Next

(* Hard fencing hits only replicas that were fenced before in the window.   *)
THEOREM HardFencingOnlyRepeatsCorrect == Spec => HardFencingOnlyRepeats
  <1>1. TypeOK /\ FencingInv /\ [Next]_vars =>
           [\A s \in Server : role[s] # "ABSENT" /\ role'[s] = "ABSENT" => s \in touched]_vars
    <2> SUFFICES ASSUME TypeOK, FencingInv, [Next]_vars,
                        NEW s \in Server, role[s] # "ABSENT", role'[s] = "ABSENT"
                 PROVE  s \in touched
      OBVIOUS
    <2>1. FenceReplica
      BY OnlyFencingDrops
    <2>2. HardFencing /\ role' = DropAG(cur) /\ pc = "fence"
      BY <2>1, RolesStay DEF FenceReplica
    <2>3. s = cur
      BY <2>2 DEF DropAG, TypeOK, ClusterTypeOK
    <2>4. ag.lastFenced \in touched \cup {NoServer}
      BY <2>2 DEF HardFencing, FencingInv, WindowInv
    <2> QED
      BY <2>2, <2>3, <2>4, NoServerAssumption DEF HardFencing
  <1> QED
    BY <1>1, TypeCorrect, FencingInvariant, PTL DEF Spec, HardFencingOnlyRepeats

------------------------------------------------------------------------------
(* Where the group is created.                                             *)

(* s has hosted the group: it still does, or hard fencing removed it.       *)
Hosted(s) == s \in Server => role[s] # "ABSENT" \/ s \in dropped

(* Every replica the controller may take for the primary has hosted the     *)
(* group, and the first replica of the spec is the first to host it.        *)
HostedInv ==
    /\ Hosted(status.primary)
    /\ Hosted(ag.primary)
    /\ \A s \in Primaries : Hosted(s)
    /\ pc \in {"adopt", "force", "failoverPatch"} => Hosted(cur)
    /\ pc \in {"join", "rejoin"} => Hosted(Replicas[1])
    /\ \A s \in Server : role[s] # "ABSENT" \/ s \in dropped => Hosted(Replicas[1])

(* dropped only grows, by replicas that hosted the group. *)
LEMMA DroppedGrows ==
  ASSUME [Next]_vars
  PROVE  dropped \subseteq dropped' /\ \A s \in dropped' \ dropped : role[s] # "ABSENT"
  BY DEF Next, AGStep, AGNext, Fetch, CredentialsMissing, Connect, Guard, Decide, SelectRogues,
         FenceReplica, FencePatch, EnsureAG, Observe, RejoinDone, FailoverGate, NoCandidate,
         Adopt, ForceFailover, FailoverPatch, ReadRole, ReadLSN, CutTraffic, JoinSecondary,
         Rejoin, SetLabel, TryCandidate, FoStep, SrvStep, UserStep, EnvStep, LapseStep,
         FenceCooldownLapses, OperatorCrash, vars, agVars, ghostVars

(* A replica that has hosted the group has done so for ever. *)
LEMMA HostedStays ==
  ASSUME TypeOK, [Next]_vars
  PROVE  \A s : Hosted(s) => Hosted(s)'
  <1>1. dropped \subseteq dropped'
    BY DroppedGrows
  <1>2. ASSUME NEW s \in Server, role[s] # "ABSENT", role'[s] = "ABSENT" PROVE s \in dropped'
    <2>1. FenceReplica
      BY <1>2, OnlyFencingDrops
    <2>2. \A t \in Server : t # cur => role'[t] = role[t]
      BY <2>1 DEF FenceReplica, DropAG, SetAGRoleSecondary, TypeOK, ClusterTypeOK
    <2> QED
      BY <1>2, <2>1, <2>2 DEF FenceReplica
  <1> QED
    BY <1>1, <1>2 DEF Hosted

(* What a step has to show of HostedInv, once HostedStays is known: where   *)
(* the primaries it writes come from, and who may newly host the group.     *)
LEMMA HostedFrame ==
  ASSUME TypeOK, HostedInv, [Next]_vars,
         Hosted(status'.primary), Hosted(ag'.primary),
         \A s \in Primaries' : Hosted(s),
         pc' \in {"adopt", "force", "failoverPatch"} => Hosted(cur'),
         pc' \in {"join", "rejoin"} => Hosted(Replicas[1])',
         \A s \in Server : role[s] = "ABSENT" /\ role'[s] # "ABSENT" => Hosted(Replicas[1])'
  PROVE  HostedInv'
  <1>1. \A s : Hosted(s) => Hosted(s)'
    BY HostedStays
  <1>2. Hosted(status.primary)' /\ Hosted(ag.primary)'
    BY <1>1 DEF Hosted
  <1>3. \A s \in Primaries' : Hosted(s)'
    BY <1>1
  <1>4. pc' \in {"adopt", "force", "failoverPatch"} => Hosted(cur)'
    BY <1>1 DEF Hosted
  <1>5. \A s \in Server : role'[s] # "ABSENT" \/ s \in dropped' => Hosted(Replicas[1])'
    <2> SUFFICES ASSUME NEW s \in Server, role'[s] # "ABSENT" \/ s \in dropped'
                 PROVE  Hosted(Replicas[1])'
      OBVIOUS
    <2>1. CASE role[s] # "ABSENT" \/ s \in dropped
      BY <1>1, <2>1 DEF HostedInv
    <2>2. CASE role[s] = "ABSENT" /\ s \notin dropped
      BY <2>2, DroppedGrows
    <2> QED
      BY <2>1, <2>2
  <1> QED
    BY <1>2, <1>3, <1>4, <1>5 DEF HostedInv

(* The steps of a Reconcile keep HostedInv. *)
LEMMA HostedReconcile ==
  ASSUME TypeOK, FencingInv, HostedInv, [Next]_vars, AGNext
  PROVE  HostedInv'
  <1> USE DEF Goto, sqlVars, kubeVars, HostedInv
  <1>1. \A s : Hosted(s) => Hosted(s)'
    BY HostedStays
  <1>2. Hosted(NoServer) /\ Hosted(NoAG.primary) /\ \A s \in Server : NoRoles[s] # "PRIMARY"
    BY NoServerAssumption DEF Hosted, NoAG, NoRoles
  <1>3. /\ ag \in AGStatus /\ role \in [Server -> Role]
        /\ roles \in [Server -> Role \cup {"unreachable"}]
    BY DEF TypeOK, ClusterTypeOK, AGTypeOK
  <1>4. /\ \A r : [ag EXCEPT !.reason = r].primary = ag.primary
        /\ \A v : [ag EXCEPT !.primary = v].primary = v
        /\ \A v, r : [ag EXCEPT !.primary = v, !.reason = r].primary = v
        /\ \A p, v : ObservedStatus(p, v).primary = v
    BY <1>3 DEF AGStatus, ObservedStatus
  <1>5. \A p : Hosts(p) => Hosted(p) /\ \A v \in KnownPrimaries(p) : Hosted(v)
    BY <1>2 DEF Hosts, KnownPrimaries, UpPrimaries, Hosted
  <1>6. CASE Fetch
    <2>1. ag' = status /\ Primaries' = Primaries /\ UNCHANGED <<role, status>> /\ pc' = "connect"
      BY <1>6 DEF Fetch, Primaries
    <2> QED
      BY <2>1, HostedFrame
  <1>7. CASE \/ Connect \/ Guard \/ CredentialsMissing \/ FailoverGate \/ NoCandidate
             \/ RejoinDone
    <2>1. /\ status'.primary \in {status.primary, ag.primary}
          /\ ag' \in {ag, NoAG}
          /\ roles' \in {roles, NoRoles}
          /\ role' = role
          /\ pc' \notin {"adopt", "force", "failoverPatch", "join", "rejoin"}
      BY <1>4, <1>7
      DEF Connect, Guard, CredentialsMissing, FailoverGate, NoCandidate, RejoinDone, GotoLabels,
          Return
    <2>2. \A s \in Primaries' : Hosted(s)
      BY <1>2, <2>1 DEF Primaries
    <2> QED
      BY <1>2, <2>1, <2>2, HostedFrame
  <1>8. CASE Decide
    <2>1. /\ UNCHANGED <<role, roles, status>>
          /\ ag'.primary = ag.primary \/ ag'.primary \in Primaries
          /\ pc' \notin {"adopt", "force", "failoverPatch", "join", "rejoin"}
      BY <1>4, <1>8 DEF Decide, GotoLabels
    <2>2. Primaries' = Primaries
      BY <2>1 DEF Primaries
    <2> QED
      BY <2>1, <2>2, HostedFrame
  <1>9. CASE SelectRogues
    <2>1. /\ UNCHANGED <<role, roles>>
          /\ status'.primary \in {status.primary, ag.primary}
          /\ ag'.primary = ag.primary
          /\ pc' \notin {"adopt", "force", "failoverPatch", "join", "rejoin"}
      BY <1>4, <1>9 DEF SelectRogues, PatchStatus
    <2>2. Primaries' = Primaries
      BY <2>1 DEF Primaries
    <2> QED
      BY <2>1, <2>2, HostedFrame
  <1>10. CASE FenceReplica
    <2>1. /\ UNCHANGED <<ag, roles, status>>
          /\ pc' \notin {"adopt", "force", "failoverPatch", "join", "rejoin"}
          /\ \A s \in Server : role[s] = "ABSENT" => role'[s] = "ABSENT"
      BY <1>3, <1>10 DEF FenceReplica, Hosts, DropAG, SetAGRoleSecondary
    <2>2. Primaries' = Primaries
      BY <2>1 DEF Primaries
    <2> QED
      BY <2>1, <2>2, HostedFrame
  <1>11. CASE FencePatch
    <2>1. legit \in Primaries
      BY <1>11 DEF FencePatch, FencingInv, ScanInv, FencingRound, Best
    <2>2. /\ role' = role /\ ag' = NoAG /\ roles' = NoRoles /\ pc' = "idle"
          /\ status'.primary \in {status.primary, legit}
      BY <1>11 DEF FencePatch, PatchStatus, Return
    <2>3. Primaries' = {}
      BY <1>2, <2>2 DEF Primaries
    <2> QED
      BY <1>2, <2>1, <2>2, <2>3, HostedFrame
  <1>12. CASE EnsureAG
    <2>1. /\ ag' \in {ag, NoAG} /\ roles' \in {roles, NoRoles} /\ status' = status
          /\ pc' \notin {"adopt", "force", "failoverPatch", "rejoin"}
      BY <1>12 DEF EnsureAG, Return
    <2>2. \A s \in Primaries' : Hosted(s)
      BY <1>2, <2>1 DEF Primaries
    <2>3. CASE role' = role /\ pc' # "join"
      BY <1>2, <2>1, <2>2, <2>3, HostedFrame
    <2>4. CASE PrimaryReplica \in up /\ role' = CreateAG(PrimaryReplica)
      <3>1. PrimaryReplica \in Server /\ role'[PrimaryReplica] = "PRIMARY"
        BY <1>3, <2>4, PrimaryReplicaType DEF CreateAG
      <3>2. Hosted(Replicas[1])'
        <4>1. CASE ag.primary \in Server
          <5>1. role[ag.primary] # "ABSENT" \/ ag.primary \in dropped
            BY <4>1 DEF Hosted
          <5> QED
            BY <1>1, <4>1, <5>1
        <4>2. CASE ag.primary \notin Server
          BY <3>1, <4>2 DEF Hosted, PrimaryReplica
        <4> QED
          BY <4>1, <4>2
      <3> QED
        BY <1>2, <2>1, <2>2, <3>2, HostedFrame
    <2> QED
      BY <1>12, <2>3, <2>4 DEF EnsureAG, Return
  <1>13. CASE Observe
    <2>1. CASE Return /\ UNCHANGED status
      <3>1. ag' = NoAG /\ roles' = NoRoles /\ role' = role /\ pc' = "idle"
        BY <1>13, <2>1 DEF Observe, Return
      <3>2. Primaries' = {}
        BY <1>2, <3>1 DEF Primaries
      <3> QED
        BY <1>2, <2>1, <3>1, <3>2, HostedFrame
    <2>2. ASSUME NEW v \in KnownPrimaries(PrimaryReplica), Hosts(PrimaryReplica),
                 status' = ObservedStatus(PrimaryReplica, v),
                 ag' = ObservedStatus(PrimaryReplica, v),
                 pc' = "rejoin", UNCHANGED roles
          PROVE  HostedInv'
      <3>1. Hosted(v) /\ status'.primary = v /\ ag'.primary = v
        BY <1>4, <1>5, <2>2
      <3>2. Hosted(Replicas[1])'
        BY <1>1, <2>2, PrimaryReplicaType DEF Hosts
      <3>3. role' = role /\ Primaries' = Primaries
        BY <1>13, <2>2 DEF Observe, Primaries
      <3> QED
        BY <2>2, <3>1, <3>2, <3>3, HostedFrame
    <2> QED
      BY <1>13, <2>1, <2>2 DEF Observe
  <1>14. CASE Adopt
    <2>1. /\ role' = role /\ ag' = NoAG /\ roles' = NoRoles /\ pc' = "idle"
          /\ Hosted(status'.primary)
      BY <1>4, <1>5, <1>14 DEF Adopt, PatchStatus, Return
    <2>2. Primaries' = {}
      BY <1>2, <2>1 DEF Primaries
    <2> QED
      BY <1>2, <2>1, <2>2, HostedFrame
  <1>15. CASE ForceFailover
    <2>1. /\ UNCHANGED <<ag, roles, status, cur>> /\ pc = "force"
          /\ pc' \notin {"join", "rejoin"}
      BY <1>15 DEF ForceFailover
    <2>2. Primaries' = Primaries
      BY <2>1 DEF Primaries
    <2>3. role' # role => Hosts(cur) /\ role' \in ForceFailoverAG(cur)
      BY <1>15 DEF ForceFailover
    <2>4. \A s \in Server : role[s] = "ABSENT" /\ role'[s] # "ABSENT" => s = cur
      BY <1>3, <2>3 DEF ForceFailoverAG, Demote, UpPrimaries
    <2>5. \A s \in Server : role[s] = "ABSENT" => role'[s] = "ABSENT"
      BY <2>3, <2>4 DEF Hosts
    <2> QED
      BY <2>1, <2>2, <2>5, HostedFrame
  <1>16. CASE FailoverPatch
    <2>1. UNCHANGED <<ag, roles, role>> /\ pc = "failoverPatch" /\ pc' = "labels"
      BY <1>16 DEF FailoverPatch, GotoLabels
    <2>2. \/ status' = [ag EXCEPT !.primary = cur, !.reason = "AutoFailoverExecuted"]
          \/ status' = status
      BY <1>16 DEF FailoverPatch, PatchStatus
    <2>3. status'.primary \in {status.primary, cur}
      BY <1>3, <2>2 DEF AGStatus
    <2>4. Primaries' = Primaries
      BY <2>1 DEF Primaries
    <2> QED
      BY <2>1, <2>3, <2>4, HostedFrame
  <1>17. ASSUME NEW s \in Server, ReadRole(s) PROVE HostedInv'
    <2>1. /\ UNCHANGED <<ag, role, status>>
          /\ pc' \notin {"adopt", "force", "failoverPatch", "join", "rejoin"}
          /\ roles' = [roles EXCEPT ![s] = GetAGReplicaRole(s)]
      BY <1>17 DEF ReadRole
    <2>2. \A t \in Primaries' : t \in Primaries \/ (t = s /\ role[s] = "PRIMARY")
      BY <1>3, <2>1 DEF Primaries, GetAGReplicaRole
    <2>3. \A t \in Primaries' : Hosted(t)
      BY <2>2 DEF Hosted
    <2> QED
      BY <2>1, <2>3, HostedFrame
  <1>18. ASSUME NEW s \in Server, JoinSecondary(s) \/ Rejoin(s) PROVE HostedInv'
    <2>1. /\ UNCHANGED <<ag, roles, status>>
          /\ pc' \notin {"adopt", "force", "failoverPatch"}
          /\ Hosted(Replicas[1])
      BY <1>18 DEF JoinSecondary, Rejoin
    <2>2. Primaries' = Primaries
      BY <2>1 DEF Primaries
    <2>3. Hosted(Replicas[1])'
      BY <1>1, <2>1
    <2> QED
      BY <2>1, <2>2, <2>3, HostedFrame
  <1>19. ASSUME NEW s \in Server, ReadLSN(s) \/ CutTraffic(s) \/ SetLabel(s)
         PROVE  HostedInv'
    <2>1. /\ UNCHANGED <<role, status>> /\ ag' \in {ag, NoAG} /\ roles' \in {roles, NoRoles}
          /\ pc' \notin {"adopt", "force", "failoverPatch", "join", "rejoin"}
      BY <1>19 DEF ReadLSN, CutTraffic, SetLabel, Return
    <2>2. \A t \in Primaries' : Hosted(t)
      BY <1>2, <2>1 DEF Primaries
    <2> QED
      BY <1>2, <2>1, <2>2, HostedFrame
  <1>20. ASSUME NEW s \in Server, TryCandidate(s) PROVE HostedInv'
    <2>1. /\ UNCHANGED <<ag, roles, role, status>> /\ cur' = s
          /\ pc' \notin {"failoverPatch", "join", "rejoin"}
          /\ pc' \in {"adopt", "force"} => Hosts(s)
      BY <1>20 DEF TryCandidate
    <2>2. Primaries' = Primaries
      BY <2>1 DEF Primaries
    <2> QED
      BY <1>5, <2>1, <2>2, HostedFrame
  <1> QED
    BY <1>6, <1>7, <1>8, <1>9, <1>10, <1>11, <1>12, <1>13, <1>14, <1>15, <1>16, <1>17, <1>18,
       <1>19, <1>20 DEF AGNext

(* Every step keeps HostedInv. *)
LEMMA HostedStep == TypeOK /\ FencingInv /\ HostedInv /\ [Next]_vars => HostedInv'
  <1> SUFFICES ASSUME TypeOK, FencingInv, HostedInv, [Next]_vars PROVE HostedInv'
    OBVIOUS
  <1>1. CASE AGStep
    BY <1>1, HostedReconcile DEF AGStep
  <1>2. CASE FoStep \/ EnvStep \/ SrvStep \/ UserStep \/ LapseStep \/ UNCHANGED vars
    <2>1. UNCHANGED <<ag, roles, pc, cur, status>>
      BY <1>2
      DEF FoStep, FoNext, CheckTarget, FoCredentialsMissing, StartRunning, ExecuteFailover,
          RecordPrevious, SetCompleted, SetFailed, UserStep, CreateFailover, SrvStep, SrvNext,
          CopyPrimary, LabelPod, EnvStep, ClusterNext, Fail, Recover, Settle, Reclaim, Write,
          AutoCooldownLapses, LapseStep, FenceCooldownLapses, vars, clusterVars, kubeVars, agVars,
          localVars
    <2>2. Primaries' = Primaries
      BY <2>1 DEF Primaries
    <2>3. \A s \in Server : role[s] = "ABSENT" => role'[s] = "ABSENT"
      <3>1. CASE FoStep
        <4>1. role' # role => ExecuteFailover
          BY <3>1
          DEF FoStep, FoNext, CheckTarget, FoCredentialsMissing, StartRunning, RecordPrevious,
              SetCompleted, SetFailed, sqlVars
        <4>2. role' # role =>
                 /\ Hosts(failover.target)
                 /\ role' \in ForceFailoverAG(failover.target) \cup FailoverAG(failover.target)
          BY <4>1 DEF ExecuteFailover
        <4> QED
          BY <4>2 DEF ForceFailoverAG, FailoverAG, Demote, UpPrimaries, Hosts
      <3>2. CASE EnvStep
        BY <3>2
        DEF EnvStep, ClusterNext, Fail, Recover, Settle, Reclaim, Write, AutoCooldownLapses,
            sqlVars, TypeOK, ClusterTypeOK
      <3>3. CASE SrvStep \/ UserStep \/ LapseStep \/ UNCHANGED vars
        BY <3>3
        DEF SrvStep, SrvNext, CopyPrimary, LabelPod, UserStep, CreateFailover, LapseStep,
            FenceCooldownLapses, vars, clusterVars, sqlVars
      <3> QED
        BY <1>2, <3>1, <3>2, <3>3
    <2>4. \A s : Hosted(s) => Hosted(s)'
      BY HostedStays
    <2> QED
      BY <2>1, <2>2, <2>3, <2>4, HostedFrame DEF HostedInv
  <1>3. CASE OperatorCrash
    <2>1. /\ UNCHANGED <<role, status>> /\ ag' = NoAG /\ pc' = "idle" /\ roles' = NoRoles
      BY <1>3 DEF OperatorCrash, Return, sqlVars, kubeVars
    <2>2. Primaries' = {} /\ Hosted(NoAG.primary)
      BY <2>1, NoServerAssumption DEF Primaries, NoRoles, NoAG, Hosted
    <2> QED
      BY <2>1, <2>2, HostedFrame DEF HostedInv
  <1> QED
    BY <1>1, <1>2, <1>3 DEF Next

(* Initially no replica has hosted the group, and none is taken for primary. *)
LEMMA HostedInit == Init => HostedInv
  BY NoServerAssumption
  DEF Init, ClusterInit, AGInit, HostedInv, Hosted, NoAG, Primaries, NoRoles

(* For any number of replicas and faults, the group is created only while   *)
(* no instance hosts it, or where hard fencing has removed it.              *)
THEOREM CreatedOnceCorrect == Spec => CreatedOnce
  <1>1. TypeOK /\ HostedInv /\ [Next]_vars =>
           [pc = "ensure" /\ pc' = "join" =>
              PrimaryReplica \in dropped \/ \A s \in Server : role[s] = "ABSENT"]_vars
    <2> SUFFICES ASSUME TypeOK, HostedInv, Next, pc = "ensure", pc' = "join",
                        PrimaryReplica \notin dropped, NEW s \in Server
                 PROVE  role[s] = "ABSENT"
      OBVIOUS
    <2>1. EnsureAG
      BY DEF Next, AGStep, AGNext, Fetch, CredentialsMissing, Connect, Guard, Decide,
             SelectRogues, FenceReplica, FencePatch, Observe, RejoinDone, FailoverGate,
             NoCandidate, Adopt, ForceFailover, FailoverPatch, ReadRole, ReadLSN, CutTraffic,
             JoinSecondary, Rejoin, SetLabel, TryCandidate, FoStep, SrvStep, UserStep, EnvStep,
             LapseStep, FenceCooldownLapses, OperatorCrash, Return, agVars, localVars
    <2>2. role[PrimaryReplica] = "ABSENT"
      BY <2>1 DEF EnsureAG, Return, Goto
    <2>3. PrimaryReplica = Replicas[1]
      BY <2>2 DEF PrimaryReplica, HostedInv, Hosted
    <2> QED
      BY <2>2, <2>3, FirstReplica DEF HostedInv, Hosted
  <1> QED
    BY <1>1, HostedInit, HostedStep, TypeCorrect, FencingInvariant, PTL DEF Spec, CreatedOnce

------------------------------------------------------------------------------
(* The circuit breaker.                                                    *)

(* A rogue has been chosen and the round is not yet recorded.               *)
Unrecorded == pc \in {"cut", "fence", "fencePatch"}

(* The consecutive fencing rounds against s that the status knows of.       *)
Recorded(s) == IF "fencing" \in cooling /\ status.lastFenced = s THEN status.consecutive ELSE 0

(* Reconcile's copy of the fencing record is that of the stored status; and *)
(* a replica has been fenced no more often than the record says, but for    *)
(* the running round and one round per crash or lost patch.                 *)
BreakerInv ==
    /\ pc # "idle" => /\ ag.lastFenced = status.lastFenced
                      /\ ag.consecutive = status.consecutive
    /\ Unrecorded => fences[legit] = 0
    /\ \A s \in Server : fences[s] <= Recorded(s) + faults + (IF Unrecorded THEN 1 ELSE 0)
    /\ CircuitBreaker

(* Of two replicas, the one that is not kept is the one being fenced.       *)
LEMMA TwoServers ==
  ASSUME Len(Replicas) = 2
  PROVE  \A r, s, t \in Server : r # s /\ r # t => s = t
  <1>1. DOMAIN Replicas = {1, 2}
    BY ReplicasAssumption
  <1> QED
    BY <1>1, ReplicasAssumption

(* Steps that neither start nor record a round. *)
LEMMA BreakerFrame ==
  ASSUME TypeOK, TypeOK', BreakerInv,
         UNCHANGED fences,
         faults <= faults',
         Unrecorded' => Unrecorded /\ legit' = legit,
         Unrecorded => Unrecorded' \/ faults < faults',
         status'.lastFenced = status.lastFenced,
         status'.consecutive = status.consecutive,
         "fencing" \in cooling <=> "fencing" \in cooling',
         pc' # "idle" => /\ ag'.lastFenced = status.lastFenced
                         /\ ag'.consecutive = status.consecutive
  PROVE  BreakerInv'
  <1>1. /\ fences \in [Server -> Nat] /\ faults \in Nat /\ faults' \in Nat
        /\ status.consecutive \in Nat /\ MaxFencingAttempts \in Nat
    BY BoundsAssumption, SpecAssumption DEF TypeOK, ClusterTypeOK, AGTypeOK, AGStatus
  <1>2. \A s \in Server : Recorded(s)' = Recorded(s) /\ Recorded(s) \in Nat
    BY <1>1 DEF Recorded
  <1>3. \A s \in Server : fences'[s] <= Recorded(s)' + faults' + (IF Unrecorded' THEN 1 ELSE 0)
    <2> SUFFICES ASSUME NEW s \in Server
                 PROVE  fences[s] <= Recorded(s) + faults' + (IF Unrecorded' THEN 1 ELSE 0)
      BY <1>2
    <2>1. fences[s] <= Recorded(s) + faults + (IF Unrecorded THEN 1 ELSE 0)
      BY DEF BreakerInv
    <2> QED
      BY <1>1, <1>2, <2>1
  <1>4. CircuitBreaker'
    <2>1. \A s \in Server : fences[s] <= MaxFencingAttempts + faults
      BY DEF BreakerInv, CircuitBreaker
    <2> QED
      BY <1>1, <2>1 DEF CircuitBreaker
  <1> QED
    BY <1>3, <1>4 DEF BreakerInv

(* The steps of a Reconcile keep BreakerInv. *)
LEMMA BreakerReconcile ==
  ASSUME Len(Replicas) = 2, TypeOK, TypeOK', FencingInv, BreakerInv, AGNext
  PROVE  BreakerInv'
  <1> USE DEF Goto, kubeVars, ghostVars, Unrecorded
  <1>1. /\ ag \in AGStatus /\ status \in AGStatus /\ fences \in [Server -> Nat]
        /\ fences' \in [Server -> Nat] /\ faults \in Nat /\ faults' \in Nat
        /\ MaxFencingAttempts \in Nat \ {0}
    BY BoundsAssumption, SpecAssumption DEF TypeOK, ClusterTypeOK, AGTypeOK
  <1>2. /\ \A r : /\ [ag EXCEPT !.reason = r].lastFenced = ag.lastFenced
                  /\ [ag EXCEPT !.reason = r].consecutive = ag.consecutive
        /\ \A v : /\ [ag EXCEPT !.primary = v].lastFenced = ag.lastFenced
                  /\ [ag EXCEPT !.primary = v].consecutive = ag.consecutive
        /\ \A p, v : /\ ObservedStatus(p, v).lastFenced = ag.lastFenced
                     /\ ObservedStatus(p, v).consecutive = ag.consecutive
    BY <1>1 DEF AGStatus, ObservedStatus
  <1>3. pc # "idle" => /\ ag.lastFenced = status.lastFenced
                       /\ ag.consecutive = status.consecutive
    BY DEF BreakerInv
  <1>4. CASE Fetch
    BY <1>1, <1>4, BreakerFrame DEF Fetch
  <1>5. CASE \/ Connect \/ EnsureAG \/ RejoinDone \/ NoCandidate \/ ForceFailover
             \/ FenceReplica
             \/ \E s \in Server : \/ ReadRole(s) \/ ReadLSN(s) \/ JoinSecondary(s)
                                  \/ Rejoin(s) \/ TryCandidate(s)
    <2>1. /\ UNCHANGED <<fences, faults, status, cooling>>
          /\ pc # "idle"
          /\ Unrecorded' <=> Unrecorded
          /\ Unrecorded' => legit' = legit
          /\ pc' = "idle" \/ ag' = ag
      BY <1>5
      DEF Connect, EnsureAG, RejoinDone, NoCandidate, ForceFailover, FenceReplica, ReadRole,
          ReadLSN, JoinSecondary, Rejoin, TryCandidate, GotoLabels, Return
    <2> QED
      BY <1>1, <1>3, <2>1, BreakerFrame
  <1>6. CASE \/ Guard \/ FailoverGate \/ CredentialsMissing
             \/ \E s \in Server : CutTraffic(s) \/ SetLabel(s)
    <2>1. /\ UNCHANGED <<fences, cooling>>
          /\ pc # "idle"
          /\ faults <= faults'
          /\ Unrecorded' <=> Unrecorded
          /\ Unrecorded' => legit' = legit
          /\ pc' = "idle" \/ ag' = ag
          /\ status' = status \/ status' = [ag EXCEPT !.reason = "SecretNotFound"]
      BY <1>1, <1>6
      DEF Guard, FailoverGate, CredentialsMissing, CutTraffic, SetLabel, Return, APIError, Fault,
          PatchLabel
    <2> QED
      BY <1>2, <1>3, <2>1, BreakerFrame
  <1>7. CASE Decide
    <2>1. /\ UNCHANGED <<fences, cooling, faults, status>>
          /\ pc = "decide" /\ pc' \in {"ensure", "labels", "lsns"}
          /\ ag' = ag \/ \E v : ag' = [ag EXCEPT !.primary = v]
      BY <1>7 DEF Decide, GotoLabels
    <2>2. ag'.lastFenced = ag.lastFenced /\ ag'.consecutive = ag.consecutive
      BY <1>1, <2>1 DEF AGStatus
    <2> QED
      BY <1>1, <1>3, <2>1, <2>2, BreakerFrame
  <1>8. CASE Observe \/ Adopt
    <2>1. /\ UNCHANGED <<fences, cooling>>
          /\ pc \in {"observe", "adopt"} /\ pc' \in {"idle", "rejoin"}
          /\ faults <= faults'
          /\ status' = status \/ \E p, v : status' = ObservedStatus(p, v)
          /\ pc' = "idle" \/ \E p, v : ag' = ObservedStatus(p, v)
      BY <1>1, <1>8 DEF Observe, Adopt, Return, PatchStatus, APIError, Fault
    <2> QED
      BY <1>2, <1>3, <2>1, BreakerFrame
  <1>9. CASE FailoverPatch
    <2>1. /\ UNCHANGED <<fences, ag>>
          /\ pc = "failoverPatch" /\ pc' = "labels"
          /\ faults <= faults'
          /\ "fencing" \in cooling <=> "fencing" \in cooling'
      BY <1>1, <1>9 DEF FailoverPatch, GotoLabels, PatchStatus, APIError, Fault
    <2>2. \/ status' = [ag EXCEPT !.primary = cur, !.reason = "AutoFailoverExecuted"]
          \/ status' = status
      BY <1>9 DEF FailoverPatch, PatchStatus
    <2>3. status'.lastFenced = status.lastFenced /\ status'.consecutive = status.consecutive
      BY <1>1, <1>3, <2>1, <2>2 DEF AGStatus
    <2> QED
      BY <1>3, <2>1, <2>3, BreakerFrame
  <1>10. CASE SelectRogues
    <2>1. CASE Rogues = {}
      <3>1. /\ UNCHANGED <<fences, cooling>>
            /\ pc = "select" /\ pc' = "ensure"
            /\ faults <= faults'
            /\ ag' = [ag EXCEPT !.reason = "FencingExhausted"]
            /\ status' \in {status, [ag EXCEPT !.reason = "FencingExhausted"]}
        BY <1>1, <1>10, <2>1 DEF SelectRogues, PatchStatus, APIError, Fault
      <3>2. /\ ag'.lastFenced = ag.lastFenced /\ ag'.consecutive = ag.consecutive
            /\ status'.lastFenced = status.lastFenced
            /\ status'.consecutive = status.consecutive
        BY <1>1, <1>3, <3>1 DEF AGStatus
      <3> QED
        BY <1>3, <3>1, <3>2, BreakerFrame
    <2>2. CASE Rogues # {}
      <3>1. /\ pc = "select" /\ pc' = "cut"
            /\ UNCHANGED <<ag, status, faults, cooling, legit>>
            /\ fences' = [s \in Server |-> IF s \in Rogues THEN fences[s] + 1 ELSE 0]
        BY <1>10, <2>2 DEF SelectRogues
      <3>2. legit \in Server /\ legit \notin Rogues
        BY <3>1 DEF FencingInv, ScanInv, FencingRound, Best, Primaries, Rogues
      <3>3. fences'[legit] = 0
        BY <3>1, <3>2
      <3>4. \A s \in Server : Recorded(s)' = Recorded(s) /\ Recorded(s) \in Nat
        BY <1>1, <3>1 DEF Recorded, AGStatus
      <3>5. \A s \in Server : fences[s] <= Recorded(s) + faults
        BY <1>1, <3>1, <3>4 DEF BreakerInv
      <3>6. \A s \in Server : fences'[s] <= fences[s] + 1
        BY <1>1, <3>1
      <3>7. \A s \in Server : fences'[s] <= Recorded(s) + faults + 1
        BY <1>1, <3>1, <3>4, <3>5
      <3>8. \A s \in Rogues : Recorded(s) < MaxFencingAttempts
        BY <1>1, <1>3, <3>1 DEF Rogues, Exhausted, Recorded, AGStatus
      <3>9. \A s \in Server : fences'[s] <= MaxFencingAttempts + faults
        <4> SUFFICES ASSUME NEW s \in Server PROVE fences'[s] <= MaxFencingAttempts + faults
          OBVIOUS
        <4>1. CASE s \in Rogues
          <5>1. /\ fences'[s] \in Nat /\ Recorded(s) \in Nat
                /\ fences'[s] <= Recorded(s) + faults + 1
                /\ Recorded(s) < MaxFencingAttempts
            BY <1>1, <3>4, <3>7, <3>8, <4>1
          <5> QED
            BY <1>1, <5>1
        <4>2. CASE s \notin Rogues
          BY <1>1, <3>1, <4>2
        <4> QED
          BY <4>1, <4>2
      <3> QED
        BY <1>3, <3>1, <3>3, <3>4, <3>7, <3>9 DEF BreakerInv, CircuitBreaker
    <2> QED
      BY <2>1, <2>2
  <1>11. CASE FencePatch
    <2>1. /\ UNCHANGED fences /\ pc = "fencePatch" /\ pc' = "idle"
      BY <1>11 DEF FencePatch, Return
    <2>2. CASE APIError /\ UNCHANGED status
      <3>1. faults < faults' /\ cooling' = cooling
        BY <1>1, <1>11, <2>2 DEF FencePatch, APIError, Fault
      <3> QED
        BY <1>1, <2>1, <2>2, <3>1, BreakerFrame
    <2>3. CASE /\ status'.lastFenced = cur
               /\ status'.consecutive = IF ag.lastFenced = cur THEN ag.consecutive + 1 ELSE 1
               /\ UNCHANGED faults
      <3>1. "fencing" \in cooling'
        BY <1>11, <2>3 DEF FencePatch
      <3>2. cur \in Server \ {legit} /\ legit \in Server
        BY <2>1 DEF FencingInv, ScanInv, RogueInv, FencingRound, Best, Primaries
      <3>3. \A s \in Server : s # cur => s = legit
        BY <3>2, TwoServers
      <3>4. fences[cur] <= status'.consecutive + faults
        <4>1. fences[cur] <= Recorded(cur) + faults + 1
          BY <2>1, <3>2 DEF BreakerInv
        <4>2. Recorded(cur) + 1 <= status'.consecutive /\ Recorded(cur) \in Nat
          BY <1>1, <1>3, <2>1, <2>3 DEF Recorded, AGStatus
        <4>3. status'.consecutive \in Nat
          BY DEF TypeOK, ClusterTypeOK, AGStatus
        <4> QED
          BY <1>1, <3>2, <4>1, <4>2, <4>3
      <3>5. fences[legit] = 0
        BY <2>1 DEF BreakerInv
      <3>6. \A s \in Server : fences[s] <= Recorded(s)' + faults
        BY <1>1, <2>3, <3>1, <3>3, <3>4, <3>5, NoServerAssumption DEF Recorded
      <3>7. \A s \in Server : Recorded(s)' \in Nat
        BY DEF Recorded, TypeOK, ClusterTypeOK, AGStatus
      <3>8. \A s \in Server : fences'[s] <= Recorded(s)' + faults' + 0
        BY <1>1, <2>1, <2>3, <3>6, <3>7
      <3>9. CircuitBreaker'
        BY <2>1, <2>3 DEF BreakerInv, CircuitBreaker
      <3> QED
        BY <2>1, <3>8, <3>9 DEF BreakerInv
    <2> QED
      BY <1>11, <2>2, <2>3 DEF FencePatch, PatchStatus
  <1> QED
    BY <1>4, <1>5, <1>6, <1>7, <1>8, <1>9, <1>10, <1>11 DEF AGNext

(* Every step keeps BreakerInv. *)
LEMMA BreakerStep ==
  ASSUME Len(Replicas) = 2, TypeOK, TypeOK', FencingInv, BreakerInv, [Next]_vars
  PROVE  BreakerInv'
  <1>1. /\ fences \in [Server -> Nat] /\ faults \in Nat /\ faults' \in Nat
        /\ MaxFencingAttempts \in Nat \ {0}
    BY BoundsAssumption, SpecAssumption DEF TypeOK, ClusterTypeOK, AGTypeOK
  <1>2. CASE AGStep
    BY <1>2, BreakerReconcile DEF AGStep
  <1>3. CASE FoStep \/ UserStep \/ SrvStep \/ EnvStep \/ UNCHANGED vars
    <2>1. UNCHANGED agVars /\ UNCHANGED status
      BY <1>3
      DEF FoStep, FoNext, CheckTarget, FoCredentialsMissing, StartRunning, ExecuteFailover,
          RecordPrevious, SetCompleted, SetFailed, UserStep, CreateFailover, SrvStep, SrvNext,
          CopyPrimary, LabelPod, EnvStep, ClusterNext, Fail, Recover, Settle, Reclaim, Write,
          AutoCooldownLapses, vars, clusterVars, kubeVars
    <2>2. "fencing" \in cooling <=> "fencing" \in cooling'
      BY <1>3
      DEF FoStep, FoNext, CheckTarget, FoCredentialsMissing, StartRunning, ExecuteFailover,
          RecordPrevious, SetCompleted, SetFailed, UserStep, CreateFailover, SrvStep, SrvNext,
          CopyPrimary, LabelPod, EnvStep, ClusterNext, Fail, Recover, Settle, Reclaim, Write,
          AutoCooldownLapses, vars, clusterVars
    <2>3. faults <= faults'
      <3>1. faults' = faults \/ faults' = faults + 1
        <4>1. CASE FoStep \/ UserStep
          BY <4>1
          DEF FoStep, FoNext, CheckTarget, FoCredentialsMissing, StartRunning, ExecuteFailover,
              RecordPrevious, SetCompleted, SetFailed, PatchFailover, APIError, Fault, UserStep,
              CreateFailover
        <4>2. CASE SrvStep \/ EnvStep \/ UNCHANGED vars
          BY <4>2
          DEF SrvStep, SrvNext, CopyPrimary, LabelPod, PatchLabel, APIError, Fault, EnvStep,
              ClusterNext, Fail, Recover, Settle, Reclaim, Write, AutoCooldownLapses, vars,
              clusterVars
        <4> QED
          BY <1>3, <4>1, <4>2
      <3> QED
        BY <1>1, <3>1
    <2> QED
      BY <2>1, <2>2, <2>3, BreakerFrame DEF agVars, localVars, ghostVars, Unrecorded, BreakerInv
  <1>4. CASE LapseStep
    <2>1. /\ "fencing" \notin cooling'
          /\ UNCHANGED <<pc, ag, legit, status, faults>>
          /\ fences' = [s \in Server |-> IF Unrecorded /\ fences[s] > 0 THEN 1 ELSE 0]
      BY <1>4 DEF LapseStep, FenceCooldownLapses, localVars, kubeVars, Unrecorded
    <2>2. \A s \in Server : /\ Recorded(s)' = 0
                             /\ fences'[s] <= (IF Unrecorded THEN 1 ELSE 0)
      BY <2>1 DEF Recorded
    <2>3. \A s \in Server : fences'[s] <= Recorded(s)' + faults' + (IF Unrecorded' THEN 1 ELSE 0)
      BY <1>1, <2>1, <2>2 DEF Unrecorded
    <2>4. CircuitBreaker'
      BY <1>1, <2>1 DEF CircuitBreaker
    <2>5. Unrecorded' => fences'[legit'] = 0
      <3> SUFFICES ASSUME Unrecorded' PROVE fences'[legit] = 0
        BY <2>1
      <3>1. Unrecorded /\ legit \in Server
        BY <2>1 DEF Unrecorded, FencingInv, ScanInv, FencingRound, Best, Primaries
      <3> QED
        BY <1>1, <2>1, <3>1 DEF BreakerInv
    <2> QED
      BY <2>1, <2>3, <2>4, <2>5 DEF BreakerInv
  <1>5. CASE OperatorCrash
    <2>1. UNCHANGED <<fences, status, cooling>> /\ pc' = "idle" /\ faults < faults'
      BY <1>1, <1>5 DEF OperatorCrash, Return, Fault, ghostVars, kubeVars
    <2> QED
      BY <1>1, <2>1, BreakerFrame DEF Unrecorded
  <1> QED
    BY <1>2, <1>3, <1>4, <1>5 DEF Next

(* With two replicas, for every limit and every number of faults: no        *)
(* replica is fenced more than MaxFencingAttempts times in a row in one     *)
(* cooldown window, but for one attempt per crash or lost status patch.     *)
THEOREM CircuitBreakerCorrect ==
  ASSUME Len(Replicas) = 2
  PROVE  Spec => []CircuitBreaker
  <1>1. Init => BreakerInv
    BY BoundsAssumption, SpecAssumption
    DEF Init, ClusterInit, AGInit, BreakerInv, Unrecorded, Recorded, CircuitBreaker
  <1>2. TypeOK /\ TypeOK' /\ FencingInv /\ BreakerInv /\ [Next]_vars => BreakerInv'
    BY BreakerStep
  <1>3. BreakerInv => CircuitBreaker
    BY DEF BreakerInv
  <1> QED
    BY <1>1, <1>2, <1>3, TypeCorrect, FencingInvariant, PTL DEF Spec

------------------------------------------------------------------------------
(* User-requested failovers.                                               *)

(* A Reconcile of the AGFailover works on an unfinished one: it is the only *)
(* one to finish it, and is over when it has.                               *)
WorkingInv == fpc # "idle" => Unfinished

(* Every step keeps WorkingInv and leaves a finished AGFailover alone.      *)
LEMMA OneShotStep ==
  ASSUME TypeOK, WorkingInv, [Next]_vars
  PROVE  /\ WorkingInv'
         /\ failover.phase \in {"Completed", "Failed"} =>
               UNCHANGED failover /\ fpc' = "idle"
  <1> USE DEF WorkingInv, Unfinished, foVars, kubeVars
  <1>1. \A ph, q : /\ [failover EXCEPT !.phase = ph].phase = ph
                   /\ [failover EXCEPT !.phase = ph, !.previousPrimary = q].phase = ph
    BY DEF TypeOK, ClusterTypeOK, Failover
  <1>2. CASE UNCHANGED failover /\ (UNCHANGED fpc \/ fpc' = "idle")
    BY <1>2
  <1>3. CASE AGStep
    <2>1. UNCHANGED failover
      BY <1>3
      DEF AGStep, AGNext, Fetch, CredentialsMissing, Connect, Guard, Decide, SelectRogues,
          FenceReplica, FencePatch, EnsureAG, Observe, RejoinDone, FailoverGate, NoCandidate,
          Adopt, ForceFailover, FailoverPatch, ReadRole, ReadLSN, CutTraffic, JoinSecondary,
          Rejoin, SetLabel, TryCandidate
    <2> QED
      BY <1>2, <1>3, <2>1 DEF AGStep
  <1>4. CASE SrvStep \/ EnvStep \/ LapseStep \/ OperatorCrash \/ UNCHANGED vars
    BY <1>2, <1>4
    DEF SrvStep, SrvNext, CopyPrimary, LabelPod, EnvStep, ClusterNext, Fail, Recover, Settle,
        Reclaim, Write, AutoCooldownLapses, LapseStep, FenceCooldownLapses, OperatorCrash,
        FoReturn, vars, clusterVars
  <1>5. CASE UserStep
    <2>1. PICK t \in Server, force \in UserFailovers : CreateFailover(t, force)
      BY <1>5 DEF UserStep
    <2> QED
      BY <2>1 DEF CreateFailover
  <1>6. CASE FoStep
    <2>1. CASE CheckTarget
      BY <2>1 DEF CheckTarget
    <2>2. CASE FoCredentialsMissing
      BY <2>2 DEF FoCredentialsMissing
    <2>3. CASE StartRunning
      BY <1>1, <2>3 DEF StartRunning, FoReturn
    <2>4. CASE ExecuteFailover \/ RecordPrevious
      BY <2>4 DEF ExecuteFailover, RecordPrevious
    <2>5. CASE SetCompleted \/ SetFailed
      BY <2>5 DEF SetCompleted, SetFailed, FoReturn
    <2> QED
      BY <1>6, <2>1, <2>2, <2>3, <2>4, <2>5 DEF FoStep, FoNext
  <1> QED
    BY <1>3, <1>4, <1>5, <1>6 DEF Next

(* A finished AGFailover is never run again. *)
THEOREM OneShotCorrect == Spec => OneShot
  <1>1. Init => WorkingInv
    BY DEF Init, FoInit, WorkingInv
  <1>2. TypeOK /\ WorkingInv /\ [Next]_vars => WorkingInv'
    BY OneShotStep
  <1>3. TypeOK /\ WorkingInv /\ [Next]_vars =>
           [failover.phase \in {"Completed", "Failed"} =>
              UNCHANGED failover /\ fpc' = "idle"]_vars
    BY OneShotStep
  <1> QED
    BY <1>1, <1>2, <1>3, TypeCorrect, PTL DEF Spec, OneShot

==============================================================================
