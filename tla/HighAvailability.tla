--------------------------- MODULE HighAvailability ---------------------------
(***************************************************************************)
(* The high-availability part of the operator: the AvailabilityGroup, the  *)
(* AGFailover and (for a managed cluster) the SQLServer controller run in  *)
(* one process, over the same SQL Server instances and the same Kubernetes *)
(* objects, while instances fail, recover and reclaim PRIMARY.             *)
(***************************************************************************)
EXTENDS AvailabilityGroup, AGFailover, ReplicaLabels

CONSTANTS
    Managed,        \* a SQLServer resource manages the cluster
    UserFailovers   \* subset of BOOLEAN: the values of spec.force users may choose

ASSUME UserAssumption ==
    /\ Managed \in BOOLEAN
    /\ UserFailovers \subseteq BOOLEAN

clusterVars == <<sqlVars, kubeVars, cooling, faults, reclaims>>
vars == <<clusterVars, agVars, foVars, srvVars>>

Init == ClusterInit /\ AGInit /\ FoInit /\ SrvInit

AGStep  == AGNext /\ UNCHANGED <<foVars, srvVars>>
FoStep  == FoNext /\ UNCHANGED <<agVars, srvVars>>
SrvStep == Managed /\ SrvNext /\ UNCHANGED <<agVars, foVars>>

UserStep ==
    /\ \E t \in Server, force \in UserFailovers : CreateFailover(t, force)
    /\ UNCHANGED <<agVars, srvVars>>

EnvStep == ClusterNext /\ UNCHANGED <<agVars, foVars, srvVars>>

LapseStep == FenceCooldownLapses /\ UNCHANGED <<foVars, srvVars>>

(* The operator process dies: every running Reconcile is lost. *)
OperatorCrash ==
    /\ pc # "idle" \/ fpc # "idle" \/ labelling # {}
    /\ Fault
    /\ Return
    /\ FoReturn
    /\ labelling' = {}
    /\ UNCHANGED <<ghostVars, srvPrimary, sqlVars, kubeVars, cooling, reclaims>>

Next == AGStep \/ FoStep \/ SrvStep \/ UserStep \/ EnvStep \/ LapseStep \/ OperatorCrash

Spec == Init /\ [][Next]_vars

(* The work queue runs every controller again and again, time passes, and   *)
(* Kubernetes restarts instances; nothing obliges users or faults to act.   *)
Fairness ==
    /\ WF_vars(AGStep)
    /\ WF_vars(FoStep)
    /\ WF_vars(SrvStep)
    /\ WF_vars(LapseStep)
    /\ WF_vars(AutoCooldownLapses /\ UNCHANGED <<agVars, foVars, srvVars>>)
    /\ \A s \in Server :
          WF_vars((Recover(s) \/ Settle(s)) /\ UNCHANGED <<agVars, foVars, srvVars>>)

FairSpec == Spec /\ Fairness

(* Every variable has its type, whatever the controllers interleave. *)
TypeOK == ClusterTypeOK /\ AGTypeOK /\ FoTypeOK /\ SrvTypeOK

------------------------------------------------------------------------------
(* Safety.                                                                 *)

FencingRound == {"select", "cut", "fence", "fencePatch"}

(* legit is the choice the tiebreaker has to make among S. *)
Best(S) ==
    /\ legit \in S
    /\ \A s \in S : /\ lsns[s] <= lsns[legit]
                    /\ lsns[s] = lsns[legit] /\ s = ag.primary => legit = s

(* The tiebreaker of detectAndResolveSplitBrain keeps, of the two or more   *)
(* replicas that reported PRIMARY, one with the highest LSN it read, and    *)
(* the primary of the status if that one is among the best.                 *)
LegitimateHasHighestLSN ==
    pc \in FencingRound => Best(Primaries) /\ Primaries # {legit}

(* A fencing command of fenceReplica only ever changes a replica that       *)
(* reported PRIMARY in this round and is not the one the round keeps.       *)
FencingSparesLegitimate ==
    [][pc = "fence" /\ pc' # "fence" =>
          \A s \in Server : role'[s] # role[s] =>
              s # legit /\ s \in Primaries /\ lsns[s] <= lsns[legit]]_vars

(* DROP AVAILABILITY GROUP (hard fencing) is an escalation: it only hits a  *)
(* replica that an earlier round of the same cooldown window tried to fence. *)
HardFencingOnlyRepeats ==
    [][\A s \in Server : role[s] # "ABSENT" /\ role'[s] = "ABSENT" => s \in touched]_vars

(* The inductive invariant behind the three properties above.  While LSNs   *)
(* are read, legit is the best of the replicas read so far.                 *)
ScanInv ==
    /\ pc \in {"idle", "connect", "guard", "roles", "decide"} => legit = NoServer
    /\ pc = "lsns" =>
          /\ todo \subseteq Primaries
          /\ \A s \in Server : Primaries # {s}
          /\ IF todo = Primaries THEN legit = NoServer ELSE Best(Primaries \ todo)
    /\ pc \in FencingRound => Best(Primaries) /\ Primaries # {legit}

(* The rogue being fenced and those still to be fenced reported PRIMARY.    *)
RogueInv ==
    /\ pc \in {"cut", "fence"} => todo \subseteq Primaries \ {legit}
    /\ pc \in {"fence", "fencePatch"} => cur \in Primaries \ {legit}

(* While the cooldown runs, the last fenced replica, in the stored status   *)
(* and in Reconcile's copy of it, was sent a command in this window.        *)
WindowInv ==
    /\ "fencing" \in cooling => status.lastFenced \in touched \cup {NoServer}
    /\ "fencing" \in cooling /\ pc # "idle" => ag.lastFenced \in touched \cup {NoServer}
    /\ pc = "fencePatch" => cur \in touched

(* What detectAndResolveSplitBrain relies on from one round trip to the     *)
(* next, and from one round to the next.                                    *)
FencingInv == ScanInv /\ RogueInv /\ WindowInv

(* The circuit breaker: no replica is fenced more than MaxFencingAttempts   *)
(* times in a row within a cooldown window; each crash or lost status patch *)
(* forgets at most one attempt.                                             *)
CircuitBreaker == \A s \in Server : fences[s] <= MaxFencingAttempts + faults

(* CREATE AVAILABILITY GROUP runs only while no instance hosts the group,   *)
(* or on a replica that hard fencing has removed it from: no stale status,  *)
(* failover or restart makes the operator create the group beside itself.   *)
CreatedOnce ==
    [][pc = "ensure" /\ pc' = "join" =>
          PrimaryReplica \in dropped \/ \A s \in Server : role[s] = "ABSENT"]_vars

(* AGFailover is one-shot: once Completed or Failed it is never run again,  *)
(* whatever crashes, retries and lost patches came before.                  *)
OneShot ==
    [][failover.phase \in {"Completed", "Failed"} =>
          UNCHANGED failover /\ fpc' = "idle"]_vars

------------------------------------------------------------------------------
(* Liveness.                                                               *)

OnePrimary == \E s \in Server : \A t \in Server : role[t] = "PRIMARY" <=> t = s

(* Once faults stop, fencing leaves exactly one primary.                    *)
SplitBrainResolved == <>[]OnePrimary

(* Once faults stop, the read-write Service selects the primary alone.      *)
LabelsFollowPrimary == <>[](\A s \in Server : label[s] = "primary" <=> role[s] = "PRIMARY")

(* A failover that has started comes to an end.                             *)
FailoverTerminates == failover.phase = "Running" ~> failover.phase \in {"Completed", "Failed"}

==============================================================================
