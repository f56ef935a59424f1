----------------------------- MODULE ReplicaLabels -----------------------------
(***************************************************************************)
(* The SQLServer controller's part in routing: on every reconcile of a     *)
(* managed cluster it copies the primary of the AvailabilityGroup's status *)
(* and labels the pods accordingly (phases 3 and 4 of reconcileManaged).   *)
(* The earlier phases return before this point unless every pod is ready.  *)
(***************************************************************************)
EXTENDS AGCluster

VARIABLES
    srvPrimary,   \* .status.primaryReplica of the SQLServer resource
    labelling     \* the pods the running reconcile has still to label

srvVars == <<srvPrimary, labelling>>

SrvTypeOK ==
    /\ srvPrimary \in Server \cup {NoServer}
    /\ labelling \subseteq Server

SrvInit ==
    /\ srvPrimary = NoServer
    /\ labelling = {}

(* reconcileManagedAG keeps the last known primary when the group reports   *)
(* none; the status is persisted before the labels.                         *)
CopyPrimary ==
    /\ labelling = {}
    /\ up = Server
    /\ LET p == IF status.primary # NoServer THEN status.primary ELSE srvPrimary
       IN  /\ p # NoServer
           /\ srvPrimary' = p
    /\ labelling' = Server
    /\ UNCHANGED <<sqlVars, kubeVars, cooling, faults, reclaims>>

(* reconcileReplicaRoleLabels stops at the first patch that fails. *)
LabelPod(s) ==
    /\ s \in labelling
    /\ \A t \in labelling \ {s} : Before(s, t)
    /\ PatchLabel(s, DesiredRole(s, srvPrimary))
    /\ labelling' = IF faults' = faults THEN labelling \ {s} ELSE {}
    /\ UNCHANGED <<srvPrimary, sqlVars, status, failover, cooling, reclaims>>

SrvNext == CopyPrimary \/ \E s \in Server : LabelPod(s)

==============================================================================
