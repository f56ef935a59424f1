----------------------------- MODULE ManagedServer ----------------------------
(***************************************************************************)
(* The SQLServer controller: Reconcile for external and managed servers,   *)
(* with its five phases for the latter.                                    *)
(***************************************************************************)
EXTENDS Certificates

ReconcileInit ==
    /\ pc = "idle" /\ mine = Gone /\ at = 0 /\ peer = 0
    /\ binaries = NoBinaries /\ touched = FALSE

(* Get; the finalizer, which comes before the check for deletion; dispatch. *)
(* An external server has no finalizer.  A conflict on Update is a retry.   *)
Fetch ==
    /\ pc = "idle" /\ queued
    /\ \/ /\ srv.state = "absent"
          /\ queued' = FALSE
          /\ UNCHANGED <<srv, reconcile>>
       \/ /\ srv.state = "new" /\ srv.spec.mode = "managed"
          /\ srv' = [srv EXCEPT !.state = "live"]
          /\ UNCHANGED <<queued, reconcile>>
       \/ /\ srv.state = "deleting" /\ srv.spec.mode = "managed"
          /\ srv' = [srv EXCEPT !.state = "absent"]
          /\ queued' = FALSE
          /\ UNCHANGED reconcile
       \/ /\ srv.state # "absent" /\ (srv.spec.mode = "managed" => srv.state = "live")
          /\ mine' = srv
          /\ pc' = IF srv.spec.mode = "managed" THEN "config" ELSE "probe"
          /\ queued' = FALSE
          /\ UNCHANGED <<srv, at, peer, binaries, touched>>
    /\ UNCHANGED <<children, instances, bounds>>

------------------------------------------------------------------------------
(* Phase 1: the objects, in this order.                                     *)

(* An object that is missing is created, one that differs updated.          *)
Write(o, next) ==
    /\ pc = o
    /\ objects' = [objects EXCEPT ![o] = Desired(o, mine.spec)]
    /\ Goto(next)
    /\ UNCHANGED <<srv, secrets, certs, group, instances, bounds>>

ReconcileConfigMap == Write("config", "headless")

(* The headless Service is only ever created.                               *)
ReconcileHeadlessService ==
    /\ pc = "headless"
    /\ objects' = [objects EXCEPT !["headless"] = IF @ = 0 THEN DesiredService(mine.spec) ELSE @]
    /\ Goto("client")
    /\ UNCHANGED <<srv, secrets, certs, group, instances, bounds>>

ReconcileClientService ==
    Write("client", IF Clustered(mine.spec) THEN "readOnly" ELSE "statefulSet")

ReconcileReadOnlyService == Write("readOnly", "statefulSet")

ReconcileStatefulSet == Write("statefulSet", "pods")

(* readyReplicas counts pods; it does not say which.                        *)
StatefulSetReady == Cardinality(up) >= mine.spec.replicas

(* isStatefulSetReady; a StatefulSet deleted just now is an error.          *)
CheckPods ==
    /\ pc = "pods"
    /\ \/ objects["statefulSet"] = 0 /\ Return(TRUE) /\ UNCHANGED srv
       \/ /\ objects["statefulSet"] # 0 /\ ~StatefulSetReady
          /\ SetCondition("DeploymentProvisioning", TRUE)
       \/ /\ objects["statefulSet"] # 0 /\ StatefulSetReady
          /\ Goto(IF Clustered(mine.spec) THEN ReconcileCertificates ELSE "primary")
          /\ UNCHANGED srv
    /\ UNCHANGED <<children, instances, bounds>>

------------------------------------------------------------------------------
(* Phase 3: reconcileManagedAG.  The resource lists the replicas of the day *)
(* it is created, and is not touched again.                                 *)

CopyPrimary ==
    /\ pc' = "primary"
    /\ mine' = [mine EXCEPT !.primary = IF group.primary = NoReplica THEN @ ELSE group.primary]
    /\ UNCHANGED <<at, peer, binaries, touched, queued>>

ReconcileManagedAG ==
    /\ pc = "group"
    /\ \/ ~mine.spec.group /\ Goto("primary")
       \/ mine.spec.group /\ group.replicas # 0 /\ CopyPrimary
       \/ mine.spec.group /\ group.replicas = 0 /\ Goto("createGroup")
    /\ UNCHANGED <<srv, children, instances, bounds>>

(* With saPasswordSecret alone, its password is copied once, into a Secret  *)
(* the other controller can read.                                           *)
NeedsSACredentials == mine.spec.credentials = "sa" /\ "saCredentials" \notin secrets

EnsureSACredentialsSecret ==
    /\ pc = "createGroup" /\ NeedsSACredentials
    /\ \/ /\ "sa" \in secrets
          /\ secrets' = secrets \cup {"saCredentials"}
          /\ UNCHANGED <<srv, queued, reconcile>>
       \/ /\ "sa" \notin secrets
          /\ SetCondition("AGProvisioning", TRUE)
          /\ UNCHANGED secrets
    /\ UNCHANGED <<objects, certs, group, instances, bounds>>

CreateGroup ==
    /\ pc = "createGroup" /\ ~NeedsSACredentials
    /\ group' = [replicas |-> mine.spec.replicas, primary |-> NoReplica]
    /\ Goto("primary")
    /\ UNCHANGED <<srv, objects, secrets, certs, instances, bounds>>

(* Phase 4: the primary is persisted, then every pod that is up is labelled *)
(* (one after the other, as ReplicaLabels has it).  A label that cannot be  *)
(* written ends the loop, and is only logged.                               *)
LabelPods ==
    /\ pc = "primary"
    /\ \/ mine.primary = NoReplica /\ UNCHANGED <<srv, label, mishaps>>
       \/ /\ mine.primary # NoReplica
          /\ Patch([srv EXCEPT !.primary = mine.primary])
          /\ label' = [i \in Replica |->
                 IF i \notin up \cap Members(mine.spec.replicas) THEN label[i]
                 ELSE IF i = mine.primary THEN "primary" ELSE "secondary"]
          /\ UNCHANGED mishaps
       \/ /\ mine.primary # NoReplica
          /\ Patch([srv EXCEPT !.primary = mine.primary])
          /\ Mishap
          /\ UNCHANGED label
    /\ Goto("probe")
    /\ UNCHANGED <<children, up, sql, peers, edits>>

------------------------------------------------------------------------------
(* Phase 5 and external servers.                                            *)

(* The Service of a standalone server; in a cluster the primary, or pod 0.  *)
Reachable ==
    CASE mine.spec.mode = "external" -> TRUE
      [] mine.spec.mode = "managed" /\ ~Clustered(mine.spec) -> Routed # {}
      [] OTHER -> (IF mine.primary = NoReplica THEN 0 ELSE mine.primary) \in up

Probed == HasCredentials /\ Reachable

(* probeAndUpdateStatus.  Without connection the condition stays as it is;  *)
(* without Secret, or with another authMethod, nothing is requeued.         *)
Probe ==
    /\ pc = "probe"
    /\ \/ mine.spec.mode = "unsupported" /\ SetCondition("UnsupportedAuthMethod", FALSE)
       \/ /\ mine.spec.mode # "unsupported" /\ ~HasCredentials
          /\ SetCondition("SecretNotFound", FALSE)
       \/ /\ mine.spec.mode # "unsupported" /\ HasCredentials /\ ~Reachable
          /\ Return(TRUE)
          /\ UNCHANGED srv
       \/ mine.spec.mode # "unsupported" /\ Probed /\ SetCondition("Ready", TRUE)
    /\ UNCHANGED <<children, instances, bounds>>

(* A call fails or the operator restarts, which queues every resource.      *)
Interrupted ==
    /\ pc # "idle"
    /\ Mishap
    /\ Return(TRUE)
    /\ UNCHANGED <<srv, children, instances, edits>>

ReconcileStep ==
    \/ Fetch
    \/ ReconcileConfigMap \/ ReconcileHeadlessService \/ ReconcileClientService
    \/ ReconcileReadOnlyService \/ ReconcileStatefulSet \/ CheckPods
    \/ CertificateStep
    \/ ReconcileManagedAG \/ EnsureSACredentialsSecret \/ CreateGroup \/ LabelPods
    \/ Probe

==============================================================================
