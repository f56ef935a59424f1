----------------------------- MODULE ServerCluster ----------------------------
(***************************************************************************)
(* What the SQLServer controller works on: the resource, the objects it    *)
(* builds from it, Secrets, the pods, what each replica knows of the       *)
(* certificates of the others, and the AvailabilityGroup resource.         *)
(***************************************************************************)
EXTENDS Integers, FiniteSets

CONSTANTS
    MaxReplicas,  \* the largest number of replicas a spec may ask for
    Specs,        \* the specs the SQLServer may have, a subset of ServerSpec
    MaxEdits,     \* bound on the edits and deletions of the resource
    MaxMishaps    \* bound on interruptions, lost pods, volumes, objects and Secrets

Replica   == 0..MaxReplicas - 1
NoReplica == MaxReplicas

(* An external server, with or without a supported authMethod, or a managed *)
(* one: its mssql.conf, its certificates, whether it has an                 *)
(* availabilityGroup, and the Secret its credentials come from.             *)
ServerSpec == [mode : {"external", "unsupported", "managed"}, replicas : 1..MaxReplicas,
               config : 1..2, certificates : {"SelfSigned", "CertManager"},
               group : BOOLEAN, credentials : {"sa", "credentials"}]

ASSUME ServerAssumption ==
    /\ MaxReplicas \in Nat \ {0}
    /\ Specs \subseteq ServerSpec
    /\ MaxEdits \in Nat /\ MaxMishaps \in Nat

VARIABLES
    srv,      \* the SQLServer; reason is that of its Ready condition
    objects,  \* what the objects of phase 1 were last written with, 0 if absent
    secrets,  \* the Secrets that exist, but for those of replicas
    certs,    \* the replicas that have a certificate Secret
    up,       \* the pods that are ready
    label,    \* the role label of each pod
    sql,      \* the master key, the certificate and the endpoint of each replica;
              \* life counts its volumes and tells its certificates apart
    peers,    \* peers[i][j]: which certificate of j replica i has imported, 0 for
              \* none, and how far the import has come
    group,    \* the AvailabilityGroup: the replicas it lists, 0 if absent, and
              \* status.primaryReplica
    queued,   \* whether the key of srv is in the work queue
    edits, mishaps

instances == <<up, label, sql, peers>>
children  == <<objects, secrets, certs, group>>
bounds    == <<edits, mishaps>>
cluster   == <<srv, objects, secrets, certs, up, label, sql, peers, group, queued, edits,
               mishaps>>

Object  == {"config", "headless", "client", "readOnly", "statefulSet"}
Reasons == {"none", "Ready", "UnsupportedAuthMethod", "DeploymentProvisioning",
            "CertificatesProvisioning", "AGProvisioning", "SecretNotFound"}

NoImport == [cert |-> 0, stage |-> "none"]
NoGroup  == [replicas |-> 0, primary |-> NoReplica]

NewReplica(life) == [life |-> life, key |-> FALSE, cert |-> FALSE, endpoint |-> "none"]

ServerState == [state : {"absent", "new", "live", "deleting"}, spec : ServerSpec,
                reason : Reasons, primary : Replica \cup {NoReplica}]

ClusterTypeOK ==
    /\ srv \in ServerState
    /\ objects \in [Object -> 0..MaxReplicas + 2]
    /\ secrets \subseteq {"sa", "credentials", "ca", "saCredentials"}
    /\ certs \subseteq Replica
    /\ up \subseteq Replica
    /\ label \in [Replica -> {"none", "primary", "secondary"}]
    /\ sql \in [Replica -> [life : 1..MaxMishaps + 1, key : BOOLEAN, cert : BOOLEAN,
                            endpoint : {"none", "certificate", "plain"}]]
    /\ peers \in [Replica -> [Replica -> [cert : 0..MaxMishaps + 1,
                                stage : {"none", "imported", "login", "granted"}]]]
    /\ group \in [replicas : 0..MaxReplicas, primary : Replica \cup {NoReplica}]
    /\ queued \in BOOLEAN
    /\ edits \in 0..MaxEdits
    /\ mishaps \in 0..MaxMishaps

ClusterInit ==
    /\ \E spec \in Specs :
          srv = [state |-> "new", spec |-> spec, reason |-> "none", primary |-> NoReplica]
    /\ objects = [o \in Object |-> 0]
    /\ secrets \in {{}, {"sa", "credentials"}}
    /\ certs = {}
    /\ up = {}
    /\ label = [i \in Replica |-> "none"]
    /\ sql = [i \in Replica |-> NewReplica(1)]
    /\ peers = [i \in Replica |-> [j \in Replica |-> NoImport]]
    /\ group = NoGroup
    /\ queued = TRUE
    /\ edits = 0
    /\ mishaps = 0

------------------------------------------------------------------------------
Mishap == mishaps < MaxMishaps /\ mishaps' = mishaps + 1

Members(n) == {i \in Replica : i < n}
Clustered(spec) == spec.replicas > 1

(* What the objects say of the spec, as far as Reconcile compares it:       *)
(* mssql.conf, the replicas (for all that is compared of a StatefulSet),    *)
(* and for a Service whether the server is a cluster: the role in its       *)
(* selector, or the hadr port.                                              *)
DesiredConfigMap(spec)   == spec.config
DesiredStatefulSet(spec) == spec.replicas
DesiredService(spec)     == IF Clustered(spec) THEN 2 ELSE 1

Desired(o, spec) ==
    CASE o = "config"      -> DesiredConfigMap(spec)
      [] o = "statefulSet" -> DesiredStatefulSet(spec)
      [] OTHER             -> DesiredService(spec)

(* The objects the spec calls for.                                          *)
Wanted(spec) == IF Clustered(spec) THEN Object ELSE Object \ {"readOnly"}

(* The pods the client Service routes to.                                   *)
Routed ==
    CASE objects["client"] = 0 -> {}
      [] objects["client"] = 1 -> up
      [] OTHER -> {i \in up : label[i] = "primary"}

(* A status patch is lost with the resource.                                *)
Patch(new) == srv' = IF srv.state = "absent" THEN srv ELSE new

==============================================================================
