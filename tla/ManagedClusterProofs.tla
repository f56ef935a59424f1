------------------------- MODULE ManagedClusterProofs -------------------------
(***************************************************************************)
(* Theorems about ManagedCluster, for any number of replicas, any specs    *)
(* and any bounds.                                                         *)
(***************************************************************************)
EXTENDS ManagedCluster, TLAPS

ReplicaRow == [life : 1..MaxMishaps + 1, key : BOOLEAN, cert : BOOLEAN,
               endpoint : {"none", "certificate", "plain"}]
PeerRow    == [cert : 0..MaxMishaps + 1, stage : {"none", "imported", "login", "granted"}]

(* The steps before, and those in, the loops over the replicas.             *)
Early      == {"idle", "pods", "ca", "secrets", "credentials"} \cup Object
Exchanging == {"exchange", "login", "grant"}

(* The loops over the replicas stay within the spec Reconcile works from,   *)
(* and a volume is lost at most once per mishap.                            *)
LoopInv ==
    /\ \A i \in Replica : sql[i].life <= mishaps + 1
    /\ pc \in Early => at = 0
    /\ pc \in Exchanging \cup {"setup"} => at <= mine.spec.replicas
    /\ pc \in Exchanging => peer < mine.spec.replicas
    /\ pc \in {"login", "grant"} => at < mine.spec.replicas

TypeInv == TypeOK /\ LoopInv

------------------------------------------------------------------------------
(* Types.                                                                  *)

(* The parts of a spec.                                                     *)
LEMMA SpecParts ==
  ASSUME NEW spec \in ServerSpec
  PROVE  /\ spec.replicas \in 1..MaxReplicas /\ spec.replicas \in Nat
         /\ spec.config \in 1..2
         /\ \A o \in Object : Desired(o, spec) \in 1..MaxReplicas + 2
  <1>1. spec.replicas \in 1..MaxReplicas /\ spec.config \in 1..2
    BY DEF ServerSpec
  <1> QED
    BY <1>1, ServerAssumption
    DEF Desired, DesiredConfigMap, DesiredStatefulSet, DesiredService

(* What a replica is when it is new, and after each statement of the setup. *)
LEMMA ReplicaTypes ==
  /\ \A life \in 1..MaxMishaps + 1 : NewReplica(life) \in ReplicaRow
  /\ \A r \in ReplicaRow : Setup(r) \in ReplicaRow /\ Setup(r).life = r.life
  <1>1. \A life \in 1..MaxMishaps + 1 : NewReplica(life) \in ReplicaRow
    BY DEF NewReplica, ReplicaRow
  <1>2. ASSUME NEW r \in ReplicaRow
        PROVE  Setup(r) \in ReplicaRow /\ Setup(r).life = r.life
    BY DEF Setup, ReplicaRow
  <1> QED
    BY <1>1, <1>2

(* The copy of the resource an idle controller has.                         *)
LEMMA GoneType == Gone \in ServerState
  BY ServerAssumption DEF Gone, ServerState, ServerSpec, Reasons, NoReplica, Replica

(* A Reconcile that has returned has no loops left.                         *)
LEMMA ReturnedTypes == Returned => ReconcileTypeOK' /\ pc' = "idle"
  <1> SUFFICES ASSUME Returned PROVE ReconcileTypeOK' /\ pc' = "idle"
    OBVIOUS
  <1>1. pc' = "idle" /\ mine' \in ServerState /\ touched' \in BOOLEAN
    BY GoneType DEF Returned
  <1>2. 0 \in Replica /\ 0 \in 0..MaxReplicas /\ 0 \in 0..MaxMishaps + 1
    BY ServerAssumption DEF Replica
  <1>3. at' \in 0..MaxReplicas /\ peer' \in Replica
        /\ binaries' \in [Replica -> 0..MaxMishaps + 1]
    BY <1>2 DEF Returned, NoBinaries
  <1> QED
    BY <1>1, <1>3 DEF ReconcileTypeOK

(* Patches of the status keep its type.                                     *)
LEMMA PatchTypes ==
  ASSUME srv \in ServerState
  PROVE  /\ \A r \in Reasons : Patch([srv EXCEPT !.reason = r]) => srv' \in ServerState
         /\ \A p \in Replica \cup {NoReplica} :
               Patch([srv EXCEPT !.primary = p]) => srv' \in ServerState
         /\ \A s \in {"absent", "new", "live", "deleting"} :
               [srv EXCEPT !.state = s] \in ServerState
         /\ \A s \in ServerSpec : [srv EXCEPT !.spec = s] \in ServerState
  BY DEF Patch, ServerState

(* What the type invariant says of each variable.                           *)
LEMMA TypeFacts ==
  ASSUME TypeInv
  PROVE  /\ ClusterTypeOK /\ ReconcileTypeOK /\ mishaps \in Nat
         /\ srv \in ServerState /\ mine \in ServerState
         /\ srv.spec \in ServerSpec /\ mine.spec \in ServerSpec
         /\ at \in Nat /\ peer \in Nat
         /\ sql \in [Replica -> ReplicaRow] /\ peers \in [Replica -> [Replica -> PeerRow]]
  <1>1. ClusterTypeOK /\ ReconcileTypeOK
    BY DEF TypeInv, TypeOK
  <1>2. /\ mishaps \in Nat /\ srv \in ServerState
        /\ sql \in [Replica -> ReplicaRow] /\ peers \in [Replica -> [Replica -> PeerRow]]
    BY <1>1, ServerAssumption DEF ClusterTypeOK, ReplicaRow, PeerRow
  <1>3. mine \in ServerState /\ at \in Nat /\ peer \in Nat
    BY <1>1, ServerAssumption DEF ReconcileTypeOK, Replica
  <1>4. srv.spec \in ServerSpec /\ mine.spec \in ServerSpec
    BY <1>2, <1>3 DEF ServerState
  <1> QED
    BY <1>1, <1>2, <1>3, <1>4

(* Steps that return, or go on without moving a loop.                       *)
LEMMA LoopFrame ==
  ASSUME TypeInv,
         mishaps <= mishaps', mishaps' \in Nat,
         \A i \in Replica : sql'[i].life = sql[i].life,
         \/ Returned
         \/ /\ UNCHANGED <<mine, at, peer>>
            /\ pc' \in Early => pc \in Early
            /\ pc' \notin Exchanging \cup {"setup"} \/ pc' = pc
  PROVE  LoopInv'
  <1>1. \A i \in Replica : sql[i].life \in Nat /\ mishaps \in Nat
    BY ServerAssumption DEF TypeInv, TypeOK, ClusterTypeOK
  <1> QED
    BY <1>1 DEF TypeInv, LoopInv, Exchanging, Returned

(* The initial state is well typed.                                         *)
LEMMA TypeInit == Init => TypeInv
  <1> SUFFICES ASSUME Init PROVE TypeInv
    OBVIOUS
  <1> USE DEF Init
  <1>1. srv \in ServerState
    BY ServerAssumption DEF ClusterInit, ServerState, Reasons
  <1>2. 1 \in 1..MaxMishaps + 1 /\ 0 \in 0..MaxMishaps + 1 /\ 0 \in 0..MaxMishaps
        /\ 0 \in 0..MaxEdits /\ 0 \in 0..MaxReplicas /\ 0 \in 0..MaxReplicas + 2
        /\ 0 \in Replica
    BY ServerAssumption DEF Replica
  <1>3. sql \in [Replica -> ReplicaRow]
    BY <1>2, ReplicaTypes DEF ClusterInit
  <1>4. peers \in [Replica -> [Replica -> PeerRow]]
    BY <1>2 DEF ClusterInit, NoImport, PeerRow
  <1>5. /\ objects \in [Object -> 0..MaxReplicas + 2]
        /\ secrets \subseteq {"sa", "credentials", "ca", "saCredentials"}
        /\ certs \subseteq Replica /\ up \subseteq Replica
        /\ label \in [Replica -> {"none", "primary", "secondary"}]
        /\ edits \in 0..MaxEdits /\ mishaps \in 0..MaxMishaps
    BY <1>2 DEF ClusterInit
  <1>6. group \in [replicas : 0..MaxReplicas, primary : Replica \cup {NoReplica}]
    BY <1>2 DEF ClusterInit, NoGroup
  <1>7. queued \in BOOLEAN
    BY DEF ClusterInit
  <1>8. ClusterTypeOK
    BY <1>1, <1>3, <1>4, <1>5, <1>6, <1>7 DEF ClusterTypeOK, ReplicaRow, PeerRow
  <1>9. touched \in BOOLEAN
    BY DEF ReconcileInit
  <1>10. ReconcileTypeOK
    BY <1>2, <1>9, GoneType DEF ReconcileInit, ReconcileTypeOK, NoBinaries
  <1>11. LoopInv
    BY ServerAssumption DEF ReconcileInit, ClusterInit, LoopInv, Exchanging, Early, NewReplica
  <1> QED
    BY <1>8, <1>10, <1>11 DEF TypeInv, TypeOK

(* Fetch and the objects of phase 1 keep the types.                         *)
LEMMA ObjectTypes ==
  ASSUME TypeInv,
         \/ Fetch \/ ReconcileConfigMap \/ ReconcileHeadlessService \/ ReconcileClientService
         \/ ReconcileReadOnlyService \/ ReconcileStatefulSet \/ CheckPods
  PROVE  TypeInv'
  <1>1. /\ ClusterTypeOK /\ ReconcileTypeOK /\ mishaps \in Nat
        /\ srv \in ServerState /\ mine \in ServerState /\ mine.spec \in ServerSpec
    BY TypeFacts
  <1>2. CASE Fetch
    <2>1. UNCHANGED <<children, instances, bounds, at, peer, binaries, touched>>
      BY <1>2 DEF Fetch, reconcile
    <2>2. srv' \in ServerState /\ mine' \in ServerState
      BY <1>1, <1>2, PatchTypes DEF Fetch, reconcile
    <2>3. pc' = pc \/ pc' \in {"config", "probe"}
      BY <1>2 DEF Fetch, reconcile
    <2>4. queued' \in BOOLEAN
      BY <1>1, <1>2 DEF Fetch, ClusterTypeOK
    <2>5. ClusterTypeOK'
      BY <1>1, <2>1, <2>2, <2>4 DEF ClusterTypeOK, children, instances, bounds
    <2>6. ReconcileTypeOK'
      BY <1>1, <2>1, <2>2, <2>3 DEF ReconcileTypeOK, Object
    <2>7. LoopInv'
      <3>1. pc = "idle" /\ (pc' \in {"config", "probe"} \/ pc' = "idle")
        BY <1>2, <2>3 DEF Fetch
      <3> QED
        BY <2>1, <3>1 DEF TypeInv, LoopInv, Exchanging, Early, Object, instances, bounds
    <2> QED
      BY <2>5, <2>6, <2>7 DEF TypeInv, TypeOK
  <1>3. CASE \/ ReconcileConfigMap \/ ReconcileHeadlessService \/ ReconcileClientService
             \/ ReconcileReadOnlyService \/ ReconcileStatefulSet
    <2> USE DEF ReconcileConfigMap, ReconcileHeadlessService, ReconcileClientService,
                ReconcileReadOnlyService, ReconcileStatefulSet, Write, Goto
    <2>1. PICK o \in Object, n \in 1..MaxReplicas + 2 :
             objects' = [objects EXCEPT ![o] = n] \/ objects' = objects
      <3>1. \A o \in Object : Desired(o, mine.spec) \in 1..MaxReplicas + 2
        BY <1>1, SpecParts
      <3>2. DesiredService(mine.spec) = Desired("headless", mine.spec)
        BY DEF Desired
      <3>3. {"config", "headless", "client", "readOnly", "statefulSet"} \subseteq Object
        BY DEF Object
      <3>4. CASE ReconcileHeadlessService
        <4>1. \/ objects' = [objects EXCEPT !["headless"] = DesiredService(mine.spec)]
              \/ objects' = objects
          BY <1>1, <3>3, <3>4 DEF ClusterTypeOK
        <4> QED
          BY <3>1, <3>2, <3>3, <4>1
      <3> QED
        BY <1>3, <3>1, <3>3, <3>4
    <2>2. objects' \in [Object -> 0..MaxReplicas + 2]
      BY <1>1, <2>1, ServerAssumption DEF ClusterTypeOK
    <2>3. /\ UNCHANGED <<srv, secrets, certs, group, instances, bounds>>
          /\ UNCHANGED <<mine, at, peer, binaries, touched, queued>>
          /\ pc \in Object /\ pc' \in {"headless", "client", "readOnly", "statefulSet", "pods"}
      BY <1>3 DEF Object
    <2>4. ClusterTypeOK'
      BY <1>1, <2>2, <2>3 DEF ClusterTypeOK, instances, bounds
    <2>5. ReconcileTypeOK'
      BY <1>1, <2>3 DEF ReconcileTypeOK, Object
    <2>6. LoopInv'
      BY <1>1, <2>3, LoopFrame DEF instances, bounds, Exchanging, Early, Object
    <2> QED
      BY <2>4, <2>5, <2>6 DEF TypeInv, TypeOK
  <1>4. CASE CheckPods
    <2>1. UNCHANGED <<children, instances, bounds>>
      BY <1>4 DEF CheckPods
    <2>2. srv' \in ServerState
      BY <1>1, <1>4, PatchTypes DEF CheckPods, SetCondition, Reasons
    <2>3. queued' \in BOOLEAN
      BY <1>1, <1>4 DEF CheckPods, SetCondition, Return, Goto, ClusterTypeOK
    <2>4. \/ Returned
          \/ /\ pc = "pods" /\ pc' \in {"ca", "secrets", "primary"}
             /\ UNCHANGED <<mine, at, peer, binaries, touched>>
      BY <1>4 DEF CheckPods, SetCondition, Return, Goto, ReconcileCertificates
    <2>5. ClusterTypeOK'
      BY <1>1, <2>1, <2>2, <2>3 DEF ClusterTypeOK, children, instances, bounds
    <2>6. ReconcileTypeOK'
      BY <1>1, <2>4, ReturnedTypes DEF ReconcileTypeOK
    <2>7. LoopInv'
      BY <1>1, <2>1, <2>4, ReturnedTypes, LoopFrame DEF instances, bounds, Exchanging, Early, Object
    <2> QED
      BY <2>5, <2>6, <2>7 DEF TypeInv, TypeOK
  <1> QED
    BY <1>2, <1>3, <1>4

(* The steps of the certificates phase keep the types.                      *)
LEMMA CertificateTypes == ASSUME TypeInv, CertificateStep PROVE TypeInv'
  <1>1. /\ ClusterTypeOK /\ ReconcileTypeOK /\ mishaps \in Nat
        /\ srv \in ServerState /\ mine \in ServerState /\ mine.spec \in ServerSpec
        /\ at \in Nat /\ peer \in Nat
        /\ sql \in [Replica -> ReplicaRow] /\ peers \in [Replica -> [Replica -> PeerRow]]
    BY TypeFacts
  <1>2. mine.spec.replicas \in 1..MaxReplicas /\ mine.spec.replicas \in Nat
    BY <1>1, SpecParts
  <1>3. CASE EnsureCA \/ ReconcileSelfSignedCerts
    <2>1. /\ UNCHANGED <<srv, objects, instances, group, bounds, queued>>
          /\ UNCHANGED <<mine, at, peer, binaries, touched>>
          /\ pc \in {"ca", "secrets"} /\ pc' \in {"secrets", "credentials"}
      BY <1>3 DEF EnsureCA, ReconcileSelfSignedCerts, Goto, reconcile
    <2>2. certs' \subseteq Replica
      BY <1>1, <1>3
      DEF EnsureCA, ReconcileSelfSignedCerts, MissingCerts, Members, ClusterTypeOK
    <2>3. secrets' \subseteq {"sa", "credentials", "ca", "saCredentials"}
      BY <1>1, <1>3 DEF EnsureCA, ReconcileSelfSignedCerts, ClusterTypeOK
    <2>4. ClusterTypeOK'
      BY <1>1, <2>1, <2>2, <2>3 DEF ClusterTypeOK, instances, bounds
    <2>5. ReconcileTypeOK'
      BY <1>1, <2>1 DEF ReconcileTypeOK
    <2>6. LoopInv'
      BY <1>1, <2>1, LoopFrame DEF instances, bounds, Exchanging, Early, Object
    <2> QED
      BY <2>4, <2>5, <2>6 DEF TypeInv, TypeOK
  <1>4. CASE ReconcileCertManagerCerts
    <2>1. UNCHANGED <<children, instances, bounds>>
      BY <1>4 DEF ReconcileCertManagerCerts
    <2>2. srv' \in ServerState
      BY <1>1, <1>4, PatchTypes DEF ReconcileCertManagerCerts, SetCondition, Reasons
    <2>3. queued' \in BOOLEAN
      BY <1>1, <1>4 DEF ReconcileCertManagerCerts, SetCondition, Return, Goto, ClusterTypeOK
    <2>4. \/ Returned
          \/ /\ pc = "secrets" /\ pc' = "credentials"
             /\ UNCHANGED <<mine, at, peer, binaries, touched>>
      BY <1>4 DEF ReconcileCertManagerCerts, SetCondition, Return, Goto
    <2>5. ClusterTypeOK'
      BY <1>1, <2>1, <2>2, <2>3 DEF ClusterTypeOK, children, instances, bounds
    <2>6. ReconcileTypeOK'
      BY <1>1, <2>4, ReturnedTypes DEF ReconcileTypeOK
    <2>7. LoopInv'
      BY <1>1, <2>1, <2>4, ReturnedTypes, LoopFrame DEF instances, bounds, Exchanging, Early, Object
    <2> QED
      BY <2>5, <2>6, <2>7 DEF TypeInv, TypeOK
  <1>5. CASE ReadCredentials
    <2>1. UNCHANGED <<srv, children, instances, bounds>>
      BY <1>5 DEF ReadCredentials
    <2>2. queued' \in BOOLEAN
      BY <1>1, <1>5 DEF ReadCredentials, Return, Goto, ClusterTypeOK
    <2>3. \/ Returned
          \/ pc = "credentials" /\ pc' = "setup" /\ UNCHANGED <<mine, at, peer, binaries, touched>>
      BY <1>5 DEF ReadCredentials, Return, Goto
    <2>4. ClusterTypeOK'
      BY <1>1, <2>1, <2>2 DEF ClusterTypeOK, children, instances, bounds
    <2>5. ReconcileTypeOK'
      BY <1>1, <2>3, ReturnedTypes DEF ReconcileTypeOK
    <2>6. LoopInv'
      <3>1. CASE Returned
        BY <1>1, <2>1, <3>1, LoopFrame DEF instances, bounds
      <3>2. CASE pc = "credentials" /\ pc' = "setup" /\ UNCHANGED <<mine, at, peer>>
        BY <1>2, <2>1, <3>2 DEF TypeInv, LoopInv, Exchanging, Early, Object, instances, bounds
      <3> QED
        BY <2>3, <3>1, <3>2
    <2> QED
      BY <2>4, <2>5, <2>6 DEF TypeInv, TypeOK
  <1>6. CASE SetupReplica
    <2>1. UNCHANGED <<srv, children, up, label, peers, bounds>>
      BY <1>6 DEF SetupReplica
    <2>2. pc = "setup" /\ at \in 0..MaxReplicas /\ at <= mine.spec.replicas
      BY <1>6, <1>1 DEF SetupReplica, TypeInv, LoopInv, ReconcileTypeOK
    <2>3. at < mine.spec.replicas => at \in Replica /\ at + 1 \in 0..MaxReplicas
      BY <1>1, <1>2, <2>2, ServerAssumption DEF Replica
    <2>4. sql' \in [Replica -> ReplicaRow] /\ \A i \in Replica : sql'[i].life = sql[i].life
      <3>1. CASE sql' = sql
        BY <1>1, <3>1
      <3>2. CASE sql' = [sql EXCEPT ![at] = Setup(@)] /\ at < mine.spec.replicas
        BY <1>1, <2>3, <3>2, ReplicaTypes
      <3> QED
        BY <1>6, <3>1, <3>2 DEF SetupReplica
    <2>5. queued' \in BOOLEAN
      BY <1>1, <1>6 DEF SetupReplica, Return, ClusterTypeOK
    <2>6. ClusterTypeOK'
      BY <1>1, <2>1, <2>4, <2>5 DEF ClusterTypeOK, children, bounds, ReplicaRow
    <2>7. CASE Returned
      BY <1>1, <2>1, <2>4, <2>6, <2>7, ReturnedTypes, LoopFrame DEF TypeInv, TypeOK, bounds
    <2>8. CASE pc' = "exchange" /\ at' = 0 /\ peer' = 0 /\ UNCHANGED <<mine, binaries, touched>>
      <3>1. 0 \in Replica /\ 0 \in 0..MaxReplicas /\ 0 < mine.spec.replicas
        BY <1>2, ServerAssumption DEF Replica
      <3>2. ReconcileTypeOK'
        BY <1>1, <2>8, <3>1 DEF ReconcileTypeOK
      <3>3. LoopInv'
        BY <1>2, <2>1, <2>4, <2>8, <3>1 DEF TypeInv, LoopInv, Exchanging, Early, Object, bounds
      <3> QED
        BY <2>6, <3>2, <3>3 DEF TypeInv, TypeOK
    <2>9. CASE UNCHANGED reconcile
      <3>1. ReconcileTypeOK'
        BY <1>1, <2>9 DEF ReconcileTypeOK, reconcile
      <3>2. LoopInv'
        BY <1>1, <2>1, <2>4, <2>9, LoopFrame DEF reconcile, bounds
      <3> QED
        BY <2>6, <3>1, <3>2 DEF TypeInv, TypeOK
    <2>10. CASE /\ binaries' = [binaries EXCEPT ![at] = sql[at].life] /\ at' = at + 1
                /\ at < mine.spec.replicas
                /\ UNCHANGED <<pc, mine, peer, touched>>
      <3>1. sql[at].life \in 0..MaxMishaps + 1
        BY <1>1, <2>3, <2>10 DEF ReplicaRow
      <3>2. ReconcileTypeOK'
        BY <1>1, <2>3, <2>10, <3>1 DEF ReconcileTypeOK
      <3>3. LoopInv'
        BY <1>1, <1>2, <2>1, <2>2, <2>4, <2>10
        DEF TypeInv, LoopInv, Exchanging, Early, Object, bounds
      <3> QED
        BY <2>6, <3>2, <3>3 DEF TypeInv, TypeOK
    <2> QED
      BY <1>6, <2>7, <2>8, <2>9, <2>10 DEF SetupReplica, Return
  <1>7. CASE ImportPeer \/ CreateLoginFromCertificate \/ GrantEndpointConnect
    <2>1. UNCHANGED <<srv, children, up, label, sql, bounds>>
      BY <1>7 DEF ImportPeer, CreateLoginFromCertificate, GrantEndpointConnect
    <2>2. pc \in Exchanging /\ peer < mine.spec.replicas /\ at <= mine.spec.replicas
      BY <1>7
      DEF ImportPeer, CreateLoginFromCertificate, GrantEndpointConnect, TypeInv, LoopInv,
          Exchanging
    <2>3. at < mine.spec.replicas => at \in Replica /\ at + 1 \in 0..MaxReplicas
      BY <1>1, <1>2, ServerAssumption DEF Replica
    <2>4. pc # "exchange" => at < mine.spec.replicas
      BY <2>2 DEF TypeInv, LoopInv, Exchanging
    <2>5. peer \in Replica
      BY <1>1 DEF ReconcileTypeOK
    <2>6. ASSUME at \in Replica, NEW stage \in {"imported", "login", "granted"},
                 NEW c \in 0..MaxMishaps + 1, Import(stage, c)
          PROVE  peers' \in [Replica -> [Replica -> PeerRow]]
      <3>1. [cert |-> c, stage |-> stage] \in PeerRow
        BY DEF PeerRow
      <3> QED
        BY <1>1, <2>5, <2>6, <3>1 DEF Import
    <2>7. peers' \in [Replica -> [Replica -> PeerRow]]
      <3>1. CASE UNCHANGED peers
        BY <1>1, <3>1
      <3>2. CASE at < mine.spec.replicas /\ Import("imported", binaries[peer])
        BY <1>1, <2>3, <2>5, <2>6, <3>2 DEF ReconcileTypeOK
      <3>3. CASE at < mine.spec.replicas /\ \/ Import("login", peers[at][peer].cert)
                                            \/ Import("granted", peers[at][peer].cert)
        <4>1. peers[at][peer].cert \in 0..MaxMishaps + 1
          BY <1>1, <2>3, <2>5, <3>3 DEF PeerRow
        <4> QED
          BY <2>3, <2>6, <3>3, <4>1
      <3> QED
        BY <1>7, <2>4, <3>1, <3>2, <3>3
        DEF ImportPeer, CreateLoginFromCertificate, GrantEndpointConnect
    <2>8. queued' \in BOOLEAN
      BY <1>1, <1>7
      DEF ImportPeer, CreateLoginFromCertificate, GrantEndpointConnect, Return, Goto, ClusterTypeOK
    <2>9. ClusterTypeOK'
      BY <1>1, <2>1, <2>7, <2>8 DEF ClusterTypeOK, children, bounds, PeerRow
    <2>10. CASE Returned
      BY <1>1, <2>1, <2>9, <2>10, ReturnedTypes, LoopFrame DEF TypeInv, TypeOK, bounds
    <2>11. CASE /\ UNCHANGED <<mine, at, peer, binaries, touched>>
                /\ \/ pc' = "group"
                   \/ pc' \in {"login", "grant"} /\ at < mine.spec.replicas
      <3>1. ReconcileTypeOK'
        BY <1>1, <2>11 DEF ReconcileTypeOK
      <3>2. LoopInv'
        BY <1>1, <1>2, <2>1, <2>2, <2>11
        DEF TypeInv, LoopInv, Exchanging, Early, Object, bounds
      <3> QED
        BY <2>9, <3>1, <3>2 DEF TypeInv, TypeOK
    <2>12. CASE /\ pc' = "exchange" /\ NextPair /\ at < mine.spec.replicas
                /\ UNCHANGED <<mine, binaries, touched>>
      <3>1. /\ at' \in 0..MaxReplicas /\ at' <= mine.spec.replicas
            /\ peer' \in Replica /\ peer' < mine.spec.replicas
        BY <1>1, <1>2, <2>3, <2>12, ServerAssumption DEF NextPair, Replica
      <3>2. ReconcileTypeOK'
        BY <1>1, <2>12, <3>1 DEF ReconcileTypeOK
      <3>3. LoopInv'
        BY <1>1, <1>2, <2>1, <2>12, <3>1
        DEF TypeInv, LoopInv, Exchanging, Early, Object, bounds
      <3> QED
        BY <2>9, <3>2, <3>3 DEF TypeInv, TypeOK
    <2> QED
      BY <1>7, <2>4, <2>10, <2>11, <2>12
      DEF ImportPeer, CreateLoginFromCertificate, GrantEndpointConnect, Return, Goto, Import
  <1> QED
    BY <1>3, <1>4, <1>5, <1>6, <1>7 DEF CertificateStep

(* The group, the labels, the probe and an interruption keep the types.     *)
LEMMA ReportTypes ==
  ASSUME TypeInv,
         \/ ReconcileManagedAG \/ EnsureSACredentialsSecret \/ CreateGroup \/ LabelPods
         \/ Probe \/ Interrupted
  PROVE  TypeInv'
  <1>1. /\ ClusterTypeOK /\ ReconcileTypeOK /\ mishaps \in Nat
        /\ srv \in ServerState /\ mine \in ServerState /\ mine.spec \in ServerSpec
    BY TypeFacts
  <1>2. mine.spec.replicas \in 1..MaxReplicas /\ mine.spec.replicas \in Nat
    BY <1>1, SpecParts
  <1>3. /\ mishaps' \in 0..MaxMishaps /\ mishaps' \in Nat /\ mishaps <= mishaps'
        /\ UNCHANGED <<objects, certs, up, sql, peers, edits>>
    <2>1. UNCHANGED mishaps \/ Mishap
      BY DEF ReconcileManagedAG, EnsureSACredentialsSecret, CreateGroup, LabelPods, Probe,
             Interrupted, bounds
    <2>2. mishaps' \in 0..MaxMishaps /\ mishaps' \in Nat /\ mishaps <= mishaps'
      BY <1>1, <2>1, ServerAssumption DEF Mishap, ClusterTypeOK
    <2> QED
      BY <2>2
      DEF ReconcileManagedAG, EnsureSACredentialsSecret, CreateGroup, LabelPods, Probe,
          Interrupted, children, instances, bounds
  <1>4. srv' \in ServerState
    <2>1. mine.primary \in Replica \cup {NoReplica}
      BY <1>1 DEF ServerState
    <2>2. {"AGProvisioning", "UnsupportedAuthMethod", "SecretNotFound", "Ready"} \subseteq Reasons
      BY DEF Reasons
    <2>3. CASE LabelPods
      BY <1>1, <2>1, <2>3, PatchTypes DEF LabelPods
    <2>4. CASE Probe \/ EnsureSACredentialsSecret
      BY <1>1, <2>2, <2>4, PatchTypes DEF Probe, EnsureSACredentialsSecret, SetCondition
    <2>5. CASE ReconcileManagedAG \/ CreateGroup \/ Interrupted
      BY <1>1, <2>5 DEF ReconcileManagedAG, CreateGroup, Interrupted
    <2> QED
      BY <2>3, <2>4, <2>5
  <1>5. secrets' \subseteq {"sa", "credentials", "ca", "saCredentials"}
    BY <1>1
    DEF ReconcileManagedAG, EnsureSACredentialsSecret, CreateGroup, LabelPods, Probe, Interrupted,
        children, ClusterTypeOK
  <1>6. label' \in [Replica -> {"none", "primary", "secondary"}]
    BY <1>1
    DEF ReconcileManagedAG, EnsureSACredentialsSecret, CreateGroup, LabelPods, Probe, Interrupted,
        instances, ClusterTypeOK
  <1>7. group' \in [replicas : 0..MaxReplicas, primary : Replica \cup {NoReplica}]
    <2>1. \/ UNCHANGED group
          \/ group' = [replicas |-> mine.spec.replicas, primary |-> NoReplica]
      BY DEF ReconcileManagedAG, EnsureSACredentialsSecret, CreateGroup, LabelPods, Probe,
             Interrupted, children
    <2>2. mine.spec.replicas \in 0..MaxReplicas
      BY <1>2, ServerAssumption
    <2>3. group \in [replicas : 0..MaxReplicas, primary : Replica \cup {NoReplica}]
      BY <1>1 DEF ClusterTypeOK
    <2> QED
      BY <2>1, <2>2, <2>3
  <1>8. queued' \in BOOLEAN
    BY <1>1
    DEF ReconcileManagedAG, EnsureSACredentialsSecret, CreateGroup, LabelPods, Probe, Interrupted,
        Goto, CopyPrimary, SetCondition, Return, ClusterTypeOK
  <1>9. ClusterTypeOK'
    BY <1>1, <1>3, <1>4, <1>5, <1>6, <1>7, <1>8 DEF ClusterTypeOK
  <1>10. CASE Returned
    BY <1>3, <1>9, <1>10, ReturnedTypes, LoopFrame DEF TypeInv, TypeOK
  <1>11. CASE UNCHANGED reconcile
    <2>1. ReconcileTypeOK'
      BY <1>1, <1>11 DEF ReconcileTypeOK, reconcile
    <2> QED
      BY <1>3, <1>9, <1>11, <2>1, LoopFrame DEF TypeInv, TypeOK, reconcile
  <1>12. CASE /\ pc' \in {"primary", "createGroup", "probe"}
              /\ UNCHANGED <<mine, at, peer, binaries, touched>>
    <2>1. ReconcileTypeOK'
      BY <1>1, <1>12 DEF ReconcileTypeOK
    <2> QED
      BY <1>3, <1>9, <1>12, <2>1, LoopFrame DEF TypeInv, TypeOK, Early, Object, Exchanging
  <1>13. CASE CopyPrimary
    <2>1. \A p \in Replica \cup {NoReplica} : [mine EXCEPT !.primary = p] \in ServerState
      BY <1>1 DEF ServerState
    <2>2. mine.primary \in Replica \cup {NoReplica} /\ group.primary \in Replica \cup {NoReplica}
      BY <1>1 DEF ServerState, ClusterTypeOK
    <2>3. mine' \in ServerState
      BY <1>13, <2>1, <2>2 DEF CopyPrimary
    <2>4. ReconcileTypeOK'
      BY <1>1, <1>13, <2>3 DEF ReconcileTypeOK, CopyPrimary
    <2>5. LoopInv'
      <3>1. \A i \in Replica : sql[i].life \in Nat /\ sql[i].life <= mishaps + 1
        BY TypeFacts, ServerAssumption DEF TypeInv, LoopInv, ReplicaRow
      <3> QED
        BY <1>1, <1>3, <1>13, <3>1 DEF LoopInv, CopyPrimary, Early, Object, Exchanging
    <2> QED
      BY <1>9, <2>4, <2>5 DEF TypeInv, TypeOK
  <1> QED
    BY <1>10, <1>11, <1>12, <1>13
    DEF ReconcileManagedAG, EnsureSACredentialsSecret, CreateGroup, LabelPods, Probe, Interrupted,
        Goto, SetCondition, Return

(* Users, Kubernetes, accidents and the other controller keep the types.    *)
LEMMA EnvironmentTypes ==
  ASSUME TypeInv, NEW i \in Replica,
         \/ EditServer \/ DeleteServer \/ CreateSecret \/ LoseSecret \/ LoseObject
         \/ IssueCertificates \/ PodReady(i) \/ PodRemoved(i) \/ PodLost(i)
         \/ CollectGarbage \/ ElectPrimary \/ CreateHADREndpoint
  PROVE  TypeInv'
  <1>1. /\ ClusterTypeOK /\ ReconcileTypeOK /\ mishaps \in Nat
        /\ srv \in ServerState /\ mine \in ServerState
        /\ sql \in [Replica -> ReplicaRow] /\ peers \in [Replica -> [Replica -> PeerRow]]
        /\ group \in [replicas : 0..MaxReplicas, primary : Replica \cup {NoReplica}]
    BY TypeFacts DEF ClusterTypeOK
  <1> USE DEF children, instances, bounds
  <1>2. UNCHANGED <<pc, mine, at, peer, binaries>> /\ touched' \in BOOLEAN
    BY <1>1
    DEF EditServer, DeleteServer, CreateSecret, LoseSecret, LoseObject, IssueCertificates,
        PodReady, PodRemoved, PodLost, CollectGarbage, ElectPrimary, CreateHADREndpoint, Touch,
        reconcile, ReconcileTypeOK
  <1>3. ReconcileTypeOK'
    BY <1>1, <1>2 DEF ReconcileTypeOK
  <1>4. mishaps' \in 0..MaxMishaps /\ mishaps' \in Nat /\ mishaps <= mishaps'
    <2>1. UNCHANGED mishaps \/ Mishap
      BY DEF EditServer, DeleteServer, CreateSecret, LoseSecret, LoseObject, IssueCertificates,
             PodReady, PodRemoved, PodLost, CollectGarbage, ElectPrimary, CreateHADREndpoint
    <2> QED
      BY <1>1, <2>1, ServerAssumption DEF Mishap, ClusterTypeOK
  <1>5. edits' \in 0..MaxEdits
    <2>1. UNCHANGED edits \/ (edits < MaxEdits /\ edits' = edits + 1)
      BY DEF EditServer, DeleteServer, CreateSecret, LoseSecret, LoseObject, IssueCertificates,
             PodReady, PodRemoved, PodLost, CollectGarbage, ElectPrimary, CreateHADREndpoint
    <2> QED
      BY <1>1, <2>1, ServerAssumption DEF ClusterTypeOK
  <1>6. queued' \in BOOLEAN
    BY <1>1
    DEF EditServer, DeleteServer, CreateSecret, LoseSecret, LoseObject, IssueCertificates,
        PodReady, PodRemoved, PodLost, CollectGarbage, ElectPrimary, CreateHADREndpoint, Event,
        ClusterTypeOK
  <1>7. srv' \in ServerState
    <2>1. CASE EditServer
      BY <1>1, <2>1, PatchTypes, ServerAssumption DEF EditServer
    <2>2. CASE DeleteServer
      BY <1>1, <2>2, PatchTypes DEF DeleteServer
    <2>3. CASE UNCHANGED srv
      BY <1>1, <2>3
    <2> QED
      BY <2>1, <2>2, <2>3
      DEF CreateSecret, LoseSecret, LoseObject, IssueCertificates, PodReady, PodRemoved, PodLost,
          CollectGarbage, ElectPrimary, CreateHADREndpoint
  <1>8. objects' \in [Object -> 0..MaxReplicas + 2]
    <2>1. \/ UNCHANGED objects
          \/ \E o \in Object : objects' = [objects EXCEPT ![o] = 0]
          \/ objects' = [o \in Object |-> 0]
      BY DEF EditServer, DeleteServer, CreateSecret, LoseSecret, LoseObject, IssueCertificates,
             PodReady, PodRemoved, PodLost, CollectGarbage, ElectPrimary, CreateHADREndpoint,
             Object
    <2>2. objects \in [Object -> 0..MaxReplicas + 2] /\ 0 \in 0..MaxReplicas + 2
      BY <1>1, ServerAssumption DEF ClusterTypeOK
    <2> QED
      BY <2>1, <2>2
  <1>9. /\ secrets' \subseteq {"sa", "credentials", "ca", "saCredentials"}
        /\ certs' \subseteq Replica
        /\ up' \subseteq Replica
        /\ label' \in [Replica -> {"none", "primary", "secondary"}]
    <2>1. secrets' \subseteq secrets \cup {"sa", "credentials"}
      BY DEF EditServer, DeleteServer, CreateSecret, LoseSecret, LoseObject, IssueCertificates,
             PodReady, PodRemoved, PodLost, CollectGarbage, ElectPrimary, CreateHADREndpoint
    <2>2. certs' \subseteq certs \cup Replica
      BY DEF EditServer, DeleteServer, CreateSecret, LoseSecret, LoseObject, IssueCertificates,
             PodReady, PodRemoved, PodLost, CollectGarbage, ElectPrimary, CreateHADREndpoint,
             Members
    <2>3. up' \subseteq up \cup {i}
      BY DEF EditServer, DeleteServer, CreateSecret, LoseSecret, LoseObject, IssueCertificates,
             PodReady, PodRemoved, PodLost, CollectGarbage, ElectPrimary, CreateHADREndpoint
    <2>4. \/ UNCHANGED label
          \/ label' = [label EXCEPT ![i] = "none"]
          \/ label' = [j \in Replica |-> "none"]
      BY DEF EditServer, DeleteServer, CreateSecret, LoseSecret, LoseObject, IssueCertificates,
             PodReady, PodRemoved, PodLost, CollectGarbage, ElectPrimary, CreateHADREndpoint
    <2>5. /\ secrets \subseteq {"sa", "credentials", "ca", "saCredentials"}
          /\ certs \subseteq Replica /\ up \subseteq Replica
          /\ label \in [Replica -> {"none", "primary", "secondary"}]
      BY <1>1 DEF ClusterTypeOK
    <2> QED
      BY <2>1, <2>2, <2>3, <2>4, <2>5
  <1>10. group' \in [replicas : 0..MaxReplicas, primary : Replica \cup {NoReplica}]
    <2>1. NoGroup \in [replicas : 0..MaxReplicas, primary : Replica \cup {NoReplica}]
      BY ServerAssumption DEF NoGroup
    <2>2. \/ UNCHANGED group
          \/ group' = NoGroup
          \/ \E p \in Replica : group' = [group EXCEPT !.primary = p]
      <3>1. 0 \in Replica
        BY ServerAssumption DEF Replica
      <3> QED
        BY <3>1
        DEF EditServer, DeleteServer, CreateSecret, LoseSecret, LoseObject, IssueCertificates,
            PodReady, PodRemoved, PodLost, CollectGarbage, ElectPrimary, CreateHADREndpoint,
            Members
    <2> QED
      BY <1>1, <2>1, <2>2
  <1>11. /\ sql' \in [Replica -> ReplicaRow] /\ peers' \in [Replica -> [Replica -> PeerRow]]
         /\ \A j \in Replica : sql'[j].life <= mishaps' + 1
    <2>1. \A j \in Replica : sql[j].life \in Nat /\ sql[j].life <= mishaps + 1
      BY <1>1, ServerAssumption DEF TypeInv, LoopInv, ReplicaRow
    <2>2. CASE UNCHANGED <<sql, peers>>
      BY <1>1, <1>4, <2>1, <2>2
    <2>3. CASE CreateHADREndpoint
      <3>1. /\ UNCHANGED <<peers, mishaps>>
            /\ \E j \in Replica : sql' = [sql EXCEPT ![j].endpoint = "plain"]
        BY <2>3 DEF CreateHADREndpoint, Members
      <3>2. PICK k \in Replica : sql' = [sql EXCEPT ![k].endpoint = "plain"]
        BY <3>1
      <3>3. sql' \in [Replica -> ReplicaRow] /\ \A j \in Replica : sql'[j].life = sql[j].life
        BY <1>1, <3>2 DEF ReplicaRow
      <3> QED
        BY <1>1, <2>1, <3>1, <3>3
    <2>4. CASE /\ PodLost(i)
               /\ sql' = [sql EXCEPT ![i] = NewReplica(@.life + 1)]
               /\ peers' = [peers EXCEPT ![i] = [j \in Replica |-> NoImport]]
      <3>1. mishaps' = mishaps + 1 /\ mishaps' <= MaxMishaps
        BY <1>4, <2>4, ServerAssumption DEF PodLost, Mishap
      <3>2. sql[i].life + 1 \in 1..MaxMishaps + 1 /\ sql[i].life + 1 <= mishaps' + 1
        BY <1>1, <2>1, <3>1, ServerAssumption
      <3>3. sql' \in [Replica -> ReplicaRow]
        BY <1>1, <2>4, <3>2, ReplicaTypes
      <3>4. [j \in Replica |-> NoImport] \in [Replica -> PeerRow]
        BY ServerAssumption DEF NoImport, PeerRow
      <3>5. peers' \in [Replica -> [Replica -> PeerRow]]
        BY <1>1, <2>4, <3>4
      <3>6. NewReplica(sql[i].life + 1).life = sql[i].life + 1
        BY DEF NewReplica
      <3>7. \A j \in Replica : sql'[j].life <= mishaps' + 1
        BY <1>1, <2>1, <2>4, <3>1, <3>2, <3>6
      <3> QED
        BY <3>3, <3>5, <3>7
    <2> QED
      BY <2>2, <2>3, <2>4
      DEF EditServer, DeleteServer, CreateSecret, LoseSecret, LoseObject, IssueCertificates,
          PodReady, PodRemoved, PodLost, CollectGarbage, ElectPrimary
  <1>12. ClusterTypeOK'
    BY <1>4, <1>5, <1>6, <1>7, <1>8, <1>9, <1>10, <1>11 DEF ClusterTypeOK, ReplicaRow, PeerRow
  <1>13. LoopInv'
    BY <1>2, <1>11 DEF TypeInv, LoopInv
  <1> QED
    BY <1>3, <1>12, <1>13 DEF TypeInv, TypeOK

(* Every step keeps the types.                                              *)
LEMMA TypeStep == TypeInv /\ [Next]_vars => TypeInv'
  <1> SUFFICES ASSUME TypeInv, [Next]_vars PROVE TypeInv'
    OBVIOUS
  <1>1. CASE ReconcileStep
    BY <1>1, ObjectTypes, CertificateTypes, ReportTypes DEF ReconcileStep
  <1>2. CASE Interrupted
    BY <1>2, ReportTypes
  <1>3. CASE UNCHANGED vars
    BY <1>3
    DEF TypeInv, TypeOK, ClusterTypeOK, ReconcileTypeOK, LoopInv, vars, cluster, reconcile
  <1>4. 0 \in Replica
    BY ServerAssumption DEF Replica
  <1> QED
    BY <1>1, <1>2, <1>3, <1>4, EnvironmentTypes DEF Next

(* The loops over the replicas never leave the spec they started from.      *)
LEMMA TypeInvariant == Spec => []TypeInv
  BY TypeInit, TypeStep, PTL DEF Spec

(* Type correctness, for any number of replicas and any bounds: TypeOK is   *)
(* not inductive by itself, the indices of the two loops over the replicas  *)
(* and the number of lost volumes have to be bounded as well.               *)
THEOREM ManagedTypeCorrect == Spec => []TypeOK
  <1>1. TypeInv => TypeOK
    BY DEF TypeInv
  <1> QED
    BY <1>1, TypeInvariant, PTL

------------------------------------------------------------------------------
(* The two controllers that create endpoints.                              *)

Completed == {"group", "createGroup"}

(* Replica i has an endpoint.                                               *)
HasEndpoint(i) == sql[i].endpoint # "none"

(* As long as no volume is lost, a replica has its endpoint before it can   *)
(* be in a group: the group lists replicas that Reconcile had set up.       *)
EndpointInv ==
    NoVolumeLost =>
        /\ \A i \in Replica : sql[i].endpoint # "plain"
        /\ pc = "setup" => \A i \in Members(at) : HasEndpoint(i)
        /\ pc \in Exchanging \cup Completed =>
              \A i \in Members(mine.spec.replicas) : HasEndpoint(i)
        /\ \A i \in Members(group.replicas) : HasEndpoint(i)

(* What may happen to an instance: a statement of the setup, an endpoint    *)
(* from the other controller, or a new volume.                              *)
LEMMA InstanceSteps ==
  ASSUME [Next]_vars
  PROVE  \/ UNCHANGED sql
         \/ /\ pc = "setup" /\ at < mine.spec.replicas
            /\ sql' = [sql EXCEPT ![at] = Setup(@)]
            /\ ~IsSetUp(sql[at])
            /\ UNCHANGED <<reconcile, peers, mishaps>>
         \/ CreateHADREndpoint
         \/ \E i \in Replica : PodLost(i) /\ sql' = [sql EXCEPT ![i] = NewReplica(@.life + 1)]
  <1> USE DEF children, instances, bounds
  <1>1. CASE ReconcileStep
    <2>1. CASE CertificateStep
      BY <2>1
      DEF CertificateStep, EnsureCA, ReconcileSelfSignedCerts, ReconcileCertManagerCerts,
          ReadCredentials, SetupReplica, ImportPeer, CreateLoginFromCertificate,
          GrantEndpointConnect
    <2>2. CASE ~CertificateStep
      BY <1>1, <2>2
      DEF ReconcileStep, Fetch, ReconcileConfigMap, ReconcileHeadlessService,
          ReconcileClientService, ReconcileReadOnlyService, ReconcileStatefulSet, Write, CheckPods,
          ReconcileManagedAG, EnsureSACredentialsSecret, CreateGroup, LabelPods, Probe
    <2> QED
      BY <2>1, <2>2
  <1>2. CASE ~ReconcileStep
    BY <1>2
    DEF Next, Interrupted, EditServer, DeleteServer, CreateSecret, LoseSecret, LoseObject,
        IssueCertificates, PodReady, PodRemoved, PodLost, CollectGarbage, ElectPrimary, vars,
        cluster
  <1> QED
    BY <1>1, <1>2

(* While no volume is lost, an endpoint stays, and the setup makes only     *)
(* endpoints with certificates.                                             *)
LEMMA EndpointsStay ==
  ASSUME TypeInv, EndpointInv, [Next]_vars, NoVolumeLost'
  PROVE  /\ NoVolumeLost
         /\ \A i \in Replica : /\ HasEndpoint(i) => HasEndpoint(i)'
                               /\ sql'[i].endpoint # "plain"
  <1>1. /\ sql \in [Replica -> ReplicaRow]
        /\ \A i \in Replica : sql[i].life \in Nat \ {0}
        /\ at \in Nat /\ mine.spec \in ServerSpec
    BY TypeFacts, ServerAssumption DEF ReplicaRow
  <1>2. mine.spec.replicas \in 1..MaxReplicas /\ mine.spec.replicas \in Nat
    BY <1>1, SpecParts
  <1>3. CASE UNCHANGED sql
    BY <1>3 DEF NoVolumeLost, HasEndpoint, EndpointInv
  <1>4. CASE pc = "setup" /\ at < mine.spec.replicas /\ sql' = [sql EXCEPT ![at] = Setup(@)]
    <2>1. at \in Replica
      BY <1>1, <1>2, <1>4, ServerAssumption DEF Replica
    <2>2. /\ Setup(sql[at]).life = sql[at].life
          /\ Setup(sql[at]).endpoint \in {sql[at].endpoint, "certificate"}
      <3>1. sql[at] \in ReplicaRow
        BY <1>1, <2>1
      <3> QED
        BY <3>1 DEF Setup, ReplicaRow
    <2>3. \A i \in Replica : /\ sql'[i].life = sql[i].life
                             /\ sql'[i].endpoint \in {sql[i].endpoint, "certificate"}
      BY <1>1, <1>4, <2>1, <2>2
    <2>4. NoVolumeLost
      BY <2>3 DEF NoVolumeLost
    <2> QED
      BY <2>3, <2>4 DEF HasEndpoint, EndpointInv
  <1>5. CASE CreateHADREndpoint
    <2>1. PICK k \in Members(group.replicas) :
             sql[k].endpoint = "none" /\ sql' = [sql EXCEPT ![k].endpoint = "plain"]
      BY <1>5 DEF CreateHADREndpoint
    <2>2. \A i \in Replica : sql'[i].life = sql[i].life
      BY <1>1, <2>1 DEF ReplicaRow, Members
    <2>3. NoVolumeLost
      BY <2>2 DEF NoVolumeLost
    <2>4. HasEndpoint(k)
      BY <2>3 DEF EndpointInv
    <2> QED
      BY <2>1, <2>4 DEF HasEndpoint
  <1>6. ASSUME NEW i \in Replica, sql' = [sql EXCEPT ![i] = NewReplica(@.life + 1)]
        PROVE  FALSE
    <2>1. sql'[i].life = sql[i].life + 1
      BY <1>1, <1>6 DEF NewReplica
    <2> QED
      BY <1>1, <2>1 DEF NoVolumeLost
  <1> QED
    BY <1>3, <1>4, <1>5, <1>6, InstanceSteps

(* Every step keeps EndpointInv.                                            *)
LEMMA EndpointStep == TypeInv /\ EndpointInv /\ [Next]_vars => EndpointInv'
  <1> SUFFICES ASSUME TypeInv, EndpointInv, [Next]_vars PROVE EndpointInv'
    OBVIOUS
  <1> USE DEF children, instances, bounds
  <1>1. /\ at \in Nat /\ mine.spec \in ServerSpec /\ mine.spec.replicas \in Nat
        /\ group \in [replicas : 0..MaxReplicas, primary : Replica \cup {NoReplica}]
        /\ sql \in [Replica -> ReplicaRow]
    BY TypeFacts, SpecParts DEF ClusterTypeOK
  <1>2. \/ UNCHANGED group
        \/ group' = NoGroup
        \/ pc = "createGroup" /\ group' = [replicas |-> mine.spec.replicas, primary |-> NoReplica]
        \/ ElectPrimary
    <2>1. CASE ReconcileStep
      BY <2>1
      DEF ReconcileStep, CertificateStep, EnsureCA, ReconcileSelfSignedCerts,
          ReconcileCertManagerCerts, ReadCredentials, SetupReplica, ImportPeer,
          CreateLoginFromCertificate, GrantEndpointConnect, Fetch, ReconcileConfigMap,
          ReconcileHeadlessService, ReconcileClientService, ReconcileReadOnlyService,
          ReconcileStatefulSet, Write, CheckPods, ReconcileManagedAG, EnsureSACredentialsSecret,
          CreateGroup, LabelPods, Probe
    <2>2. CASE ~ReconcileStep
      BY <2>2
      DEF Next, Interrupted, EditServer, DeleteServer, CreateSecret, LoseSecret, LoseObject,
          IssueCertificates, PodReady, PodRemoved, PodLost, CollectGarbage, CreateHADREndpoint,
          vars, cluster
    <2> QED
      BY <2>1, <2>2
  <1>3. \/ group'.replicas \in {0, group.replicas}
        \/ pc = "createGroup" /\ group'.replicas = mine.spec.replicas
    BY <1>1, <1>2 DEF ElectPrimary, NoGroup
  <1> SUFFICES ASSUME NoVolumeLost'
               PROVE  /\ pc' = "setup" => \A i \in Members(at') : HasEndpoint(i)'
                      /\ pc' \in Exchanging \cup Completed =>
                            \A i \in Members(mine'.spec.replicas) : HasEndpoint(i)'
                      /\ \A i \in Members(group'.replicas) : HasEndpoint(i)'
    BY EndpointsStay DEF EndpointInv
  <1>4. NoVolumeLost /\ \A i \in Replica : HasEndpoint(i) => HasEndpoint(i)'
    BY EndpointsStay
  <1>5. \A n \in Nat : Members(n) \subseteq Replica /\ Members(0) = {}
    BY DEF Members, Replica
  <1>6. \A i \in Members(group'.replicas) : HasEndpoint(i)'
    BY <1>1, <1>3, <1>4, <1>5 DEF EndpointInv, Completed, Members
  <1>7. \/ pc' \notin {"setup"} \cup Exchanging \cup Completed
        \/ pc = "credentials" /\ pc' = "setup" /\ at' = at
        \/ pc = "setup" /\ pc' = "setup" /\ at' = at
        \/ pc = "setup" /\ pc' = "setup" /\ at' = at + 1 /\ HasEndpoint(at)
        \/ pc = "setup" /\ at = mine.spec.replicas /\ pc' = "exchange" /\ mine' = mine
        \/ /\ pc \in Exchanging \cup Completed /\ pc' \in Exchanging \cup Completed
           /\ mine' = mine
    <2> USE DEF Exchanging, Completed, Returned, Return, SetCondition, Goto, reconcile
    <2>1. CASE CertificateStep
      BY <2>1
      DEF CertificateStep, EnsureCA, ReconcileSelfSignedCerts, ReconcileCertManagerCerts,
          ReadCredentials, SetupReplica, ImportPeer, CreateLoginFromCertificate,
          GrantEndpointConnect, IsSetUp, HasEndpoint
    <2>2. CASE \/ Fetch \/ ReconcileConfigMap \/ ReconcileHeadlessService \/ ReconcileClientService
               \/ ReconcileReadOnlyService \/ ReconcileStatefulSet \/ CheckPods
               \/ ReconcileManagedAG \/ EnsureSACredentialsSecret \/ CreateGroup \/ LabelPods
               \/ Probe \/ Interrupted
      BY <2>2
      DEF Fetch, ReconcileConfigMap, ReconcileHeadlessService, ReconcileClientService,
          ReconcileReadOnlyService, ReconcileStatefulSet, Write, CheckPods, ReconcileCertificates,
          ReconcileManagedAG, CopyPrimary, EnsureSACredentialsSecret, CreateGroup, LabelPods, Probe,
          Interrupted
    <2>3. CASE ~ReconcileStep /\ ~Interrupted
      <3>1. UNCHANGED <<pc, mine, at>>
        BY <2>3
        DEF Next, EditServer, DeleteServer, CreateSecret, LoseSecret, LoseObject,
            IssueCertificates, PodReady, PodRemoved, PodLost, CollectGarbage, ElectPrimary,
            CreateHADREndpoint, Touch, vars
      <3> QED
        BY <3>1
    <2> QED
      BY <2>1, <2>2, <2>3 DEF ReconcileStep
  <1>8. pc' = "setup" => \A i \in Members(at') : HasEndpoint(i)'
    <2> SUFFICES ASSUME pc' = "setup", NEW i \in Members(at') PROVE HasEndpoint(i)'
      OBVIOUS
    <2>1. CASE pc = "credentials" /\ at' = at
      BY <1>5, <2>1 DEF TypeInv, LoopInv, Early
    <2>2. CASE pc = "setup" /\ at' = at
      BY <1>4, <2>2 DEF EndpointInv, Members
    <2>3. CASE pc = "setup" /\ at' = at + 1 /\ HasEndpoint(at)
      <3>1. i \in Replica /\ (i \in Members(at) \/ i = at)
        BY <1>1, <2>3, ServerAssumption DEF Members, Replica
      <3>2. HasEndpoint(i)
        BY <1>4, <2>3, <3>1 DEF EndpointInv
      <3> QED
        BY <1>4, <3>1, <3>2
    <2> QED
      BY <1>7, <2>1, <2>2, <2>3 DEF Exchanging, Completed
  <1>9. pc' \in Exchanging \cup Completed =>
            \A i \in Members(mine'.spec.replicas) : HasEndpoint(i)'
    BY <1>4, <1>7 DEF EndpointInv, Exchanging, Completed, Members
  <1> QED
    BY <1>6, <1>8, <1>9

(* EndpointInv holds of every behaviour.                                    *)
LEMMA EndpointInvariant == Spec => []EndpointInv
  <1>1. Init => EndpointInv
    BY ServerAssumption
    DEF Init, ClusterInit, ReconcileInit, EndpointInv, NoGroup, NewReplica, Members, Replica,
        Exchanging, Completed
  <1> QED
    BY <1>1, EndpointStep, TypeInvariant, PTL DEF Spec

(* For any number of replicas, edits and accidents: unless a volume is      *)
(* lost, the AvailabilityGroup controller never creates an endpoint that    *)
(* does not authenticate with a certificate.                                *)
THEOREM EndpointsCertifiedCorrect == Spec => []EndpointsCertified
  <1>1. EndpointInv => EndpointsCertified
    BY DEF EndpointInv, EndpointsCertified
  <1> QED
    BY <1>1, EndpointInvariant, PTL

------------------------------------------------------------------------------
(* What is built when a server is reported Ready.                          *)

Certified == {"group", "createGroup", "primary", "probe"}

(* The steps for clusters alone.                                            *)
ForClusters == {"readOnly", "ca", "secrets", "credentials", "setup"} \cup Exchanging \cup Completed

(* A managed server is not gone while Reconcile works on it, and the        *)
(* certificates and the group are for clusters only.                        *)
RunInv ==
    /\ pc # "idle" /\ mine.spec.mode = "managed" => srv.state \in {"live", "deleting"}
    /\ pc \notin {"idle", "probe"} => mine.spec.mode = "managed"
    /\ pc \in ForClusters => Clustered(mine.spec)

(* Reconcile has gone past all of these steps.                              *)
Past(steps) == pc \notin {"idle"} \cup steps

(* The objects written so far are as the spec wants them.                   *)
ObjectsInv ==
    ~touched /\ mine.spec.mode = "managed" =>
        /\ Past({"config"}) => objects["config"] = Desired("config", mine.spec)
        /\ Past({"config", "headless"}) => objects["headless"] # 0
        /\ Past({"config", "headless", "client"}) =>
              objects["client"] = Desired("client", mine.spec)
        /\ Past({"config", "headless", "client", "readOnly"}) /\ Clustered(mine.spec) =>
              objects["readOnly"] = Desired("readOnly", mine.spec)
        /\ Past(Object) => objects["statefulSet"] = Desired("statefulSet", mine.spec)

(* The first pass has set up the replicas in S, the second has given to the *)
(* pairs in P a certificate of their peer.                                  *)
SetUpFor(S) == \A i \in S : IsSetUp(sql[i])
Imported(P) == \A p \in P : p[1] # p[2] => peers[p[1]][p[2]].cert # 0

(* The pairs of n replicas, and those the second pass has visited.          *)
Pairs(n) == Members(n) \X Members(n)
Visited  == {p \in Pairs(mine.spec.replicas) : p[1] < at \/ (p[1] = at /\ p[2] < peer)}

(* The certificates and the group, step by step.                            *)
CertsBuilt ==
    /\ pc \in {"credentials", "setup"} \cup Exchanging \cup Certified =>
          Members(mine.spec.replicas) \subseteq certs
    /\ pc = "setup" => SetUpFor(Members(at)) /\ \A i \in Members(at) : binaries[i] # 0
    /\ pc \in Exchanging =>
          /\ SetUpFor(Members(mine.spec.replicas))
          /\ \A i \in Members(mine.spec.replicas) : binaries[i] # 0
          /\ Imported(Visited)
    /\ pc \in {"login", "grant"} => at # peer /\ peers[at][peer].cert # 0
    /\ pc \in Certified =>
          SetUpFor(Members(mine.spec.replicas)) /\ Imported(Pairs(mine.spec.replicas))
    /\ pc \in {"primary", "probe"} /\ mine.spec.group => group.replicas # 0

CertsInv == ~touched /\ mine.spec.mode = "managed" /\ Clustered(mine.spec) => CertsBuilt

BuildInv == RunInv /\ ObjectsInv /\ CertsInv

(* Nothing an idle controller would have to keep.                           *)
LEMMA ReturnedBuild == Returned => BuildInv'
  BY DEF Returned, BuildInv, RunInv, ObjectsInv, CertsInv, CertsBuilt, Past, ForClusters,
         Exchanging, Completed, Certified

(* What others may do to a Reconcile without being noticed.                 *)
LEMMA Undisturbed ==
  ASSUME TypeInv, [Next]_vars, ~ReconcileStep, ~Interrupted
  PROVE  /\ UNCHANGED <<pc, mine, at, peer, binaries>>
         /\ srv'.state = srv.state \/ DeleteServer
         /\ pc # "idle" /\ ~touched' =>
               /\ UNCHANGED <<touched, objects, peers, mishaps>>
               /\ certs \subseteq certs'
               /\ group'.replicas = group.replicas
               /\ \A i \in Replica : IsSetUp(sql[i]) => IsSetUp(sql'[i])
               /\ \A i \in up : i < objects["statefulSet"] => i \in up'
  <1> USE DEF children, instances, bounds, reconcile, Touch
  <1>1. /\ srv \in ServerState /\ sql \in [Replica -> ReplicaRow]
        /\ group \in [replicas : 0..MaxReplicas, primary : Replica \cup {NoReplica}]
        /\ up \subseteq Replica /\ objects["statefulSet"] \in Int
    <2>1. objects["statefulSet"] \in 0..MaxReplicas + 2
      BY TypeFacts DEF ClusterTypeOK, Object
    <2> QED
      BY <2>1, TypeFacts, ServerAssumption DEF ClusterTypeOK
  <1>2. UNCHANGED <<pc, mine, at, peer, binaries>>
    BY DEF Next, EditServer, DeleteServer, CreateSecret, LoseSecret, LoseObject,
           IssueCertificates, PodReady, PodRemoved, PodLost, CollectGarbage, ElectPrimary,
           CreateHADREndpoint, vars
  <1>3. srv'.state = srv.state \/ DeleteServer
    <2>1. CASE EditServer
      BY <1>1, <2>1 DEF EditServer, ServerState
    <2> QED
      BY <2>1
      DEF Next, CreateSecret, LoseSecret, LoseObject, IssueCertificates, PodReady, PodRemoved,
          PodLost, CollectGarbage, ElectPrimary, CreateHADREndpoint, vars, cluster
  <1>4. ASSUME pc # "idle", ~touched'
        PROVE  /\ UNCHANGED <<touched, objects, peers, mishaps>>
               /\ certs \subseteq certs'
               /\ group'.replicas = group.replicas
               /\ \A i \in Replica : IsSetUp(sql[i]) => IsSetUp(sql'[i])
               /\ \A i \in up : i < objects["statefulSet"] => i \in up'
    <2>1. CASE ElectPrimary
      BY <1>1, <2>1 DEF ElectPrimary
    <2>2. CASE CreateHADREndpoint
      <3>1. /\ UNCHANGED <<touched, objects, peers, mishaps, certs, group, up>>
            /\ \E j \in Replica : sql' = [sql EXCEPT ![j].endpoint = "plain"]
        BY <2>2 DEF CreateHADREndpoint, Members
      <3>2. \A i \in Replica : IsSetUp(sql[i]) => IsSetUp(sql'[i])
        BY <1>1, <3>1 DEF IsSetUp, ReplicaRow
      <3> QED
        BY <3>1, <3>2
    <2>3. ASSUME NEW i \in Replica, PodReady(i) \/ PodRemoved(i)
          PROVE  /\ UNCHANGED <<touched, objects, peers, mishaps, certs, group, sql>>
                 /\ \A j \in up : j < objects["statefulSet"] => j \in up'
      <3>1. UNCHANGED <<touched, objects, peers, mishaps, certs, group, sql>>
        BY <2>3 DEF PodReady, PodRemoved
      <3>2. ASSUME NEW j \in up, j < objects["statefulSet"]
            PROVE  j \in up'
        <4>1. CASE PodReady(i)
          BY <4>1 DEF PodReady
        <4>2. CASE PodRemoved(i)
          <5>1. i >= objects["statefulSet"] /\ up' = up \ {i}
            BY <4>2 DEF PodRemoved
          <5>2. j # i
            BY <1>1, <3>2, <5>1, ServerAssumption DEF Replica
          <5> QED
            BY <5>1, <5>2
        <4> QED
          BY <2>3, <4>1, <4>2
      <3> QED
        BY <3>1, <3>2
    <2>4. CASE EditServer \/ DeleteServer \/ CreateSecret \/ IssueCertificates \/ UNCHANGED vars
      BY <2>4 DEF EditServer, DeleteServer, CreateSecret, IssueCertificates, vars, cluster
    <2>5. ~LoseSecret /\ ~LoseObject /\ ~CollectGarbage /\ \A i \in Replica : ~PodLost(i)
      BY <1>4 DEF LoseSecret, LoseObject, CollectGarbage, PodLost
    <2> QED
      BY <2>1, <2>2, <2>3, <2>4, <2>5 DEF Next
  <1> QED
    BY <1>2, <1>3, <1>4

(* How a Reconcile goes on: it returns, starts, or goes on from the spec it *)
(* has.                                                                     *)
LEMMA GoesOn ==
  ASSUME TypeInv, ReconcileStep
  PROVE  \/ Returned
         \/ pc = "idle" /\ UNCHANGED reconcile
         \/ /\ pc = "idle" /\ Fetch /\ UNCHANGED srv /\ mine' = srv
            /\ srv.state # "absent" /\ (srv.spec.mode = "managed" => srv.state = "live")
            /\ pc' = IF srv.spec.mode = "managed" THEN "config" ELSE "probe"
         \/ /\ pc # "idle" /\ mine'.spec = mine.spec /\ touched' = touched
            /\ srv'.state = srv.state
  <1> USE DEF children, instances, bounds, reconcile, Return, SetCondition, Goto
  <1>1. CASE Fetch
    BY <1>1 DEF Fetch
  <1>2. CASE CertificateStep
    BY <1>2
    DEF CertificateStep, EnsureCA, ReconcileSelfSignedCerts, ReconcileCertManagerCerts,
        ReadCredentials, SetupReplica, ImportPeer, CreateLoginFromCertificate,
        GrantEndpointConnect
  <1>3. CASE ReconcileConfigMap \/ ReconcileHeadlessService \/ ReconcileClientService
             \/ ReconcileReadOnlyService \/ ReconcileStatefulSet \/ CheckPods
             \/ EnsureSACredentialsSecret \/ CreateGroup \/ Probe
    BY <1>3
    DEF ReconcileConfigMap, ReconcileHeadlessService, ReconcileClientService,
        ReconcileReadOnlyService, ReconcileStatefulSet, Write, CheckPods,
        EnsureSACredentialsSecret, CreateGroup, Probe
  <1>4. CASE ReconcileManagedAG
    <2>1. mine \in ServerState
      BY TypeFacts
    <2> QED
      BY <1>4, <2>1 DEF ReconcileManagedAG, CopyPrimary, ServerState
  <1>5. CASE LabelPods
    <2>1. srv \in ServerState
      BY TypeFacts
    <2> QED
      BY <1>5, <2>1 DEF LabelPods, Patch, ServerState
  <1> QED
    BY <1>1, <1>2, <1>3, <1>4, <1>5 DEF ReconcileStep

(* RunInv is kept: the finalizer keeps the server until Reconcile is back.  *)
LEMMA RunStep == ASSUME TypeInv, RunInv, [Next]_vars PROVE RunInv'
  <1> USE DEF children, instances, bounds, reconcile
  <1>1. CASE Returned
    BY <1>1, ReturnedBuild DEF BuildInv
  <1>2. CASE ReconcileStep /\ ~Returned
    <2>1. CASE pc = "idle" /\ UNCHANGED reconcile
      BY <2>1 DEF RunInv, ForClusters, Exchanging, Completed
    <2>2. CASE /\ pc = "idle" /\ Fetch /\ UNCHANGED srv /\ mine' = srv
               /\ srv.state # "absent" /\ (srv.spec.mode = "managed" => srv.state = "live")
               /\ pc' = IF srv.spec.mode = "managed" THEN "config" ELSE "probe"
      BY <2>2 DEF RunInv, ForClusters, Exchanging, Completed
    <2>3. CASE pc # "idle" /\ mine'.spec = mine.spec /\ touched' = touched /\ srv'.state = srv.state
      <3>1. pc # "probe"
        BY <1>2, <2>3
        DEF ReconcileStep, CertificateStep, EnsureCA, ReconcileSelfSignedCerts,
            ReconcileCertManagerCerts, ReadCredentials, SetupReplica, ImportPeer,
            CreateLoginFromCertificate, GrantEndpointConnect, Fetch, ReconcileConfigMap,
            ReconcileHeadlessService, ReconcileClientService, ReconcileReadOnlyService,
            ReconcileStatefulSet, Write, CheckPods, ReconcileManagedAG, EnsureSACredentialsSecret,
            CreateGroup, LabelPods, Probe, Return, SetCondition
      <3>2. pc' \in ForClusters => pc \in ForClusters \/ Clustered(mine.spec)
        <4> USE DEF ForClusters, Exchanging, Completed, Goto
        <4>1. CASE CertificateStep
          BY <4>1
          DEF CertificateStep, EnsureCA, ReconcileSelfSignedCerts, ReconcileCertManagerCerts,
              ReadCredentials, SetupReplica, ImportPeer, CreateLoginFromCertificate,
              GrantEndpointConnect
        <4>2. CASE ~CertificateStep
          BY <1>2, <2>3, <4>2
          DEF ReconcileStep, Fetch, ReconcileConfigMap, ReconcileHeadlessService,
              ReconcileClientService, ReconcileReadOnlyService, ReconcileStatefulSet, Write,
              CheckPods, ReconcileManagedAG, EnsureSACredentialsSecret, CreateGroup, LabelPods,
              Probe, Return, SetCondition
        <4> QED
          BY <4>1, <4>2
      <3> QED
        BY <2>3, <3>1, <3>2 DEF RunInv, ForClusters, Clustered
    <2> QED
      BY <1>2, <2>1, <2>2, <2>3, GoesOn
  <1>3. CASE ~ReconcileStep /\ ~Interrupted
    <2>1. UNCHANGED <<pc, mine>> /\ (srv'.state = srv.state \/ DeleteServer)
      BY <1>3, Undisturbed
    <2>2. DeleteServer => srv'.state = IF srv.state = "new" THEN "absent" ELSE "deleting"
      <3>1. srv \in ServerState
        BY TypeFacts
      <3> QED
        BY <3>1 DEF DeleteServer, ServerState
    <2> QED
      BY <2>1, <2>2 DEF RunInv
  <1> QED
    BY <1>1, <1>2, <1>3 DEF Interrupted, Return

(* ObjectsInv is kept: each object is written before the steps that count   *)
(* on it, and only others, who touch it, change one afterwards.             *)
LEMMA ObjectsStep == ASSUME TypeInv, RunInv, ObjectsInv, [Next]_vars PROVE ObjectsInv'
  <1> USE DEF children, instances, bounds, reconcile
  <1>1. objects \in [Object -> 0..MaxReplicas + 2] /\ mine.spec \in ServerSpec
    BY TypeFacts DEF ClusterTypeOK
  <1>2. CASE Returned
    BY <1>2, ReturnedBuild DEF BuildInv
  <1>3. CASE ReconcileStep /\ ~Returned
    <2>1. CASE pc = "idle"
      BY <1>3, <2>1, GoesOn DEF ObjectsInv, Past, Object
    <2>2. CASE pc # "idle"
      <3>1. mine'.spec = mine.spec /\ touched' = touched
        BY <1>3, <2>2, GoesOn
      <3>2. CASE ReconcileConfigMap
        BY <1>1, <3>1, <3>2 DEF ReconcileConfigMap, Write, Goto, ObjectsInv, Past, Object
      <3>3. CASE ReconcileHeadlessService
        <4>1. DesiredService(mine.spec) # 0
          BY DEF DesiredService
        <4>2. objects'["headless"] # 0 /\ objects'["config"] = objects["config"]
          BY <1>1, <3>3, <4>1 DEF ReconcileHeadlessService, Object
        <4> QED
          BY <3>1, <3>3, <4>2 DEF ReconcileHeadlessService, Goto, ObjectsInv, Past, Object
      <3>4. CASE ReconcileClientService
        <4>1. /\ objects'["client"] = Desired("client", mine.spec)
              /\ objects'["config"] = objects["config"]
              /\ objects'["headless"] = objects["headless"]
              /\ pc = "client" /\ pc' \in {"readOnly", "statefulSet"}
              /\ pc' = "statefulSet" => ~Clustered(mine.spec)
          BY <1>1, <3>4 DEF ReconcileClientService, Write, Goto, Object
        <4> QED
          BY <3>1, <4>1 DEF ObjectsInv, Past, Object, Clustered
      <3>5. CASE ReconcileReadOnlyService
        <4>1. /\ objects' = [objects EXCEPT !["readOnly"] = Desired("readOnly", mine.spec)]
              /\ pc = "readOnly" /\ pc' = "statefulSet"
          BY <3>5 DEF ReconcileReadOnlyService, Write, Goto
        <4> QED
          BY <1>1, <3>1, <4>1 DEF ObjectsInv, Past, Object, Clustered
      <3>6. CASE ReconcileStatefulSet
        <4>1. /\ objects' = [objects EXCEPT !["statefulSet"] = Desired("statefulSet", mine.spec)]
              /\ pc = "statefulSet" /\ pc' = "pods"
          BY <3>6 DEF ReconcileStatefulSet, Write, Goto
        <4> QED
          BY <1>1, <3>1, <4>1 DEF ObjectsInv, Past, Object, Clustered
      <3>7. CASE pc \notin Object
        <4>1. UNCHANGED objects /\ pc' \notin Object
          <5> USE DEF Goto, Object
          <5>1. CASE CertificateStep
            BY <3>7, <5>1
            DEF CertificateStep, EnsureCA, ReconcileSelfSignedCerts, ReconcileCertManagerCerts,
                ReadCredentials, SetupReplica, ImportPeer, CreateLoginFromCertificate,
                GrantEndpointConnect, Return, Returned, SetCondition
          <5>2. CASE ~CertificateStep
            BY <1>3, <2>2, <3>7, <5>2
            DEF ReconcileStep, Fetch, ReconcileConfigMap, ReconcileHeadlessService,
                ReconcileClientService, ReconcileReadOnlyService, ReconcileStatefulSet, Write,
                CheckPods, ReconcileCertificates, ReconcileManagedAG, CopyPrimary,
                EnsureSACredentialsSecret, CreateGroup, LabelPods, Probe, Return, SetCondition
          <5> QED
            BY <5>1, <5>2
        <4> QED
          BY <2>2, <3>1, <3>7, <4>1 DEF ObjectsInv, Past, Object, Clustered
      <3> QED
        BY <1>3, <2>2, <3>2, <3>3, <3>4, <3>5, <3>6, <3>7
        DEF ReconcileStep, CertificateStep, EnsureCA, ReconcileSelfSignedCerts,
            ReconcileCertManagerCerts, ReadCredentials, SetupReplica, ImportPeer,
            CreateLoginFromCertificate, GrantEndpointConnect, Fetch, CheckPods, ReconcileManagedAG,
            EnsureSACredentialsSecret, CreateGroup, LabelPods, Probe, Object
    <2> QED
      BY <2>1, <2>2
  <1>4. CASE ~ReconcileStep /\ ~Interrupted
    BY <1>4, Undisturbed DEF ObjectsInv, Past, Clustered
  <1> QED
    BY <1>2, <1>3, <1>4 DEF Interrupted, Return

(* The next pair: the visited ones, and the one the loops were at.          *)
LEMMA VisitedNext ==
  ASSUME TypeInv, at < mine.spec.replicas, peer < mine.spec.replicas, NextPair,
         mine'.spec = mine.spec
  PROVE  Visited' \subseteq Visited \cup {<<at, peer>>}
  <1>1. at \in Nat /\ peer \in Nat /\ mine.spec.replicas \in Nat
    BY TypeFacts, SpecParts
  <1>2. ASSUME NEW p \in Visited'
        PROVE  p \in Visited \/ p = <<at, peer>>
    <2>1. PICK i \in Members(mine.spec.replicas), j \in Members(mine.spec.replicas) : p = <<i, j>>
      BY <1>2 DEF Visited, Pairs
    <2>2. i \in Nat /\ j \in Nat /\ i < mine.spec.replicas /\ j < mine.spec.replicas
      BY ServerAssumption DEF Members, Replica
    <2>3. i < at' \/ (i = at' /\ j < peer')
      BY <1>2, <2>1 DEF Visited
    <2>4. i < at \/ (i = at /\ j < peer) \/ (i = at /\ j = peer)
      BY <1>1, <2>2, <2>3 DEF NextPair
    <2> QED
      BY <2>1, <2>4 DEF Visited, Pairs
  <1> QED
    BY <1>2

(* When the loops are through, all pairs have been visited.                 *)
LEMMA VisitedAll ==
  ASSUME TypeInv, at = mine.spec.replicas
  PROVE  Visited = Pairs(mine.spec.replicas)
  <1>1. ASSUME NEW p \in Pairs(mine.spec.replicas)
        PROVE  p[1] < at
    BY DEF Pairs, Members
  <1> QED
    BY <1>1 DEF Visited

(* The steps of the certificates keep CertsInv.                             *)
LEMMA CertificatesBuilt ==
  ASSUME TypeInv, RunInv, CertsInv, CertificateStep, ~Returned
  PROVE  CertsInv'
  <1> DEFINE n == mine.spec.replicas
  <1> USE DEF children, instances, bounds, reconcile
  <1>1. /\ n \in 1..MaxReplicas /\ n \in Nat /\ at \in Nat /\ peer \in Nat
        /\ sql \in [Replica -> ReplicaRow] /\ peers \in [Replica -> [Replica -> PeerRow]]
        /\ binaries \in [Replica -> 0..MaxMishaps + 1]
    BY TypeFacts, SpecParts DEF ReconcileTypeOK
  <1>2. /\ pc # "idle" /\ mine' = mine /\ touched' = touched
    <2> USE DEF Goto, Return, SetCondition
    <2> QED
      BY DEF CertificateStep, EnsureCA, ReconcileSelfSignedCerts, ReconcileCertManagerCerts,
             ReadCredentials, SetupReplica, ImportPeer, CreateLoginFromCertificate,
             GrantEndpointConnect
  <1> SUFFICES ASSUME ~touched, mine.spec.mode = "managed", Clustered(mine.spec), CertsBuilt
               PROVE  CertsBuilt'
    BY <1>2 DEF CertsInv, Clustered
  <1>3. \A k \in Nat : Members(k) \subseteq Replica /\ Members(0) = {}
    BY DEF Members, Replica
  <1>4. CASE EnsureCA
    BY <1>4 DEF EnsureCA, Goto, CertsBuilt, Exchanging, Certified
  <1>5. CASE ReconcileSelfSignedCerts \/ ReconcileCertManagerCerts
    <2>1. pc' = "secrets" \/ (pc' = "credentials" /\ MissingCerts = {} /\ certs' = certs)
      BY <1>5
      DEF ReconcileSelfSignedCerts, ReconcileCertManagerCerts, Goto, SetCondition, Return
    <2> QED
      BY <1>2, <2>1 DEF CertsBuilt, MissingCerts, Exchanging, Certified
  <1>6. CASE ReadCredentials
    <2>1. pc = "credentials" /\ pc' = "setup" /\ at' = at /\ certs' = certs
      BY <1>6 DEF ReadCredentials, Goto, Return
    <2>2. at = 0
      BY <2>1 DEF TypeInv, LoopInv, Early
    <2> QED
      BY <1>2, <1>3, <2>1, <2>2 DEF CertsBuilt, SetUpFor, Exchanging, Certified
  <1>7. CASE SetupReplica
    <2>0. pc = "setup" /\ UNCHANGED <<certs, peers, group>>
      BY <1>7 DEF SetupReplica
    <2>1. CASE at = n /\ pc' = "exchange" /\ at' = 0 /\ peer' = 0 /\ UNCHANGED <<binaries, sql>>
      <3>1. Visited' = {}
        <4>1. \A p \in Pairs(n) : ~(p[1] < 0) /\ ~(p[2] < 0)
          <5> SUFFICES ASSUME NEW i \in Members(n), NEW j \in Members(n) PROVE ~(i < 0) /\ ~(j < 0)
            BY DEF Pairs
          <5> QED
            BY ServerAssumption DEF Members, Replica
        <4> QED
          BY <1>2, <2>1, <4>1 DEF Visited
      <3> QED
        BY <1>2, <2>0, <2>1, <3>1 DEF CertsBuilt, SetUpFor, Imported, Exchanging, Certified
    <2>2. CASE /\ at < n /\ sql' = [sql EXCEPT ![at] = Setup(@)] /\ UNCHANGED <<pc, at, binaries>>
      <3>1. \A i \in Members(at) : sql'[i] = sql[i]
        BY <1>1, <2>2, ServerAssumption DEF Members, Replica
      <3> QED
        BY <1>2, <2>0, <2>2, <3>1 DEF CertsBuilt, SetUpFor, Exchanging, Certified
    <2>3. CASE /\ at < n /\ IsSetUp(sql[at]) /\ binaries' = [binaries EXCEPT ![at] = sql[at].life]
               /\ at' = at + 1 /\ UNCHANGED <<pc, sql>>
      <3>1. at \in Replica
        BY <1>1, <2>3, ServerAssumption DEF Replica
      <3>2. sql[at].life # 0
        BY <1>1, <3>1 DEF ReplicaRow
      <3>3. \A i \in Members(at + 1) : i \in Members(at) \/ i = at
        BY <1>1, ServerAssumption DEF Members, Replica
      <3>4. \A i \in Members(at + 1) : IsSetUp(sql[i]) /\ binaries'[i] # 0
        BY <1>1, <1>3, <2>0, <2>3, <3>1, <3>2, <3>3 DEF CertsBuilt, SetUpFor
      <3> QED
        BY <1>2, <2>0, <2>3, <3>4 DEF CertsBuilt, SetUpFor, Exchanging, Certified
    <2> QED
      BY <1>7, <2>1, <2>2, <2>3 DEF SetupReplica, Return
  <1>8. CASE pc \in Exchanging
    <2>1. at \in Replica \/ at = n
      BY <1>1, <1>8, ServerAssumption DEF TypeInv, LoopInv, Replica
    <2>2. peer \in Members(n) /\ peer \in Replica /\ peer < n
      BY <1>1, <1>8, ServerAssumption DEF TypeInv, LoopInv, Members, Replica
    <2>3. UNCHANGED <<sql, certs, group, binaries>>
      BY <1>8
      DEF CertificateStep, EnsureCA, ReconcileSelfSignedCerts, ReconcileCertManagerCerts,
          ReadCredentials, SetupReplica, ImportPeer, CreateLoginFromCertificate,
          GrantEndpointConnect, Exchanging, Goto, Return
    <2>4. /\ SetUpFor(Members(n)) /\ SetUpFor(Members(n))'
          /\ \A i \in Members(n) : binaries[i] # 0
          /\ Imported(Visited)
          /\ Members(n) \subseteq certs
      BY <1>2, <1>8, <2>3 DEF CertsBuilt, SetUpFor, Exchanging
    <2>5. ASSUME pc' \in Exchanging, Imported(Visited)',
                 pc' \in {"login", "grant"} => at' # peer' /\ peers'[at'][peer'].cert # 0
          PROVE  CertsBuilt'
      BY <1>2, <2>3, <2>4, <2>5 DEF CertsBuilt, Exchanging, Certified
    <2>6. ASSUME NEW stage, NEW cert, at < n, cert # 0, Import(stage, cert)
          PROVE  /\ peers'[at][peer].cert # 0
                 /\ \A i, j \in Replica : peers[i][j].cert # 0 => peers'[i][j].cert # 0
      BY <1>1, <2>1, <2>2, <2>6 DEF Import
    <2>7. CASE ImportPeer
      <3>1. CASE at = n /\ Goto("group") /\ UNCHANGED peers
        <4>1. Imported(Pairs(n))
          BY <2>4, <3>1, VisitedAll
        <4> QED
          BY <1>2, <2>3, <2>4, <3>1, <4>1
          DEF CertsBuilt, Goto, Imported, Pairs, Exchanging, Certified
      <3>2. CASE /\ at < n /\ (at = peer \/ peers[at][peer].cert # 0)
                 /\ NextPair /\ UNCHANGED <<pc, peers>>
        <4>1. Imported(Visited)'
          BY <1>2, <2>2, <2>4, <3>2, VisitedNext DEF Imported
        <4> QED
          BY <2>5, <2>7, <3>2, <4>1 DEF ImportPeer, Exchanging
      <3>3. CASE /\ at < n /\ at # peer
                 /\ Import("imported", binaries[peer]) /\ Goto("login")
        <4>1. binaries[peer] # 0
          BY <2>2, <2>4
        <4>2. /\ peers'[at][peer].cert # 0
              /\ \A i, j \in Replica : peers[i][j].cert # 0 => peers'[i][j].cert # 0
          BY <2>6, <3>3, <4>1
        <4>3. Visited' = Visited
          BY <3>3 DEF Goto, Visited, Pairs
        <4>4. Imported(Visited)'
          BY <1>1, <1>3, <2>4, <4>2, <4>3 DEF Imported, Visited, Pairs
        <4> QED
          BY <2>5, <3>3, <4>2, <4>4 DEF Goto, Exchanging
      <3> QED
        BY <2>7, <3>1, <3>2, <3>3 DEF ImportPeer, Return
    <2>8. CASE CreateLoginFromCertificate
      <3>1. /\ pc = "login" /\ at < n /\ at # peer /\ peers[at][peer].cert # 0
            /\ Import("login", peers[at][peer].cert) /\ Goto("grant")
        BY <2>8 DEF CreateLoginFromCertificate, Return, CertsBuilt, TypeInv, LoopInv
      <3>2. /\ peers'[at][peer].cert # 0
            /\ \A i, j \in Replica : peers[i][j].cert # 0 => peers'[i][j].cert # 0
        BY <2>6, <3>1
      <3>3. Visited' = Visited
        BY <3>1 DEF Goto, Visited, Pairs
      <3>4. Imported(Visited)'
        BY <1>1, <1>3, <2>4, <3>2, <3>3 DEF Imported, Visited, Pairs
      <3> QED
        BY <2>5, <3>1, <3>2, <3>4 DEF Goto, Exchanging
    <2>9. CASE GrantEndpointConnect
      <3>1. /\ pc = "grant" /\ at < n /\ peers[at][peer].cert # 0
            /\ Import("granted", peers[at][peer].cert) /\ pc' = "exchange" /\ NextPair
        BY <2>9 DEF GrantEndpointConnect, Return, CertsBuilt, TypeInv, LoopInv
      <3>2. /\ peers'[at][peer].cert # 0
            /\ \A i, j \in Replica : peers[i][j].cert # 0 => peers'[i][j].cert # 0
        BY <2>6, <3>1
      <3>3. Visited' \subseteq Visited \cup {<<at, peer>>}
        BY <1>2, <2>2, <3>1, VisitedNext
      <3>4. Imported(Visited)'
        <4> SUFFICES ASSUME NEW p \in Visited', p[1] # p[2] PROVE peers'[p[1]][p[2]].cert # 0
          BY DEF Imported
        <4>1. CASE p = <<at, peer>>
          BY <3>2, <4>1
        <4>2. CASE p \in Visited
          BY <1>1, <1>3, <2>4, <3>2, <4>2 DEF Imported, Visited, Pairs
        <4> QED
          BY <3>3, <4>1, <4>2
      <3> QED
        BY <2>5, <3>1, <3>4 DEF Exchanging
    <2> QED
      BY <1>8, <2>7, <2>8, <2>9
      DEF CertificateStep, EnsureCA, ReconcileSelfSignedCerts, ReconcileCertManagerCerts,
          ReadCredentials, SetupReplica, Exchanging
  <1> QED
    BY <1>4, <1>5, <1>6, <1>7, <1>8
    DEF CertificateStep, ImportPeer, CreateLoginFromCertificate, GrantEndpointConnect, Exchanging

(* CertsInv is kept.                                                        *)
LEMMA CertsStep == ASSUME TypeInv, RunInv, CertsInv, [Next]_vars PROVE CertsInv'
  <1> USE DEF children, instances, bounds, reconcile
  <1>1. CASE Returned
    BY <1>1, ReturnedBuild DEF BuildInv
  <1>2. CASE CertificateStep /\ ~Returned
    BY <1>2, CertificatesBuilt
  <1>3. CASE ReconcileStep /\ ~CertificateStep /\ ~Returned
    <2>1. CASE pc = "idle"
      <3>1. pc' = "idle" \/ pc' = "config" \/ mine'.spec.mode # "managed"
        BY <1>3, <2>1, GoesOn DEF Fetch
      <3> QED
        BY <3>1 DEF CertsInv, CertsBuilt, Exchanging, Certified
    <2>2. CASE pc # "idle"
      <3>1. mine'.spec = mine.spec /\ touched' = touched
        BY <1>3, <2>2, GoesOn
      <3> SUFFICES ASSUME ~touched, mine.spec.mode = "managed", Clustered(mine.spec), CertsBuilt
                   PROVE  CertsBuilt'
        BY <3>1 DEF CertsInv, Clustered
      <3>2. CASE pc \in Object \cup {"pods"}
        <4>1. pc' \in Object \cup {"pods", "ca", "secrets"}
          BY <1>3, <3>2
          DEF ReconcileStep, Fetch, ReconcileConfigMap, ReconcileHeadlessService,
              ReconcileClientService, ReconcileReadOnlyService, ReconcileStatefulSet, Write,
              CheckPods, ReconcileCertificates, ReconcileManagedAG, EnsureSACredentialsSecret,
              CreateGroup, LabelPods, Probe, Return, SetCondition, Goto, Object
        <4> QED
          BY <4>1 DEF CertsBuilt, Exchanging, Certified, Object
      <3>3. CASE pc \notin Object \cup {"pods"}
        <4>1. ReconcileManagedAG \/ EnsureSACredentialsSecret \/ CreateGroup \/ LabelPods
          BY <1>3, <2>2, <3>3
          DEF ReconcileStep, Fetch, ReconcileConfigMap, ReconcileHeadlessService,
              ReconcileClientService, ReconcileReadOnlyService, ReconcileStatefulSet, Write,
              CheckPods, Probe, Return, SetCondition, Object
        <4>2. pc \in Certified /\ pc' \in Certified /\ UNCHANGED <<certs, sql, peers>>
          BY <1>3, <4>1
          DEF ReconcileManagedAG, CopyPrimary, EnsureSACredentialsSecret, CreateGroup, LabelPods,
              SetCondition, Return, Goto, Certified
        <4>3. pc' \in {"primary", "probe"} /\ mine.spec.group => group'.replicas # 0
          <5>1. mine.spec.replicas # 0
            BY TypeFacts, SpecParts
          <5> QED
            BY <1>3, <4>1, <5>1
            DEF ReconcileManagedAG, CopyPrimary, EnsureSACredentialsSecret, CreateGroup, LabelPods,
                SetCondition, Return, Goto, CertsBuilt
        <4> QED
          BY <3>1, <4>2, <4>3
          DEF CertsBuilt, SetUpFor, Imported, Pairs, Members, Exchanging, Certified
      <3> QED
        BY <3>2, <3>3
    <2> QED
      BY <2>1, <2>2
  <1>4. CASE ~ReconcileStep /\ ~Interrupted
    <2>1. CASE pc = "idle"
      BY <1>4, <2>1, Undisturbed DEF CertsInv, CertsBuilt, Exchanging, Certified
    <2>2. CASE pc # "idle"
      <3>1. UNCHANGED <<pc, mine, at, peer, binaries>>
        BY <1>4, Undisturbed
      <3> SUFFICES ASSUME ~touched', mine.spec.mode = "managed", Clustered(mine.spec)
                   PROVE  CertsBuilt'
        BY <3>1 DEF CertsInv, Clustered
      <3>2. /\ UNCHANGED <<touched, peers>> /\ certs \subseteq certs'
            /\ group'.replicas = group.replicas
            /\ \A i \in Replica : IsSetUp(sql[i]) => IsSetUp(sql'[i])
        BY <1>4, <2>2, Undisturbed
      <3>3. CertsBuilt
        BY <3>2 DEF CertsInv
      <3>4. Visited' = Visited
        BY <3>1 DEF Visited, Pairs, Members
      <3> QED
        BY <3>1, <3>2, <3>3, <3>4 DEF CertsBuilt, SetUpFor, Imported, Members
    <2> QED
      BY <2>1, <2>2
  <1> QED
    BY <1>1, <1>2, <1>3, <1>4 DEF Interrupted, Return, ReconcileStep

(* BuildInv holds of every behaviour.                                       *)
LEMMA BuildInvariant == Spec => []BuildInv
  <1>1. Init => BuildInv
    BY DEF Init, ReconcileInit, BuildInv, RunInv, ObjectsInv, CertsInv, CertsBuilt, Past,
           ForClusters, Exchanging, Completed, Certified
  <1>2. TypeInv /\ BuildInv /\ [Next]_vars => BuildInv'
    BY RunStep, ObjectsStep, CertsStep DEF BuildInv
  <1> QED
    BY <1>1, <1>2, TypeInvariant, PTL DEF Spec

------------------------------------------------------------------------------
(* The mesh of certificates.                                               *)

Importing == {"login", "grant"}

(* What replica i has of j: nothing, a complete import of the certificate   *)
(* j has, or the import Reconcile is in the middle of.                      *)
Complete(i, j) ==
    peers[i][j].cert # 0 =>
        /\ peers[i][j].cert = 1
        /\ peers[i][j].stage = "granted" \/ (pc \in Importing /\ i = at /\ j = peer)

(* Without mishaps nobody disturbs a Reconcile of a managed server, and no  *)
(* import is left half done.                                                *)
MeshInv ==
    mishaps = 0 =>
        /\ pc = "idle" \/ mine.spec.mode = "managed" => ~touched
        /\ \A i \in Replica : binaries[i] <= 1
        /\ \A i, j \in Replica : Complete(i, j)
        /\ pc \in Importing => at \in up
        /\ pc = "login" => peers[at][peer].stage = "imported"
        /\ pc = "grant" => peers[at][peer].stage = "login"

(* Reconcile is idle only when it has returned.                             *)
LEMMA NotIdle == ASSUME TypeInv, ReconcileStep, pc # "idle", ~Returned PROVE pc' # "idle"
  <1> USE DEF reconcile, Return, SetCondition, Goto
  <1>1. CASE CertificateStep
    BY <1>1
    DEF CertificateStep, EnsureCA, ReconcileSelfSignedCerts, ReconcileCertManagerCerts,
        ReadCredentials, SetupReplica, ImportPeer, CreateLoginFromCertificate,
        GrantEndpointConnect
  <1>2. CASE ~CertificateStep
    BY <1>2
    DEF ReconcileStep, Fetch, ReconcileConfigMap, ReconcileHeadlessService,
        ReconcileClientService, ReconcileReadOnlyService, ReconcileStatefulSet, Write, CheckPods,
        ReconcileCertificates, ReconcileManagedAG, CopyPrimary, EnsureSACredentialsSecret,
        CreateGroup, LabelPods, Probe
  <1> QED
    BY <1>1, <1>2

(* Reconcile keeps MeshInv: a login and a permission it tries to create it  *)
(* can create.                                                              *)
LEMMA MeshReconcile ==
  ASSUME TypeInv, BuildInv, MeshInv, ReconcileStep, mishaps = 0, UNCHANGED mishaps
  PROVE  MeshInv'
  <1> USE DEF children, instances, bounds, reconcile
  <1>1. /\ mine.spec.replicas \in Nat /\ mine.spec.replicas <= MaxReplicas
        /\ at \in Nat /\ peer \in Replica /\ MaxReplicas \in Nat
        /\ sql \in [Replica -> ReplicaRow] /\ peers \in [Replica -> [Replica -> PeerRow]]
        /\ binaries \in [Replica -> 0..MaxMishaps + 1]
    BY TypeFacts, SpecParts, ServerAssumption DEF ReconcileTypeOK
  <1>2. /\ \A i \in Replica : binaries[i] <= 1
        /\ \A i, j \in Replica : Complete(i, j)
    BY DEF MeshInv
  <1>3. pc' = "idle" \/ mine'.spec.mode = "managed" => ~touched'
    <2>1. CASE Returned
      BY <2>1 DEF Returned
    <2>2. CASE ~Returned /\ pc = "idle"
      <3>1. touched' = touched
        BY <2>2, GoesOn DEF Fetch
      <3> QED
        BY <2>2, <3>1 DEF MeshInv
    <2>3. CASE ~Returned /\ pc # "idle"
      <3>1. mine'.spec = mine.spec /\ touched' = touched /\ pc' # "idle"
        <4>1. mine'.spec = mine.spec /\ touched' = touched
          BY <2>3, GoesOn
        <4>2. pc' # "idle"
          BY <2>3, NotIdle
        <4> QED
          BY <4>1, <4>2
      <3> QED
        BY <3>1 DEF MeshInv
    <2> QED
      BY <2>1, <2>2, <2>3
  <1>4. pc \in Exchanging => /\ mine.spec.mode = "managed" /\ ~touched /\ Clustered(mine.spec)
                             /\ CertsBuilt
    BY DEF MeshInv, BuildInv, RunInv, CertsInv, ForClusters, Exchanging
  <1>5. \A i \in Replica : binaries'[i] <= 1
    <2>1. CASE SetupReplica
      <3>1. ASSUME at < mine.spec.replicas, binaries' = [binaries EXCEPT ![at] = sql[at].life]
            PROVE  \A i \in Replica : binaries'[i] <= 1
        <4>1. at \in Replica
          BY <1>1, <3>1 DEF Replica
        <4>2. sql[at].life <= 1
          BY <4>1 DEF TypeInv, LoopInv
        <4> QED
          BY <1>1, <1>2, <3>1, <4>1, <4>2
      <3>2. CASE binaries' = NoBinaries
        BY <3>2 DEF NoBinaries
      <3> QED
        BY <1>2, <2>1, <3>1, <3>2 DEF SetupReplica, Return, Returned
    <2>2. CASE ~SetupReplica
      <3>1. binaries' = binaries \/ binaries' = NoBinaries
        <4> USE DEF Goto, Return, Returned, SetCondition
        <4>1. CASE CertificateStep
          BY <2>2, <4>1
          DEF CertificateStep, EnsureCA, ReconcileSelfSignedCerts, ReconcileCertManagerCerts,
              ReadCredentials, ImportPeer, CreateLoginFromCertificate, GrantEndpointConnect
        <4>2. CASE ~CertificateStep
          BY <4>2
          DEF ReconcileStep, Fetch, ReconcileConfigMap, ReconcileHeadlessService,
              ReconcileClientService, ReconcileReadOnlyService, ReconcileStatefulSet, Write,
              CheckPods, ReconcileManagedAG, CopyPrimary, EnsureSACredentialsSecret, CreateGroup,
              LabelPods, Probe
        <4> QED
          BY <4>1, <4>2
      <3> QED
        BY <1>2, <3>1 DEF NoBinaries
    <2> QED
      BY <2>1, <2>2
  <1>6. /\ \A i, j \in Replica : Complete(i, j)'
        /\ pc' \in Importing => at' \in up'
        /\ pc' = "login" => peers'[at'][peer'].stage = "imported"
        /\ pc' = "grant" => peers'[at'][peer'].stage = "login"
    <2> USE DEF Importing
    <2>1. CASE ImportPeer /\ pc' = "login"
      <3>1. /\ pc = "exchange" /\ at \in up /\ UNCHANGED <<at, peer, up>>
            /\ at < mine.spec.replicas /\ Import("imported", binaries[peer])
        BY <2>1 DEF ImportPeer, Goto, Return, Returned
      <3>2. at \in Replica
        BY <1>1, <3>1 DEF Replica
      <3>3. binaries[peer] = 1
        <4>1. peer \in Members(mine.spec.replicas)
          BY <1>1, <3>1 DEF TypeInv, LoopInv, Exchanging, Members
        <4>2. binaries[peer] # 0
          BY <1>4, <3>1, <4>1 DEF CertsBuilt, Exchanging
        <4> QED
          BY <1>1, <1>2, <4>2, ServerAssumption
      <3>4. peers' = [peers EXCEPT ![at][peer] = [cert |-> 1, stage |-> "imported"]]
        BY <3>1, <3>3 DEF Import
      <3>5. ASSUME NEW i \in Replica, NEW j \in Replica PROVE Complete(i, j)'
        <4>1. CASE i = at /\ j = peer
          BY <1>1, <2>1, <3>1, <3>2, <3>4, <4>1 DEF Complete
        <4>2. CASE i # at \/ j # peer
          <5>1. peers'[i][j] = peers[i][j]
            BY <1>1, <3>2, <3>4, <4>2
          <5> QED
            BY <1>2, <3>1, <5>1 DEF Complete
        <4> QED
          BY <4>1, <4>2
      <3> QED
        BY <1>1, <2>1, <3>1, <3>2, <3>4, <3>5
    <2>2. CASE CreateLoginFromCertificate
      <3>1. /\ pc = "login" /\ pc' = "grant" /\ at \in up /\ UNCHANGED <<at, peer, up>>
            /\ peers' = [peers EXCEPT ![at][peer] = [cert |-> peers[at][peer].cert,
                                                     stage |-> "login"]]
        BY <2>2 DEF CreateLoginFromCertificate, MeshInv, Goto, Import
      <3>2. at \in Replica
        BY <1>1, <3>1 DEF TypeInv, LoopInv, Replica
      <3>3. ASSUME NEW i \in Replica, NEW j \in Replica PROVE Complete(i, j)'
        <4>1. CASE i = at /\ j = peer
          <5>1. peers'[at][peer] = [cert |-> peers[at][peer].cert, stage |-> "login"]
            BY <1>1, <3>1, <3>2
          <5> QED
            BY <1>1, <1>2, <3>1, <3>2, <4>1, <5>1 DEF Complete
        <4>2. CASE i # at \/ j # peer
          <5>1. peers'[i][j] = peers[i][j]
            BY <1>1, <3>1, <3>2, <4>2
          <5> QED
            BY <1>2, <3>1, <4>2, <5>1 DEF Complete
        <4> QED
          BY <4>1, <4>2
      <3> QED
        BY <1>1, <3>1, <3>2, <3>3
    <2>3. CASE GrantEndpointConnect
      <3>1. pc = "grant" /\ at \in up /\ peers[at][peer].stage = "login"
        BY <2>3 DEF GrantEndpointConnect, MeshInv
      <3>2. at \in Replica /\ at \in Members(mine.spec.replicas)
        BY <1>1, <3>1 DEF TypeInv, LoopInv, Members, Replica
      <3>3. sql[at].endpoint # "none"
        BY <1>4, <3>1, <3>2 DEF CertsBuilt, SetUpFor, IsSetUp, Exchanging
      <3>4. /\ peers' = [peers EXCEPT ![at][peer] = [cert |-> peers[at][peer].cert,
                                                     stage |-> "granted"]]
            /\ pc' = "exchange"
        BY <2>3, <3>1, <3>3 DEF GrantEndpointConnect, Import
      <3>5. ASSUME NEW i \in Replica, NEW j \in Replica PROVE Complete(i, j)'
        <4>1. CASE i = at /\ j = peer
          <5>1. peers'[at][peer] = [cert |-> peers[at][peer].cert, stage |-> "granted"]
            BY <1>1, <3>2, <3>4
          <5> QED
            BY <1>1, <1>2, <3>2, <4>1, <5>1 DEF Complete
        <4>2. CASE i # at \/ j # peer
          <5>1. peers'[i][j] = peers[i][j]
            BY <1>1, <3>2, <3>4, <4>2
          <5> QED
            BY <1>2, <3>1, <4>2, <5>1 DEF Complete
        <4> QED
          BY <4>1, <4>2
      <3> QED
        BY <3>4, <3>5
    <2>4. CASE /\ ~(ImportPeer /\ pc' = "login")
               /\ ~CreateLoginFromCertificate /\ ~GrantEndpointConnect
      <3>1. pc \notin Importing /\ pc' \notin Importing /\ UNCHANGED peers
        <4> USE DEF Goto, Return, Returned, SetCondition, Object
        <4>1. CASE CertificateStep
          BY <2>4, <4>1
          DEF CertificateStep, EnsureCA, ReconcileSelfSignedCerts, ReconcileCertManagerCerts,
              ReadCredentials, SetupReplica, ImportPeer
        <4>2. CASE ~CertificateStep
          BY <4>2
          DEF ReconcileStep, Fetch, ReconcileConfigMap, ReconcileHeadlessService,
              ReconcileClientService, ReconcileReadOnlyService, ReconcileStatefulSet, Write,
              CheckPods, ReconcileCertificates, ReconcileManagedAG, CopyPrimary,
              EnsureSACredentialsSecret, CreateGroup, LabelPods, Probe
        <4> QED
          BY <4>1, <4>2
      <3> QED
        BY <1>2, <3>1 DEF Complete
    <2> QED
      BY <2>1, <2>2, <2>3, <2>4
  <1> QED
    BY <1>3, <1>5, <1>6 DEF MeshInv

(* The mishaps are never fewer, and without one a step is Reconcile's or    *)
(* one that disturbs nobody who is at work.                                 *)
LEMMA WithoutMishap ==
  ASSUME TypeInv, RunInv, [Next]_vars, mishaps' = 0
  PROVE  /\ mishaps = 0
         /\ ~ReconcileStep => /\ ~Interrupted /\ UNCHANGED peers
                              /\ touched' = touched \/ CollectGarbage
  <1> USE DEF children, instances, bounds, reconcile
  <1>1. Mishap => FALSE
    BY TypeFacts DEF Mishap
  <1>2. ASSUME ReconcileStep PROVE mishaps = 0
    <2>1. CASE CertificateStep
      BY <2>1
      DEF CertificateStep, EnsureCA, ReconcileSelfSignedCerts, ReconcileCertManagerCerts,
          ReadCredentials, SetupReplica, ImportPeer, CreateLoginFromCertificate,
          GrantEndpointConnect
    <2>2. CASE ~CertificateStep
      BY <1>1, <1>2, <2>2
      DEF ReconcileStep, Fetch, ReconcileConfigMap, ReconcileHeadlessService,
          ReconcileClientService, ReconcileReadOnlyService, ReconcileStatefulSet, Write, CheckPods,
          ReconcileManagedAG, EnsureSACredentialsSecret, CreateGroup, LabelPods, Probe
    <2> QED
      BY <2>1, <2>2
  <1>3. ASSUME ~ReconcileStep
        PROVE  /\ mishaps = 0 /\ ~Interrupted /\ UNCHANGED peers
               /\ touched' = touched \/ CollectGarbage
    <2>1. ~Interrupted /\ ~LoseSecret /\ ~LoseObject /\ \A i \in Replica : ~PodLost(i)
      BY <1>1 DEF Interrupted, LoseSecret, LoseObject, PodLost
    <2>2. CASE CollectGarbage
      BY <2>1, <2>2 DEF CollectGarbage
    <2>3. CASE ~CollectGarbage
      <3>1. \/ EditServer \/ DeleteServer \/ CreateSecret \/ IssueCertificates
            \/ \E i \in Replica : PodReady(i) \/ PodRemoved(i)
            \/ ElectPrimary \/ CreateHADREndpoint \/ UNCHANGED vars
        BY <1>3, <2>1, <2>3 DEF Next
      <3>2. UNCHANGED <<mishaps, peers, touched>>
        BY <3>1
        DEF EditServer, DeleteServer, CreateSecret, IssueCertificates, PodReady, PodRemoved,
            ElectPrimary, CreateHADREndpoint, vars, cluster
      <3> QED
        BY <2>1, <3>2
    <2> QED
      BY <2>2, <2>3
  <1> QED
    BY <1>2, <1>3

(* MeshInv is kept.                                                         *)
LEMMA MeshStep == TypeInv /\ BuildInv /\ MeshInv /\ [Next]_vars => MeshInv'
  <1> SUFFICES ASSUME TypeInv, BuildInv, MeshInv, [Next]_vars, mishaps' = 0 PROVE MeshInv'
    BY DEF MeshInv
  <1>1. mishaps = 0 /\ RunInv
    BY WithoutMishap DEF BuildInv
  <1>2. CASE ReconcileStep
    BY <1>1, <1>2, MeshReconcile
  <1>3. CASE ~ReconcileStep
    <2>1. /\ ~Interrupted /\ UNCHANGED <<pc, mine, at, peer, binaries, peers>>
          /\ touched' = touched \/ CollectGarbage
      BY <1>1, <1>3, WithoutMishap, Undisturbed
    <2>2. CollectGarbage => /\ touched' = (pc # "idle")
                            /\ ~(pc # "idle" /\ mine.spec.mode = "managed")
      BY <1>1 DEF CollectGarbage, Touch, RunInv
    <2>3. pc' = "idle" \/ mine'.spec.mode = "managed" => ~touched'
      <3>1. CASE CollectGarbage
        BY <2>1, <2>2, <3>1
      <3>2. CASE touched' = touched
        BY <1>1, <2>1, <3>2 DEF MeshInv
      <3> QED
        BY <2>1, <3>1, <3>2
    <2>4. pc \in Importing => at \in up'
      <3> SUFFICES ASSUME pc \in Importing PROVE at \in up'
        OBVIOUS
      <3>1. mine.spec.mode = "managed" /\ pc # "idle" /\ ~touched
        BY <1>1 DEF RunInv, MeshInv, Importing
      <3>2. ~touched'
        BY <2>1, <2>3, <3>1
      <3>3. objects["statefulSet"] = mine.spec.replicas
        BY <3>1 DEF BuildInv, ObjectsInv, Past, Importing, Object, Desired, DesiredStatefulSet
      <3>4. at \in up /\ at < mine.spec.replicas
        BY <1>1 DEF MeshInv, TypeInv, LoopInv, Importing
      <3> QED
        BY <1>3, <2>1, <3>1, <3>2, <3>3, <3>4, Undisturbed
    <2> QED
      BY <1>1, <2>1, <2>3, <2>4 DEF MeshInv, Complete, Importing
  <1> QED
    BY <1>2, <1>3

(* MeshInv holds of every behaviour.                                        *)
LEMMA MeshInvariant == Spec => []MeshInv
  <1>1. Init => MeshInv
    BY DEF Init, ClusterInit, ReconcileInit, NoBinaries, NoImport, MeshInv, Complete, Importing
  <1> QED
    BY <1>1, MeshStep, TypeInvariant, BuildInvariant, PTL DEF Spec

(* For any number of replicas, specs, edits and accidents: a managed server *)
(* that is about to be reported Ready has all its objects, and a cluster    *)
(* its certificates, set-up replicas and group; without mishaps every       *)
(* replica lets all the others in.                                          *)
THEOREM BuiltWhenReadyCorrect == Spec => []BuiltWhenReady
  <1>1. TypeInv /\ EndpointInv /\ BuildInv /\ MeshInv => BuiltWhenReady
    <2> SUFFICES ASSUME TypeInv, EndpointInv, BuildInv, MeshInv, AboutToReport
                 PROVE  /\ \A o \in Wanted(mine.spec) \ {"headless"} :
                              objects[o] = Desired(o, mine.spec)
                        /\ objects["headless"] # 0
                        /\ Clustered(mine.spec) =>
                              /\ Members(mine.spec.replicas) \subseteq certs
                              /\ \A i, j \in Members(mine.spec.replicas) :
                                    IsSetUp(sql[i]) /\ (i # j => peers[i][j].cert # 0)
                              /\ mine.spec.group => group.replicas # 0
                              /\ mishaps = 0 => Meshed(mine.spec.replicas)
      BY DEF BuiltWhenReady
    <2>1. pc = "probe" /\ mine.spec.mode = "managed" /\ ~touched
      BY DEF AboutToReport
    <2>2. /\ \A o \in Wanted(mine.spec) \ {"headless"} : objects[o] = Desired(o, mine.spec)
          /\ objects["headless"] # 0
      <3>1. /\ objects["config"] = Desired("config", mine.spec)
            /\ objects["headless"] # 0
            /\ objects["client"] = Desired("client", mine.spec)
            /\ Clustered(mine.spec) => objects["readOnly"] = Desired("readOnly", mine.spec)
            /\ objects["statefulSet"] = Desired("statefulSet", mine.spec)
        BY <2>1 DEF BuildInv, ObjectsInv, Past, Object
      <3> QED
        BY <3>1 DEF Wanted, Object
    <2>3. ASSUME Clustered(mine.spec)
          PROVE  /\ Members(mine.spec.replicas) \subseteq certs
                 /\ SetUpFor(Members(mine.spec.replicas)) /\ Imported(Pairs(mine.spec.replicas))
                 /\ mine.spec.group => group.replicas # 0
      BY <2>1, <2>3 DEF BuildInv, CertsInv, CertsBuilt, Certified
    <2>4. ASSUME Clustered(mine.spec), NEW i \in Members(mine.spec.replicas),
                 NEW j \in Members(mine.spec.replicas)
          PROVE  IsSetUp(sql[i]) /\ (i # j => peers[i][j].cert # 0)
      <3>1. <<i, j>> \in Pairs(mine.spec.replicas)
        BY DEF Pairs
      <3> QED
        BY <2>3, <2>4, <3>1 DEF SetUpFor, Imported
    <2>5. ASSUME Clustered(mine.spec), mishaps = 0,
                 NEW i \in Members(mine.spec.replicas), NEW j \in Members(mine.spec.replicas), i # j
          PROVE  /\ sql[i].endpoint = "certificate"
                 /\ peers[i][j] = [cert |-> sql[j].life, stage |-> "granted"]
      <3>1. /\ i \in Replica /\ j \in Replica
            /\ sql \in [Replica -> ReplicaRow] /\ peers \in [Replica -> [Replica -> PeerRow]]
        BY TypeFacts DEF Members
      <3>2. \A k \in Replica : sql[k].life = 1
        <4>1. \A k \in Replica : sql[k].life \in Nat /\ sql[k].life # 0 /\ sql[k].life <= 1
          BY <2>5, <3>1, ServerAssumption DEF TypeInv, LoopInv, ReplicaRow
        <4> QED
          BY <4>1
      <3>3. sql[i].endpoint \notin {"plain", "none"}
        BY <2>4, <2>5, <3>1, <3>2 DEF EndpointInv, NoVolumeLost, IsSetUp
      <3>4. peers[i][j].cert = 1 /\ peers[i][j].stage = "granted"
        BY <2>1, <2>4, <2>5, <3>1 DEF MeshInv, Complete, Importing
      <3>5. sql[i] \in ReplicaRow /\ peers[i][j] \in PeerRow
        BY <3>1
      <3> QED
        BY <3>1, <3>2, <3>3, <3>4, <3>5 DEF ReplicaRow, PeerRow
    <2> QED
      BY <2>2, <2>3, <2>4, <2>5 DEF Meshed
  <1> QED
    BY <1>1, TypeInvariant, EndpointInvariant, BuildInvariant, MeshInvariant, PTL

==============================================================================
