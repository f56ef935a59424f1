----------------------------- MODULE Certificates -----------------------------
(***************************************************************************)
(* Phase 2 of reconcileManaged, for clusters: a Secret for each replica,   *)
(* then, on the instances, a certificate and an endpoint of its own for    *)
(* each, and the certificates of all the others.  A check and the          *)
(* statement it decides are one step: if somebody else makes the object in *)
(* between, the statement fails, which is an interruption.                 *)
(***************************************************************************)
EXTENDS ServerCluster

VARIABLES
    pc,        \* the next round trip of the running Reconcile
    mine,      \* its copy of the resource
    at, peer,  \* i and j of the loops over the replicas
    binaries,  \* certBinaries: the certificates collected by the first pass
    touched    \* history: somebody else changed what Reconcile works on meanwhile

reconcile == <<pc, mine, at, peer, binaries, touched>>

Gone == [state |-> "absent", reason |-> "none", primary |-> NoReplica,
         spec |-> [mode |-> "external", replicas |-> 1, config |-> 1,
                   certificates |-> "SelfSigned", group |-> FALSE, credentials |-> "sa"]]
NoBinaries == [i \in Replica |-> 0]

ReconcileTypeOK ==
    /\ pc \in {"idle", "pods", "ca", "secrets", "credentials", "setup", "exchange", "login", "grant",
               "group", "createGroup", "primary", "probe"} \cup Object
    /\ mine \in ServerState
    /\ at \in 0..MaxReplicas
    /\ peer \in Replica
    /\ binaries \in [Replica -> 0..MaxMishaps + 1]
    /\ touched \in BOOLEAN

Returned ==
    /\ pc' = "idle" /\ mine' = Gone /\ at' = 0 /\ peer' = 0
    /\ binaries' = NoBinaries /\ touched' = FALSE

Return(requeue) == Returned /\ queued' = (queued \/ requeue)

(* Mutant: nothing is requeued.                                             *)
SetConditionQuietly(reason, requeue) ==
    Patch([srv EXCEPT !.reason = reason]) /\ Return(FALSE)

SetCondition(reason, requeue) ==
    Patch([srv EXCEPT !.reason = reason]) /\ Return(requeue)

Goto(step) == pc' = step /\ UNCHANGED <<mine, at, peer, binaries, touched, queued>>

(* The username and the password come from credentialsSecret or, on a       *)
(* managed server, from saPasswordSecret (one without them is like none).   *)
HasCredentials == mine.spec.credentials \in secrets

------------------------------------------------------------------------------
(* reconcileCertificates.                                                   *)

(* Where it starts.                                                         *)
ReconcileCertificates == IF mine.spec.certificates = "SelfSigned" THEN "ca" ELSE "secrets"

MissingCerts == Members(mine.spec.replicas) \ certs

(* ensureCASecret.                                                          *)
EnsureCA ==
    /\ pc = "ca"
    /\ secrets' = secrets \cup {"ca"}
    /\ Goto("secrets")
    /\ UNCHANGED <<srv, objects, certs, instances, group, bounds>>

(* The certificates it signs, in the order of the replicas, each created    *)
(* once and never replaced.                                                 *)
ReconcileSelfSignedCerts ==
    /\ pc = "secrets" /\ mine.spec.certificates = "SelfSigned"
    /\ \/ /\ \E i \in MissingCerts :
                /\ \A j \in MissingCerts : i <= j
                /\ certs' = certs \cup {i}
          /\ UNCHANGED <<reconcile, queued>>
       \/ MissingCerts = {} /\ Goto("credentials") /\ UNCHANGED certs
    /\ UNCHANGED <<srv, objects, secrets, instances, group, bounds>>

(* With CertManager the Secrets are only waited for.                        *)
ReconcileCertManagerCerts ==
    /\ pc = "secrets" /\ mine.spec.certificates = "CertManager"
    /\ \/ MissingCerts = {} /\ Goto("credentials") /\ UNCHANGED srv
       \/ MissingCerts # {} /\ SetCondition("CertificatesProvisioning", TRUE)
    /\ UNCHANGED <<children, instances, bounds>>

------------------------------------------------------------------------------
(* distributeCertificatesToSQL: any error is logged and tried again.        *)

ReadCredentials ==
    /\ pc = "credentials"
    /\ IF HasCredentials THEN Goto("setup") ELSE Return(TRUE)
    /\ UNCHANGED <<srv, children, instances, bounds>>

(* setupReplicaCertificates: the first of the three that is missing.        *)
Setup(r) ==
    CASE ~r.key            -> [r EXCEPT !.key = TRUE]
      [] r.key /\ ~r.cert  -> [r EXCEPT !.cert = TRUE]
      [] OTHER             -> [r EXCEPT !.endpoint = "certificate"]

IsSetUp(r) == r.key /\ r.cert /\ r.endpoint # "none"

(* Pass 1, replica after replica, ends with GetCertificateBinary.           *)
SetupReplica ==
    /\ pc = "setup"
    /\ \/ /\ at = mine.spec.replicas
          /\ pc' = "exchange" /\ at' = 0 /\ peer' = 0
          /\ UNCHANGED <<mine, binaries, touched, queued, sql>>
       \/ /\ at < mine.spec.replicas /\ at \in up /\ ~IsSetUp(sql[at])
          /\ sql' = [sql EXCEPT ![at] = Setup(@)]
          /\ UNCHANGED <<reconcile, queued>>
       \/ /\ at < mine.spec.replicas /\ at \in up /\ IsSetUp(sql[at])
          /\ binaries' = [binaries EXCEPT ![at] = sql[at].life]
          /\ at' = at + 1
          /\ UNCHANGED <<pc, mine, peer, touched, queued, sql>>
       \/ /\ at < mine.spec.replicas /\ at \notin up
          /\ Return(TRUE)
          /\ UNCHANGED sql
    /\ UNCHANGED <<srv, children, up, label, peers, bounds>>

(* Mutant: the inner loop runs one too far.                                 *)
NextPairLate ==
    IF peer < mine.spec.replicas
    THEN peer' = peer + 1 /\ UNCHANGED at
    ELSE peer' = 0 /\ at' = at + 1

(* Mutant: the inner loop ends one too early.                               *)
NextPairEarly ==
    IF peer + 2 < mine.spec.replicas
    THEN peer' = peer + 1 /\ UNCHANGED at
    ELSE peer' = 0 /\ at' = at + 1

(* The next pair of the two loops.                                          *)
NextPair ==
    IF peer + 1 < mine.spec.replicas
    THEN peer' = peer + 1 /\ UNCHANGED at
    ELSE peer' = 0 /\ at' = at + 1

Import(stage, cert) == peers' = [peers EXCEPT ![at][peer] = [cert |-> cert, stage |-> stage]]

(* Pass 2: a certificate that is there already is not looked at further.    *)
ImportPeer ==
    /\ pc = "exchange"
    /\ \/ /\ at = mine.spec.replicas
          /\ Goto("group")
          /\ UNCHANGED peers
       \/ /\ at < mine.spec.replicas /\ at \in up
          /\ at = peer \/ peers[at][peer].cert # 0
          /\ NextPair
          /\ UNCHANGED <<pc, mine, binaries, touched, queued, peers>>
       \/ /\ at < mine.spec.replicas /\ at \in up
          /\ at # peer /\ peers[at][peer].cert = 0
          /\ Import("imported", binaries[peer])
          /\ Goto("login")
       \/ /\ at < mine.spec.replicas /\ at \notin up
          /\ Return(TRUE)
          /\ UNCHANGED peers
    /\ UNCHANGED <<srv, children, up, label, sql, bounds>>

(* Each statement needs what the one before has made.                       *)
CreateLoginFromCertificate ==
    /\ pc = "login"
    /\ \/ /\ at \in up /\ peers[at][peer].stage = "imported"
          /\ Import("login", peers[at][peer].cert)
          /\ Goto("grant")
       \/ /\ ~(at \in up /\ peers[at][peer].stage = "imported")
          /\ Return(TRUE)
          /\ UNCHANGED peers
    /\ UNCHANGED <<srv, children, up, label, sql, bounds>>

GrantEndpointConnect ==
    /\ pc = "grant"
    /\ LET granted == at \in up /\ peers[at][peer].stage = "login" /\ sql[at].endpoint # "none"
       IN  \/ /\ granted
              /\ Import("granted", peers[at][peer].cert)
              /\ pc' = "exchange"
              /\ NextPair
              /\ UNCHANGED <<mine, binaries, touched, queued>>
           \/ ~granted /\ Return(TRUE) /\ UNCHANGED peers
    /\ UNCHANGED <<srv, children, up, label, sql, bounds>>

CertificateStep ==
    \/ EnsureCA \/ ReconcileSelfSignedCerts \/ ReconcileCertManagerCerts
    \/ ReadCredentials \/ SetupReplica
    \/ ImportPeer \/ CreateLoginFromCertificate \/ GrantEndpointConnect

==============================================================================
