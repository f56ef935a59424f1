---------------------------- MODULE ManagedCluster ----------------------------
(***************************************************************************)
(* The SQLServer controller among Kubernetes, which runs the pods, the     *)
(* AvailabilityGroup controller, users and accidents.                      *)
(***************************************************************************)
EXTENDS ManagedServer

vars == <<cluster, reconcile>>

TypeOK == ClusterTypeOK /\ ReconcileTypeOK

Init == ClusterInit /\ ReconcileInit

(* A change by somebody else while Reconcile runs.                          *)
Touch == touched' = (pc # "idle") /\ UNCHANGED <<pc, mine, at, peer, binaries>>

(* The watches: the resource, the StatefulSet, the Services, and a Secret   *)
(* that credentialsSecret names.                                            *)
Event(wakes) == queued' = (queued \/ wakes)

------------------------------------------------------------------------------
(* Users.  Webhooks are off by default, so that every field may change.     *)

EditServer ==
    /\ srv.state # "absent"
    /\ edits < MaxEdits /\ edits' = edits + 1
    /\ \E spec \in Specs \ {srv.spec} : srv' = [srv EXCEPT !.spec = spec]
    /\ Event(TRUE)
    /\ UNCHANGED <<children, instances, mishaps, reconcile>>

(* Without finalizer the resource goes at once.                             *)
DeleteServer ==
    /\ srv.state \in {"new", "live"}
    /\ edits < MaxEdits /\ edits' = edits + 1
    /\ srv' = [srv EXCEPT !.state = IF srv.state = "new" THEN "absent" ELSE "deleting"]
    /\ Event(TRUE)
    /\ UNCHANGED <<children, instances, mishaps, reconcile>>

CreateSecret ==
    /\ \E s \in {"sa", "credentials"} \ secrets :
          /\ secrets' = secrets \cup {s}
          /\ Event(s = "credentials" /\ srv.spec.credentials = s)
    /\ UNCHANGED <<srv, objects, certs, group, instances, bounds, reconcile>>

LoseSecret ==
    /\ Mishap
    /\ \E s \in secrets \cap {"sa", "credentials"} : secrets' = secrets \ {s}
    /\ Touch
    /\ UNCHANGED <<srv, objects, certs, group, instances, queued, edits>>

(* The controller does not create the Certificates cert-manager works on.   *)
(* They matter when it waits for their Secrets.                             *)
IssueCertificates ==
    /\ srv.spec.certificates = "CertManager" /\ pc = "secrets"
    /\ ~(Members(srv.spec.replicas) \subseteq certs)
    /\ certs' = certs \cup Members(srv.spec.replicas)
    /\ UNCHANGED <<srv, objects, secrets, group, instances, queued, bounds, reconcile>>

(* The ConfigMap and the AvailabilityGroup are not watched.                 *)
LoseObject ==
    /\ Mishap
    /\ \/ /\ \E o \in Object \ {"statefulSet"} :
                /\ objects[o] # 0
                /\ objects' = [objects EXCEPT ![o] = 0]
                /\ Event(o # "config")
          /\ UNCHANGED <<group, up, label>>
       \/ /\ objects["statefulSet"] # 0
          /\ objects' = [objects EXCEPT !["statefulSet"] = 0]
          /\ up' = {}
          /\ label' = [i \in Replica |-> "none"]
          /\ Event(TRUE)
          /\ UNCHANGED group
       \/ /\ group.replicas # 0
          /\ group' = NoGroup
          /\ UNCHANGED <<objects, up, label, queued>>
    /\ Touch
    /\ UNCHANGED <<srv, secrets, certs, sql, peers, edits>>

------------------------------------------------------------------------------
(* Kubernetes.  Pods start in order; those beyond the replicas are removed; *)
(* volumes stay.  A new pod has no role label.                              *)

PodReady(i) ==
    /\ i < objects["statefulSet"] /\ i \notin up
    /\ Members(i) \subseteq up
    /\ "sa" \in secrets
    /\ up' = up \cup {i}
    /\ Event(TRUE)
    /\ UNCHANGED <<srv, children, label, sql, peers, bounds, reconcile>>

PodRemoved(i) ==
    /\ i >= objects["statefulSet"] /\ i \in up
    /\ up' = up \ {i}
    /\ label' = [label EXCEPT ![i] = "none"]
    /\ Event(TRUE)
    /\ UNCHANGED <<srv, children, sql, peers, bounds, reconcile>>

(* A pod is replaced, perhaps together with its volume.                     *)
PodLost(i) ==
    /\ i \in up
    /\ Mishap
    /\ up' = up \ {i}
    /\ label' = [label EXCEPT ![i] = "none"]
    /\ \/ UNCHANGED <<sql, peers>>
       \/ /\ sql' = [sql EXCEPT ![i] = NewReplica(@.life + 1)]
          /\ peers' = [peers EXCEPT ![i] = [j \in Replica |-> NoImport]]
    /\ Event(TRUE)
    /\ Touch
    /\ UNCHANGED <<srv, children, edits>>

CollectGarbage ==
    /\ srv.state = "absent"
    /\ \/ \E o \in Object : objects[o] # 0
       \/ group # NoGroup
    /\ objects' = [o \in Object |-> 0]
    /\ group' = NoGroup
    /\ up' = {}
    /\ label' = [i \in Replica |-> "none"]
    /\ certs' = {}
    /\ secrets' = secrets \cap {"sa", "credentials"}
    /\ UNCHANGED <<srv, sql, peers, queued, bounds>>
    /\ Touch

------------------------------------------------------------------------------
(* The AvailabilityGroup controller: it creates the group on the first      *)
(* replica and fails over when the primary is gone (autoFailover is on by   *)
(* default).                                                                *)

GroupPrimary == IF group.primary = NoReplica THEN 0 ELSE group.primary

ElectPrimary ==
    /\ group.replicas # 0
    /\ \/ group.primary = NoReplica /\ 0 \in up /\ group' = [group EXCEPT !.primary = 0]
       \/ /\ group.primary # NoReplica /\ group.primary \notin up
          /\ \E p \in up \cap Members(group.replicas) : group' = [group EXCEPT !.primary = p]
    /\ UNCHANGED <<srv, objects, secrets, certs, instances, queued, bounds, reconcile>>

(* Mutant: whatever pod answers gets one.                                   *)
CreateHADREndpointEverywhere ==
    /\ group.replicas # 0 /\ GroupPrimary \in up
    /\ \E i \in up :
          sql[i].endpoint = "none" /\ sql' = [sql EXCEPT ![i].endpoint = "plain"]
    /\ UNCHANGED <<srv, children, up, label, peers, queued, bounds, reconcile>>

(* Once it reaches the primary it makes sure that the primary has an        *)
(* endpoint (step 5 of Reconcile) and, when it creates the group, that each *)
(* replica it joins has one (joinSecondaries).                              *)
CreateHADREndpoint ==
    /\ group.replicas # 0 /\ GroupPrimary \in up
    /\ \E i \in Members(group.replicas) \cap up :
          sql[i].endpoint = "none" /\ sql' = [sql EXCEPT ![i].endpoint = "plain"]
    /\ UNCHANGED <<srv, children, up, label, peers, queued, bounds, reconcile>>

------------------------------------------------------------------------------
Next ==
    \/ ReconcileStep \/ Interrupted
    \/ EditServer \/ DeleteServer \/ CreateSecret \/ LoseSecret \/ LoseObject
    \/ IssueCertificates
    \/ \E i \in Replica : PodReady(i) \/ PodRemoved(i) \/ PodLost(i)
    \/ CollectGarbage \/ ElectPrimary \/ CreateHADREndpoint

Spec == Init /\ [][Next]_vars

(* A queued key is reconciled, pods start and stop, and the other           *)
(* controller works.                                                        *)
FairSpec ==
    /\ Spec
    /\ WF_vars(ReconcileStep)
    /\ \A i \in Replica : WF_vars(PodReady(i)) /\ WF_vars(PodRemoved(i))
    /\ WF_vars(ElectPrimary)

------------------------------------------------------------------------------
(* Properties.                                                              *)

NoVolumeLost == \A i \in Replica : sql[i].life = 1

(* Each replica lets all the others connect to its endpoint, with the       *)
(* certificates they have.                                                  *)
Meshed(n) ==
    \A i, j \in Members(n) : i # j =>
        /\ sql[i].endpoint = "certificate"
        /\ peers[i][j] = [cert |-> sql[j].life, stage |-> "granted"]

(* Reconcile is about to report a managed server Ready.                     *)
AboutToReport == pc = "probe" /\ mine.spec.mode = "managed" /\ Probed /\ ~touched

(* "resilient to crashes, restarts": a cluster is Ready when its replicas   *)
(* can talk to each other, unless a volume was lost.                        *)
MeshWhenReady ==
    AboutToReport /\ Clustered(mine.spec) /\ NoVolumeLost => Meshed(mine.spec.replicas)

(* A managed server is Ready only with all its objects in place; a cluster  *)
(* only with all its certificates and its AvailabilityGroup and, if nothing *)
(* went wrong, with the replicas able to talk to each other.                *)
BuiltWhenReady ==
    AboutToReport =>
        /\ \A o \in Wanted(mine.spec) \ {"headless"} : objects[o] = Desired(o, mine.spec)
        /\ objects["headless"] # 0
        /\ Clustered(mine.spec) =>
              /\ Members(mine.spec.replicas) \subseteq certs
              /\ \A i, j \in Members(mine.spec.replicas) :
                    IsSetUp(sql[i]) /\ (i # j => peers[i][j].cert # 0)
              /\ mine.spec.group => group.replicas # 0
              /\ mishaps = 0 => Meshed(mine.spec.replicas)

(* The two controllers that create the HADR endpoint do not race: unless a  *)
(* volume is lost, the one that authenticates with a certificate is first,  *)
(* whatever is scaled, restarted or deleted.                                *)
EndpointsCertified ==
    NoVolumeLost => \A i \in Replica : sql[i].endpoint # "plain"

(* The Secret that is missing is not one whose event wakes the controller.  *)
Stuck == srv.reason = "SecretNotFound" /\ srv.spec.credentials = "sa"

(* What a server needs from others.  A cluster whose availabilityGroup was  *)
(* removed from the spec goes on looking for the last primary it knew of.   *)
Provisionable ==
    /\ srv.state = "live" /\ srv.spec.mode = "managed"
    /\ {"sa", srv.spec.credentials} \subseteq secrets
    /\ Clustered(srv.spec) =>
          /\ srv.spec.group
          /\ srv.spec.certificates = "CertManager" => Members(srv.spec.replicas) \subseteq certs

(* A managed server becomes Ready and stays so, and its client Service      *)
(* routes to the primary alone, whatever pods, objects and edits come and   *)
(* go before; and a deletion is completed, unless the server was made       *)
(* external, whose Reconcile knows no finalizer.                            *)
Converges ==
    <>[]( /\ Provisionable /\ ~Stuck =>
                /\ srv.reason = "Ready"
                /\ \A o \in Wanted(srv.spec) \ {"headless"} : objects[o] = Desired(o, srv.spec)
                /\ Clustered(srv.spec) => Routed = {group.primary}
          /\ srv.state = "deleting" => srv.spec.mode # "managed" )

==============================================================================
