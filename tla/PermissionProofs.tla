--------------------------- MODULE PermissionProofs ---------------------------
(* Proofs about the Permission controller. *)
EXTENDS Permission, TLAPS

USE DEF State

LEMMA SpecTypes ==
    /\ EmptySpec \in PermissionSpec
    /\ \A e \in PermissionSpec : /\ e.grants \subseteq Securable
                                 /\ e.denies \subseteq Securable
                                 /\ e.generation \in 0..MaxEdits
                                 /\ e.grants \cap e.denies = {}
<1>1. 0 \in 0..MaxEdits
  BY PermissionBounds
<1>2. EmptySpec \in PermissionSpec
  BY <1>1 DEF EmptySpec, PermissionSpec
<1>3. ASSUME NEW e \in PermissionSpec
      PROVE  /\ e.grants \subseteq Securable
             /\ e.denies \subseteq Securable
             /\ e.generation \in 0..MaxEdits
             /\ e.grants \cap e.denies = {}
  BY <1>3 DEF PermissionSpec
<1> QED BY <1>2, <1>3

LEMMA WantedType == ASSUME NEW e, NEW s PROVE Wanted(e, s) \in State
BY DEF Wanted

(* What Reconcile leaves behind when it returns has its type. *)
LEMMA ReturnTypes ==
    ASSUME Return
    PROVE  /\ pc' = "idle"
           /\ mine' \in PermissionSpec
           /\ current' \in [Securable -> State]
           /\ todo' \subseteq Securable
           /\ drift' \subseteq Securable
BY SpecTypes DEF Return, Nothing

LEMMA FaultType ==
    ASSUME faults \in 0..MaxFaults, Fault PROVE faults' \in 0..MaxFaults
BY PermissionBounds DEF Fault

LEMMA TypeInit == Init => TypeOK
<1> SUFFICES ASSUME Init PROVE TypeOK
  OBVIOUS
<1>1. 0 \in 0..MaxEdits /\ 0 \in 0..MaxDrift /\ 0 \in 0..MaxFaults
  BY PermissionBounds
<1>2. ready \in [status : {"Unknown", "True", "False"}, observed : 0..MaxEdits]
  BY <1>1 DEF Init
<1> QED BY <1>1, <1>2, SpecTypes DEF Init, TypeOK, Nothing

LEMMA TypeStep == TypeOK /\ [Next]_vars => TypeOK'
<1> SUFFICES ASSUME TypeOK, [Next]_vars PROVE TypeOK'
  OBVIOUS
<1> USE DEF TypeOK, server, resource, reconcile
<1>1. CASE Fetch
  BY <1>1, SpecTypes DEF Fetch
<1>2. CASE AddFinalizer
  BY <1>2, ReturnTypes DEF AddFinalizer
<1>3. CASE CredentialsMissing
  <2>1. ready' \in [status : {"Unknown", "True", "False"}, observed : 0..MaxEdits]
    BY <1>3, SpecTypes DEF CredentialsMissing, SetCondition
  <2> QED BY <1>3, <2>1, ReturnTypes, FaultType DEF CredentialsMissing
<1>4. CASE GetPermissions
  BY <1>4, SpecTypes DEF GetPermissions, ToGrant
<1>5. CASE NextLoop
  BY <1>5, SpecTypes DEF NextLoop, ToDeny, ToRevoke
<1>6. CASE SendFails
  <2>1. perms' \in [Securable -> State]
    BY <1>6 DEF SendFails, Effect
  <2> QED BY <1>6, <2>1, ReturnTypes, FaultType DEF SendFails
<1>7. CASE SetReady
  <2>1. ready' \in [status : {"Unknown", "True", "False"}, observed : 0..MaxEdits]
    BY <1>7, SpecTypes DEF SetReady, SetCondition
  <2> QED BY <1>7, <2>1, ReturnTypes DEF SetReady
<1>8. CASE SkipCleanup \/ CleanupDone
  BY <1>8, FaultType DEF SkipCleanup, CleanupDone
<1>9. CASE RemoveFinalizer
  BY <1>9, ReturnTypes DEF RemoveFinalizer
<1>10. ASSUME NEW s \in Securable, Send(s) PROVE TypeOK'
  BY <1>10 DEF Send, Effect
<1>11. ASSUME NEW s \in Securable, CleanupRevoke(s) PROVE TypeOK'
  BY <1>11, FaultType DEF CleanupRevoke
<1>12. CASE EditSpec
  BY <1>12 DEF EditSpec
<1>13. CASE DeleteResource
  <2>1. spec' \in PermissionSpec
    BY <1>13, PermissionBounds DEF DeleteResource, PermissionSpec
  <2> QED BY <1>13, <2>1 DEF DeleteResource
<1>14. CASE Crash
  BY <1>14, ReturnTypes, FaultType DEF Crash
<1>15. ASSUME NEW s \in Securable, Drift(s) PROVE TypeOK'
  <2>1. drifts' \in 0..MaxDrift
    BY <1>15, PermissionBounds DEF Drift
  <2> QED BY <1>15, <2>1 DEF Drift
<1>16. CASE UNCHANGED vars
  BY <1>16 DEF vars
<1> QED
  BY <1>1, <1>2, <1>3, <1>4, <1>5, <1>6, <1>7, <1>8, <1>9, <1>10, <1>11, <1>12,
     <1>13, <1>14, <1>15, <1>16 DEF Next, Reconcile

(* Type correctness of the Permission controller for any set of securables. *)
THEOREM PermissionTypeCorrect == Spec => []TypeOK
BY TypeInit, TypeStep, PTL DEF Spec

------------------------------------------------------------------------------
(* The loops only send statements they were started for, and every entry    *)
(* that nobody else touched is where the loops have brought it.             *)
TodoInv ==
    /\ pc = "grant"  => todo \subseteq ToGrant
    /\ pc = "deny"   => todo \subseteq ToDeny
    /\ pc = "revoke" => todo \subseteq ToRevoke

Reached(s) ==
    /\ pc = "grant"  => perms[s] = IF s \in ToGrant \ todo THEN "GRANT" ELSE current[s]
    /\ pc = "deny"   => perms[s] = IF s \in ToGrant THEN "GRANT"
                                   ELSE IF s \in ToDeny \ todo THEN "DENY" ELSE current[s]
    /\ pc = "revoke" => perms[s] = IF s \in todo THEN current[s] ELSE Wanted(mine, s)
    /\ pc = "status" => perms[s] = Wanted(mine, s)

AppliedInv ==
    /\ TodoInv
    /\ \A s \in Securable \ (drift \cup Qualified) : ~Flipped(s) => Reached(s)

LEMMA AppliedStep == TypeOK /\ AppliedInv /\ [Next]_vars => AppliedInv'
<1> SUFFICES ASSUME TypeOK, AppliedInv, [Next]_vars PROVE AppliedInv'
  OBVIOUS
<1> USE DEF server, resource, reconcile
<1>0. ASSUME pc' \in {"idle", "fetched", "observe", "cleanup", "finalize"} PROVE AppliedInv'
  BY <1>0 DEF AppliedInv, TodoInv, Reached
<1>1. CASE Fetch
  BY <1>0, <1>1 DEF Fetch
<1>2. CASE AddFinalizer
  BY <1>0, <1>2 DEF AddFinalizer, Return
<1>3. CASE CredentialsMissing \/ SendFails \/ SetReady \/ RemoveFinalizer \/ Crash
  BY <1>0, <1>3 DEF CredentialsMissing, SendFails, SetReady, RemoveFinalizer, Crash, Return
<1>4. CASE GetPermissions
  <2>1. pc' = "grant" /\ todo' = ToGrant' /\ current' = perms /\ perms' = perms
    BY <1>4 DEF GetPermissions
  <2>2. TodoInv'
    BY <2>1 DEF TodoInv
  <2>3. \A s \in Securable : Reached(s)'
    BY <2>1 DEF Reached
  <2> QED BY <2>2, <2>3 DEF AppliedInv
<1>5. CASE NextLoop
  <2>1. UNCHANGED <<perms, mine, current, drift>> /\ todo = {}
    BY <1>5 DEF NextLoop
  <2>2. ToGrant' = ToGrant /\ ToDeny' = ToDeny /\ ToRevoke' = ToRevoke
    BY <2>1 DEF ToGrant, ToDeny, ToRevoke, Known, Desired, Wanted
  <2>3. TodoInv'
    BY <1>5, <2>1, <2>2 DEF NextLoop, TodoInv
  <2>4. ASSUME NEW s \in Securable \ (drift \cup Qualified), ~Flipped(s) PROVE Reached(s)'
    <3>1. Reached(s)
      BY <2>4 DEF AppliedInv
    <3>2. mine.grants \cap mine.denies = {}
      BY SpecTypes DEF TypeOK
    <3>3. Wanted(mine, s)' = Wanted(mine, s)
      BY <2>1 DEF Wanted
    <3>4. current[s] \in State
      BY DEF TypeOK
    <3>5. CASE pc = "grant"
      BY <1>5, <3>1, <3>5, <2>1, <2>2 DEF NextLoop, Reached
    <3>6. CASE pc = "deny"
      BY <1>5, <3>1, <3>2, <3>3, <3>4, <3>6, <2>1, <2>2, <2>4
         DEF NextLoop, Reached, ToGrant, ToDeny, ToRevoke, Known, Desired, Wanted, Flipped
    <3>7. CASE pc = "revoke"
      BY <1>5, <3>1, <3>3, <3>7, <2>1 DEF NextLoop, Reached
    <3> QED BY <1>5, <3>5, <3>6, <3>7 DEF NextLoop
  <2>5. \A s \in Securable : Flipped(s)' = Flipped(s)
    BY <2>1 DEF Flipped, Wanted
  <2> QED BY <2>1, <2>3, <2>4, <2>5 DEF AppliedInv
<1>6. ASSUME NEW t \in Securable, Send(t) PROVE AppliedInv'
  <2>1. UNCHANGED <<pc, mine, current, drift>> /\ todo' = todo \ {t} /\ t \in todo
        /\ perms' = [perms EXCEPT ![t] = Effect(pc)] /\ pc \in {"grant", "deny", "revoke"}
    BY <1>6 DEF Send
  <2>2. ToGrant' = ToGrant /\ ToDeny' = ToDeny /\ ToRevoke' = ToRevoke
    BY <2>1 DEF ToGrant, ToDeny, ToRevoke, Known, Desired, Wanted
  <2>3. TodoInv'
    BY <2>1, <2>2 DEF AppliedInv, TodoInv
  <2>4. ASSUME NEW s \in Securable \ (drift \cup Qualified), ~Flipped(s) PROVE Reached(s)'
    <3>1. Reached(s) /\ TodoInv
      BY <2>4 DEF AppliedInv
    <3>2. Wanted(mine, s)' = Wanted(mine, s)
      BY <2>1 DEF Wanted
    <3>3. mine.grants \cap mine.denies = {}
      BY SpecTypes DEF TypeOK
    <3>4. CASE s # t
      BY <3>1, <3>2, <3>4, <2>1, <2>2 DEF Reached, TypeOK
    <3>5. CASE s = t
      <4>1. perms'[s] = Effect(pc)
        BY <2>1, <3>5 DEF TypeOK
      <4>2. pc = "deny" => s \notin ToGrant
        BY <3>1, <3>3, <3>5, <2>1 DEF TodoInv, ToGrant, ToDeny
      <4>3. pc = "revoke" => Wanted(mine, s) = "NONE"
        BY <3>1, <3>5, <2>1, <2>4, WantedType DEF TodoInv, ToRevoke, Desired, Flipped
      <4> QED BY <4>1, <4>2, <4>3, <3>1, <3>2, <3>5, <2>1, <2>2 DEF Reached, TodoInv, Effect
    <3> QED BY <3>4, <3>5
  <2>5. \A s \in Securable : Flipped(s)' = Flipped(s)
    BY <2>1 DEF Flipped, Wanted
  <2> QED BY <2>1, <2>3, <2>4, <2>5 DEF AppliedInv
<1>7. ASSUME NEW s \in Securable, CleanupRevoke(s) PROVE AppliedInv'
  BY <1>0, <1>7 DEF CleanupRevoke
<1>8. CASE SkipCleanup \/ CleanupDone
  BY <1>0, <1>8 DEF SkipCleanup, CleanupDone
<1>9. CASE EditSpec \/ DeleteResource \/ UNCHANGED vars
  BY <1>9 DEF EditSpec, DeleteResource, vars, AppliedInv, TodoInv, Reached, Flipped,
              ToGrant, ToDeny, ToRevoke, Known, Desired, Wanted
<1>10. ASSUME NEW t \in Securable, Drift(t) PROVE AppliedInv'
  <2>1. UNCHANGED <<pc, mine, current, todo>> /\ drift' = drift \cup {t}
        /\ \A s \in Securable \ {t} : perms'[s] = perms[s]
    BY <1>10 DEF Drift, TypeOK
  <2> QED
    BY <2>1 DEF AppliedInv, TodoInv, Reached, Flipped,
                ToGrant, ToDeny, ToRevoke, Known, Desired, Wanted
<1> QED
  BY <1>1, <1>2, <1>3, <1>4, <1>5, <1>6, <1>7, <1>8, <1>9, <1>10 DEF Next, Reconcile

LEMMA AppliedAlways == Spec => [](TypeOK /\ AppliedInv)
<1>1. Init => AppliedInv
  BY DEF Init, AppliedInv, TodoInv, Reached
<1> QED BY <1>1, AppliedStep, PermissionTypeCorrect, PTL DEF Spec

(* Ready=True is only set when every entry that did not flip, and that      *)
(* nobody else changed meanwhile, is as the spec asks.                      *)
THEOREM AppliedWhenReadyCorrect == Spec => []AppliedWhenReady
<1>1. AppliedInv => AppliedWhenReady
  BY DEF AppliedInv, Reached, AppliedWhenReady
<1> QED BY <1>1, AppliedAlways, PTL

(* Reconcile sends nothing for an entry it found as the spec asks, when the  *)
(* server reports every target the way the spec writes it.                  *)
THEOREM UnchangedLeftAsIsCorrect ==
    ASSUME Qualified = {} PROVE Spec => UnchangedLeftAsIs
<1> DEFINE Keeps == Sending /\ reconcile' # reconcile /\ drifts' = drifts =>
                        \A s \in Securable : current[s] = Wanted(mine, s) => perms'[s] = perms[s]
<1>1. TypeOK /\ AppliedInv /\ [Next]_vars => [Keeps]_vars
  <2> SUFFICES ASSUME TypeOK, TodoInv, [Next]_vars, Sending, drifts' = drifts,
                      NEW s \in Securable, current[s] = Wanted(mine, s)
               PROVE  perms'[s] = perms[s]
    BY DEF AppliedInv
  <2> USE DEF server, resource, Sending
  <2>1. s \notin todo
    <3>1. mine.grants \cap mine.denies = {}
      BY SpecTypes DEF TypeOK
    <3> QED BY <3>1 DEF TodoInv, ToGrant, ToDeny, ToRevoke, Known, Desired, Wanted
  <2>2. ASSUME NEW t \in Securable, Send(t) PROVE perms'[s] = perms[s]
    BY <2>1, <2>2 DEF Send, TypeOK
  <2>3. CASE SendFails
    BY <2>1, <2>3 DEF SendFails, TypeOK
  <2>4. ASSUME NEW t \in Securable, CleanupRevoke(t) \/ Drift(t) PROVE perms'[s] = perms[s]
    BY <2>4 DEF CleanupRevoke, Drift, TypeOK
  <2>5. CASE UNCHANGED perms
    BY <2>5
  <2> QED
    BY <2>2, <2>3, <2>4, <2>5 DEF Next, Reconcile, Fetch, AddFinalizer, CredentialsMissing,
       GetPermissions, NextLoop, SetReady, SkipCleanup, CleanupDone, RemoveFinalizer,
       EditSpec, DeleteResource, Crash, vars
<1> QED BY <1>1, AppliedAlways, PTL DEF Spec, UnchangedLeftAsIs

------------------------------------------------------------------------------
(* The finalizer protects the cleanup: a Reconcile that sends statements    *)
(* holds it, and it is only removed from the spec that was cleaned up.      *)
FinalizerInv ==
    /\ ready.status # "Unknown" /\ Exists => finalizer
    /\ object = "deleting" => finalizer
    /\ ~Exists => ~finalizer
    /\ pc \in {"observe", "grant", "deny", "revoke", "status"} => Exists /\ finalizer
    /\ pc \in {"cleanup", "finalize"} => object = "deleting"

ListedAreGone(e, S) == \A s \in (e.grants \cup e.denies) \ S : perms[s] = "NONE"

CleanupInv ==
    /\ FinalizerInv
    /\ pc = "cleanup" /\ Undisturbed => ListedAreGone(mine, todo)
    /\ pc = "finalize" /\ Undisturbed => ListedAreGone(mine, {})
    /\ CleanedUp

LEMMA CleanupStep == TypeOK /\ CleanupInv /\ [Next]_vars => CleanupInv'
<1> SUFFICES ASSUME TypeOK, CleanupInv, [Next]_vars PROVE CleanupInv'
  OBVIOUS
<1> USE DEF server, resource, reconcile, Exists
<1>0. /\ Fault => ~Undisturbed'
      /\ \A s \in Securable : Drift(s) => ~Undisturbed'
  BY PermissionBounds DEF Fault, Drift, TypeOK, Undisturbed
<1>1. CASE Fetch
  BY <1>1 DEF Fetch, CleanupInv, FinalizerInv, ListedAreGone, CleanedUp, Undisturbed, TypeOK
<1>2. CASE AddFinalizer
  BY <1>2 DEF AddFinalizer, Return, CleanupInv, FinalizerInv, ListedAreGone, CleanedUp,
              Undisturbed, TypeOK
<1>3. CASE GetPermissions \/ NextLoop
  BY <1>3 DEF GetPermissions, NextLoop, CleanupInv, FinalizerInv, ListedAreGone, CleanedUp,
              Undisturbed
<1>4. CASE SetReady
  BY <1>4 DEF SetReady, SetCondition, Return, CleanupInv, FinalizerInv, ListedAreGone,
              CleanedUp, Undisturbed
<1>5. ASSUME NEW s \in Securable, Send(s) PROVE CleanupInv'
  BY <1>5 DEF Send, CleanupInv, FinalizerInv, ListedAreGone, CleanedUp, Undisturbed
<1>6. ASSUME NEW s \in Securable, CleanupRevoke(s) PROVE CleanupInv'
  <2>0. pc = "cleanup" /\ todo' = todo \ {s} /\ UNCHANGED <<pc, mine, resource>>
    BY <1>6 DEF CleanupRevoke
  <2>1. CASE Fault
    BY <1>0, <2>0, <2>1 DEF CleanupInv, FinalizerInv, CleanedUp
  <2>2. CASE perms' = [perms EXCEPT ![s] = "NONE"] /\ UNCHANGED faults
    <3>1. \A t \in Securable : perms'[t] = IF t = s THEN "NONE" ELSE perms[t]
      BY <2>2 DEF TypeOK
    <3>2. mine.grants \cup mine.denies \subseteq Securable
      BY SpecTypes DEF TypeOK
    <3>3. Undisturbed' = Undisturbed
      BY <1>6, <2>2 DEF CleanupRevoke, Undisturbed
    <3> QED BY <2>0, <3>1, <3>2, <3>3 DEF CleanupInv, FinalizerInv, ListedAreGone, CleanedUp
  <2> QED BY <1>6, <2>1, <2>2 DEF CleanupRevoke
<1>7. CASE CleanupDone
  BY <1>7 DEF CleanupDone, CleanupInv, FinalizerInv, ListedAreGone, CleanedUp, Undisturbed
<1>8. CASE RemoveFinalizer
  <2>1. CASE UpdateAccepted
    BY <1>8, <2>1 DEF RemoveFinalizer, UpdateAccepted, Fresh, Return, CleanupInv,
                      FinalizerInv, ListedAreGone, CleanedUp, Undisturbed
  <2>2. CASE ~UpdateAccepted
    BY <1>8, <2>2 DEF RemoveFinalizer, Return, CleanupInv, FinalizerInv, ListedAreGone,
                      CleanedUp, Undisturbed
  <2> QED BY <2>1, <2>2
<1>9. CASE EditSpec
  BY <1>9 DEF EditSpec, CleanupInv, FinalizerInv, ListedAreGone, CleanedUp, Undisturbed
<1>10. CASE DeleteResource
  <2>1. spec'.grants = spec.grants /\ spec'.denies = spec.denies
    BY <1>10 DEF DeleteResource, TypeOK, PermissionSpec
  <2> QED
    BY <1>10, <2>1 DEF DeleteResource, CleanupInv, FinalizerInv, ListedAreGone, CleanedUp,
                       Undisturbed, TypeOK
<1>11. CASE UNCHANGED vars
  BY <1>11 DEF vars, CleanupInv, FinalizerInv, ListedAreGone, CleanedUp, Undisturbed
<1>12. CASE CredentialsMissing
  BY <1>0, <1>12 DEF CredentialsMissing, SetCondition, Return, CleanupInv, FinalizerInv, CleanedUp
<1>13. CASE SendFails \/ Crash
  BY <1>0, <1>13 DEF SendFails, Crash, Return, CleanupInv, FinalizerInv, CleanedUp
<1>14. CASE SkipCleanup
  BY <1>0, <1>14 DEF SkipCleanup, CleanupInv, FinalizerInv, CleanedUp
<1>15. ASSUME NEW s \in Securable, Drift(s) PROVE CleanupInv'
  BY <1>0, <1>15 DEF Drift, CleanupInv, FinalizerInv, CleanedUp
<1> QED
  BY <1>1, <1>2, <1>3, <1>4, <1>5, <1>6, <1>7, <1>8, <1>9, <1>10, <1>11, <1>12, <1>13,
     <1>14, <1>15 DEF Next, Reconcile

(* Unless a call fails or somebody else interferes, a deleted resource      *)
(* leaves none of the permissions it listed: an edit that races with the    *)
(* cleanup makes the removal of the finalizer fail.                         *)
THEOREM CleanupCorrect == Spec => []CleanedUp
<1>1. Init => CleanupInv
  BY DEF Init, Exists, CleanupInv, FinalizerInv, ListedAreGone, CleanedUp
<1>2. CleanupInv => CleanedUp
  BY DEF CleanupInv
<1> QED BY <1>1, <1>2, CleanupStep, PermissionTypeCorrect, PTL DEF Spec

==============================================================================
