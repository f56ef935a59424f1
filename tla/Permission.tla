------------------------------ MODULE Permission ------------------------------
(***************************************************************************)
(* The Permission controller: one Permission resource for one database     *)
(* user.  Reconcile reads the permissions once, then sends its GRANT, DENY *)
(* and REVOKE statements from that snapshot, one round trip each, while    *)
(* users edit or delete the resource and administrators change the         *)
(* permissions on the server.                                              *)
(***************************************************************************)
EXTENDS Integers, FiniteSets

CONSTANTS
    Securable,   \* the pairs of a permission and a target, as permissionKey
    Qualified,   \* those whose target is written OBJECT::schema.name
    MaxEdits,    \* bound on the edits of the spec
    MaxDrift,    \* bound on the changes administrators make on the server
    MaxFaults    \* bound on failing statements, lost patches, missing Secrets, crashes

ASSUME SecurableAssumption == Qualified \subseteq Securable

ASSUME PermissionBounds ==
    /\ MaxEdits \in Nat
    /\ MaxDrift \in Nat
    /\ MaxFaults \in Nat

VARIABLES
    perms,     \* perms[s]: the state of s in sys.database_permissions
    spec,      \* .spec and metadata: the two lists, the generation
    object,    \* the resource: live, being deleted, gone after its finalizer was
               \* removed, or gone at once since it had none
    finalizer, \* whether it carries the finalizer
    ready,     \* the Ready condition and observedGeneration
    pc,        \* the next round trip of the running Reconcile
    mine,      \* its copy of the spec
    current,   \* currentSet: the permissions it read
    todo,      \* the securables the current loop has still to send a statement for
    drift,     \* history: the securables changed behind its back since it read them
    drifts,    \* changes by administrators so far
    faults     \* faults so far

server    == <<perms, drifts>>
resource  == <<spec, object, finalizer, ready>>
reconcile == <<pc, mine, current, todo, drift>>
vars      == <<server, resource, reconcile, faults>>

State == {"NONE", "GRANT", "DENY"}

(* No securable is in both lists: the webhook does not demand it, but what  *)
(* such a resource asks for is not defined.                                 *)
PermissionSpec ==
    {e \in [grants : SUBSET Securable, denies : SUBSET Securable,
            generation : 0..MaxEdits] : e.grants \cap e.denies = {}}

EmptySpec == [grants |-> {}, denies |-> {}, generation |-> 0]
Nothing   == [s \in Securable |-> "NONE"]

TypeOK ==
    /\ perms \in [Securable -> State]
    /\ spec \in PermissionSpec
    /\ object \in {"live", "deleting", "finalized", "gone"}
    /\ finalizer \in BOOLEAN
    /\ ready \in [status : {"Unknown", "True", "False"}, observed : 0..MaxEdits]
    /\ pc \in {"idle", "fetched", "observe", "grant", "deny", "revoke", "status",
               "cleanup", "finalize"}
    /\ mine \in PermissionSpec
    /\ current \in [Securable -> State]
    /\ todo \subseteq Securable
    /\ drift \subseteq Securable
    /\ drifts \in 0..MaxDrift
    /\ faults \in 0..MaxFaults

Init ==
    /\ perms \in [Securable -> State]
    /\ spec \in {e \in PermissionSpec : e.generation = 0}
    /\ object = "live"
    /\ finalizer = FALSE
    /\ ready = [status |-> "Unknown", observed |-> 0]
    /\ pc = "idle"
    /\ mine = EmptySpec
    /\ current = Nothing
    /\ todo = {}
    /\ drift = {}
    /\ drifts = 0
    /\ faults = 0

------------------------------------------------------------------------------
Exists == object \in {"live", "deleting"}

(* What a spec asks for.                                                    *)
Wanted(e, s) == IF s \in e.grants THEN "GRANT" ELSE IF s \in e.denies THEN "DENY" ELSE "NONE"

(* currentSet looked up with a key of the spec: GetPermissions reports an   *)
(* object without its schema, so that a qualified target is never found.    *)
Known(s) == IF s \in Qualified THEN "NONE" ELSE current[s]

(* desiredGrants and desiredDenies looked up with a key of currentSet.      *)
Desired(s) == IF s \in Qualified THEN "NONE" ELSE Wanted(mine, s)

(* The three loops and the securables each sends a statement for.           *)
ToGrant  == {s \in mine.grants : Known(s) # "GRANT"}
ToDeny   == {s \in mine.denies : Known(s) # "DENY"}

(* Mutants: everything found is revoked; stale DENYs are not.               *)
ToRevokeAll    == {s \in Securable : current[s] # "NONE"}
ToRevokeGrants == {s \in Securable : current[s] = "GRANT" /\ Desired(s) # "GRANT"}

ToRevoke == {s \in Securable : current[s] # "NONE" /\ Desired(s) # current[s]}

(* The state a statement of loop p leaves.                                  *)
Effect(p) == IF p = "grant" THEN "GRANT" ELSE IF p = "deny" THEN "DENY" ELSE "NONE"

Fault == faults < MaxFaults /\ faults' = faults + 1

Return ==
    /\ pc' = "idle"
    /\ mine' = EmptySpec
    /\ current' = Nothing
    /\ todo' = {}
    /\ drift' = {}

------------------------------------------------------------------------------
(* Reconcile, steps 1 to 4.                                                 *)

(* Mutant: a spec that was observed is not looked at again.                 *)
FetchUnobserved ==
    /\ pc = "idle" /\ Exists
    /\ ready # [status |-> "True", observed |-> spec.generation]
    /\ mine' = spec
    /\ pc' = IF object = "live" THEN "fetched" ELSE "cleanup"
    /\ todo' = IF object = "live" THEN {} ELSE spec.grants \cup spec.denies
    /\ UNCHANGED <<current, drift, server, resource, faults>>

Fetch ==
    /\ pc = "idle" /\ Exists
    /\ mine' = spec
    /\ pc' = IF object = "live" THEN "fetched" ELSE "cleanup"
    /\ todo' = IF object = "live" THEN {} ELSE spec.grants \cup spec.denies
    /\ UNCHANGED <<current, drift, server, resource, faults>>

(* Update carries the resource version: it fails once the spec has changed. *)
Fresh == mine = spec

AddFinalizer ==
    /\ pc = "fetched"
    /\ \/ finalizer /\ pc' = "observe" /\ UNCHANGED <<finalizer, mine, current, todo, drift>>
       \/ /\ ~finalizer /\ Fresh /\ object = "live"
          /\ finalizer' = TRUE
          /\ pc' = "observe"
          /\ UNCHANGED <<mine, current, todo, drift>>
       \/ ~finalizer /\ ~(Fresh /\ object = "live") /\ Return /\ UNCHANGED finalizer
    /\ UNCHANGED <<server, spec, object, ready, faults>>

(* Mutant: the generation after this one is reported as observed.           *)
SetConditionAhead(status) == ready' = [status |-> status, observed |-> mine.generation + 1]

SetCondition(status) == ready' = [status |-> status, observed |-> mine.generation]

(* The Secret is missing or invalid. *)
CredentialsMissing ==
    /\ pc = "observe"
    /\ Fault
    /\ SetCondition("False")
    /\ Return
    /\ UNCHANGED <<server, spec, object, finalizer>>

GetPermissions ==
    /\ pc = "observe"
    /\ UNCHANGED <<mine, server, resource, faults>>
    /\ current' = perms
    /\ drift' = {}
    /\ pc' = "grant"
    /\ todo' = ToGrant'

(* A loop is done; the next one starts. *)
NextLoop ==
    /\ todo = {}
    /\ \/ pc = "grant"  /\ pc' = "deny"   /\ todo' = ToDeny
       \/ pc = "deny"   /\ pc' = "revoke" /\ todo' = ToRevoke
       \/ pc = "revoke" /\ pc' = "status" /\ UNCHANGED todo
    /\ UNCHANGED <<mine, current, drift, server, resource, faults>>

(* GrantPermission, DenyPermission or RevokePermission; the loops over the  *)
(* spec follow its order, the one over currentSet is in map order.          *)
Send(s) ==
    /\ pc \in {"grant", "deny", "revoke"} /\ s \in todo
    /\ perms' = [perms EXCEPT ![s] = Effect(pc)]
    /\ todo' = todo \ {s}
    /\ UNCHANGED <<pc, mine, current, drift, drifts, resource, faults>>

(* The read or a statement fails, executed or not: Reconcile returns the    *)
(* error and is retried.                                                    *)
SendFails ==
    /\ pc \in {"observe", "grant", "deny", "revoke"}
    /\ Fault
    /\ \/ UNCHANGED perms
       \/ \E s \in todo : perms' = [perms EXCEPT ![s] = Effect(pc)]
    /\ Return
    /\ UNCHANGED <<drifts, resource>>

SetReady ==
    /\ pc = "status"
    /\ SetCondition("True")
    /\ Return
    /\ UNCHANGED <<server, spec, object, finalizer, faults>>

------------------------------------------------------------------------------
(* handleDeletion.                                                          *)

(* A REVOKE of the cleanup; an error is logged and the loop goes on. *)
CleanupRevoke(s) ==
    /\ pc = "cleanup" /\ s \in todo
    /\ \/ perms' = [perms EXCEPT ![s] = "NONE"] /\ UNCHANGED faults
       \/ Fault /\ UNCHANGED perms
    /\ todo' = todo \ {s}
    /\ UNCHANGED <<pc, mine, current, drift, drifts, resource>>

(* No credentials or no connection: the finalizer is removed anyway. *)
SkipCleanup ==
    /\ pc = "cleanup"
    /\ Fault
    /\ pc' = "finalize"
    /\ todo' = {}
    /\ UNCHANGED <<mine, current, drift, server, resource>>

CleanupDone ==
    /\ pc = "cleanup" /\ todo = {}
    /\ pc' = "finalize"
    /\ UNCHANGED <<mine, current, todo, drift, server, resource, faults>>

(* Mutant: the finalizer is removed without the version check.              *)
Blindly == TRUE

(* The precondition of the Update that removes the finalizer.               *)
UpdateAccepted == Fresh

(* RemoveFinalizer: on a conflict Reconcile starts over. *)
RemoveFinalizer ==
    /\ pc = "finalize"
    /\ IF UpdateAccepted THEN object' = "finalized" /\ finalizer' = FALSE
                         ELSE UNCHANGED <<object, finalizer>>
    /\ Return
    /\ UNCHANGED <<server, spec, ready, faults>>

------------------------------------------------------------------------------
(* Users, administrators, crashes.                                          *)

EditSpec ==
    /\ Exists /\ spec.generation < MaxEdits
    /\ spec' \in {e \in PermissionSpec : e.generation = spec.generation + 1}
    /\ UNCHANGED <<object, finalizer, ready, server, reconcile, faults>>

(* A resource that never got its finalizer goes at once.  The generation    *)
(* that Kubernetes adds here is left out: no later decision looks at it.    *)
DeleteResource ==
    /\ object = "live"
    /\ object' = IF finalizer THEN "deleting" ELSE "gone"
    /\ UNCHANGED <<spec, finalizer, ready, server, reconcile, faults>>

Drift(s) ==
    /\ drifts < MaxDrift /\ Exists
    /\ drifts' = drifts + 1
    /\ \E v \in State \ {perms[s]} : perms' = [perms EXCEPT ![s] = v]
    /\ drift' = drift \cup {s}
    /\ UNCHANGED <<pc, mine, current, todo, resource, faults>>

(* The operator dies, or a call to Kubernetes fails and is retried. *)
Crash ==
    /\ pc # "idle"
    /\ Fault
    /\ Return
    /\ UNCHANGED <<server, resource>>

Reconcile ==
    \/ Fetch \/ AddFinalizer \/ CredentialsMissing \/ GetPermissions
    \/ NextLoop \/ SendFails \/ SetReady
    \/ SkipCleanup \/ CleanupDone \/ RemoveFinalizer
    \/ \E s \in Securable : Send(s) \/ CleanupRevoke(s)

Next ==
    \/ Reconcile
    \/ EditSpec \/ DeleteResource \/ Crash
    \/ \E s \in Securable : Drift(s)

Spec == Init /\ [][Next]_vars

(* The work queue reconciles the resource again after every return: after   *)
(* the requeue interval, the backoff or a change of the Secret.             *)
FairSpec == Spec /\ WF_vars(Reconcile)

------------------------------------------------------------------------------
(* Properties.                                                              *)

Sending == pc \in {"grant", "deny", "revoke"}

(* The entry moved from one list to the other since it was applied. *)
Flipped(s) == current[s] # "NONE" /\ Wanted(mine, s) # "NONE" /\ current[s] # Wanted(mine, s)

(* "Unchanged entries are left as-is": whatever the order and the failures  *)
(* of its statements, Reconcile sends none for an entry that it found in    *)
(* the state the spec asks for.                                             *)
UnchangedLeftAsIs ==
    [][Sending /\ reconcile' # reconcile /\ drifts' = drifts =>
          \A s \in Securable : current[s] = Wanted(mine, s) => perms'[s] = perms[s]]_vars

(* When Ready=True is about to be set, every entry that nobody else touched *)
(* is as the spec asks, unless it changed from GRANT to DENY or back.       *)
AppliedWhenReady ==
    pc = "status" =>
        \A s \in Securable \ (drift \cup Qualified) :
            ~Flipped(s) => perms[s] = Wanted(mine, s)

Undisturbed == faults = 0 /\ drifts = 0

(* "permissions are always cleaned up": unless a call failed or somebody    *)
(* else granted one, a resource that was finalized has left none of the     *)
(* permissions it listed, also when its lists were edited during the        *)
(* cleanup.                                                                 *)
CleanedUp ==
    object = "finalized" /\ Undisturbed =>
        \A s \in spec.grants \cup spec.denies : perms[s] = "NONE"

(* Drift and edits are corrected in the end, across failures and crashes.   *)
PermissionsConverge ==
    <>[](object = "live" => \A s \in Securable : perms[s] = Wanted(spec, s))

==============================================================================
