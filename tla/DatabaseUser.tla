----------------------------- MODULE DatabaseUser -----------------------------
(***************************************************************************)
(* The DatabaseUser controller.  It looks up the Login resource it refers  *)
(* to, but neither its conditions nor whether the login exists.            *)
(***************************************************************************)
EXTENDS SQLPrincipals

VARIABLES
    upc,       \* the next round trip of the running Reconcile
    umine,     \* its copy of the spec
    ufresh,    \* whether the resource version is still that of the copy
    utodo,     \* the database roles it has still to add or to remove
    utouched   \* history: an administrator changed the user meanwhile

userReconcile == <<upc, umine, ufresh, utodo, utouched>>

UserTypeOK ==
    /\ upc \in {"idle", "login", "observe", "roles", "apply", "owns", "drop", "finalize"}
    /\ umine \in UserSpec
    /\ ufresh \in BOOLEAN
    /\ utodo \in Todo
    /\ utouched \in BOOLEAN

UserInit ==
    /\ upc = "idle"
    /\ umine = AbsentUser.spec
    /\ ufresh = TRUE
    /\ utodo = NoTodo
    /\ utouched = FALSE

UserReturn(requeue) ==
    /\ upc' = "idle"
    /\ umine' = AbsentUser.spec
    /\ ufresh' = TRUE
    /\ utodo' = NoTodo
    /\ utouched' = FALSE
    /\ userQueued' = (userQueued \/ requeue)

------------------------------------------------------------------------------
(* Get and the finalizer, as in FetchLogin. *)
FetchUser ==
    /\ upc = "idle" /\ userQueued /\ userCR.state # "absent"
    /\ userQueued' = FALSE
    /\ userCR' = IF userCR.state = "new" THEN [userCR EXCEPT !.state = "live"] ELSE userCR
    /\ umine' = userCR.spec
    /\ upc' = IF userCR.state = "deleting" THEN "owns" ELSE "login"
    /\ UNCHANGED <<ufresh, utodo, utouched, server, secret, loginCR, loginQueued,
                   edits, mishaps>>

UserCondition(unresolved) == userCR' = [userCR EXCEPT !.unresolved = unresolved]

(* Without its Login the resource is not looked at again until it changes. *)
ResolveLogin ==
    /\ upc = "login"
    /\ IF loginCR.state = "absent"
       THEN UserCondition(TRUE) /\ UserReturn(FALSE)
       ELSE upc' = "observe" /\ UNCHANGED <<umine, ufresh, utodo, utouched, userCR, userQueued>>
    /\ UNCHANGED <<server, secret, loginCR, loginQueued, edits, mishaps>>

UserCredentialsMissing ==
    /\ upc = "observe"
    /\ Mishap
    /\ UserCondition(FALSE)
    /\ UserReturn(TRUE)
    /\ UNCHANGED <<server, secret, loginCR, loginQueued, edits>>

(* UserExists, then CreateUser, which fails while there is no login. *)
EnsureUser ==
    /\ upc = "observe"
    /\ IF user.sid = 0 /\ login.sid = 0
       THEN UserReturn(TRUE) /\ UNCHANGED user
       ELSE /\ user' = IF user.sid = 0 THEN CreateUser ELSE user
            /\ upc' = "roles"
            /\ UNCHANGED <<umine, ufresh, utodo, utouched, userQueued>>
    /\ UNCHANGED <<login, secret, loginCR, userCR, loginQueued, edits, mishaps>>

GetDatabaseRoles ==
    /\ upc = "roles"
    /\ utodo' = RoleDiff(user.roles, umine.roles)
    /\ upc' = "apply"
    /\ UNCHANGED <<umine, ufresh, utouched, shared>>

AlterDatabaseRole(r) ==
    /\ upc = "apply" /\ r \in NextRoles(utodo)
    /\ IF user.sid = 0
       THEN UserReturn(TRUE) /\ UNCHANGED user
       ELSE /\ user' = [user EXCEPT !.roles = Altered(@, utodo, r)]
            /\ utodo' = Handled(utodo, r)
            /\ UNCHANGED <<upc, umine, ufresh, utouched, userQueued>>
    /\ UNCHANGED <<login, secret, loginCR, userCR, loginQueued, edits, mishaps>>

SetUserReady ==
    /\ upc = "apply" /\ utodo = NoTodo
    /\ UserCondition(FALSE)
    /\ UserReturn(TRUE)
    /\ UNCHANGED <<server, secret, loginCR, loginQueued, edits, mishaps>>

------------------------------------------------------------------------------
(* handleDeletion.                                                          *)

(* A user that owns objects blocks the deletion; it is tried again later. *)
CheckOwnership ==
    /\ upc = "owns"
    /\ IF user.owns
       THEN UserCondition(FALSE) /\ UserReturn(TRUE)
       ELSE upc' = "drop" /\ UNCHANGED <<umine, ufresh, utodo, utouched, userCR, userQueued>>
    /\ UNCHANGED <<server, secret, loginCR, loginQueued, edits, mishaps>>

(* DROP USER IF EXISTS fails if the user owns objects by now: logged only. *)
DropUser ==
    /\ upc = "drop"
    /\ user' = IF user.owns THEN user ELSE NoUser
    /\ upc' = "finalize"
    /\ UNCHANGED <<umine, ufresh, utodo, utouched, login, secret, loginCR, userCR,
                   loginQueued, userQueued, edits, mishaps>>

(* As in LoginCleanupFails.                                                 *)
UserCleanupFails ==
    /\ Mishap
    /\ \/ upc = "owns" /\ upc' \in {"drop", "finalize"}
       \/ upc = "drop" /\ upc' = "finalize"
    /\ UNCHANGED <<umine, ufresh, utodo, utouched, server, secret, loginCR, userCR,
                   loginQueued, userQueued, edits>>

FinalizeUser ==
    /\ upc = "finalize"
    /\ userCR' = IF ufresh THEN AbsentUser ELSE userCR
    /\ UserReturn(~ufresh)
    /\ UNCHANGED <<server, secret, loginCR, loginQueued, edits, mishaps>>

------------------------------------------------------------------------------
UserCallFails ==
    /\ upc \notin {"idle", "owns", "drop"}
    /\ Mishap
    /\ UserReturn(TRUE)
    /\ UNCHANGED <<server, secret, loginCR, userCR, loginQueued, edits>>

ReconcileUser ==
    \/ FetchUser \/ ResolveLogin \/ UserCredentialsMissing
    \/ EnsureUser \/ GetDatabaseRoles
    \/ \E r \in Role : AlterDatabaseRole(r)
    \/ SetUserReady
    \/ CheckOwnership \/ DropUser \/ UserCleanupFails \/ FinalizeUser \/ UserCallFails

==============================================================================
