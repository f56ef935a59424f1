-------------------------------- MODULE Login ---------------------------------
(***************************************************************************)
(* The Login controller.  A read and the statement it decides are one step *)
(* where only this controller could change the outcome; the check for      *)
(* dependent users and the DROP are two, since the DatabaseUser controller *)
(* runs in between.                                                        *)
(***************************************************************************)
EXTENDS SQLPrincipals

VARIABLES
    lpc,       \* the next round trip of the running Reconcile
    lmine,     \* its copy of the Login
    lfresh,    \* whether the resource version is still that of the copy
    lpassword, \* pwSecret: the version of the password it read
    ltodo,     \* the server roles it has still to add or to remove
    ltouched   \* history: an administrator changed the login meanwhile

loginReconcile == <<lpc, lmine, lfresh, lpassword, ltodo, ltouched>>

LoginTypeOK ==
    /\ lpc \in {"idle", "secrets", "observe", "database", "roles", "apply",
                "users", "drop", "finalize"}
    /\ lmine \in [state : ObjectState, spec : LoginSpec, version : Version]
    /\ lfresh \in BOOLEAN
    /\ lpassword \in Version
    /\ ltodo \in Todo
    /\ ltouched \in BOOLEAN

(* Reconcile returns: its locals are gone.                                  *)
LoginReturned ==
    /\ lpc' = "idle"
    /\ lmine' = AbsentLogin
    /\ lfresh' = TRUE
    /\ lpassword' = 0
    /\ ltodo' = NoTodo
    /\ ltouched' = FALSE

LoginInit ==
    /\ lpc = "idle"
    /\ lmine = AbsentLogin
    /\ lfresh = TRUE
    /\ lpassword = 0
    /\ ltodo = NoTodo
    /\ ltouched = FALSE

(* Mutant: every normal return leaves the queue empty.                      *)
LoginReturnQuietly(requeue) == LoginReturned /\ UNCHANGED loginQueued

(* An error or a requeue interval puts the key back; an event that arrived  *)
(* during Reconcile has done so already.                                    *)
LoginReturn(requeue) ==
    /\ LoginReturned
    /\ loginQueued' = (loginQueued \/ requeue)

------------------------------------------------------------------------------
(* Get, the finalizer, and where handleDeletion starts.  A conflict on the  *)
(* Update is an error and a retry: the same as to have read the resource    *)
(* later.                                                                   *)
FetchLogin ==
    /\ lpc = "idle" /\ loginQueued /\ loginCR.state # "absent"
    /\ loginQueued' = FALSE
    /\ loginCR' = IF loginCR.state = "new" THEN [loginCR EXCEPT !.state = "live"] ELSE loginCR
    /\ lmine' = loginCR'
    /\ lpc' = IF loginCR.state # "deleting" THEN "secrets"
              ELSE IF loginCR.spec.policy = "Delete" THEN "users" ELSE "finalize"
    /\ UNCHANGED <<lfresh, lpassword, ltodo, ltouched, server, secret, userCR, userQueued,
                   edits, mishaps>>

(* The password Secret: while it is missing, only an event brings the key   *)
(* back.                                                                    *)
ReadPassword ==
    /\ lpc = "secrets"
    /\ IF secret = 0
       THEN UNCHANGED loginCR /\ LoginReturn(FALSE)
       ELSE /\ lpassword' = secret
            /\ lpc' = "observe"
            /\ UNCHANGED <<lmine, lfresh, ltodo, ltouched, loginCR, loginQueued>>
    /\ UNCHANGED <<server, secret, userCR, userQueued, edits, mishaps>>

(* No credentials: the event of their return brings the key back.           *)
LoginCredentialsMissing ==
    /\ lpc = "secrets"
    /\ Mishap
    /\ LoginReturn(TRUE)
    /\ UNCHANGED <<server, secret, loginCR, userCR, userQueued, edits>>

(* LoginExists, then CreateLogin or UpdateLoginPassword.                    *)
CreateOrRotate ==
    /\ lpc = "observe"
    /\ login' = IF login.sid = 0 THEN CreateLogin(lpassword)
                ELSE IF lpassword # lmine.version
                     THEN [login EXCEPT !.password = lpassword] ELSE login
    /\ lpc' = "database"
    /\ UNCHANGED <<lmine, lfresh, lpassword, ltodo, ltouched, user, secret, loginCR, userCR,
                   loginQueued, userQueued, edits, mishaps>>

(* The default database, if the spec names one; an error if the login is    *)
(* gone.                                                                    *)
SetDefaultDatabase ==
    /\ lpc = "database"
    /\ \/ /\ lmine.spec.db # "none" /\ login.sid = 0
          /\ LoginReturn(TRUE)
          /\ UNCHANGED login
       \/ /\ lmine.spec.db = "none" \/ login.sid # 0
          /\ login' = IF lmine.spec.db = "none" THEN login
                      ELSE [login EXCEPT !.db = lmine.spec.db]
          /\ lpc' = "roles"
          /\ UNCHANGED <<lmine, lfresh, lpassword, ltodo, ltouched, loginQueued>>
    /\ UNCHANGED <<user, secret, loginCR, userCR, userQueued, edits, mishaps>>

GetServerRoles ==
    /\ lpc = "roles"
    /\ ltodo' = RoleDiff(login.roles, lmine.spec.roles)
    /\ lpc' = "apply"
    /\ UNCHANGED <<lmine, lfresh, lpassword, ltouched, shared>>

AlterServerRole(r) ==
    /\ lpc = "apply" /\ r \in NextRoles(ltodo)
    /\ IF login.sid = 0
       THEN LoginReturn(TRUE) /\ UNCHANGED login
       ELSE /\ login' = [login EXCEPT !.roles = Altered(@, ltodo, r)]
            /\ ltodo' = Handled(ltodo, r)
            /\ UNCHANGED <<lpc, lmine, lfresh, lpassword, ltouched, loginQueued>>
    /\ UNCHANGED <<user, secret, loginCR, userCR, userQueued, edits, mishaps>>

(* Mutant: the version the Secret has by now is recorded.                   *)
SetLoginReadyLate ==
    /\ lpc = "apply" /\ ltodo = NoTodo
    /\ loginCR' = [loginCR EXCEPT !.version = secret]
    /\ LoginReturn(TRUE)
    /\ UNCHANGED <<server, secret, userCR, userQueued, edits, mishaps>>

SetLoginReady ==
    /\ lpc = "apply" /\ ltodo = NoTodo
    /\ loginCR' = [loginCR EXCEPT !.version = lpassword]
    /\ LoginReturn(TRUE)
    /\ UNCHANGED <<server, secret, userCR, userQueued, edits, mishaps>>

------------------------------------------------------------------------------
(* handleDeletion.                                                          *)

(* Mutant: a blocked deletion is not tried again.                           *)
CheckUsersOnce ==
    /\ lpc = "users"
    /\ IF LoginHasUsers
       THEN UNCHANGED loginCR /\ LoginReturn(FALSE)
       ELSE lpc' = "drop" /\ UNCHANGED <<lmine, lfresh, lpassword, ltodo, ltouched, loginCR, loginQueued>>
    /\ UNCHANGED <<server, secret, userCR, userQueued, edits, mishaps>>

(* Dependent users block the deletion; it is tried again later.             *)
CheckUsers ==
    /\ lpc = "users"
    /\ IF LoginHasUsers
       THEN UNCHANGED loginCR /\ LoginReturn(TRUE)
       ELSE lpc' = "drop" /\ UNCHANGED <<lmine, lfresh, lpassword, ltodo, ltouched, loginCR, loginQueued>>
    /\ UNCHANGED <<server, secret, userCR, userQueued, edits, mishaps>>

(* DROP LOGIN succeeds although users of the login exist.                   *)
DropLogin ==
    /\ lpc = "drop"
    /\ login' = NoLogin
    /\ lpc' = "finalize"
    /\ UNCHANGED <<lmine, lfresh, lpassword, ltodo, ltouched, user, secret, loginCR, userCR,
                   loginQueued, userQueued, edits, mishaps>>

(* All errors are logged only: without a connection the DROP is skipped,    *)
(* but when the check for users fails it is sent all the same.              *)
LoginCleanupFails ==
    /\ Mishap
    /\ \/ lpc = "users" /\ lpc' \in {"drop", "finalize"}
       \/ lpc = "drop" /\ lpc' = "finalize"
    /\ UNCHANGED <<lmine, lfresh, lpassword, ltodo, ltouched, server, secret, loginCR, userCR,
                   loginQueued, userQueued, edits>>

(* Mutant: the finalizer is removed without the version check.              *)
LoginUpdateBlind == TRUE

(* The precondition of the Update that removes the finalizer.               *)
LoginUpdateAccepted == lfresh

FinalizeLogin ==
    /\ lpc = "finalize"
    /\ loginCR' = IF LoginUpdateAccepted THEN AbsentLogin ELSE loginCR
    /\ LoginReturn(~LoginUpdateAccepted)
    /\ UNCHANGED <<server, secret, userCR, userQueued, edits, mishaps>>

------------------------------------------------------------------------------
(* A call fails, before or after the server executed it, and Reconcile      *)
(* returns the error.                                                       *)
LoginCallFails ==
    /\ lpc \notin {"idle", "users", "drop"}
    /\ Mishap
    /\ LoginReturn(TRUE)
    /\ UNCHANGED <<server, secret, loginCR, userCR, userQueued, edits>>

ReconcileLogin ==
    \/ FetchLogin \/ ReadPassword \/ LoginCredentialsMissing
    \/ CreateOrRotate \/ SetDefaultDatabase \/ GetServerRoles
    \/ \E r \in Role : AlterServerRole(r)
    \/ SetLoginReady
    \/ CheckUsers \/ DropLogin \/ LoginCleanupFails \/ FinalizeLogin \/ LoginCallFails

==============================================================================
