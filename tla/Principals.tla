------------------------------ MODULE Principals ------------------------------
(***************************************************************************)
(* A Login, a DatabaseUser that refers to it, the two controllers, and     *)
(* what happens around them: users edit, delete and create the resources   *)
(* and rotate the password, administrators change the server, the operator *)
(* restarts.                                                               *)
(***************************************************************************)
EXTENDS Login, DatabaseUser

vars == <<shared, loginReconcile, userReconcile>>

TypeOK == SharedTypeOK /\ LoginTypeOK /\ UserTypeOK

Init == SharedInit /\ LoginInit /\ UserInit

------------------------------------------------------------------------------
(* Users.                                                                   *)

Edit == edits < MaxEdits /\ edits' = edits + 1

(* The webhook keeps the names and the server; the rest may change, also    *)
(* while the resource is being deleted.                                     *)
EditLogin ==
    /\ loginCR.state # "absent"
    /\ Edit
    /\ \E spec \in LoginSpecs \ {loginCR.spec} : loginCR' = [loginCR EXCEPT !.spec = spec]
    /\ loginQueued' = TRUE
    /\ lfresh' = (lpc = "idle")
    /\ UNCHANGED <<lpc, lmine, lpassword, ltodo, ltouched, server, secret, userCR, userQueued,
                   mishaps, userReconcile>>

EditUser ==
    /\ userCR.state # "absent"
    /\ Edit
    /\ \E spec \in UserSpec \ {userCR.spec} : userCR' = [userCR EXCEPT !.spec = spec]
    /\ userQueued' = TRUE
    /\ ufresh' = (upc = "idle")
    /\ UNCHANGED <<upc, umine, utodo, utouched, server, secret, loginCR, loginQueued,
                   mishaps, loginReconcile>>

CreateResource ==
    /\ Edit
    /\ \/ /\ loginCR.state = "absent"
          /\ \E spec \in LoginSpecs : loginCR' = NewLogin(spec)
          /\ loginQueued' = TRUE
          /\ UNCHANGED <<userCR, userQueued>>
       \/ /\ userCR.state = "absent"
          /\ \E spec \in UserSpec : userCR' = NewUser(spec)
          /\ userQueued' = TRUE
          /\ UNCHANGED <<loginCR, loginQueued>>
    /\ UNCHANGED <<server, secret, mishaps, loginReconcile, userReconcile>>

(* A resource without finalizer goes at once.                               *)
DeleteLogin ==
    /\ loginCR.state \in {"new", "live"}
    /\ loginCR' = IF loginCR.state = "new" THEN AbsentLogin
                  ELSE [loginCR EXCEPT !.state = "deleting"]
    /\ loginQueued' = TRUE
    /\ UNCHANGED <<server, secret, userCR, userQueued, edits, mishaps,
                   loginReconcile, userReconcile>>

DeleteUser ==
    /\ userCR.state \in {"new", "live"}
    /\ userCR' = IF userCR.state = "new" THEN AbsentUser
                 ELSE [userCR EXCEPT !.state = "deleting"]
    /\ userQueued' = TRUE
    /\ UNCHANGED <<server, secret, loginCR, loginQueued, edits, mishaps,
                   loginReconcile, userReconcile>>

(* The password Secret is created or changed; the watch maps it to the      *)
(* Login.                                                                   *)
RotateSecret ==
    /\ secret < MaxVersion
    /\ secret' = secret + 1
    /\ loginQueued' = TRUE
    /\ UNCHANGED <<server, loginCR, userCR, userQueued, edits, mishaps,
                   loginReconcile, userReconcile>>

------------------------------------------------------------------------------
(* Administrators, who also let the user own objects and transfer them      *)
(* away, and restarts.                                                      *)

DriftLogin ==
    /\ login.sid # 0
    /\ Mishap
    /\ \/ login' = NoLogin
       \/ login' = [login EXCEPT !.db = "master"]
       \/ \E roles \in SUBSET Role : login' = [login EXCEPT !.roles = roles]
    /\ ltouched' = (lpc # "idle")
    /\ UNCHANGED <<user, secret, loginCR, userCR, loginQueued, userQueued, edits,
                   lpc, lmine, lfresh, lpassword, ltodo, userReconcile>>

DriftUser ==
    /\ user.sid # 0
    /\ Mishap
    /\ \/ user' = NoUser
       \/ user' = [user EXCEPT !.owns = TRUE]
       \/ \E roles \in SUBSET Role : user' = [user EXCEPT !.roles = roles]
    /\ utouched' = (upc # "idle")
    /\ UNCHANGED <<login, secret, loginCR, userCR, loginQueued, userQueued, edits,
                   upc, umine, ufresh, utodo, loginReconcile>>

TransferOwnership ==
    /\ user.owns
    /\ user' = [user EXCEPT !.owns = FALSE]
    /\ UNCHANGED <<login, secret, loginCR, userCR, loginQueued, userQueued, edits, mishaps,
                   loginReconcile, userReconcile>>

(* Both Reconciles are lost; the new process queues every resource.         *)
Restart ==
    /\ Mishap
    /\ LoginReturn(TRUE)
    /\ UserReturn(TRUE)
    /\ UNCHANGED <<server, secret, loginCR, userCR, edits>>

------------------------------------------------------------------------------
LoginStep == ReconcileLogin /\ UNCHANGED userReconcile
UserStep  == ReconcileUser /\ UNCHANGED loginReconcile

Next ==
    \/ LoginStep \/ UserStep
    \/ EditLogin \/ EditUser \/ CreateResource \/ DeleteLogin \/ DeleteUser \/ RotateSecret
    \/ DriftLogin \/ DriftUser \/ TransferOwnership \/ Restart

Spec == Init /\ [][Next]_vars

(* A queued key is reconciled in the end.                                   *)
FairSpec == Spec /\ WF_vars(LoginStep) /\ WF_vars(UserStep)

------------------------------------------------------------------------------
(* Properties.                                                              *)

(* passwordSecretResourceVersion "tracks the ResourceVersion of the         *)
(* password Secret": when it is the Secret's, a login that exists has that  *)
(* password, whatever rotations, failures and re-creations happened.        *)
PasswordTracked ==
    loginCR.version = secret /\ secret # 0 /\ login.sid # 0 => login.password = secret

(* Whenever a controller is about to report Ready, what it manages exists   *)
(* and is as its copy of the spec asks, unless an administrator interfered. *)
AppliedWhenReady ==
    /\ lpc = "apply" /\ ltodo = NoTodo /\ ~ltouched =>
          /\ login.sid # 0
          /\ login.password = lpassword
          /\ login.roles = lmine.spec.roles
          /\ lmine.spec.db \in {"none", login.db}
    /\ upc = "apply" /\ utodo = NoTodo /\ ~utouched =>
          user.sid # 0 /\ user.roles = umine.roles

Undisturbed == mishaps = 0

(* "the SQL Server objects are not orphaned": unless a call failed or       *)
(* somebody else interfered, a finalized DatabaseUser leaves no user and a  *)
(* finalized Login with policy Delete no login, also when the policy was    *)
(* edited during the deletion.                                              *)
CleanedUp ==
    [][Undisturbed =>
          /\ loginCR.state = "deleting" /\ loginCR'.state = "absent"
                /\ loginCR.spec.policy = "Delete" => login.sid = 0
          /\ userCR.state = "deleting" /\ userCR'.state = "absent" => user.sid = 0]_vars

(* Drift, edits and rotations reach the server in the end; so does a        *)
(* DatabaseUser whose login exists, unless it has reported that it did not  *)
(* find its Login.                                                          *)
Converges ==
    <>[]( /\ loginCR.state = "live" /\ secret # 0 =>
                /\ login.sid # 0
                /\ login.password = secret
                /\ login.roles = loginCR.spec.roles
                /\ loginCR.spec.db \in {"none", login.db}
          /\ userCR.state = "live" /\ ~userCR.unresolved /\ login.sid # 0 =>
                user.sid # 0 /\ user.roles = userCR.spec.roles )

(* A deletion is only ever held up by what it is documented to wait for.    *)
DeletionProceeds ==
    <>[]( /\ loginCR.state = "deleting" => LoginHasUsers
          /\ userCR.state = "deleting" => user.owns )

==============================================================================
