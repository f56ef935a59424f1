--------------------------- MODULE PrincipalsProofs ---------------------------
(***************************************************************************)
(* Theorems about Principals, for any roles, specs and bounds.             *)
(***************************************************************************)
EXTENDS Principals, TLAPS

LoginRow   == [sid : Sid, password : Version, roles : SUBSET Role, db : {"master", "app"}]
UserRow    == [sid : Sid, roles : SUBSET Role, owns : BOOLEAN]
LoginObject == [state : ObjectState, spec : LoginSpec, version : Version]
UserObject  == [state : ObjectState, spec : UserSpec, unresolved : BOOLEAN]

LEMMA RecordTypes ==
    /\ 0 \in Version
    /\ NoLogin \in LoginRow
    /\ NoUser \in UserRow
    /\ AbsentLogin \in LoginObject
    /\ AbsentUser \in UserObject
    /\ AbsentUser.spec \in UserSpec
    /\ NoTodo \in Todo
    /\ \A s \in LoginSpec : NewLogin(s) \in LoginObject
    /\ \A s \in UserSpec : NewUser(s) \in UserObject
<1>1. 0 \in Version /\ 0 \in Sid
  BY PrincipalsBounds DEF Version, Sid
<1>2. NoLogin \in LoginRow
  BY <1>1 DEF NoLogin, LoginRow
<1>3. NoUser \in UserRow
  BY <1>1 DEF NoUser, UserRow
<1>4. AbsentLogin \in LoginObject
  BY <1>1 DEF AbsentLogin, LoginObject, LoginSpec, ObjectState
<1>5. AbsentUser \in UserObject /\ AbsentUser.spec \in UserSpec
  BY DEF AbsentUser, UserObject, UserSpec, ObjectState
<1>6. NoTodo \in Todo
  BY DEF NoTodo, Todo
<1>7. \A s \in LoginSpec : NewLogin(s) \in LoginObject
  BY <1>1 DEF NewLogin, LoginObject, ObjectState
<1>8. \A s \in UserSpec : NewUser(s) \in UserObject
  BY DEF NewUser, UserObject, ObjectState
<1> QED BY <1>1, <1>2, <1>3, <1>4, <1>5, <1>6, <1>7, <1>8

LEMMA MishapTypes ==
    ASSUME mishaps \in 0..MaxMishaps, Mishap PROVE mishaps' \in 0..MaxMishaps
BY PrincipalsBounds DEF Mishap

LEMMA LoginReturnTypes ==
    ASSUME NEW requeue \in BOOLEAN, loginQueued \in BOOLEAN, LoginReturn(requeue)
    PROVE  LoginTypeOK' /\ loginQueued' \in BOOLEAN
<1>1. loginQueued' \in BOOLEAN
  BY DEF LoginReturn
<1>2. LoginTypeOK'
  BY RecordTypes DEF LoginTypeOK, LoginReturn, LoginReturned, LoginObject
<1> QED BY <1>1, <1>2

LEMMA UserReturnTypes ==
    ASSUME NEW requeue \in BOOLEAN, userQueued \in BOOLEAN, UserReturn(requeue)
    PROVE  UserTypeOK' /\ userQueued' \in BOOLEAN
BY RecordTypes DEF UserTypeOK, UserReturn

LEMMA TodoTypes ==
    /\ \A c, d \in SUBSET Role : RoleDiff(c, d) \in Todo
    /\ \A t \in Todo, r \in Role : Handled(t, r) \in Todo
    /\ \A c \in SUBSET Role, t \in Todo, r \in Role : Altered(c, t, r) \in SUBSET Role
BY DEF RoleDiff, Handled, Altered, Todo

LEMMA LoginTypeStep ==
    ASSUME TypeOK, LoginStep PROVE TypeOK'
<1> USE DEF server, shared, userReconcile, loginReconcile
<1>0. UserTypeOK'
  BY DEF TypeOK, UserTypeOK, LoginStep
<1>1. CASE FetchLogin
  BY <1>0, <1>1 DEF FetchLogin, TypeOK, SharedTypeOK, LoginTypeOK, ObjectState
<1>2. CASE ReadPassword
  BY <1>0, <1>2, LoginReturnTypes DEF ReadPassword, TypeOK, SharedTypeOK, LoginTypeOK
<1>3. CASE LoginCredentialsMissing
  BY <1>0, <1>3, LoginReturnTypes, MishapTypes
     DEF LoginCredentialsMissing, TypeOK, SharedTypeOK
<1>4. CASE CreateOrRotate
  <2>1. CreateLogin(lpassword) \in LoginRow
    <3> DEFINE n == IF user.sid = 1 THEN 2 ELSE 1
    <3>1. n \in Sid
      BY DEF Sid
    <3>2. CreateLogin(lpassword) = [NoLogin EXCEPT !.sid = n, !.password = lpassword]
      BY DEF CreateLogin
    <3> HIDE DEF n
    <3> QED BY <3>1, <3>2, RecordTypes DEF LoginRow, TypeOK, LoginTypeOK
  <2>2. [login EXCEPT !.password = lpassword] \in LoginRow
    BY DEF LoginRow, TypeOK, SharedTypeOK, LoginTypeOK
  <2>3. login' \in LoginRow
    <3> DEFINE created == CreateLogin(lpassword)
               rotated == [login EXCEPT !.password = lpassword]
    <3>1. login' \in {created, rotated, login} /\ login \in LoginRow
      BY <1>4 DEF CreateOrRotate, LoginRow, TypeOK, SharedTypeOK
    <3> HIDE DEF created, rotated
    <3>2. created \in LoginRow /\ rotated \in LoginRow
      BY <2>1, <2>2 DEF created, rotated
    <3> QED BY <3>1, <3>2
  <2> QED BY <1>0, <1>4, <2>3 DEF CreateOrRotate, LoginRow, TypeOK, SharedTypeOK, LoginTypeOK
<1>5. CASE SetDefaultDatabase
  <2>1. CASE login.sid = 0 /\ lmine.spec.db # "none"
    BY <1>0, <1>5, <2>1, LoginReturnTypes DEF SetDefaultDatabase, TypeOK, SharedTypeOK
  <2>2. CASE ~(login.sid = 0 /\ lmine.spec.db # "none")
    <3>1. lmine.spec.db \in {"none", "app"}
      BY DEF TypeOK, LoginTypeOK, LoginSpec
    <3>2. lmine.spec.db = "app" => [login EXCEPT !.db = lmine.spec.db] \in LoginRow
      BY DEF TypeOK, SharedTypeOK, LoginRow
    <3> QED
      BY <1>0, <1>5, <2>2, <3>1, <3>2
         DEF SetDefaultDatabase, LoginRow, TypeOK, SharedTypeOK, LoginTypeOK
  <2> QED BY <2>1, <2>2
<1>6. CASE GetServerRoles
  BY <1>0, <1>6, TodoTypes DEF GetServerRoles, TypeOK, SharedTypeOK, LoginTypeOK, LoginSpec
<1>7. ASSUME NEW r \in Role, AlterServerRole(r) PROVE TypeOK'
  <2>1. Handled(ltodo, r) \in Todo
    BY TodoTypes DEF TypeOK, LoginTypeOK
  <2>2. Altered(login.roles, ltodo, r) \in SUBSET Role
    BY TodoTypes DEF TypeOK, SharedTypeOK, LoginTypeOK
  <2>3. [login EXCEPT !.roles = Altered(@, ltodo, r)] \in LoginRow
    BY <2>2 DEF LoginRow, TypeOK, SharedTypeOK
  <2> QED
    BY <1>0, <1>7, <2>1, <2>3, LoginReturnTypes
       DEF AlterServerRole, LoginRow, TypeOK, SharedTypeOK, LoginTypeOK
<1>8. CASE SetLoginReady
  BY <1>0, <1>8, LoginReturnTypes DEF SetLoginReady, TypeOK, SharedTypeOK, LoginTypeOK
<1>9. CASE CheckUsers
  BY <1>0, <1>9, LoginReturnTypes DEF CheckUsers, TypeOK, SharedTypeOK, LoginTypeOK
<1>10. CASE DropLogin
  BY <1>0, <1>10, RecordTypes DEF DropLogin, LoginRow, TypeOK, SharedTypeOK, LoginTypeOK
<1>11. CASE LoginCleanupFails
  BY <1>0, <1>11, MishapTypes
     DEF LoginCleanupFails, TypeOK, SharedTypeOK, LoginTypeOK
<1>12. CASE FinalizeLogin
  BY <1>0, <1>12, RecordTypes, LoginReturnTypes
     DEF FinalizeLogin, LoginUpdateAccepted, LoginObject, TypeOK, SharedTypeOK, LoginTypeOK
<1>13. CASE LoginCallFails
  BY <1>0, <1>13, LoginReturnTypes, MishapTypes
     DEF LoginCallFails, TypeOK, SharedTypeOK
<1> QED
  BY <1>1, <1>2, <1>3, <1>4, <1>5, <1>6, <1>7, <1>8, <1>9, <1>10, <1>11, <1>12, <1>13
     DEF LoginStep, ReconcileLogin

LEMMA UserTypeStep ==
    ASSUME TypeOK, UserStep PROVE TypeOK'
<1> USE DEF server, shared, userReconcile, loginReconcile
<1>0. LoginTypeOK'
  BY DEF TypeOK, LoginTypeOK, UserStep
<1>1. CASE FetchUser
  BY <1>0, <1>1 DEF FetchUser, TypeOK, SharedTypeOK, UserTypeOK, ObjectState
<1>2. CASE ResolveLogin
  BY <1>0, <1>2, UserReturnTypes DEF ResolveLogin, UserCondition, TypeOK, SharedTypeOK, UserTypeOK
<1>3. CASE UserCredentialsMissing
  BY <1>0, <1>3, UserReturnTypes, MishapTypes
     DEF UserCredentialsMissing, UserCondition, TypeOK, SharedTypeOK
<1>4. CASE EnsureUser
  BY <1>0, <1>4, UserReturnTypes
     DEF EnsureUser, CreateUser, NoUser, TypeOK, SharedTypeOK, UserTypeOK
<1>5. CASE GetDatabaseRoles
  BY <1>0, <1>5, TodoTypes DEF GetDatabaseRoles, TypeOK, SharedTypeOK, UserTypeOK, UserSpec
<1>6. ASSUME NEW r \in Role, AlterDatabaseRole(r) PROVE TypeOK'
  <2>1. Handled(utodo, r) \in Todo
    BY TodoTypes DEF TypeOK, UserTypeOK
  <2>2. Altered(user.roles, utodo, r) \in SUBSET Role
    BY TodoTypes DEF TypeOK, SharedTypeOK, UserTypeOK
  <2>3. [user EXCEPT !.roles = Altered(@, utodo, r)] \in UserRow
    BY <2>2 DEF UserRow, TypeOK, SharedTypeOK
  <2> QED
    BY <1>0, <1>6, <2>1, <2>3, UserReturnTypes
       DEF AlterDatabaseRole, UserRow, TypeOK, SharedTypeOK, UserTypeOK
<1>7. CASE SetUserReady
  BY <1>0, <1>7, UserReturnTypes DEF SetUserReady, UserCondition, TypeOK, SharedTypeOK
<1>8. CASE CheckOwnership
  BY <1>0, <1>8, UserReturnTypes
     DEF CheckOwnership, UserCondition, TypeOK, SharedTypeOK, UserTypeOK
<1>9. CASE DropUser
  BY <1>0, <1>9, RecordTypes DEF DropUser, UserRow, TypeOK, SharedTypeOK, UserTypeOK
<1>10. CASE UserCleanupFails
  BY <1>0, <1>10, MishapTypes
     DEF UserCleanupFails, TypeOK, SharedTypeOK, UserTypeOK
<1>11. CASE FinalizeUser
  BY <1>0, <1>11, RecordTypes, UserReturnTypes
     DEF FinalizeUser, UserObject, TypeOK, SharedTypeOK, UserTypeOK
<1>12. CASE UserCallFails
  BY <1>0, <1>12, UserReturnTypes, MishapTypes
     DEF UserCallFails, TypeOK, SharedTypeOK
<1> QED
  BY <1>1, <1>2, <1>3, <1>4, <1>5, <1>6, <1>7, <1>8, <1>9, <1>10, <1>11, <1>12
     DEF UserStep, ReconcileUser

LEMMA TypeStep == TypeOK /\ [Next]_vars => TypeOK'
<1> SUFFICES ASSUME TypeOK, [Next]_vars PROVE TypeOK'
  OBVIOUS
<1> USE DEF server, shared, userReconcile, loginReconcile
<1>1. CASE EditLogin
  <2>1. edits' \in 0..MaxEdits
    BY <1>1, PrincipalsBounds DEF EditLogin, Edit, TypeOK, SharedTypeOK
  <2>2. loginCR' \in LoginObject
    BY <1>1, LoginSpecsAssumption DEF EditLogin, LoginObject, TypeOK, SharedTypeOK
  <2> QED
    BY <1>1, <2>1, <2>2
       DEF EditLogin, LoginObject, TypeOK, SharedTypeOK, LoginTypeOK, UserTypeOK
<1>2. CASE EditUser
  <2>1. edits' \in 0..MaxEdits
    BY <1>2, PrincipalsBounds DEF EditUser, Edit, TypeOK, SharedTypeOK
  <2>2. userCR' \in UserObject
    BY <1>2 DEF EditUser, UserObject, TypeOK, SharedTypeOK
  <2> QED
    BY <1>2, <2>1, <2>2
       DEF EditUser, UserObject, TypeOK, SharedTypeOK, LoginTypeOK, UserTypeOK
<1>3. CASE CreateResource
  <2>1. edits' \in 0..MaxEdits
    BY <1>3, PrincipalsBounds DEF CreateResource, Edit, TypeOK, SharedTypeOK
  <2>2. loginCR' \in LoginObject /\ userCR' \in UserObject
    BY <1>3, RecordTypes, LoginSpecsAssumption
       DEF CreateResource, LoginObject, UserObject, TypeOK, SharedTypeOK
  <2>3. loginQueued' \in BOOLEAN /\ userQueued' \in BOOLEAN
    BY <1>3 DEF CreateResource, TypeOK, SharedTypeOK
  <2>4. UNCHANGED <<server, secret, mishaps, loginReconcile, userReconcile>>
    BY <1>3 DEF CreateResource
  <2> QED
    BY <2>1, <2>2, <2>3, <2>4
       DEF LoginObject, UserObject, TypeOK, SharedTypeOK, LoginTypeOK, UserTypeOK
<1>4. CASE DeleteLogin
  BY <1>4, RecordTypes
     DEF DeleteLogin, LoginObject, ObjectState, TypeOK, SharedTypeOK, LoginTypeOK, UserTypeOK
<1>5. CASE DeleteUser
  BY <1>5, RecordTypes
     DEF DeleteUser, UserObject, ObjectState, TypeOK, SharedTypeOK, LoginTypeOK, UserTypeOK
<1>6. CASE RotateSecret
  <2>1. secret' \in Version
    BY <1>6, PrincipalsBounds DEF RotateSecret, Version, TypeOK, SharedTypeOK
  <2> QED BY <1>6, <2>1 DEF RotateSecret, TypeOK, SharedTypeOK, LoginTypeOK, UserTypeOK
<1>7. CASE DriftLogin
  <2>1. login' \in LoginRow
    BY <1>7, RecordTypes DEF DriftLogin, LoginRow, TypeOK, SharedTypeOK
  <2> QED
    BY <1>7, <2>1, MishapTypes
       DEF DriftLogin, LoginRow, TypeOK, SharedTypeOK, LoginTypeOK, UserTypeOK
<1>8. CASE DriftUser
  <2>1. user' \in UserRow
    BY <1>8, RecordTypes DEF DriftUser, UserRow, TypeOK, SharedTypeOK
  <2> QED
    BY <1>8, <2>1, MishapTypes
       DEF DriftUser, UserRow, TypeOK, SharedTypeOK, LoginTypeOK, UserTypeOK
<1>9. CASE TransferOwnership
  <2>1. user' \in UserRow
    <3>1. user' = [user EXCEPT !.owns = FALSE]
      BY <1>9 DEF TransferOwnership
    <3>2. user \in UserRow
      BY DEF UserRow, TypeOK, SharedTypeOK
    <3> QED BY <3>1, <3>2 DEF UserRow
  <2>2. UNCHANGED <<login, secret, loginCR, userCR, loginQueued, userQueued, edits, mishaps,
                    loginReconcile, userReconcile>>
    BY <1>9 DEF TransferOwnership
  <2> QED
    BY <2>1, <2>2 DEF UserRow, TypeOK, SharedTypeOK, LoginTypeOK, UserTypeOK
<1>10. CASE Restart
  BY <1>10, MishapTypes, LoginReturnTypes, UserReturnTypes DEF Restart, TypeOK, SharedTypeOK
<1>11. CASE UNCHANGED vars
  BY <1>11 DEF vars, TypeOK, SharedTypeOK, LoginTypeOK, UserTypeOK
<1> QED
  BY <1>1, <1>2, <1>3, <1>4, <1>5, <1>6, <1>7, <1>8, <1>9, <1>10, <1>11,
     LoginTypeStep, UserTypeStep DEF Next

(* Type correctness of the two controllers and what surrounds them.         *)
THEOREM PrincipalsTypeCorrect == Spec => []TypeOK
<1>1. Init => TypeOK
  <2> SUFFICES ASSUME Init PROVE TypeOK
    OBVIOUS
  <2>1. loginCR \in LoginObject /\ userCR \in UserObject
    BY RecordTypes, LoginSpecsAssumption DEF Init, SharedInit
  <2>2. secret \in Version
    BY PrincipalsBounds DEF Init, SharedInit, Version
  <2>3. edits \in 0..MaxEdits /\ mishaps \in 0..MaxMishaps
    BY PrincipalsBounds DEF Init, SharedInit
  <2>4. SharedTypeOK
    BY <2>1, <2>2, <2>3, RecordTypes
       DEF Init, SharedInit, SharedTypeOK, LoginRow, UserRow, LoginObject, UserObject
  <2>5. LoginTypeOK
    BY RecordTypes DEF Init, LoginInit, LoginTypeOK, LoginObject
  <2>6. UserTypeOK
    BY RecordTypes DEF Init, UserInit, UserTypeOK
  <2> QED BY <2>4, <2>5, <2>6 DEF TypeOK
<1> QED BY <1>1, TypeStep, PTL DEF Spec

------------------------------------------------------------------------------
(* The version a Reconcile read is no older than the recorded one, and once *)
(* the login was created or its password set, or found up to date, the      *)
(* login has that password.                                                 *)
PasswordInv ==
    /\ loginCR.version <= secret
    /\ lpassword <= secret
    /\ loginCR.state \in {"absent", "new"} => lpc = "idle"
    /\ lpc # "idle" => lmine.version = loginCR.version
    /\ lpc \in {"observe", "database", "roles", "apply"} => loginCR.version <= lpassword
    /\ lpc = "observe" /\ lpassword = loginCR.version /\ login.sid # 0 =>
          login.password = lpassword
    /\ lpc \in {"database", "roles", "apply"} /\ login.sid # 0 => login.password = lpassword
    /\ PasswordTracked

LEMMA PasswordTypes ==
    ASSUME TypeOK
    PROVE  /\ secret \in Nat /\ lpassword \in Nat
           /\ loginCR.version \in Nat /\ lmine.version \in Nat
           /\ login.password \in Nat
BY PrincipalsBounds DEF TypeOK, SharedTypeOK, LoginTypeOK, Version

LEMMA LoginPasswordStep ==
    ASSUME TypeOK, PasswordInv, ReconcileLogin PROVE PasswordInv'
<1> USE PasswordTypes DEF server, shared, PasswordInv, PasswordTracked
<1>1. CASE FetchLogin
  <2> DEFINE fetched == [loginCR EXCEPT !.state = "live"]
  <2>1. fetched.version = loginCR.version /\ fetched.state = "live"
    BY DEF TypeOK, SharedTypeOK
  <2>2. /\ loginCR'.version = loginCR.version
        /\ loginCR'.state \notin {"absent", "new"}
        /\ lmine' = loginCR'
    BY <1>1, <2>1 DEF FetchLogin
  <2> HIDE DEF fetched
  <2> QED BY <1>1, <2>2 DEF FetchLogin
<1>2. CASE ReadPassword
  BY <1>2 DEF ReadPassword, LoginReturn, LoginReturned
<1>3. CASE LoginCredentialsMissing \/ LoginCallFails
  BY <1>3 DEF LoginCredentialsMissing, LoginCallFails, LoginReturn, LoginReturned
<1>4. CASE CreateOrRotate
  <2>1. CreateLogin(lpassword).password = lpassword
    BY DEF CreateLogin, NoLogin
  <2>2. [login EXCEPT !.password = lpassword].password = lpassword
    BY DEF TypeOK, SharedTypeOK
  <2>3. login'.password = lpassword
    BY <1>4, <2>1, <2>2 DEF CreateOrRotate
  <2> QED BY <1>4, <2>3 DEF CreateOrRotate
<1>5. CASE SetDefaultDatabase
  <2>1. login'.password = login.password /\ login'.sid = login.sid
    BY <1>5 DEF SetDefaultDatabase, TypeOK, SharedTypeOK
  <2> QED BY <1>5, <2>1 DEF SetDefaultDatabase, LoginReturn, LoginReturned
<1>6. CASE GetServerRoles
  BY <1>6 DEF GetServerRoles
<1>7. ASSUME NEW r \in Role, AlterServerRole(r) PROVE PasswordInv'
  <2>1. login'.password = login.password /\ login'.sid = login.sid
    BY <1>7 DEF AlterServerRole, TypeOK, SharedTypeOK
  <2> QED BY <1>7, <2>1 DEF AlterServerRole, LoginReturn, LoginReturned
<1>8. CASE SetLoginReady
  <2>1. loginCR'.version = lpassword /\ loginCR'.state = loginCR.state
    BY <1>8 DEF SetLoginReady, TypeOK, SharedTypeOK
  <2> QED BY <1>8, <2>1 DEF SetLoginReady, LoginReturn, LoginReturned
<1>9. CASE CheckUsers \/ LoginCleanupFails
  BY <1>9 DEF CheckUsers, LoginCleanupFails, LoginReturn, LoginReturned
<1>10. CASE DropLogin
  BY <1>10 DEF DropLogin, NoLogin
<1>11. CASE FinalizeLogin
  <2>1. loginCR'.version \in {0, loginCR.version}
    BY <1>11 DEF FinalizeLogin, AbsentLogin
  <2> QED BY <1>11, <2>1 DEF FinalizeLogin, LoginReturn, LoginReturned
<1> QED
  BY <1>1, <1>2, <1>3, <1>4, <1>5, <1>6, <1>7, <1>8, <1>9, <1>10, <1>11 DEF ReconcileLogin

(* Each controller leaves the other's half of the state alone.              *)
LEMMA LoginStepFrame ==
    ASSUME LoginStep PROVE UNCHANGED <<user, userCR, userReconcile>>
BY DEF LoginStep, ReconcileLogin, FetchLogin, ReadPassword, LoginCredentialsMissing,
   CreateOrRotate, SetDefaultDatabase, GetServerRoles, AlterServerRole, SetLoginReady,
   CheckUsers, DropLogin, LoginCleanupFails, FinalizeLogin, LoginCallFails, server, shared

LEMMA UserStepFrame ==
    ASSUME UserStep PROVE UNCHANGED <<login, secret, loginCR, loginReconcile>>
BY DEF UserStep, ReconcileUser, FetchUser, ResolveLogin, UserCredentialsMissing,
   EnsureUser, GetDatabaseRoles, AlterDatabaseRole, SetUserReady, CheckOwnership, DropUser,
   UserCleanupFails, FinalizeUser, UserCallFails, server, shared

LEMMA PasswordInit == Init => PasswordInv
<1> SUFFICES ASSUME Init PROVE PasswordInv
  OBVIOUS
<1>1. loginCR.version = 0
  BY DEF Init, SharedInit, AbsentLogin, NewLogin
<1> QED
  BY <1>1 DEF Init, SharedInit, LoginInit, NoLogin, PasswordInv, PasswordTracked

LEMMA PasswordStep == TypeOK /\ PasswordInv /\ [Next]_vars => PasswordInv'
<1> SUFFICES ASSUME TypeOK, PasswordInv, [Next]_vars PROVE PasswordInv'
  OBVIOUS
<1> USE DEF server, shared, loginReconcile, userReconcile
<1>1. CASE LoginStep
  BY <1>1, LoginPasswordStep DEF LoginStep
<1>2. CASE UserStep
  BY <1>2, UserStepFrame DEF PasswordInv, PasswordTracked
<1>3. CASE EditLogin
  <2>1. loginCR'.version = loginCR.version /\ loginCR'.state = loginCR.state
    BY <1>3 DEF EditLogin, TypeOK, SharedTypeOK
  <2> QED BY <1>3, <2>1 DEF EditLogin, PasswordInv, PasswordTracked
<1>4. CASE EditUser \/ DriftUser \/ TransferOwnership
  BY <1>4 DEF EditUser, DriftUser, TransferOwnership, PasswordInv, PasswordTracked
<1>5. CASE CreateResource
  <2>1. loginCR' = loginCR \/ (loginCR.state = "absent" /\ loginCR'.version = 0)
    BY <1>5 DEF CreateResource, NewLogin
  <2> QED BY <1>5, <2>1, PasswordTypes DEF CreateResource, PasswordInv, PasswordTracked
<1>6. CASE DeleteLogin
  <2>1. \/ loginCR.state = "new" /\ loginCR'.version = 0
        \/ loginCR'.state = "deleting" /\ loginCR'.version = loginCR.version
    BY <1>6 DEF DeleteLogin, AbsentLogin, TypeOK, SharedTypeOK
  <2> QED BY <1>6, <2>1, PasswordTypes DEF DeleteLogin, PasswordInv, PasswordTracked
<1>7. CASE DeleteUser
  BY <1>7 DEF DeleteUser, PasswordInv, PasswordTracked
<1>8. CASE RotateSecret
  BY <1>8, PasswordTypes DEF RotateSecret, PasswordInv, PasswordTracked
<1>9. CASE DriftLogin
  <2>1. login'.sid = 0 \/ (login'.sid = login.sid /\ login'.password = login.password)
    BY <1>9 DEF DriftLogin, NoLogin, TypeOK, SharedTypeOK
  <2> QED BY <1>9, <2>1 DEF DriftLogin, PasswordInv, PasswordTracked
<1>10. CASE Restart
  BY <1>10, PasswordTypes DEF Restart, LoginReturn, LoginReturned, PasswordInv, PasswordTracked
<1>11. CASE UNCHANGED vars
  BY <1>11 DEF vars, PasswordInv, PasswordTracked
<1> QED
  BY <1>1, <1>2, <1>3, <1>4, <1>5, <1>6, <1>7, <1>8, <1>9, <1>10, <1>11 DEF Next

(* Whatever rotations of the Secret, failing calls, restarts, deletions and *)
(* re-creations happen: while passwordSecretResourceVersion is the          *)
(* Secret's, an existing login has the Secret's password, so that skipping  *)
(* the ALTER LOGIN then is right.                                           *)
THEOREM PasswordTrackedCorrect == Spec => []PasswordTracked
<1>1. PasswordInv => PasswordTracked
  BY DEF PasswordInv
<1> QED BY <1>1, PasswordInit, PasswordStep, PrincipalsTypeCorrect, PTL DEF Spec

------------------------------------------------------------------------------
(* What a Reconcile relies on when nobody touches the server meanwhile, and *)
(* what the finalizer waits for: the login exists and has the database and  *)
(* the roles handled so far; the copy is the resource while nobody edits    *)
(* it; and before the finalizer goes the login is gone, or meant to stay.   *)
LoginAppliedInv ==
    /\ lpc \in {"database", "roles", "apply"} /\ ~ltouched => login.sid # 0
    /\ lpc \in {"roles", "apply"} /\ ~ltouched => lmine.spec.db \in {"none", login.db}
    /\ lpc = "apply" /\ ~ltouched => ltodo = RoleDiff(login.roles, lmine.spec.roles)
    /\ lpc # "idle" /\ lfresh => lmine.spec = loginCR.spec
    /\ mishaps = 0 /\ lpc = "finalize" => lmine.spec.policy = "Retain" \/ login.sid = 0

(* The same for the user, which without mishaps owns nothing.               *)
UserAppliedInv ==
    /\ upc \in {"roles", "apply"} /\ ~utouched => user.sid # 0
    /\ upc = "apply" /\ ~utouched => utodo = RoleDiff(user.roles, umine.roles)
    /\ mishaps = 0 => ~user.owns
    /\ mishaps = 0 /\ upc = "finalize" => user.sid = 0

(* Adding or removing the next role leaves exactly the others to do.        *)
LEMMA RoleDiffStep ==
    ASSUME NEW current \in SUBSET Role, NEW desired \in SUBSET Role, NEW r,
           r \in NextRoles(RoleDiff(current, desired))
    PROVE  Handled(RoleDiff(current, desired), r)
              = RoleDiff(Altered(current, RoleDiff(current, desired), r), desired)
<1> DEFINE add == desired \ current
           drop == current \ desired
<1>1. RoleDiff(current, desired) = [add |-> add, drop |-> drop]
  BY DEF RoleDiff
<1>2. r \in add \cup drop
  BY <1>1 DEF NextRoles
<1>3. CASE r \in add
  <2>1. Altered(current, RoleDiff(current, desired), r) = current \cup {r}
    BY <1>1, <1>3 DEF Altered
  <2>2. desired \ (current \cup {r}) = add \ {r} /\ (current \cup {r}) \ desired = drop \ {r}
    BY <1>3
  <2> QED BY <1>1, <2>1, <2>2 DEF RoleDiff, Handled
<1>4. CASE r \notin add
  <2>1. Altered(current, RoleDiff(current, desired), r) = current \ {r}
    BY <1>1, <1>4 DEF Altered
  <2>2. desired \ (current \ {r}) = add \ {r} /\ (current \ {r}) \ desired = drop \ {r}
    BY <1>2, <1>4
  <2> QED BY <1>1, <2>1, <2>2 DEF RoleDiff, Handled
<1> QED BY <1>3, <1>4

LEMMA NothingToDo ==
    ASSUME NEW current \in SUBSET Role, NEW desired \in SUBSET Role,
           RoleDiff(current, desired) = NoTodo
    PROVE  current = desired
<1>1. desired \ current = {} /\ current \ desired = {}
  BY DEF RoleDiff, NoTodo
<1> QED BY <1>1

(* Mishaps are counted and never forgotten.                                 *)
LEMMA MishapsGrow ==
    ASSUME TypeOK, [Next]_vars PROVE mishaps' = 0 => mishaps = 0
<1>1. mishaps \in Nat
  BY PrincipalsBounds DEF TypeOK, SharedTypeOK
<1>2. mishaps' \in {mishaps, mishaps + 1}
  BY DEF Next, vars, shared, server, Mishap, LoginStep, ReconcileLogin, FetchLogin,
     ReadPassword, LoginCredentialsMissing, CreateOrRotate, SetDefaultDatabase,
     GetServerRoles, AlterServerRole, SetLoginReady, CheckUsers, DropLogin,
     LoginCleanupFails, FinalizeLogin, LoginCallFails, UserStep, ReconcileUser, FetchUser,
     ResolveLogin, UserCredentialsMissing, EnsureUser, GetDatabaseRoles, AlterDatabaseRole,
     SetUserReady, CheckOwnership, DropUser, UserCleanupFails, FinalizeUser, UserCallFails,
     EditLogin, EditUser, CreateResource, DeleteLogin, DeleteUser, RotateSecret, DriftLogin,
     DriftUser, TransferOwnership, Restart
<1> QED BY <1>1, <1>2

LEMMA LoginAppliedStep ==
    ASSUME TypeOK, PasswordInv, LoginAppliedInv, [Next]_vars PROVE LoginAppliedInv'
<1> USE DEF server, shared, LoginAppliedInv
<1>m. mishaps' = 0 => mishaps = 0
  BY MishapsGrow
<1>t. /\ lmine.spec.roles \in SUBSET Role /\ login.roles \in SUBSET Role
      /\ lmine.spec.db \in {"none", "app"} /\ lmine.spec.policy \in {"Retain", "Delete"}
      /\ loginCR.spec.policy \in {"Retain", "Delete"}
  BY DEF TypeOK, SharedTypeOK, LoginTypeOK, LoginSpec
<1>1. CASE LoginStep
  <2>1. CASE FetchLogin
    <3>1. loginCR'.spec = loginCR.spec /\ lmine' = loginCR'
      BY <2>1 DEF FetchLogin, TypeOK, SharedTypeOK
    <3> QED BY <2>1, <3>1, <1>t DEF FetchLogin
  <2>2. CASE ReadPassword \/ CheckUsers
    BY <1>m, <2>2 DEF ReadPassword, CheckUsers, LoginReturn, LoginReturned
  <2>3. CASE LoginCredentialsMissing \/ LoginCallFails
    BY <2>3 DEF LoginCredentialsMissing, LoginCallFails, LoginReturn, LoginReturned
  <2>4. CASE CreateOrRotate
    <3>1. CreateLogin(lpassword).sid # 0
      BY DEF CreateLogin, NoLogin
    <3>2. [login EXCEPT !.password = lpassword].sid = login.sid
      BY DEF TypeOK, SharedTypeOK
    <3>3. login'.sid # 0
      BY <2>4, <3>1, <3>2 DEF CreateOrRotate
    <3> QED BY <2>4, <3>3 DEF CreateOrRotate
  <2>5. CASE SetDefaultDatabase
    <3>1. CASE LoginReturned
      BY <3>1, <2>5 DEF LoginReturned, SetDefaultDatabase
    <3>2. CASE lpc' = "roles"
      <4>1. login'.sid = login.sid /\ lmine.spec.db \in {"none", login'.db}
        BY <2>5, <3>2, <1>t DEF SetDefaultDatabase, LoginReturn, LoginReturned, TypeOK, SharedTypeOK
      <4> QED BY <2>5, <3>2, <4>1 DEF SetDefaultDatabase, LoginReturn, LoginReturned
    <3> QED BY <2>5, <3>1, <3>2 DEF SetDefaultDatabase, LoginReturn
  <2>6. CASE GetServerRoles
    BY <2>6 DEF GetServerRoles
  <2>7. ASSUME NEW r \in Role, AlterServerRole(r) PROVE LoginAppliedInv'
    <3>1. CASE login.sid = 0
      BY <2>7, <3>1 DEF AlterServerRole, LoginReturn, LoginReturned
    <3>2. CASE login.sid # 0
      <4>1. /\ login'.sid = login.sid /\ login'.db = login.db
            /\ login'.roles = Altered(login.roles, ltodo, r)
        BY <2>7, <3>2 DEF AlterServerRole, TypeOK, SharedTypeOK
      <4>2. ~ltouched => ltodo' = RoleDiff(login'.roles, lmine.spec.roles)
        BY <2>7, <3>2, <4>1, <1>t, RoleDiffStep DEF AlterServerRole
      <4> QED BY <2>7, <3>2, <4>1, <4>2 DEF AlterServerRole
    <3> QED BY <3>1, <3>2
  <2>8. CASE SetLoginReady
    BY <2>8 DEF SetLoginReady, LoginReturn, LoginReturned
  <2>9. CASE DropLogin
    BY <2>9 DEF DropLogin, NoLogin
  <2>10. CASE LoginCleanupFails
    <3>1. mishaps' # 0
      BY <2>10, PrincipalsBounds DEF LoginCleanupFails, Mishap, TypeOK, SharedTypeOK
    <3> QED BY <2>10, <3>1 DEF LoginCleanupFails
  <2>11. CASE FinalizeLogin
    BY <2>11 DEF FinalizeLogin, LoginReturn, LoginReturned
  <2> QED
    BY <1>1, <2>1, <2>2, <2>3, <2>4, <2>5, <2>6, <2>7, <2>8, <2>9, <2>10, <2>11
       DEF LoginStep, ReconcileLogin
<1>2. CASE UserStep
  BY <1>2, <1>m, UserStepFrame DEF loginReconcile
<1>3. CASE EditLogin
  BY <1>3 DEF EditLogin
<1>4. CASE EditUser \/ DeleteUser \/ DriftUser \/ TransferOwnership \/ RotateSecret
  BY <1>4, <1>m DEF EditUser, DeleteUser, DriftUser, TransferOwnership, RotateSecret,
     loginReconcile
<1>5. CASE CreateResource
  <2>1. loginCR' = loginCR \/ lpc = "idle"
    BY <1>5 DEF CreateResource, PasswordInv
  <2> QED BY <1>5, <2>1 DEF CreateResource, loginReconcile
<1>6. CASE DeleteLogin
  <2>1. lpc = "idle" \/ loginCR'.spec = loginCR.spec
    BY <1>6 DEF DeleteLogin, PasswordInv, TypeOK, SharedTypeOK
  <2> QED BY <1>6, <2>1 DEF DeleteLogin, loginReconcile
<1>7. CASE DriftLogin
  <2>1. mishaps' # 0
    BY <1>7, PrincipalsBounds DEF DriftLogin, Mishap, TypeOK, SharedTypeOK
  <2> QED BY <1>7, <2>1 DEF DriftLogin
<1>8. CASE Restart
  BY <1>8 DEF Restart, LoginReturn, LoginReturned
<1>9. CASE UNCHANGED vars
  BY <1>9 DEF vars, loginReconcile
<1> QED BY <1>1, <1>2, <1>3, <1>4, <1>5, <1>6, <1>7, <1>8, <1>9 DEF Next

LEMMA UserAppliedStep ==
    ASSUME TypeOK, UserAppliedInv, [Next]_vars PROVE UserAppliedInv'
<1> USE DEF server, shared, UserAppliedInv
<1>m. mishaps' = 0 => mishaps = 0
  BY MishapsGrow
<1>t. umine.roles \in SUBSET Role /\ user.roles \in SUBSET Role
  BY DEF TypeOK, SharedTypeOK, UserTypeOK, UserSpec
<1>1. CASE UserStep
  <2>1. CASE FetchUser \/ GetDatabaseRoles
    BY <2>1 DEF FetchUser, GetDatabaseRoles
  <2>2. CASE ResolveLogin \/ SetUserReady \/ CheckOwnership
    BY <2>2 DEF ResolveLogin, SetUserReady, CheckOwnership, UserReturn
  <2>3. CASE UserCredentialsMissing \/ UserCallFails
    BY <2>3, <1>m DEF UserCredentialsMissing, UserCallFails, UserReturn
  <2>4. CASE EnsureUser
    <3>1. CASE user.sid = 0 /\ login.sid = 0
      BY <2>4, <3>1 DEF EnsureUser, UserReturn
    <3>2. CASE ~(user.sid = 0 /\ login.sid = 0)
      <4>1. CreateUser.sid = login.sid /\ CreateUser.owns = FALSE
        BY DEF CreateUser, NoUser
      <4>2. user'.sid # 0 /\ (user'.owns = user.owns \/ ~user'.owns)
        BY <2>4, <3>2, <4>1 DEF EnsureUser
      <4> QED BY <2>4, <3>2, <4>2 DEF EnsureUser
    <3> QED BY <3>1, <3>2
  <2>5. ASSUME NEW r \in Role, AlterDatabaseRole(r) PROVE UserAppliedInv'
    <3>1. CASE user.sid = 0
      BY <2>5, <3>1 DEF AlterDatabaseRole, UserReturn
    <3>2. CASE user.sid # 0
      <4>1. /\ user'.sid = user.sid /\ user'.owns = user.owns
            /\ user'.roles = Altered(user.roles, utodo, r)
        BY <2>5, <3>2 DEF AlterDatabaseRole, TypeOK, SharedTypeOK
      <4>2. ~utouched => utodo' = RoleDiff(user'.roles, umine.roles)
        BY <2>5, <3>2, <4>1, <1>t, RoleDiffStep DEF AlterDatabaseRole
      <4> QED BY <2>5, <3>2, <4>1, <4>2 DEF AlterDatabaseRole
    <3> QED BY <3>1, <3>2
  <2>6. CASE DropUser
    BY <2>6 DEF DropUser, NoUser
  <2>7. CASE UserCleanupFails
    <3>1. mishaps' # 0
      BY <2>7, PrincipalsBounds DEF UserCleanupFails, Mishap, TypeOK, SharedTypeOK
    <3> QED BY <2>7, <3>1 DEF UserCleanupFails
  <2>8. CASE FinalizeUser
    BY <2>8 DEF FinalizeUser, UserReturn
  <2> QED
    BY <1>1, <2>1, <2>2, <2>3, <2>4, <2>5, <2>6, <2>7, <2>8 DEF UserStep, ReconcileUser
<1>2. CASE LoginStep
  BY <1>2, <1>m, LoginStepFrame DEF userReconcile
<1>3. CASE EditUser \/ EditLogin \/ CreateResource
  BY <1>3 DEF EditUser, EditLogin, CreateResource, userReconcile
<1>4. CASE DeleteLogin \/ DeleteUser \/ DriftLogin \/ RotateSecret
  BY <1>4, <1>m DEF DeleteLogin, DeleteUser, DriftLogin, RotateSecret, userReconcile
<1>5. CASE TransferOwnership
  <2>1. user'.sid = user.sid /\ user'.roles = user.roles /\ ~user'.owns
    BY <1>5 DEF TransferOwnership, TypeOK, SharedTypeOK
  <2> QED BY <1>5, <2>1 DEF TransferOwnership, userReconcile
<1>6. CASE DriftUser
  <2>1. mishaps' # 0
    BY <1>6, PrincipalsBounds DEF DriftUser, Mishap, TypeOK, SharedTypeOK
  <2> QED BY <1>6, <2>1 DEF DriftUser
<1>7. CASE Restart
  BY <1>7, <1>m DEF Restart, UserReturn
<1>8. CASE UNCHANGED vars
  BY <1>8 DEF vars, userReconcile
<1> QED BY <1>1, <1>2, <1>3, <1>4, <1>5, <1>6, <1>7, <1>8 DEF Next

AppliedInv == TypeOK /\ PasswordInv /\ LoginAppliedInv /\ UserAppliedInv

LEMMA AppliedInvariant == Spec => []AppliedInv
<1>1. Init => LoginAppliedInv
  BY DEF Init, SharedInit, LoginInit, LoginAppliedInv
<1>2. Init => UserAppliedInv
  BY DEF Init, SharedInit, UserInit, NoUser, UserAppliedInv
<1>3. PasswordInv /\ LoginAppliedInv /\ UserAppliedInv /\ TypeOK /\ [Next]_vars
         => (PasswordInv /\ LoginAppliedInv /\ UserAppliedInv)'
  BY PasswordStep, LoginAppliedStep, UserAppliedStep
<1> QED BY <1>1, <1>2, <1>3, PasswordInit, PrincipalsTypeCorrect, PTL DEF Spec, AppliedInv

(* Whenever a controller is about to report Ready, the login or the user    *)
(* exists with the password, the default database and exactly the roles its *)
(* copy of the spec asks for, unless an administrator changed it meanwhile, *)
(* for any sets of roles and any order in which they are handled.           *)
THEOREM PrincipalsAppliedCorrect == Spec => []AppliedWhenReady
<1>1. AppliedInv => AppliedWhenReady
  <2> SUFFICES ASSUME AppliedInv PROVE AppliedWhenReady
    OBVIOUS
  <2> USE DEF AppliedInv
  <2>1. ASSUME lpc = "apply", ltodo = NoTodo, ~ltouched
        PROVE  /\ login.sid # 0
               /\ login.password = lpassword
               /\ login.roles = lmine.spec.roles
               /\ lmine.spec.db \in {"none", login.db}
    <3>1. login.roles = lmine.spec.roles
      BY <2>1, NothingToDo DEF LoginAppliedInv, TypeOK, SharedTypeOK, LoginTypeOK, LoginSpec
    <3> QED BY <2>1, <3>1 DEF LoginAppliedInv, PasswordInv
  <2>2. ASSUME upc = "apply", utodo = NoTodo, ~utouched
        PROVE  user.sid # 0 /\ user.roles = umine.roles
    <3>1. user.roles = umine.roles
      BY <2>2, NothingToDo DEF UserAppliedInv, TypeOK, SharedTypeOK, UserTypeOK, UserSpec
    <3> QED BY <2>2, <3>1 DEF UserAppliedInv
  <2> QED BY <2>1, <2>2 DEF AppliedWhenReady
<1> QED BY <1>1, AppliedInvariant, PTL

(* Unless a call failed or somebody else interfered, a DatabaseUser that is *)
(* gone after its deletion has left no user, and a Login with policy Delete *)
(* no login, whatever edits race with the cleanup: the Update that removes  *)
(* the finalizer is refused if the policy may have changed since it was     *)
(* read.                                                                    *)
THEOREM PrincipalsCleanupCorrect == Spec => CleanedUp
<1>1. ASSUME AppliedInv, [Next]_vars, Undisturbed,
             loginCR.state = "deleting", loginCR'.state = "absent",
             loginCR.spec.policy = "Delete"
      PROVE  login.sid = 0
  <2>1. CASE FinalizeLogin
    BY <1>1, <2>1 DEF AppliedInv, LoginAppliedInv, FinalizeLogin, LoginUpdateAccepted,
       Undisturbed
  <2>2. CASE SetLoginReady
    BY <1>1, <2>2 DEF SetLoginReady, AppliedInv, TypeOK, SharedTypeOK
  <2>3. ASSUME ~FinalizeLogin, ~SetLoginReady PROVE FALSE
    <3>1. loginCR' = loginCR \/ EditLogin
      BY <1>1, <2>3 DEF Next, vars, shared, server, LoginStep, ReconcileLogin, FetchLogin,
         ReadPassword, LoginCredentialsMissing, CreateOrRotate, SetDefaultDatabase,
         GetServerRoles, AlterServerRole, CheckUsers, DropLogin, LoginCleanupFails,
         LoginCallFails, UserStep, ReconcileUser, FetchUser, ResolveLogin,
         UserCredentialsMissing, EnsureUser, GetDatabaseRoles, AlterDatabaseRole,
         SetUserReady, CheckOwnership, DropUser, UserCleanupFails, FinalizeUser,
         UserCallFails, EditUser, CreateResource, DeleteLogin, DeleteUser, RotateSecret,
         DriftLogin, DriftUser, TransferOwnership, Restart
    <3>2. EditLogin => loginCR'.state = loginCR.state
      BY <1>1 DEF EditLogin, AppliedInv, TypeOK, SharedTypeOK
    <3> QED BY <1>1, <3>1, <3>2
  <2> QED BY <2>1, <2>2, <2>3
<1>2. ASSUME AppliedInv, [Next]_vars, Undisturbed,
             userCR.state = "deleting", userCR'.state = "absent"
      PROVE  user.sid = 0
  <2>1. CASE FinalizeUser
    BY <1>2, <2>1 DEF AppliedInv, UserAppliedInv, FinalizeUser, Undisturbed
  <2>2. ASSUME ~FinalizeUser PROVE FALSE
    <3> DEFINE Kept == userCR'.state = userCR.state
    <3>1. userCR' = userCR \/ EditUser \/ ResolveLogin \/ UserCredentialsMissing
             \/ SetUserReady \/ CheckOwnership
      BY <1>2, <2>2 DEF Next, vars, shared, server, LoginStep, ReconcileLogin, FetchLogin,
         ReadPassword, LoginCredentialsMissing, CreateOrRotate, SetDefaultDatabase,
         GetServerRoles, AlterServerRole, SetLoginReady, CheckUsers, DropLogin,
         LoginCleanupFails, FinalizeLogin, LoginCallFails, UserStep, ReconcileUser,
         FetchUser, EnsureUser, GetDatabaseRoles, AlterDatabaseRole, DropUser,
         UserCleanupFails, UserCallFails, EditLogin, CreateResource, DeleteLogin,
         DeleteUser, RotateSecret, DriftLogin, DriftUser, TransferOwnership, Restart
    <3>2. EditUser => Kept
      BY <1>2 DEF EditUser, AppliedInv, TypeOK, SharedTypeOK
    <3>3. ResolveLogin \/ UserCredentialsMissing \/ SetUserReady \/ CheckOwnership => Kept
      BY <1>2 DEF ResolveLogin, UserCredentialsMissing, SetUserReady, CheckOwnership,
         UserCondition, AppliedInv, TypeOK, SharedTypeOK
    <3> QED BY <1>2, <3>1, <3>2, <3>3
  <2> QED BY <2>1, <2>2
<1>3. AppliedInv /\ [Next]_vars =>
         [Undisturbed =>
             /\ loginCR.state = "deleting" /\ loginCR'.state = "absent"
                   /\ loginCR.spec.policy = "Delete" => login.sid = 0
             /\ userCR.state = "deleting" /\ userCR'.state = "absent" => user.sid = 0]_vars
  BY <1>1, <1>2
<1> QED BY <1>3, AppliedInvariant, PTL DEF Spec, CleanedUp

==============================================================================
