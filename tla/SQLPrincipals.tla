---------------------------- MODULE SQLPrincipals -----------------------------
(***************************************************************************)
(* What the Login and the DatabaseUser controllers share: a login and a    *)
(* database user on the server, the statements that change them, the two   *)
(* resources, the password Secret and the two work queue entries.          *)
(*                                                                         *)
(* A security identifier matters only through whether the user's is the    *)
(* login's, so that 1 and 2 suffice and 0 means that there is none.        *)
(***************************************************************************)
EXTENDS Integers

CONSTANTS
    Role,        \* server roles, and roles of the database
    MaxVersion,  \* bound on the versions of the password Secret
    LoginSpecs,  \* the specs a Login may have, a subset of LoginSpec
    MaxEdits,    \* bound on the edits and creations of the two resources
    MaxMishaps   \* bound on changes by administrators, failing calls, missing
                 \* credentials and restarts

(* An optional default database, and what to do on deletion.                *)
LoginSpec == [roles : SUBSET Role, db : {"none", "app"}, policy : {"Retain", "Delete"}]
UserSpec  == [roles : SUBSET Role]

ASSUME LoginSpecsAssumption == LoginSpecs \subseteq LoginSpec

ASSUME PrincipalsBounds ==
    /\ MaxVersion \in Nat \ {0}
    /\ MaxEdits \in Nat
    /\ MaxMishaps \in Nat

VARIABLES
    login,        \* the login in sys.server_principals
    user,         \* the user in sys.database_principals
    secret,       \* resource version of the password Secret, 0 while it is missing
    loginCR,      \* the Login resource; version is passwordSecretResourceVersion
    userCR,       \* the DatabaseUser resource; unresolved if its condition is
                  \* LoginRefNotFound
    loginQueued,  \* whether the Login's key is in the work queue
    userQueued,   \* whether the DatabaseUser's key is
    edits, mishaps

server == <<login, user>>
shared == <<login, user, secret, loginCR, userCR, loginQueued, userQueued, edits, mishaps>>

Sid     == 0..2
Version == 0..MaxVersion

(* "new" is a live resource without the finalizer.                          *)
ObjectState == {"absent", "new", "live", "deleting"}

NoLogin == [sid |-> 0, password |-> 0, roles |-> {}, db |-> "master"]
NoUser  == [sid |-> 0, roles |-> {}, owns |-> FALSE]

NewLogin(spec) == [state |-> "new", spec |-> spec, version |-> 0]
NewUser(spec)  == [state |-> "new", spec |-> spec, unresolved |-> FALSE]

AbsentLogin == [state |-> "absent", version |-> 0,
                spec |-> [roles |-> {}, db |-> "none", policy |-> "Retain"]]
AbsentUser  == [state |-> "absent", spec |-> [roles |-> {}], unresolved |-> FALSE]

SharedTypeOK ==
    /\ login \in [sid : Sid, password : Version, roles : SUBSET Role, db : {"master", "app"}]
    /\ user \in [sid : Sid, roles : SUBSET Role, owns : BOOLEAN]
    /\ secret \in Version
    /\ loginCR \in [state : ObjectState, spec : LoginSpec, version : Version]
    /\ userCR \in [state : ObjectState, spec : UserSpec, unresolved : BOOLEAN]
    /\ loginQueued \in BOOLEAN
    /\ userQueued \in BOOLEAN
    /\ edits \in 0..MaxEdits
    /\ mishaps \in 0..MaxMishaps

SharedInit ==
    /\ login = NoLogin
    /\ user = NoUser
    /\ secret \in {0, 1}
    /\ loginCR \in {AbsentLogin} \cup {NewLogin(spec) : spec \in LoginSpecs}
    /\ userCR \in {AbsentUser} \cup {NewUser(spec) : spec \in UserSpec}
    /\ loginQueued = TRUE
    /\ userQueued = TRUE
    /\ edits = 0
    /\ mishaps = 0

Mishap == mishaps < MaxMishaps /\ mishaps' = mishaps + 1

(* The roles to add and to remove, of which all are added before any is     *)
(* removed; each loop is in map order.                                      *)
Todo   == [add : SUBSET Role, drop : SUBSET Role]
NoTodo == [add |-> {}, drop |-> {}]

(* Mutant: roles that are not desired are left alone.                       *)
RoleDiffAddOnly(current, desired) == [add |-> desired \ current, drop |-> {}]

RoleDiff(current, desired) == [add |-> desired \ current, drop |-> current \ desired]

NextRoles(todo) == IF todo.add # {} THEN todo.add ELSE todo.drop

(* ALTER ROLE ... ADD MEMBER or DROP MEMBER.                                *)
Altered(roles, todo, r) == IF r \in todo.add THEN roles \cup {r} ELSE roles \ {r}
Handled(todo, r)        == [add |-> todo.add \ {r}, drop |-> todo.drop \ {r}]

(* CREATE LOGIN draws an identifier of its own.                             *)
CreateLogin(password) ==
    [NoLogin EXCEPT !.sid = IF user.sid = 1 THEN 2 ELSE 1, !.password = password]

(* Mutant: the user gets an identifier of its own.                          *)
CreateUserWithoutLogin == [NoUser EXCEPT !.sid = 3]

(* CREATE USER ... FOR LOGIN copies the login's identifier.                 *)
CreateUser == [NoUser EXCEPT !.sid = login.sid]

LoginHasUsers == login.sid # 0 /\ user.sid = login.sid

==============================================================================
