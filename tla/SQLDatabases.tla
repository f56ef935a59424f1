----------------------------- MODULE SQLDatabases -----------------------------
(***************************************************************************)
(* What the Database and the Schema controllers share: a database on the   *)
(* server with its settings and one schema, the two resources, what they   *)
(* need to connect, and the two work queue entries.                        *)
(***************************************************************************)
EXTENDS Integers

CONSTANTS
    DatabaseSpecs,  \* the specs a Database may have, a subset of DatabaseSpec
    SchemaSpecs,    \* the specs a Schema may have, a subset of SchemaSpec
    MaxEdits,       \* bound on the edits and creations of the two resources
    MaxMishaps      \* bound on changes by administrators and applications, failing
                    \* calls, lost dependencies and restarts

(* What Reconcile compares and alters; the options of a spec are one        *)
(* setting.  0 is the value a new database has.                             *)
Setting == {"owner", "recoveryModel", "compatibilityLevel", "option"}
Value   == 0..1

(* A spec names some settings, perhaps a collation (0 if not), and the      *)
(* server by sqlServerRef or by host and credentialsSecret.                 *)
Policy       == {"Retain", "Delete"}
DatabaseSpec == [settings : UNION {[S -> Value] : S \in SUBSET Setting},
                 collation : 0..2, byRef : BOOLEAN, policy : Policy]
SchemaSpec   == [owner : 0..2, policy : Policy]

ASSUME DatabaseSpecsAssumption ==
    DatabaseSpecs \subseteq DatabaseSpec /\ SchemaSpecs \subseteq SchemaSpec

ASSUME DatabasesBounds == MaxEdits \in Nat /\ MaxMishaps \in Nat

VARIABLES
    db,           \* the database in sys.databases
    schema,       \* the schema in it; objects if it is not empty
    sqlServer,    \* whether the SQLServer resource exists
    credentials,  \* whether the credentials Secret exists
    databaseCR,   \* the Database resource; reason is that of its Ready condition
    schemaCR,     \* the Schema resource
    databaseQueued, schemaQueued,  \* whether their keys are in the work queues
    edits, mishaps

server       == <<db, schema>>
dependencies == <<sqlServer, credentials>>
shared == <<db, schema, sqlServer, credentials, databaseCR, schemaCR,
            databaseQueued, schemaQueued, edits, mishaps>>

(* "new" is a live resource without the finalizer.                          *)
ObjectState == {"absent", "new", "live", "deleting"}
Reason      == {"none", "Ready", "ConnectionFailed", "SecretNotFound",
                "CollationChangeNotSupported"}

NoDatabase == [exists |-> FALSE, collation |-> 1, settings |-> [s \in Setting |-> 0]]
NoSchema   == [exists |-> FALSE, owner |-> 1, objects |-> FALSE]

(* Without COLLATE a database gets the server's collation, 1.               *)
CreateDatabase(spec) ==
    [NoDatabase EXCEPT !.exists = TRUE,
                       !.collation = IF spec.collation = 0 THEN 1 ELSE spec.collation]

(* Mutant: an owner that is not given is taken literally.                   *)
CreateSchemaAsGiven(spec) == [NoSchema EXCEPT !.exists = TRUE, !.owner = spec.owner]

(* Without AUTHORIZATION a schema belongs to dbo, 1.                        *)
CreateSchema(spec) ==
    [NoSchema EXCEPT !.exists = TRUE, !.owner = IF spec.owner = 0 THEN 1 ELSE spec.owner]

NewDatabase(spec)  == [state |-> "new", spec |-> spec, reason |-> "none"]
NewSchema(spec)    == [state |-> "new", spec |-> spec]
NoDatabaseSpec     == [settings |-> [s \in {} |-> 0], collation |-> 0, byRef |-> FALSE,
                       policy |-> "Retain"]
NoSchemaSpec       == [owner |-> 0, policy |-> "Retain"]
AbsentDatabase     == [state |-> "absent", spec |-> NoDatabaseSpec, reason |-> "none"]
AbsentSchema       == [state |-> "absent", spec |-> NoSchemaSpec]

SharedTypeOK ==
    /\ db \in [exists : BOOLEAN, collation : 1..2, settings : [Setting -> Value]]
    /\ schema \in [exists : BOOLEAN, owner : 1..2, objects : BOOLEAN]
    /\ sqlServer \in BOOLEAN
    /\ credentials \in BOOLEAN
    /\ databaseCR \in [state : ObjectState, spec : DatabaseSpec, reason : Reason]
    /\ schemaCR \in [state : ObjectState, spec : SchemaSpec]
    /\ databaseQueued \in BOOLEAN
    /\ schemaQueued \in BOOLEAN
    /\ edits \in 0..MaxEdits
    /\ mishaps \in 0..MaxMishaps

(* The database may be older than its resource.                             *)
SharedInit ==
    /\ db \in {NoDatabase, [NoDatabase EXCEPT !.exists = TRUE]}
    /\ schema = NoSchema
    /\ sqlServer = FALSE
    /\ credentials \in BOOLEAN
    /\ databaseCR \in {AbsentDatabase} \cup {NewDatabase(spec) : spec \in DatabaseSpecs}
    /\ schemaCR \in {AbsentSchema} \cup {NewSchema(spec) : spec \in SchemaSpecs}
    /\ databaseQueued = TRUE
    /\ schemaQueued = TRUE
    /\ edits = 0
    /\ mishaps = 0

Mishap == mishaps < MaxMishaps /\ mishaps' = mishaps + 1

(* resolveServerReference and resolveServerCredentials succeed.             *)
Resolved(spec)  == spec.byRef => sqlServer
Reachable(spec) == Resolved(spec) /\ credentials

(* What the controller reads of a setting.  Options are looked up with      *)
(* DATABASEPROPERTYEX under the name ALTER DATABASE SET gives them, which   *)
(* is not that of the property: the answer is NULL, taken for OFF.          *)
Observed(s) == IF s = "option" THEN 0 ELSE db.settings[s]

(* ALTER DATABASE.                                                          *)
WithSetting(s, v) == [db EXCEPT !.settings[s] = v]

(* Statements about the schema run after USE, which fails if there is no    *)
(* database and leaves the connection in it otherwise.                      *)
UseDatabase      == db.exists
SchemaHasObjects == schema.objects
WithSchemaOwner(owner) == [schema EXCEPT !.owner = owner]

(* DROP SCHEMA fails if there are objects.                                  *)
SchemaDropped == IF schema.objects THEN schema ELSE NoSchema

==============================================================================
