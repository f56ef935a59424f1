---------------------------- MODULE DatabasesProofs ---------------------------
(***************************************************************************)
(* Theorems about Databases, for any specs of the two resources and any    *)
(* bounds.                                                                 *)
(***************************************************************************)
EXTENDS Databases, TLAPS

DatabaseRow    == [exists : BOOLEAN, collation : 1..2, settings : [Setting -> Value]]
SchemaRow      == [exists : BOOLEAN, owner : 1..2, objects : BOOLEAN]
DatabaseObject == [state : ObjectState, spec : DatabaseSpec, reason : Reason]
SchemaObject   == [state : ObjectState, spec : SchemaSpec]

(* What a spec of a Database is made of.                                    *)
LEMMA DatabaseSpecType ==
    ASSUME NEW spec \in DatabaseSpec
    PROVE  /\ DOMAIN spec.settings \in SUBSET Setting
           /\ \A s \in DOMAIN spec.settings : spec.settings[s] \in Value
           /\ spec.collation \in 0..2
           /\ spec.byRef \in BOOLEAN
           /\ spec.policy \in Policy
<1>1. spec.settings \in UNION {[S -> Value] : S \in SUBSET Setting}
  BY DEF DatabaseSpec
<1>2. PICK S \in SUBSET Setting : spec.settings \in [S -> Value]
  BY <1>1
<1> QED BY <1>2 DEF DatabaseSpec

LEMMA RecordTypes ==
    /\ NoDatabase \in DatabaseRow
    /\ NoSchema \in SchemaRow
    /\ NoDatabaseSpec \in DatabaseSpec
    /\ NoSchemaSpec \in SchemaSpec
    /\ AbsentDatabase \in DatabaseObject
    /\ AbsentSchema \in SchemaObject
    /\ \A s \in DatabaseSpec : NewDatabase(s) \in DatabaseObject
    /\ \A s \in SchemaSpec : NewSchema(s) \in SchemaObject
<1>1. NoDatabase \in DatabaseRow
  BY DEF NoDatabase, DatabaseRow, Setting, Value
<1>2. NoSchema \in SchemaRow
  BY DEF NoSchema, SchemaRow
<1>3. NoDatabaseSpec \in DatabaseSpec
  <2>1. [s \in {} |-> 0] \in [{} -> Value]
    BY DEF Value
  <2>2. [s \in {} |-> 0] \in UNION {[S -> Value] : S \in SUBSET Setting}
    BY <2>1
  <2> QED BY <2>2 DEF NoDatabaseSpec, DatabaseSpec, Policy
<1>4. NoSchemaSpec \in SchemaSpec
  BY DEF NoSchemaSpec, SchemaSpec, Policy
<1>5. AbsentDatabase \in DatabaseObject
  BY <1>3 DEF AbsentDatabase, DatabaseObject, ObjectState, Reason
<1>6. AbsentSchema \in SchemaObject
  BY <1>4 DEF AbsentSchema, SchemaObject, ObjectState
<1>7. \A s \in DatabaseSpec : NewDatabase(s) \in DatabaseObject
  BY DEF NewDatabase, DatabaseObject, ObjectState, Reason
<1>8. \A s \in SchemaSpec : NewSchema(s) \in SchemaObject
  BY DEF NewSchema, SchemaObject, ObjectState
<1> QED BY <1>1, <1>2, <1>3, <1>4, <1>5, <1>6, <1>7, <1>8

(* What the statements leave behind.                                        *)
LEMMA CreatedTypes ==
    /\ \A s \in DatabaseSpec :
          /\ CreateDatabase(s) \in DatabaseRow
          /\ CreateDatabase(s).exists
          /\ s.collation \in {0, CreateDatabase(s).collation}
    /\ \A s \in SchemaSpec :
          /\ CreateSchema(s) \in SchemaRow
          /\ CreateSchema(s).exists /\ ~CreateSchema(s).objects
<1>1. ASSUME NEW s \in DatabaseSpec
      PROVE  /\ CreateDatabase(s) \in DatabaseRow
             /\ CreateDatabase(s).exists
             /\ s.collation \in {0, CreateDatabase(s).collation}
  <2> DEFINE c == IF s.collation = 0 THEN 1 ELSE s.collation
  <2>1. c \in 1..2 /\ s.collation \in {0, c}
    BY DatabaseSpecType
  <2>2. CreateDatabase(s) = [NoDatabase EXCEPT !.exists = TRUE, !.collation = c]
    BY DEF CreateDatabase
  <2> HIDE DEF c
  <2> QED BY <2>1, <2>2, RecordTypes DEF DatabaseRow
<1>2. ASSUME NEW s \in SchemaSpec
      PROVE  /\ CreateSchema(s) \in SchemaRow
             /\ CreateSchema(s).exists /\ ~CreateSchema(s).objects
  <2> DEFINE o == IF s.owner = 0 THEN 1 ELSE s.owner
  <2>1. o \in 1..2
    BY DEF SchemaSpec
  <2>2. CreateSchema(s) = [NoSchema EXCEPT !.exists = TRUE, !.owner = o]
    BY DEF CreateSchema
  <2> HIDE DEF o
  <2> QED BY <2>1, <2>2 DEF SchemaRow, NoSchema
<1> QED BY <1>1, <1>2

(* ALTER DATABASE changes one setting and nothing else.                     *)
LEMMA WithSettingEffect ==
    ASSUME db \in DatabaseRow, NEW s \in Setting, NEW v \in Value
    PROVE  /\ WithSetting(s, v) \in DatabaseRow
           /\ WithSetting(s, v).exists = db.exists
           /\ WithSetting(s, v).collation = db.collation
           /\ WithSetting(s, v).settings[s] = v
           /\ \A t \in Setting \ {s} : WithSetting(s, v).settings[t] = db.settings[t]
BY DEF WithSetting, DatabaseRow

LEMMA MishapTypes ==
    ASSUME mishaps \in 0..MaxMishaps, Mishap PROVE mishaps' \in 0..MaxMishaps /\ mishaps' # 0
BY DatabasesBounds DEF Mishap

LEMMA EditTypes ==
    ASSUME edits \in 0..MaxEdits, Edit PROVE edits' \in 0..MaxEdits
BY DatabasesBounds DEF Edit

LEMMA DatabaseReturnTypes ==
    ASSUME NEW requeue \in BOOLEAN, databaseQueued \in BOOLEAN, DatabaseReturn(requeue)
    PROVE  DatabaseTypeOK' /\ databaseQueued' \in BOOLEAN
BY RecordTypes DEF DatabaseTypeOK, DatabaseReturn

LEMMA DatabaseConditionTypes ==
    ASSUME NEW reason \in Reason, databaseQueued \in BOOLEAN, databaseCR \in DatabaseObject,
           SetDatabaseCondition(reason)
    PROVE  DatabaseTypeOK' /\ databaseQueued' \in BOOLEAN /\ databaseCR' \in DatabaseObject
<1>1. databaseCR' \in DatabaseObject
  BY DEF SetDatabaseCondition, DatabaseObject
<1>2. DatabaseReturn(reason = "Ready")
  BY DEF SetDatabaseCondition
<1> QED BY <1>1, <1>2, DatabaseReturnTypes

LEMMA SchemaReturnTypes ==
    ASSUME NEW requeue \in BOOLEAN, schemaQueued \in BOOLEAN, SchemaReturn(requeue)
    PROVE  SchemaTypeOK' /\ schemaQueued' \in BOOLEAN
BY RecordTypes DEF SchemaTypeOK, SchemaReturn

(* A Reconcile has only settings left that its copy of the spec names: what *)
(* ReconcileSetting needs in order to preserve the type of the database.    *)
LeftInv == dpc = "settings" => dleft \subseteq DOMAIN dmine.settings

LEMMA DatabaseTypeStep ==
    ASSUME TypeOK, LeftInv, DatabaseStep PROVE TypeOK'
<1> USE DEF server, shared, dependencies, DatabaseRow, SchemaRow, DatabaseObject, SchemaObject
<1>0. SchemaTypeOK'
  BY DEF TypeOK, SchemaTypeOK, DatabaseStep, schemaReconcile
<1>1. CASE FetchDatabase
  <2>1. [databaseCR EXCEPT !.state = "live"] \in DatabaseObject
    BY DEF TypeOK, SharedTypeOK, ObjectState
  <2>2. databaseCR' \in DatabaseObject
    BY <1>1, <2>1 DEF FetchDatabase, TypeOK, SharedTypeOK
  <2>3. dpc' \in {"resolve", "drop", "finalize"} /\ dmine' \in DatabaseSpec
    BY <1>1 DEF FetchDatabase, TypeOK, SharedTypeOK
  <2>4. /\ databaseQueued' \in BOOLEAN
        /\ UNCHANGED <<dfresh, dexisted, dleft, dfailed, dtouched, db, schema, sqlServer,
                       credentials, schemaCR, schemaQueued, edits, mishaps>>
    BY <1>1 DEF FetchDatabase
  <2> QED
    BY <1>0, <2>2, <2>3, <2>4 DEF TypeOK, SharedTypeOK, DatabaseTypeOK
<1>2. CASE ResolveServer
  BY <1>0, <1>2, DatabaseConditionTypes
     DEF ResolveServer, TypeOK, SharedTypeOK, DatabaseTypeOK, Reason
<1>3. CASE EnsureDatabase
  <2>1. db' \in DatabaseRow
    BY <1>3, CreatedTypes DEF EnsureDatabase, TypeOK, SharedTypeOK, DatabaseTypeOK
  <2>2. dleft' \subseteq Setting
    BY <1>3, DatabaseSpecType DEF EnsureDatabase, Due, TypeOK, DatabaseTypeOK
  <2> QED BY <1>0, <1>3, <2>1, <2>2 DEF EnsureDatabase, TypeOK, SharedTypeOK, DatabaseTypeOK
<1>4. ASSUME NEW s \in Setting, ReconcileSetting(s) PROVE TypeOK'
  <2>1. CASE DatabaseReturn(TRUE) /\ UNCHANGED db
    BY <1>0, <1>4, <2>1, DatabaseReturnTypes DEF ReconcileSetting, TypeOK, SharedTypeOK
  <2>2. CASE /\ db' \in {WithSetting(s, dmine.settings[s]), db}
             /\ dleft' = dleft \ {s}
             /\ UNCHANGED <<dpc, dmine, dfresh, dexisted, dfailed, dtouched, databaseQueued>>
    <3>1. dmine.settings[s] \in Value
      BY <1>4, DatabaseSpecType DEF ReconcileSetting, LeftInv, TypeOK, DatabaseTypeOK
    <3>2. db' \in DatabaseRow
      BY <2>2, <3>1, WithSettingEffect DEF TypeOK, SharedTypeOK
    <3> QED
      BY <1>0, <1>4, <2>2, <3>2 DEF ReconcileSetting, TypeOK, SharedTypeOK, DatabaseTypeOK
  <2> QED BY <1>4, <2>1, <2>2 DEF ReconcileSetting
<1>5. CASE SetDatabaseReady
  BY <1>0, <1>5, DatabaseConditionTypes, DatabaseReturnTypes
     DEF SetDatabaseReady, TypeOK, SharedTypeOK, Reason
<1>6. CASE DropDatabase(sconn)
  BY <1>0, <1>6, RecordTypes DEF DropDatabase, TypeOK, SharedTypeOK, DatabaseTypeOK
<1>7. CASE DropDatabaseFails
  BY <1>0, <1>7, MishapTypes DEF DropDatabaseFails, TypeOK, SharedTypeOK, DatabaseTypeOK
<1>8. CASE FinalizeDatabase
  BY <1>0, <1>8, RecordTypes, DatabaseReturnTypes
     DEF FinalizeDatabase, TypeOK, SharedTypeOK, DatabaseTypeOK
<1>9. CASE DatabaseCallFails
  BY <1>0, <1>9, MishapTypes, DatabaseReturnTypes
     DEF DatabaseCallFails, TypeOK, SharedTypeOK
<1> QED
  BY <1>1, <1>2, <1>3, <1>4, <1>5, <1>6, <1>7, <1>8, <1>9 DEF DatabaseStep, ReconcileDatabase

LEMMA SchemaTypeStep ==
    ASSUME TypeOK, SchemaStep PROVE TypeOK'
<1> USE DEF server, shared, dependencies, DatabaseRow, SchemaRow, DatabaseObject, SchemaObject
<1>0. DatabaseTypeOK'
  BY DEF TypeOK, DatabaseTypeOK, SchemaStep, databaseReconcile
<1>1. CASE FetchSchema
  <2>1. [schemaCR EXCEPT !.state = "live"] \in SchemaObject
    BY DEF TypeOK, SharedTypeOK, ObjectState
  <2>2. schemaCR' \in SchemaObject
    BY <1>1, <2>1 DEF FetchSchema, TypeOK, SharedTypeOK
  <2>3. spc' \in {"observe", "objects", "finalize"} /\ smine' \in SchemaSpec
    BY <1>1 DEF FetchSchema, TypeOK, SharedTypeOK
  <2> QED BY <1>0, <1>1, <2>2, <2>3 DEF FetchSchema, TypeOK, SharedTypeOK, SchemaTypeOK
<1>2. CASE EnsureSchema
  <2>1. schema' \in SchemaRow
    BY <1>2, CreatedTypes DEF EnsureSchema, TypeOK, SharedTypeOK, SchemaTypeOK
  <2> QED
    BY <1>0, <1>2, <2>1, SchemaReturnTypes DEF EnsureSchema, TypeOK, SharedTypeOK, SchemaTypeOK
<1>3. CASE SetSchemaOwner
  <2>1. smine.owner # 0 => WithSchemaOwner(smine.owner) \in SchemaRow
    BY DEF WithSchemaOwner, TypeOK, SharedTypeOK, SchemaTypeOK, SchemaSpec
  <2>2. schema' \in SchemaRow
    BY <1>3, <2>1 DEF SetSchemaOwner, TypeOK, SharedTypeOK
  <2> QED
    BY <1>0, <1>3, <2>2, SchemaReturnTypes
       DEF SetSchemaOwner, TypeOK, SharedTypeOK, SchemaTypeOK
<1>4. CASE SetSchemaReady
  BY <1>0, <1>4, SchemaReturnTypes DEF SetSchemaReady, TypeOK, SharedTypeOK
<1>5. CASE CheckObjects
  <2>1. CASE SchemaReturn(TRUE)
    BY <1>0, <1>5, <2>1, SchemaReturnTypes DEF CheckObjects, TypeOK, SharedTypeOK
  <2>2. CASE /\ spc' \in {"drop", "finalize"} /\ sconn' = (credentials /\ UseDatabase)
             /\ UNCHANGED <<smine, sfresh, stouched, schemaQueued>>
    BY <1>0, <1>5, <2>2 DEF CheckObjects, TypeOK, SharedTypeOK, SchemaTypeOK
  <2> QED BY <1>5, <2>1, <2>2 DEF CheckObjects
<1>6. CASE DropSchema
  BY <1>0, <1>6, RecordTypes DEF DropSchema, SchemaDropped, TypeOK, SharedTypeOK, SchemaTypeOK
<1>7. CASE SchemaCleanupFails
  BY <1>0, <1>7, MishapTypes DEF SchemaCleanupFails, TypeOK, SharedTypeOK, SchemaTypeOK
<1>8. CASE FinalizeSchema
  BY <1>0, <1>8, RecordTypes, SchemaReturnTypes
     DEF FinalizeSchema, TypeOK, SharedTypeOK, SchemaTypeOK
<1>9. CASE SchemaCallFails
  BY <1>0, <1>9, MishapTypes, SchemaReturnTypes DEF SchemaCallFails, TypeOK, SharedTypeOK
<1> QED
  BY <1>1, <1>2, <1>3, <1>4, <1>5, <1>6, <1>7, <1>8, <1>9 DEF SchemaStep, ReconcileSchema

LEMMA LeftStep == TypeOK /\ LeftInv /\ [Next]_vars => LeftInv'
<1> SUFFICES ASSUME TypeOK, LeftInv, [Next]_vars, dpc' = "settings"
             PROVE  dleft' \subseteq DOMAIN dmine'.settings
  BY DEF LeftInv
<1>1. CASE EnsureDatabase
  BY <1>1 DEF EnsureDatabase, Due
<1>2. CASE ~EnsureDatabase
  <2>1. dpc = "settings" /\ dmine' = dmine /\ dleft' \subseteq dleft
    BY <1>2 DEF Next, vars, databaseReconcile, DatabaseStep, ReconcileDatabase, FetchDatabase,
       ResolveServer, SetDatabaseCondition, DatabaseReturn, ReconcileSetting, SetDatabaseReady,
       DropDatabase, DropDatabaseFails, FinalizeDatabase, DatabaseCallFails, SchemaStep,
       EditDatabase, EditSchema, CreateResource, DeleteDatabase, DeleteSchema, CreateSecret,
       CreateSQLServer, LoseDependency, DriftDatabase, DriftSchema, EmptySchema, Restart
  <2> QED BY <2>1 DEF LeftInv
<1> QED BY <1>1, <1>2

LEMMA TypeStep == TypeOK /\ LeftInv /\ [Next]_vars => TypeOK'
<1> SUFFICES ASSUME TypeOK, LeftInv, [Next]_vars PROVE TypeOK'
  OBVIOUS
<1> USE DEF server, dependencies, databaseReconcile, schemaReconcile,
        DatabaseRow, SchemaRow, DatabaseObject, SchemaObject
<1>1. CASE EditDatabase
  <2>1. databaseCR' \in DatabaseObject
    BY <1>1, DatabaseSpecsAssumption DEF EditDatabase, TypeOK, SharedTypeOK
  <2> QED
    BY <1>1, <2>1, EditTypes
       DEF EditDatabase, TypeOK, SharedTypeOK, DatabaseTypeOK, SchemaTypeOK
<1>2. CASE EditSchema
  <2>1. schemaCR' \in SchemaObject
    BY <1>2, DatabaseSpecsAssumption DEF EditSchema, TypeOK, SharedTypeOK
  <2> QED
    BY <1>2, <2>1, EditTypes DEF EditSchema, TypeOK, SharedTypeOK, DatabaseTypeOK, SchemaTypeOK
<1>3. CASE CreateResource
  <2>1. databaseCR' \in DatabaseObject /\ schemaCR' \in SchemaObject
    BY <1>3, RecordTypes, DatabaseSpecsAssumption DEF CreateResource, TypeOK, SharedTypeOK
  <2>2. databaseQueued' \in BOOLEAN /\ schemaQueued' \in BOOLEAN
    BY <1>3 DEF CreateResource, TypeOK, SharedTypeOK
  <2>3. UNCHANGED <<db, schema, sqlServer, credentials, mishaps, databaseReconcile,
                    schemaReconcile>>
    BY <1>3 DEF CreateResource
  <2>4. edits' \in 0..MaxEdits
    BY <1>3, EditTypes DEF CreateResource, TypeOK, SharedTypeOK
  <2> QED
    BY <2>1, <2>2, <2>3, <2>4 DEF TypeOK, SharedTypeOK, DatabaseTypeOK, SchemaTypeOK
<1>4. CASE DeleteDatabase
  <2>1. databaseCR' \in DatabaseObject
    BY <1>4, RecordTypes DEF DeleteDatabase, ObjectState, TypeOK, SharedTypeOK
  <2> QED
    BY <1>4, <2>1 DEF DeleteDatabase, TypeOK, SharedTypeOK, DatabaseTypeOK, SchemaTypeOK
<1>5. CASE DeleteSchema
  <2>1. schemaCR' \in SchemaObject
    BY <1>5, RecordTypes DEF DeleteSchema, ObjectState, TypeOK, SharedTypeOK
  <2> QED BY <1>5, <2>1 DEF DeleteSchema, TypeOK, SharedTypeOK, DatabaseTypeOK, SchemaTypeOK
<1>6. CASE CreateSecret
  <2>1. databaseQueued' \in BOOLEAN
    BY <1>6 DEF CreateSecret
  <2> QED BY <1>6, <2>1 DEF CreateSecret, TypeOK, SharedTypeOK, DatabaseTypeOK, SchemaTypeOK
<1>7. CASE CreateSQLServer
  BY <1>7 DEF CreateSQLServer, TypeOK, SharedTypeOK, DatabaseTypeOK, SchemaTypeOK
<1>8. CASE LoseDependency
  <2>1. credentials' \in BOOLEAN /\ sqlServer' \in BOOLEAN
    BY <1>8 DEF LoseDependency, TypeOK, SharedTypeOK
  <2> QED
    BY <1>8, <2>1, MishapTypes
       DEF LoseDependency, TypeOK, SharedTypeOK, DatabaseTypeOK, SchemaTypeOK
<1>9. CASE DriftDatabase
  <2>1. \A s \in DOMAIN databaseCR.spec.settings, v \in Value :
           [db EXCEPT !.settings[s] = v] \in DatabaseRow
    BY WithSettingEffect, DatabaseSpecType DEF WithSetting, TypeOK, SharedTypeOK
  <2>2. db' \in DatabaseRow /\ schema' \in SchemaRow /\ sconn' \in BOOLEAN
    BY <1>9, <2>1, RecordTypes DEF DriftDatabase, TypeOK, SharedTypeOK, SchemaTypeOK
  <2> QED
    BY <1>9, <2>2, MishapTypes
       DEF DriftDatabase, TypeOK, SharedTypeOK, DatabaseTypeOK, SchemaTypeOK
<1>10. CASE DriftSchema
  <2>1. schema' \in SchemaRow
    BY <1>10, RecordTypes DEF DriftSchema, TypeOK, SharedTypeOK
  <2> QED
    BY <1>10, <2>1, MishapTypes
       DEF DriftSchema, TypeOK, SharedTypeOK, DatabaseTypeOK, SchemaTypeOK
<1>11. CASE EmptySchema
  <2>1. schema' \in SchemaRow
    BY <1>11 DEF EmptySchema, TypeOK, SharedTypeOK
  <2> QED BY <1>11, <2>1 DEF EmptySchema, TypeOK, SharedTypeOK, DatabaseTypeOK, SchemaTypeOK
<1>12. CASE Restart
  BY <1>12, MishapTypes, DatabaseReturnTypes, SchemaReturnTypes
     DEF Restart, TypeOK, SharedTypeOK
<1>13. CASE UNCHANGED vars
  BY <1>13 DEF vars, shared, TypeOK, SharedTypeOK, DatabaseTypeOK, SchemaTypeOK
<1> QED
  BY <1>1, <1>2, <1>3, <1>4, <1>5, <1>6, <1>7, <1>8, <1>9, <1>10, <1>11, <1>12, <1>13,
     DatabaseTypeStep, SchemaTypeStep DEF Next

LEMMA TypeInit == Init => TypeOK /\ LeftInv
<1> SUFFICES ASSUME Init PROVE TypeOK /\ LeftInv
  OBVIOUS
<1>1. databaseCR \in DatabaseObject /\ schemaCR \in SchemaObject
  BY RecordTypes, DatabaseSpecsAssumption DEF Init, SharedInit
<1>2. db \in DatabaseRow
  BY RecordTypes DEF Init, SharedInit, DatabaseRow
<1>3. SharedTypeOK
  <2>1. edits \in 0..MaxEdits /\ mishaps \in 0..MaxMishaps
    BY DatabasesBounds DEF Init, SharedInit
  <2>2. schema \in SchemaRow
    BY RecordTypes DEF Init, SharedInit
  <2>3. /\ sqlServer \in BOOLEAN /\ credentials \in BOOLEAN
        /\ databaseQueued \in BOOLEAN /\ schemaQueued \in BOOLEAN
    BY DEF Init, SharedInit
  <2> QED
    BY <1>1, <1>2, <2>1, <2>2, <2>3
       DEF SharedTypeOK, DatabaseRow, SchemaRow, DatabaseObject, SchemaObject
<1>4. DatabaseTypeOK /\ LeftInv
  BY RecordTypes DEF Init, DatabaseInit, DatabaseTypeOK, LeftInv
<1>5. SchemaTypeOK
  BY RecordTypes DEF Init, SchemaInit, SchemaTypeOK
<1> QED BY <1>3, <1>4, <1>5 DEF TypeOK

(* Type correctness of the Database and the Schema controllers and what     *)
(* surrounds them.                                                          *)
THEOREM DatabasesTypeCorrect == Spec => []TypeOK
BY TypeInit, LeftStep, TypeStep, PTL DEF Spec

------------------------------------------------------------------------------
(* What a Reconcile of the Database relies on.  While nobody touches the    *)
(* database, it exists and has every setting handled so far; the copy is    *)
(* the spec while nobody edits it; DROP DATABASE is only sent for a         *)
(* resource being deleted whose copy says so; and before the finalizer goes *)
(* the database is gone, is to be retained, or the DROP has failed.         *)
DatabaseInv ==
    /\ databaseCR.state \in {"absent", "new"} => dpc = "idle"
    /\ dpc # "idle" /\ dfresh => dmine = databaseCR.spec
    /\ dpc = "drop" => databaseCR.state = "deleting" /\ dmine.policy = "Delete"
    /\ dpc = "finalize" => dmine.policy = "Retain" \/ dfailed \/ ~db.exists
    /\ dpc = "settings" /\ ~dtouched =>
          /\ db.exists
          /\ dexisted \/ dmine.collation \in {0, db.collation}
          /\ \A s \in Corrected(dmine) \ dleft :
                \/ db.settings[s] = dmine.settings[s]
                \/ ~dexisted /\ s \in {"recoveryModel", "compatibilityLevel"}

(* The same for the Schema.  Its connection keeps the other controller from *)
(* dropping the database; without mishaps nobody fills the schema, and one  *)
(* that exists was made with credentials that are still there.              *)
SchemaInv ==
    /\ schemaCR.state \in {"absent", "new"} => spc = "idle"
    /\ spc # "idle" /\ sfresh => smine = schemaCR.spec
    /\ spc \in {"objects", "drop"} => schemaCR.state = "deleting" /\ smine.policy = "Delete"
    /\ spc \in {"owner", "ready"} /\ ~stouched => sconn /\ db.exists /\ schema.exists
    /\ spc = "ready" /\ ~stouched => smine.owner \in {0, schema.owner}
    /\ mishaps = 0 => ~schema.objects /\ (schema.exists => credentials)
    /\ mishaps = 0 /\ spc = "finalize" => smine.policy = "Retain" \/ ~schema.exists

(* Each controller leaves the other's resource and Reconcile alone; of what *)
(* they share, the Schema controller never changes the database.            *)
LEMMA DatabaseStepFrame ==
    ASSUME DatabaseStep
    PROVE  /\ UNCHANGED <<schemaCR, schemaReconcile, credentials>>
           /\ DropDatabase(sconn) \/ UNCHANGED schema
BY DEF DatabaseStep, ReconcileDatabase, FetchDatabase, ResolveServer, EnsureDatabase,
   ReconcileSetting, SetDatabaseReady, DropDatabase, DropDatabaseFails, FinalizeDatabase,
   DatabaseCallFails, server, dependencies

LEMMA SchemaStepFrame ==
    ASSUME SchemaStep PROVE UNCHANGED <<db, databaseCR, databaseReconcile, credentials>>
BY DEF SchemaStep, ReconcileSchema, FetchSchema, EnsureSchema, SetSchemaOwner, SetSchemaReady,
   CheckObjects, DropSchema, SchemaCleanupFails, FinalizeSchema, SchemaCallFails, server,
   dependencies

(* Mishaps are counted and never forgotten.                                 *)
LEMMA MishapsGrow ==
    ASSUME TypeOK, [Next]_vars
    PROVE  mishaps' = 0 => mishaps = 0
<1>1. mishaps \in Nat
  BY DatabasesBounds DEF TypeOK, SharedTypeOK
<1>2. mishaps' \in {mishaps, mishaps + 1}
  BY DEF Next, vars, shared, Mishap, DatabaseStep, ReconcileDatabase, FetchDatabase,
     ResolveServer, EnsureDatabase, ReconcileSetting, SetDatabaseReady, DropDatabase,
     DropDatabaseFails, FinalizeDatabase, DatabaseCallFails, SchemaStep, ReconcileSchema,
     FetchSchema, EnsureSchema, SetSchemaOwner, SetSchemaReady, CheckObjects, DropSchema,
     SchemaCleanupFails, FinalizeSchema, SchemaCallFails, EditDatabase, EditSchema,
     CreateResource, DeleteDatabase, DeleteSchema, CreateSecret, CreateSQLServer,
     LoseDependency, DriftDatabase, DriftSchema, EmptySchema, Restart
<1> QED BY <1>1, <1>2

(* Reading a setting and, if it differs, setting it brings it to what the   *)
(* spec says, for every setting whose value can be read back.               *)
LEMMA SettingApplied ==
    ASSUME TypeOK, LeftInv, NEW s \in Setting, ReconcileSetting(s), dpc' = "settings",
           s \in Corrected(dmine)
    PROVE  db'.settings[s] = dmine.settings[s]
<1>1. dmine.settings[s] \in Value
  BY DatabaseSpecType DEF ReconcileSetting, LeftInv, TypeOK, DatabaseTypeOK
<1>2. CASE Observed(s) # dmine.settings[s]
  <2>1. db' = WithSetting(s, dmine.settings[s])
    BY <1>2 DEF ReconcileSetting, DatabaseReturn
  <2> QED BY <1>1, <2>1, WithSettingEffect DEF DatabaseRow, TypeOK, SharedTypeOK
<1>3. CASE Observed(s) = dmine.settings[s]
  <2>1. s # "option" /\ db' = db
    BY <1>3 DEF ReconcileSetting, Observed, Corrected
  <2> QED BY <1>3, <2>1 DEF Observed
<1> QED BY <1>2, <1>3

LEMMA DatabaseInvReconcile ==
    ASSUME TypeOK, LeftInv, DatabaseInv, DatabaseStep PROVE DatabaseInv'
<1> USE DEF DatabaseInv
<1>1. CASE FetchDatabase
  <2>1. /\ databaseCR'.spec = databaseCR.spec
        /\ databaseCR'.state = IF databaseCR.state = "new" THEN "live" ELSE databaseCR.state
    BY <1>1 DEF FetchDatabase, TypeOK, SharedTypeOK
  <2>2. databaseCR.spec.policy \in {"Retain", "Delete"}
    BY DatabaseSpecType DEF Policy, TypeOK, SharedTypeOK
  <2>3. /\ dmine' = databaseCR.spec
        /\ dpc' = IF databaseCR.state # "deleting" THEN "resolve"
                  ELSE IF databaseCR.spec.policy = "Delete" THEN "drop" ELSE "finalize"
        /\ databaseCR.state # "absent"
    BY <1>1 DEF FetchDatabase
  <2> QED BY <2>1, <2>2, <2>3
<1>2. CASE ResolveServer
  BY <1>2 DEF ResolveServer, SetDatabaseCondition, DatabaseReturn
<1>3. CASE EnsureDatabase
  <2>1. db'.exists
    BY <1>3, CreatedTypes DEF EnsureDatabase, TypeOK, DatabaseTypeOK
  <2>2. dexisted' \/ dmine.collation \in {0, db'.collation}
    BY <1>3, CreatedTypes DEF EnsureDatabase, TypeOK, DatabaseTypeOK
  <2>3. \A s \in Corrected(dmine) \ dleft' :
           ~dexisted' /\ s \in {"recoveryModel", "compatibilityLevel"}
    BY <1>3 DEF EnsureDatabase, Corrected, Due, SkippedWhenCreated, TypeOK, SharedTypeOK
  <2>4. /\ dpc' = "settings" /\ dpc = "observe"
        /\ UNCHANGED <<dmine, dfresh, dtouched, databaseCR>>
    BY <1>3 DEF EnsureDatabase
  <2> QED BY <2>1, <2>2, <2>3, <2>4 DEF Corrected
<1>4. ASSUME NEW s \in Setting, ReconcileSetting(s) PROVE DatabaseInv'
  <2>1. CASE dpc' = "idle"
    BY <1>4, <2>1 DEF ReconcileSetting
  <2>2. CASE dpc' # "idle"
    <3>1. /\ dleft' = dleft \ {s}
          /\ db' \in {WithSetting(s, dmine.settings[s]), db}
          /\ dpc = "settings" /\ s \in dleft
          /\ UNCHANGED <<dpc, dmine, dfresh, dexisted, dfailed, dtouched, databaseCR>>
      BY <1>4, <2>2 DEF ReconcileSetting, DatabaseReturn
    <3>2. dmine.settings[s] \in Value
      BY <3>1, DatabaseSpecType DEF LeftInv, TypeOK, DatabaseTypeOK
    <3>3. /\ db'.exists = db.exists /\ db'.collation = db.collation
          /\ \A t \in Setting \ {s} : db'.settings[t] = db.settings[t]
      BY <3>1, <3>2, WithSettingEffect DEF DatabaseRow, TypeOK, SharedTypeOK
    <3>4. s \in Corrected(dmine) => db'.settings[s] = dmine.settings[s]
      BY <1>4, <3>1, SettingApplied
    <3>5. Corrected(dmine) \subseteq Setting
      BY DatabaseSpecType DEF Corrected, TypeOK, DatabaseTypeOK
    <3> QED BY <3>1, <3>3, <3>4, <3>5 DEF Corrected
  <2> QED BY <2>1, <2>2
<1>5. CASE SetDatabaseReady
  BY <1>5 DEF SetDatabaseReady, SetDatabaseCondition, DatabaseReturn, TypeOK, SharedTypeOK
<1>6. CASE DropDatabase(sconn)
  BY <1>6 DEF DropDatabase, NoDatabase
<1>7. CASE DropDatabaseFails
  BY <1>7 DEF DropDatabaseFails, server
<1>8. CASE FinalizeDatabase
  BY <1>8 DEF FinalizeDatabase, DatabaseReturn
<1>9. CASE DatabaseCallFails
  BY <1>9 DEF DatabaseCallFails, DatabaseReturn
<1> QED
  BY <1>1, <1>2, <1>3, <1>4, <1>5, <1>6, <1>7, <1>8, <1>9 DEF DatabaseStep, ReconcileDatabase

LEMMA DatabaseInvStep ==
    ASSUME TypeOK, LeftInv, DatabaseInv, [Next]_vars PROVE DatabaseInv'
<1> USE DEF DatabaseInv, Corrected, server, databaseReconcile
<1>1. CASE SchemaStep
  BY <1>1, SchemaStepFrame
<1>2. CASE EditDatabase
  <2>1. databaseCR'.state = databaseCR.state
    BY <1>2 DEF EditDatabase, TypeOK, SharedTypeOK
  <2> QED BY <1>2, <2>1 DEF EditDatabase
<1>3. CASE CreateResource
  <2>1. databaseCR' = databaseCR \/ dpc = "idle"
    BY <1>3 DEF CreateResource
  <2> QED BY <1>3, <2>1 DEF CreateResource
<1>4. CASE DeleteDatabase
  <2>1. dpc = "idle" \/ (databaseCR'.spec = databaseCR.spec /\ databaseCR'.state = "deleting")
    BY <1>4 DEF DeleteDatabase, TypeOK, SharedTypeOK
  <2> QED BY <1>4, <2>1 DEF DeleteDatabase
<1>5. CASE EditSchema \/ DeleteSchema \/ CreateSecret \/ CreateSQLServer \/ LoseDependency
  BY <1>5 DEF EditSchema, DeleteSchema, CreateSecret, CreateSQLServer, LoseDependency
<1>6. CASE DriftDatabase
  <2>1. db'.exists => db.exists
    BY <1>6 DEF DriftDatabase
  <2> QED BY <1>6, <2>1 DEF DriftDatabase
<1>7. CASE DriftSchema \/ EmptySchema
  BY <1>7 DEF DriftSchema, EmptySchema
<1>8. CASE Restart
  BY <1>8 DEF Restart, DatabaseReturn
<1>9. CASE UNCHANGED vars
  BY <1>9 DEF vars, shared
<1> QED
  BY <1>1, <1>2, <1>3, <1>4, <1>5, <1>6, <1>7, <1>8, <1>9, DatabaseInvReconcile DEF Next

LEMMA SchemaInvReconcile ==
    ASSUME TypeOK, SchemaInv, SchemaStep, mishaps' = 0 => mishaps = 0 PROVE SchemaInv'
<1> USE DEF SchemaInv
<1>0. UNCHANGED <<db, credentials>>
  BY SchemaStepFrame
<1>t. smine.owner \in 0..2 /\ smine.policy \in {"Retain", "Delete"}
  BY DEF TypeOK, SchemaTypeOK, SchemaSpec, Policy
<1>1. CASE FetchSchema
  <2>1. /\ schemaCR'.spec = schemaCR.spec
        /\ schemaCR'.state = IF schemaCR.state = "new" THEN "live" ELSE schemaCR.state
    BY <1>1 DEF FetchSchema, TypeOK, SharedTypeOK
  <2>2. schemaCR.spec.policy \in {"Retain", "Delete"}
    BY DEF SchemaSpec, Policy, TypeOK, SharedTypeOK
  <2>3. /\ smine' = schemaCR.spec
        /\ spc' = IF schemaCR.state # "deleting" THEN "observe"
                  ELSE IF schemaCR.spec.policy = "Delete" THEN "objects" ELSE "finalize"
        /\ schemaCR.state # "absent"
        /\ UNCHANGED <<schema, mishaps>>
    BY <1>1 DEF FetchSchema, server
  <2> QED BY <1>0, <2>1, <2>2, <2>3
<1>2. CASE EnsureSchema
  <2>1. CASE credentials /\ UseDatabase
    <3>1. schema'.exists /\ ((schema.exists /\ schema' = schema) \/ ~schema'.objects)
      BY <1>2, <2>1, CreatedTypes DEF EnsureSchema, TypeOK, SharedTypeOK, SchemaTypeOK
    <3> QED BY <1>0, <1>2, <2>1, <3>1 DEF EnsureSchema, UseDatabase
  <2>2. CASE ~(credentials /\ UseDatabase)
    BY <1>0, <1>2, <2>2 DEF EnsureSchema, SchemaReturn
  <2> QED BY <2>1, <2>2
<1>3. CASE SetSchemaOwner
  <2>1. CASE smine.owner # 0 /\ ~schema.exists
    BY <1>0, <1>3, <2>1 DEF SetSchemaOwner, SchemaReturn
  <2>2. CASE ~(smine.owner # 0 /\ ~schema.exists)
    <3>1. /\ schema'.exists = schema.exists /\ schema'.objects = schema.objects
          /\ smine.owner \in {0, schema'.owner}
      BY <1>3, <2>2, <1>t DEF SetSchemaOwner, WithSchemaOwner, TypeOK, SharedTypeOK
    <3> QED BY <1>0, <1>3, <2>2, <3>1 DEF SetSchemaOwner
  <2> QED BY <2>1, <2>2
<1>4. CASE SetSchemaReady
  BY <1>0, <1>4 DEF SetSchemaReady, SchemaReturn, server
<1>5. CASE CheckObjects
  <2>1. CASE SchemaReturn(TRUE)
    BY <1>0, <1>5, <2>1 DEF CheckObjects, SchemaReturn, server
  <2>2. CASE /\ spc' = IF credentials THEN "drop" ELSE "finalize"
             /\ UNCHANGED <<smine, sfresh, stouched>>
    BY <1>0, <1>5, <2>2 DEF CheckObjects, server
  <2> QED BY <1>5, <2>1, <2>2 DEF CheckObjects
<1>6. CASE DropSchema
  BY <1>0, <1>6 DEF DropSchema, SchemaDropped, NoSchema
<1>7. CASE SchemaCleanupFails
  <2>1. mishaps' # 0
    BY <1>7, MishapTypes DEF SchemaCleanupFails, TypeOK, SharedTypeOK
  <2> QED BY <1>0, <1>7, <2>1 DEF SchemaCleanupFails
<1>8. CASE FinalizeSchema
  BY <1>0, <1>8 DEF FinalizeSchema, SchemaReturn, server
<1>9. CASE SchemaCallFails
  BY <1>0, <1>9 DEF SchemaCallFails, SchemaReturn, server
<1> QED
  BY <1>1, <1>2, <1>3, <1>4, <1>5, <1>6, <1>7, <1>8, <1>9 DEF SchemaStep, ReconcileSchema

LEMMA SchemaInvStep ==
    ASSUME TypeOK, SchemaInv, [Next]_vars PROVE SchemaInv'
<1> USE DEF SchemaInv, server, schemaReconcile
<1>m. mishaps' = 0 => mishaps = 0
  BY MishapsGrow
<1>1. CASE SchemaStep
  BY <1>1, <1>m, SchemaInvReconcile
<1>2. CASE DatabaseStep
  <2>1. CASE DropDatabase(sconn)
    BY <1>2, <1>m, <2>1, DatabaseStepFrame DEF DropDatabase, NoSchema
  <2>2. CASE ~DropDatabase(sconn)
    <3>1. db.exists => db'.exists
      BY <1>2, <2>2, CreatedTypes DEF DatabaseStep, ReconcileDatabase, FetchDatabase,
         ResolveServer, EnsureDatabase, ReconcileSetting, WithSetting, SetDatabaseReady,
         DropDatabaseFails, FinalizeDatabase, DatabaseCallFails, TypeOK, SharedTypeOK
    <3> QED BY <1>2, <1>m, <2>2, <3>1, DatabaseStepFrame
  <2> QED BY <2>1, <2>2
<1>3. CASE EditSchema
  <2>1. schemaCR'.state = schemaCR.state
    BY <1>3 DEF EditSchema, TypeOK, SharedTypeOK
  <2> QED BY <1>3, <2>1 DEF EditSchema, dependencies
<1>4. CASE CreateResource
  <2>1. schemaCR' = schemaCR \/ spc = "idle"
    BY <1>4 DEF CreateResource
  <2> QED BY <1>4, <2>1 DEF CreateResource, dependencies
<1>5. CASE DeleteSchema
  <2>1. spc = "idle" \/ (schemaCR'.spec = schemaCR.spec /\ schemaCR'.state = "deleting")
    BY <1>5 DEF DeleteSchema, TypeOK, SharedTypeOK
  <2> QED BY <1>5, <2>1 DEF DeleteSchema, dependencies
<1>6. CASE EditDatabase \/ DeleteDatabase \/ CreateSecret \/ CreateSQLServer
  BY <1>6 DEF EditDatabase, DeleteDatabase, CreateSecret, CreateSQLServer, dependencies
<1>7. CASE LoseDependency
  <2>1. mishaps' # 0
    BY <1>7, MishapTypes DEF LoseDependency, TypeOK, SharedTypeOK
  <2> QED BY <1>7, <2>1 DEF LoseDependency
<1>8. CASE DriftDatabase
  <2>1. mishaps' # 0
    BY <1>8, MishapTypes DEF DriftDatabase, TypeOK, SharedTypeOK
  <2> QED BY <1>8, <2>1 DEF DriftDatabase
<1>9. CASE DriftSchema
  <2>1. mishaps' # 0
    BY <1>9, MishapTypes DEF DriftSchema, TypeOK, SharedTypeOK
  <2> QED BY <1>9, <2>1 DEF DriftSchema
<1>10. CASE EmptySchema
  <2>1. schema'.exists = schema.exists /\ schema'.owner = schema.owner /\ ~schema'.objects
    BY <1>10 DEF EmptySchema, TypeOK, SharedTypeOK
  <2> QED BY <1>10, <2>1 DEF EmptySchema, dependencies
<1>11. CASE Restart
  BY <1>11, <1>m DEF Restart, SchemaReturn, dependencies
<1>12. CASE UNCHANGED vars
  BY <1>12 DEF vars, shared
<1> QED
  BY <1>1, <1>2, <1>3, <1>4, <1>5, <1>6, <1>7, <1>8, <1>9, <1>10, <1>11, <1>12 DEF Next

DatabasesInv == TypeOK /\ LeftInv /\ DatabaseInv /\ SchemaInv

LEMMA DatabasesInvariant == Spec => []DatabasesInv
<1>1. Init => DatabaseInv
  BY DEF Init, SharedInit, DatabaseInit, DatabaseInv
<1>2. Init => SchemaInv
  BY DEF Init, SharedInit, SchemaInit, NoSchema, SchemaInv
<1>3. DatabasesInv /\ [Next]_vars => DatabasesInv'
  BY LeftStep, TypeStep, DatabaseInvStep, SchemaInvStep DEF DatabasesInv
<1>4. Init => DatabasesInv
  BY <1>1, <1>2, TypeInit DEF DatabasesInv
<1> QED BY <1>3, <1>4, PTL DEF Spec

(* Whenever a controller is about to report Ready, what it manages exists   *)
(* and is as its copy of the spec asks, unless an administrator interfered: *)
(* for any spec, whatever the other controller does meanwhile.              *)
THEOREM DatabasesAppliedCorrect == Spec => []AppliedWhenReady
<1>1. DatabasesInv => AppliedWhenReady
  <2> SUFFICES ASSUME DatabasesInv PROVE AppliedWhenReady
    OBVIOUS
  <2>1. ASSUME dpc = "settings", dleft = {}, ~CollationDiffers, ~dtouched
        PROVE  /\ db.exists
               /\ dmine.collation \in {0, db.collation}
               /\ \A s \in Corrected(dmine) :
                     \/ db.settings[s] = dmine.settings[s]
                     \/ ~dexisted /\ s \in {"recoveryModel", "compatibilityLevel"}
    BY <2>1 DEF DatabasesInv, DatabaseInv, CollationDiffers
  <2>2. ASSUME spc = "ready", ~stouched
        PROVE  db.exists /\ schema.exists /\ smine.owner \in {0, schema.owner}
    BY <2>2 DEF DatabasesInv, SchemaInv
  <2> QED BY <2>1, <2>2 DEF AppliedWhenReady
<1> QED BY <1>1, DatabasesInvariant, PTL

(* The controllers drop a database only while its resource is being deleted *)
(* and their copy of it says Delete, and a schema only if it is empty and   *)
(* the same holds of its resource, unless it goes with its database.        *)
THEOREM NothingLostCorrect == Spec => NothingLost
<1> DEFINE Lossless ==
       mishaps' = mishaps =>
          /\ db.exists /\ ~db'.exists =>
                databaseCR.state = "deleting" /\ dmine.policy = "Delete"
          /\ schema.exists /\ ~schema'.exists /\ db'.exists =>
                /\ schemaCR.state = "deleting" /\ smine.policy = "Delete"
                /\ ~schema.objects
<1>1. ASSUME DatabasesInv, DatabaseStep, mishaps' = mishaps PROVE Lossless
  <2>1. CASE DropDatabase(sconn)
    BY <1>1, <2>1 DEF DropDatabase, NoDatabase, DatabasesInv, DatabaseInv, server
  <2>2. CASE ~DropDatabase(sconn)
    <3>1. schema' = schema
      BY <1>1, <2>2, DatabaseStepFrame
    <3>2. db.exists => db'.exists
      BY <1>1, <2>2, CreatedTypes DEF DatabaseStep, ReconcileDatabase, FetchDatabase,
         ResolveServer, EnsureDatabase, ReconcileSetting, WithSetting, SetDatabaseReady,
         DropDatabaseFails, FinalizeDatabase, DatabaseCallFails, server,
         DatabasesInv, TypeOK, SharedTypeOK
    <3> QED BY <3>1, <3>2
  <2> QED BY <2>1, <2>2
<1>2. ASSUME DatabasesInv, SchemaStep, mishaps' = mishaps PROVE Lossless
  <2>1. db' = db
    BY <1>2, SchemaStepFrame
  <2>2. CASE DropSchema
    BY <1>2, <2>1, <2>2 DEF DropSchema, SchemaDropped, DatabasesInv, SchemaInv
  <2>3. CASE ~DropSchema
    <3>1. schema.exists => schema'.exists
      BY <1>2, <2>3 DEF SchemaStep, ReconcileSchema, FetchSchema, EnsureSchema,
         SetSchemaOwner, WithSchemaOwner, SetSchemaReady, CheckObjects, SchemaCleanupFails,
         FinalizeSchema, SchemaCallFails, server, DatabasesInv, TypeOK, SharedTypeOK
    <3> QED BY <2>1, <3>1
  <2> QED BY <2>2, <2>3
<1>3. ASSUME DatabasesInv, [Next]_vars, ~DatabaseStep, ~SchemaStep, mishaps' = mishaps
      PROVE  Lossless
  <2>1. mishaps \in Nat
    BY <1>3, DatabasesBounds DEF DatabasesInv, TypeOK, SharedTypeOK
  <2>2. ~Mishap
    BY <1>3, <2>1 DEF Mishap
  <2>3. EmptySchema => schema'.exists = schema.exists /\ db' = db
    BY <1>3 DEF EmptySchema, DatabasesInv, TypeOK, SharedTypeOK
  <2>4. EmptySchema \/ UNCHANGED <<db, schema>>
    BY <1>3, <2>2 DEF Next, vars, shared, server, EditDatabase, EditSchema, CreateResource,
       DeleteDatabase, DeleteSchema, CreateSecret, CreateSQLServer, LoseDependency,
       DriftDatabase, DriftSchema, Restart
  <2> QED BY <2>3, <2>4
<1>4. DatabasesInv /\ [Next]_vars => [Lossless]_vars
  BY <1>1, <1>2, <1>3
<1> QED BY <1>4, DatabasesInvariant, PTL DEF Spec, NothingLost

(* Unless a DROP returned an error or somebody else interfered, a resource  *)
(* with policy Delete that is gone after its deletion has left nothing,     *)
(* whatever edits race with the cleanup.                                    *)
THEOREM DatabasesCleanupCorrect == Spec => CleanedUp
<1>1. ASSUME DatabasesInv, [Next]_vars,
             databaseCR.state = "deleting", databaseCR'.state = "absent",
             databaseCR.spec.policy = "Delete", ~dfailed
      PROVE  ~db.exists
  <2>1. CASE FinalizeDatabase
    BY <1>1, <2>1 DEF FinalizeDatabase, DatabasesInv, DatabaseInv
  <2>2. CASE ~FinalizeDatabase
    <3>1. databaseCR'.state = databaseCR.state
      <4>1. CASE DatabaseStep
        BY <1>1, <2>2, <4>1 DEF DatabaseStep, ReconcileDatabase, FetchDatabase, ResolveServer,
           EnsureDatabase, ReconcileSetting, SetDatabaseReady, SetDatabaseCondition,
           DropDatabase, DropDatabaseFails, DatabaseCallFails, DatabasesInv, TypeOK,
           SharedTypeOK
      <4>2. CASE SchemaStep
        BY <4>2, SchemaStepFrame
      <4>3. CASE EditDatabase
        BY <1>1, <4>3 DEF EditDatabase, DatabasesInv, TypeOK, SharedTypeOK
      <4>4. CASE ~DatabaseStep /\ ~SchemaStep /\ ~EditDatabase
        BY <1>1, <4>4 DEF Next, vars, shared, EditSchema, CreateResource, DeleteDatabase,
           DeleteSchema, CreateSecret, CreateSQLServer, LoseDependency, DriftDatabase,
           DriftSchema, EmptySchema, Restart
      <4> QED BY <4>1, <4>2, <4>3, <4>4
    <3> QED BY <1>1, <3>1
  <2> QED BY <2>1, <2>2
<1>2. ASSUME DatabasesInv, [Next]_vars, Undisturbed,
             schemaCR.state = "deleting", schemaCR'.state = "absent",
             schemaCR.spec.policy = "Delete"
      PROVE  ~schema.exists
  <2>1. CASE FinalizeSchema
    BY <1>2, <2>1 DEF FinalizeSchema, Undisturbed, DatabasesInv, SchemaInv
  <2>2. CASE ~FinalizeSchema
    <3>1. schemaCR'.state = schemaCR.state
      <4>1. CASE SchemaStep
        BY <1>2, <2>2, <4>1 DEF SchemaStep, ReconcileSchema, FetchSchema, EnsureSchema,
           SetSchemaOwner, SetSchemaReady, CheckObjects, DropSchema, SchemaCleanupFails,
           SchemaCallFails
      <4>2. CASE DatabaseStep
        BY <4>2, DatabaseStepFrame
      <4>3. CASE EditSchema
        BY <1>2, <4>3 DEF EditSchema, DatabasesInv, TypeOK, SharedTypeOK
      <4>4. CASE ~DatabaseStep /\ ~SchemaStep /\ ~EditSchema
        BY <1>2, <4>4 DEF Next, vars, shared, EditDatabase, CreateResource, DeleteDatabase,
           DeleteSchema, CreateSecret, CreateSQLServer, LoseDependency, DriftDatabase,
           DriftSchema, EmptySchema, Restart
      <4> QED BY <4>1, <4>2, <4>3, <4>4
    <3> QED BY <1>2, <3>1
  <2> QED BY <2>1, <2>2
<1>3. DatabasesInv /\ [Next]_vars =>
         [Undisturbed =>
             /\ databaseCR.state = "deleting" /\ databaseCR'.state = "absent"
                   /\ databaseCR.spec.policy = "Delete" /\ ~dfailed => ~db.exists
             /\ schemaCR.state = "deleting" /\ schemaCR'.state = "absent"
                   /\ schemaCR.spec.policy = "Delete" => ~schema.exists]_vars
  BY <1>1, <1>2
<1> QED BY <1>3, DatabasesInvariant, PTL DEF Spec, CleanedUp

==============================================================================
