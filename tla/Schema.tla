-------------------------------- MODULE Schema --------------------------------
(***************************************************************************)
(* The Schema controller.  It does not resolve sqlServerRef, and knows of  *)
(* the database only that USE fails without it.  Its connections return to *)
(* the pool with the database selected, and the pool is closed when        *)
(* Reconcile returns.                                                      *)
(***************************************************************************)
EXTENDS SQLDatabases

VARIABLES
    spc,       \* the next round trip of the running Reconcile
    smine,     \* its copy of the spec
    sfresh,    \* whether the resource version is still that of the copy
    sconn,     \* whether a connection of its pool is in the database
    stouched   \* history: an administrator changed the schema meanwhile

schemaReconcile == <<spc, smine, sfresh, sconn, stouched>>

SchemaTypeOK ==
    /\ spc \in {"idle", "observe", "owner", "ready", "objects", "drop", "finalize"}
    /\ smine \in SchemaSpec
    /\ sfresh \in BOOLEAN
    /\ sconn \in BOOLEAN
    /\ stouched \in BOOLEAN

SchemaInit ==
    /\ spc = "idle"
    /\ smine = NoSchemaSpec
    /\ sfresh = TRUE
    /\ sconn = FALSE
    /\ stouched = FALSE

SchemaReturn(requeue) ==
    /\ spc' = "idle"
    /\ smine' = NoSchemaSpec
    /\ sfresh' = TRUE
    /\ sconn' = FALSE
    /\ stouched' = FALSE
    /\ schemaQueued' = (schemaQueued \/ requeue)

------------------------------------------------------------------------------
(* As FetchDatabase.                                                        *)
FetchSchema ==
    /\ spc = "idle" /\ schemaQueued /\ schemaCR.state # "absent"
    /\ schemaQueued' = FALSE
    /\ schemaCR' = IF schemaCR.state = "new"
                   THEN [schemaCR EXCEPT !.state = "live"] ELSE schemaCR
    /\ smine' = schemaCR.spec
    /\ spc' = IF schemaCR.state # "deleting" THEN "observe"
              ELSE IF schemaCR.spec.policy = "Delete" THEN "objects" ELSE "finalize"
    /\ UNCHANGED <<sfresh, sconn, stouched, server, dependencies, databaseCR, databaseQueued,
                   edits, mishaps>>

(* SchemaExists, then CreateSchema.  Missing credentials are waited for;    *)
(* a missing database is an error.                                          *)
EnsureSchema ==
    /\ spc = "observe"
    /\ IF credentials /\ UseDatabase
       THEN /\ schema' = IF schema.exists THEN schema ELSE CreateSchema(smine)
            /\ sconn' = TRUE
            /\ spc' = "owner"
            /\ UNCHANGED <<smine, sfresh, stouched, schemaQueued>>
       ELSE SchemaReturn(credentials) /\ UNCHANGED schema
    /\ UNCHANGED <<db, dependencies, databaseCR, schemaCR, databaseQueued, edits, mishaps>>

(* GetSchemaOwner and SetSchemaOwner, if the spec names an owner.           *)
SetSchemaOwner ==
    /\ spc = "owner"
    /\ IF smine.owner # 0 /\ ~schema.exists
       THEN SchemaReturn(TRUE) /\ UNCHANGED schema
       ELSE /\ schema' = IF smine.owner = 0 THEN schema
                         ELSE WithSchemaOwner(smine.owner)
            /\ spc' = "ready"
            /\ UNCHANGED <<smine, sfresh, sconn, stouched, schemaQueued>>
    /\ UNCHANGED <<db, dependencies, databaseCR, schemaCR, databaseQueued, edits, mishaps>>

SetSchemaReady ==
    /\ spc = "ready"
    /\ SchemaReturn(TRUE)
    /\ UNCHANGED <<server, dependencies, databaseCR, schemaCR, databaseQueued, edits, mishaps>>

------------------------------------------------------------------------------
(* handleDeletion with policy Delete.                                       *)

(* Mutant: a blocked deletion is not tried again.                           *)
CheckObjectsOnce ==
    /\ spc = "objects"
    /\ IF credentials /\ SchemaHasObjects
       THEN SchemaReturn(FALSE)
       ELSE /\ spc' = IF credentials THEN "drop" ELSE "finalize"
            /\ sconn' = (credentials /\ UseDatabase)
            /\ UNCHANGED <<smine, sfresh, stouched, schemaQueued>>
    /\ UNCHANGED <<server, dependencies, databaseCR, schemaCR, databaseQueued, edits, mishaps>>

(* Objects block the deletion, and it is tried again later.  Without the    *)
(* credentials nothing is cleaned up; when the check fails, for want of the *)
(* database, DROP SCHEMA is sent all the same.                              *)
CheckObjects ==
    /\ spc = "objects"
    /\ IF credentials /\ SchemaHasObjects
       THEN SchemaReturn(TRUE)
       ELSE /\ spc' = IF credentials THEN "drop" ELSE "finalize"
            /\ sconn' = (credentials /\ UseDatabase)
            /\ UNCHANGED <<smine, sfresh, stouched, schemaQueued>>
    /\ UNCHANGED <<server, dependencies, databaseCR, schemaCR, databaseQueued, edits, mishaps>>

(* An error of DROP SCHEMA is logged only.                                  *)
DropSchema ==
    /\ spc = "drop"
    /\ schema' = SchemaDropped
    /\ spc' = "finalize"
    /\ UNCHANGED <<smine, sfresh, sconn, stouched, db, dependencies, databaseCR, schemaCR,
                   databaseQueued, schemaQueued, edits, mishaps>>

SchemaCleanupFails ==
    /\ Mishap
    /\ \/ spc = "objects" /\ spc' \in {"drop", "finalize"}
       \/ spc = "drop" /\ spc' = "finalize"
    /\ UNCHANGED <<smine, sfresh, sconn, stouched, server, dependencies, databaseCR, schemaCR,
                   databaseQueued, schemaQueued, edits>>

FinalizeSchema ==
    /\ spc = "finalize"
    /\ schemaCR' = IF sfresh THEN AbsentSchema ELSE schemaCR
    /\ SchemaReturn(~sfresh)
    /\ UNCHANGED <<server, dependencies, databaseCR, databaseQueued, edits, mishaps>>

------------------------------------------------------------------------------
SchemaCallFails ==
    /\ spc \notin {"idle", "objects", "drop"}
    /\ Mishap
    /\ SchemaReturn(TRUE)
    /\ UNCHANGED <<server, dependencies, databaseCR, schemaCR, databaseQueued, edits>>

ReconcileSchema ==
    \/ FetchSchema \/ EnsureSchema \/ SetSchemaOwner \/ SetSchemaReady
    \/ CheckObjects \/ DropSchema \/ SchemaCleanupFails \/ FinalizeSchema \/ SchemaCallFails

==============================================================================
