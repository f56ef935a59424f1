------------------------------- MODULE Database -------------------------------
(***************************************************************************)
(* The Database controller.  A read and the statement it decides are one   *)
(* step: nobody but administrators changes the outcome in between.         *)
(***************************************************************************)
EXTENDS SQLDatabases

VARIABLES
    dpc,       \* the next round trip of the running Reconcile
    dmine,     \* its copy of the spec
    dfresh,    \* whether the resource version is still that of the copy
    dexisted,  \* exists: whether it found the database
    dleft,     \* the settings it has still to reconcile
    dfailed,   \* whether DROP DATABASE returned an error, which is only logged
    dtouched   \* history: an administrator changed the database meanwhile

databaseReconcile == <<dpc, dmine, dfresh, dexisted, dleft, dfailed, dtouched>>

DatabaseTypeOK ==
    /\ dpc \in {"idle", "resolve", "observe", "settings", "drop", "finalize"}
    /\ dmine \in DatabaseSpec
    /\ dfresh \in BOOLEAN
    /\ dexisted \in BOOLEAN
    /\ dleft \subseteq Setting
    /\ dfailed \in BOOLEAN
    /\ dtouched \in BOOLEAN

DatabaseInit ==
    /\ dpc = "idle"
    /\ dmine = NoDatabaseSpec
    /\ dfresh = TRUE
    /\ dexisted = FALSE
    /\ dleft = {}
    /\ dfailed = FALSE
    /\ dtouched = FALSE

(* Reconcile returns; an error or a requeue interval puts the key back.     *)
DatabaseReturn(requeue) ==
    /\ dpc' = "idle"
    /\ dmine' = NoDatabaseSpec
    /\ dfresh' = TRUE
    /\ dexisted' = FALSE
    /\ dleft' = {}
    /\ dfailed' = FALSE
    /\ dtouched' = FALSE
    /\ databaseQueued' = (databaseQueued \/ requeue)

(* setConditionAndReturn: only Ready=True is followed by another pass.      *)
SetDatabaseCondition(reason) ==
    /\ databaseCR' = [databaseCR EXCEPT !.reason = reason]
    /\ DatabaseReturn(reason = "Ready")

------------------------------------------------------------------------------
(* Mutant: without a policy in the spec the database goes.                  *)
FetchDatabaseDropByDefault ==
    /\ dpc = "idle" /\ databaseQueued /\ databaseCR.state # "absent"
    /\ databaseQueued' = FALSE
    /\ databaseCR' = IF databaseCR.state = "new"
                     THEN [databaseCR EXCEPT !.state = "live"] ELSE databaseCR
    /\ dmine' = databaseCR.spec
    /\ dpc' = IF databaseCR.state # "deleting" THEN "resolve" ELSE "drop"
    /\ UNCHANGED <<dfresh, dexisted, dleft, dfailed, dtouched, server, dependencies,
                   schemaCR, schemaQueued, edits, mishaps>>

(* Get, the finalizer, and where handleDeletion starts.  A conflict on the  *)
(* Update is an error and a retry: the same as to have read the resource    *)
(* later.                                                                   *)
FetchDatabase ==
    /\ dpc = "idle" /\ databaseQueued /\ databaseCR.state # "absent"
    /\ databaseQueued' = FALSE
    /\ databaseCR' = IF databaseCR.state = "new"
                     THEN [databaseCR EXCEPT !.state = "live"] ELSE databaseCR
    /\ dmine' = databaseCR.spec
    /\ dpc' = IF databaseCR.state # "deleting" THEN "resolve"
              ELSE IF databaseCR.spec.policy = "Delete" THEN "drop" ELSE "finalize"
    /\ UNCHANGED <<dfresh, dexisted, dleft, dfailed, dtouched, server, dependencies,
                   schemaCR, schemaQueued, edits, mishaps>>

(* Without the SQLServer it refers to, or without credentials, the resource *)
(* is not looked at again until an event.                                   *)
ResolveServer ==
    /\ dpc = "resolve"
    /\ \/ /\ ~Resolved(dmine)
          /\ SetDatabaseCondition("ConnectionFailed")
       \/ /\ Resolved(dmine) /\ ~credentials
          /\ SetDatabaseCondition("SecretNotFound")
       \/ /\ Reachable(dmine)
          /\ dpc' = "observe"
          /\ UNCHANGED <<dmine, dfresh, dexisted, dleft, dfailed, dtouched, databaseCR,
                         databaseQueued>>
    /\ UNCHANGED <<server, dependencies, schemaCR, schemaQueued, edits, mishaps>>

(* The pass that creates the database leaves these for the next one.        *)
SkippedWhenCreated == {"recoveryModel", "compatibilityLevel"}

(* Mutant: the owner, too, is left for the next pass.                       *)
DueOnlyIfExisted(spec, existed) == {s \in DOMAIN spec.settings : existed}

Due(spec, existed) == {s \in DOMAIN spec.settings : existed \/ s \notin SkippedWhenCreated}

(* DatabaseExists, then CreateDatabase.                                     *)
EnsureDatabase ==
    /\ dpc = "observe"
    /\ dexisted' = db.exists
    /\ db' = IF db.exists THEN db ELSE CreateDatabase(dmine)
    /\ dleft' = Due(dmine, db.exists)
    /\ dpc' = "settings"
    /\ UNCHANGED <<dmine, dfresh, dfailed, dtouched, schema, dependencies, databaseCR,
                   schemaCR, databaseQueued, schemaQueued, edits, mishaps>>

(* The order of the sections of Reconcile.                                  *)
Position == [owner |-> 1, recoveryModel |-> 2, compatibilityLevel |-> 3, option |-> 4]

(* Get and, if the value differs, set; an error if the database is gone, of *)
(* which an option that is read as OFF and wanted OFF takes no notice.      *)
ReconcileSetting(s) ==
    /\ dpc = "settings" /\ s \in dleft
    /\ \A t \in dleft : Position[s] <= Position[t]
    /\ LET differs == Observed(s) # dmine.settings[s]
       IN  IF ~db.exists /\ (s # "option" \/ differs)
           THEN DatabaseReturn(TRUE) /\ UNCHANGED db
           ELSE /\ db' = IF differs THEN WithSetting(s, dmine.settings[s]) ELSE db
                /\ dleft' = dleft \ {s}
                /\ UNCHANGED <<dpc, dmine, dfresh, dexisted, dfailed, dtouched, databaseQueued>>
    /\ UNCHANGED <<schema, dependencies, databaseCR, schemaCR, schemaQueued, edits, mishaps>>

(* The collation of a database that was there is compared last.             *)
CollationDiffers == dexisted /\ dmine.collation \notin {0, db.collation}

(* An error if the database whose collation is to be compared is gone.      *)
SetDatabaseReady ==
    /\ dpc = "settings" /\ dleft = {}
    /\ IF dexisted /\ dmine.collation # 0 /\ ~db.exists
       THEN DatabaseReturn(TRUE) /\ UNCHANGED databaseCR
       ELSE SetDatabaseCondition(IF CollationDiffers THEN "CollationChangeNotSupported"
                                 ELSE "Ready")
    /\ UNCHANGED <<server, dependencies, schemaCR, schemaQueued, edits, mishaps>>

------------------------------------------------------------------------------
(* handleDeletion with policy Delete.  DROP DATABASE IF EXISTS fails while  *)
(* anyone is connected to the database; every error is logged and the       *)
(* finalizer removed all the same.                                          *)
DropDatabase(inUse) ==
    /\ dpc = "drop"
    /\ IF Reachable(dmine) /\ ~inUse
       THEN db' = NoDatabase /\ schema' = NoSchema /\ UNCHANGED dfailed
       ELSE dfailed' = TRUE /\ UNCHANGED server
    /\ dpc' = "finalize"
    /\ UNCHANGED <<dmine, dfresh, dexisted, dleft, dtouched, dependencies, databaseCR, schemaCR,
                   databaseQueued, schemaQueued, edits, mishaps>>

DropDatabaseFails ==
    /\ dpc = "drop"
    /\ Mishap
    /\ dfailed' = TRUE
    /\ dpc' = "finalize"
    /\ UNCHANGED <<dmine, dfresh, dexisted, dleft, dtouched, server, dependencies, databaseCR,
                   schemaCR, databaseQueued, schemaQueued, edits>>

(* Mutant: the finalizer is removed without the version check.              *)
FinalizeDatabaseBlind ==
    /\ dpc = "finalize"
    /\ databaseCR' = AbsentDatabase
    /\ DatabaseReturn(FALSE)
    /\ UNCHANGED <<server, dependencies, schemaCR, schemaQueued, edits, mishaps>>

(* The Update that removes the finalizer; a conflict is an error.           *)
FinalizeDatabase ==
    /\ dpc = "finalize"
    /\ databaseCR' = IF dfresh THEN AbsentDatabase ELSE databaseCR
    /\ DatabaseReturn(~dfresh)
    /\ UNCHANGED <<server, dependencies, schemaCR, schemaQueued, edits, mishaps>>

------------------------------------------------------------------------------
(* A call fails, before or after the server executed it, and Reconcile      *)
(* returns the error.                                                       *)
DatabaseCallFails ==
    /\ dpc \notin {"idle", "drop"}
    /\ Mishap
    /\ DatabaseReturn(TRUE)
    /\ UNCHANGED <<server, dependencies, databaseCR, schemaCR, schemaQueued, edits>>

ReconcileDatabase(inUse) ==
    \/ FetchDatabase \/ ResolveServer \/ EnsureDatabase
    \/ \E s \in Setting : ReconcileSetting(s)
    \/ SetDatabaseReady \/ DropDatabase(inUse) \/ DropDatabaseFails \/ FinalizeDatabase \/ DatabaseCallFails

==============================================================================
