------------------------------ MODULE Databases -------------------------------
(***************************************************************************)
(* A Database, a Schema in it, the two controllers, and what happens       *)
(* around them: users edit, delete and create the resources and what they  *)
(* depend on, administrators and applications change the server, the       *)
(* operator restarts.                                                      *)
(***************************************************************************)
EXTENDS Database, Schema

vars == <<shared, databaseReconcile, schemaReconcile>>

TypeOK == SharedTypeOK /\ DatabaseTypeOK /\ SchemaTypeOK

Init == SharedInit /\ DatabaseInit /\ SchemaInit

------------------------------------------------------------------------------
(* Users.                                                                   *)

Edit == edits < MaxEdits /\ edits' = edits + 1

(* Webhooks are off by default: every field may change, also while the      *)
(* resource is being deleted.                                               *)
EditDatabase ==
    /\ databaseCR.state # "absent"
    /\ Edit
    /\ \E spec \in DatabaseSpecs \ {databaseCR.spec} :
          databaseCR' = [databaseCR EXCEPT !.spec = spec]
    /\ databaseQueued' = TRUE
    /\ dfresh' = (dpc = "idle")
    /\ UNCHANGED <<dpc, dmine, dexisted, dleft, dfailed, dtouched, server, dependencies,
                   schemaCR, schemaQueued, mishaps, schemaReconcile>>

EditSchema ==
    /\ schemaCR.state # "absent"
    /\ Edit
    /\ \E spec \in SchemaSpecs \ {schemaCR.spec} : schemaCR' = [schemaCR EXCEPT !.spec = spec]
    /\ schemaQueued' = TRUE
    /\ sfresh' = (spc = "idle")
    /\ UNCHANGED <<spc, smine, sconn, stouched, server, dependencies, databaseCR,
                   databaseQueued, mishaps, databaseReconcile>>

CreateResource ==
    /\ Edit
    /\ \/ /\ databaseCR.state = "absent"
          /\ \E spec \in DatabaseSpecs : databaseCR' = NewDatabase(spec)
          /\ databaseQueued' = TRUE
          /\ UNCHANGED <<schemaCR, schemaQueued>>
       \/ /\ schemaCR.state = "absent"
          /\ \E spec \in SchemaSpecs : schemaCR' = NewSchema(spec)
          /\ schemaQueued' = TRUE
          /\ UNCHANGED <<databaseCR, databaseQueued>>
    /\ UNCHANGED <<server, dependencies, mishaps, databaseReconcile, schemaReconcile>>

(* A resource without finalizer goes at once.                               *)
DeleteDatabase ==
    /\ databaseCR.state \in {"new", "live"}
    /\ databaseCR' = IF databaseCR.state = "new" THEN AbsentDatabase
                     ELSE [databaseCR EXCEPT !.state = "deleting"]
    /\ databaseQueued' = TRUE
    /\ UNCHANGED <<server, dependencies, schemaCR, schemaQueued, edits, mishaps,
                   databaseReconcile, schemaReconcile>>

DeleteSchema ==
    /\ schemaCR.state \in {"new", "live"}
    /\ schemaCR' = IF schemaCR.state = "new" THEN AbsentSchema
                   ELSE [schemaCR EXCEPT !.state = "deleting"]
    /\ schemaQueued' = TRUE
    /\ UNCHANGED <<server, dependencies, databaseCR, databaseQueued, edits, mishaps,
                   databaseReconcile, schemaReconcile>>

(* The watch maps the Secret to the resources that name it: not to a        *)
(* Database that names it through its SQLServer.                            *)
CreateSecret ==
    /\ ~credentials
    /\ credentials' = TRUE
    /\ databaseQueued' = (databaseQueued \/ ~databaseCR.spec.byRef)
    /\ schemaQueued' = TRUE
    /\ UNCHANGED <<server, sqlServer, databaseCR, schemaCR, edits, mishaps,
                   databaseReconcile, schemaReconcile>>

(* Nothing watches SQLServers on behalf of Databases.  Without a Database   *)
(* that refers to it the SQLServer is of no interest.                       *)
CreateSQLServer ==
    /\ ~sqlServer /\ databaseCR.spec.byRef
    /\ sqlServer' = TRUE
    /\ UNCHANGED <<server, credentials, databaseCR, schemaCR, databaseQueued, schemaQueued,
                   edits, mishaps, databaseReconcile, schemaReconcile>>

LoseDependency ==
    /\ Mishap
    /\ \/ credentials /\ credentials' = FALSE /\ UNCHANGED sqlServer
       \/ databaseCR.spec.byRef /\ sqlServer /\ sqlServer' = FALSE /\ UNCHANGED credentials
    /\ UNCHANGED <<server, databaseCR, schemaCR, databaseQueued, schemaQueued, edits,
                   databaseReconcile, schemaReconcile>>

------------------------------------------------------------------------------
(* Administrators, who disconnect everybody before they drop a database     *)
(* (settings that no spec names are of no interest), applications, which    *)
(* fill and empty the schema, and restarts.                                 *)

DriftDatabase ==
    /\ db.exists
    /\ Mishap
    /\ \/ db' = NoDatabase /\ schema' = NoSchema /\ sconn' = FALSE
       \/ /\ \E s \in DOMAIN databaseCR.spec.settings, v \in Value :
                db' = [db EXCEPT !.settings[s] = v]
          /\ UNCHANGED <<schema, sconn>>
    /\ dtouched' = (dpc # "idle")
    /\ stouched' = (spc # "idle")
    /\ UNCHANGED <<dependencies, databaseCR, schemaCR, databaseQueued, schemaQueued, edits,
                   dpc, dmine, dfresh, dexisted, dleft, dfailed, spc, smine, sfresh>>

DriftSchema ==
    /\ schema.exists
    /\ Mishap
    /\ \/ schema' = NoSchema
       \/ schema' = [schema EXCEPT !.objects = TRUE]
       \/ \E o \in 1..2 : schema' = [schema EXCEPT !.owner = o]
    /\ stouched' = (spc # "idle")
    /\ UNCHANGED <<db, dependencies, databaseCR, schemaCR, databaseQueued, schemaQueued, edits,
                   spc, smine, sfresh, sconn, databaseReconcile>>

EmptySchema ==
    /\ schema.objects
    /\ schema' = [schema EXCEPT !.objects = FALSE]
    /\ UNCHANGED <<db, dependencies, databaseCR, schemaCR, databaseQueued, schemaQueued, edits,
                   mishaps, databaseReconcile, schemaReconcile>>

(* Both Reconciles are lost; the new process queues every resource.         *)
Restart ==
    /\ Mishap
    /\ DatabaseReturn(TRUE)
    /\ SchemaReturn(TRUE)
    /\ UNCHANGED <<server, dependencies, databaseCR, schemaCR, edits>>

------------------------------------------------------------------------------
DatabaseStep == ReconcileDatabase(sconn) /\ UNCHANGED schemaReconcile
SchemaStep   == ReconcileSchema /\ UNCHANGED databaseReconcile

Next ==
    \/ DatabaseStep \/ SchemaStep
    \/ EditDatabase \/ EditSchema \/ CreateResource \/ DeleteDatabase \/ DeleteSchema
    \/ CreateSecret \/ CreateSQLServer \/ LoseDependency
    \/ DriftDatabase \/ DriftSchema \/ EmptySchema \/ Restart

Spec == Init /\ [][Next]_vars

(* A queued key is reconciled in the end.                                   *)
FairSpec == Spec /\ WF_vars(DatabaseStep) /\ WF_vars(SchemaStep)

------------------------------------------------------------------------------
(* Properties.                                                              *)

(* What the controller can bring about: an option that is wanted OFF looks  *)
(* as if it were.                                                           *)
Corrected(spec) ==
    {s \in DOMAIN spec.settings : s # "option" \/ spec.settings[s] # 0}

(* Whenever a controller is about to report Ready, what it manages exists   *)
(* and is as its copy of the spec asks, unless an administrator interfered; *)
(* the pass that creates a database has left out two settings.              *)
AppliedWhenReady ==
    /\ dpc = "settings" /\ dleft = {} /\ ~CollationDiffers /\ ~dtouched =>
          /\ db.exists
          /\ dmine.collation \in {0, db.collation}
          /\ \A s \in Corrected(dmine) :
                \/ db.settings[s] = dmine.settings[s]
                \/ ~dexisted /\ s \in {"recoveryModel", "compatibilityLevel"}
    /\ spc = "ready" /\ ~stouched =>
          /\ db.exists /\ schema.exists
          /\ smine.owner \in {0, schema.owner}

(* Nobody's data is lost by mistake: the controllers drop a database only   *)
(* while its resource is being deleted and the copy they read says Delete,  *)
(* and never a schema with objects, unless with its database.               *)
NothingLost ==
    [][mishaps' = mishaps =>
          /\ db.exists /\ ~db'.exists =>
                databaseCR.state = "deleting" /\ dmine.policy = "Delete"
          /\ schema.exists /\ ~schema'.exists /\ db'.exists =>
                /\ schemaCR.state = "deleting" /\ smine.policy = "Delete"
                /\ ~schema.objects]_vars

Undisturbed == mishaps = 0

(* "the SQL Server objects are not orphaned": unless a DROP returned an     *)
(* error or somebody else interfered, finalized resources with policy       *)
(* Delete leave nothing behind, also when the policy was edited during the  *)
(* deletion.                                                                *)
CleanedUp ==
    [][Undisturbed =>
          /\ databaseCR.state = "deleting" /\ databaseCR'.state = "absent"
                /\ databaseCR.spec.policy = "Delete" /\ ~dfailed => ~db.exists
          /\ schemaCR.state = "deleting" /\ schemaCR'.state = "absent"
                /\ schemaCR.spec.policy = "Delete" => ~schema.exists]_vars

(* The controller waits for an event that will not come.                    *)
Stuck ==
    \/ databaseCR.reason \in {"ConnectionFailed", "CollationChangeNotSupported"}
    \/ databaseCR.reason = "SecretNotFound" /\ databaseCR.spec.byRef

(* Drift and edits reach the server in the end, except for a Database whose *)
(* condition says why not; a Schema waits for its database to exist.  And a *)
(* deletion is only ever held up by objects in the schema, never by the     *)
(* database, the credentials or the other controller.                       *)
Converges ==
    <>[]( /\ databaseCR.state = "live" /\ Reachable(databaseCR.spec) /\ ~Stuck =>
                /\ db.exists
                /\ \A s \in Corrected(databaseCR.spec) :
                      db.settings[s] = databaseCR.spec.settings[s]
          /\ schemaCR.state = "live" /\ credentials /\ db.exists =>
                schema.exists /\ schemaCR.spec.owner \in {0, schema.owner}
          /\ databaseCR.state # "deleting"
          /\ schemaCR.state = "deleting" => schema.objects )

==============================================================================
