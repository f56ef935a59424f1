# Verification of the MSSQL Kubernetes operator

TLA+ models of the controllers of this operator, the TLC runs that check them
on small instances, and proofs checked by TLAPS. Paths below are relative to
the repository (`internal/controller/...`).

## 1. Inventory

The operator is one process with a set of `controller-runtime` controllers.
Each controller takes a resource from its work queue and runs `Reconcile`: it
reads the resource (through an informer cache), reads and changes SQL Server
over one connection, and patches the status. There are no locks and no
transactions: every SQL statement and every Kubernetes call is a step of its
own, and other controllers, users, administrators, SQL Server itself, outages
and restarts of the operator come in between.

| Component | State | Operations | Interacts with | Hard behaviour |
|---|---|---|---|---|
| AvailabilityGroup controller (`availabilitygroup_controller.go`) | status (primary, fencing and failover times, Ready), pod labels | create the group, join replicas, observe, rejoin, label, automatic failover | SQL instances, pods, AGFailover (reads), lease | decisions on roles read one replica at a time; lost patches |
| Split-brain fencing (`ag_fencing.go`) | lastFencedReplica, lastFencingTime, consecutiveFencingCount | collect roles and LSNs, tie-break, cut traffic, demote or DROP | the same Reconcile | repeated rounds, cooldown, circuit breaker, escalation |
| AGFailover controller | phase, previousPrimary | one planned or forced failover | the instances, and fencing (which looks at its phase) | crash between the command and the patch |
| SQLServer controller | finalizer, Ready, copied primary; ConfigMap, Services, StatefulSet, AvailabilityGroup resource, pod labels | five phases: objects, certificates, AG resource, labels, probe; a probe alone for external servers | Kubernetes (pods, volumes), AvailabilityGroup controller (labels, endpoints, primary), users | every phase may be the last of a pass; objects lost behind its back; what is not watched |
| Failover lease (`tryAcquireLease`) | a Lease | take, renew, take over | several operator instances | time, lost updates |
| Permission controller | finalizer, Ready | GRANT, DENY, REVOKE; revoke on deletion | administrators, users | works on a snapshot; partial failure; cleanup racing edits |
| Backup, Restore controllers | phase, times | one BACKUP, or one or two RESTORE statements | Secrets, work queue, ScheduledBackup | one-shot across crashes, stale cache |
| ScheduledBackup controller | active Backup, last time, counters, history | create Backups when due, follow them, retention | Backup resources | crash between create and patch, limits, suspension |
| Login controller | finalizer, version of the password Secret | create, rotate, default database, server roles; drop or retain on deletion | Secrets, DatabaseUser through SQL | rotation during a Reconcile; deletion racing new users |
| DatabaseUser controller | finalizer, Ready | create, database roles; drop on deletion | Login resource, and the login through SQL | order of creation; owned objects; drift |
| Database controller | finalizer, Ready | create, owner, recovery model, compatibility level, options, in this order; drop or retain on deletion | SQLServer and Secret it refers to, Schema through SQL | steps skipped by the creating pass; a DROP refused because of a connection; conditions without a retry |
| Schema controller | finalizer | create, owner; drop unless it has objects | Database through SQL | the database dropped under it; objects created between check and DROP |
| Certificates (`sqlserver_certificates.go`) | Secrets; on each replica a key, a certificate, an endpoint and the certificates of the others | generate or wait for, set up each replica, exchange | SQLServer controller (it is phase 2), endpoint of the AvailabilityGroup controller | three statements per peer, an interruption between them |
| Webhooks, authentication, quoting, metrics, start-up | none that outlives a call | validation, escaping, wiring | | |

What makes each correct, in short: of two primaries the one with more log
survives, fencing neither hits that one nor goes on for ever, the read-write
label follows the primary, failovers, backups and restores run once and end,
a status says Ready only when it is so, permissions, logins and users converge to the spec and go
with it, the password in force is the one whose version is recorded, nothing
is dropped that no policy said to drop, a cluster is Ready with its objects in
place, its replicas able to talk to each other and its Service on the primary,
a schedule creates one Backup per due time, counts it once and keeps what
retention promises. `PROJECT.json` lists under "hazards" the lines where
each of these could go wrong.

## 2. Modules

| Module | Models |
|---|---|
| `AGCluster` | the instances (role, LSN, up or down; external) and the Kubernetes objects the HA controllers share; the AG statements of `internal/sql/client.go`; outages, recoveries, rogue promotions, cooldowns |
| `AvailabilityGroup` | `Reconcile` with fencing and automatic failover, one action per round trip |
| `AGFailover` | the AGFailover controller |
| `ReplicaLabels` | phases 3 and 4 of `reconcileManaged`: the copied primary and the labels |
| `HighAvailability` | the composition of the four, operator crashes, fairness, the properties |
| `MCHighAvailability` | instances of it for TLC |
| `HighAvailabilityProofs` | theorems about it |
| `Permission`, `PermissionProofs` | the Permission controller, and theorems |
| `JobPhases` | the phases of a Backup or Restore |
| `OneShotJob` | abstract: what a Backup or Restore promises |
| `BackupJob`, `BackupJobProofs` | both controllers as one state machine, and that it implements `OneShotJob` |
| `ScheduledBackup`, `ScheduledBackupProofs` | the schedule, over Backups that do what `OneShotJob` allows, and theorems |
| `SQLPrincipals` | a login, a user, their resources, the password Secret and the work queue |
| `Login`, `DatabaseUser` | the two controllers |
| `Principals` | their composition with users, administrators and restarts; the properties |
| `MCPrincipals` | an instance of it for TLC |
| `PrincipalsProofs` | theorems about it |
| `SQLDatabases` | a database, a schema in it, their resources, the SQLServer and the Secret they need, the work queue |
| `Database`, `Schema` | the two controllers |
| `Databases`, `MCDatabases` | their composition with users, administrators and applications; the properties; an instance for TLC |
| `DatabasesProofs` | theorems about it |
| `ServerCluster` | a SQLServer, the objects built from it, pods, and what each replica knows of the others |
| `Certificates` | phase 2 of `reconcileManaged` |
| `ManagedServer` | the SQLServer controller around it |
| `ManagedCluster`, `MCManagedCluster` | its composition with Kubernetes, the AvailabilityGroup controller (as far as it matters here), users and accidents; the properties; instances for TLC |
| `ManagedClusterProofs` | theorems about it |
| `FailoverLease` | `tryAcquireLease` in several operator instances |

How state and actions correspond to the code:

* A controller has a program counter (`pc`, `fpc`, `labelling`, `lpc`, `upc`, `dpc`, `spc`): the next
  round trip of the `Reconcile` under way, "idle" between two. The other
  variables of a controller are `Reconcile`'s locals; `Return` clears them.
  One `Reconcile` per resource runs at a time, as the work queue guarantees.
* Two or more calls are one action only where nothing that happens between
  them could matter: reading the Secret and connecting, an event and the patch
  before it.
* A resource is a record with the fields that decisions or properties depend
  on. Status patches are merge patches: only the changed fields are written,
  without a version check. `Update` (finalizers) carries the resource version
  and fails if the resource has changed since it was read (`Fresh`).
* A failing call is a step that leaves the server's state alone, or changes it
  and still returns an error, where a timeout can cause that. A crash of the
  operator clears all locals.
* History variables (`fences`, `dropped`, the various `touched`, `drift`, `ended`)
  are only read by properties; so are `attempts` and `outdated`, but for the
  bound on the latter.

Abstractions to keep in mind:

* HA: an LSN is a small number that grows with `Write`; times are the two
  cooldown windows, which may lapse at any moment once started; the empty role
  of an unreachable replica is "unreachable". Reads of the Kubernetes objects
  are not delayed. Databases of the group, the listener and the deletion path
  are left out; endpoints are in `ManagedCluster`.
* Permission: a securable is a pair of permission and target. `Qualified` are
  the targets written `OBJECT::schema.name`. The two lists of a spec are
  disjoint, since nothing says what a resource with an entry in both asks for.
* Backup, Restore: an empty phase is "Pending". The resource is read through the
  informer cache: every version is on its way (`coming`) until the watch has
  delivered it, in order, and a `Reconcile` starts from whatever version is
  there. `outdated` counts those that go on with an old one, and `MaxOutdated`
  bounds them. A merge patch leaves out a field that has the same value in the
  copy it is made from, so that a patch made from an outdated copy may change
  nothing; the answer to a patch replaces that copy.
* ScheduledBackup: time in ticks; a Backup's name and its creation time are the
  tick at which `Reconcile` read the clock. The cache of the schedule may hold
  any version since the last one read (`older`), counted and bounded as above;
  Backups are read without delay, and behave as `OneShotJob` says of a job whose
  controller reads no outdated copy. Deleting the schedule itself (garbage
  collection by Kubernetes) is left out. The requeue intervals are abstracted to
  "at any time".
* Principals: a password is the version of the Secret it came from. A security
  identifier matters only through whether the user's is the login's. The
  conditions of a Login, which nothing reads, are left out, and so is a password
  changed by an administrator, which cannot be read back. A conflict on the
  Update that adds the finalizer is a retry from the start, hence no step. A
  call that fails after the server executed it is the step that executes it,
  followed by a failure. `MaxMishaps` bounds drift, failing calls, missing
  credentials and restarts together.
* Databases: a setting (owner, recovery model, compatibility level, an option)
  has two values. A `Reconcile` of the Schema holds a connection in the database
  while it works there, which makes DROP DATABASE fail. The conditions of a
  Schema, which nothing reads, are left out.
* ManagedCluster: of an object only what `Reconcile` compares is kept (0 if it is
  absent). A check and the statement it decides are one step. A certificate is
  the number of the volume it was made on, so that a replica with a new volume
  has a new one. Pods are ready or not; "up" stands for both existing and
  ready. The AvailabilityGroup controller elects a primary and, while it reaches
  the primary, creates a plain endpoint on any replica of the group that has none
  (step 5 of `Reconcile` does so on the primary, `joinSecondaries` on the others);
  `HighAvailability` has the rest. Deleting the SQLServer is final. `MaxMishaps`
  bounds interruptions and losses together.
* FailoverLease: all instances read the same clock; a failover is one step in
  which the lease may run out.

## 3. What is checked

### Passing runs

| Run | Checks | Bounds |
|---|---|---|
| `ha_core` | `TypeOK`, `FencingInv`, `CircuitBreaker`, `CreatedOnce`, `FencingSparesLegitimate`, `HardFencingOnlyRepeats`, `SplitBrainResolved`, `LabelsFollowPrimary` | 2 replicas, 2 faults, rogue promotions, failing commands, limit of 2 fencing attempts, fairness |
| `ha_managed` | `OneShot`, `FailoverTerminates` | managed cluster, planned and forced failovers, 1 fault, no promotion behind the operator's back, fairness |
| `perm_core` | `TypeOK`, `AppliedWhenReady`, `CleanedUp`, `UnchangedLeftAsIs`, `PermissionsConverge` | 2 securables, 2 edits, a drift, a fault, fairness |
| `job_core` | `TypeOK`, `AttemptsAccounted`, `ImplementsOneShot`, `JobFinishes` | two statements, 3 events, 3 faults, 2 outdated reads, fairness |
| `sched_core` | `TypeOK`, `CountedOnce`, `OneAtATime`, `RetentionEnforced`, `RetentionKeeps`, `ActiveResolved` | 3 due times, 1 edit or deletion, 1 interruption, 1 outdated read, keep 1, age limit, history of 2, fairness |
| `principals_core` | `TypeOK`, `PasswordTracked`, `AppliedWhenReady`, `CleanedUp`, `Converges`, `DeletionProceeds` | a login and a user, 1 role, 2 versions of the Secret, 1 edit or creation, 1 mishap, deletions, fairness |
| `databases_core` | `TypeOK`, `AppliedWhenReady`, `NothingLost`, `CleanedUp`, `Converges` | a database and a schema, 1 edit or creation, 1 mishap, deletions, Secret and SQLServer coming and going, fairness |
| `managed_core` | `TypeOK`, `BuiltWhenReady`, `EndpointsCertified`, `Converges` | six specs with up to 3 replicas, 1 edit or deletion, 1 mishap, fairness |

The bounds are chosen so that each interesting case happens. Two replicas make
a split brain; a tie-break with a bystander needs three, and there the theorems
of section 4, which hold for any number of replicas, say more than a run could;
`v_circuit_breaker` has three. With a limit of 2 attempts, 3 promotions open
the circuit breaker. Two securables let one entry flip while another is left
alone. Three due times overflow a history of 2, and retention of 1 deletes; an
interruption and an outdated read can each make an orphan, and meet in one
behaviour. Two statements are the most a job has, and two outdated reads let a
job that was finished and started again be misled once more. Two versions of
the Secret give a rotation
at every point of a Reconcile, and with one edit the policy changes during a
deletion or a deleted resource is created again; one role is enough because
roles are handled one by one and independently. Specs of one, two and three
replicas let one edit scale a cluster up or down, or take it to a single
instance, an external server or foreign certificates, and one mishap hits every
step of that; three replicas are the least with a pair that a scaling does not
touch. Every property has a mutant of the code in `PROJECT.json` that breaks it
under the same bounds.

### Where the code and its documents disagree

These runs end in a counterexample; each is a finding in `PROJECT.json` with
the sentence it contradicts.

| Run | What happens |
|---|---|
| `v_circuit_breaker` | with two rogues in a round only the last is recorded, and the breaker never opens for the other |
| `v_labels` | in a managed cluster two controllers write different labels for ever |
| `v_mesh` | an interruption between the import of a peer's certificate and the login or the grant made from it is never repaired, and the cluster is Ready with one replica refusing another |
| `v_lease` | the holder of the failover lease renews it after another instance has taken it over, and both fail over |

Behaviour of the code that the models show and no property promises otherwise;
the hazards of `PROJECT.json` give the lines:

* The guard that suspends fencing during an AGFailover is evaluated once, before
  the roles are collected: a failover that starts after it can meet a fencing
  command. Conversely, a rogue promotion during a forced failover can let hard
  fencing drop the failover's target; the AGFailover then stays Running, and
  fencing suspended, for ever. `FailoverTerminates` is checked without such
  promotions.
* FencingExhausted is overwritten by the Reconcile that sets it, and a primary
  that differs from the status is corrected in memory only.
* Automatic failover promotes the first reachable replica, not the one with the
  most log, and does so beside another primary if the recorded one is down.
* If the primary of the status is hard-fenced, the patch that records it is lost
  and the replica that was kept goes down, the next pass finds the group absent on
  the primary it knows of and creates it there again, beside the old one, although
  `docs/explanation/architecture.md:119` says that such a replica "rejoins it as a
  secondary on the next cycle". It takes three faults; `CreatedOnce` therefore
  leaves out replicas in `dropped`, and the theorem says that this is the only way.
* `previousPrimary` may name a replica that never was primary.
* A healthy group is compared with SYNCHRONIZED where SQL Server reports
  HEALTHY, so it does not become Ready.
* An entry moved between the lists of a Permission is applied, then revoked from
  the snapshot taken before, and Ready is reported
  (`permission_controller.go:164`, against "New entries are GRANTed or DENYed"
  in `docs/how-to/manage-schemas-permissions.md:96`): `AppliedWhenReady` leaves
  out such entries, and `PermissionsConverge` shows that the next pass heals it.
  An entry in both lists is granted and denied in turn for ever.
* Errors of the REVOKEs on deletion are logged only: `CleanedUp` is stated for
  deletions that no fault and no administrator disturbs. A grant on
  `OBJECT::schema.name` is revoked by every second Reconcile (`Qualified` is
  empty in `perm_core`).
* A restart between the statement and the final patch executes a backup or
  restore again (which `OneShotJob` therefore allows), and an interruption
  between the two patches of a start loses StartTime. A `Reconcile` that starts
  from an outdated cache, for instance because of a Secret event that came while
  the job ran, executes a completed job again, although
  `docs/how-to/backup-restore.md:122` says "never re-executed"; one such read can
  cost two further attempts, and leave the job in phase Running for good.
  `AttemptsAccounted` says that this is the only way and what it costs at most.
  When the second statement of a point-in-time restore fails, the database stays
  in RESTORING, and Failed is final.
* An interruption between Create and the patch leaves a Backup that the schedule
  never counts, and makes another one for the same due time; so does an outdated
  read of the schedule. `OneAtATime` and `RetentionEnforced` say that each of the
  two causes no more than one such Backup. The counters are computed from the
  copy, so that `CountedOnce` ends with the first outdated read. `suspend`
  is looked at before the active Backup: one that finishes under suspension
  stays the active one, and uncounted, until the schedule runs again.
* The check for dependent users and DROP LOGIN are two calls. A user created in
  between is orphaned, although `docs/how-to/manage-logins-users.md:104` says
  that the deletion is blocked. If the check fails the DROP is sent all the
  same, and errors of both DROPs are logged only: `CleanedUp` of `Principals`
  is stated for deletions without a mishap.
* UserExists goes by the name: once its login was dropped and created again, a
  user stays mapped to the old identifier and is reported Ready.
* A DatabaseUser that did not find its Login resource is not requeued, and
  nothing wakes it when the Login appears; `Converges` leaves it out.
* The same holds of a Database that did not find its SQLServer or its Secret.
* The pass that creates a database skips recovery model and compatibility level
  and reports Ready; the requeue that follows applies them.
* An option is read by its SET name, which `DATABASEPROPERTYEX` does not know: one
  wanted OFF is never corrected (against `docs/explanation/architecture.md:40`),
  one wanted ON is set again in every pass.
* A DROP DATABASE that the server refuses, for instance because the Schema
  controller has a connection there, is logged and the finalizer removed:
  `CleanedUp` speaks of a DROP that returned no error. A Schema takes its server
  from `server`, and does not know `sqlServerRef`, which
  `docs/how-to/deploy-sql-server.md:96` offers for every resource.
* With `CertManager` the controller waits for Secrets of Certificates that it
  never creates, although `docs/how-to/high-availability.md` says "you can let it
  manage the HADR certificates". The self-signed Secrets are created and never
  used: SQL Server makes the certificates that are exchanged.
* A replica that comes back with an empty volume makes a new certificate, and the
  others keep the old one; if it is in the group, the AvailabilityGroup controller
  may give it an endpoint without certificate first. `EndpointsCertified` and
  `MeshWhenReady` speak of volumes that stay.
* A scaled cluster keeps the replica list of the day its AvailabilityGroup
  resource was created. The headless Service is never updated. Webhooks, which
  forbid some of the edits explored here, are off by default.
* A managed server made external keeps its finalizer, and its deletion never
  ends. A cluster whose availabilityGroup is removed goes on probing the last
  primary it knew. A server that misses saPasswordSecret is not requeued, and
  that Secret is not watched. `Converges` leaves out these three.
* A failing probe leaves Ready as it was.

### Fairness

`HighAvailability`: weak fairness of each controller (the work queue runs every
resource again: all of them return a requeue interval or an error), of the
lapse of the cooldowns (time passes), and of recovery and settling of an
instance (Kubernetes restarts pods; RESOLVING ends). Users, promotions, writes
and faults are not obliged to happen, and the last are bounded: liveness says
what happens once they stop. `Permission`: weak fairness of `Reconcile`, which
requeues itself. `BackupJob`: weak fairness of `Reconcile`, enabled only while
the queue holds the request (an error puts it back, a normal return does not),
and of the watch. `ScheduledBackup`: weak fairness of `Reconcile`, and of the
Backups, which `JobFinishes` justifies. Outdated reads are bounded like faults:
liveness says what happens once the cache has caught up. `Principals`: weak
fairness of each controller, whose
first step needs a queued key; a return puts the key back only where the code
returns an error or a requeue interval, otherwise an event must. `Databases`:
the same. `ManagedCluster`: the same, and of the StatefulSet controller and the
election of a primary; Secrets, certificates of others, edits and losses are
not obliged to happen. `FailoverLease` has safety only. Deadlock is an error in
`HighAvailability` and `ScheduledBackup`; elsewhere deleted or finished
resources end the system.

## 4. What is proved

TLAPS checks these for every value of the constants that satisfies the ASSUMEs
of the modules: any number of replicas (two or more, distinct), any bounds, any
configuration.

| Theorem | States |
|---|---|
| `TypeCorrect` | `Spec => []TypeOK` of `HighAvailability` |
| `FencingInvariant` | `FencingInv` is an invariant |
| `TiebreakCorrect` | `LegitimateHasHighestLSN` |
| `FencingSparesLegitimateCorrect` | `FencingSparesLegitimate` |
| `HardFencingOnlyRepeatsCorrect` | `HardFencingOnlyRepeats` |
| `OneShotCorrect` | `OneShot` for AGFailover |
| `PermissionTypeCorrect` | `TypeOK` of `Permission` |
| `AppliedWhenReadyCorrect` | `AppliedWhenReady` |
| `UnchangedLeftAsIsCorrect` | `UnchangedLeftAsIs`, if no target is schema-qualified |
| `CleanupCorrect` | `CleanedUp`: an undisturbed deletion leaves no permission behind |
| `JobTypeCorrect` | `TypeOK` of `BackupJob` |
| `AttemptsAccountedCorrect` | `AttemptsAccounted` |
| `ImplementsOneShotCorrect` | `BackupJob` implements `OneShotJob` |
| `PrincipalsTypeCorrect` | `TypeOK` of `Principals` |
| `PasswordTrackedCorrect` | `PasswordTracked` |
| `CreatedOnceCorrect` | `CreatedOnce` |
| `CircuitBreakerCorrect` | `CircuitBreaker`, if there are two replicas |
| `PrincipalsAppliedCorrect`, `PrincipalsCleanupCorrect` | `AppliedWhenReady` and `CleanedUp` of `Principals` |
| `DatabasesTypeCorrect` | `TypeOK` of `Databases` |
| `DatabasesAppliedCorrect`, `NothingLostCorrect`, `DatabasesCleanupCorrect` | `AppliedWhenReady`, `NothingLost` and `CleanedUp` of `Databases` |
| `ManagedTypeCorrect` | `TypeOK` of `ManagedCluster` |
| `EndpointsCertifiedCorrect`, `BuiltWhenReadyCorrect` | `EndpointsCertified` and `BuiltWhenReady` |
| `ScheduleTypeCorrect` | `TypeOK` of `ScheduledBackup` |
| `RetentionKeepsCorrect` | `RetentionKeeps` |
| `CountedOnceCorrect`, `OneAtATimeCorrect`, `RetentionEnforcedCorrect` | `CountedOnce`, `OneAtATime` and `RetentionEnforced` |

Two theorems have a hypothesis. With three replicas `CircuitBreaker` fails
(`v_circuit_breaker`), and with schema-qualified targets `UnchangedLeftAsIs`
does (section 3). Those about `BackupJob` and `ScheduledBackup` hold however
late the cache and whatever is interrupted.

The arguments:

* Fencing. `FencingInv` is the conjunction of `ScanInv` (while the LSNs are
  read, `legit` is the best of those read so far, and there are at least two
  candidates), `RogueInv` (the replicas still to be fenced reported PRIMARY and
  are not `legit`) and `WindowInv` (during the cooldown the last fenced
  replica, in the stored status and in the copy of `Reconcile`, was really sent
  a command in this window). `LegitimateHasHighestLSN` alone is not inductive:
  it speaks of the end of the scan. `WindowInv` has to follow the status
  through lost patches and crashes, which is why it mentions both copies.
  `ha_core` checks `FencingInv` first.
* AGFailover. `WorkingInv`: a `Reconcile` under way works on an unfinished
  failover.
* Permission. Along the three loops, the securables a loop has passed are as
  the spec wants, those not sent are unchanged since the snapshot, unless an
  administrator changed them; on deletion, what was revoked stays revoked while
  the resource cannot be finalized with an outdated list.
* Backup and Restore. `CacheInv`: the last version on its way to the cache is the
  current one; `GoneInv`: a version without the resource is the last. `PhaseInv`:
  while no `Reconcile` has started from an outdated cache, one past its first read
  works on a job that never ended, past the first patch on a Running one (or a
  deleted one). `ResultInv`: the server holds what this `Reconcile` executed;
  `SentInv` bounds the statements. `AttemptInv` accounts for attempts before they
  are made: an unfinished job has one to go, and so has a `Reconcile` that was
  misled. An outdated read pays for two because the final patch leaves the phase
  out if the cache shows Completed; `NotArrived` says when it cannot. The
  refinement maps the phase to itself, `done` to "the result is complete" and
  `outdated` to "it happened"; every action is a step of `OneShotJob` or a stutter.
* Password. `PasswordInv`: no version in use is newer than the Secret's; a
  `Reconcile` works with a version at least as new as the one recorded, and
  the recorded one is still that of its copy; once it has created the login,
  set the password or found the versions equal, the login, if it exists, has
  the password it read. So the final patch records a version that is in force,
  and a rotation after the read leaves a difference for the next `Reconcile`.
* Creation of the group. `HostedInv`: every replica the controller may take for
  the primary (in the stored status, in its copy, among the roles it read, as the
  candidate of a failover) hosts the group or lost it to hard fencing, and the
  first replica of the spec is the first to host it. Having hosted the group is
  for ever, so that stale copies do no harm.
* Circuit breaker. `BreakerInv`: a replica has been fenced no more often in a row
  than the record in the status says, plus the round under way, plus one per
  crash or lost patch; and the replica a round keeps has a count of zero. The
  status records one replica. With two, the one that is fenced is the one
  recorded; with three, a round that fences two forgets one of them, and this is
  the step where the proof, like the code, fails.
* Login and DatabaseUser. `AppliedInv`: while nobody touches the server, the login
  (user) exists, has the database and what is left to do is exactly the
  difference of its roles and those of the copy, which `RoleDiffStep` carries
  through each statement. The copy is the resource until somebody edits it
  (`lfresh`), so that the policy that decided about the DROP is still the one in
  the resource when the finalizer goes.
* Database and Schema. `DatabaseInv` and `SchemaInv` do the same for settings and
  owners, and in addition tie the two controllers together: while the Schema
  controller works in the database it holds a connection, so that the other one
  cannot drop it; a schema that exists was made with credentials that are still
  there. A DROP is only under way for a resource being deleted.
* Managed cluster. `LoopInv` bounds the indices of the two loops over the replicas
  by the copy of the spec. `EndpointInv`: while no volume is lost, a replica that
  was set up keeps its endpoint, and the group lists only such replicas, so that
  the other controller finds nothing to create. `ObjectsInv` and `CertsInv` follow a pass
  step by step, as long as nobody touches what it built: the objects written, the
  replicas set up, the pairs visited. `MeshInv`: without mishaps no import is left
  half done, except the one under way.
* Schedule. `SweepInv`: what the cleanup listed stays deletable, because Backups
  only get older and more (a deleted one counts as one of the newer ones).
  `StatusInv`: without an outdated read, the counters of the copy are those of the
  resource until they are written, the history is increasing and as long as the
  counters say; `TotalInv`: then the total misses at most one Backup per fault.
  `MadeInv` says when Backups are made and when one can be active, whatever was
  read. `CostInv` carries `OneAtATime`: each mishap pays for one orphan and one
  second Backup, and pays in advance. A `Reconcile` that is `Misled` (the Backup it
  follows is no longer the active one, or none is due) owes one, and so does a
  status that is behind the Backups made (`Ahead`); a step that makes an orphan
  ends one of these debts. `RetentionInv` does the same for the Backups the
  cleanup has to care for (`Loose`), and says that the list it works off is long
  enough, which `NewestFew` shows by an injection into 1..MaxCount.

The strengthened invariants were checked with TLC on the instances of the runs
before they were proved.

Only model-checked: liveness (`SplitBrainResolved`, `LabelsFollowPrimary`,
`FailoverTerminates`, `PermissionsConverge`, `JobFinishes`, `ActiveResolved`, the
three `Converges`, `DeletionProceeds`), since reasoning under fairness is beyond
the prover, and what the violation runs refute. Every safety property of a
passing run is a theorem.

## 5. Not modelled, and the plan

Not modelled: the layout of StatefulSets, Services and ConfigMaps beyond what
is compared, generation of keys, Azure authentication (reported as unsupported
by the SQLServer controller), quoting, metrics, start-up; generated code and the
mock client. Webhooks validate one object at a time and are off by default, so
that the models explore the edits they would refuse. Of the AvailabilityGroup
controller, the databases of the group, the listener and the deletion path are
left out: each is a statement on the replica believed to be primary, whose
error is logged and ignored, and no decision modelled here depends on it.

Next:

1. `FailoverLease`: that two instances never both hold the lease if no renewal
   comes after a takeover, which is the hypothesis that `v_lease` refutes for the
   code as it is.
2. `CircuitBreaker` for any number of replicas while rounds have one rogue.
3. `MeshWhenReady` from the invariants of `ManagedClusterProofs`, if no
   interruption falls between the statements of an import.
