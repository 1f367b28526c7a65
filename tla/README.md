# A verification development of atlas-db

atlas-db is a Kubernetes controller. It reconciles three custom resources:
`DatabaseServer` (a pod or an external host, a service and a secret),
`Database` (a database and its users on a server) and `DatabaseSchema` (a
version of the schema, reached with golang-migrate). This directory holds TLA+
models of its core, the TLC instances that check them, and proofs checked by
TLAPS. `PROJECT.json` lists the runs, the definitions with the lines they stand
for, the hazards and the theorems. Line numbers `:NN` in a module refer to the
file named in its head comment.

## Inventory

| part | state | operations | talks to | what is hard |
|---|---|---|---|---|
| work queues and workers (`controller.go`, `main.go`, client-go `workqueue`) | queue, dirty, processing, channel, heap, failure counts | AddRateLimited, waiting loop, Get, Done, Forget, ShutDown, Run | informer listeners, reconcilers | two workers per queue, full channel, shutdown, crash |
| DatabaseServer reconciler (`databaseServerResource.go`) | none of its own; pod, service, secret, status in the API server | syncServer, syncPodServer, syncService, syncServerSecret, status update, handleObject | listers, API server, garbage collector | stale listers, incarnations with other UIDs, several status writes per sync |
| Database reconciler (`databaseResource.go`) | none of its own; secret and status in the API server | syncDatabase, syncDatabaseSecret, status update | server's secret, passwords in secrets, SQL plugin | partial failure, writes to cached objects, nil dereferences, passwords that change |
| DatabaseSchema reconciler (`databaseSchemaResource.go`) | `dbDriverMap`, `schemaStatusMsg` (globals without a lock) | syncSchema, status update | Database's secret, golang-migrate | stale driver, lost connection, several objects on one database |
| migration engine (vendored golang-migrate) | row of `schema_migrations`, advisory lock, one connection per driver | Migrate, Version, lock with timeout, SetVersion, Run | PostgreSQL | a call cut anywhere, a lock acquired by a call that is over |
| PostgreSQL plugin (`pkg/server/postgres`) | databases and users of the server | SyncDatabase, checkUsers, createuser, CreatePod, Dsn | PostgreSQL | create database, then users: not atomic; users shared by Databases |
| MySQL and RDS plugins (`pkg/server/mysql`, `rds`, `plugin`) | none | SyncDatabase, CreatePod, Dsn, PodImage, choice of the plugin | MySQL | labels, ports and mounts that must fit what others make |
| value sources (`apis/db/v1alpha1/source.go`) | none | Resolve, ToEnvVarSource | secrets, config maps | read at two times for two objects that must agree |
| API types | spec and status of the resources | | | |
| informers, generated clients | caches | watch, resync | API server | caches trail the API server |

How they interact: informers call handlers, which put keys into one of three
queues; two workers per queue take keys and call the reconciler, which reads
the listers and writes to the API server; the writes come back as events. The
secret that a server's sync creates is the input of the Database sync, and the
secret of that one the input of the schema sync; nothing but the resync of the
informer (1 minute in `deploy/atlas-db.yaml`) tells the later ones that it came.

What makes the parts correct: a key is handled by one worker at a time and no
request is lost; status writes from old copies never undo what users do; Success
is only said of what has been true; a database is migrated by one call at a time
and its clean row is true; everything settles once users and faults are quiet.

## Modules

| module | models | runs |
|---|---|---|
| `KeyedWork` | abstract: what a reconciler may rely on from a queue | (refined by `WorkQueue`) |
| `WorkQueue` | one of the three queues with listeners, waiting loop, workers, Run, restart | `work_queue` |
| `WorkQueueProofs` | safety and order of `WorkQueue`, refinement of `KeyedWork` | proofs |
| `Versioned` | abstract: what a database goes through, whoever migrates it | (refined by `Migrate`) |
| `Migrate` | golang-migrate with its PostgreSQL driver, and `dbDriverMap` | `migrate` |
| `MigrateProofs` | safety of `Migrate`, progress of a call, refinement of `Versioned` | proofs |
| `SchemaPromise` | abstract: what users of DatabaseSchema objects may rely on | (refined by `SchemaSync`) |
| `SchemaSync` | syncSchema over `Migrate` (EXTENDS), API server, informer, users | `schema_sync`, `schema_converges`, `schema_dsn` |
| `SchemaSyncProofs` | safety of `SchemaSync`, refinement of `Migrate` and `SchemaPromise` | proofs |
| `ServerSync` | syncServer and handleObject, API server, informers, garbage collector, users | `server_sync`, `server_secret` |
| `ServerSyncProofs` | safety of `ServerSync` | proofs |
| `DatabasePromise` | abstract: what users of Database objects may rely on | (refined by `DatabaseSync`) |
| `DatabaseSync` | syncDatabase, SyncDatabase of the plugins statement by statement, syncDatabaseSecret, API server, informer, users, a SQL server with databases and accounts | `database_sync`, `database_shared`, `database_secret` |
| `DatabaseSyncProofs` | safety of `DatabaseSync`, refinement of `DatabasePromise` | proofs |
| `Endpoints` | what is in pods, services and secrets: plugins, images, ports, labels, DSNs, value sources, and where the DSNs lead | `endpoints` |
| `EndpointsProofs` | safety of `Endpoints` | proofs |
| `Pipeline` | the three reconcilers one after the other: server, Database and schemas, through the secrets that each makes for the next | `pipeline` |
| `PipelineProofs` | safety of `Pipeline` | proofs |

`MC*` modules give the constants of the instances.

### WorkQueue

`queue`, `dirty`, `processing` are the fields of `workqueue.Type`; `inbox` is the
channel and `heap` the priority queue of the delaying queue; `producer[p]` is the
key with which a listener is blocked in `AddAfter`. `Add`, `Done`, `When`,
`Forget` are the functions of those names, used by the actions: `AddRateLimited`
then `AddAfter` (a listener, two steps because the send blocks), `Receive` and
`Fire` (the waiting loop), `Get`, then `SyncOk` or `SyncFails` (a worker),
`StartWorkers`, `Signal`, `ShutDown`, `Exit`, `Crash`, `Restart` (the process).
Time is abstracted: a waiting key may be ready at any moment.

`KeyedWork` is the promise: a request is coalesced with those not served yet, a
key is handled by one worker at a time, and a request is followed by a run that
starts after it. `ImplementsKeyedWork` is checked with its fairness.

### Migrate

A database is the row of `schema_migrations` (`table`), what the migrations made
of it (`content`, `Torn` when a file stopped halfway or ran on the wrong base),
and the session that holds the advisory lock (`holder`). A driver (`conn[s]`) is
an entry of `dbDriverMap`: its connection may be broken, it has its own belief
about the lock, and the goroutine of an abandoned `lock` may still wait on it.
`pc[s]` is the place in `Migrate.Migrate`: lock, check, then mark, run, clean for
each migration, unlock. `LockTimeout` ends the call and leaves the goroutine;
`Acquire` then gives the lock to a session that makes no call. Failures:
`RunFails`, `SetVersionFails` (also the version that cannot be read under the
lock), `UnlockFails`, after which the driver keeps the lock and refuses the next
call, `SessionLost`, `MigrateCrash`. As in the code, the
calls for one schema object are sequential (that is `WorkQueue`'s KeyExclusion)
and those for different objects interleave at every step.

`Versioned` is what all of this comes to for a database, with the calls, the
locks, the drivers and the failures left out: a migration is announced in a clean
row (`Begin`), from the version there to one of its neighbours in the source,
runs once on what it was written for (`Apply`) or stops halfway (`Tear`), and only
when it was run is the row clean again (`Finish`). `Migrate` implements it with the
identity as the mapping: two calls that migrate together, a row cleaned by
another than the call that made it dirty, a neighbour left out or a migration
run twice is a step that `Versioned` does not have.
`Left(s)` is how far the call of `s` is from its end: the migrations that remain,
three steps each, and what is left of the one it is in.

### SchemaSync

`obj` is the API server, `news` the events under way, `cache` the lister. A sync
is `Start` (the copy, the DSN, the source, the driver: nothing of it can be
observed by another process, so it is one step), `ReadVersion`, perhaps
`ReportNil` (the Pending write, after which the sync goes on), the steps of
`Migrate`, `MigrateReturns`, `Report`. `OpenFails` may leave a driver behind (a
source that cannot be opened, `:142-148`), `VersionUnread` leaves it in the map and
`VersionFails` takes it out (`:153-168`). At first an object may be there or not. `current[k]` says whether the copy still
has the resource version of the object: only then does an Update succeed.
Of a status, the state is kept and the message left out: the same Pending or
Error again may or may not be a change, so that both happen in the model, while
Success always has the same message. An own write is an event like any other.
`asked` and `witness` are history variables.

`SchemaPromise` is what users see of it: an object's spec changes when they change
it, its state when the controller reports, and a Success that is written is about
the version that the object asks for at that moment, which some database had, and
was seen to have, since the last Success. Its `seen[k]` is the version of the
copy of a sync that has a `witness`, and nothing without (`SeenBySync`). It does
not say which database: that is `schema_dsn`'s finding. And it does not say that a
Success goes away when the spec is edited, or when another object migrates the
database: it does not, until a sync has looked again.

The queue is the one of `KeyedWork`; one budget, `MaxEvents`, bounds users'
edits and faults together. A lock timeout is a fault while the lock can still
be released; once it is leaked (`HeldIdly`) the timeout needs no budget.

### ServerSync

One server name with its pod, service and secret; servers with other names have
other children. A child is the UID of its controller, or `Foreign`. The lister
of each kind trails the API server on its own. `FindChild` and `CreateChild` are
the two halves of syncPodServer, syncService and syncServerSecret: they have the
same shape, and what differs (the credentials, the owner's kind, who writes a
status before returning) is in `Creatable`, `NoCredentials`, `OwnerKind` and
`WriteTwice`. `Collect` is the garbage collector of Kubernetes, which needs the
kind in the owner reference to look the owner up. `Panic` is the nil plugin.

### DatabaseSync

The objects, their events and the cache are as in `SchemaSync`. A spec keeps the
difference between an empty list of users and none (`listed`): `:165` asks for nil,
while `deploy/crd.yaml:43-48` wants an array. The secret of
each Database has a cache of its own, and those with passwords (`source`) hold a
password, nothing, or not the key that is asked for. `exists` and `account` are
the databases and users of one SQL server, which the Databases share. A sync is
`Start` (the checks, the DSN, the passwords: `StartInVain`, `StartSync`, or
`StartPanics` where a nil server is dereferenced), then one step per SQL
statement of the plugin's `SyncDatabase` (create the database; list its users;
for each user, create the account or alter it in two statements), then
`FindSecret`, `CreateSecret` or `CreateFails`, then `Report`. A statement can be
refused (`SqlRefused`: a role that createuser does not know, an account that
somebody made in between) or its answer be lost, before or after its effect
(`SqlFails`). MySQL has one statement, which is run and reported as a creation
every time, and no users.

`Begin` writes the filled passwords to `cache`, because the object that the
lister returns is the cached one; `WriteStatus` sends them on. What is abstracted:
how the DSN is found is one variable per Database (`inputs`), the server's spec is
the constant `ServerPlugin`, and the text of a status is left out as in
`SchemaSync`. `seen` is a history variable: what this sync has had before its eyes.

`DatabasePromise` is what users see of it: the spec of an object changes only when
they change it, except that passwords from sources are filled in or become old
ones again (`SameButPasswords`); a Success that is written finds the database there, and
each account was seen, since the last Success, with the role and the password of
the very spec that is written; the controller's secret is made once, when its
database is there; no database and no account is ever dropped. `SeenBySync` maps the
`seen` of the code's loop (the index of a user of the copy, and what was seen of
it) to accounts and values. It does not say that roles and passwords stay as they
were seen: another Database may change them in the next statement. Nor does it say
which admin the secret names: that is `SecretWasSo`.

### Endpoints

What the others leave out: the contents of the children. A `spec` has what
`PodPlugin`, `DatabaseServerSpec` and the value sources have; `CreatePod`,
`PodImage`, `PodContainerPort`, `Service`, `Dsn`, `ActivePlugin`,
`DatabasePlugin`, `Resolves`/`Resolved` are the functions of the code, on
records instead of API objects. `SyncPod`, `SyncService`, `SyncServerSecret` and
`SyncDatabaseSecret` create a child from the copy that the sync has, at any time
after the former one is there; the walk itself is `ServerSync`'s and
`DatabaseSync`'s. `map` is the labels map of the cached object, which `Mark`
writes to and `Report` sends to the API server. `Boot` is the kubelet and the
image: it resolves the password a second time, and gives it to the database.
Kubernetes refuses a service without a port, mounts without a volume, and a
variable with both a value and a source (`PodAccepted`, `ServiceAccepted`).
`made` remembers the spec that each child is made from, since nobody compares
children with the spec again: what must hold is about children of one spec.

### Pipeline

What only shows when the reconcilers work one after the other. `root` and `admin`
are the passwords of the specs, `secret` and `dbSecret` the passwords in the two
secrets, `data` what PostgreSQL has: the superuser's password, the database, the
admin's account, the version. `MakePod`, `MakeSecret` are the server's sync,
`DatabaseWaits` to `SyncDatabaseSecret` the Database's, `SchemaWaits` to
`MigrateSchema` the schemas', `driver` is `dbDriverMap`. A sync is split where
another actor can come between: after it has read a secret (`StartDatabase`,
`StartSchema`), between the SQL server and the API server (`SyncDatabase`,
`SyncDatabaseSecret`), between opening a driver and using it. What is finer than
that - statements, status writes, caches that trail, the lock - is in the modules
of the reconcilers; that `Pipeline` agrees with them is by the same lines of the
code, not by a refinement. `PodLost` takes the data along unless they are
`durable`, and breaks the connections. `stale` remembers that a password was
edited under its secret, or under a sync that may make it.

## What the runs check

- `work_queue` (2 keys, 2 workers of which one may hang, 2 listeners, channel of
  1, failure count up to 1, 1 restart): `QueueInv` (the three containers agree, and
  no two workers have one key), `BackoffTracked` (a key that waits nowhere starts
  from the shortest delay), `NoOvertaking` (whatever is added or comes back, a key
  in the queue keeps its place or moves forward), `Served`, `ImplementsKeyedWork`. A channel of 1 makes it full most of the
  time; two keys and two workers give every race of a pair.
- `migrate` (2 schema objects, 2 databases, files for versions 1, 3, 4, targets
  1, 2, 4): neighbours are not consecutive numbers, a target has no files, a
  migration has several steps up and down, and drivers share a database or not.
  Nothing else is bounded. `OneMigrationPerDatabase`, `BeliefsAgree`,
  `CleanMeansApplied`, `OkMeansThere`, `NeverRunsOut` (read finds the next file as
  long as the target is not reached: what is checked of the versions before the
  loop holds in it), `CallsGetOn` (no step of others takes a call that has the
  lock away from its target, each of its own brings it nearer), `ImplementsVersioned`,
  `CallsReturn`.
- `schema_sync` (2 objects on 1 database, present or not, versions 0 and 2 - the
  number that stands for no version too, and a gap - and 1 edit, fault or crash):
  `SuccessIsWitnessed`, `ImplementsMigrate`, so that the theorems about `Migrate`
  hold of the databases the controller migrates, and `ImplementsSchemaPromise`. The
  objects are symmetric. One event at any moment meets each step of a sync of
  either object; that two of them in a row matter is what `migrate` is for,
  which does not bound faults.
- `schema_converges` (2 objects, present or not, 1 database, versions 0 and 2,
  inputs of one object may come late, 1 edit, fault or crash): `Converges`. Its
  excuses are named: dirty database (`Dirty`), no files for the target
  (`Unsourced`), a leaked lock (`Leaked`), another object that wants another version
  (`Contested`), a driver that is connected elsewhere (`Elsewhere`), and version 0
  of a database that has none (`Unversioned`; without it the run fails). `AgreedSpec`
  keeps the run small: objects that are there together want the same, which
  `Contested` would excuse otherwise, and one whose inputs are late has the database
  to itself at first. An edit then changes the version of an object that is alone,
  up or down, or brings or takes away one of two.
- `server_sync` (any plugin, any credentials, 3 events): `SuccessHasPodAndService`,
  `SecretComesLast`, `Recovers`. Three events are enough to delete a server,
  create it again, and crash or fail in between. The excuses of `Recovers`: no
  server, no plugin, an object in the way that nobody will delete.

- `database_sync` (1 Database on 1 server, 2 accounts, 2 passwords, 1 source, 9
  specs, 1 edit, rotation, failed statement or call, or crash):
  `DatabaseComesFirst`, `SecretWasSo`, `ImplementsDatabasePromise`,
  `DatabaseConverges`. The specs cover a password from a source,
  two users, an empty list of users, no list, no admin, a given DSN with and without
  a port, MySQL, and neither server nor DSN. With
  one event every step of a sync meets every edit and failure; the resync, the
  sources and the inputs come on top of it. The excuses of `DatabaseConverges`:
  specs that make the process panic again and again (`CrashLoops`), roles that
  createuser refuses (`Refused`), a secret of somebody else (`Blocked`), accounts
  that two Databases want (`Contested`).
- `database_shared` (2 Databases, 2 workers, 2 specs that share an account and
  disagree on its password, no events and no sources): `SuccessWasSo` for syncs that
  interleave statement by statement; faults and several Databases together are
  the theorem's (`SuccessHasBeenSo`). The Databases are symmetric. In
  `database_sync` there is one Database, so `SecretWasSo` with several is
  `SecretHasBeenSo`.
- `endpoints` (2 servers, 6 specs, labels that name the other server, 1 source, 2
  passwords, 1 edit, rotation or deletion): `ServiceSelectsOwnPod`, `DsnLeads`,
  `LabelsAreTheUsers`, `EndpointOpens`. Two servers are what it takes for a
  service to select the wrong pod; one event at any moment comes between each two
  creations. The excuses of `EndpointOpens`: children of different specs
  (`OneSpec`) or credentials (`rotated`), and specs that Kubernetes or the
  controller refuses (`Complete`).

- `pipeline` (1 server with or without a volume, 1 Database, 2 schemas, 2
  passwords, 1 version, 3 events): `SuccessStands`, `SecretOpens`, `ChainHeals`.
  Three events are what it takes to lose a pod, edit a password and delete a
  secret, in each order; two schemas, for one to migrate what the other has said
  Success of. The excuses of `ChainHeals` (`Apart`): a password edited between
  things that are made from it once, and a row that is dirty - nothing in the code
  repairs these. Deadlock is checked.

The other runs each check a sentence of the code or its documents that the code
does not keep; TLC's trace is the evidence, `findings` quotes the sentence:

- `schema_dsn`: a changed DSN is ignored while the driver is cached.
- `server_secret`: a server without a secret says Success, every other sync.
- `database_secret`: the secret of a Database that is given by a DSN names no host.

What else the models show of the code:

- A sync that fails is not queued again (`SyncFails`; `controller.go:276` only logs
  the error), although comments speak of requeueing: the convergence properties
  hold because of the resync and of the events of status writes.
- The process exits in the middle of a sync: Run and main do not wait for workers.
- After a lock timeout the advisory lock may be held for ever by a session that
  makes no call; other objects of the database time out, and a worker blocks in
  Version behind their abandoned lock statements.
- Version 0 counts as installed when nothing is: Pending (`:162`) and Success
  (`:182`) replace each other for ever, each write being the event that starts the
  next sync, and the files of version 0 are never run.
- An unlock that fails leaves the lock with a driver that refuses every later call
  until its connection or the process ends; its object says Error, others time out.
- `users: []`, the only way to leave users out that `deploy/crd.yaml` lets
  through, makes the process panic in every sync (`databaseResource.go:165`, `:217`);
  `src/README.md:185-186` says that users may leave them out.
- The server's secret has an owner of a kind that does not exist: it is neither
  watched nor collected, and blocks the secret of a new incarnation.
- A Database without a server panics after its database was created (the event at
  `databaseResource.go:149` names the server), with MySQL in every sync; so do
  users without an admin and an empty list of them (`:217`), a serverType without server or DSN (`:110`), and
  users with a DSN that has no user or port (`getHostAndPort`, `:228-230`).
- An edit between the creations of two children, or a rotated password, leaves
  them apart for good: nothing compares them with the spec again.
- A colon in the image, be it that of a registry's port, makes PodImage ignore the
  version.

Every property of a passing run has a mutant of the code that breaks it; the
mutants stand before the definitions they replace.

`CHECK_DEADLOCK FALSE`: a `WorkQueue` that has used its restarts has stopped, so
has the controller without objects, and `schema_sync` reaches the state in which
every worker waits behind a leaked lock; liveness properties, not deadlock, say
what must go on.

## Fairness

- Goroutines that can run do: waiting loop, listeners, workers whose handler
  returns, statements of a call (weak fairness). No fairness on events, faults,
  crashes, signals.
- In `SchemaSync`, strong fairness of `StartSync`: a worker is free again and
  again, and the queue serves in order - that is `NoOvertaking`, which
  `ServedInOrder` proves; `KeyedWork` has the same strong fairness, which
  `work_queue` shows to be implemented. Strong
  fairness of `MigrateStep`: PostgreSQL serves those who wait for a lock in turn.
- The resync of the informers: `deploy/atlas-db.yaml` sets it to one minute.
- `DatabaseSync` assumes what `SchemaSync` does. In `Endpoints` the creations and
  `Refresh` are weakly fair, because the resync starts syncs again and again;
  that they start and get that far is what `Recovers` and `DatabaseConverges` say.
  `Boot` is: the kubelet retries. `Pipeline` is the same: one sync of each object
  goes on, or starts again, for ever.
- Missing secrets come in the end; the convergence properties are about that case.
- The garbage collector of Kubernetes runs.

## What is proved

For all sets of keys, workers, listeners, every channel capacity
(`WorkQueueProofs`):

- `TypeCorrect`, `QueueSafety` and its corollary `OneWorkerPerKey`. The argument:
  `ContainersAgree` alone does not bound how many workers hold a key, exclusion
  alone does not say that a key in the queue is held by none; their conjunction,
  `QueueInv`, is inductive with the types. `Get` takes the head, which is dirty
  and, by `ContainersAgree`, not processed.
- `ServedInOrder`: `Get` takes from the front and everything else appends to the
  back, so no key that waits ever moves back. With `QueueIsBounded` (the queue has
  no duplicates, so with finitely many keys it is never longer than their number)
  this bounds how many Gets of others come before that of a key that waits.
- `BackoffIsForgotten`: the invariant `BackoffTracked`.
- `QueueIsKeyedWork`: every step of `WorkQueue` is a step of `KeyedWork` or a
  stutter. Its liveness part stays with TLC.

For all sets of schema objects, databases, versions with files and targets
(`MigrateProofs`), from `MigrateIInv`:

- `MigrateTypeCorrect`, `LockBeliefsAgree`, `MigrationsExclude`,
  `CleanRowsAreTrue`, `OkCallsAreThere`, `RunsAreMarked`, `DirtyRowsStay`. The
  argument:
  `CleanMeansApplied` is kept by a call only if nobody else touched the database
  since its last step (`CallInv`); that follows from exclusion, exclusion from
  the agreement of the drivers' `isLocked` with the server (`BeliefsAgree`), and
  that from `Connected`: a call inside the lock has a working connection.
- `CallsAim`: a call with the lock stands at a version of the source (or none) and
  its target is in the source (`CallAims`). The code checks this once, in Check and
  versionExists; the loop of read relies on it at every file.
- `ReadNeverRunsOut`: from that, there is a next file until the target is reached.
  A nonempty set of versions above the present one has a least element: that is
  well-founded induction, used as the library's `WFMin` on the order of the
  naturals, which needs no operator as a parameter (`LeastElement`; downwards,
  `GreatestElement`).
- `LockedCallsGetOn`: the next file is between here and the target, so the finite
  set of those that remain loses one (`NeighbourIsNearer`), and `Left` falls with
  each step of the call. A natural number that falls cannot do so for ever: this is
  the safety half of `CallsReturn`, for sources of every size. That a call makes its
  next step is fairness, and left to TLC.
- `MigrateIsVersioned`: each action is one of `Versioned`'s or a stutter. `Mark` is
  Begin because the version it starts from is the row's (`CallInv`); `RunMigration`
  is Apply because the content is still the version before (`CallInv` again, hence
  exclusion); what a failure leaves is Tear or a stutter.

For all sets of schema objects and databases, every number of workers and of
events (`SchemaSyncProofs`), from `SyncIInv`:

- `SyncTypeCorrect`; `SchemaSyncIsMigrate`: every step of the reconciler, the
  users and the faults is a step of `Migrate` or a stutter, because a call is made
  only by the sync that waits for it, for the version of its copy (`CallAgrees`).
  Hence `ControllerMigratesSafely`, `ControllerMigratesInOrder` and
  `ControllerCallsGetOn`: the theorems about `Migrate` hold of the databases the
  controller migrates.
- `SchemaPromiseIsKept`: the reconciler implements `SchemaPromise`. A status write
  that is stored carries the current object (`CopyIsCurrent`), so it is a Report and
  its verdict about the version asked for now; Success was seen (`SuccessIsKnown`)
  by this sync, which keeps its copy to the end (`SnapStays`).
- `SpecStaysTheUsers`: a copy is current only while it equals the object in the
  API server, and the last event under way, or the cache, is that object
  (`CacheFollows`, `CopyIsCurrent`); so no status write undoes an edit.
- `SuccessWasTrue`: wherever a sync is about to conclude Success, the row was seen
  as wanted (`SuccessIsKnown`); that a row without a version is not dirty
  (`NilIsClean`) is needed for version 0.

For every plugin and any number of events (`ServerSyncProofs`), from `ServerIInv`:

- `ServerTypeCorrect`, with no UID used before it is given (`RangesOK`).
- `SuccessIsOwn`, `SecretIsLast`: whatever the API server, an event or a lister
  shows of this incarnation's children was created for it (`ChildrenAreMade`), and
  a sync with a copy of this incarnation has come as far as its step says
  (`OrderKept`). A stale lister can hide a child, never invent one.

For all sets of Databases, accounts, sources, passwords and specs, every number
of workers and of events (`DatabaseSyncProofs`), from `DatabaseInv`:

- `DatabaseTypeCorrect`, `SpecStaysButPasswords`: as for schemas, a copy is
  current only while it equals the object in the API server, but for passwords
  (`CopiesAgree`, `SpecIsAsked`).
- `SuccessHasBeenSo`, `SecretHasBeenSo`: where `SyncDatabase` has come to user i,
  the accounts of the users before i have been seen as they should be
  (`SeenSoFar`). For an account that exists this takes both `ALTER USER`s
  of checkUsers, for one that does not the `CREATE USER`; what other
  Databases do to it later cannot undo that it was seen.
- `DatabaseIsFirst`: a sync that is past the first statement has its database
  (`InPlace`), and so has every object, event or copy that says Success and every
  secret (`IsFirst`), because no statement drops a database.
- `DatabasePromiseIsKept`: every step of the reconciler, the users and the faults
  is a step of `DatabasePromise`. A status write that is stored differs from the
  object in the API server in state and passwords only (`CopiesAgree`); where its
  verdict is Success, `SeenSoFar` has reached the last user of the copy that is
  written (`DutiesAreSeen`), and the copy has not changed since the sync began
  (`SnapStays`), so that what was seen is about its spec; only `CreateSecret`
  makes a secret of the controller's (`SecretIsMade`), and `EffectFacts` of the SQL
  statements gives that nothing is dropped.

For all sets of servers, specs, labels, sources and credentials, and every number
of events (`EndpointsProofs`), from `EndpointsInv`:

- `EndpointsTypeCorrect`; `ServicesSelectOwnPods`; `DsnsLead`. The argument: each
  child is what the code makes of the spec in `made` (`PodIsMade`, `ServiceIsMade`,
  `SecretIsMade`), so children of one spec agree on port, plugin and selector; a
  service that Kubernetes took has a port, so that the pod has the same one, not
  the default. `PasswordsAgree`: both resolutions of a source give one value
  unless it changed after it had one.
- `LabelsStayTheUsers`: the labels in the API server, and those of a current copy,
  are the user's with at most the controller's keys put over them (`LabelsGrow`).

For all sets of schemas and passwords, every version and every number of events
(`PipelineProofs`), from `PipelineInv`:

- `PipelineTypeCorrect`; `SuccessIsTrueOrCutOff`: a driver that is open has its
  database, and whoever opened it concludes Success only at the version
  (`DriverIs`); another schema changes the version to the same one, or marks it
  dirty only if it was another.
- `SecretStaysGood`: without an edit under it, the secret, the sync that may make
  it and the account all have the password of the spec (`SecretIs`); the sync has
  to be in it, because a secret can be deleted while a sync is about to make it.

The assumptions are the named ASSUMEs of the modules: versions are natural
numbers (`deploy/crd.yaml:88-90`), `None` and `NoObj` are no keys, objects or
values, capacities are positive, and the texts that stand for what a source
lacks are no passwords.

Only model-checked, because the prover does not reach it: liveness under fairness
(`Served`, `CallsReturn`, `Converges`, `Recovers`, `DatabaseConverges`,
`EndpointOpens`, `ChainHeals`) and the liveness half of
`ImplementsKeyedWork`. Of `Served` and `CallsReturn` the part that is not about
fairness is proved: nobody is overtaken, and a call with the lock comes nearer to
its end with each step. Every invariant and every action property that a run
checks is a theorem.

## Not modelled

- Messages, logs, metrics, events for humans, flags. Where a message decides
  whether a status changes, both outcomes are in the model.
- Code that nothing calls: deleteUser, DiffPod, RDSPlugin.Dsn, Up, Down, Steps,
  Drop and Force of golang-migrate; functions that are empty: DeleteDatabase,
  SyncCloud.
- Generated code (deep copies, typed clients, informers, listers) and client-go,
  but for what the controller sees of them: caches trail the API server, an
  Update with an old resource version fails, a Create meets AlreadyExists, events
  of an object arrive in order, a start lists everything.
- The connections that SyncDatabase of MySQL leaves open: they are not counted,
  a server that refuses more is a failed statement.
- Time: delays, the resync period, the lock timeout may pass at any moment.
- Data races on `dbDriverMap` and on labels of cached objects are a crash at any
  moment (what Go makes of concurrent map writes); that on `schemaStatusMsg`
  only affects a text and is left out.

## Plan

1. Done: the three queues, the three reconcilers, the plugins, value sources, the
   migration engine, and the chain of the reconcilers; the safety of each module
   is proved, and that `Migrate` implements `Versioned`, `SchemaSync`
   `SchemaPromise` and `DatabaseSync` `DatabasePromise`.
2. Left: a promise like these for `ServerSync`; an abstract
   reconciler that `DatabaseSync` and `SchemaSync` implement and
   `Pipeline` is made of, so that their agreement is checked; several Databases on
   the server of `Pipeline`.
