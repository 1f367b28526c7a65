----------------------------- MODULE SchemaSync ------------------------------
(***************************************************************************)
(* The DatabaseSchema reconciler (databaseSchemaResource.go) on top of     *)
(* golang-migrate: the API server's objects, the informer's cache that     *)
(* trails them, the users who edit them, and the workers that run          *)
(* syncSchema, each step of which can interleave with all the others.      *)
(*                                                                         *)
(* The work queue is the one of KeyedWork: a set of pending keys, handled  *)
(* by at most MaxWorkers workers, one worker per key.  Resource versions   *)
(* are abstracted to what the API server makes of them: an Update is       *)
(* refused unless the copy it carries is still the current one, and an     *)
(* Update that changes nothing makes no event.                             *)
(***************************************************************************)
EXTENDS Migrate, Sequences, FiniteSets

CONSTANTS NoObj,        \* no such DatabaseSchema object
          MaxWorkers,   \* schema workers (2 in main.go)
          Late,         \* the objects whose secrets may be missing at first
          MaxEvents     \* bound: edits, deletions and creations by users, failed
                        \* statements, broken connections, lock timeouts, failed
                        \* Opens and crashes, all together

ASSUME SchemaSyncAssumption == MaxWorkers \in Nat \ {0} /\ MaxEvents \in Nat

VARIABLES
    obj,       \* obj[k]: the object in the API server
    news,      \* news[k]: watch events not yet delivered to the informer
    cache,     \* cache[k]: what the lister returns
    inputs,    \* inputs[k]: the secrets and objects its DSN and source need exist
    pending,   \* the schema queue
    step,      \* step[k]: where syncSchema is for k
    snap,      \* snap[k]: the cached object the sync works on
    current,   \* current[k]: snap[k] is still the object in the API server
    verdict,   \* verdict[k]: the status about to be written
    asked,     \* history: asked[k], what users want k to be, NoObj if deleted
    witness,   \* history: witness[k], the row was at snap[k]'s version and clean
               \* at some moment of this sync
    events     \* how many of them there were

apiVars    == <<obj, news, asked>>
cacheVars  == <<cache, pending>>
syncVars   == <<step, snap, current, verdict>>
vars == <<migrateVars, apiVars, cacheVars, inputs, syncVars, witness, events>>

Wants == [db : Databases, version : Targets]

\* Status.State, empty in a new object.  Status.Message is left out.
States == {"", "Pending", "Success", "Error"}
Objects == [want : Wants, state : States]
ASSUME NoObjAssumption == NoObj \notin Objects

Steps == {"idle", "version", "nil", "migrating", "report"}
Busy == {k \in Schemas : step[k] # "idle"}

Init ==
    /\ MigrateInit
    /\ asked \in [Schemas -> Wants \cup {NoObj}]
    /\ obj = [k \in Schemas |-> IF asked[k] = NoObj THEN NoObj
                               ELSE [want |-> asked[k], state |-> ""]]
    /\ cache = obj
    /\ news = [k \in Schemas |-> <<>>]
    /\ inputs \in [Schemas -> BOOLEAN] /\ \A k \in Schemas \ Late : inputs[k]
    /\ pending = {k \in Schemas : obj[k] # NoObj}
    /\ step = [k \in Schemas |-> "idle"]
    /\ snap = [k \in Schemas |-> NoObj]
    /\ current = [k \in Schemas |-> FALSE]
    /\ verdict = [k \in Schemas |-> ""]
    /\ witness = [k \in Schemas |-> FALSE]
    /\ events = 0
-----------------------------------------------------------------------------
Happens == events < MaxEvents /\ events' = events + 1

\* The API server stores o as the object of k.
Store(k, o) == obj' = [obj EXCEPT ![k] = o] /\ news' = [news EXCEPT ![k] = Append(@, o)]

\* Users create, edit and delete objects (kubectl apply keeps the status).
Edit(k) ==
    /\ Happens
    /\ current' = [current EXCEPT ![k] = FALSE]
    /\ \/ /\ obj[k] # NoObj
          /\ \E w \in Wants \ {obj[k].want} :
                Store(k, [obj[k] EXCEPT !.want = w]) /\ asked' = [asked EXCEPT ![k] = w]
       \/ /\ obj[k] = NoObj
          /\ \E w \in Wants :
                Store(k, [want |-> w, state |-> ""]) /\ asked' = [asked EXCEPT ![k] = w]
       \/ obj[k] # NoObj /\ Store(k, NoObj) /\ asked' = [asked EXCEPT ![k] = NoObj]
    /\ UNCHANGED <<migrateVars, cacheVars, inputs, step, snap, verdict>>

\* The informer updates its cache; its handlers enqueue added and updated
\* objects, not deleted ones.
Deliver(k) ==
    /\ news[k] # <<>>
    /\ cache' = [cache EXCEPT ![k] = Head(news[k])]
    /\ news' = [news EXCEPT ![k] = Tail(@)]
    /\ pending' = IF cache'[k] = NoObj THEN pending ELSE pending \cup {k}
    /\ UNCHANGED <<migrateVars, obj, asked, inputs, syncVars, events>>

\* Mutant of Resync: the handler drops an update that changes nothing, as
\* handleObject's does for owned objects.
ResyncIgnored(k) == cache[k] # NoObj /\ k \notin pending /\ UNCHANGED vars

\* The periodic resync of the informer enqueues every cached object.
Resync(k) ==
    /\ cache[k] # NoObj
    /\ k \notin pending
    /\ pending' = pending \cup {k}
    /\ UNCHANGED <<migrateVars, apiVars, cache, inputs, syncVars, events>>

\* The Database controller writes the secret with the DSN, or the user the
\* secrets that DsnFrom and SourceFrom name.  Nothing enqueues the schema.
InputsArrive(k) ==
    /\ ~inputs[k]
    /\ inputs' = [inputs EXCEPT ![k] = TRUE]
    /\ UNCHANGED <<migrateVars, apiVars, cacheVars, syncVars, events>>
-----------------------------------------------------------------------------
Conclude(k, status) ==
    /\ step' = [step EXCEPT ![k] = "report"]
    /\ verdict' = [verdict EXCEPT ![k] = status]
    /\ UNCHANGED <<snap, current>>

GoTo(k, s) == step' = [step EXCEPT ![k] = s] /\ UNCHANGED <<snap, current, verdict>>

\* Mutant of GetDriver: a new connection replaces the cached one, unclosed.
GetDriverReopens(k) ==
    /\ conn' = [conn EXCEPT ![k] = [NoConn EXCEPT !.db = cache[k].want.db, !.up = TRUE]]
    /\ UNCHANGED <<dbVars, pc, callVars, result>>

\* The cached driver, if there is one, whatever the DSN is now (:127-140).
GetDriver(k) ==
    \/ HasDriver(k) /\ UNCHANGED migrateVars
    \/ Open(k, cache[k].want.db)

\* processNextWorkItem takes k from the queue, and syncSchema its copy of the
\* object from the lister (:44-53).
Take(k) ==
    /\ k \in pending
    /\ step[k] = "idle"
    /\ Cardinality(Busy) < MaxWorkers
    /\ pending' = pending \ {k}
    /\ snap' = [snap EXCEPT ![k] = cache[k]]
    /\ current' = [current EXCEPT ![k] = cache[k] # NoObj /\ news[k] = <<>>]

\* The object is gone: there is nothing to do, and its driver stays open.
StartGone(k) ==
    /\ cache[k] = NoObj
    /\ Take(k)
    /\ UNCHANGED <<migrateVars, apiVars, cache, inputs, step, verdict, events>>

\* The DSN and the source URL are there, from the spec or from secrets, and so
\* is the driver (:56-148).  Nothing of this is seen by others: one step.
Start(k) ==
    /\ cache[k] # NoObj /\ inputs[k]
    /\ Take(k)
    /\ GetDriver(k)
    /\ step' = [step EXCEPT ![k] = "version"]
    /\ UNCHANGED <<apiVars, cache, inputs, verdict, events>>

\* Or something is missing: Pending for a secret, Error for the rest.
StartInVain(k) ==
    /\ cache[k] # NoObj /\ ~inputs[k]
    /\ Take(k)
    /\ step' = [step EXCEPT ![k] = "report"]
    /\ \E s \in {"Pending", "Error"} : verdict' = [verdict EXCEPT ![k] = s]
    /\ UNCHANGED <<migrateVars, apiVars, cache, inputs, events>>

\* database.Open fails; or NewWithDatabaseInstance does, and the driver that
\* was opened for it stays (:132-148).
OpenFails(k) ==
    /\ Happens
    /\ cache[k] # NoObj /\ inputs[k]
    /\ Take(k)
    /\ GetDriver(k) \/ (~HasDriver(k) /\ UNCHANGED migrateVars)
    /\ step' = [step EXCEPT ![k] = "report"]
    /\ verdict' = [verdict EXCEPT ![k] = "Error"]
    /\ UNCHANGED <<apiVars, cache, inputs>>

\* mgrt.Migrate(toVersion) is called (:186); without a connection it fails.
CallMigrate(k) ==
    IF conn[k].up
    THEN Migrate(k, snap[k].want.version) /\ step' = [step EXCEPT ![k] = "migrating"]
                                          /\ UNCHANGED verdict
    ELSE UNCHANGED migrateVars /\ step' = [step EXCEPT ![k] = "report"]
                               /\ verdict' = [verdict EXCEPT ![k] = "Error"]

\* mgrt.Version and what follows from it (:150-186).  It waits on the
\* connection for a lock statement that an earlier call left behind.
ReadVersion(k) ==
    /\ step[k] = "version"
    /\ conn[k].up /\ ~conn[k].waiting
    /\ LET row == table[Db(k)]
       IN  \/ row.version = Nil /\ GoTo(k, "nil") /\ UNCHANGED migrateVars
           \/ row.dirty /\ Conclude(k, "Error") /\ UNCHANGED migrateVars
           \/ /\ row = [version |-> snap[k].want.version, dirty |-> FALSE]
              /\ Conclude(k, "Success") /\ UNCHANGED migrateVars
           \/ /\ ~row.dirty /\ row.version \notin {Nil, snap[k].want.version}
              /\ CallMigrate(k) /\ UNCHANGED <<snap, current>>
    /\ UNCHANGED <<apiVars, cacheVars, inputs, events>>

\* Version fails in another way, and the driver stays (:163-168).
VersionUnread(k) ==
    /\ Happens
    /\ step[k] = "version" /\ ~conn[k].waiting
    /\ Conclude(k, "Error")
    /\ UNCHANGED <<migrateVars, apiVars, cacheVars, inputs>>

\* A bad connection costs the driver its place in the cache (:153-158).
VersionFails(k) ==
    /\ step[k] = "version"
    /\ Discard(k)
    /\ Conclude(k, "Error")
    /\ UNCHANGED <<apiVars, cacheVars, inputs, events>>

\* Mutant of WriteStatus: the resource version is not compared.
WriteStatusBlindly(k, state) ==
    IF obj[k] # [snap[k] EXCEPT !.state = state]
    THEN Store(k, [snap[k] EXCEPT !.state = state])
    ELSE UNCHANGED <<obj, news>>

\* updateDatabaseSchemaStatus: an Update with a copy of the whole object.
\* A conflict is logged, and the outcome is otherwise ignored (:200-219).  The
\* same Pending or Error again is a change if its message is another one; that
\* of Success never is.
WriteStatus(k, state) ==
    \/ /\ current[k]
       /\ state = "Success" => obj[k].state # state
       /\ Store(k, [snap[k] EXCEPT !.state = state])
    \/ /\ current[k] => obj[k].state = state
       /\ UNCHANGED <<obj, news>>

\* No row: Pending is reported and the sync goes on with ver = 0 (:159-186).
ReportNil(k) ==
    /\ step[k] = "nil"
    /\ WriteStatus(k, "Pending")
    /\ current' = [current EXCEPT ![k] = @ /\ news' = news]
    /\ IF snap[k].want.version = 0
         THEN /\ step' = [step EXCEPT ![k] = "report"]
              /\ verdict' = [verdict EXCEPT ![k] = "Success"]
              /\ UNCHANGED migrateVars
         ELSE CallMigrate(k)
    /\ UNCHANGED <<asked, cacheVars, inputs, snap, events>>

\* The lock of database d was left to a session that makes no call.
HeldIdly(d) == \E s \in Schemas : holder[d] = s /\ pc[s] = "idle"

\* The call works, and gives up waiting for a lock that nobody will release...
MigrateStep(k) ==
    /\ \/ Acquire(k) \/ Check(k) \/ Mark(k) \/ RunMigration(k) \/ MarkDone(k) \/ Unlock(k)
       \/ LockTimeout(k) /\ HeldIdly(Db(k))
    /\ UNCHANGED <<apiVars, cacheVars, inputs, syncVars, events>>

\* ...or meets a failure, such as a lock held by a migration that takes longer
\* than LockTimeout...
MigrateFault(k) ==
    /\ Happens
    /\ \/ LockTimeout(k) \/ RunFails(k) \/ SetVersionFails(k) \/ UnlockFails(k)
       \/ SessionLost(k)
    /\ UNCHANGED <<apiVars, cacheVars, inputs, syncVars>>

\* Mutant of MigrateReturns: the error is not looked at.
MigrateReturnsOk(k) ==
    /\ step[k] = "migrating"
    /\ pc[k] = "idle"
    /\ TakeResult(k)
    /\ Conclude(k, "Success")
    /\ UNCHANGED <<apiVars, cacheVars, inputs, events>>

\* ...and returns (:186-196).
MigrateReturns(k) ==
    /\ step[k] = "migrating"
    /\ pc[k] = "idle"
    /\ TakeResult(k)
    /\ Conclude(k, IF result[k] = "ok" THEN "Success" ELSE "Error")
    /\ UNCHANGED <<apiVars, cacheVars, inputs, events>>

\* The last status write; the worker calls Done whether it succeeds or not.
Report(k) ==
    /\ step[k] = "report"
    /\ WriteStatus(k, verdict[k])
    /\ current' = [current EXCEPT ![k] = FALSE]
    /\ step' = [step EXCEPT ![k] = "idle"]
    /\ snap' = [snap EXCEPT ![k] = NoObj]
    /\ verdict' = [verdict EXCEPT ![k] = ""]
    /\ UNCHANGED <<migrateVars, asked, cacheVars, inputs, events>>

\* The process ends at any point - also because two workers use dbDriverMap
\* at once - and is started again: the informer lists every object.
Crash ==
    /\ Happens
    /\ MigrateCrash
    /\ cache' = obj
    /\ news' = [k \in Schemas |-> <<>>]
    /\ pending' = {k \in Schemas : obj[k] # NoObj}
    /\ step' = [k \in Schemas |-> "idle"]
    /\ snap' = [k \in Schemas |-> NoObj]
    /\ current' = [k \in Schemas |-> FALSE]
    /\ verdict' = [k \in Schemas |-> ""]
    /\ UNCHANGED <<obj, asked, inputs>>

StartSync(k) == Start(k) \/ StartInVain(k) \/ StartGone(k)

SyncStep(k) ==
    \/ ReadVersion(k) \/ VersionFails(k) \/ ReportNil(k)
    \/ MigrateReturns(k) \/ Report(k)

\* The row of k's driver is where k's copy wants it (no row counts as 0).
AtWanted(k) ==
    /\ HasDriver(k) /\ snap[k] # NoObj
    /\ LET row == table[Db(k)]
       IN  ~row.dirty /\ (row.version = snap[k].want.version
                          \/ (row.version = Nil /\ snap[k].want.version = 0))

Witness == witness' = [k \in Schemas |-> step'[k] # "idle" /\ (witness[k] \/ AtWanted(k)')]

Next ==
    /\ \/ \E k \in Schemas :
             \/ Edit(k) \/ Deliver(k) \/ Resync(k) \/ InputsArrive(k)
             \/ StartSync(k) \/ SyncStep(k) \/ OpenFails(k) \/ VersionUnread(k)
             \/ MigrateStep(k) \/ MigrateFault(k)
       \/ Crash
    /\ Witness

Spec == Init /\ [][Next]_vars

\* Workers and statements make progress, watch events arrive, the informer
\* resyncs (every minute in deploy/atlas-db.yaml), and missing inputs come.
\* A worker is free again and again, but not always: strong fairness, which
\* the FIFO order of the queue justifies (WorkQueue.Served).  So is the lock,
\* whose waiters PostgreSQL serves in turn.
Fairness ==
    \A k \in Schemas :
        /\ WF_vars(Deliver(k) /\ Witness)
        /\ WF_vars(Resync(k) /\ Witness)
        /\ WF_vars(InputsArrive(k) /\ Witness)
        /\ SF_vars(StartSync(k) /\ Witness)
        /\ WF_vars(SyncStep(k) /\ Witness)
        /\ SF_vars(MigrateStep(k) /\ Witness)

FairSpec == Spec /\ Fairness
-----------------------------------------------------------------------------
SyncTypeOK ==
    /\ MigrateTypeOK
    /\ obj \in [Schemas -> Objects \cup {NoObj}]
    /\ news \in [Schemas -> Seq(Objects \cup {NoObj})]
    /\ cache \in [Schemas -> Objects \cup {NoObj}]
    /\ inputs \in [Schemas -> BOOLEAN]
    /\ pending \subseteq Schemas
    /\ step \in [Schemas -> Steps]
    /\ snap \in [Schemas -> Objects \cup {NoObj}]
    /\ current \in [Schemas -> BOOLEAN]
    /\ verdict \in [Schemas -> States]
    /\ asked \in [Schemas -> Wants \cup {NoObj}]
    /\ witness \in [Schemas -> BOOLEAN]
    /\ events \in 0..MaxEvents

\* A status write carries the whole object, possibly an old copy; it never
\* takes back what the user asked for meanwhile, nor brings a deleted object
\* back (:200-212: "nothing other than resource status has been updated").
SpecIsTheUsers ==
    \A k \in Schemas : (IF obj[k] = NoObj THEN NoObj ELSE obj[k].want) = asked[k]

\* Success is only reported of a database that was at the version asked for,
\* and clean, at some moment of the sync that reports it - with other schema
\* objects migrating the same database, lost connections and failing
\* migrations (:178-197).
SuccessIsWitnessed ==
    \A k \in Schemas : verdict[k] = "Success" => witness[k]

\* syncSchema uses golang-migrate within its rules, so all that is proved of
\* Migrate holds of the databases the controller migrates.
ImplementsMigrate == MigrateSpec

\* Both together, step by step, are what users may rely on: a Success that is
\* written names the version asked for at that moment, which was seen in the sync
\* that writes it; whatever else a step does to an object, users did (:150-219).
SeenBySync == [k \in Schemas |-> IF witness[k] THEN {snap[k].want.version} ELSE {}]
P == INSTANCE SchemaPromise WITH seen <- SeenBySync
ImplementsSchemaPromise == P!Spec

\* The excuses: what keeps an object from ever being synced.
Dirty(k)     == HasDriver(k) /\ table[Db(k)].dirty
Unsourced(k) == obj[k].want.version \notin Source
Unversioned(k) == HasDriver(k) /\ table[Db(k)].version = Nil /\ obj[k].want.version = 0
Leaked       == \E s \in Schemas : conn[s].locked /\ pc[s] = "idle"
Contested(k) == \E j \in Schemas \ {k} :
                    obj[j] # NoObj /\ obj[j].want # obj[k].want
Elsewhere(k) == \E s \in Schemas : HasDriver(s) /\ obj[s] # NoObj /\ Db(s) # obj[s].want.db
Settled(k) ==
    \/ obj[k] = NoObj
    \/ /\ obj[k].state = "Success"
       /\ HasDriver(k)
       /\ table[Db(k)] = [version |-> obj[k].want.version, dirty |-> FALSE]
    \/ Dirty(k) \/ Unsourced(k) \/ Unversioned(k) \/ Leaked \/ Contested(k) \/ Elsewhere(k)

\* Once users and faults are quiet, every object whose target has files, whose
\* database is clean, and that nobody contests is brought to the version asked
\* for and reported so, and stays there.  Not so version 0 of a database that
\* has none: Pending and Success replace each other for ever, and the files of
\* version 0 are never run (:159-184).
Converges == \A k \in Schemas : <>[]Settled(k)

\* :56 "If dsn/dsnFrom is passed in the schema spec consider as override":
\* the sync migrates the database of the DSN that the spec has now.
SyncUsesDsnOfSpec ==
    \A k \in Schemas : step[k] = "migrating" => Db(k) = snap[k].want.db
=============================================================================
