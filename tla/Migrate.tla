------------------------------- MODULE Migrate -------------------------------
(***************************************************************************)
(* golang-migrate as syncSchema uses it: one database driver per schema    *)
(* object, kept in dbDriverMap (databaseSchemaResource.go:127-140), and    *)
(* calls of Migrate.Migrate on it (:186).  Each driver owns one connection *)
(* to a database, and drivers of several schema objects may be connected   *)
(* to the same database: they share its schema_migrations table and its    *)
(* advisory lock.  Calls for one schema object are sequential, the work    *)
(* queue sees to that; calls for different objects run concurrently.       *)
(*                                                                         *)
(* The contents of a database are abstracted to the version whose          *)
(* migrations they are the result of, or Torn when a migration stopped     *)
(* halfway or ran on the wrong base.                                       *)
(***************************************************************************)
EXTENDS Integers, FiniteSets

CONSTANTS Schemas,      \* keys of DatabaseSchema objects
          Databases,    \* databases reachable with some DSN
          Source,       \* versions for which the source has migration files
          Targets,      \* versions that schema objects ask for
          None          \* no database, no holder

Nil  == -1              \* database.NilVersion
Torn == -2

\* deploy/crd.yaml:88-90 rejects a negative spec.version.
ASSUME MigrateAssumption ==
    /\ Source \subseteq Nat
    /\ Targets \subseteq Nat
    /\ None \notin Schemas \cup Databases

VARIABLES
    table,     \* table[d]: the row of schema_migrations: version and dirty flag
    content,   \* content[d]: what the migrations made of the database
    holder,    \* holder[d]: the schema whose session has the advisory lock
    conn,      \* conn[s]: the driver of s, see Conn
    pc,        \* pc[s]: where the call of Migrate for s is, "idle" if none
    to,        \* to[s]: the version the call was given
    at,        \* at[s]: the version the call has reached
    goal,      \* goal[s]: the version the current migration leads to
               \* (to, at and goal are locals of the call: Nil outside of it)
    result     \* result[s]: outcome of the last call: "none", "ok" or "error"

dbVars   == <<table, content, holder>>
callVars == <<to, at, goal>>
migrateVars == <<dbVars, conn, pc, callVars, result>>

Rows == [version : Source \cup {Nil}, dirty : BOOLEAN]

\* up: the connection works; locked: the driver believes it has the lock
\* (Postgres.isLocked); waiting: a goroutine of Migrate.lock is blocked in
\* pg_advisory_lock on the connection.
Conn == [db : Databases \cup {None}, up : BOOLEAN, locked : BOOLEAN, waiting : BOOLEAN]
NoConn == [db |-> None, up |-> FALSE, locked |-> FALSE, waiting |-> FALSE]

\* Program points inside Migrate.Migrate, with the lock held from "check" on.
Locked == {"check", "mark", "run", "clean", "unlock"}

Db(s) == conn[s].db
HasDriver(s) == Db(s) # None

MigrateInit ==
    /\ table = [d \in Databases |-> [version |-> Nil, dirty |-> FALSE]]
    /\ content = [d \in Databases |-> Nil]
    /\ holder = [d \in Databases |-> None]
    /\ conn = [s \in Schemas |-> NoConn]
    /\ pc = [s \in Schemas |-> "idle"]
    /\ to = [s \in Schemas |-> Nil]
    /\ at = [s \in Schemas |-> Nil]
    /\ goal = [s \in Schemas |-> Nil]
    /\ result = [s \in Schemas |-> "none"]
-----------------------------------------------------------------------------
\* database.Open: a connection of its own, and the version table if missing.
\* A failure, also of the CREATE TABLE that another driver was first to do,
\* leaves everything as it was.
Open(s, d) ==
    /\ pc[s] = "idle"
    /\ ~HasDriver(s)
    /\ conn' = [conn EXCEPT ![s] = [NoConn EXCEPT !.db = d, !.up = TRUE]]
    /\ UNCHANGED <<dbVars, pc, callVars, result>>

\* The call for s is over.
Return(s) ==
    /\ pc' = [pc EXCEPT ![s] = "idle"]
    /\ to' = [to EXCEPT ![s] = Nil]
    /\ at' = [at EXCEPT ![s] = Nil]
    /\ goal' = [goal EXCEPT ![s] = Nil]

\* The connection breaks.  The server ends the session, and with it the lock
\* it held or waited for; what a statement under way did is a RunMigration or
\* a RunFails just before.  The call, if any, fails at its next use of the
\* connection, and the driver keeps believing what it believed of the lock.
SessionLost(s) ==
    /\ HasDriver(s) /\ conn[s].up
    /\ conn' = [conn EXCEPT ![s].up = FALSE, ![s].waiting = FALSE]
    /\ holder' = [d \in Databases |-> IF holder[d] = s THEN None ELSE holder[d]]
    /\ Return(s)
    /\ result' = [result EXCEPT ![s] = IF pc[s] = "idle" THEN @ ELSE "error"]
    /\ UNCHANGED <<table, content>>

\* syncSchema drops a driver whose connection is bad (:153-154).
Discard(s) ==
    /\ pc[s] = "idle"
    /\ HasDriver(s) /\ ~conn[s].up
    /\ conn' = [conn EXCEPT ![s] = NoConn]
    /\ UNCHANGED <<dbVars, pc, callVars, result>>
-----------------------------------------------------------------------------
\* Migrate.Migrate(v).  The caller has just read the version on the same
\* connection, so no lock statement of an earlier call is pending on it.
\* Migrate.lock starts the goroutine that calls Postgres.Lock, which refuses
\* when the driver has the lock already.
Migrate(s, v) ==
    /\ pc[s] = "idle"
    /\ HasDriver(s) /\ conn[s].up /\ ~conn[s].waiting
    /\ IF conn[s].locked
         THEN /\ result' = [result EXCEPT ![s] = "error"]
              /\ UNCHANGED <<conn, pc, to>>
         ELSE /\ result' = [result EXCEPT ![s] = "none"]
              /\ to' = [to EXCEPT ![s] = v]
              /\ conn' = [conn EXCEPT ![s].waiting = TRUE]
              /\ pc' = [pc EXCEPT ![s] = "lock"]
    /\ UNCHANGED <<dbVars, at, goal>>

\* syncSchema looks at what the call returned (:187-192).
TakeResult(s) ==
    /\ pc[s] = "idle"
    /\ result[s] # "none"
    /\ result' = [result EXCEPT ![s] = "none"]
    /\ UNCHANGED <<dbVars, conn, pc, callVars>>

\* Mutant of Acquire: the lock is granted to everyone (a driver that is not
\* able to lock may return nil).
AcquireAlways(s) ==
    /\ conn[s].waiting
    /\ holder' = [holder EXCEPT ![Db(s)] = s]
    /\ conn' = [conn EXCEPT ![s].waiting = FALSE, ![s].locked = TRUE]
    /\ pc' = [pc EXCEPT ![s] = IF @ = "lock" THEN "check" ELSE @]
    /\ UNCHANGED <<table, content, callVars, result>>

\* pg_advisory_lock returns.  The call goes on if it still waits; after a
\* timeout nobody does, and the session keeps the lock.
Acquire(s) ==
    /\ conn[s].waiting
    /\ holder[Db(s)] = None
    /\ holder' = [holder EXCEPT ![Db(s)] = s]
    /\ conn' = [conn EXCEPT ![s].waiting = FALSE, ![s].locked = TRUE]
    /\ pc' = [pc EXCEPT ![s] = IF @ = "lock" THEN "check" ELSE @]
    /\ UNCHANGED <<table, content, callVars, result>>

\* Migrate.lock gives up after LockTimeout; the goroutine goes on waiting.
LockTimeout(s) ==
    /\ pc[s] = "lock"
    /\ Return(s)
    /\ result' = [result EXCEPT ![s] = "error"]
    /\ UNCHANGED <<dbVars, conn>>

\* Leaving the call: Migrate.unlockErr with the outcome so far.
Fail(s) ==
    /\ pc' = [pc EXCEPT ![s] = "unlock"]
    /\ result' = [result EXCEPT ![s] = "error"]

\* Mutant of Check: the dirty flag is not looked at.
CheckIgnoresDirty(s) ==
    /\ pc[s] = "check"
    /\ LET v == table[Db(s)].version
       IN  /\ at' = [at EXCEPT ![s] = v]
           /\ IF \/ v # Nil /\ v \notin Source
                 \/ to[s] \notin Source
                 \/ v = to[s]
              THEN Fail(s)
              ELSE pc' = [pc EXCEPT ![s] = "mark"] /\ UNCHANGED result
    /\ UNCHANGED <<dbVars, conn, to, goal>>

\* Mutant of Check: nobody asks whether the target has files.
CheckIgnoresTarget(s) ==
    /\ pc[s] = "check"
    /\ LET row == table[Db(s)]
       IN  /\ at' = [at EXCEPT ![s] = row.version]
           /\ IF \/ row.dirty
                 \/ row.version # Nil /\ row.version \notin Source
                 \/ row.version = to[s]
              THEN Fail(s)
              ELSE pc' = [pc EXCEPT ![s] = "mark"] /\ UNCHANGED result
    /\ UNCHANGED <<dbVars, conn, to, goal>>

\* Under the lock: the version is read again; a dirty table, a version
\* without files and a version reached already (ErrNoChange) are errors.
Check(s) ==
    /\ pc[s] = "check"
    /\ LET row == table[Db(s)]
       IN  /\ at' = [at EXCEPT ![s] = row.version]
           /\ IF \/ row.dirty
                 \/ row.version # Nil /\ row.version \notin Source
                 \/ to[s] \notin Source
                 \/ row.version = to[s]
              THEN Fail(s)
              ELSE pc' = [pc EXCEPT ![s] = "mark"] /\ UNCHANGED result
    /\ UNCHANGED <<dbVars, conn, to, goal>>

\* Mutant of Neighbours: versions are counted one by one.
NeighboursByOne(v, t) == {IF v < t THEN v + 1 ELSE v - 1}

\* Mutant of Neighbours: straight to the target, past the files between.
NeighboursSkipped(v, t) == {t} \cap Source

\* Migrate.read: the neighbour of version v in the source, towards t.
Neighbours(v, t) ==
    {x \in Source : \/ v < x /\ x <= t /\ \A y \in Source : y > v => x <= y
                    \/ t <= x /\ x < v /\ \A y \in Source : y < v => y <= x}

\* Mutant of Mark: the version is recorded without the dirty flag.
MarkClean(s) ==
    /\ pc[s] = "mark"
    /\ \E x \in Neighbours(at[s], to[s]) :
          /\ goal' = [goal EXCEPT ![s] = x]
          /\ table' = [table EXCEPT ![Db(s)] = [version |-> x, dirty |-> FALSE]]
    /\ pc' = [pc EXCEPT ![s] = "run"]
    /\ UNCHANGED <<content, holder, conn, to, at, result>>

\* runMigrations: SetVersion(next, dirty) before the migration is run.
Mark(s) ==
    /\ pc[s] = "mark"
    /\ \E x \in Neighbours(at[s], to[s]) :
          /\ goal' = [goal EXCEPT ![s] = x]
          /\ table' = [table EXCEPT ![Db(s)] = [version |-> x, dirty |-> TRUE]]
    /\ pc' = [pc EXCEPT ![s] = "run"]
    /\ UNCHANGED <<content, holder, conn, to, at, result>>

\* Driver.Run: the statements of the file are meant for the version before.
RunMigration(s) ==
    /\ pc[s] = "run"
    /\ content' = [content EXCEPT ![Db(s)] = IF @ = at[s] THEN goal[s] ELSE Torn]
    /\ pc' = [pc EXCEPT ![s] = "clean"]
    /\ UNCHANGED <<table, holder, conn, callVars, result>>

\* A statement fails: the database undoes the file's statements, or not if
\* the file ends transactions itself.
RunFails(s) ==
    /\ pc[s] = "run"
    /\ content' \in {content, [content EXCEPT ![Db(s)] = Torn]}
    /\ Fail(s)
    /\ UNCHANGED <<table, holder, conn, callVars>>

\* Mutant of MarkDone: the loop does not advance.
MarkDoneInPlace(s) ==
    /\ pc[s] = "clean"
    /\ table' = [table EXCEPT ![Db(s)] = [version |-> goal[s], dirty |-> FALSE]]
    /\ IF goal[s] = to[s]
         THEN /\ pc' = [pc EXCEPT ![s] = "unlock"]
              /\ result' = [result EXCEPT ![s] = "ok"]
         ELSE pc' = [pc EXCEPT ![s] = "mark"] /\ UNCHANGED result
    /\ UNCHANGED <<content, holder, conn, callVars>>

\* Mutant of MarkDone: the call stops after one migration.
MarkDoneOnce(s) ==
    /\ pc[s] = "clean"
    /\ table' = [table EXCEPT ![Db(s)] = [version |-> goal[s], dirty |-> FALSE]]
    /\ at' = [at EXCEPT ![s] = goal[s]]
    /\ pc' = [pc EXCEPT ![s] = "unlock"]
    /\ result' = [result EXCEPT ![s] = "ok"]
    /\ UNCHANGED <<content, holder, conn, to, goal>>

\* SetVersion(next, clean); then the next migration, or the call is done.
MarkDone(s) ==
    /\ pc[s] = "clean"
    /\ table' = [table EXCEPT ![Db(s)] = [version |-> goal[s], dirty |-> FALSE]]
    /\ at' = [at EXCEPT ![s] = goal[s]]
    /\ IF goal[s] = to[s]
         THEN /\ pc' = [pc EXCEPT ![s] = "unlock"]
              /\ result' = [result EXCEPT ![s] = "ok"]
         ELSE pc' = [pc EXCEPT ![s] = "mark"] /\ UNCHANGED result
    /\ UNCHANGED <<content, holder, conn, to, goal>>

\* The version cannot be read, or a SetVersion fails and is rolled back.
SetVersionFails(s) ==
    /\ pc[s] \in {"check", "mark", "clean"}
    /\ Fail(s)
    /\ UNCHANGED <<dbVars, conn, callVars>>

\* Migrate.unlock
Unlock(s) ==
    /\ pc[s] = "unlock"
    /\ holder' = [holder EXCEPT ![Db(s)] = None]
    /\ conn' = [conn EXCEPT ![s].locked = FALSE]
    /\ Return(s)
    /\ UNCHANGED <<table, content, result>>

\* pg_advisory_unlock fails while the session goes on: the driver keeps the lock.
UnlockFails(s) ==
    /\ pc[s] = "unlock"
    /\ Return(s)
    /\ result' = [result EXCEPT ![s] = "error"]
    /\ UNCHANGED <<dbVars, conn>>

\* Mutant of MigrateCrash: the lock outlives the session.
MigrateCrashKeepsLock ==
    /\ conn' = [s \in Schemas |-> NoConn]
    /\ pc' = [s \in Schemas |-> "idle"]
    /\ result' = [s \in Schemas |-> "none"]
    /\ to' = [s \in Schemas |-> Nil]
    /\ at' = [s \in Schemas |-> Nil]
    /\ goal' = [s \in Schemas |-> Nil]
    /\ UNCHANGED dbVars

\* The process dies and all its sessions end.
MigrateCrash ==
    /\ conn' = [s \in Schemas |-> NoConn]
    /\ holder' = [d \in Databases |-> None]
    /\ pc' = [s \in Schemas |-> "idle"]
    /\ result' = [s \in Schemas |-> "none"]
    /\ to' = [s \in Schemas |-> Nil]
    /\ at' = [s \in Schemas |-> Nil]
    /\ goal' = [s \in Schemas |-> Nil]
    /\ UNCHANGED <<table, content>>

\* What a call does by itself once it is made.
CallStep(s) ==
    \/ Acquire(s) \/ LockTimeout(s) \/ Check(s)
    \/ Mark(s) \/ RunMigration(s) \/ RunFails(s) \/ MarkDone(s) \/ SetVersionFails(s)
    \/ Unlock(s) \/ UnlockFails(s)

MigrateNext ==
    \/ \E s \in Schemas :
          \/ \E d \in Databases : Open(s, d)
          \/ SessionLost(s)
          \/ Discard(s)
          \/ \E v \in Targets : Migrate(s, v)
          \/ TakeResult(s)
          \/ CallStep(s)
    \/ MigrateCrash

MigrateSpec == MigrateInit /\ [][MigrateNext]_migrateVars

\* A call that can go on does: its goroutine runs, statements end, and the
\* lock timeout fires.  Nobody has to make calls, and nothing has to break.
MigrateFairness == \A s \in Schemas : WF_migrateVars(pc[s] # "idle" /\ CallStep(s))

MigrateFairSpec == MigrateSpec /\ MigrateFairness
-----------------------------------------------------------------------------
MigrateTypeOK ==
    /\ table \in [Databases -> Rows]
    /\ content \in [Databases -> Source \cup {Nil, Torn}]
    /\ holder \in [Databases -> Schemas \cup {None}]
    /\ conn \in [Schemas -> Conn]
    /\ pc \in [Schemas -> Locked \cup {"idle", "lock"}]
    /\ to \in [Schemas -> Targets \cup {Nil}]
    /\ at \in [Schemas -> Source \cup {Nil}]
    /\ goal \in [Schemas -> Source \cup {Nil}]
    /\ result \in [Schemas -> {"none", "ok", "error"}]

\* Two schema objects never migrate the same database at the same time, even
\* after lock timeouts, broken connections and crashes (migrate.go:834-881,
\* database/postgres/postgres.go:122-159).
OneMigrationPerDatabase ==
    \A s, t \in Schemas :
        s # t /\ pc[s] \in Locked /\ pc[t] \in Locked => Db(s) # Db(t)

\* As long as its connection works, a driver's isLocked and the server agree
\* on who has the lock (postgres.go:122-159).
BeliefsAgree ==
    \A d \in Databases, s \in Schemas :
        holder[d] = s <=> Db(s) = d /\ conn[s].up /\ conn[s].locked

\* A row without the dirty flag tells the truth about the database: the
\* migrations up to its version, and no others, were applied.  syncSchema
\* decides on that row alone (databaseSchemaResource.go:170-184).
CleanMeansApplied ==
    \A d \in Databases : ~table[d].dirty => content[d] = table[d].version

\* A call that reports success leaves the database at the version asked for.
OkMeansThere ==
    \A s \in Schemas :
        pc[s] = "unlock" /\ result[s] = "ok" =>
            table[Db(s)] = [version |-> to[s], dirty |-> FALSE] /\ content[Db(s)] = to[s]

\* The loops of read never run off the ends of the source: the version that
\* they look for is there, because both ends of the way are (migrate.go:398-412,
\* :440-452, :461-488).
NeverRunsOut ==
    \A s \in Schemas : pc[s] = "mark" => Neighbours(at[s], to[s]) # {}

\* A database changes only while its row is marked dirty, so that a migration
\* cut short by a failure or the end of the process is always noticed
\* (runMigrations, migrate.go:695-707).
MarkedBeforeRun ==
    [][\A d \in Databases : content'[d] # content[d] => table[d].dirty]_migrateVars

\* A dirty row is only changed by the call that marked it: nothing the
\* controller does hides a failed migration (migrate.go:219-221).
DirtyIsSticky ==
    [][\A d \in Databases :
          table[d].dirty /\ table'[d] # table[d] =>
              \E s \in Schemas : holder[d] = s /\ pc[s] = "clean"
                                 /\ table'[d].version = table[d].version]_migrateVars

\* The versions between v and t, t among them: the way that is left.
Remaining(v, t) == {x \in Source : (v < x /\ x <= t) \/ (t <= x /\ x < v)}

\* How many steps a call takes from a program point with n versions left.
StepsLeft(where, n) ==
    CASE where = "check"  -> 3 * n + 2
      [] where = "mark"   -> 3 * n + 1
      [] where = "run"    -> 3 * n
      [] where = "clean"  -> 3 * n - 1
      [] where = "unlock" -> 1
      [] OTHER            -> 0

\* The call for s has read the row once it is past "check".
From(s) == IF pc[s] = "check" THEN table[Db(s)].version ELSE at[s]
Left(s) == StepsLeft(pc[s], Cardinality(Remaining(From(s), to[s])))

\* A call that has the lock comes to its end: each step of it brings the end
\* nearer, and no step of anybody else makes the way longer, as it would if
\* another call moved the row of the database (migrate.go:429-453, :692-729).
CallsGetOn ==
    [][\A s \in Schemas :
          pc[s] \in Locked =>
              /\ Left(s)' <= Left(s)
              /\ pc'[s] # pc[s] => Left(s)' < Left(s)]_migrateVars

\* What a database goes through is what Versioned says, however many schema
\* objects are connected to it, and whatever fails.
V == INSTANCE Versioned

ImplementsVersioned == V!Spec

\* Every call returns, even when the lock is never released by another.
CallsReturn == \A s \in Schemas : pc[s] # "idle" ~> pc[s] = "idle"
=============================================================================
