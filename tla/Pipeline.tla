------------------------------ MODULE Pipeline ------------------------------
(***************************************************************************)
(* The chain of the three reconcilers: one DatabaseServer with a pod of    *)
(* PostgreSQL, one Database on it with one admin, and DatabaseSchemas that *)
(* reach it through the secret of the Database.  The server's secret is    *)
(* the input of the Database, whose secret is the input of the schemas;    *)
(* both are made once and never compared with the specs again.  Pods are   *)
(* lost with what is in them, users edit passwords and delete secrets, and *)
(* the controller restarts.                                                *)
(*                                                                         *)
(* How each sync walks through its statements and status writes is the     *)
(* business of ServerSync, DatabaseSync and SchemaSync.  Here a sync is    *)
(* split only where another actor can come between: after it has read its  *)
(* inputs, and between the SQL server and the API server.                  *)
(***************************************************************************)
EXTENDS Naturals

CONSTANTS None,      \* nil, or no such thing
          Schemas,   \* names of DatabaseSchemas, all on the one Database
          Passwords,
          Target,    \* the version that every schema wants
          MaxEvents  \* bound: what users, nodes and processes do

ASSUME PipelineAssumption ==
    /\ None \notin Passwords
    /\ Target \in Nat \ {0} /\ MaxEvents \in Nat

VARIABLES
    root,    \* the superuser's password in the spec of the server
    admin,   \* the admin's password in the spec of the Database (both as the
             \* listers show them)
    durable, \* the server's data are on a volume
    pod,     \* the password that the pod was made with, or None
    up,      \* the database in the pod is up
    data,    \* what is in it
    secret,  \* the password in the secret of the server, or None
    dbSecret,\* the password in the secret of the Database, or None
    dbSync,  \* the sync of the Database
    scSync,  \* scSync[k]: the DSN that the sync of the schema k has read, or None
    driver,  \* dbDriverMap, by schema
    said,    \* said[k]: the state of the schema k
    saidDb,  \* the state of the Database
    stale,   \* history: the admin's password has changed under its secret
    events

specVars   == <<root, admin, durable>>
serverVars == <<pod, up, data>>
dbVars     == <<dbSecret, dbSync, saidDb, stale>>
schemaVars == <<scSync, driver, said>>
vars == <<specVars, serverVars, secret, dbVars, schemaVars, events>>

\* What a cluster of PostgreSQL has: the superuser's password (None before the
\* first start), the database, its admin's password, and the schema's version.
Dirty == Target + 1
Data == [root : Passwords \cup {None}, exists : BOOLEAN,
         admin : Passwords \cup {None}, version : 0..Dirty]
Empty == [root |-> None, exists |-> FALSE, admin |-> None, version |-> 0]

\* A sync of the Database: nothing, or the DSN and the spec that it has read.
Idle == [at |-> "idle", dsn |-> None, admin |-> None]
Syncs == [at : {"idle", "sql", "secret"}, dsn : Passwords \cup {None},
          admin : Passwords \cup {None}]
States == {"", "Pending", "Success", "Error"}

Init ==
    /\ root \in Passwords /\ admin \in Passwords /\ durable \in BOOLEAN
    /\ pod = None /\ up = FALSE /\ data = Empty
    /\ secret = None /\ dbSecret = None
    /\ dbSync = Idle /\ saidDb = "" /\ stale = FALSE
    /\ scSync = [k \in Schemas |-> None]
    /\ driver = [k \in Schemas |-> "none"]
    /\ said = [k \in Schemas |-> ""]
    /\ events = 0
-----------------------------------------------------------------------------
Happens == events < MaxEvents /\ events' = events + 1

\* Connections break when their server ends.
Broken == [k \in Schemas |-> IF driver[k] = "open" THEN "broken" ELSE driver[k]]

\* The pod is deleted, evicted or lost with its node.
PodLost ==
    /\ Happens /\ pod # None
    /\ pod' = None /\ up' = FALSE
    /\ data' = IF durable THEN data ELSE Empty
    /\ driver' = Broken
    /\ UNCHANGED <<specVars, secret, dbVars, scSync, said>>

\* The listers get a server or a Database that users have edited.
EditRoot ==
    /\ Happens
    /\ \E p \in Passwords \ {root} : root' = p
    /\ UNCHANGED <<admin, durable, serverVars, secret, dbVars, schemaVars>>

EditAdmin ==
    /\ Happens
    /\ \E p \in Passwords \ {admin} : admin' = p
    /\ stale' = (stale \/ dbSecret # None \/ dbSync # Idle)
    /\ UNCHANGED <<root, durable, serverVars, secret, dbSecret, dbSync, saidDb, schemaVars>>

DeleteSecret ==
    /\ Happens
    /\ \/ secret # None /\ secret' = None /\ UNCHANGED dbSecret
       \/ dbSecret # None /\ dbSecret' = None /\ UNCHANGED secret
    /\ UNCHANGED <<specVars, serverVars, dbSync, saidDb, stale, schemaVars>>

\* The controller ends, with its syncs and drivers, and starts again.
Crash ==
    /\ Happens
    /\ dbSync' = Idle
    /\ scSync' = [k \in Schemas |-> None]
    /\ driver' = [k \in Schemas |-> "none"]
    /\ UNCHANGED <<specVars, serverVars, secret, dbSecret, saidDb, stale, said>>
-----------------------------------------------------------------------------
\* syncServer makes the pod and, once there is one, the secret.
MakePod ==
    /\ pod = None
    /\ pod' = root
    /\ UNCHANGED <<specVars, up, data, secret, dbVars, schemaVars, events>>

MakeSecret ==
    /\ pod # None /\ secret = None
    /\ secret' = root
    /\ UNCHANGED <<specVars, serverVars, dbVars, schemaVars, events>>

\* The image gives the superuser the password of the pod when it first
\* initializes its data.
Boot ==
    /\ pod # None /\ ~up
    /\ up' = TRUE
    /\ data' = IF data.root = None THEN [data EXCEPT !.root = pod] ELSE data
    /\ UNCHANGED <<specVars, pod, secret, dbVars, schemaVars, events>>
-----------------------------------------------------------------------------
\* syncDatabase reads the DSN of the server, or waits for it (:96-108).
DatabaseWaits ==
    /\ dbSync = Idle /\ secret = None
    /\ saidDb' = "Pending"
    /\ UNCHANGED <<specVars, serverVars, secret, dbSecret, dbSync, stale, schemaVars, events>>

StartDatabase ==
    /\ dbSync = Idle /\ secret # None
    /\ dbSync' = [at |-> "sql", dsn |-> secret, admin |-> admin]
    /\ UNCHANGED <<specVars, serverVars, secret, dbSecret, saidDb, stale, schemaVars, events>>

\* Mutant of SyncDatabase: an account that is there is left alone.
SyncDatabaseKeepsAccount ==
    /\ dbSync.at = "sql" /\ up /\ dbSync.dsn = data.root
    /\ data' = [data EXCEPT !.exists = TRUE,
                            !.admin = IF @ = None THEN dbSync.admin ELSE @]
    /\ dbSync' = [dbSync EXCEPT !.at = "secret"]
    /\ UNCHANGED <<specVars, pod, up, secret, dbSecret, saidDb, stale, schemaVars, events>>

\* SyncDatabase: the database, and the admin with the password of the spec.
SyncDatabase ==
    /\ dbSync.at = "sql" /\ up /\ dbSync.dsn = data.root
    /\ data' = [data EXCEPT !.exists = TRUE, !.admin = dbSync.admin]
    /\ dbSync' = [dbSync EXCEPT !.at = "secret"]
    /\ UNCHANGED <<specVars, pod, up, secret, dbSecret, saidDb, stale, schemaVars, events>>

\* It cannot connect, or a statement fails: the database may be there, though.
SyncDatabaseFails ==
    /\ dbSync.at = "sql"
    /\ \/ (~up \/ dbSync.dsn # data.root) /\ UNCHANGED <<data, events>>
       \/ /\ up /\ dbSync.dsn = data.root /\ Happens
          /\ data' \in {data, [data EXCEPT !.exists = TRUE]}
    /\ dbSync' = Idle /\ saidDb' = "Error"
    /\ UNCHANGED <<specVars, pod, up, secret, dbSecret, stale, schemaVars>>

\* syncDatabaseSecret, and Success.
SyncDatabaseSecret ==
    /\ dbSync.at = "secret"
    /\ dbSecret' = IF dbSecret = None THEN dbSync.admin ELSE dbSecret
    /\ dbSync' = Idle /\ saidDb' = "Success"
    /\ UNCHANGED <<specVars, serverVars, secret, stale, schemaVars, events>>
-----------------------------------------------------------------------------
\* syncSchema reads the DSN of the Database, also when it has a driver.
SchemaWaits(k) ==
    /\ scSync[k] = None /\ dbSecret = None
    /\ said' = [said EXCEPT ![k] = "Pending"]
    /\ UNCHANGED <<specVars, serverVars, secret, dbVars, scSync, driver, events>>

StartSchema(k) ==
    /\ scSync[k] = None /\ dbSecret # None
    /\ scSync' = [scSync EXCEPT ![k] = dbSecret]
    /\ UNCHANGED <<specVars, serverVars, secret, dbVars, driver, said, events>>

\* Mutant of SchemaEnds: the reason of the event is taken for the state.
SchemaEndsSynced(k, state) ==
    /\ scSync' = [scSync EXCEPT ![k] = None]
    /\ said' = [said EXCEPT ![k] = IF state = "Success" THEN "Synced" ELSE state]

SchemaEnds(k, state) ==
    /\ scSync' = [scSync EXCEPT ![k] = None]
    /\ said' = [said EXCEPT ![k] = state]

\* database.Open: a login into the database of the DSN.
Opens(password) == up /\ data.exists /\ data.admin = password

OpenDriver(k) ==
    /\ scSync[k] # None /\ driver[k] = "none" /\ Opens(scSync[k])
    /\ driver' = [driver EXCEPT ![k] = "open"]
    /\ UNCHANGED <<specVars, serverVars, secret, dbVars, scSync, said, events>>

OpenFails(k) ==
    /\ scSync[k] # None /\ driver[k] = "none" /\ ~Opens(scSync[k])
    /\ SchemaEnds(k, "Error")
    /\ UNCHANGED <<specVars, serverVars, secret, dbVars, driver, events>>

\* Mutant of VersionFails: the driver stays in the map.
VersionFailsKeepsDriver(k) ==
    /\ scSync[k] # None /\ driver[k] = "broken"
    /\ SchemaEnds(k, "Error")
    /\ UNCHANGED <<specVars, serverVars, secret, dbVars, driver, events>>

\* Version on a bad connection: the driver is dropped, for the next sync.
VersionFails(k) ==
    /\ scSync[k] # None /\ driver[k] = "broken"
    /\ driver' = [driver EXCEPT ![k] = "none"]
    /\ SchemaEnds(k, "Error")
    /\ UNCHANGED <<specVars, serverVars, secret, dbVars, events>>

IsDirty(k) ==
    /\ scSync[k] # None /\ driver[k] = "open" /\ data.version = Dirty
    /\ SchemaEnds(k, "Error")
    /\ UNCHANGED <<specVars, serverVars, secret, dbVars, driver, events>>

\* Mutant of MigrateSchema: a version that is none counts as the one wanted.
MigrateSchemaSkipped(k) ==
    /\ scSync[k] # None /\ driver[k] = "open" /\ data.version # Dirty
    /\ UNCHANGED data
    /\ SchemaEnds(k, "Success")
    /\ UNCHANGED <<specVars, pod, up, secret, dbVars, driver, events>>

MigrateSchema(k) ==
    /\ scSync[k] # None /\ driver[k] = "open" /\ data.version # Dirty
    /\ data' = [data EXCEPT !.version = Target]
    /\ SchemaEnds(k, "Success")
    /\ UNCHANGED <<specVars, pod, up, secret, dbVars, driver, events>>

\* A migration fails or is cut: the row stays dirty.
MigrationCut(k) ==
    /\ Happens
    /\ scSync[k] # None /\ driver[k] = "open" /\ data.version \notin {Dirty, Target}
    /\ data' = [data EXCEPT !.version = Dirty]
    /\ SchemaEnds(k, "Error")
    /\ UNCHANGED <<specVars, pod, up, secret, dbVars, driver>>
-----------------------------------------------------------------------------
SyncServer == MakePod \/ MakeSecret
DatabaseSteps ==
    DatabaseWaits \/ StartDatabase \/ SyncDatabase \/ SyncDatabaseFails \/ SyncDatabaseSecret
SchemaSteps(k) ==
    \/ SchemaWaits(k) \/ StartSchema(k) \/ OpenDriver(k) \/ OpenFails(k)
    \/ VersionFails(k) \/ IsDirty(k) \/ MigrateSchema(k)

Next ==
    \/ PodLost \/ EditRoot \/ EditAdmin \/ DeleteSecret \/ Crash
    \/ SyncServer \/ Boot \/ DatabaseSteps
    \/ \E k \in Schemas : SchemaSteps(k) \/ MigrationCut(k)

Spec == Init /\ [][Next]_vars

\* The resync starts the syncs of each object again and again.
Fairness ==
    /\ WF_vars(MakePod) /\ WF_vars(MakeSecret) /\ WF_vars(Boot)
    /\ WF_vars(DatabaseSteps)
    /\ \A k \in Schemas : WF_vars(SchemaSteps(k))

FairSpec == Spec /\ Fairness
-----------------------------------------------------------------------------
\* Every variable has the values that the code can give it.
PipelineTypeOK ==
    /\ root \in Passwords /\ admin \in Passwords /\ durable \in BOOLEAN
    /\ pod \in Passwords \cup {None} /\ up \in BOOLEAN /\ data \in Data
    /\ secret \in Passwords \cup {None} /\ dbSecret \in Passwords \cup {None}
    /\ dbSync \in Syncs /\ saidDb \in States /\ stale \in BOOLEAN
    /\ scSync \in [Schemas -> Passwords \cup {None}]
    /\ driver \in [Schemas -> {"none", "open", "broken"}]
    /\ said \in [Schemas -> States]
    /\ events \in 0..MaxEvents

\* Between its syncs, a schema that says Success is at its version as long as
\* its driver has its connection: only the loss of the pod makes the state a
\* lie, and then the next sync finds out, whatever the other schemas do.
SuccessStands ==
    \A k \in Schemas :
        said[k] = "Success" /\ driver[k] = "open" /\ scSync[k] = None =>
            data.exists /\ data.version = Target

\* The secret of the Database opens it whenever its account is there, through
\* lost pods, restarts, failed syncs and deleted secrets - unless an edit of the
\* password arrives while the secret, or a sync that may make it, has the former
\* one, since no secret is made again.
SecretOpens ==
    dbSecret # None /\ data.admin # None /\ ~stale => dbSecret = data.admin

\* The excuses: what nothing repairs.
Apart ==
    \/ secret # None /\ data.root # None /\ secret # data.root
    \/ dbSecret # None /\ dbSecret # admin
    \/ data.version = Dirty

\* Whatever was lost or deleted, in the end every schema says Success, on a
\* database that is up and at its version - unless an edit has come between
\* things that are made from one password, or a row is dirty.
ChainHeals ==
    \/ <>[]Apart
    \/ <>[](/\ up /\ data.exists /\ data.version = Target /\ saidDb = "Success"
            /\ \A k \in Schemas : driver[k] = "open" /\ said[k] = "Success")
=============================================================================
