--------------------------- MODULE PipelineProofs ---------------------------
(***************************************************************************)
(* The safety of Pipeline for every number of schemas, all passwords, any  *)
(* version and every number of events.                                     *)
(***************************************************************************)
EXTENDS Pipeline, TLAPS

\* A driver that is open has a database, and what a schema has said of it
\* between its syncs stays true.
DriverIs(k) ==
    driver[k] = "open" =>
        /\ up /\ data.exists
        /\ said[k] = "Success" /\ scSync[k] = None => data.version = Target

\* While no edit has come under it: the secret, and the sync that may make it,
\* have the admin's password, and so has the account once the sync has seen to it.
SecretIs ==
    ~stale =>
        /\ dbSecret # None => dbSecret = admin /\ data.admin \in {None, admin}
        /\ dbSync.at # "idle" => dbSync.admin = admin
        /\ dbSync.at = "secret" => data.admin \in {None, admin}

PipelineInv == PipelineTypeOK /\ SecretIs /\ \A k \in Schemas : DriverIs(k)
-----------------------------------------------------------------------------
LEMMA PipelineInit == Init => PipelineInv
  <1> SUFFICES ASSUME Init PROVE PipelineInv
    OBVIOUS
  <1>1. Dirty \in Nat /\ 0 \in 0..Dirty /\ 0 \in 0..MaxEvents
    BY PipelineAssumption DEF Dirty
  <1>2. Empty \in Data
    BY <1>1 DEF Empty, Data
  <1>3. Idle \in Syncs
    BY DEF Idle, Syncs
  <1>4. PipelineTypeOK
    BY <1>1, <1>2, <1>3 DEF Init, PipelineTypeOK, States
  <1>5. SecretIs /\ \A k \in Schemas : DriverIs(k)
    BY DEF Init, SecretIs, DriverIs, Idle, Empty
  <1>6. QED
    BY <1>4, <1>5 DEF PipelineInv

LEMMA HappensInBounds ==
    ASSUME PipelineTypeOK, Happens \/ UNCHANGED events
    PROVE  events' \in 0..MaxEvents
  <1>1. MaxEvents \in Nat /\ events \in 0..MaxEvents
    BY PipelineAssumption DEF PipelineTypeOK
  <1>2. QED
    BY <1>1 DEF Happens

\* What the steps make of the data.
LEMMA DataFields ==
    ASSUME PipelineTypeOK
    PROVE  /\ Empty \in Data /\ Target \in 0..Dirty /\ Dirty \in 0..Dirty /\ Target # Dirty
           /\ [data EXCEPT !.exists = TRUE] \in Data
           /\ \A p \in Passwords : [data EXCEPT !.root = p] \in Data
           /\ \A p \in Passwords \cup {None} :
                 [data EXCEPT !.exists = TRUE, !.admin = p] \in Data
           /\ \A v \in 0..Dirty : [data EXCEPT !.version = v] \in Data
  <1>1. Target \in Nat \ {0} /\ Dirty \in Nat /\ Target < Dirty
    BY PipelineAssumption DEF Dirty
  <1>2. Target \in 0..Dirty /\ Dirty \in 0..Dirty /\ 0 \in 0..Dirty /\ Target # Dirty
    BY <1>1
  <1>3. data \in Data
    BY DEF PipelineTypeOK
  <1>4. QED
    BY <1>2, <1>3 DEF Data, Empty

\* Users, nodes and the process.
LEMMA OutsideIsWell ==
    ASSUME PipelineInv, PodLost \/ EditRoot \/ EditAdmin \/ DeleteSecret \/ Crash
    PROVE  PipelineInv'
  <1>t. PipelineTypeOK
    BY DEF PipelineInv
  <1>1. events' \in 0..MaxEvents
    BY <1>t, HappensInBounds DEF PodLost, EditRoot, EditAdmin, DeleteSecret, Crash
  <1>2. CASE PodLost
    <2>1. Broken \in [Schemas -> {"none", "open", "broken"}] /\ \A k \in Schemas : Broken[k] # "open"
      BY <1>t DEF Broken, PipelineTypeOK
    <2>2. data' \in {data, Empty} /\ data' \in Data
      BY <1>2, <1>t, DataFields DEF PodLost, PipelineTypeOK
    <2>3. PipelineTypeOK'
      BY <1>1, <1>2, <1>t, <2>1, <2>2 DEF PodLost, PipelineTypeOK, specVars, dbVars
    <2>4. SecretIs'
      BY <1>2, <2>2 DEF PodLost, PipelineInv, SecretIs, specVars, dbVars, Empty
    <2>5. QED
      BY <1>2, <2>1, <2>3, <2>4 DEF PodLost, PipelineInv, DriverIs
  <1>3. CASE EditRoot
    <2>1. PipelineTypeOK'
      BY <1>1, <1>3, <1>t DEF EditRoot, PipelineTypeOK, serverVars, dbVars, schemaVars
    <2>2. QED
      BY <1>3, <2>1 DEF EditRoot, PipelineInv, SecretIs, DriverIs, serverVars, dbVars, schemaVars
  <1>4. CASE EditAdmin
    <2>1. PipelineTypeOK'
      BY <1>1, <1>4, <1>t DEF EditAdmin, PipelineTypeOK, serverVars, schemaVars
    <2>2. /\ UNCHANGED <<data, dbSecret, dbSync>>
          /\ ~stale' => dbSecret = None /\ dbSync.at = "idle"
      <3>1. UNCHANGED <<data, dbSecret, dbSync>>
        BY <1>4 DEF EditAdmin, serverVars
      <3>2. ASSUME ~stale' PROVE dbSecret = None /\ dbSync = Idle
        <4>1. stale' = (stale \/ dbSecret # None \/ dbSync # Idle)
          BY <1>4 DEF EditAdmin
        <4>2. QED
          BY <3>2, <4>1, Zenon
      <3>3. QED
        BY <3>1, <3>2 DEF Idle
    <2>3. SecretIs'
      BY <2>2 DEF SecretIs
    <2>4. QED
      BY <1>4, <2>1, <2>3 DEF EditAdmin, PipelineInv, DriverIs, serverVars, schemaVars
  <1>5. CASE DeleteSecret
    <2>1. PipelineTypeOK'
      BY <1>1, <1>5, <1>t DEF DeleteSecret, PipelineTypeOK, specVars, serverVars, schemaVars
    <2>2. QED
      BY <1>5, <2>1 DEF DeleteSecret, PipelineInv, SecretIs, DriverIs, specVars, serverVars, schemaVars
  <1>6. CASE Crash
    <2>1. Idle \in Syncs
      BY DEF Idle, Syncs
    <2>2. PipelineTypeOK'
      BY <1>1, <1>6, <1>t, <2>1 DEF Crash, PipelineTypeOK, specVars, serverVars
    <2>3. QED
      BY <1>6, <2>2 DEF Crash, PipelineInv, SecretIs, DriverIs, specVars, serverVars, Idle
  <1>7. QED
    BY <1>2, <1>3, <1>4, <1>5, <1>6

\* The pod and the secret of the server.
LEMMA ServerIsWell ==
    ASSUME PipelineInv, MakePod \/ MakeSecret \/ Boot
    PROVE  PipelineInv'
  <1>t. PipelineTypeOK
    BY DEF PipelineInv
  <1>1. CASE MakePod \/ MakeSecret
    <2>1. PipelineTypeOK'
      BY <1>1, <1>t DEF MakePod, MakeSecret, PipelineTypeOK, specVars, serverVars, dbVars, schemaVars
    <2>2. UNCHANGED <<up, data, dbVars, schemaVars, specVars>>
      BY <1>1 DEF MakePod, MakeSecret, serverVars
    <2>3. QED
      BY <2>1, <2>2 DEF PipelineInv, SecretIs, DriverIs, dbVars, schemaVars, specVars
  <1>2. CASE Boot
    <2>1. pod \in Passwords
      BY <1>2, <1>t DEF Boot, PipelineTypeOK
    <2>2. data' \in Data /\ data'.exists = data.exists /\ data'.admin = data.admin
          /\ data'.version = data.version
      BY <1>2, <1>t, <2>1, DataFields DEF Boot, PipelineTypeOK, Data
    <2>3. PipelineTypeOK'
      BY <1>2, <1>t, <2>2 DEF Boot, PipelineTypeOK, specVars, dbVars, schemaVars
    <2>4. QED
      BY <1>2, <2>2, <2>3 DEF Boot, PipelineInv, SecretIs, DriverIs, specVars, dbVars, schemaVars
  <1>3. QED
    BY <1>1, <1>2

\* The sync of the Database.
LEMMA DatabaseIsWell ==
    ASSUME PipelineInv, DatabaseSteps
    PROVE  PipelineInv'
  <1>t. PipelineTypeOK
    BY DEF PipelineInv
  <1>i. Idle \in Syncs
    BY DEF Idle, Syncs
  <1>1. CASE DatabaseWaits
    <2>1. PipelineTypeOK'
      BY <1>1, <1>t DEF DatabaseWaits, PipelineTypeOK, specVars, serverVars, schemaVars, States
    <2>2. QED
      BY <1>1, <2>1 DEF DatabaseWaits, PipelineInv, SecretIs, DriverIs, specVars, serverVars, schemaVars
  <1>2. CASE StartDatabase
    <2>1. dbSync' \in Syncs
      BY <1>2, <1>t DEF StartDatabase, PipelineTypeOK, Syncs
    <2>2. PipelineTypeOK'
      BY <1>2, <1>t, <2>1 DEF StartDatabase, PipelineTypeOK, specVars, serverVars, schemaVars
    <2>3. QED
      BY <1>2, <2>2 DEF StartDatabase, PipelineInv, SecretIs, DriverIs, specVars, serverVars, schemaVars
  <1>3. CASE SyncDatabase
    <2>1. /\ dbSync.admin \in Passwords \cup {None}
          /\ [dbSync EXCEPT !.at = "secret"] \in Syncs
      BY <1>t DEF PipelineTypeOK, Syncs
    <2>2. data' \in Data /\ dbSync' \in Syncs
      BY <1>3, <1>t, <2>1, DataFields DEF SyncDatabase
    <2>3. PipelineTypeOK'
      BY <1>3, <1>t, <2>2 DEF SyncDatabase, PipelineTypeOK, specVars, schemaVars
    <2>4. /\ data'.exists /\ data'.admin = dbSync.admin /\ data'.version = data.version
          /\ dbSync'.at = "secret" /\ dbSync'.admin = dbSync.admin
      BY <1>3, <1>t DEF SyncDatabase, PipelineTypeOK, Data, Syncs
    <2>5. SecretIs'
      BY <1>3, <2>4 DEF SyncDatabase, PipelineInv, SecretIs, specVars
    <2>6. QED
      BY <1>3, <2>3, <2>4, <2>5 DEF SyncDatabase, PipelineInv, DriverIs, schemaVars
  <1>4. CASE SyncDatabaseFails
    <2>1. data' \in Data /\ data'.admin = data.admin /\ data'.version = data.version
          /\ (data.exists => data'.exists)
      BY <1>4, <1>t, DataFields DEF SyncDatabaseFails, PipelineTypeOK, Data
    <2>2. events' \in 0..MaxEvents
      BY <1>4, <1>t, HappensInBounds DEF SyncDatabaseFails
    <2>3. PipelineTypeOK'
      BY <1>4, <1>t, <1>i, <2>1, <2>2 DEF SyncDatabaseFails, PipelineTypeOK, specVars, schemaVars, States
    <2>4. QED
      BY <1>4, <2>1, <2>3 DEF SyncDatabaseFails, PipelineInv, SecretIs, DriverIs, specVars, schemaVars, Idle
  <1>5. CASE SyncDatabaseSecret
    <2>1. dbSync.admin \in Passwords \cup {None}
      BY <1>t DEF PipelineTypeOK, Syncs
    <2>2. PipelineTypeOK'
      BY <1>5, <1>t, <1>i, <2>1 DEF SyncDatabaseSecret, PipelineTypeOK, specVars, serverVars, schemaVars, States
    <2>3. SecretIs'
      BY <1>5 DEF SyncDatabaseSecret, PipelineInv, SecretIs, specVars, serverVars, Idle
    <2>4. QED
      BY <1>5, <2>2, <2>3 DEF SyncDatabaseSecret, PipelineInv, DriverIs, serverVars, schemaVars
  <1>6. QED
    BY <1>1, <1>2, <1>3, <1>4, <1>5 DEF DatabaseSteps

\* The sync of a schema changes nothing of the others but the version.
LEMMA SchemaIsWell ==
    ASSUME PipelineInv, NEW k \in Schemas, SchemaSteps(k) \/ MigrationCut(k)
    PROVE  PipelineInv'
  <1>t. PipelineTypeOK
    BY DEF PipelineInv
  <1>1. events' \in 0..MaxEvents
    BY <1>t, HappensInBounds DEF SchemaSteps, SchemaWaits, StartSchema, OpenDriver, OpenFails,
          VersionFails, IsDirty, MigrateSchema, MigrationCut
  <1>2. UNCHANGED <<specVars, pod, up, secret, dbVars>>
    BY DEF SchemaSteps, SchemaWaits, StartSchema, OpenDriver, OpenFails,
           VersionFails, IsDirty, MigrateSchema, MigrationCut, serverVars
  <1>3. CASE MigrateSchema(k) \/ MigrationCut(k)
    <2>1. PICK v \in {Target, Dirty} :
             /\ data' = [data EXCEPT !.version = v]
             /\ v = Dirty => data.version # Target /\ said'[k] = "Error"
      <3>1. CASE MigrateSchema(k)
        BY <3>1, DataFields, <1>t DEF MigrateSchema
      <3>2. CASE MigrationCut(k)
        <4>1. said'[k] = "Error"
          BY <3>2, <1>t DEF MigrationCut, SchemaEnds, PipelineTypeOK
        <4>2. QED
          BY <3>2, <4>1 DEF MigrationCut
      <3>3. QED
        BY <1>3, <3>1, <3>2
    <2>2. data' \in Data /\ data'.exists = data.exists /\ data'.admin = data.admin /\ data'.version = v
      BY <1>t, <2>1, DataFields DEF PipelineTypeOK, Data
    <2>3. PipelineTypeOK'
      BY <1>1, <1>2, <1>3, <1>t, <2>2 DEF MigrateSchema, MigrationCut, SchemaEnds, PipelineTypeOK,
             specVars, dbVars, States
    <2>4. SecretIs'
      BY <1>2, <2>2 DEF PipelineInv, SecretIs, specVars, dbVars
    <2>5. ASSUME NEW j \in Schemas PROVE DriverIs(j)'
      <3>1. driver' = driver /\ (j # k => said'[j] = said[j] /\ scSync'[j] = scSync[j])
        BY <1>3, <1>t DEF MigrateSchema, MigrationCut, SchemaEnds, PipelineTypeOK
      <3>2. DriverIs(j) /\ up' = up
        BY <1>2 DEF PipelineInv
      <3>3. CASE v = Target
        BY <2>2, <3>1, <3>2, <3>3 DEF DriverIs
      <3>4. CASE v = Dirty
        BY <2>1, <2>2, <3>1, <3>2, <3>4 DEF DriverIs
      <3>5. QED
        BY <3>3, <3>4
    <2>6. QED
      BY <2>3, <2>4, <2>5 DEF PipelineInv
  <1>4. CASE \/ SchemaWaits(k) \/ StartSchema(k) \/ OpenDriver(k) \/ OpenFails(k)
             \/ VersionFails(k) \/ IsDirty(k)
    <2>1. data' = data
      BY <1>4 DEF SchemaWaits, StartSchema, OpenDriver, OpenFails, VersionFails, IsDirty, serverVars
    <2>2. /\ scSync' \in [Schemas -> Passwords \cup {None}]
          /\ driver' \in [Schemas -> {"none", "open", "broken"}]
          /\ said' \in [Schemas -> States]
      BY <1>4, <1>t DEF SchemaWaits, StartSchema, OpenDriver, OpenFails, VersionFails, IsDirty,
             SchemaEnds, PipelineTypeOK, States
    <2>3. PipelineTypeOK'
      BY <1>1, <1>2, <1>t, <2>1, <2>2 DEF PipelineTypeOK, specVars, dbVars
    <2>4. SecretIs'
      BY <1>2, <2>1 DEF PipelineInv, SecretIs, specVars, dbVars
    <2>5. ASSUME NEW j \in Schemas PROVE DriverIs(j)'
      <3>1. DriverIs(j) /\ up' = up
        BY <1>2 DEF PipelineInv
      <3>2. CASE j # k
        <4>1. driver'[j] = driver[j] /\ said'[j] = said[j] /\ scSync'[j] = scSync[j]
          BY <1>4, <1>t, <3>2 DEF SchemaWaits, StartSchema, OpenDriver, OpenFails, VersionFails,
                 IsDirty, SchemaEnds, PipelineTypeOK
        <4>2. QED
          BY <2>1, <3>1, <4>1 DEF DriverIs
      <3>3. CASE j = k
        <4>1. \/ driver'[k] # "open"
              \/ driver'[k] = "open" /\ scSync'[k] # None /\ up /\ data.exists
              \/ driver'[k] = driver[k] /\ said'[k] # "Success"
          BY <1>4, <1>t, <3>1, <3>3 DEF SchemaWaits, StartSchema, OpenDriver, OpenFails, VersionFails,
                 IsDirty, SchemaEnds, PipelineTypeOK, Opens, DriverIs
        <4>2. QED
          BY <2>1, <3>1, <3>3, <4>1 DEF DriverIs
      <3>4. QED
        BY <3>2, <3>3
    <2>6. QED
      BY <2>3, <2>4, <2>5 DEF PipelineInv
  <1>5. QED
    BY <1>3, <1>4 DEF SchemaSteps

LEMMA PipelineNext == PipelineInv /\ [Next]_vars => PipelineInv'
  <1> SUFFICES ASSUME PipelineInv, [Next]_vars PROVE PipelineInv'
    OBVIOUS
  <1>1. CASE UNCHANGED vars
    <2>1. UNCHANGED <<specVars, serverVars, secret, dbVars, schemaVars, events>>
      BY <1>1 DEF vars
    <2>2. PipelineTypeOK'
      BY <2>1 DEF PipelineInv, PipelineTypeOK, specVars, serverVars, dbVars, schemaVars
    <2>3. QED
      BY <2>1, <2>2 DEF PipelineInv, SecretIs, DriverIs, specVars, serverVars, dbVars, schemaVars
  <1>2. CASE Next
    <2>1. \/ PodLost \/ EditRoot \/ EditAdmin \/ DeleteSecret \/ Crash
          \/ MakePod \/ MakeSecret \/ Boot
          \/ DatabaseSteps
          \/ \E k \in Schemas : SchemaSteps(k) \/ MigrationCut(k)
      BY <1>2 DEF Next, SyncServer
    <2>2. QED
      BY <2>1, OutsideIsWell, ServerIsWell, DatabaseIsWell, SchemaIsWell
  <1>3. QED
    BY <1>1, <1>2
-----------------------------------------------------------------------------
\* Every variable keeps its type.
THEOREM PipelineTypeCorrect == Spec => []PipelineTypeOK
  <1>1. PipelineInv => PipelineTypeOK
    BY DEF PipelineInv
  <1>2. QED
    BY <1>1, PipelineInit, PipelineNext, PTL DEF Spec

\* Between its syncs, a schema that says Success (databaseSchemaResource.go:180,
\* :196) is at its version as long as its driver has its connection.
THEOREM SuccessIsTrueOrCutOff == Spec => []SuccessStands
  <1>1. PipelineInv => SuccessStands
    BY DEF PipelineInv, DriverIs, SuccessStands
  <1>2. QED
    BY <1>1, PipelineInit, PipelineNext, PTL DEF Spec

\* The secret that syncDatabaseSecret has made once (databaseResource.go:178-213)
\* opens the database as long as no edit of the password comes under it.
THEOREM SecretStaysGood == Spec => []SecretOpens
  <1>1. PipelineInv => SecretOpens
    BY DEF PipelineInv, SecretIs, SecretOpens
  <1>2. QED
    BY <1>1, PipelineInit, PipelineNext, PTL DEF Spec
=============================================================================
