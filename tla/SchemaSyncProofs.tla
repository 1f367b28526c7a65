-------------------------- MODULE SchemaSyncProofs ---------------------------
(***************************************************************************)
(* The safety of SchemaSync for every number of schema objects, databases  *)
(* and workers: syncSchema keeps to the rules of golang-migrate, so that   *)
(* what MigrateProofs shows holds of the controller's databases; status    *)
(* writes leave the spec to the users; Success has been true.              *)
(***************************************************************************)
EXTENDS SchemaSync, MigrateProofs, SequenceTheorems

\* Where a sync is, and the call of Migrate it makes, if any.
CallAgrees ==
    \A k \in Schemas :
        /\ step[k] # "idle" => snap[k] # NoObj
        /\ pc[k] # "idle" => step[k] = "migrating" /\ to[k] = snap[k].want.version
        /\ result[k] # "none" => step[k] = "migrating"

\* The last event under way, or else the cache, is the object in the API server.
CacheFollows ==
    \A k \in Schemas : IF news[k] = <<>> THEN cache[k] = obj[k]
                                         ELSE news[k][Len(news[k])] = obj[k]

CopyIsCurrent == \A k \in Schemas : current[k] => snap[k] = obj[k]

Value == Objects \cup {NoObj}

LEMMA ObjectFields ==
    ASSUME NEW o \in Value, o # NoObj
    PROVE  /\ o \in Objects /\ o.want \in Wants
           /\ o.want.db \in Databases /\ o.want.version \in Targets
           /\ \A w \in Wants : [o EXCEPT !.want = w] \in Objects
           /\ \A st \in States : /\ [o EXCEPT !.state = st] \in Objects
                                 /\ [o EXCEPT !.state = st].want = o.want
  BY DEF Value, Objects, Wants

LEMMA TailLast ==
    ASSUME NEW S, NEW q \in Seq(S), q # <<>>
    PROVE  /\ Head(q) \in S /\ Tail(q) \in Seq(S)
           /\ Tail(q) = <<>> => Head(q) = q[Len(q)]
           /\ Tail(q) # <<>> => Tail(q)[Len(Tail(q))] = q[Len(q)]
  <1>1. /\ Head(q) \in S /\ Tail(q) \in Seq(S) /\ Len(Tail(q)) = Len(q) - 1
        /\ \A i \in 1 .. Len(Tail(q)) : Tail(q)[i] = q[i + 1]
    BY HeadTailProperties
  <1>2. Len(q) \in Nat /\ Head(q) = q[1]
    OBVIOUS
  <1>3. Tail(q) = <<>> => Len(q) = 1
    <2>1. Tail(q) = <<>> => Len(Tail(q)) = 0
      BY EmptySeq
    <2>2. QED
      BY <1>1, <1>2, <2>1
  <1>4. Tail(q) # <<>> => Len(Tail(q)) \in 1 .. Len(Tail(q))
    BY <1>1, EmptySeq
  <1>5. QED
    BY <1>1, <1>2, <1>3, <1>4

LEMMA AppendLast ==
    ASSUME NEW S, NEW q \in Seq(S), NEW x \in S
    PROVE  /\ Append(q, x) \in Seq(S) /\ Append(q, x) # <<>> /\ Append(q, x) # q
           /\ Append(q, x)[Len(Append(q, x))] = x
  OBVIOUS
-----------------------------------------------------------------------------
\* Every step of the reconciler is a step of golang-migrate or none.
LEMMA CallMigrateStep ==
    ASSUME SyncTypeOK, NEW k \in Schemas, snap[k] # NoObj, CallMigrate(k)
    PROVE  [MigrateNext]_migrateVars
  <1>1. snap[k].want.version \in Targets
    BY ObjectFields DEF SyncTypeOK, Value
  <1>2. Migrate(k, snap[k].want.version) \/ UNCHANGED migrateVars
    BY DEF CallMigrate
  <1>3. QED
    BY <1>1, <1>2 DEF MigrateNext

LEMMA RefinesMigrate ==
    ASSUME SyncTypeOK, CallAgrees, [Next]_vars
    PROVE  [MigrateNext]_migrateVars
  <1>1. ASSUME NEW k \in Schemas, Start(k) \/ OpenFails(k) PROVE [MigrateNext]_migrateVars
    <2>1. cache[k].want.db \in Databases
      BY <1>1, ObjectFields DEF SyncTypeOK, Value, Start, OpenFails
    <2>2. QED
      BY <1>1, <2>1 DEF Start, OpenFails, GetDriver, MigrateNext
  <1>2. ASSUME NEW k \in Schemas, ReadVersion(k) PROVE [MigrateNext]_migrateVars
    <2>1. snap[k] # NoObj
      BY <1>2 DEF ReadVersion, CallAgrees
    <2>2. UNCHANGED migrateVars \/ CallMigrate(k)
      BY <1>2 DEF ReadVersion
    <2>3. QED
      BY <2>1, <2>2, CallMigrateStep
  <1>3. ASSUME NEW k \in Schemas, ReportNil(k) PROVE [MigrateNext]_migrateVars
    <2>1. snap[k] # NoObj
      BY <1>3 DEF ReportNil, CallAgrees
    <2>2. UNCHANGED migrateVars \/ CallMigrate(k)
      BY <1>3 DEF ReportNil
    <2>3. QED
      BY <2>1, <2>2, CallMigrateStep
  <1>4. ASSUME NEW k \in Schemas, VersionFails(k) \/ MigrateReturns(k)
        PROVE  [MigrateNext]_migrateVars
    BY <1>4 DEF VersionFails, MigrateReturns, MigrateNext
  <1>5. ASSUME NEW k \in Schemas, MigrateStep(k) \/ MigrateFault(k)
        PROVE  [MigrateNext]_migrateVars
    BY <1>5 DEF MigrateStep, MigrateFault, MigrateNext, CallStep
  <1>6. ASSUME NEW k \in Schemas,
               \/ Edit(k) \/ Deliver(k) \/ Resync(k) \/ InputsArrive(k)
               \/ StartInVain(k) \/ StartGone(k) \/ VersionUnread(k) \/ Report(k)
        PROVE  UNCHANGED migrateVars
    BY <1>6 DEF Edit, Deliver, Resync, InputsArrive, StartInVain, StartGone,
                VersionUnread, Report
  <1>7. CASE Crash
    BY <1>7 DEF Crash, MigrateNext
  <1>8. CASE UNCHANGED vars
    BY <1>8 DEF vars
  <1>9. QED
    BY <1>1, <1>2, <1>3, <1>4, <1>5, <1>6, <1>7, <1>8
       DEF Next, StartSync, SyncStep
-----------------------------------------------------------------------------
\* Every variable keeps its type.
LEMMA StoreType ==
    ASSUME SyncTypeOK, NEW k \in Schemas, NEW o \in Value, Store(k, o)
    PROVE  obj' \in [Schemas -> Value] /\ news' \in [Schemas -> Seq(Value)]
  <1>1. obj' = [obj EXCEPT ![k] = o] /\ news' = [news EXCEPT ![k] = Append(@, o)]
    BY DEF Store
  <1>2. Append(news[k], o) \in Seq(Value)
    BY AppendLast DEF SyncTypeOK, Value
  <1>3. QED
    BY <1>1, <1>2 DEF SyncTypeOK, Value

LEMMA WriteStatusType ==
    ASSUME SyncTypeOK, NEW k \in Schemas, NEW st \in States, snap[k] # NoObj,
           WriteStatus(k, st)
    PROVE  obj' \in [Schemas -> Value] /\ news' \in [Schemas -> Seq(Value)]
  <1>1. snap[k] \in Value
    BY DEF SyncTypeOK, Value
  <1>2. [snap[k] EXCEPT !.state = st] \in Value
    BY <1>1, ObjectFields DEF Value
  <1>3. CASE Store(k, [snap[k] EXCEPT !.state = st])
    BY <1>2, <1>3, StoreType
  <1>4. CASE UNCHANGED <<obj, news>>
    BY <1>4 DEF SyncTypeOK, Value
  <1>5. QED
    BY <1>3, <1>4 DEF WriteStatus

LEMMA TakeType ==
    ASSUME SyncTypeOK, NEW k \in Schemas, Take(k)
    PROVE  /\ pending' \subseteq Schemas
           /\ snap' \in [Schemas -> Value]
           /\ current' \in [Schemas -> BOOLEAN]
  BY DEF Take, SyncTypeOK, Value

\* The types of the variables that SchemaSync adds.
OwnTypes ==
    /\ obj \in [Schemas -> Value]
    /\ news \in [Schemas -> Seq(Value)]
    /\ cache \in [Schemas -> Value]
    /\ inputs \in [Schemas -> BOOLEAN]
    /\ pending \subseteq Schemas
    /\ step \in [Schemas -> Steps]
    /\ snap \in [Schemas -> Value]
    /\ current \in [Schemas -> BOOLEAN]
    /\ verdict \in [Schemas -> States]
    /\ asked \in [Schemas -> Wants \cup {NoObj}]
    /\ events \in 0..MaxEvents

LEMMA OwnTypeStep ==
    ASSUME SyncTypeOK, CallAgrees, [Next]_vars
    PROVE  OwnTypes'
  <1> USE SchemaSyncAssumption
  <1>a. OwnTypes
    BY DEF SyncTypeOK, OwnTypes, Value
  <1>e. Happens => events' \in 0..MaxEvents
    BY DEF Happens, SyncTypeOK
  <1>1. ASSUME NEW k \in Schemas, Edit(k) PROVE OwnTypes'
    <2>1. ASSUME NEW w \in Wants, obj[k] # NoObj,
                 Store(k, [obj[k] EXCEPT !.want = w]), asked' = [asked EXCEPT ![k] = w]
          PROVE  OwnTypes'
      <3>1. [obj[k] EXCEPT !.want = w] \in Value
        BY <2>1, <1>a, ObjectFields DEF OwnTypes, Value
      <3>2. obj' \in [Schemas -> Value] /\ news' \in [Schemas -> Seq(Value)]
        BY <2>1, <3>1, StoreType
      <3>3. QED
        BY <1>1, <1>a, <1>e, <2>1, <3>2 DEF Edit, OwnTypes, cacheVars
    <2>2. ASSUME NEW w \in Wants, Store(k, [want |-> w, state |-> ""]),
                 asked' = [asked EXCEPT ![k] = w]
          PROVE  OwnTypes'
      <3>1. [want |-> w, state |-> ""] \in Value
        BY DEF Value, Objects, States
      <3>2. obj' \in [Schemas -> Value] /\ news' \in [Schemas -> Seq(Value)]
        BY <2>2, <3>1, StoreType
      <3>3. QED
        BY <1>1, <1>a, <1>e, <2>2, <3>2 DEF Edit, OwnTypes, cacheVars
    <2>3. ASSUME Store(k, NoObj), asked' = [asked EXCEPT ![k] = NoObj] PROVE OwnTypes'
      <3>1. obj' \in [Schemas -> Value] /\ news' \in [Schemas -> Seq(Value)]
        BY <2>3, StoreType DEF Value
      <3>2. QED
        BY <1>1, <1>a, <1>e, <2>3, <3>1 DEF Edit, OwnTypes, cacheVars
    <2>4. QED
      BY <1>1, <2>1, <2>2, <2>3 DEF Edit
  <1>2. ASSUME NEW k \in Schemas, Deliver(k) PROVE OwnTypes'
    <2>1. Head(news[k]) \in Value /\ Tail(news[k]) \in Seq(Value)
      BY <1>2, <1>a, TailLast DEF Deliver, OwnTypes
    <2>2. QED
      BY <1>2, <1>a, <2>1 DEF Deliver, OwnTypes, syncVars
  <1>3. ASSUME NEW k \in Schemas, Resync(k) \/ InputsArrive(k) PROVE OwnTypes'
    BY <1>3, <1>a DEF Resync, InputsArrive, OwnTypes, apiVars, cacheVars, syncVars
  <1>4. ASSUME NEW k \in Schemas,
               StartGone(k) \/ Start(k) \/ StartInVain(k) \/ OpenFails(k)
        PROVE  OwnTypes'
    <2>1. Take(k)
      BY <1>4 DEF StartGone, Start, StartInVain, OpenFails
    <2>2. /\ pending' \subseteq Schemas
          /\ snap' \in [Schemas -> Value] /\ current' \in [Schemas -> BOOLEAN]
      BY <2>1, TakeType
    <2>3. step' \in [Schemas -> Steps] /\ verdict' \in [Schemas -> States]
      BY <1>4, <1>a DEF StartGone, Start, StartInVain, OpenFails, OwnTypes, Steps, States
    <2>4. QED
      BY <1>4, <1>a, <1>e, <2>2, <2>3
         DEF StartGone, Start, StartInVain, OpenFails, OwnTypes, apiVars
  <1>5. ASSUME NEW k \in Schemas, ReadVersion(k) PROVE OwnTypes'
    <2>1. step' \in [Schemas -> Steps] /\ verdict' \in [Schemas -> States]
      BY <1>5, <1>a DEF ReadVersion, Conclude, GoTo, CallMigrate, OwnTypes, Steps, States
    <2>2. UNCHANGED <<snap, current>>
      BY <1>5 DEF ReadVersion, Conclude, GoTo
    <2>3. QED
      BY <1>5, <1>a, <2>1, <2>2 DEF ReadVersion, OwnTypes, apiVars, cacheVars
  <1>6. ASSUME NEW k \in Schemas, ReportNil(k) PROVE OwnTypes'
    <2>1. step' \in [Schemas -> Steps] /\ verdict' \in [Schemas -> States]
      BY <1>6, <1>a DEF ReportNil, CallMigrate, OwnTypes, Steps, States
    <2>2. obj' \in [Schemas -> Value] /\ news' \in [Schemas -> Seq(Value)]
      BY <1>6, WriteStatusType DEF ReportNil, CallAgrees, States
    <2>3. current' \in [Schemas -> BOOLEAN]
      BY <1>6, <1>a DEF ReportNil, OwnTypes
    <2>4. QED
      BY <1>6, <1>a, <2>1, <2>2, <2>3 DEF ReportNil, OwnTypes, cacheVars
  <1>7. ASSUME NEW k \in Schemas, VersionFails(k) \/ VersionUnread(k) \/ MigrateReturns(k)
        PROVE  OwnTypes'
    BY <1>7, <1>a, <1>e DEF VersionFails, VersionUnread, MigrateReturns, Conclude, OwnTypes,
                            Steps, States, apiVars, cacheVars
  <1>8. ASSUME NEW k \in Schemas, MigrateStep(k) \/ MigrateFault(k) PROVE OwnTypes'
    BY <1>8, <1>a, <1>e DEF MigrateStep, MigrateFault, OwnTypes, apiVars, cacheVars, syncVars
  <1>9. ASSUME NEW k \in Schemas, Report(k) PROVE OwnTypes'
    <2>1. obj' \in [Schemas -> Value] /\ news' \in [Schemas -> Seq(Value)]
      BY <1>9, <1>a, WriteStatusType DEF Report, CallAgrees, OwnTypes
    <2>2. step' \in [Schemas -> Steps] /\ verdict' \in [Schemas -> States]
      BY <1>9, <1>a DEF Report, OwnTypes, Steps, States
    <2>3. current' \in [Schemas -> BOOLEAN]
      BY <1>9, <1>a DEF Report, OwnTypes
    <2>4. snap' \in [Schemas -> Value]
      BY <1>9, <1>a DEF Report, OwnTypes, Value
    <2>5. QED
      BY <1>9, <1>a, <2>1, <2>2, <2>3, <2>4 DEF Report, OwnTypes, cacheVars
  <1>10. CASE Crash
    <2>1. news' \in [Schemas -> Seq(Value)]
      <3>1. <<>> \in Seq(Value)
        OBVIOUS
      <3>2. QED
        BY <1>10, <3>1 DEF Crash
    <2>2. /\ step' \in [Schemas -> Steps] /\ verdict' \in [Schemas -> States]
          /\ snap' \in [Schemas -> Value] /\ pending' \subseteq Schemas
      BY <1>10 DEF Crash, Steps, States, Value
    <2>3. current' \in [Schemas -> BOOLEAN]
      BY <1>10 DEF Crash
    <2>4. QED
      BY <1>10, <1>a, <1>e, <2>1, <2>2, <2>3 DEF Crash, OwnTypes
  <1>11. CASE UNCHANGED vars
    BY <1>11, <1>a DEF vars, OwnTypes, apiVars, cacheVars, syncVars
  <1>12. QED
    BY <1>1, <1>2, <1>3, <1>4, <1>5, <1>6, <1>7, <1>8, <1>9, <1>10, <1>11
       DEF Next, StartSync, SyncStep

LEMMA SyncTypeStep ==
    ASSUME SyncTypeOK, CallAgrees, Connected, [Next]_vars
    PROVE  SyncTypeOK'
  <1>1. MigrateTypeOK'
    BY RefinesMigrate, TypeStep DEF SyncTypeOK
  <1>2. OwnTypes'
    BY OwnTypeStep
  <1>3. witness' \in [Schemas -> BOOLEAN]
    BY DEF Next, Witness, vars, SyncTypeOK
  <1>4. QED
    BY <1>1, <1>2, <1>3 DEF SyncTypeOK, OwnTypes, Value
-----------------------------------------------------------------------------
\* A call of Migrate is made by a sync that waits for it, for its version.
LEMMA CallAgreesStep ==
    ASSUME SyncTypeOK, CallAgrees, [Next]_vars
    PROVE  CallAgrees'
  <1>t. /\ pc \in [Schemas -> Locked \cup {"idle", "lock"}]
        /\ result \in [Schemas -> {"none", "ok", "error"}]
        /\ to \in [Schemas -> Targets \cup {Nil}]
        /\ step \in [Schemas -> Steps]
        /\ snap \in [Schemas -> Value]
    BY DEF SyncTypeOK, MigrateTypeOK, Value
  <1>1. ASSUME NEW k \in Schemas,
               \/ Edit(k) \/ Deliver(k) \/ Resync(k) \/ InputsArrive(k)
        PROVE  CallAgrees'
    BY <1>1 DEF Edit, Deliver, Resync, InputsArrive, CallAgrees, migrateVars, callVars, syncVars
  <1>2. ASSUME NEW k \in Schemas,
               StartGone(k) \/ Start(k) \/ StartInVain(k) \/ OpenFails(k)
        PROVE  CallAgrees'
    <2>1. UNCHANGED <<pc, callVars, result>>
      BY <1>2 DEF StartGone, Start, StartInVain, OpenFails, GetDriver, Open, migrateVars
    <2>2. step[k] = "idle" /\ snap' = [snap EXCEPT ![k] = cache[k]]
      BY <1>2 DEF StartGone, Start, StartInVain, OpenFails, Take
    <2>3. \/ step' = step
          \/ cache[k] # NoObj /\ \E st \in Steps : step' = [step EXCEPT ![k] = st]
      BY <1>2 DEF StartGone, Start, StartInVain, OpenFails, Steps
    <2>4. QED
      BY <1>t, <2>1, <2>2, <2>3 DEF CallAgrees, callVars
  <1>3. ASSUME NEW k \in Schemas, snap[k] # NoObj, snap' = snap, pc[k] = "idle",
               result[k] = "none", CallMigrate(k)
        PROVE  CallAgrees'
    BY <1>t, <1>3 DEF CallMigrate, Migrate, CallAgrees, migrateVars, callVars
  <1>4. ASSUME NEW k \in Schemas, snap[k] # NoObj, snap' = snap, pc[k] = "idle",
               result[k] = "none", UNCHANGED migrateVars,
               NEW st \in Steps, step' = [step EXCEPT ![k] = st]
        PROVE  CallAgrees'
    BY <1>t, <1>4 DEF CallAgrees, migrateVars, callVars
  <1>5. ASSUME NEW k \in Schemas, ReadVersion(k) PROVE CallAgrees'
    <2>1. snap[k] # NoObj /\ pc[k] = "idle" /\ result[k] = "none" /\ snap' = snap
      BY <1>5, <1>t DEF ReadVersion, CallAgrees, Conclude, GoTo
    <2>2. CASE CallMigrate(k)
      BY <1>3, <2>1, <2>2
    <2>3. CASE UNCHANGED migrateVars /\ \E st \in Steps : step' = [step EXCEPT ![k] = st]
      BY <1>4, <2>1, <2>3
    <2>4. QED
      BY <1>5, <2>2, <2>3 DEF ReadVersion, Conclude, GoTo, Steps
  <1>6. ASSUME NEW k \in Schemas, ReportNil(k) PROVE CallAgrees'
    <2>1. snap[k] # NoObj /\ pc[k] = "idle" /\ result[k] = "none" /\ snap' = snap
      BY <1>6, <1>t DEF ReportNil, CallAgrees
    <2>2. CASE CallMigrate(k)
      BY <1>3, <2>1, <2>2
    <2>3. CASE UNCHANGED migrateVars /\ \E st \in Steps : step' = [step EXCEPT ![k] = st]
      BY <1>4, <2>1, <2>3
    <2>4. QED
      BY <1>6, <2>2, <2>3 DEF ReportNil, Steps
  <1>7. ASSUME NEW k \in Schemas, VersionFails(k) PROVE CallAgrees'
    BY <1>7, <1>t DEF VersionFails, Discard, Conclude, CallAgrees, callVars
  <1>8. ASSUME NEW k \in Schemas, MigrateReturns(k) PROVE CallAgrees'
    BY <1>8, <1>t DEF MigrateReturns, TakeResult, Conclude, CallAgrees, callVars
  <1>9. ASSUME NEW k \in Schemas, MigrateStep(k) \/ MigrateFault(k) PROVE CallAgrees'
    <2>1. UNCHANGED <<step, snap>>
      BY <1>9 DEF MigrateStep, MigrateFault, syncVars
    <2>2. \A s \in Schemas : /\ pc'[s] # "idle" => pc[s] # "idle" /\ to'[s] = to[s]
                             /\ result'[s] # "none" => result[s] # "none" \/ pc[s] # "idle"
      BY <1>9, <1>t DEF MigrateStep, MigrateFault, Acquire, LockTimeout, Check, Mark,
         RunMigration, RunFails, MarkDone, SetVersionFails, Unlock, UnlockFails, SessionLost,
         Fail, Return, callVars
    <2>3. QED
      BY <2>1, <2>2 DEF CallAgrees
  <1>10. ASSUME NEW k \in Schemas, Report(k) PROVE CallAgrees'
    BY <1>10, <1>t DEF Report, CallAgrees, migrateVars, callVars
  <1>11. CASE Crash
    BY <1>11 DEF Crash, MigrateCrash, CallAgrees
  <1>12. CASE UNCHANGED vars
    BY <1>12 DEF vars, CallAgrees, migrateVars, callVars, syncVars
  <1>13. ASSUME NEW k \in Schemas, VersionUnread(k) PROVE CallAgrees'
    BY <1>13, <1>t DEF VersionUnread, Conclude, CallAgrees, migrateVars, callVars
  <1>14. QED
    BY <1>1, <1>2, <1>5, <1>6, <1>7, <1>8, <1>9, <1>10, <1>11, <1>12, <1>13
       DEF Next, StartSync, SyncStep
-----------------------------------------------------------------------------
\* Why a status write, which carries a whole copy, cannot undo an edit.
Copies == CacheFollows /\ CopyIsCurrent /\ SpecIsTheUsers

\* Whoever stores an object invalidates the copies of it.
LEMMA StoreKeepsCopies ==
    ASSUME SyncTypeOK, Copies, NEW k \in Schemas, NEW o \in Value, Store(k, o),
           UNCHANGED cache, current' \in [Schemas -> BOOLEAN], ~current'[k],
           \A j \in Schemas \ {k} : current'[j] => current[j] /\ snap'[j] = snap[j],
           (IF o = NoObj THEN NoObj ELSE o.want) = asked'[k],
           \A j \in Schemas \ {k} : asked'[j] = asked[j]
    PROVE  Copies'
  <1>1. obj' = [obj EXCEPT ![k] = o] /\ news' = [news EXCEPT ![k] = Append(@, o)]
    BY DEF Store
  <1>2. obj'[k] = o /\ news'[k] = Append(news[k], o)
        /\ \A j \in Schemas \ {k} : obj'[j] = obj[j] /\ news'[j] = news[j]
    BY <1>1 DEF SyncTypeOK
  <1>3. news'[k] # <<>> /\ news'[k][Len(news'[k])] = o
    <2>1. news[k] \in Seq(Value)
      BY DEF SyncTypeOK, Value
    <2>2. Append(news[k], o) # <<>> /\ Append(news[k], o)[Len(Append(news[k], o))] = o
      BY <2>1, AppendLast
    <2>3. QED
      BY <1>2, <2>2
  <1>4. CacheFollows'
    BY <1>2, <1>3 DEF Copies, CacheFollows
  <1>5. CopyIsCurrent'
    BY <1>2 DEF Copies, CopyIsCurrent
  <1>6. SpecIsTheUsers'
    BY <1>2 DEF Copies, SpecIsTheUsers
  <1>7. QED
    BY <1>4, <1>5, <1>6 DEF Copies

LEMMA WriteStatusKeepsCopies ==
    ASSUME SyncTypeOK, Copies, NEW k \in Schemas, NEW st \in States, snap[k] # NoObj,
           WriteStatus(k, st), UNCHANGED <<cache, asked>>,
           current' \in [Schemas -> BOOLEAN],
           current'[k] => current[k] /\ news' = news /\ snap'[k] = snap[k],
           \A j \in Schemas \ {k} : current'[j] = current[j] /\ snap'[j] = snap[j]
    PROVE  Copies'
  <1>1. CASE UNCHANGED <<obj, news>>
    <2>1. \A j \in Schemas : current'[j] => current[j] /\ snap'[j] = snap[j]
      OBVIOUS
    <2>2. CopyIsCurrent'
      BY <1>1, <2>1 DEF Copies, CopyIsCurrent
    <2>3. CacheFollows' /\ SpecIsTheUsers'
      BY <1>1 DEF Copies, CacheFollows, SpecIsTheUsers
    <2>4. QED
      BY <2>2, <2>3 DEF Copies
  <1>2. CASE current[k] /\ Store(k, [snap[k] EXCEPT !.state = st])
    <2> DEFINE o == [snap[k] EXCEPT !.state = st]
    <2>1. snap[k] = obj[k]
      BY <1>2 DEF Copies, CopyIsCurrent
    <2>2. o \in Objects /\ o.want = obj[k].want
      BY <2>1, ObjectFields DEF SyncTypeOK, Value
    <2>3. o \in Value /\ o # NoObj
      BY <2>2, NoObjAssumption DEF Value
    <2>4. o.want = asked'[k]
      BY <2>1, <2>2 DEF Copies, SpecIsTheUsers
    <2>5. news' # news
      <3>1. news'[k] = Append(news[k], o)
        BY <1>2 DEF Store, SyncTypeOK
      <3>2. QED
        BY <2>3, <3>1, AppendLast DEF SyncTypeOK, Value
    <2>6. QED
      BY <1>2, <2>3, <2>4, <2>5, StoreKeepsCopies
  <1>3. QED
    BY <1>1, <1>2 DEF WriteStatus

LEMMA CopiesStep ==
    ASSUME SyncTypeOK, CallAgrees, Copies, [Next]_vars
    PROVE  Copies'
  <1>t. /\ obj \in [Schemas -> Value] /\ news \in [Schemas -> Seq(Value)]
        /\ cache \in [Schemas -> Value] /\ snap \in [Schemas -> Value]
        /\ asked \in [Schemas -> Wants \cup {NoObj}]
        /\ current \in [Schemas -> BOOLEAN]
        /\ verdict \in [Schemas -> States]
    BY DEF SyncTypeOK, Value
  <1>1. ASSUME NEW k \in Schemas, Edit(k) PROVE Copies'
    <2>1. /\ current' \in [Schemas -> BOOLEAN] /\ ~current'[k]
          /\ UNCHANGED <<cache, snap>>
          /\ \A j \in Schemas \ {k} : current'[j] = current[j]
      BY <1>1, <1>t DEF Edit, cacheVars
    <2>2. ASSUME NEW o \in Value, NEW a, Store(k, o), asked' = [asked EXCEPT ![k] = a],
                 (IF o = NoObj THEN NoObj ELSE o.want) = a
          PROVE  Copies'
      <3>1. asked'[k] = a /\ \A j \in Schemas \ {k} : asked'[j] = asked[j]
        BY <1>t, <2>2
      <3>2. QED
        BY <2>1, <2>2, <3>1, StoreKeepsCopies
    <2>3. ASSUME NEW w \in Wants, obj[k] # NoObj,
                 Store(k, [obj[k] EXCEPT !.want = w]), asked' = [asked EXCEPT ![k] = w]
          PROVE  Copies'
      <3>1. [obj[k] EXCEPT !.want = w] \in Objects /\ [obj[k] EXCEPT !.want = w].want = w
        BY <1>t, <2>3, ObjectFields DEF Objects, Value
      <3>2. QED
        BY <2>2, <2>3, <3>1, NoObjAssumption DEF Value
    <2>4. ASSUME NEW w \in Wants, Store(k, [want |-> w, state |-> ""]),
                 asked' = [asked EXCEPT ![k] = w]
          PROVE  Copies'
      <3>1. [want |-> w, state |-> ""] \in Objects
        BY DEF Objects, States
      <3>2. QED
        BY <2>2, <2>4, <3>1, NoObjAssumption DEF Value
    <2>5. ASSUME Store(k, NoObj), asked' = [asked EXCEPT ![k] = NoObj] PROVE Copies'
      BY <2>2, <2>5 DEF Value
    <2>6. QED
      BY <1>1, <2>3, <2>4, <2>5 DEF Edit
  <1>2. ASSUME NEW k \in Schemas, Deliver(k) PROVE Copies'
    <2>1. /\ cache' = [cache EXCEPT ![k] = Head(news[k])]
          /\ news' = [news EXCEPT ![k] = Tail(@)] /\ news[k] # <<>>
          /\ UNCHANGED <<obj, asked, current, snap>>
      BY <1>2 DEF Deliver, syncVars
    <2>2. /\ Tail(news[k]) = <<>> => Head(news[k]) = news[k][Len(news[k])]
          /\ Tail(news[k]) # <<>> => Tail(news[k])[Len(Tail(news[k]))] = news[k][Len(news[k])]
      BY <1>t, <2>1, TailLast
    <2>3. /\ cache'[k] = Head(news[k]) /\ news'[k] = Tail(news[k])
          /\ \A j \in Schemas \ {k} : cache'[j] = cache[j] /\ news'[j] = news[j]
      BY <1>t, <2>1
    <2>4. CacheFollows'
      BY <2>1, <2>2, <2>3 DEF Copies, CacheFollows
    <2>5. QED
      BY <2>1, <2>4 DEF Copies, CopyIsCurrent, SpecIsTheUsers
  <1>3. ASSUME NEW k \in Schemas,
               StartGone(k) \/ Start(k) \/ StartInVain(k) \/ OpenFails(k)
        PROVE  Copies'
    <2>1. /\ UNCHANGED <<apiVars, cache>> /\ snap' = [snap EXCEPT ![k] = cache[k]]
          /\ current' = [current EXCEPT ![k] = cache[k] # NoObj /\ news[k] = <<>>]
      BY <1>3 DEF StartGone, Start, StartInVain, OpenFails, Take
    <2>2. CopyIsCurrent'
      <3>1. current'[k] => snap'[k] = obj'[k]
        BY <1>t, <2>1 DEF Copies, CacheFollows, apiVars
      <3>2. \A j \in Schemas \ {k} : current'[j] = current[j] /\ snap'[j] = snap[j]
        BY <1>t, <2>1
      <3>3. QED
        BY <2>1, <3>1, <3>2 DEF Copies, CopyIsCurrent, apiVars
    <2>3. QED
      BY <2>1, <2>2 DEF Copies, CacheFollows, SpecIsTheUsers, apiVars
  <1>4. ASSUME NEW k \in Schemas, ReportNil(k) PROVE Copies'
    <2>1. snap[k] # NoObj
      BY <1>4 DEF ReportNil, CallAgrees
    <2>2. /\ WriteStatus(k, "Pending") /\ UNCHANGED <<cache, asked, snap>>
          /\ current' = [current EXCEPT ![k] = @ /\ news' = news]
      BY <1>4 DEF ReportNil, cacheVars
    <2>3. /\ current' \in [Schemas -> BOOLEAN]
          /\ current'[k] => current[k] /\ news' = news
          /\ \A j \in Schemas \ {k} : current'[j] = current[j]
      BY <1>t, <2>2
    <2>4. QED
      BY <2>1, <2>2, <2>3, WriteStatusKeepsCopies DEF States
  <1>5. ASSUME NEW k \in Schemas, Report(k) PROVE Copies'
    <2>1. snap[k] # NoObj
      BY <1>5 DEF Report, CallAgrees
    <2>2. /\ WriteStatus(k, verdict[k]) /\ UNCHANGED <<cache, asked>>
          /\ current' = [current EXCEPT ![k] = FALSE]
          /\ snap' = [snap EXCEPT ![k] = NoObj]
      BY <1>5 DEF Report, cacheVars
    <2>3. /\ current' \in [Schemas -> BOOLEAN] /\ ~current'[k]
          /\ \A j \in Schemas \ {k} : current'[j] = current[j] /\ snap'[j] = snap[j]
      BY <1>t, <2>2
    <2>4. QED
      BY <1>t, <2>1, <2>2, <2>3, WriteStatusKeepsCopies
  <1>6. CASE Crash
    BY <1>6 DEF Crash, Copies, CacheFollows, CopyIsCurrent, SpecIsTheUsers
  <1>7. ASSUME UNCHANGED <<apiVars, cache, current, snap>> PROVE Copies'
    BY <1>7 DEF Copies, CacheFollows, CopyIsCurrent, SpecIsTheUsers, apiVars
  <1>8. ASSUME NEW k \in Schemas,
               \/ Resync(k) \/ InputsArrive(k) \/ ReadVersion(k) \/ VersionFails(k)
               \/ VersionUnread(k) \/ MigrateReturns(k) \/ MigrateStep(k) \/ MigrateFault(k)
        PROVE  Copies'
    BY <1>7, <1>8 DEF Resync, InputsArrive, ReadVersion, VersionFails, VersionUnread, MigrateReturns,
       MigrateStep, MigrateFault, Conclude, GoTo, cacheVars, syncVars
  <1>9. CASE UNCHANGED vars
    BY <1>7, <1>9 DEF vars, cacheVars, syncVars
  <1>10. QED
    BY <1>1, <1>2, <1>3, <1>4, <1>5, <1>6, <1>8, <1>9 DEF Next, StartSync, SyncStep
-----------------------------------------------------------------------------
\* A database without a version is never dirty: Mark records a version.
NilIsClean == \A d \in Databases : table[d].version = Nil => ~table[d].dirty

LEMMA NilStep ==
    ASSUME SyncTypeOK, NilIsClean, [MigrateNext]_migrateVars
    PROVE  NilIsClean'
  <1>t. table \in [Databases -> Rows] /\ MigrateTypeOK
    BY DEF SyncTypeOK, MigrateTypeOK
  <1>1. ASSUME NEW s \in Schemas, Mark(s) PROVE NilIsClean'
    <2>1. PICK x \in Source :
              table' = [table EXCEPT ![Db(s)] = [version |-> x, dirty |-> TRUE]]
      BY <1>1 DEF Mark, Neighbours
    <2>2. x # Nil
      BY MigrateAssumption DEF Nil
    <2>3. QED
      BY <1>t, <2>1, <2>2 DEF NilIsClean
  <1>2. ASSUME NEW s \in Schemas, MarkDone(s) PROVE NilIsClean'
    BY <1>t, <1>2 DEF MarkDone, NilIsClean
  <1>3. ASSUME UNCHANGED table PROVE NilIsClean'
    BY <1>3 DEF NilIsClean
  <1>4. QED
    BY <1>1, <1>2, <1>3
       DEF MigrateNext, CallStep, Open, SessionLost, Discard, Migrate, TakeResult, Acquire,
           LockTimeout, Check, RunMigration, RunFails, SetVersionFails, Unlock, UnlockFails,
           MigrateCrash, migrateVars, dbVars

\* Wherever a sync is about to conclude Success, the row was seen as wanted.
SuccessIsKnown ==
    \A k \in Schemas :
        /\ verdict[k] = "Success" => step[k] = "report" /\ witness[k]
        /\ step[k] = "nil" /\ snap[k].want.version = 0 => witness[k]
        /\ step[k] = "migrating" /\ result[k] = "ok" => witness[k]

\* Knowledge is not lost while the sync stays where it is.
LEMMA WitnessStays ==
    ASSUME Witness, NEW k \in Schemas
    PROVE  /\ witness'[k] <=> step'[k] # "idle" /\ (witness[k] \/ AtWanted(k)')
  BY DEF Witness

\* The invariant below survives for k when its sync and result do not move.
LEMMA KnownStays ==
    ASSUME SuccessIsKnown, Witness, NEW k \in Schemas,
           step'[k] = step[k], snap'[k] = snap[k], verdict'[k] = verdict[k],
           result'[k] = "ok" => result[k] = "ok"
    PROVE  /\ verdict'[k] = "Success" => step'[k] = "report" /\ witness'[k]
           /\ step'[k] = "nil" /\ snap'[k].want.version = 0 => witness'[k]
           /\ step'[k] = "migrating" /\ result'[k] = "ok" => witness'[k]
  BY WitnessStays DEF SuccessIsKnown

LEMMA KnownStep ==
    ASSUME SyncTypeOK, MigrateIInv, CallAgrees, NilIsClean, SuccessIsKnown, [Next]_vars
    PROVE  SuccessIsKnown'
  <1> DEFINE Known(k) == /\ verdict[k] = "Success" => step[k] = "report" /\ witness[k]
                         /\ step[k] = "nil" /\ snap[k].want.version = 0 => witness[k]
                         /\ step[k] = "migrating" /\ result[k] = "ok" => witness[k]
  <1>t. /\ step \in [Schemas -> Steps] /\ snap \in [Schemas -> Value]
        /\ verdict \in [Schemas -> States]
        /\ result \in [Schemas -> {"none", "ok", "error"}]
        /\ table \in [Databases -> Rows] /\ goal \in [Schemas -> Source \cup {Nil}]
    BY DEF SyncTypeOK, MigrateTypeOK, Value
  <1>0. CASE UNCHANGED vars
    BY <1>0 DEF vars, SuccessIsKnown, migrateVars, syncVars
  <1>w. CASE Next
    <2>w. Witness
      BY <1>w DEF Next
    \* A sync that is about to start knows nothing, and needs to know nothing.
    <2>i. ASSUME NEW k \in Schemas, verdict'[k] # "Success", step'[k] \notin {"nil", "migrating"}
          PROVE  Known(k)'
      BY <2>i
    <2>s. ASSUME NEW k \in Schemas, step'[k] = step[k], snap'[k] = snap[k],
                 verdict'[k] = verdict[k], result'[k] = "ok" => result[k] = "ok"
          PROVE  Known(k)'
      BY <2>w, <2>s, KnownStays
    <2>1. ASSUME NEW k \in Schemas,
                 \/ Edit(k) \/ Deliver(k) \/ Resync(k) \/ InputsArrive(k)
          PROVE  SuccessIsKnown'
      <3>1. UNCHANGED <<step, snap, verdict, result>>
        BY <2>1 DEF Edit, Deliver, Resync, InputsArrive, migrateVars, syncVars
      <3>2. QED
        BY <3>1, <2>s DEF SuccessIsKnown
    <2>2. ASSUME NEW k \in Schemas,
                 StartGone(k) \/ Start(k) \/ StartInVain(k) \/ OpenFails(k)
          PROVE  SuccessIsKnown'
      <3>1. step[k] = "idle" /\ verdict[k] # "Success" /\ UNCHANGED result
        BY <2>2 DEF StartGone, Start, StartInVain, OpenFails, Take, GetDriver, Open,
                    migrateVars, SuccessIsKnown
      <3>2. Known(k)'
        <4>1. verdict'[k] # "Success" /\ step'[k] \notin {"nil", "migrating"}
          BY <1>t, <2>2, <3>1 DEF StartGone, Start, StartInVain, OpenFails
        <4>2. QED
          BY <4>1, <2>i
      <3>3. ASSUME NEW j \in Schemas \ {k} PROVE Known(j)'
        <4>1. step'[j] = step[j] /\ snap'[j] = snap[j] /\ verdict'[j] = verdict[j]
          BY <1>t, <2>2 DEF StartGone, Start, StartInVain, OpenFails, Take
        <4>2. QED
          BY <4>1, <3>1, <2>s
      <3>4. QED
        BY <3>2, <3>3 DEF SuccessIsKnown
    <2>3. ASSUME NEW k \in Schemas, CallMigrate(k), snap' = snap, verdict[k] # "Success"
          PROVE  SuccessIsKnown'
      <3>1. result'[k] # "ok" \/ step'[k] = "report"
        BY <1>t, <2>3 DEF CallMigrate, Migrate
      <3>2. verdict'[k] # "Success" /\ step'[k] \in {"migrating", "report"}
        BY <1>t, <2>3 DEF CallMigrate
      <3>3. ASSUME NEW j \in Schemas \ {k} PROVE Known(j)'
        <4>1. /\ step'[j] = step[j] /\ verdict'[j] = verdict[j]
              /\ result'[j] = result[j]
          BY <1>t, <2>3 DEF CallMigrate, Migrate, migrateVars
        <4>2. QED
          BY <4>1, <2>3, <2>s
      <3>4. QED
        BY <3>1, <3>2, <3>3 DEF SuccessIsKnown
    <2>4. ASSUME NEW k \in Schemas, UNCHANGED result, snap' = snap,
                 NEW st \in Steps, step' = [step EXCEPT ![k] = st],
                 NEW vd \in States, verdict' = [verdict EXCEPT ![k] = vd],
                 vd = "Success" => st = "report" /\ witness'[k],
                 st = "nil" /\ snap[k].want.version = 0 => witness'[k],
                 st # "migrating"
          PROVE  SuccessIsKnown'
      <3>1. Known(k)'
        BY <1>t, <2>4
      <3>2. ASSUME NEW j \in Schemas \ {k} PROVE Known(j)'
        <4>1. step'[j] = step[j] /\ verdict'[j] = verdict[j]
          BY <1>t, <2>4
        <4>2. QED
          BY <4>1, <2>4, <2>s
      <3>3. QED
        BY <3>1, <3>2 DEF SuccessIsKnown
    <2>5. ASSUME NEW k \in Schemas, ReadVersion(k) PROVE SuccessIsKnown'
      <3>1. /\ step[k] = "version" /\ verdict[k] # "Success" /\ snap[k] # NoObj
            /\ HasDriver(k) /\ Db(k) \in Databases /\ snap' = snap
        BY <2>5 DEF ReadVersion, SuccessIsKnown, CallAgrees, Conclude, GoTo,
           MigrateIInv, MigrateTypeOK, Connected, HasDriver, Db, Conn
      <3>2. ASSUME UNCHANGED migrateVars, step'[k] # "idle",
                   ~table[Db(k)].dirty,
                   \/ table[Db(k)].version = snap[k].want.version
                   \/ table[Db(k)].version = Nil /\ snap[k].want.version = 0
            PROVE  witness'[k]
        <4>1. AtWanted(k)'
          BY <3>1, <3>2 DEF AtWanted, HasDriver, Db, migrateVars, dbVars
        <4>2. QED
          BY <2>w, <3>2, <4>1, WitnessStays
      <3>3. CASE table[Db(k)].version = Nil /\ GoTo(k, "nil") /\ UNCHANGED migrateVars
        <4>1. step'[k] = "nil" /\ ~table[Db(k)].dirty
          BY <1>t, <3>1, <3>3 DEF GoTo, NilIsClean
        <4>2. verdict' = [verdict EXCEPT ![k] = verdict[k]] /\ UNCHANGED result
          BY <1>t, <3>3 DEF GoTo, migrateVars
        <4>3. snap[k].want.version = 0 => witness'[k]
          BY <3>2, <3>3, <4>1
        <4>4. step' = [step EXCEPT ![k] = "nil"] /\ "nil" \in Steps /\ verdict[k] \in States
          BY <1>t, <3>3 DEF GoTo, Steps
        <4>5. QED
          BY <2>4, <3>1, <4>2, <4>3, <4>4
      <3>4. CASE Conclude(k, "Error") /\ UNCHANGED migrateVars
        <4>1. /\ step' = [step EXCEPT ![k] = "report"] /\ "report" \in Steps
              /\ verdict' = [verdict EXCEPT ![k] = "Error"] /\ "Error" \in States
              /\ UNCHANGED result
          BY <3>4 DEF Conclude, Steps, States, migrateVars
        <4>2. QED
          BY <2>4, <3>1, <4>1
      <3>5. CASE /\ table[Db(k)] = [version |-> snap[k].want.version, dirty |-> FALSE]
                 /\ Conclude(k, "Success") /\ UNCHANGED migrateVars
        <4>1. /\ step' = [step EXCEPT ![k] = "report"] /\ "report" \in Steps
              /\ verdict' = [verdict EXCEPT ![k] = "Success"] /\ "Success" \in States
              /\ UNCHANGED result
          BY <3>5 DEF Conclude, Steps, States, migrateVars
        <4>2. witness'[k]
          <5>1. step'[k] # "idle"
            BY <1>t, <4>1
          <5>2. QED
            BY <3>2, <3>5, <5>1
        <4>3. QED
          BY <2>4, <3>1, <4>1, <4>2
      <3>6. CASE CallMigrate(k)
        BY <2>3, <3>1, <3>6
      <3>7. QED
        BY <2>5, <3>3, <3>4, <3>5, <3>6 DEF ReadVersion
    <2>6. ASSUME NEW k \in Schemas, ReportNil(k) PROVE SuccessIsKnown'
      <3>1. step[k] = "nil" /\ verdict[k] # "Success" /\ snap' = snap
        BY <2>6 DEF ReportNil, SuccessIsKnown
      <3>2. CASE snap[k].want.version = 0
        <4>1. /\ step' = [step EXCEPT ![k] = "report"] /\ "report" \in Steps
              /\ verdict' = [verdict EXCEPT ![k] = "Success"] /\ "Success" \in States
              /\ UNCHANGED result
          BY <2>6, <3>2 DEF ReportNil, Steps, States, migrateVars
        <4>2. witness'[k]
          BY <1>t, <2>w, <3>1, <3>2, <4>1, WitnessStays DEF SuccessIsKnown
        <4>3. QED
          BY <2>4, <3>1, <4>1, <4>2
      <3>3. CASE snap[k].want.version # 0
        BY <2>3, <2>6, <3>1, <3>3 DEF ReportNil
      <3>4. QED
        BY <3>2, <3>3
    <2>7. ASSUME NEW k \in Schemas, VersionFails(k) \/ VersionUnread(k) PROVE SuccessIsKnown'
      <3>1. /\ step' = [step EXCEPT ![k] = "report"] /\ "report" \in Steps
            /\ verdict' = [verdict EXCEPT ![k] = "Error"] /\ "Error" \in States
            /\ UNCHANGED result /\ snap' = snap
        BY <2>7 DEF VersionFails, VersionUnread, Discard, Conclude, Steps, States, migrateVars
      <3>2. QED
        BY <2>4, <3>1
    <2>8. ASSUME NEW k \in Schemas, MigrateReturns(k) PROVE SuccessIsKnown'
      <3>1. /\ step[k] = "migrating" /\ snap' = snap
            /\ step' = [step EXCEPT ![k] = "report"]
            /\ verdict' = [verdict EXCEPT ![k] = IF result[k] = "ok" THEN "Success" ELSE "Error"]
            /\ result' = [result EXCEPT ![k] = "none"]
        BY <2>8 DEF MigrateReturns, TakeResult, Conclude
      <3>2. Known(k)'
        <4>1. step'[k] = "report" /\ (verdict'[k] = "Success" => result[k] = "ok")
          BY <1>t, <3>1
        <4>2. verdict'[k] = "Success" => witness'[k]
          BY <2>w, <3>1, <4>1, WitnessStays DEF SuccessIsKnown
        <4>3. QED
          BY <4>1, <4>2
      <3>3. ASSUME NEW j \in Schemas \ {k} PROVE Known(j)'
        <4>1. step'[j] = step[j] /\ verdict'[j] = verdict[j] /\ result'[j] = result[j]
          BY <1>t, <3>1
        <4>2. QED
          BY <4>1, <3>1, <2>s
      <3>4. QED
        BY <3>2, <3>3 DEF SuccessIsKnown
    <2>9. ASSUME NEW k \in Schemas, MigrateStep(k) \/ MigrateFault(k) PROVE SuccessIsKnown'
      <3>1. UNCHANGED <<step, snap, verdict>>
        BY <2>9 DEF MigrateStep, MigrateFault, syncVars
      <3>2. CASE MarkDone(k)
        <4>1. /\ pc[k] = "clean" /\ step[k] = "migrating" /\ to[k] = snap[k].want.version
              /\ snap[k] # NoObj /\ HasDriver(k) /\ Db(k) \in Databases
          BY <3>2 DEF MarkDone, CallAgrees, MigrateIInv, MigrateTypeOK, Connected, Locked,
             HasDriver, Db, Conn
        <4>2. CASE goal[k] = to[k]
          <5>1. table'[Db(k)] = [version |-> to[k], dirty |-> FALSE] /\ conn' = conn
            BY <1>t, <3>2, <4>1, <4>2 DEF MarkDone
          <5>2. AtWanted(k)'
            BY <3>1, <4>1, <5>1 DEF AtWanted, HasDriver, Db
          <5>3. witness'[k] /\ step'[k] = "migrating"
            BY <2>w, <3>1, <4>1, <5>2, WitnessStays
          <5>4. verdict'[k] # "Success"
            BY <3>1, <4>1 DEF SuccessIsKnown
          <5>5. ASSUME NEW j \in Schemas \ {k} PROVE Known(j)'
            BY <1>t, <3>1, <3>2, <2>s DEF MarkDone
          <5>6. QED
            BY <5>3, <5>4, <5>5 DEF SuccessIsKnown
        <4>3. CASE goal[k] # to[k]
          <5>1. UNCHANGED result
            BY <3>2, <4>3 DEF MarkDone
          <5>2. QED
            BY <3>1, <5>1, <2>s DEF SuccessIsKnown
        <4>4. QED
          BY <4>2, <4>3
      <3>3. CASE ~MarkDone(k)
        <4>1. \A j \in Schemas : result'[j] = "ok" => result[j] = "ok"
          BY <1>t, <2>9, <3>3 DEF MigrateStep, MigrateFault, Acquire, LockTimeout, Check, Mark,
             RunMigration, RunFails, SetVersionFails, Unlock, UnlockFails, SessionLost, Fail,
             Return
        <4>2. QED
          BY <3>1, <4>1, <2>s DEF SuccessIsKnown
      <3>4. QED
        BY <3>2, <3>3
    <2>10. ASSUME NEW k \in Schemas, Report(k) PROVE SuccessIsKnown'
      <3>1. /\ step' = [step EXCEPT ![k] = "idle"] /\ snap' = [snap EXCEPT ![k] = NoObj]
            /\ verdict' = [verdict EXCEPT ![k] = ""] /\ UNCHANGED result
        BY <2>10 DEF Report, migrateVars
      <3>2. Known(k)'
        BY <1>t, <3>1, <2>i
      <3>3. ASSUME NEW j \in Schemas \ {k} PROVE Known(j)'
        <4>1. step'[j] = step[j] /\ verdict'[j] = verdict[j] /\ snap'[j] = snap[j]
          BY <1>t, <3>1
        <4>2. QED
          BY <4>1, <3>1, <2>s
      <3>4. QED
        BY <3>2, <3>3 DEF SuccessIsKnown
    <2>11. CASE Crash
      <3>1. \A k \in Schemas : verdict'[k] # "Success" /\ step'[k] \notin {"nil", "migrating"}
        BY <2>11 DEF Crash
      <3>2. QED
        BY <3>1, <2>i DEF SuccessIsKnown
    <2>12. QED
      BY <1>w, <2>1, <2>2, <2>5, <2>6, <2>7, <2>8, <2>9, <2>10, <2>11
         DEF Next, StartSync, SyncStep
  <1>1. QED
    BY <1>0, <1>w
-----------------------------------------------------------------------------
\* None of the parts is inductive alone: the types of what is written need
\* CallAgrees, SpecIsTheUsers needs to know which copies are current, and what
\* a sync concludes needs the safety of golang-migrate.
SyncIInv ==
    /\ SyncTypeOK /\ MigrateIInv /\ CallAgrees /\ Copies /\ NilIsClean /\ SuccessIsKnown

LEMMA InitSync == Init => SyncIInv
  <1> SUFFICES ASSUME Init PROVE SyncIInv
    OBVIOUS
  <1>1. MigrateIInv
    BY InitIInv DEF Init
  <1>2. \A k \in Schemas : asked[k] # NoObj => [want |-> asked[k], state |-> ""] \in Objects
    BY DEF Init, Objects, States
  <1>3. SyncTypeOK
    <2>1. MigrateTypeOK
      BY <1>1 DEF MigrateIInv
    <2>2. obj \in [Schemas -> Value] /\ cache \in [Schemas -> Value]
      BY <1>2 DEF Init, Value
    <2>3. news \in [Schemas -> Seq(Value)]
      <3>1. <<>> \in Seq(Value)
        OBVIOUS
      <3>2. QED
        BY <3>1 DEF Init
    <2>4. events \in 0..MaxEvents
      <3>1. events = 0
        BY DEF Init
      <3>2. QED
        BY <3>1, SchemaSyncAssumption
    <2>5. asked \in [Schemas -> Wants \cup {NoObj}]
      BY DEF Init
    <2>6. /\ step \in [Schemas -> Steps] /\ verdict \in [Schemas -> States]
          /\ snap \in [Schemas -> Value] /\ pending \subseteq Schemas
      BY DEF Init, Value, Steps, States
    <2>7. /\ current \in [Schemas -> BOOLEAN] /\ witness \in [Schemas -> BOOLEAN]
          /\ inputs \in [Schemas -> BOOLEAN]
      BY DEF Init
    <2>8. QED
      BY <2>1, <2>2, <2>3, <2>4, <2>5, <2>6, <2>7 DEF SyncTypeOK, Value
  <1>4. Copies
    <2>1. \A k \in Schemas : (IF obj[k] = NoObj THEN NoObj ELSE obj[k].want) = asked[k]
      BY <1>2, NoObjAssumption DEF Init
    <2>2. QED
      BY <2>1 DEF Init, Copies, CacheFollows, CopyIsCurrent, SpecIsTheUsers
  <1>5. CallAgrees /\ NilIsClean /\ SuccessIsKnown
    BY DEF Init, MigrateInit, CallAgrees, NilIsClean, SuccessIsKnown
  <1>6. QED
    BY <1>1, <1>3, <1>4, <1>5 DEF SyncIInv

LEMMA SyncStepKeeps == SyncIInv /\ [Next]_vars => SyncIInv'
  <1> SUFFICES ASSUME SyncIInv, [Next]_vars PROVE SyncIInv'
    OBVIOUS
  <1> USE DEF SyncIInv
  <1>1. [MigrateNext]_migrateVars
    BY RefinesMigrate
  <1>2. MigrateIInv'
    BY <1>1, IInvStep
  <1>3. SyncTypeOK'
    BY SyncTypeStep DEF MigrateIInv
  <1>4. CallAgrees'
    BY CallAgreesStep
  <1>5. Copies'
    BY CopiesStep
  <1>6. NilIsClean'
    BY <1>1, NilStep
  <1>7. SuccessIsKnown'
    BY KnownStep
  <1>8. QED
    BY <1>2, <1>3, <1>4, <1>5, <1>6, <1>7

\* The invariant of the schema reconciler and the databases it migrates.
THEOREM SyncInvariant == Spec => []SyncIInv
  <1>1. QED
    BY InitSync, SyncStepKeeps, PTL DEF Spec

\* Every variable of the reconciler has its type.
THEOREM SyncTypeCorrect == Spec => []SyncTypeOK
  <1>1. SyncIInv => SyncTypeOK
    BY DEF SyncIInv
  <1>2. QED
    BY <1>1, SyncInvariant, PTL

\* syncSchema uses golang-migrate within its rules: from calls of one object
\* that follow each other to versions that users may ask for.
THEOREM SchemaSyncIsMigrate == Spec => ImplementsMigrate
  <1>1. Init => MigrateInit
    BY DEF Init
  <1>2. SyncIInv /\ [Next]_vars => [MigrateNext]_migrateVars
    BY RefinesMigrate DEF SyncIInv
  <1>3. QED
    BY <1>1, <1>2, SyncInvariant, PTL DEF Spec, ImplementsMigrate, MigrateSpec

\* With users, faults, crashes and other objects at work, one migration at a
\* time changes a database, and its clean row tells the truth.
THEOREM ControllerMigratesSafely == Spec => [](OneMigrationPerDatabase /\ CleanMeansApplied)
  <1>1. QED
    BY SchemaSyncIsMigrate, MigrationsExclude, CleanRowsAreTrue, PTL DEF ImplementsMigrate

\* The databases of the controller go through one migration after the other,
\* each once and on its own base, whatever users ask for and whatever fails.
THEOREM ControllerMigratesInOrder == Spec => ImplementsVersioned
  <1>1. QED
    BY SchemaSyncIsMigrate, MigrateIsVersioned, PTL DEF ImplementsMigrate

\* A sync that has the lock is on its way to the end of its call, whatever the
\* syncs of other objects do.
THEOREM ControllerCallsGetOn == Spec => CallsGetOn /\ []NeverRunsOut
  <1>1. QED
    BY SchemaSyncIsMigrate, LockedCallsGetOn, ReadNeverRunsOut, PTL DEF ImplementsMigrate

\* Status writes from old copies never change what users ask for.
THEOREM SpecStaysTheUsers == Spec => []SpecIsTheUsers
  <1>1. SyncIInv => SpecIsTheUsers
    BY DEF SyncIInv, Copies
  <1>2. QED
    BY <1>1, SyncInvariant, PTL

\* Success was true at a moment of the sync that reports it.
THEOREM SuccessWasTrue == Spec => []SuccessIsWitnessed
  <1>1. SyncIInv => SuccessIsWitnessed
    BY DEF SyncIInv, SuccessIsKnown, SuccessIsWitnessed
  <1>2. QED
    BY <1>1, SyncInvariant, PTL
-----------------------------------------------------------------------------
\* The promise to users.  What a sync has seen belongs to its copy, which it
\* keeps to its end.
WitnessIsBusy == \A k \in Schemas : witness[k] => step[k] # "idle"

LEMMA WitnessIsBusyStep == WitnessIsBusy /\ [Next]_vars => WitnessIsBusy'
  <1>1. Witness => WitnessIsBusy'
    BY DEF Witness, WitnessIsBusy
  <1>2. WitnessIsBusy /\ UNCHANGED vars => WitnessIsBusy'
    BY DEF WitnessIsBusy, vars, syncVars
  <1>3. QED
    BY <1>1, <1>2 DEF Next

LEMMA SnapStays ==
    ASSUME SyncTypeOK, Next, NEW k \in Schemas, step[k] # "idle", step'[k] # "idle"
    PROVE  snap'[k] = snap[k]
  <1>t. step \in [Schemas -> Steps] /\ snap \in [Schemas -> Value]
    BY DEF SyncTypeOK, Value
  <1>1. ASSUME NEW j \in Schemas, StartGone(j) \/ Start(j) \/ StartInVain(j) \/ OpenFails(j)
        PROVE  snap'[k] = snap[k]
    BY <1>t, <1>1 DEF StartGone, Start, StartInVain, OpenFails, Take
  <1>2. ASSUME NEW j \in Schemas, Report(j) PROVE snap'[k] = snap[k]
    BY <1>t, <1>2 DEF Report
  <1>3. ASSUME NEW j \in Schemas,
               \/ Edit(j) \/ Deliver(j) \/ Resync(j) \/ InputsArrive(j)
               \/ ReadVersion(j) \/ VersionFails(j) \/ VersionUnread(j) \/ ReportNil(j)
               \/ MigrateReturns(j) \/ MigrateStep(j) \/ MigrateFault(j)
        PROVE  snap'[k] = snap[k]
    BY <1>3 DEF Edit, Deliver, Resync, InputsArrive, ReadVersion, VersionFails, VersionUnread,
                ReportNil, MigrateReturns, MigrateStep, MigrateFault, Conclude, GoTo, syncVars
  <1>4. CASE Crash
    BY <1>4 DEF Crash
  <1>5. QED
    BY <1>1, <1>2, <1>3, <1>4 DEF Next, StartSync, SyncStep

LEMMA SyncLooks ==
    ASSUME SyncTypeOK, MigrateIInv', WitnessIsBusy, Next
    PROVE  P!Look
  <1> SUFFICES ASSUME NEW k \in Schemas, NEW v \in SeenBySync'[k] \ SeenBySync[k]
               PROVE  P!At(v)'
    BY DEF P!Look
  <1>1. witness'[k] /\ v = snap'[k].want.version
    BY DEF SeenBySync
  <1>2. Witness
    BY DEF Next
  <1>3. step'[k] # "idle" /\ (witness[k] \/ AtWanted(k)')
    BY <1>1, <1>2, WitnessStays
  <1>4. ~witness[k]
    <2>1. CASE witness[k]
      <3>1. snap'[k] = snap[k]
        BY <1>3, <2>1, SnapStays DEF WitnessIsBusy
      <3>2. v \in SeenBySync[k]
        BY <1>1, <2>1, <3>1 DEF SeenBySync
      <3>3. QED
        BY <3>2
    <2>2. QED
      BY <2>1
  <1>5. AtWanted(k)'
    BY <1>3, <1>4
  <1>6. Db(k)' \in Databases
    BY <1>5 DEF AtWanted, MigrateIInv, MigrateTypeOK, Connected, HasDriver, Db, Conn
  <1>7. QED
    BY <1>1, <1>5, <1>6 DEF AtWanted, P!At, P!Nil, Nil

\* An edit is what users may do to an object.
LEMMA EditIsAsked ==
    ASSUME SyncTypeOK, NEW k \in Schemas, Edit(k)
    PROVE  (\E w \in Wants : P!Ask(k, w)) \/ P!Delete(k)
  <1>1. ASSUME NEW w \in Wants, obj[k] # NoObj, Store(k, [obj[k] EXCEPT !.want = w]),
               asked' = [asked EXCEPT ![k] = w]
        PROVE  P!Ask(k, w)
    BY <1>1 DEF P!Ask, Store
  <1>2. ASSUME NEW w \in Wants, obj[k] = NoObj, Store(k, [want |-> w, state |-> ""]),
               asked' = [asked EXCEPT ![k] = w]
        PROVE  P!Ask(k, w)
    BY <1>2 DEF P!Ask, Store
  <1>3. ASSUME Store(k, NoObj), asked' = [asked EXCEPT ![k] = NoObj] PROVE P!Delete(k)
    BY <1>3 DEF P!Delete, Store
  <1>4. QED
    BY <1>1, <1>2, <1>3 DEF Edit

\* A status write is a report of what was seen, or nothing that users can see.
LEMMA WriteIsReport ==
    ASSUME SyncTypeOK, Copies, NEW k \in Schemas, snap[k] # NoObj,
           NEW st \in States, WriteStatus(k, st), UNCHANGED asked,
           st = "Success" => witness[k] /\ ~witness'[k]
    PROVE  UNCHANGED <<obj, asked>> \/ P!Report(k, st)
  <1>1. CASE current[k] /\ Store(k, [snap[k] EXCEPT !.state = st])
    <2>1. snap[k] = obj[k]
      BY <1>1 DEF Copies, CopyIsCurrent
    <2>2. obj' = [obj EXCEPT ![k].state = st]
      BY <1>1, <2>1 DEF Store
    <2>3. st = "Success" => obj[k].want.version \in SeenBySync[k] /\ SeenBySync'[k] = {}
      BY <2>1 DEF SeenBySync
    <2>4. QED
      BY <2>1, <2>2, <2>3 DEF P!Report
  <1>2. QED
    BY <1>1 DEF WriteStatus

LEMMA PromiseStep ==
    ASSUME SyncIInv, SyncIInv', WitnessIsBusy, [Next]_vars
    PROVE  [P!Next]_<<obj, asked, SeenBySync>>
  <1> USE DEF SyncIInv
  <1>0. CASE UNCHANGED vars
    BY <1>0 DEF vars, apiVars, syncVars, SeenBySync
  <1>n. CASE Next
    <2>l. P!Look
      BY <1>n, SyncLooks
    <2>w. Witness
      BY <1>n DEF Next
    <2> SUFFICES \/ UNCHANGED <<obj, asked>>
                 \/ \E k \in Schemas : \/ \E w \in Wants : P!Ask(k, w)
                                       \/ P!Delete(k)
                                       \/ \E st \in States : P!Report(k, st)
      BY <2>l DEF P!Next
    <2>1. ASSUME NEW k \in Schemas, Edit(k)
          PROVE  (\E w \in Wants : P!Ask(k, w)) \/ P!Delete(k)
      BY <2>1, EditIsAsked
    <2>2. ASSUME NEW k \in Schemas, ReportNil(k)
          PROVE  UNCHANGED <<obj, asked>> \/ \E st \in States : P!Report(k, st)
      <3>1. snap[k] # NoObj /\ WriteStatus(k, "Pending") /\ UNCHANGED asked
        BY <2>2 DEF ReportNil, CallAgrees
      <3>2. "Pending" \in States
        BY DEF States
      <3>3. QED
        BY <3>1, <3>2, WriteIsReport
    <2>3. ASSUME NEW k \in Schemas, Report(k)
          PROVE  UNCHANGED <<obj, asked>> \/ \E st \in States : P!Report(k, st)
      <3>1. snap[k] # NoObj /\ WriteStatus(k, verdict[k]) /\ UNCHANGED asked
        BY <2>3 DEF Report, CallAgrees
      <3>2. verdict[k] \in States /\ step'[k] = "idle"
        BY <2>3 DEF Report, SyncTypeOK
      <3>3. verdict[k] = "Success" => witness[k] /\ ~witness'[k]
        BY <2>w, <3>2, WitnessStays DEF SuccessIsKnown
      <3>4. QED
        BY <3>1, <3>2, <3>3, WriteIsReport
    <2>4. ASSUME NEW k \in Schemas,
                 \/ Deliver(k) \/ Resync(k) \/ InputsArrive(k) \/ StartSync(k)
                 \/ OpenFails(k) \/ ReadVersion(k) \/ VersionFails(k) \/ VersionUnread(k)
                 \/ MigrateReturns(k) \/ MigrateStep(k) \/ MigrateFault(k)
          PROVE  UNCHANGED <<obj, asked>>
      BY <2>4 DEF Deliver, Resync, InputsArrive, StartSync, Start, StartInVain, StartGone,
                  OpenFails, ReadVersion, VersionFails, VersionUnread, MigrateReturns,
                  MigrateStep, MigrateFault, apiVars
    <2>5. CASE Crash
      BY <2>5 DEF Crash
    <2>6. QED
      BY <1>n, <2>1, <2>2, <2>3, <2>4, <2>5 DEF Next, SyncStep
  <1>1. QED
    BY <1>0, <1>n

\* What users rely on: only they change what an object asks for, and when the
\* controller writes Success, a database was seen at the version that the
\* object asks for at that moment, in the sync that writes it.
THEOREM SchemaPromiseIsKept == Spec => ImplementsSchemaPromise
  <1>1. Init => P!Init
    <2>1. Init => SeenBySync = [k \in Schemas |-> {}]
      BY DEF Init, SeenBySync
    <2>2. QED
      BY <2>1 DEF Init, P!Init
  <1>2. Init => WitnessIsBusy
    BY DEF Init, WitnessIsBusy
  <1>3. Spec => []WitnessIsBusy
    BY <1>2, WitnessIsBusyStep, PTL DEF Spec
  <1>4. SyncIInv /\ SyncIInv' /\ WitnessIsBusy /\ [Next]_vars
            => [P!Next]_<<obj, asked, SeenBySync>>
    BY PromiseStep
  <1>5. QED
    BY <1>1, <1>3, <1>4, SyncInvariant, PTL DEF Spec, ImplementsSchemaPromise, P!Spec
=============================================================================
