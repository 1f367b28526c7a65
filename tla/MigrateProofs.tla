---------------------------- MODULE MigrateProofs ----------------------------
(***************************************************************************)
(* The safety of Migrate for every number of schema objects and databases  *)
(* and every set of versions: calls on one database exclude each other, a  *)
(* clean row tells the truth, a database changes only under a dirty row,   *)
(* and nobody but the call that marked it changes a dirty row.             *)
(***************************************************************************)
EXTENDS Migrate, FiniteSetTheorems, WellFoundedInduction, TLAPS

\* A call that needs the connection has it, and has or awaits the lock.
Connected ==
    \A s \in Schemas :
        /\ conn[s].up => HasDriver(s)
        /\ conn[s].waiting => conn[s].up /\ ~conn[s].locked
        /\ pc[s] = "lock" => conn[s].waiting
        /\ pc[s] \in Locked => conn[s].up /\ conn[s].locked

\* What a call in progress knows of its database.
CallInv ==
    \A s \in Schemas :
        /\ pc[s] = "mark" => table[Db(s)] = [version |-> at[s], dirty |-> FALSE]
        /\ pc[s] = "run" => /\ table[Db(s)] = [version |-> goal[s], dirty |-> TRUE]
                            /\ content[Db(s)] = at[s]
        /\ pc[s] = "clean" => /\ table[Db(s)] = [version |-> goal[s], dirty |-> TRUE]
                              /\ content[Db(s)] = goal[s]

\* CleanMeansApplied is not inductive: that a call finds the database as it
\* left it needs the exclusion, and the exclusion needs the agreement of the
\* drivers with the server about the lock.
MigrateIInv ==
    /\ MigrateTypeOK /\ BeliefsAgree /\ Connected
    /\ CleanMeansApplied /\ CallInv /\ OkMeansThere

LEMMA InitIInv == MigrateInit => MigrateIInv
  BY MigrateAssumption
     DEF MigrateInit, MigrateIInv, MigrateTypeOK, BeliefsAgree, Connected,
         CleanMeansApplied, CallInv, OkMeansThere, Rows, Conn, NoConn, Locked, HasDriver, Db,
         Nil, Torn

\* The lock excludes: two calls that hold it are on different databases.
LEMMA LockExcludes ==
    ASSUME MigrateTypeOK, BeliefsAgree, Connected,
           NEW s \in Schemas, NEW t \in Schemas, s # t,
           pc[s] \in Locked, pc[t] \in Locked
    PROVE  Db(s) # Db(t)
  <1>1. Db(s) \in Databases /\ Db(t) \in Databases
    BY DEF MigrateTypeOK, Conn, Connected, HasDriver, Db
  <1>2. holder[Db(s)] = s /\ holder[Db(t)] = t
    BY <1>1 DEF BeliefsAgree, Connected
  <1>3. QED
    BY <1>2
-----------------------------------------------------------------------------
\* Every variable keeps its type.
LEMMA TypeStep ==
    ASSUME MigrateTypeOK, Connected, [MigrateNext]_migrateVars
    PROVE  MigrateTypeOK'
  <1> USE MigrateAssumption DEF MigrateTypeOK, Db, HasDriver
  <1>1. ASSUME NEW s \in Schemas, NEW d \in Databases, Open(s, d) PROVE MigrateTypeOK'
    BY <1>1 DEF Open, Conn, NoConn, dbVars, callVars
  <1>2. ASSUME NEW s \in Schemas, SessionLost(s) PROVE MigrateTypeOK'
    <2>1. conn[s] \in Conn
      OBVIOUS
    <2>2. conn' \in [Schemas -> Conn]
      BY <1>2, <2>1 DEF SessionLost, Conn
    <2>3. QED
      BY <1>2, <2>1, <2>2 DEF SessionLost, Return
  <1>3. ASSUME NEW s \in Schemas, Discard(s) PROVE MigrateTypeOK'
    BY <1>3 DEF Discard, Conn, NoConn, dbVars, callVars
  <1>4. ASSUME NEW s \in Schemas, NEW v \in Targets, Migrate(s, v) PROVE MigrateTypeOK'
    <2>1. conn[s] \in Conn
      OBVIOUS
    <2>2. conn' \in [Schemas -> Conn]
      <3>1. CASE conn[s].locked
        BY <1>4, <3>1 DEF Migrate
      <3>2. CASE ~conn[s].locked
        <4>1. conn' = [conn EXCEPT ![s].waiting = TRUE]
          BY <1>4, <3>2 DEF Migrate
        <4>2. QED
          BY <2>1, <4>1 DEF Conn
      <3>3. QED
        BY <3>1, <3>2
    <2>3. QED
      BY <1>4, <2>1, <2>2 DEF Migrate, dbVars
  <1>5. ASSUME NEW s \in Schemas, Acquire(s) PROVE MigrateTypeOK'
    <2>1. conn[s] \in Conn
      OBVIOUS
    <2>2. conn' \in [Schemas -> Conn]
      BY <1>5, <2>1 DEF Acquire, Conn
    <2>3. QED
      BY <1>5, <2>1, <2>2 DEF Acquire, Locked, callVars
  <1>6. ASSUME NEW s \in Schemas, LockTimeout(s) PROVE MigrateTypeOK'
    BY <1>6 DEF LockTimeout, Return, dbVars
  <1>7. ASSUME NEW s \in Schemas, pc[s] \in Locked PROVE Db(s) \in Databases
    BY <1>7 DEF Connected, Conn
  <1>8. ASSUME NEW s \in Schemas, Check(s) PROVE MigrateTypeOK'
    <2>1. table[Db(s)].version \in Source \cup {Nil}
      BY <1>7, <1>8 DEF Check, Locked, Rows
    <2>2. QED
      BY <1>8, <2>1 DEF Check, Fail, Locked, dbVars
  <1>9. ASSUME NEW s \in Schemas, Mark(s) PROVE MigrateTypeOK'
    BY <1>7, <1>9 DEF Mark, Neighbours, Locked, Rows
  <1>10. ASSUME NEW s \in Schemas, RunMigration(s) PROVE MigrateTypeOK'
    BY <1>7, <1>10 DEF RunMigration, Locked, callVars
  <1>11. ASSUME NEW s \in Schemas, RunFails(s) PROVE MigrateTypeOK'
    BY <1>7, <1>11 DEF RunFails, Fail, Locked, callVars
  <1>12. ASSUME NEW s \in Schemas, MarkDone(s) PROVE MigrateTypeOK'
    BY <1>7, <1>12 DEF MarkDone, Locked, Rows
  <1>13. ASSUME NEW s \in Schemas, SetVersionFails(s) PROVE MigrateTypeOK'
    BY <1>13 DEF SetVersionFails, Fail, Locked, dbVars, callVars
  <1>14. ASSUME NEW s \in Schemas, Unlock(s) PROVE MigrateTypeOK'
    BY <1>14 DEF Unlock, Return, Conn
  <1>15. CASE MigrateCrash
    BY <1>15 DEF MigrateCrash, Conn, NoConn
  <1>16. CASE UNCHANGED migrateVars
    BY <1>16 DEF migrateVars, dbVars, callVars
  <1>17. ASSUME NEW s \in Schemas, TakeResult(s) PROVE MigrateTypeOK'
    BY <1>17 DEF TakeResult, dbVars, callVars
  <1>18. ASSUME NEW s \in Schemas, UnlockFails(s) PROVE MigrateTypeOK'
    BY <1>18 DEF UnlockFails, Return, dbVars
  <1>19. QED
    BY <1>1, <1>2, <1>3, <1>4, <1>5, <1>6, <1>8, <1>9, <1>10, <1>11, <1>12, <1>13,
       <1>14, <1>15, <1>16, <1>17, <1>18 DEF MigrateNext, CallStep
-----------------------------------------------------------------------------
\* What a step does to the drivers and the lock.
LEMMA LockStep ==
    ASSUME MigrateTypeOK, BeliefsAgree, Connected, [MigrateNext]_migrateVars
    PROVE  BeliefsAgree' /\ Connected'
  <1> USE MigrateAssumption DEF MigrateTypeOK, HasDriver, Db
  <1> DEFINE Others(s) == \A t \in Schemas : t # s => conn'[t] = conn[t] /\ pc'[t] = pc[t]
  <1>1. ASSUME NEW s \in Schemas, NEW d \in Databases, Open(s, d)
        PROVE  BeliefsAgree' /\ Connected'
    <2>1. /\ conn'[s] = [db |-> d, up |-> TRUE, locked |-> FALSE, waiting |-> FALSE]
          /\ Others(s) /\ pc'[s] = "idle" /\ holder' = holder
          /\ conn[s].db = None
      BY <1>1 DEF Open, NoConn, dbVars
    <2>2. BeliefsAgree'
      BY <2>1 DEF BeliefsAgree
    <2>3. Connected'
      BY <2>1 DEF Connected, Locked
    <2>4. QED
      BY <2>2, <2>3
  <1>2. ASSUME NEW s \in Schemas, SessionLost(s) PROVE BeliefsAgree' /\ Connected'
    <2>1. /\ ~conn'[s].up /\ ~conn'[s].waiting
          /\ Others(s) /\ pc'[s] = "idle"
          /\ holder' = [d \in Databases |-> IF holder[d] = s THEN None ELSE holder[d]]
      BY <1>2 DEF SessionLost, Return, Conn
    <2>2. BeliefsAgree'
      BY <2>1 DEF BeliefsAgree
    <2>3. Connected'
      BY <2>1 DEF Connected, Locked
    <2>4. QED
      BY <2>2, <2>3
  <1>3. ASSUME NEW s \in Schemas, Discard(s) PROVE BeliefsAgree' /\ Connected'
    <2>1. /\ conn'[s] = NoConn /\ ~conn[s].up
          /\ Others(s) /\ pc'[s] = "idle" /\ holder' = holder
      BY <1>3 DEF Discard, dbVars
    <2>2. BeliefsAgree'
      BY <2>1 DEF BeliefsAgree, NoConn
    <2>3. Connected'
      BY <2>1 DEF Connected, Locked, NoConn
    <2>4. QED
      BY <2>2, <2>3
  <1>4. ASSUME NEW s \in Schemas, NEW v \in Targets, Migrate(s, v)
        PROVE  BeliefsAgree' /\ Connected'
    <2>1. CASE conn[s].locked
      BY <1>4, <2>1 DEF Migrate, BeliefsAgree, Connected, dbVars
    <2>2. CASE ~conn[s].locked
      <3>1. /\ conn' = [conn EXCEPT ![s].waiting = TRUE]
            /\ pc' = [pc EXCEPT ![s] = "lock"]
            /\ conn[s].up /\ holder' = holder
        BY <1>4, <2>2 DEF Migrate, dbVars
      <3>2. /\ conn'[s].waiting /\ conn'[s].up /\ ~conn'[s].locked
            /\ conn'[s].db = conn[s].db /\ Others(s) /\ pc'[s] = "lock"
        BY <2>2, <3>1 DEF Conn
      <3>3. BeliefsAgree'
        BY <2>2, <3>1, <3>2 DEF BeliefsAgree
      <3>4. Connected'
        BY <3>1, <3>2 DEF Connected, Locked
      <3>5. QED
        BY <3>3, <3>4
    <2>3. QED
      BY <2>1, <2>2
  <1>5. ASSUME NEW s \in Schemas, Acquire(s) PROVE BeliefsAgree' /\ Connected'
    <2>1. conn[s] \in Conn /\ conn[s].up /\ conn[s].db \in Databases /\ ~conn[s].locked
      BY <1>5 DEF Acquire, Connected, Conn
    <2>2. /\ ~conn'[s].waiting /\ conn'[s].up /\ conn'[s].locked
          /\ conn'[s].db = conn[s].db
          /\ Others(s) /\ pc'[s] # "lock"
          /\ holder[conn[s].db] = None
          /\ holder'[conn[s].db] = s
          /\ \A d \in Databases : d # conn[s].db => holder'[d] = holder[d]
      BY <1>5, <2>1 DEF Acquire, Conn
    <2>3. BeliefsAgree'
      BY <2>1, <2>2 DEF BeliefsAgree
    <2>4. Connected'
      BY <2>1, <2>2 DEF Connected
    <2>5. QED
      BY <2>3, <2>4
  <1>6. ASSUME NEW s \in Schemas, LockTimeout(s) PROVE BeliefsAgree' /\ Connected'
    BY <1>6 DEF LockTimeout, Return, BeliefsAgree, Connected, Locked, dbVars
  <1>7. ASSUME NEW s \in Schemas, pc[s] \in Locked, pc'[s] \in Locked, Others(s),
               UNCHANGED <<conn, holder>>
        PROVE  BeliefsAgree' /\ Connected'
    BY <1>7 DEF BeliefsAgree, Connected, Locked
  <1>8. ASSUME NEW s \in Schemas, Check(s) \/ Mark(s) \/ RunMigration(s) \/ RunFails(s)
                                  \/ MarkDone(s) \/ SetVersionFails(s)
        PROVE  BeliefsAgree' /\ Connected'
    <2>1. pc[s] \in Locked /\ pc'[s] \in Locked /\ Others(s) /\ UNCHANGED <<conn, holder>>
      BY <1>8 DEF Check, Mark, RunMigration, RunFails, MarkDone, SetVersionFails, Fail,
                  Locked, dbVars
    <2>2. QED
      BY <1>7, <2>1
  <1>9. ASSUME NEW s \in Schemas, Unlock(s) PROVE BeliefsAgree' /\ Connected'
    <2>1. conn[s] \in Conn /\ conn[s].up /\ conn[s].locked /\ conn[s].db \in Databases
      BY <1>9 DEF Unlock, Connected, Locked, Conn
    <2>2. /\ ~conn'[s].locked /\ conn'[s].db = conn[s].db /\ conn'[s].up
          /\ conn'[s].waiting = conn[s].waiting
          /\ Others(s) /\ pc'[s] = "idle"
          /\ holder'[conn[s].db] = None
          /\ \A d \in Databases : d # conn[s].db => holder'[d] = holder[d]
      BY <1>9, <2>1 DEF Unlock, Return, Conn
    <2>3. holder[conn[s].db] = s
      BY <2>1 DEF BeliefsAgree
    <2>4. BeliefsAgree'
      BY <2>1, <2>2, <2>3 DEF BeliefsAgree
    <2>5. Connected'
      BY <2>1, <2>2 DEF Connected, Locked
    <2>6. QED
      BY <2>4, <2>5
  <1>10. CASE MigrateCrash
    BY <1>10 DEF MigrateCrash, BeliefsAgree, Connected, NoConn, Locked
  <1>11. CASE UNCHANGED migrateVars
    BY <1>11 DEF migrateVars, dbVars, BeliefsAgree, Connected
  <1>12. ASSUME NEW s \in Schemas, TakeResult(s) PROVE BeliefsAgree' /\ Connected'
    BY <1>12 DEF TakeResult, dbVars, BeliefsAgree, Connected
  <1>13. ASSUME NEW s \in Schemas, UnlockFails(s) PROVE BeliefsAgree' /\ Connected'
    BY <1>13 DEF UnlockFails, Return, BeliefsAgree, Connected, Locked, dbVars
  <1>14. QED
    BY <1>1, <1>2, <1>3, <1>4, <1>5, <1>6, <1>8, <1>9, <1>10, <1>11, <1>12, <1>13
       DEF MigrateNext, CallStep
-----------------------------------------------------------------------------
\* The data part of the invariant.
DataInv == CleanMeansApplied /\ CallInv /\ OkMeansThere

\* A step that leaves the databases alone, and every call where it was or
\* brings it back to idle or to a failed unlock.
Quiet(t) ==
    \/ UNCHANGED <<pc[t], Db(t), to[t], at[t], goal[t], result[t]>>
    \/ pc'[t] \in {"idle", "lock", "check"}
    \/ pc'[t] = "unlock" /\ result'[t] = "error"

LEMMA QuietKeepsData ==
    ASSUME DataInv, UNCHANGED <<table, content>>, \A t \in Schemas : Quiet(t)
    PROVE  DataInv'
  <1>1. CleanMeansApplied'
    BY DEF DataInv, CleanMeansApplied
  <1>2. CallInv'
    BY DEF DataInv, CallInv, Quiet, Db
  <1>3. OkMeansThere'
    BY DEF DataInv, OkMeansThere, Quiet, Db
  <1>4. QED
    BY <1>1, <1>2, <1>3 DEF DataInv

\* A step of call s that writes only its own database leaves the others'
\* knowledge alone, because they are elsewhere.
LEMMA OthersKeepData ==
    ASSUME MigrateTypeOK, BeliefsAgree, Connected, CallInv, OkMeansThere,
           NEW s \in Schemas, pc[s] \in Locked, UNCHANGED conn,
           \A d \in Databases : d # Db(s) => UNCHANGED <<table[d], content[d]>>,
           NEW t \in Schemas, t # s,
           UNCHANGED <<pc[t], to[t], at[t], goal[t], result[t]>>
    PROVE  /\ pc'[t] = "mark" => table'[Db(t)'] = [version |-> at'[t], dirty |-> FALSE]
           /\ pc'[t] = "run" => /\ table'[Db(t)'] = [version |-> goal'[t], dirty |-> TRUE]
                                /\ content'[Db(t)'] = at'[t]
           /\ pc'[t] = "clean" => /\ table'[Db(t)'] = [version |-> goal'[t], dirty |-> TRUE]
                                  /\ content'[Db(t)'] = goal'[t]
           /\ pc'[t] = "unlock" /\ result'[t] = "ok" =>
                 /\ table'[Db(t)'] = [version |-> to'[t], dirty |-> FALSE]
                 /\ content'[Db(t)'] = to'[t]
  <1>1. CASE pc[t] \in Locked
    <2>1. Db(t) # Db(s) /\ Db(t)' = Db(t)
      BY <1>1, LockExcludes DEF Db
    <2>2. Db(t) \in Databases
      BY <1>1 DEF MigrateTypeOK, Connected, HasDriver, Conn, Db
    <2>3. UNCHANGED <<table[Db(t)], content[Db(t)]>>
      BY <2>1, <2>2
    <2>4. table'[Db(t)'] = table[Db(t)] /\ content'[Db(t)'] = content[Db(t)]
      BY <2>1, <2>3
    <2>5. QED
      BY <2>4 DEF CallInv, OkMeansThere
  <1>2. CASE pc[t] \notin Locked
    BY <1>2 DEF Locked
  <1>3. QED
    BY <1>1, <1>2

\* A step of the call of s that touches no other call and no other database,
\* and after which s is right about its own.
OwnStep(s) ==
    /\ pc[s] \in Locked
    /\ UNCHANGED conn
    /\ \A d \in Databases : d # Db(s) => UNCHANGED <<table[d], content[d]>>
    /\ \A t \in Schemas : t # s => UNCHANGED <<pc[t], to[t], at[t], goal[t], result[t]>>
    /\ ~table'[Db(s)].dirty => content'[Db(s)] = table'[Db(s)].version
    /\ \/ pc'[s] = "mark" /\ table'[Db(s)] = [version |-> at'[s], dirty |-> FALSE]
       \/ /\ pc'[s] = "run"
          /\ table'[Db(s)] = [version |-> goal'[s], dirty |-> TRUE]
          /\ content'[Db(s)] = at'[s]
       \/ /\ pc'[s] = "clean"
          /\ table'[Db(s)] = [version |-> goal'[s], dirty |-> TRUE]
          /\ content'[Db(s)] = goal'[s]
       \/ /\ pc'[s] = "unlock"
          /\ \/ result'[s] = "error"
             \/ /\ table'[Db(s)] = [version |-> to'[s], dirty |-> FALSE]
                /\ content'[Db(s)] = to'[s]

LEMMA OwnStepKeepsData ==
    ASSUME MigrateIInv, NEW s \in Schemas, OwnStep(s)
    PROVE  DataInv'
  <1> USE DEF OwnStep
  <1>1. Db(s)' = Db(s)
    BY DEF Db
  <1>2. CleanMeansApplied'
    <2>1. ASSUME NEW d \in Databases PROVE ~table'[d].dirty => content'[d] = table'[d].version
      <3>1. CASE d = Db(s)
        BY <3>1
      <3>2. CASE d # Db(s)
        <4>1. table'[d] = table[d] /\ content'[d] = content[d]
          BY <3>2
        <4>2. QED
          BY <4>1 DEF MigrateIInv, CleanMeansApplied
      <3>3. QED
        BY <3>1, <3>2
    <2>2. QED
      BY <2>1 DEF CleanMeansApplied
  <1>3. CallInv'
    <2>1. ASSUME NEW t \in Schemas
          PROVE  /\ pc'[t] = "mark" => table'[Db(t)'] = [version |-> at'[t], dirty |-> FALSE]
                 /\ pc'[t] = "run" => /\ table'[Db(t)'] = [version |-> goal'[t], dirty |-> TRUE]
                                      /\ content'[Db(t)'] = at'[t]
                 /\ pc'[t] = "clean" => /\ table'[Db(t)'] = [version |-> goal'[t], dirty |-> TRUE]
                                        /\ content'[Db(t)'] = goal'[t]
      <3>1. CASE t = s
        BY <1>1, <3>1
      <3>2. CASE t # s
        BY <3>2, OthersKeepData DEF MigrateIInv
      <3>3. QED
        BY <3>1, <3>2
    <2>2. QED
      BY <2>1 DEF CallInv, Db
  <1>4. OkMeansThere'
    <2>1. ASSUME NEW t \in Schemas, pc'[t] = "unlock", result'[t] = "ok"
          PROVE  /\ table'[Db(t)'] = [version |-> to'[t], dirty |-> FALSE]
                 /\ content'[Db(t)'] = to'[t]
      <3>1. CASE t = s
        BY <1>1, <2>1, <3>1
      <3>2. CASE t # s
        BY <2>1, <3>2, OthersKeepData DEF MigrateIInv
      <3>3. QED
        BY <3>1, <3>2
    <2>2. QED
      BY <2>1 DEF OkMeansThere, Db
  <1>5. QED
    BY <1>2, <1>3, <1>4 DEF DataInv
-----------------------------------------------------------------------------
LEMMA DataStep ==
    ASSUME MigrateIInv, [MigrateNext]_migrateVars
    PROVE  DataInv'
  <1>1. DataInv
    BY DEF MigrateIInv, DataInv
  <1> DEFINE Alone == UNCHANGED <<table, content>> /\ \A t \in Schemas : Quiet(t)
             OthersStay(s) == \A t \in Schemas : t # s =>
                                 UNCHANGED <<pc[t], to[t], at[t], goal[t], result[t]>>
  <1>2. Alone => DataInv'
    BY <1>1, QuietKeepsData
  <1> USE DEF Db
  <1>3. ASSUME NEW s \in Schemas, NEW d \in Databases, Open(s, d) PROVE DataInv'
    <2>1. Alone
      BY <1>3 DEF Open, Quiet, MigrateIInv, MigrateTypeOK, dbVars, callVars
    <2>2. QED
      BY <1>2, <2>1
  <1>4. ASSUME NEW s \in Schemas, SessionLost(s) PROVE DataInv'
    <2>1. Alone
      BY <1>4 DEF SessionLost, Return, Quiet, MigrateIInv, MigrateTypeOK
    <2>2. QED
      BY <1>2, <2>1
  <1>5. ASSUME NEW s \in Schemas, Discard(s) PROVE DataInv'
    <2>1. Alone
      BY <1>5 DEF Discard, Quiet, MigrateIInv, MigrateTypeOK, dbVars, callVars
    <2>2. QED
      BY <1>2, <2>1
  <1>6. ASSUME NEW s \in Schemas, NEW v \in Targets, Migrate(s, v) PROVE DataInv'
    <2>1. Alone
      BY <1>6 DEF Migrate, Quiet, MigrateIInv, MigrateTypeOK, dbVars
    <2>2. QED
      BY <1>2, <2>1
  <1>7. ASSUME NEW s \in Schemas, Acquire(s) PROVE DataInv'
    <2>1. /\ UNCHANGED <<table, content, to, at, goal, result>>
          /\ conn'[s].db = conn[s].db
          /\ pc'[s] = pc[s] \/ pc'[s] = "check"
          /\ \A t \in Schemas : t # s => UNCHANGED <<pc[t], conn[t]>>
      BY <1>7 DEF Acquire, MigrateIInv, MigrateTypeOK, Conn, callVars
    <2>2. Alone
      BY <2>1 DEF Quiet
    <2>3. QED
      BY <1>2, <2>2
  <1>8. ASSUME NEW s \in Schemas, LockTimeout(s) PROVE DataInv'
    <2>1. Alone
      BY <1>8 DEF LockTimeout, Return, Quiet, MigrateIInv, MigrateTypeOK, dbVars
    <2>2. QED
      BY <1>2, <2>1
  <1>9. ASSUME NEW s \in Schemas, Check(s) PROVE DataInv'
    <2> DEFINE row == table[Db(s)]
    <2>1. /\ pc[s] \in Locked /\ UNCHANGED <<conn, table, content, to, goal>> /\ OthersStay(s)
          /\ at'[s] = row.version
          /\ \/ pc'[s] = "unlock" /\ result'[s] = "error"
             \/ pc'[s] = "mark" /\ ~row.dirty
      BY <1>9 DEF Check, Fail, Locked, dbVars, MigrateIInv, MigrateTypeOK
    <2>2. Db(s) \in Databases /\ row \in Rows
      BY <2>1 DEF MigrateIInv, MigrateTypeOK, Connected, HasDriver, Conn
    <2>3. ~row.dirty => row = [version |-> row.version, dirty |-> FALSE]
                        /\ content[Db(s)] = row.version
      BY <2>2 DEF Rows, MigrateIInv, CleanMeansApplied
    <2>4. QED
      <3>1. OwnStep(s)
        BY <2>1, <2>3 DEF OwnStep
      <3>2. QED
        BY <3>1, OwnStepKeepsData
  <1>10. ASSUME NEW s \in Schemas, pc[s] \in Locked
         PROVE  Db(s) \in Databases
    BY <1>10 DEF MigrateIInv, MigrateTypeOK, Connected, HasDriver, Conn
  <1>11. ASSUME NEW s \in Schemas, Mark(s) PROVE DataInv'
    <2>1. pc[s] = "mark" /\ pc[s] \in Locked /\ Db(s) \in Databases
      BY <1>10, <1>11 DEF Mark, Locked
    <2>2. table[Db(s)] = [version |-> at[s], dirty |-> FALSE] /\ content[Db(s)] = at[s]
      <3>1. CallInv /\ CleanMeansApplied
        BY DEF MigrateIInv
      <3>2. table[Db(s)] = [version |-> at[s], dirty |-> FALSE]
        BY <2>1, <3>1 DEF CallInv
      <3>3. QED
        BY <2>1, <3>1, <3>2 DEF CleanMeansApplied
    <2>3. /\ UNCHANGED <<conn, content, to, at, result>> /\ OthersStay(s)
          /\ pc'[s] = "run"
          /\ table'[Db(s)] = [version |-> goal'[s], dirty |-> TRUE]
          /\ \A d \in Databases : d # Db(s) => UNCHANGED <<table[d], content[d]>>
      BY <1>11, <2>1 DEF Mark, MigrateIInv, MigrateTypeOK
    <2>4. QED
      <3>1. OwnStep(s)
        BY <2>1, <2>2, <2>3 DEF OwnStep
      <3>2. QED
        BY <3>1, OwnStepKeepsData
  <1>12. ASSUME NEW s \in Schemas, RunMigration(s) PROVE DataInv'
    <2>1. pc[s] = "run" /\ pc[s] \in Locked /\ Db(s) \in Databases
      BY <1>10, <1>12 DEF RunMigration, Locked
    <2>2. table[Db(s)] = [version |-> goal[s], dirty |-> TRUE] /\ content[Db(s)] = at[s]
      BY <2>1 DEF MigrateIInv, CallInv
    <2>3. /\ UNCHANGED <<conn, table, to, at, goal, result>> /\ OthersStay(s)
          /\ pc'[s] = "clean"
          /\ content'[Db(s)] = goal[s]
          /\ \A d \in Databases : d # Db(s) => UNCHANGED <<table[d], content[d]>>
      BY <1>12, <2>1, <2>2 DEF RunMigration, callVars, MigrateIInv, MigrateTypeOK
    <2>4. QED
      <3>1. OwnStep(s)
        BY <2>1, <2>2, <2>3 DEF OwnStep
      <3>2. QED
        BY <3>1, OwnStepKeepsData
  <1>13. ASSUME NEW s \in Schemas, RunFails(s) PROVE DataInv'
    <2>1. pc[s] = "run" /\ pc[s] \in Locked /\ Db(s) \in Databases
      BY <1>10, <1>13 DEF RunFails, Locked
    <2>2. table[Db(s)] = [version |-> goal[s], dirty |-> TRUE]
      BY <2>1 DEF MigrateIInv, CallInv
    <2>3. /\ UNCHANGED <<conn, table, to, at, goal>> /\ OthersStay(s)
          /\ pc'[s] = "unlock" /\ result'[s] = "error"
          /\ \A d \in Databases : d # Db(s) => UNCHANGED <<table[d], content[d]>>
      BY <1>13, <2>1 DEF RunFails, Fail, callVars, MigrateIInv, MigrateTypeOK
    <2>4. QED
      <3>1. OwnStep(s)
        BY <2>1, <2>2, <2>3 DEF OwnStep
      <3>2. QED
        BY <3>1, OwnStepKeepsData
  <1>14. ASSUME NEW s \in Schemas, MarkDone(s) PROVE DataInv'
    <2>1. pc[s] = "clean" /\ pc[s] \in Locked /\ Db(s) \in Databases
      BY <1>10, <1>14 DEF MarkDone, Locked
    <2>2. content[Db(s)] = goal[s]
      BY <2>1 DEF MigrateIInv, CallInv
    <2>3. /\ UNCHANGED <<conn, content, to, goal>> /\ OthersStay(s)
          /\ at'[s] = goal[s]
          /\ pc'[s] = "mark" \/ (pc'[s] = "unlock" /\ goal[s] = to[s])
          /\ table'[Db(s)] = [version |-> goal[s], dirty |-> FALSE]
          /\ \A d \in Databases : d # Db(s) => UNCHANGED <<table[d], content[d]>>
      <3>1. MigrateTypeOK
        BY DEF MigrateIInv
      <3>2. /\ UNCHANGED <<conn, content, to, goal>> /\ at'[s] = goal[s]
            /\ \A t \in Schemas : t # s => UNCHANGED at[t]
            /\ table'[Db(s)] = [version |-> goal[s], dirty |-> FALSE]
            /\ \A d \in Databases : d # Db(s) => UNCHANGED <<table[d], content[d]>>
        BY <1>14, <2>1, <3>1 DEF MarkDone, MigrateTypeOK
      <3>3. /\ \A t \in Schemas : t # s => pc'[t] = pc[t] /\ result'[t] = result[t]
            /\ pc'[s] = "mark" \/ (pc'[s] = "unlock" /\ goal[s] = to[s])
        <4>1. CASE goal[s] = to[s]
          <5>1. /\ pc' = [pc EXCEPT ![s] = "unlock"]
                /\ result' = [result EXCEPT ![s] = "ok"]
            BY <1>14, <4>1 DEF MarkDone
          <5>2. QED
            BY <3>1, <4>1, <5>1 DEF MigrateTypeOK
        <4>2. CASE goal[s] # to[s]
          <5>1. pc' = [pc EXCEPT ![s] = "mark"] /\ result' = result
            BY <1>14, <4>2 DEF MarkDone
          <5>2. pc'[s] = "mark" /\ \A t \in Schemas : t # s => pc'[t] = pc[t]
            BY <3>1, <5>1 DEF MigrateTypeOK
          <5>3. \A t \in Schemas : result'[t] = result[t]
            BY <5>1
          <5>4. QED
            BY <5>2, <5>3
        <4>3. QED
          BY <4>1, <4>2
      <3>4. QED
        BY <3>2, <3>3
    <2>4. QED
      <3>1. OwnStep(s)
        <4>1. CASE pc'[s] = "mark"
          BY <2>1, <2>2, <2>3, <4>1 DEF OwnStep
        <4>2. CASE pc'[s] = "unlock" /\ goal[s] = to[s]
          <5>1. /\ table'[Db(s)] = [version |-> to'[s], dirty |-> FALSE]
                /\ content'[Db(s)] = to'[s]
            BY <2>2, <2>3, <4>2
          <5>2. QED
            BY <2>1, <2>2, <2>3, <4>2, <5>1 DEF OwnStep
        <4>3. QED
          BY <2>3, <4>1, <4>2
      <3>2. QED
        BY <3>1, OwnStepKeepsData
  <1>15. ASSUME NEW s \in Schemas, SetVersionFails(s) PROVE DataInv'
    <2>1. Alone
      BY <1>15 DEF SetVersionFails, Fail, Quiet, MigrateIInv, MigrateTypeOK, dbVars, callVars
    <2>2. QED
      BY <1>2, <2>1
  <1>16. ASSUME NEW s \in Schemas, Unlock(s) PROVE DataInv'
    <2>1. Alone
      BY <1>16 DEF Unlock, Return, Quiet, MigrateIInv, MigrateTypeOK
    <2>2. QED
      BY <1>2, <2>1
  <1>17. CASE MigrateCrash
    <2>1. Alone
      BY <1>17 DEF MigrateCrash, Quiet
    <2>2. QED
      BY <1>2, <2>1
  <1>18. CASE UNCHANGED migrateVars
    <2>1. Alone
      BY <1>18 DEF Quiet, migrateVars, dbVars, callVars
    <2>2. QED
      BY <1>2, <2>1
  <1>19. ASSUME NEW s \in Schemas, TakeResult(s) PROVE DataInv'
    <2>1. Alone
      BY <1>19 DEF TakeResult, Quiet, MigrateIInv, MigrateTypeOK, dbVars, callVars
    <2>2. QED
      BY <1>2, <2>1
  <1>20. ASSUME NEW s \in Schemas, UnlockFails(s) PROVE DataInv'
    <2>1. Alone
      BY <1>20 DEF UnlockFails, Return, Quiet, MigrateIInv, MigrateTypeOK, dbVars
    <2>2. QED
      BY <1>2, <2>1
  <1>21. QED
    BY <1>3, <1>4, <1>5, <1>6, <1>7, <1>8, <1>9, <1>11, <1>12, <1>13, <1>14, <1>15, <1>16,
       <1>17, <1>18, <1>19, <1>20 DEF MigrateNext, CallStep

LEMMA IInvStep == MigrateIInv /\ [MigrateNext]_migrateVars => MigrateIInv'
  <1> SUFFICES ASSUME MigrateIInv, [MigrateNext]_migrateVars PROVE MigrateIInv'
    OBVIOUS
  <1>1. MigrateTypeOK'
    BY TypeStep DEF MigrateIInv
  <1>2. BeliefsAgree' /\ Connected'
    BY LockStep DEF MigrateIInv
  <1>3. DataInv'
    BY DataStep
  <1>4. QED
    BY <1>1, <1>2, <1>3 DEF MigrateIInv, DataInv

\* The inductive invariant, from which the theorems below follow.
THEOREM MigrateInvariant == MigrateSpec => []MigrateIInv
  BY InitIInv, IInvStep, PTL DEF MigrateSpec

\* Type correctness of the migration engine, its drivers and the databases.
THEOREM MigrateTypeCorrect == MigrateSpec => []MigrateTypeOK
  <1>1. MigrateIInv => MigrateTypeOK
    BY DEF MigrateIInv
  <1>2. QED
    BY <1>1, MigrateInvariant, PTL

\* Drivers with a working connection and the server agree about the lock.
THEOREM LockBeliefsAgree == MigrateSpec => []BeliefsAgree
  <1>1. MigrateIInv => BeliefsAgree
    BY DEF MigrateIInv
  <1>2. QED
    BY <1>1, MigrateInvariant, PTL

\* Two schema objects never migrate the same database at the same time.
THEOREM MigrationsExclude == MigrateSpec => []OneMigrationPerDatabase
  <1>1. MigrateIInv => OneMigrationPerDatabase
    BY LockExcludes DEF MigrateIInv, OneMigrationPerDatabase
  <1>2. QED
    BY <1>1, MigrateInvariant, PTL

\* A clean row tells the truth, and a call that reports success too.
THEOREM CleanRowsAreTrue == MigrateSpec => [](CleanMeansApplied /\ OkMeansThere)
  <1>1. MigrateIInv => CleanMeansApplied /\ OkMeansThere
    BY DEF MigrateIInv
  <1>2. QED
    BY <1>1, MigrateInvariant, PTL

\* A database changes only under a dirty row.
THEOREM RunsAreMarked == MigrateSpec => MarkedBeforeRun
  <1>1. ASSUME MigrateIInv, [MigrateNext]_migrateVars, NEW d \in Databases,
               content'[d] # content[d]
        PROVE  table[d].dirty
    <2>1. CASE UNCHANGED content
      BY <1>1, <2>1
    <2>2. ASSUME NEW s \in Schemas, RunMigration(s) \/ RunFails(s) PROVE table[d].dirty
      <3>1. pc[s] = "run" /\ d = Db(s)
        BY <1>1, <2>2 DEF RunMigration, RunFails, MigrateIInv, MigrateTypeOK
      <3>2. QED
        <4>1. CallInv
          BY <1>1 DEF MigrateIInv
        <4>2. table[Db(s)] = [version |-> goal[s], dirty |-> TRUE]
          BY <3>1, <4>1 DEF CallInv
        <4>3. QED
          BY <3>1, <4>2
    <2>3. QED
      BY <1>1, <2>1, <2>2
         DEF MigrateNext, CallStep, Open, SessionLost, Discard, Migrate, TakeResult,
             Acquire, LockTimeout,
             Check, Mark, MarkDone, SetVersionFails, Unlock, UnlockFails, MigrateCrash,
             migrateVars, dbVars
  <1>2. MigrateIInv /\ [MigrateNext]_migrateVars =>
            [\A d \in Databases : content'[d] # content[d] => table[d].dirty]_migrateVars
    BY <1>1
  <1>3. QED
    BY <1>2, MigrateInvariant, PTL DEF MigrateSpec, MarkedBeforeRun

\* Nothing but the call that marked a row dirty changes it.
THEOREM DirtyRowsStay == MigrateSpec => DirtyIsSticky
  <1> DEFINE P(d) == table[d].dirty /\ table'[d] # table[d] =>
                        \E s \in Schemas : holder[d] = s /\ pc[s] = "clean"
                                           /\ table'[d].version = table[d].version
  <1>1. ASSUME MigrateIInv, [MigrateNext]_migrateVars, NEW d \in Databases,
               table[d].dirty, table'[d] # table[d]
        PROVE  \E s \in Schemas : holder[d] = s /\ pc[s] = "clean"
                                  /\ table'[d].version = table[d].version
    <2>1. CASE UNCHANGED table
      BY <1>1, <2>1
    <2>2. ASSUME NEW s \in Schemas, Mark(s) PROVE FALSE
      <3>1. pc[s] = "mark" /\ d = Db(s)
        BY <1>1, <2>2 DEF Mark, MigrateIInv, MigrateTypeOK
      <3>2. QED
        <4>1. CallInv
          BY <1>1 DEF MigrateIInv
        <4>2. table[Db(s)] = [version |-> at[s], dirty |-> FALSE]
          BY <3>1, <4>1 DEF CallInv
        <4>3. QED
          BY <1>1, <3>1, <4>2
    <2>3. ASSUME NEW s \in Schemas, MarkDone(s)
          PROVE  holder[d] = s /\ pc[s] = "clean" /\ table'[d].version = table[d].version
      <3>1. pc[s] = "clean" /\ d = Db(s)
            /\ table'[d] = [version |-> goal[s], dirty |-> FALSE]
        BY <1>1, <2>3 DEF MarkDone, MigrateIInv, MigrateTypeOK
      <3>2. table[d] = [version |-> goal[s], dirty |-> TRUE]
        <4>1. CallInv
          BY <1>1 DEF MigrateIInv
        <4>2. QED
          BY <3>1, <4>1 DEF CallInv
      <3>3. holder[d] = s
        BY <1>1, <3>1 DEF MigrateIInv, Connected, BeliefsAgree, Locked, Db
      <3>4. QED
        BY <3>1, <3>2, <3>3
    <2>4. QED
      BY <1>1, <2>1, <2>2, <2>3
         DEF MigrateNext, CallStep, Open, SessionLost, Discard, Migrate, TakeResult,
             Acquire, LockTimeout,
             Check, RunMigration, RunFails, SetVersionFails, Unlock, UnlockFails, MigrateCrash,
             migrateVars, dbVars
  <1>2. MigrateIInv /\ [MigrateNext]_migrateVars => [\A d \in Databases : P(d)]_migrateVars
    BY <1>1
  <1>3. QED
    BY <1>2, MigrateInvariant, PTL DEF MigrateSpec, DirtyIsSticky
-----------------------------------------------------------------------------
\* A set of natural numbers that is not empty has a least element...
LEMMA LeastElement ==
    ASSUME NEW T \in SUBSET Nat, T # {}
    PROVE  \E x \in T : \A y \in T : x <= y
  <1> DEFINE Below == {p \in Nat \X Nat : p[1] < p[2]}
  <1>1. IsWellFoundedOn(Below, Nat)
    BY NatLessThanWellFounded DEF OpToRel
  <1> HIDE DEF Below
  <1>2. PICK x \in T : \A y \in T : ~ (<<y, x>> \in Below)
    BY <1>1, WFMin
  <1>3. ASSUME NEW y \in T PROVE x <= y
    <2>1. ~(y < x)
      BY <1>2 DEF Below
    <2>2. QED
      BY <2>1
  <1>4. QED
    BY <1>3

\* ...and, if it is bounded, a greatest one.
LEMMA GreatestElement ==
    ASSUME NEW T \in SUBSET Nat, T # {}, NEW n \in Nat, \A x \in T : x <= n
    PROVE  \E x \in T : \A y \in T : y <= x
  <1> DEFINE U == {n - x : x \in T}
  <1>1. U \in SUBSET Nat /\ U # {}
    <2>1. \A x \in T : x \in Nat /\ n - x \in Nat
      OBVIOUS
    <2>2. QED
      BY <2>1
  <1>2. PICK u \in U : \A w \in U : u <= w
    BY <1>1, LeastElement
  <1>3. PICK x \in T : u = n - x
    BY <1>2
  <1>4. ASSUME NEW y \in T PROVE y <= x
    <2>1. n - x <= n - y
      BY <1>2, <1>3
    <2>2. QED
      BY <2>1
  <1>5. QED
    BY <1>4

\* From every version, or none, there is a next one towards every other.
LEMMA NextTowards ==
    ASSUME NEW v \in Source \cup {Nil}, NEW t \in Source, v # t
    PROVE  Neighbours(v, t) # {}
  <1> USE MigrateAssumption DEF Nil
  <1>1. CASE v < t
    <2> DEFINE T == {x \in Source : v < x}
    <2>1. T \in SUBSET Nat /\ t \in T
      BY <1>1
    <2>2. PICK x \in T : \A y \in T : x <= y
      BY <2>1, LeastElement
    <2>3. x \in Neighbours(v, t)
      BY <2>1, <2>2 DEF Neighbours
    <2>4. QED
      BY <2>3
  <1>2. CASE t < v
    <2> DEFINE T == {x \in Source : x < v}
    <2>1. T \in SUBSET Nat /\ t \in T
      BY <1>2
    <2>2. v \in Nat
      BY <1>2
    <2>3. \A x \in T : x <= v
      BY <2>1, <2>2
    <2>4. PICK x \in T : \A y \in T : y <= x
      BY <2>1, <2>2, <2>3, GreatestElement
    <2>5. x \in Neighbours(v, t)
      BY <2>1, <2>4 DEF Neighbours
    <2>6. QED
      BY <2>5
  <1>3. QED
    BY <1>1, <1>2

\* The way that is left is finite, and not empty while the end is ahead.
LEMMA RemainingIsFinite ==
    ASSUME NEW v \in Source \cup {Nil}, NEW t \in Targets \cup {Nil}
    PROVE  /\ IsFiniteSet(Remaining(v, t))
           /\ Cardinality(Remaining(v, t)) \in Nat
           /\ t \in Source /\ v # t => Cardinality(Remaining(v, t)) >= 1
  <1> USE MigrateAssumption DEF Nil
  <1> DEFINE R == Remaining(v, t)
  <1>1. v \in Int /\ t \in Int
    OBVIOUS
  <1>2. R \subseteq (v .. t) \cup (t .. v)
    <2>1. ASSUME NEW x \in R PROVE x \in (v .. t) \cup (t .. v)
      <3>1. x \in Int /\ ((v < x /\ x <= t) \/ (t <= x /\ x < v))
        BY <2>1 DEF Remaining
      <3>2. QED
        BY <1>1, <3>1
    <2>2. QED
      BY <2>1
  <1>3. IsFiniteSet((v .. t) \cup (t .. v))
    BY <1>1, FS_Interval, FS_Union
  <1>4. IsFiniteSet(R)
    BY <1>2, <1>3, FS_Subset
  <1>5. t \in Source /\ v # t => t \in R
    BY <1>1 DEF Remaining
  <1> HIDE DEF R
  <1>6. Cardinality(R) \in Nat /\ (Cardinality(R) = 0 <=> R = {})
    BY <1>4, FS_CardinalityType, FS_EmptySet
  <1>7. t \in Source /\ v # t => Cardinality(R) >= 1
    BY <1>5, <1>6
  <1>8. QED
    BY <1>4, <1>6, <1>7 DEF R

\* A neighbour is one version nearer.
LEMMA NeighbourIsNearer ==
    ASSUME NEW v \in Source \cup {Nil}, NEW t \in Targets \cup {Nil},
           NEW x \in Neighbours(v, t)
    PROVE  Cardinality(Remaining(x, t)) < Cardinality(Remaining(v, t))
  <1> USE MigrateAssumption DEF Nil
  <1>1. v \in Int /\ t \in Int /\ x \in Source /\ x \in Nat
    BY DEF Neighbours
  <1>2. x \in Remaining(v, t) /\ x \notin Remaining(x, t)
    BY <1>1 DEF Neighbours, Remaining
  <1>3. Remaining(x, t) \subseteq Remaining(v, t)
    <2>1. ASSUME NEW y \in Remaining(x, t) PROVE y \in Remaining(v, t)
      <3>1. y \in Source /\ y \in Int /\ ((x < y /\ y <= t) \/ (t <= y /\ y < x))
        BY <2>1 DEF Remaining
      <3>2. (v < x /\ x <= t) \/ (t <= x /\ x < v)
        BY DEF Neighbours
      <3>3. (v < y /\ y <= t) \/ (t <= y /\ y < v)
        BY <1>1, <3>1, <3>2
      <3>4. QED
        BY <3>1, <3>3 DEF Remaining
    <2>2. QED
      BY <2>1
  <1>4. IsFiniteSet(Remaining(v, t)) /\ Cardinality(Remaining(v, t)) \in Nat
        /\ Cardinality(Remaining(x, t)) \in Nat
    BY <1>1, RemainingIsFinite
  <1>5. Remaining(x, t) # Remaining(v, t)
    BY <1>2
  <1>6. QED
    BY <1>3, <1>4, <1>5, FS_Subset
-----------------------------------------------------------------------------
\* Where a call in progress is bound for: a version with files that it has not
\* reached, by way of the neighbour on that side.
CallAims ==
    \A s \in Schemas :
        /\ pc[s] \in {"mark", "run", "clean"} => to[s] \in Source /\ at[s] # to[s]
        /\ pc[s] \in {"run", "clean"} => goal[s] \in Neighbours(at[s], to[s])

LEMMA AimsStep ==
    ASSUME MigrateTypeOK, CallAims, [MigrateNext]_migrateVars
    PROVE  CallAims'
  <1> USE DEF MigrateTypeOK, CallAims
  <1> DEFINE Same(t) == UNCHANGED <<pc[t], to[t], at[t], goal[t]>>
             Off(t) == pc'[t] \in {"idle", "lock", "check", "unlock"}
  <1>1. ASSUME \A t \in Schemas : Same(t) \/ Off(t) PROVE CallAims'
    BY <1>1
  <1>2. ASSUME NEW s \in Schemas,
               (\E d \in Databases : Open(s, d)) \/ Discard(s) \/ TakeResult(s)
        PROVE  CallAims'
    BY <1>1, <1>2 DEF Open, Discard, TakeResult, callVars
  <1>3. ASSUME NEW s \in Schemas, NEW v \in Targets, Migrate(s, v) PROVE CallAims'
    <2>1. \A t \in Schemas : Same(t) \/ Off(t)
      BY <1>3 DEF Migrate
    <2>2. QED
      BY <1>1, <2>1
  <1>4. ASSUME NEW s \in Schemas,
               SessionLost(s) \/ LockTimeout(s) \/ Unlock(s) \/ UnlockFails(s)
        PROVE  CallAims'
    <2>1. \A t \in Schemas : Same(t) \/ Off(t)
      BY <1>4 DEF SessionLost, LockTimeout, Unlock, UnlockFails, Return
    <2>2. QED
      BY <1>1, <2>1
  <1>5. ASSUME NEW s \in Schemas, Acquire(s) PROVE CallAims'
    <2>1. \A t \in Schemas : Same(t) \/ Off(t)
      BY <1>5 DEF Acquire, callVars
    <2>2. QED
      BY <1>1, <2>1
  <1>6. ASSUME NEW s \in Schemas, RunFails(s) \/ SetVersionFails(s) PROVE CallAims'
    <2>1. \A t \in Schemas : Same(t) \/ Off(t)
      BY <1>6 DEF RunFails, SetVersionFails, Fail, callVars
    <2>2. QED
      BY <1>1, <2>1
  <1>7. CASE MigrateCrash
    <2>1. \A t \in Schemas : Off(t)
      BY <1>7 DEF MigrateCrash
    <2>2. QED
      BY <1>1, <2>1
  <1>8. CASE UNCHANGED migrateVars
    BY <1>1, <1>8 DEF migrateVars, callVars
  <1>9. ASSUME NEW s \in Schemas, Check(s) PROVE CallAims'
    <2>1. \A t \in Schemas : t # s => Same(t)
      BY <1>9 DEF Check, Fail
    <2>2. /\ to'[s] = to[s] /\ at'[s] = table[Db(s)].version
          /\ \/ pc'[s] = "unlock"
             \/ pc'[s] = "mark" /\ to[s] \in Source /\ table[Db(s)].version # to[s]
      BY <1>9 DEF Check, Fail
    <2>3. QED
      BY <2>1, <2>2
  <1>10. ASSUME NEW s \in Schemas, Mark(s) PROVE CallAims'
    <2>1. \A t \in Schemas : t # s => Same(t)
      BY <1>10 DEF Mark
    <2>2. /\ to'[s] = to[s] /\ at'[s] = at[s] /\ pc'[s] = "run" /\ pc[s] = "mark"
          /\ goal'[s] \in Neighbours(at[s], to[s])
      BY <1>10 DEF Mark
    <2>3. \A t \in Schemas :
              /\ pc'[t] \in {"mark", "run", "clean"} => to'[t] \in Source /\ at'[t] # to'[t]
              /\ pc'[t] \in {"run", "clean"} => goal'[t] \in Neighbours(at'[t], to'[t])
      BY <2>1, <2>2
    <2>4. QED
      BY <2>3
  <1>11. ASSUME NEW s \in Schemas, RunMigration(s) PROVE CallAims'
    <2>1. \A t \in Schemas : t # s => Same(t)
      BY <1>11 DEF RunMigration, callVars
    <2>2. /\ to'[s] = to[s] /\ at'[s] = at[s] /\ goal'[s] = goal[s]
          /\ pc'[s] = "clean" /\ pc[s] = "run"
      BY <1>11 DEF RunMigration, callVars
    <2>3. QED
      BY <2>1, <2>2
  <1>12. ASSUME NEW s \in Schemas, MarkDone(s) PROVE CallAims'
    <2>1. \A t \in Schemas : t # s => Same(t)
      BY <1>12 DEF MarkDone
    <2>2. /\ to'[s] = to[s] /\ at'[s] = goal[s] /\ pc[s] = "clean"
          /\ \/ pc'[s] = "unlock"
             \/ pc'[s] = "mark" /\ goal[s] # to[s]
      BY <1>12 DEF MarkDone
    <2>3. QED
      BY <2>1, <2>2
  <1>13. QED
    BY <1>2, <1>3, <1>4, <1>5, <1>6, <1>7, <1>8, <1>9, <1>10, <1>11, <1>12
       DEF MigrateNext, CallStep

\* A call knows where it is bound for.
THEOREM CallsAim == MigrateSpec => []CallAims
  <1>1. MigrateInit => CallAims
    BY DEF MigrateInit, CallAims
  <1>2. MigrateTypeOK /\ CallAims /\ [MigrateNext]_migrateVars => CallAims'
    BY AimsStep
  <1>3. QED
    BY <1>1, <1>2, MigrateTypeCorrect, PTL DEF MigrateSpec

\* The search for the next version never runs off the ends of the source.
THEOREM ReadNeverRunsOut == MigrateSpec => []NeverRunsOut
  <1>1. MigrateTypeOK /\ CallAims => NeverRunsOut
    <2>1. ASSUME MigrateTypeOK, CallAims, NEW s \in Schemas, pc[s] = "mark"
          PROVE  Neighbours(at[s], to[s]) # {}
      <3>1. at[s] \in Source \cup {Nil} /\ to[s] \in Source /\ at[s] # to[s]
        BY <2>1 DEF MigrateTypeOK, CallAims
      <3>2. QED
        BY <3>1, NextTowards
    <2>2. QED
      BY <2>1 DEF NeverRunsOut
  <1>2. QED
    BY <1>1, MigrateTypeCorrect, CallsAim, PTL

\* A call that reports success has left the database where it was asked to.
THEOREM OkCallsAreThere == MigrateSpec => []OkMeansThere
  <1>1. MigrateIInv => OkMeansThere
    BY DEF MigrateIInv
  <1>2. QED
    BY <1>1, MigrateInvariant, PTL
-----------------------------------------------------------------------------
\* While the call for s has the lock, a step of another object's call, driver
\* or sync leaves alone what it knows and the row it works on.
LEMMA OthersLeave ==
    ASSUME MigrateIInv, NEW s \in Schemas, pc[s] \in Locked,
           NEW t \in Schemas, t # s,
           \/ \E d \in Databases : Open(t, d)
           \/ SessionLost(t) \/ Discard(t) \/ TakeResult(t) \/ CallStep(t)
           \/ \E v \in Targets : Migrate(t, v)
    PROVE  UNCHANGED <<pc[s], to[s], at[s], table[Db(s)]>>
  <1>1. MigrateTypeOK /\ BeliefsAgree /\ Connected
    BY DEF MigrateIInv
  <1>2. Db(s) \in Databases
    BY <1>1 DEF MigrateTypeOK, Connected, HasDriver, Conn, Db
  <1>3. ASSUME Mark(t) \/ MarkDone(t)
        PROVE  UNCHANGED <<pc[s], to[s], at[s], table[Db(s)], conn>>
    <2>1. pc[t] \in Locked
      BY <1>3 DEF Mark, MarkDone, Locked
    <2>2. Db(t) # Db(s)
      BY <1>1, <2>1, LockExcludes
    <2>3. table'[Db(s)] = table[Db(s)]
      BY <1>1, <1>2, <1>3, <2>2 DEF Mark, MarkDone, MigrateTypeOK
    <2>4. pc'[s] = pc[s] /\ to'[s] = to[s] /\ at'[s] = at[s] /\ conn' = conn
      BY <1>1, <1>3 DEF Mark, MarkDone, MigrateTypeOK
    <2>5. QED
      BY <2>3, <2>4 DEF Db
  <1>4. ASSUME \/ \E d \in Databases : Open(t, d)
               \/ Discard(t) \/ TakeResult(t)
               \/ \E v \in Targets : Migrate(t, v)
        PROVE  UNCHANGED <<pc[s], to[s], at[s], conn[s], table>>
    BY <1>1, <1>4 DEF Open, Discard, TakeResult, Migrate, dbVars, callVars, MigrateTypeOK
  <1>5. ASSUME SessionLost(t) \/ LockTimeout(t) \/ Unlock(t) \/ UnlockFails(t) \/ Acquire(t)
        PROVE  UNCHANGED <<pc[s], to[s], at[s], conn[s], table>>
    BY <1>1, <1>5
       DEF SessionLost, LockTimeout, Unlock, UnlockFails, Acquire, Return, dbVars, callVars,
           MigrateTypeOK
  <1>6. ASSUME Check(t) \/ RunMigration(t) \/ RunFails(t) \/ SetVersionFails(t)
        PROVE  UNCHANGED <<pc[s], to[s], at[s], conn[s], table>>
    BY <1>1, <1>6
       DEF Check, RunMigration, RunFails, SetVersionFails, Fail, dbVars, callVars, MigrateTypeOK
  <1>7. ASSUME UNCHANGED <<conn[s], table>> PROVE UNCHANGED table[Db(s)]
    BY <1>7 DEF Db
  <1>8. QED
    BY <1>3, <1>4, <1>5, <1>6, <1>7 DEF CallStep

\* A call with the lock gets on, and nobody makes its way longer.
THEOREM LockedCallsGetOn == MigrateSpec => CallsGetOn
  <1> DEFINE N(s) == Cardinality(Remaining(From(s), to[s]))
             Goal(s) == /\ Left(s)' <= Left(s)
                        /\ pc'[s] # pc[s] => Left(s)' < Left(s)
  <1>1. ASSUME MigrateIInv, CallAims, [MigrateNext]_migrateVars,
               NEW s \in Schemas, pc[s] \in Locked
        PROVE  Goal(s)
    <2>1. /\ MigrateTypeOK /\ Connected /\ CallInv
          /\ Db(s) \in Databases
      BY <1>1 DEF MigrateIInv, MigrateTypeOK, Connected, HasDriver, Conn, Db
    <2>2. From(s) \in Source \cup {Nil} /\ to[s] \in Targets \cup {Nil}
      BY <2>1 DEF MigrateTypeOK, From, Rows
    <2>3. /\ N(s) \in Nat
          /\ pc[s] \in {"mark", "run", "clean"} => N(s) >= 1
      <3>1. pc[s] \in {"mark", "run", "clean"} =>
                to[s] \in Source /\ From(s) # to[s]
        BY <1>1 DEF CallAims, From
      <3>2. QED
        BY <2>2, <3>1, RemainingIsFinite
    <2>4. Left(s) \in Nat /\ Left(s) >= 1
      BY <1>1, <2>3 DEF Left, StepsLeft, Locked
    <2>5. pc'[s] = "idle" => Left(s)' = 0
      BY DEF Left, StepsLeft
    <2>6. pc'[s] = "unlock" => Left(s)' = 1
      BY DEF Left, StepsLeft
    <2>7. ASSUME UNCHANGED <<pc[s], to[s], at[s], table[Db(s)]>> PROVE Goal(s)
      <3>1. Left(s)' = Left(s)
        BY <2>7 DEF Left, From
      <3>2. QED
        BY <2>4, <2>7, <3>1
    <2>8. CASE pc'[s] = "idle"
      BY <2>4, <2>5, <2>8
    <2>9. ASSUME pc[s] # "unlock", pc'[s] = "unlock" PROVE Goal(s)
      <3>1. Left(s) >= 2
        BY <1>1, <2>3, <2>9 DEF Left, StepsLeft, Locked
      <3>2. QED
        BY <2>4, <2>6, <2>9, <3>1
    <2>10. ASSUME NEW t \in Schemas, t # s,
                  \/ \E d \in Databases : Open(t, d)
                  \/ SessionLost(t) \/ Discard(t) \/ TakeResult(t) \/ CallStep(t)
                  \/ \E v \in Targets : Migrate(t, v)
           PROVE  Goal(s)
      BY <1>1, <2>7, <2>10, OthersLeave
    <2>11. CASE \/ \E d \in Databases : Open(s, d)
                \/ Discard(s) \/ Acquire(s) \/ LockTimeout(s)
                \/ \E v \in Targets : Migrate(s, v)
      BY <1>1, <2>1, <2>11 DEF Open, Discard, Acquire, LockTimeout, Migrate, Connected, Locked
    <2>12. CASE TakeResult(s)
      BY <1>1, <2>12 DEF TakeResult, Locked
    <2>13. CASE SessionLost(s) \/ Unlock(s) \/ UnlockFails(s)
      BY <2>1, <2>8, <2>13 DEF SessionLost, Unlock, UnlockFails, Return, MigrateTypeOK
    <2>14. CASE RunFails(s) \/ SetVersionFails(s)
      BY <2>1, <2>9, <2>14 DEF RunFails, SetVersionFails, Fail, MigrateTypeOK
    <2>15. CASE Check(s)
      <3>1. pc[s] = "check" /\ pc'[s] \in {"mark", "unlock"}
        BY <2>1, <2>15 DEF Check, Fail, MigrateTypeOK
      <3>2. CASE pc'[s] = "unlock"
        BY <2>9, <3>1, <3>2
      <3>3. CASE pc'[s] = "mark"
        <4>1. at'[s] = table[Db(s)].version /\ to'[s] = to[s]
          BY <2>1, <2>15 DEF Check, MigrateTypeOK
        <4>2. Left(s) = 3 * N(s) + 2
          BY <3>1 DEF Left, StepsLeft
        <4>3. From(s)' = From(s)
          BY <3>1, <3>3, <4>1 DEF From
        <4>4. Left(s)' = 3 * N(s) + 1
          BY <3>3, <4>1, <4>3 DEF Left, StepsLeft
        <4>5. QED
          BY <2>3, <3>1, <3>3, <4>2, <4>4
      <3>4. QED
        BY <3>1, <3>2, <3>3
    <2>16. CASE Mark(s)
      <3>1. pc[s] = "mark" /\ pc'[s] = "run" /\ at'[s] = at[s] /\ to'[s] = to[s]
        BY <2>1, <2>16 DEF Mark, MigrateTypeOK
      <3>2. Left(s) = 3 * N(s) + 1 /\ Left(s)' = 3 * N(s)
        BY <3>1 DEF Left, StepsLeft, From
      <3>3. QED
        BY <2>3, <3>1, <3>2
    <2>17. CASE RunMigration(s)
      <3>1. pc[s] = "run" /\ pc'[s] = "clean" /\ at'[s] = at[s] /\ to'[s] = to[s]
        BY <2>1, <2>17 DEF RunMigration, callVars, MigrateTypeOK
      <3>2. Left(s) = 3 * N(s) /\ Left(s)' = 3 * N(s) - 1
        BY <3>1 DEF Left, StepsLeft, From
      <3>3. QED
        BY <2>3, <3>1, <3>2
    <2>18. CASE MarkDone(s)
      <3>1. /\ pc[s] = "clean" /\ pc'[s] \in {"mark", "unlock"}
            /\ at'[s] = goal[s] /\ to'[s] = to[s]
        BY <2>1, <2>18 DEF MarkDone, MigrateTypeOK
      <3>2. CASE pc'[s] = "unlock"
        BY <2>9, <3>1, <3>2
      <3>3. CASE pc'[s] = "mark"
        <4>1. Left(s) = 3 * N(s) - 1
          BY <3>1 DEF Left, StepsLeft
        <4>2. Left(s)' = 3 * Cardinality(Remaining(goal[s], to[s])) + 1
          BY <3>1, <3>3 DEF Left, StepsLeft, From
        <4>3. From(s) = at[s] /\ goal[s] \in Neighbours(at[s], to[s]) /\ goal[s] \in Source
          BY <1>1, <3>1 DEF From, CallAims, Neighbours
        <4>4. Cardinality(Remaining(goal[s], to[s])) < N(s)
          BY <2>2, <4>3, NeighbourIsNearer
        <4>5. Cardinality(Remaining(goal[s], to[s])) \in Nat
          BY <2>2, <4>3, RemainingIsFinite
        <4>6. QED
          BY <2>3, <3>1, <3>3, <4>1, <4>2, <4>4, <4>5
      <3>4. QED
        BY <3>1, <3>2, <3>3
    <2>19. CASE MigrateCrash
      BY <2>8, <2>19 DEF MigrateCrash
    <2>20. CASE UNCHANGED migrateVars
      BY <2>7, <2>20 DEF migrateVars, dbVars, callVars, Db
    <2>21. QED
      BY <1>1, <2>10, <2>11, <2>12, <2>13, <2>14, <2>15, <2>16, <2>17, <2>18, <2>19, <2>20
         DEF MigrateNext, CallStep
  <1>2. MigrateIInv /\ CallAims /\ [MigrateNext]_migrateVars =>
            [\A s \in Schemas : pc[s] \in Locked => Goal(s)]_migrateVars
    BY <1>1
  <1>3. QED
    BY <1>2, MigrateInvariant, CallsAim, PTL DEF MigrateSpec, CallsGetOn
-----------------------------------------------------------------------------
\* The migration that a call has announced is one away from where the call is.
LEMMA NeighboursAreAdjacent ==
    ASSUME NEW v \in Source \cup {Nil}, NEW t \in Targets \cup {Nil}
    PROVE  Neighbours(v, t) \subseteq V!Adjacent(v)
  <1>1. ASSUME NEW x \in Neighbours(v, t) PROVE x \in V!Adjacent(v)
    <2>1. v \in Int /\ t \in Int /\ x \in Int /\ x \in Source /\ Source \subseteq Int
      BY MigrateAssumption DEF Neighbours, Nil
    <2>2. x # v
      BY <2>1 DEF Neighbours
    <2>3. ASSUME NEW y \in Source PROVE ~(v < y /\ y < x) /\ ~(x < y /\ y < v)
      <3>1. y \in Int
        BY <2>1
      <3>2. QED
        BY <2>1, <3>1 DEF Neighbours
    <2>4. QED
      BY <2>1, <2>2, <2>3 DEF V!Adjacent
  <1>2. QED
    BY <1>1

\* Every step of Migrate is a step of Versioned or leaves the databases alone.
LEMMA VersionedStep ==
    ASSUME MigrateIInv, CallAims, [MigrateNext]_migrateVars
    PROVE  [V!Next]_V!vars
  <1> DEFINE row(s) == table[Db(s)]
  <1>1. MigrateTypeOK /\ CallInv /\ CleanMeansApplied
    BY DEF MigrateIInv
  <1>2. ASSUME NEW s \in Schemas, pc[s] \in Locked PROVE Db(s) \in Databases
    BY <1>2 DEF MigrateIInv, MigrateTypeOK, Connected, HasDriver, Conn, Db
  <1>3. ASSUME NEW s \in Schemas, pc[s] \in {"mark", "run"}
        PROVE  Neighbours(at[s], to[s]) \subseteq V!Adjacent(at[s])
    BY <1>1, NeighboursAreAdjacent DEF MigrateTypeOK
  <1>4. ASSUME NEW s \in Schemas, pc[s] = "run"
        PROVE  /\ V!Pending(Db(s)) /\ content[Db(s)] = at[s]
               /\ row(s).version = goal[s]
    <2>1. row(s) = [version |-> goal[s], dirty |-> TRUE] /\ content[Db(s)] = at[s]
      BY <1>1, <1>4 DEF CallInv
    <2>2. goal[s] \in V!Adjacent(at[s])
      BY <1>3, <1>4 DEF CallAims
    <2>3. at[s] # V!Torn
      BY <1>1, MigrateAssumption DEF MigrateTypeOK, V!Torn, Nil
    <2>4. QED
      BY <2>1, <2>2, <2>3 DEF V!Pending
  <1>5. ASSUME NEW s \in Schemas, Mark(s) PROVE V!Begin(Db(s))
    <2>1. pc[s] = "mark" /\ Db(s) \in Databases
      BY <1>2, <1>5 DEF Mark, Locked
    <2>2. row(s) = [version |-> at[s], dirty |-> FALSE]
      BY <1>1, <2>1 DEF CallInv
    <2>3. PICK x \in Neighbours(at[s], to[s]) :
              table' = [table EXCEPT ![Db(s)] = [version |-> x, dirty |-> TRUE]]
      BY <1>5 DEF Mark
    <2>4. x \in V!Adjacent(row(s).version)
      BY <1>3, <2>1, <2>2
    <2>5. ~row(s).dirty /\ UNCHANGED content
      BY <1>5, <2>2 DEF Mark
    <2>6. QED
      BY <2>3, <2>4, <2>5 DEF V!Begin
  <1>6. ASSUME NEW s \in Schemas, RunMigration(s) PROVE V!Apply(Db(s))
    <2>1. /\ pc[s] = "run"
          /\ content' = [content EXCEPT ![Db(s)] = IF @ = at[s] THEN goal[s] ELSE Torn]
          /\ UNCHANGED table
      BY <1>6 DEF RunMigration
    <2>2. V!Pending(Db(s)) /\ content[Db(s)] = at[s] /\ row(s).version = goal[s]
      BY <1>4, <2>1
    <2>3. content' = [content EXCEPT ![Db(s)] = row(s).version]
      BY <2>1, <2>2
    <2>4. QED
      BY <2>1, <2>2, <2>3 DEF V!Apply
  <1>7. ASSUME NEW s \in Schemas, RunFails(s) PROVE V!Tear(Db(s)) \/ UNCHANGED V!vars
    <2>1. pc[s] = "run" /\ UNCHANGED table
      BY <1>7 DEF RunFails
    <2>2. V!Pending(Db(s))
      BY <1>4, <2>1
    <2>3. content' = content \/ content' = [content EXCEPT ![Db(s)] = V!Torn]
      BY <1>7 DEF RunFails, Torn, V!Torn
    <2>4. QED
      BY <2>1, <2>2, <2>3 DEF V!Tear, V!vars
  <1>8. ASSUME NEW s \in Schemas, MarkDone(s) PROVE V!Finish(Db(s))
    <2>1. /\ pc[s] = "clean" /\ Db(s) \in Databases
          /\ table' = [table EXCEPT ![Db(s)] = [version |-> goal[s], dirty |-> FALSE]]
          /\ UNCHANGED content
      BY <1>2, <1>8 DEF MarkDone, Locked
    <2>2. row(s) = [version |-> goal[s], dirty |-> TRUE] /\ content[Db(s)] = goal[s]
      BY <1>1, <2>1 DEF CallInv
    <2>3. row(s).dirty /\ row(s).version = goal[s]
      BY <2>2
    <2>4. table' = [table EXCEPT ![Db(s)] = [version |-> content[Db(s)], dirty |-> FALSE]]
      BY <2>1, <2>2
    <2>5. QED
      BY <2>1, <2>2, <2>3, <2>4 DEF V!Finish
  <1>9. ASSUME NEW s \in Schemas, Mark(s) \/ RunMigration(s) \/ RunFails(s) \/ MarkDone(s)
        PROVE  [V!Next]_V!vars
    <2>1. Db(s) \in Databases
      BY <1>2, <1>9 DEF Mark, RunMigration, RunFails, MarkDone, Locked
    <2>2. QED
      BY <1>5, <1>6, <1>7, <1>8, <1>9, <2>1 DEF V!Next
  <1>10. CASE UNCHANGED <<table, content>>
    BY <1>10 DEF V!vars
  <1>11. QED
    BY <1>9, <1>10
       DEF MigrateNext, CallStep, Open, SessionLost, Discard, Migrate, TakeResult, Acquire,
           LockTimeout, Check, SetVersionFails, Unlock, UnlockFails, MigrateCrash, migrateVars,
           dbVars

\* Whoever migrates, and whatever fails, a database goes through one migration
\* at a time, each once, in the order of the source and on its own base.
THEOREM MigrateIsVersioned == MigrateSpec => ImplementsVersioned
  <1>1. MigrateInit => V!Init
    BY DEF MigrateInit, V!Init, Nil, V!Nil
  <1>2. MigrateIInv /\ CallAims /\ [MigrateNext]_migrateVars => [V!Next]_V!vars
    BY VersionedStep
  <1>3. QED
    BY <1>1, <1>2, MigrateInvariant, CallsAim, PTL
       DEF MigrateSpec, ImplementsVersioned, V!Spec
=============================================================================
