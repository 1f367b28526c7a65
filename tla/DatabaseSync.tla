---------------------------- MODULE DatabaseSync -----------------------------
(***************************************************************************)
(* The Database reconciler (databaseResource.go) with the SyncDatabase of  *)
(* the PostgreSQL and MySQL plugins: the API server's objects, the caches  *)
(* that trail them, the users who edit them, the secrets with passwords,   *)
(* one SQL server with its databases and accounts, and the workers that    *)
(* run syncDatabase.  Every SQL statement, creation and final status write *)
(* is a step of its own that interleaves with all the others.              *)
(*                                                                         *)
(* An object from the lister is a pointer into the cache: the passwords    *)
(* that a sync writes to it are there for the syncs that follow, until a   *)
(* watch event replaces the object.  The queue is the one of KeyedWork.    *)
(***************************************************************************)
EXTENDS Naturals, Sequences, FiniteSets

CONSTANTS NoObj,        \* no such object, account or source
          Databases,    \* names of Database objects, all on one SQL server
          Accounts,     \* names of users of the SQL server
          Sources,      \* secrets and config maps with passwords
          Passwords,
          Specs,        \* the specs that users give
          ServerPlugin, \* what ActivePlugin makes of the server: a plugin, "none"
                        \* (nil) or "other" (its DatabasePlugin is nil)
          Unready,      \* what may keep the DSN from being found at first
          MaxWorkers,   \* database workers (2 in main.go)
          MaxEvents     \* bound: what users do, failed statements and calls,
                        \* and crashes, all together

\* A user of a spec; from names the source of its password.
Users == [name : Accounts, role : {"admin", "read", "other"},
          password : Passwords \cup {""}, from : Sources \cup {NoObj}]
\* server: whether spec.server is given.  dsn: what spec.dsn or spec.dsnFrom say;
\* a bare DSN does not have a user, a host and a port.  listed: whether
\* spec.users is given: an empty list is not nil.
SpecType == [server : BOOLEAN, dsn : {"none", "bare", "whole"},
             type : {"", "postgres", "mysql", "other"},
             listed : BOOLEAN, users : Seq(Users)]

\* What a source holds: a password, nothing ("absent", NotFound), or not the
\* key that is asked for ("keyless", another error).
Contents == Passwords \cup {"absent", "keyless"}

ASSUME DatabaseSyncAssumption ==
    /\ Specs \subseteq SpecType
    /\ \A sp \in Specs : sp.users # <<>> => sp.listed
    /\ ServerPlugin \in {"postgres", "mysql", "other", "none"}
    /\ Unready \subseteq {"no server", "no secret", "bad secret"}
    /\ Passwords \cap {"", "absent", "keyless", "super"} = {}
    /\ MaxWorkers \in Nat \ {0} /\ MaxEvents \in Nat

VARIABLES
    obj,         \* obj[k]: the Database in the API server
    news,        \* news[k]: its watch events not yet delivered
    cache,       \* cache[k]: what the lister returns
    born,        \* born[k]: incarnations of k so far, which are the UIDs
    secret,      \* secret[k]: the secret of the name k in the API server
    secretNews, secretCache,
    source,      \* source[f]: what the secret or config map f holds
    inputs,      \* inputs[k]: "ready", or why the DSN of k cannot be found
    exists,      \* the databases of the SQL server
    account,     \* account[u]: role and password of its user u
    pending,     \* the queue
    step,        \* step[k]: where syncDatabase is for k
    at,          \* at[k]: the user that SyncDatabase has come to
    snap,        \* snap[k]: the object that the sync works on
    current,     \* current[k]: it is still the one in the API server
    known,       \* known[k]: the accounts that checkUsers has read
    fresh,       \* fresh[k]: this sync has created the database
    verdict,     \* verdict[k]: the state about to be written
    asked,       \* history: the spec users want k to have, NoObj if deleted
    seen,        \* history: the roles and passwords of snap[k]'s users that
                 \* were those of the accounts at some moment of this sync
    events

apiVars    == <<obj, news, born, asked>>
secretVars == <<secret, secretNews>>
envVars    == <<source, inputs>>
sqlVars    == <<exists, account>>
queueVars  == <<cache, secretCache, pending>>
walkVars   == <<at, known, fresh>>
syncVars   == <<step, snap, current, verdict, walkVars>>
vars == <<apiVars, secretVars, envVars, sqlVars, queueVars, syncVars, seen, events>>

States == {"", "Pending", "Success", "Error"}
Uids == 1..(MaxEvents + 1)
Objects == [uid : Uids, spec : SpecType, state : States]
\* A secret: the UID of its controller (Foreign: none) and what its DSN says.
Foreign == 0
Secrets == [owner : Uids \cup {Foreign}, user : Accounts \cup {NoObj},
            password : Passwords \cup {"", "super"}, host : {"server", "nowhere"}]
Roles == {"admin", "read"}
AccountType == [role : Roles, password : Passwords \cup {""}]
ASSUME NoObjAssumption ==
    NoObj \notin Objects \cup Secrets \cup AccountType \cup Accounts \cup Sources \cup SpecType

SqlSteps == {"create", "list", "user", "password"}
Steps == {"idle", "secret", "report"} \cup SqlSteps
Busy == {k \in Databases : step[k] # "idle"}

UsersOf(k) == snap[k].spec.users

Init ==
    /\ asked \in [Databases -> Specs]
    /\ born = [k \in Databases |-> 1]
    /\ obj = [k \in Databases |-> [uid |-> 1, spec |-> asked[k], state |-> ""]]
    /\ cache = obj /\ news = [k \in Databases |-> <<>>]
    /\ secret = [k \in Databases |-> NoObj]
    /\ secretCache = secret /\ secretNews = [k \in Databases |-> <<>>]
    /\ source \in [Sources -> Contents]
    /\ inputs \in [Databases -> Unready \cup {"ready"}]
    /\ exists = {} /\ account = [u \in Accounts |-> NoObj]
    /\ pending = Databases
    /\ seen = [k \in Databases |-> {}]
    /\ step = [k \in Databases |-> "idle"] /\ verdict = [k \in Databases |-> ""]
    /\ snap = secret
    /\ current = [k \in Databases |-> FALSE] /\ fresh = current
    /\ at = born /\ known = seen
    /\ events = 0
-----------------------------------------------------------------------------
Happens == events < MaxEvents /\ events' = events + 1

\* The API server stores o as the object of k, and s as its secret.
Store(k, o) == obj' = [obj EXCEPT ![k] = o] /\ news' = [news EXCEPT ![k] = Append(@, o)]
StoreSecret(k, s) ==
    /\ secret' = [secret EXCEPT ![k] = s]
    /\ secretNews' = [secretNews EXCEPT ![k] = Append(@, s)]

\* Users edit, delete and create Databases (kubectl apply keeps the status);
\* what they have deleted they may create again within the bound...
Edit(k) ==
    /\ current' = [current EXCEPT ![k] = FALSE]
    /\ \/ /\ obj[k] # NoObj /\ Happens
          /\ \E sp \in Specs \ {asked[k]} :
                Store(k, [obj[k] EXCEPT !.spec = sp]) /\ asked' = [asked EXCEPT ![k] = sp]
          /\ UNCHANGED born
       \/ /\ obj[k] # NoObj /\ Happens
          /\ Store(k, NoObj) /\ asked' = [asked EXCEPT ![k] = NoObj]
          /\ UNCHANGED born
       \/ /\ obj[k] = NoObj
          /\ born' = [born EXCEPT ![k] = @ + 1]
          /\ \E sp \in Specs :
                /\ Store(k, [uid |-> born[k] + 1, spec |-> sp, state |-> ""])
                /\ asked' = [asked EXCEPT ![k] = sp]
          /\ UNCHANGED events
    /\ UNCHANGED <<secretVars, envVars, sqlVars, queueVars, step, snap, verdict, walkVars>>

\* ...and secrets: those with passwords, and those of the name of a Database.
Rotate(f) ==
    /\ Happens
    /\ \E c \in Contents \ {source[f]} : source' = [source EXCEPT ![f] = c]
    /\ UNCHANGED <<apiVars, secretVars, inputs, sqlVars, queueVars, syncVars>>

ForeignSecret == [owner |-> Foreign, user |-> NoObj, password |-> "", host |-> "nowhere"]

UserSecret(k) ==
    /\ Happens
    /\ StoreSecret(k, IF secret[k] = NoObj THEN ForeignSecret ELSE NoObj)
    /\ UNCHANGED <<apiVars, envVars, sqlVars, queueVars, syncVars>>

\* What is missing comes: the server's secret through the DatabaseServer
\* controller, the others through the user.  Nothing enqueues the Database.
SourceArrives(f) ==
    /\ source[f] \notin Passwords
    /\ \E p \in Passwords : source' = [source EXCEPT ![f] = p]
    /\ UNCHANGED <<apiVars, secretVars, inputs, sqlVars, queueVars, syncVars, events>>

InputsArrive(k) ==
    /\ inputs[k] # "ready"
    /\ inputs' = [inputs EXCEPT ![k] = "ready"]
    /\ UNCHANGED <<apiVars, secretVars, source, sqlVars, queueVars, syncVars, events>>
-----------------------------------------------------------------------------
\* The informer puts a new object into the cache; its handlers enqueue added
\* and updated objects, not deleted ones.
Deliver(k) ==
    /\ news[k] # <<>>
    /\ cache' = [cache EXCEPT ![k] = Head(news[k])]
    /\ news' = [news EXCEPT ![k] = Tail(@)]
    /\ pending' = IF cache'[k] = NoObj THEN pending ELSE pending \cup {k}
    /\ UNCHANGED <<obj, born, asked, secretVars, secretCache, envVars, sqlVars, syncVars, events>>

\* handleObject ignores the secret, whose owner reference has the kind Secret.
DeliverSecret(k) ==
    /\ secretNews[k] # <<>>
    /\ secretCache' = [secretCache EXCEPT ![k] = Head(secretNews[k])]
    /\ secretNews' = [secretNews EXCEPT ![k] = Tail(@)]
    /\ UNCHANGED <<apiVars, secret, envVars, sqlVars, cache, pending, syncVars, events>>

\* The periodic resync enqueues every cached object, and replaces none.
Resync(k) ==
    /\ cache[k] # NoObj
    /\ k \notin pending
    /\ pending' = pending \cup {k}
    /\ UNCHANGED <<apiVars, secretVars, envVars, sqlVars, cache, secretCache, syncVars, events>>
-----------------------------------------------------------------------------
\* The process is started (again): the informers list everything.
Restart ==
    /\ cache' = obj' /\ news' = [k \in Databases |-> <<>>]
    /\ secretCache' = secret /\ secretNews' = [k \in Databases |-> <<>>]
    /\ pending' = {k \in Databases : obj'[k] # NoObj}
    /\ step' = [k \in Databases |-> "idle"] /\ verdict' = [k \in Databases |-> ""]
    /\ snap' = [k \in Databases |-> NoObj]
    /\ current' = [k \in Databases |-> FALSE] /\ fresh' = current'
    /\ at' = [k \in Databases |-> 1] /\ known' = [k \in Databases |-> {}]
    /\ UNCHANGED <<born, asked, secret, envVars, sqlVars>>

GoTo(k, s) == step' = [step EXCEPT ![k] = s]

\* Mutant of Conclude: the reason of an event is taken for a state.
ConcludeSynced(k, state) ==
    /\ GoTo(k, "report")
    /\ verdict' = [verdict EXCEPT ![k] = IF state = "Success" THEN "Synced" ELSE state]

Conclude(k, state) == GoTo(k, "report") /\ verdict' = [verdict EXCEPT ![k] = state]

Plugin(sp) == IF sp.type # "" THEN sp.type ELSE ServerPlugin

\* What can be wrong before the DSN is looked for, in this order (:54-89), and
\* what is dereferenced without a check (:81, :110).
ServerMissing(k) == cache[k].spec.server /\ inputs[k] = "no server"
NoPlugin(sp) == (~sp.server /\ sp.type = "") \/ Plugin(sp) = "other"
NilServer(sp) == Plugin(sp) = "none" \/ (~sp.server /\ sp.dsn = "none")
HasDsn(k) ==
    /\ ~ServerMissing(k) /\ ~NoPlugin(cache[k].spec) /\ ~NilServer(cache[k].spec)
    /\ inputs[k] \notin {"no secret", "bad secret"}

\* The states that an object without a DSN is given (:59-124).
NoDsn(k) ==
    CASE ServerMissing(k)                                 -> {"Pending"}
      [] ~ServerMissing(k) /\ NoPlugin(cache[k].spec)     -> {"Error"}
      [] OTHER -> IF inputs[k] = "no secret" THEN {"Pending"} ELSE {"Error"}

Lacking(users) == {i \in 1..Len(users) : users[i].from # NoObj /\ source[users[i].from] = "absent"}

\* Mutant of Filled: a password that is known is kept.
FilledOnce(users) ==
    [i \in 1..Len(users) |->
        IF users[i].from = NoObj \/ users[i].password # "" \/ \E j \in Lacking(users) : j <= i
        THEN users[i]
        ELSE [users[i] EXCEPT !.password =
                 IF source[users[i].from] = "keyless" THEN "" ELSE source[users[i].from]]]

\* The passwords from sources, up to the first source that is not there; an
\* empty one where the source cannot be used (:127-139).
Filled(users) ==
    [i \in 1..Len(users) |->
        IF users[i].from = NoObj \/ \E j \in Lacking(users) : j <= i THEN users[i]
        ELSE [users[i] EXCEPT !.password =
                 IF source[users[i].from] = "keyless" THEN "" ELSE source[users[i].from]]]

\* A worker takes k (KeyedWork), and a new object is Pending first (:47-49).
Take(k) ==
    /\ k \in pending /\ step[k] = "idle"
    /\ Cardinality(Busy) < MaxWorkers

Greet(k) ==
    /\ IF cache[k].state = "" /\ news[k] = <<>>
       THEN Store(k, [cache[k] EXCEPT !.state = "Pending"])
       ELSE UNCHANGED <<obj, news>>
    /\ UNCHANGED <<born, asked>>

\* The copy that the sync works on is the cached object, and so is filled o.
Begin(k, o) ==
    /\ pending' = pending \ {k}
    /\ Greet(k)
    /\ cache' = [cache EXCEPT ![k] = o]
    /\ snap' = [snap EXCEPT ![k] = o]
    /\ current' = [current EXCEPT ![k] = (news'[k] = <<>>)]
    /\ UNCHANGED <<secretVars, secretCache, envVars, sqlVars, events>>

StartGone(k) ==
    /\ Take(k) /\ cache[k] = NoObj
    /\ pending' = pending \ {k}
    /\ UNCHANGED <<apiVars, secretVars, envVars, sqlVars, cache, secretCache, syncVars, events>>

\* No DSN, or no password.
StartInVain(k) ==
    /\ Take(k) /\ cache[k] # NoObj
    /\ LET o == [cache[k] EXCEPT !.spec.users = Filled(@)]
       IN  \/ /\ ~HasDsn(k) /\ (ServerMissing(k) \/ NoPlugin(cache[k].spec) \/ ~NilServer(cache[k].spec))
              /\ Begin(k, cache[k])
              /\ \E state \in NoDsn(k) : Conclude(k, state)
           \/ /\ HasDsn(k) /\ Lacking(cache[k].spec.users) # {}
              /\ Begin(k, o)
              /\ Conclude(k, "Pending")
    /\ UNCHANGED walkVars

\* SyncDatabase looks for the database and finds its users, or goes on to
\* create it; MySQL's statement does both.  Only the sync of k creates k.
StartSync(k) ==
    /\ Take(k) /\ cache[k] # NoObj
    /\ HasDsn(k) /\ Lacking(cache[k].spec.users) = {}
    /\ Begin(k, [cache[k] EXCEPT !.spec.users = Filled(@)])
    /\ GoTo(k, IF Plugin(cache[k].spec) = "mysql" \/ k \notin exists THEN "create" ELSE "list")
    /\ UNCHANGED <<verdict, walkVars>>

\* A nil pointer is dereferenced: nobody recovers from it.
StartPanics(k) ==
    /\ Take(k) /\ cache[k] # NoObj
    /\ ~ServerMissing(k) /\ ~NoPlugin(cache[k].spec) /\ NilServer(cache[k].spec)
    /\ \E o \in {obj[k], [cache[k] EXCEPT !.state = "Pending"]} :
          /\ o # obj[k] => cache[k].state = "" /\ news[k] = <<>>
          /\ obj' = [obj EXCEPT ![k] = o]
    /\ Restart
    /\ UNCHANGED events

Start(k) == StartGone(k) \/ StartInVain(k) \/ StartSync(k) \/ StartPanics(k)
-----------------------------------------------------------------------------
\* Mutant of WriteStatus: the resource version is not compared.
WriteStatusBlindly(k, state) ==
    LET o == [snap[k] EXCEPT !.state = state]
    IN  IF obj[k] # o THEN Store(k, o) ELSE UNCHANGED <<obj, news>>

\* updateDatabaseStatus: an Update with a copy of the whole object, passwords
\* included.  A conflict is logged and ignored.  The same Pending or Error
\* again is a change if its message is another one; that of Success never is.
WriteStatus(k, state) ==
    LET o == [snap[k] EXCEPT !.state = state]
    IN  \/ /\ current[k]
           /\ state = "Success" => obj[k] # o
           /\ Store(k, o)
        \/ /\ current[k] => obj[k] = o
           /\ UNCHANGED <<obj, news>>
-----------------------------------------------------------------------------
\* SyncDatabase of the plugins: one SQL statement per step.
User(k) == UsersOf(k)[at[k]]
Unknown(k) == fresh[k] \/ User(k).name \notin known[k]

\* Whether the statement that k has come to is one the server accepts: an
\* account that is there already, or a role that is none, is an error.
Valid(k) ==
    step[k] = "user" => /\ User(k).role \in Roles
                        /\ Unknown(k) => account[User(k).name] = NoObj

\* Mutant of Effect: a known user keeps the password it has.
EffectOfRole(k) ==
    /\ exists' = IF step[k] = "create" THEN exists \cup {k} ELSE exists
    /\ account' = IF step[k] = "user"
                  THEN [account EXCEPT ![User(k).name] =
                           [role |-> User(k).role,
                            password |-> IF Unknown(k) THEN User(k).password ELSE @.password]]
                  ELSE account

\* What it changes in the server: CREATE DATABASE, CREATE USER with role and
\* password, ALTER USER with the role, and again with the password.
Effect(k) ==
    /\ exists' = IF step[k] = "create" THEN exists \cup {k} ELSE exists
    /\ account' =
          CASE step[k] = "user" ->
                  [account EXCEPT ![User(k).name] =
                      [role |-> User(k).role,
                       password |-> IF Unknown(k) THEN User(k).password ELSE @.password]]
            [] step[k] = "password" -> [account EXCEPT ![User(k).name].password = User(k).password]
            [] OTHER -> account

\* Past the last user, or where there are none (MySQL), the secret is next.
Continue(k) ==
    LET alter == step[k] = "user" /\ ~Unknown(k)
        last  == \/ Plugin(snap[k].spec) = "mysql"
                 \/ step[k] \in {"create", "list"} /\ UsersOf(k) = <<>>
                 \/ step[k] \in {"user", "password"} /\ at[k] = Len(UsersOf(k)) /\ ~alter
    IN  /\ GoTo(k, IF alter THEN "password" ELSE IF last THEN "secret" ELSE "user")
        /\ at' = [at EXCEPT ![k] = IF last \/ step[k] \in {"create", "list"} THEN 1
                                   ELSE IF alter THEN @ ELSE @ + 1]
        /\ known' = [known EXCEPT ![k] =
                        IF last THEN {}
                        ELSE IF step[k] = "list" THEN {u \in Accounts : account[u] # NoObj}
                        ELSE @]
        /\ fresh' = [fresh EXCEPT ![k] = @ \/ step[k] = "create"]

Leave(k) ==
    /\ at' = [at EXCEPT ![k] = 1] /\ known' = [known EXCEPT ![k] = {}]
    /\ fresh' = [fresh EXCEPT ![k] = FALSE]

SqlStep(k) ==
    /\ step[k] \in SqlSteps /\ Valid(k)
    /\ Effect(k)
    /\ Continue(k)
    /\ UNCHANGED <<apiVars, secretVars, envVars, queueVars, snap, current, verdict, events>>

SqlRefused(k) ==
    /\ step[k] \in SqlSteps /\ ~Valid(k)
    /\ Conclude(k, "Error") /\ Leave(k)
    /\ UNCHANGED <<apiVars, secretVars, envVars, sqlVars, queueVars, snap, current, events>>

\* Mutant of SqlFails: the error is dropped.
SqlFailsUnseen(k) ==
    /\ Happens
    /\ step[k] \in SqlSteps /\ Valid(k)
    /\ Effect(k) \/ UNCHANGED sqlVars
    /\ Continue(k)
    /\ UNCHANGED <<apiVars, secretVars, envVars, queueVars, snap, current, verdict>>

\* The connection is lost, before the statement or after it.
SqlFails(k) ==
    /\ Happens
    /\ step[k] \in SqlSteps /\ Valid(k)
    /\ Effect(k) \/ UNCHANGED sqlVars
    /\ Conclude(k, "Error") /\ Leave(k)
    /\ UNCHANGED <<apiVars, secretVars, envVars, queueVars, snap, current>>
-----------------------------------------------------------------------------
\* syncDatabaseSecret, with the event of :148-151 before it.
Admins(users) == {i \in 1..Len(users) : users[i].role = "admin"}
FirstAdmin(users) == users[CHOOSE i \in Admins(users) : \A j \in Admins(users) : i <= j]

\* getHostAndPort takes the text after "@" and after ":" of whatever is given.
HasHostAndPort(sp) == sp.server \/ sp.dsn = "whole"

\* The event names the server, :217 looks at a secret that was neither found
\* nor created, also for an empty list of users, and getHostAndPort runs out of
\* range.
EndsInPanic(k) ==
    \/ fresh[k] /\ ~snap[k].spec.server
    \/ /\ snap[k].spec.listed /\ secretCache[k] = NoObj
       /\ Admins(UsersOf(k)) = {} \/ ~HasHostAndPort(snap[k].spec)

\* The DSN for the first admin.  PostgreSQL's takes the superuser's password
\* for an empty one, and both the name of the server for the host: there is
\* none when only a DSN is given.
Dsn(o) ==
    LET u == FirstAdmin(o.spec.users)
    IN  [owner |-> o.uid, user |-> u.name,
         password |-> IF u.password = "" /\ o.spec.server /\ Plugin(o.spec) = "postgres"
                      THEN "super" ELSE u.password,
         host |-> IF o.spec.server THEN "server" ELSE "nowhere"]

\* Users == nil, or a secret of the lister that belongs to this Database or not.
FindSecret(k) ==
    /\ step[k] = "secret" /\ ~EndsInPanic(k)
    /\ ~snap[k].spec.listed \/ secretCache[k] # NoObj
    /\ Conclude(k, IF ~snap[k].spec.listed \/ secretCache[k].owner = snap[k].uid
                   THEN "Success" ELSE "Error")
    /\ Leave(k)
    /\ UNCHANGED <<apiVars, secretVars, envVars, sqlVars, queueVars, snap, current, events>>

CreateSecret(k) ==
    /\ step[k] = "secret" /\ ~EndsInPanic(k)
    /\ snap[k].spec.listed /\ secretCache[k] = NoObj /\ secret[k] = NoObj
    /\ StoreSecret(k, Dsn(snap[k]))
    /\ Conclude(k, "Success") /\ Leave(k)
    /\ UNCHANGED <<apiVars, envVars, sqlVars, queueVars, snap, current, events>>

\* Create fails, because the lister is behind or otherwise: Error is written
\* here and again by syncDatabase (:204-208, :153-158).
CreateFails(k) ==
    /\ step[k] = "secret" /\ ~EndsInPanic(k)
    /\ snap[k].spec.listed /\ secretCache[k] = NoObj
    /\ \/ secret[k] # NoObj /\ UNCHANGED events
       \/ secret[k] = NoObj /\ Happens
    /\ WriteStatus(k, "Error")
    /\ current' = [current EXCEPT ![k] = @ /\ news' = news]
    /\ Conclude(k, "Error") /\ Leave(k)
    /\ UNCHANGED <<born, asked, secretVars, envVars, sqlVars, queueVars, snap>>

SecretPanics(k) ==
    /\ step[k] = "secret" /\ EndsInPanic(k)
    /\ UNCHANGED <<obj, events>>
    /\ Restart

\* The last status write; the worker calls Done whether it succeeds or not.
Report(k) ==
    /\ step[k] = "report"
    /\ WriteStatus(k, verdict[k])
    /\ GoTo(k, "idle")
    /\ snap' = [snap EXCEPT ![k] = NoObj]
    /\ current' = [current EXCEPT ![k] = FALSE]
    /\ verdict' = [verdict EXCEPT ![k] = ""]
    /\ UNCHANGED <<born, asked, secretVars, envVars, sqlVars, queueVars, walkVars, events>>

Crash == Happens /\ UNCHANGED obj /\ Restart

SyncStep(k) ==
    \/ SqlStep(k) \/ SqlRefused(k)
    \/ FindSecret(k) \/ CreateSecret(k) \/ CreateFails(k) \/ SecretPanics(k)
    \/ Report(k)

\* What the accounts are, for those who look back.
Matches(k) ==
    {p \in (1..Len(UsersOf(k))) \X {"role", "password"} :
        LET u == UsersOf(k)[p[1]]
        IN  account[u.name] # NoObj /\ account[u.name][p[2]] = u[p[2]]}

Looks(k) == step[k] \in SqlSteps \cup {"secret"} \/ verdict[k] = "Success"

Witness ==
    seen' = [k \in Databases |-> IF Looks(k)' THEN seen[k] \cup Matches(k)' ELSE {}]

Next ==
    /\ \/ \E k \in Databases :
             \/ Edit(k) \/ UserSecret(k) \/ InputsArrive(k)
             \/ Deliver(k) \/ DeliverSecret(k) \/ Resync(k)
             \/ Start(k) \/ SyncStep(k) \/ SqlFails(k)
       \/ \E f \in Sources : Rotate(f) \/ SourceArrives(f)
       \/ Crash
    /\ Witness

Spec == Init /\ [][Next]_vars

\* As for SchemaSync: workers and statements make progress, events arrive, the
\* informer resyncs, missing inputs come, and the queue is served in turn.
Fairness ==
    /\ \A k \in Databases :
          /\ WF_vars(Deliver(k) /\ Witness) /\ WF_vars(DeliverSecret(k) /\ Witness)
          /\ WF_vars(Resync(k) /\ Witness) /\ WF_vars(InputsArrive(k) /\ Witness)
          /\ SF_vars(Start(k) /\ Witness) /\ WF_vars(SyncStep(k) /\ Witness)
    /\ \A f \in Sources : WF_vars(SourceArrives(f) /\ Witness)

FairSpec == Spec /\ Fairness
-----------------------------------------------------------------------------
\* Every variable has the values that the code can give it.
DatabaseTypeOK ==
    /\ obj \in [Databases -> Objects \cup {NoObj}]
    /\ news \in [Databases -> Seq(Objects \cup {NoObj})]
    /\ cache \in [Databases -> Objects \cup {NoObj}]
    /\ born \in [Databases -> Uids]
    /\ secret \in [Databases -> Secrets \cup {NoObj}]
    /\ secretNews \in [Databases -> Seq(Secrets \cup {NoObj})]
    /\ secretCache \in [Databases -> Secrets \cup {NoObj}]
    /\ source \in [Sources -> Contents]
    /\ inputs \in [Databases -> Unready \cup {"ready"}]
    /\ exists \subseteq Databases
    /\ account \in [Accounts -> AccountType \cup {NoObj}]
    /\ pending \subseteq Databases
    /\ step \in [Databases -> Steps]
    /\ at \in [Databases -> Nat]
    /\ snap \in [Databases -> Objects \cup {NoObj}]
    /\ current \in [Databases -> BOOLEAN]
    /\ fresh \in [Databases -> BOOLEAN]
    /\ known \in [Databases -> SUBSET Accounts]
    /\ verdict \in [Databases -> States]
    /\ asked \in [Databases -> Specs \cup {NoObj}]
    /\ events \in 0..MaxEvents

\* A status Update carries the whole object: it must not bring back a spec that
\* users have replaced since, whatever the caches and the retries do - apart
\* from the passwords, which the sync writes over those of the user.
Unfilled(users) ==
    [i \in 1..Len(users) |-> IF users[i].from = NoObj THEN users[i]
                             ELSE [users[i] EXCEPT !.password = ""]]
SameButPasswords(s, t) ==
    [s EXCEPT !.users = Unfilled(@)] = [t EXCEPT !.users = Unfilled(@)]
SpecIsTheUsersButPasswords ==
    \A k \in Databases :
        IF obj[k] = NoObj THEN asked[k] = NoObj
        ELSE asked[k] # NoObj /\ SameButPasswords(obj[k].spec, asked[k])

\* When a sync reports Success, it has found or created the database and has
\* seen every user's account with the role, and with the password, that the
\* spec says - each at some moment of this very sync, whatever other Databases
\* with the same users, lost connections and crashes did in between.
SuccessWasSo ==
    \A k \in Databases :
        step[k] = "report" /\ verdict[k] = "Success" =>
            /\ k \in exists
            /\ Plugin(snap[k].spec) = "postgres" =>
                  (1..Len(UsersOf(k))) \X {"role", "password"} \subseteq seen[k]

\* The same of the secret: when it is made, the account that its DSN names has
\* been seen with the role and the password of the spec, in this very sync.
SecretWasSo ==
    [][\A k \in Databases :
          /\ secret'[k] # secret[k]
          /\ secret'[k] # NoObj /\ secret'[k].owner # Foreign
          /\ Plugin(snap[k].spec) = "postgres"
          => \E i \in 1..Len(UsersOf(k)) :
                /\ UsersOf(k)[i].name = secret'[k].user
                /\ {i} \X {"role", "password"} \subseteq seen[k]]_vars

\* What others wait for is there only after the database is: its secret, which
\* the DatabaseSchemas use, and the state Success - also of former incarnations
\* and of specs edited since, through lost writes, crashes and retries.
DatabaseComesFirst ==
    \A k \in Databases :
        \/ obj[k] # NoObj /\ obj[k].state = "Success"
        \/ secret[k] # NoObj /\ secret[k].owner # Foreign
        => k \in exists

\* All of it step by step, as users may rely on it: a Success that is written is
\* about the spec that is written with it, the passwords included, and was seen in
\* the sync that writes it; whatever else a step does to an object, users did.
SeenBySync ==
    [k \in Databases |->
        {<<UsersOf(k)[p[1]].name, p[2], UsersOf(k)[p[1]][p[2]]>> : p \in seen[k]}]
D == INSTANCE DatabasePromise WITH seen <- SeenBySync
ImplementsDatabasePromise == D!Spec

\* The excuses: what keeps a Database from ever being synced.
CrashLoops(sp) ==
    \/ NilServer(sp)
    \/ Plugin(sp) = "mysql" /\ ~sp.server
    \/ sp.listed /\ (Admins(sp.users) = {} \/ ~HasHostAndPort(sp))
Refused(sp) ==
    NoPlugin(sp) \/ \E i \in 1..Len(sp.users) : sp.users[i].role \notin Roles
Blocked(k) == secret[k] # NoObj /\ secret[k].owner # obj[k].uid
Names(sp) == {sp.users[i].name : i \in 1..Len(sp.users)}
Contested(k) ==
    \/ Cardinality(Names(obj[k].spec)) # Len(obj[k].spec.users)
    \/ \E j \in Databases \ {k} :
          obj[j] # NoObj /\ Names(obj[j].spec) \cap Names(obj[k].spec) # {}

IsAsked(u) ==
    /\ account[u.name] # NoObj
    /\ account[u.name].role = u.role
    /\ account[u.name].password = IF u.from = NoObj THEN u.password ELSE source[u.from]

Settled(k) ==
    \/ obj[k] = NoObj
    \/ /\ obj[k].state = "Success"
       /\ k \in exists
       /\ LET users == obj[k].spec.users
          IN  /\ obj[k].spec.listed => secret[k] # NoObj
              /\ Plugin(obj[k].spec) = "postgres" =>
                    \A i \in 1..Len(users) : IsAsked(users[i])
    \/ Refused(obj[k].spec) \/ Blocked(k) \/ Contested(k)
    \/ \E j \in Databases : obj[j] # NoObj /\ CrashLoops(obj[j].spec)

\* Once users and faults are quiet, every Database that the controller can sync
\* says Success and stays so, and its accounts have the roles and the passwords
\* asked for - whatever was left half done, by the process or by the server,
\* came late or was rotated in a secret.
DatabaseConverges == \A k \in Databases : <>[]Settled(k)

\* README.md:184-185 "This resource will also create a `Secret` with the DSN to
\* connect as admin-user to the database": its DSN leads to the server.
SecretConnects ==
    \A k \in Databases :
        secret[k] # NoObj /\ secret[k].owner # Foreign =>
            secret[k].host = "server" /\ account[secret[k].user] # NoObj
=============================================================================
