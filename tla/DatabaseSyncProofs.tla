------------------------- MODULE DatabaseSyncProofs -------------------------
(***************************************************************************)
(* The safety of DatabaseSync for all sets of Databases, accounts, sources *)
(* and passwords, every number of workers and of events: status writes     *)
(* leave the spec to the users, but for passwords; Success and the secret  *)
(* tell what the sync has seen; the database comes before both.            *)
(***************************************************************************)
EXTENDS DatabaseSync, TLAPS, SequenceTheorems, WellFoundedInduction

Value == Objects \cup {NoObj}

LEMMA ObjectFields ==
    ASSUME NEW o \in Objects
    PROVE  /\ o \in Value /\ o # NoObj
           /\ o.uid \in Uids /\ o.spec \in SpecType /\ o.state \in States
           /\ o.spec.users \in Seq(Users)
  BY NoObjAssumption DEF Value, Objects, SpecType

LEMMA ObjectState ==
    ASSUME NEW o \in Objects, NEW st \in States
    PROVE  /\ [o EXCEPT !.state = st] \in Objects
           /\ [o EXCEPT !.state = st].spec = o.spec
           /\ [o EXCEPT !.state = st].state = st
           /\ [o EXCEPT !.state = st].uid = o.uid
  BY DEF Objects

LEMMA ObjectSpec ==
    ASSUME NEW o \in Objects, NEW sp \in SpecType
    PROVE  /\ [o EXCEPT !.spec = sp] \in Objects
           /\ [o EXCEPT !.spec = sp].spec = sp
           /\ [o EXCEPT !.spec = sp].state = o.state
  BY DEF Objects

\* What a sync writes into the copy is a list of users of the same length,
\* that differs in passwords only.
LEMMA FilledUsers ==
    ASSUME NEW users \in Seq(Users), source \in [Sources -> Contents]
    PROVE  /\ Filled(users) \in Seq(Users)
           /\ Len(Filled(users)) = Len(users)
           /\ Unfilled(Filled(users)) = Unfilled(users)
  <1>1. Len(users) \in Nat /\ \A i \in 1..Len(users) : users[i] \in Users
    OBVIOUS
  <1>2. ASSUME NEW i \in 1..Len(users), users[i].from # NoObj,
               ~\E j \in Lacking(users) : j <= i
        PROVE  [users[i] EXCEPT !.password =
                   IF source[users[i].from] = "keyless" THEN "" ELSE source[users[i].from]]
                   \in Users
    <2>1. users[i].from \in Sources
      BY <1>1, <1>2 DEF Users
    <2>2. i \notin Lacking(users)
      BY <1>2
    <2>3. source[users[i].from] \in Passwords \cup {"keyless"}
      BY <1>2, <2>1, <2>2 DEF Lacking, Contents
    <2>4. QED
      BY <1>1, <2>3 DEF Users
  <1>3. \A i \in 1..Len(users) : Filled(users)[i] \in Users
    BY <1>1, <1>2 DEF Filled
  <1>4. Filled(users) = [i \in 1..Len(users) |-> Filled(users)[i]]
    BY DEF Filled
  <1>5. Filled(users) \in Seq(Users) /\ Len(Filled(users)) = Len(users)
    <2>1. Filled(users) \in [1..Len(users) -> Users]
      BY <1>3, <1>4
    <2>2. QED
      BY <1>1, <2>1
  <1>6. \A i \in 1..Len(users) :
            IF users[i].from = NoObj THEN Filled(users)[i] = users[i]
            ELSE /\ Filled(users)[i].from # NoObj
                 /\ [Filled(users)[i] EXCEPT !.password = ""]
                      = [users[i] EXCEPT !.password = ""]
    BY <1>1 DEF Filled, Users
  <1>7. Unfilled(Filled(users)) = Unfilled(users)
    BY <1>5, <1>6 DEF Unfilled
  <1>8. QED
    BY <1>5, <1>7

\* The object that a sync works on: the cached one, with passwords filled in.
FilledObject(o) == [o EXCEPT !.spec.users = Filled(@)]

LEMMA FilledFields ==
    ASSUME NEW o \in Objects, source \in [Sources -> Contents]
    PROVE  /\ FilledObject(o) \in Objects
           /\ FilledObject(o).state = o.state
           /\ Plugin(FilledObject(o).spec) = Plugin(o.spec)
           /\ Len(FilledObject(o).spec.users) = Len(o.spec.users)
           /\ SameButPasswords(FilledObject(o).spec, o.spec)
  <1>1. o.spec.users \in Seq(Users) /\ o.spec \in SpecType
    BY ObjectFields
  <1>2. Filled(o.spec.users) \in Seq(Users)
        /\ Unfilled(Filled(o.spec.users)) = Unfilled(o.spec.users)
        /\ Len(Filled(o.spec.users)) = Len(o.spec.users)
    BY <1>1, FilledUsers
  <1> DEFINE sp == [o.spec EXCEPT !.users = Filled(o.spec.users)]
  <1>3. sp \in SpecType /\ sp.users = Filled(o.spec.users) /\ sp.type = o.spec.type
    BY <1>1, <1>2 DEF SpecType
  <1>4. FilledObject(o) = [o EXCEPT !.spec = sp]
    BY DEF FilledObject, Objects
  <1>5. FilledObject(o) \in Objects /\ FilledObject(o).spec = sp
        /\ FilledObject(o).state = o.state
    BY <1>3, <1>4, ObjectSpec
  <1>6. SameButPasswords(sp, o.spec)
    <2>1. [sp EXCEPT !.users = Unfilled(sp.users)]
            = [o.spec EXCEPT !.users = Unfilled(o.spec.users)]
      BY <1>1, <1>2, <1>3 DEF SpecType
    <2>2. QED
      BY <2>1 DEF SameButPasswords
  <1>7. QED
    BY <1>2, <1>3, <1>5, <1>6 DEF Plugin

\* The least admin of a list that has one.
LEMMA FirstAdminIsOne ==
    ASSUME NEW users \in Seq(Users), Admins(users) # {}
    PROVE  \E i \in 1..Len(users) : FirstAdmin(users) = users[i]
  <1>1. Admins(users) \subseteq Nat /\ Admins(users) \subseteq 1..Len(users)
    BY DEF Admins
  <1> DEFINE Below == {ss \in Nat \X Nat : ss[1] < ss[2]}
  <1>2. OpToRel(<, Nat) = Below
    BY Zenon DEF OpToRel
  <1>3. \E i \in Admins(users) : \A j \in Admins(users) : i <= j
    <2>1. IsWellFoundedOn(Below, Nat)
      BY <1>2, NatLessThanWellFounded, Zenon
    <2>2. \E i \in Admins(users) : \A j \in Admins(users) : ~ (<<j, i>> \in Below)
      <3> HIDE DEF Below
      <3>1. QED
        BY <1>1, <2>1, WFMin, Zenon
    <2>3. PICK i \in Admins(users) : \A j \in Admins(users) : ~ (<<j, i>> \in Below)
      BY <2>2
    <2>4. ASSUME NEW j \in Admins(users) PROVE i <= j
      <3>1. i \in Nat /\ j \in Nat
        BY <1>1
      <3>2. j < i => <<j, i>> \in Below
        BY <3>1
      <3>3. QED
        BY <2>3, <3>1, <3>2
    <2>5. QED
      BY <2>4
  <1>4. QED
    BY <1>1, <1>3 DEF FirstAdmin
-----------------------------------------------------------------------------
\* Where a sync is: it has a copy, the user it has come to is one of the copy,
\* the accounts that it has read are there, and so is the database past create.
InPlace(k) ==
    /\ step[k] # "idle" => snap[k] # NoObj
    /\ verdict[k] = "Success" => step[k] = "report"
    /\ step[k] \in {"user", "password"} => at[k] \in 1..Len(UsersOf(k))
    /\ step[k] \in {"list", "user", "password"} => Plugin(snap[k].spec) # "mysql"
    /\ step[k] = "password" => account[User(k).name] # NoObj
    /\ \A u \in known[k] : account[u] # NoObj
    /\ step[k] \in {"list", "user", "password", "secret"} \/ verdict[k] = "Success"
       => k \in exists
PlaceOK == \A k \in Databases : InPlace(k)

\* A name that is free has been deleted within the bound of events.
UidIsFree(k) == born[k] <= events + 1 /\ (obj[k] = NoObj => born[k] <= events)
UidsOK == \A k \in Databases : UidIsFree(k)

LEMMA CopyFields ==
    ASSUME DatabaseTypeOK, PlaceOK, NEW k \in Databases, step[k] # "idle"
    PROVE  /\ snap[k] \in Objects /\ UsersOf(k) \in Seq(Users)
           /\ step[k] \in {"user", "password"} => User(k) \in Users
  <1>1. snap[k] \in Objects
    BY DEF DatabaseTypeOK, PlaceOK, InPlace
  <1>2. UsersOf(k) \in Seq(Users)
    BY <1>1, ObjectFields DEF UsersOf
  <1>3. step[k] \in {"user", "password"} => at[k] \in 1..Len(UsersOf(k))
    BY DEF PlaceOK, InPlace
  <1>4. QED
    BY <1>1, <1>2, <1>3 DEF User

\* What a statement does to the accounts and the databases.
LEMMA EffectFacts ==
    ASSUME DatabaseTypeOK, PlaceOK, NEW k \in Databases, step[k] \in SqlSteps,
           Valid(k), Effect(k)
    PROVE  /\ account' \in [Accounts -> AccountType \cup {NoObj}]
           /\ \A u \in Accounts : account[u] # NoObj => account'[u] # NoObj
           /\ exists \subseteq exists' /\ exists' \subseteq Databases
           /\ step[k] = "create" => k \in exists'
           /\ step[k] = "user" =>
                 /\ account'[User(k).name] # NoObj
                 /\ account'[User(k).name].role = User(k).role
                 /\ Unknown(k) => account'[User(k).name].password = User(k).password
           /\ step[k] = "password" =>
                 /\ account'[User(k).name] # NoObj
                 /\ account'[User(k).name].role = account[User(k).name].role
                 /\ account'[User(k).name].password = User(k).password
  <1>0. step[k] # "idle"
    BY DEF SqlSteps
  <1>t. account \in [Accounts -> AccountType \cup {NoObj}] /\ NoObj \notin AccountType
    BY NoObjAssumption DEF DatabaseTypeOK
  <1>1. exists \subseteq exists' /\ exists' \subseteq Databases
        /\ (step[k] = "create" => k \in exists')
    BY DEF Effect, DatabaseTypeOK
  <1>2. CASE step[k] = "user"
    <2> DEFINE n == User(k).name
               a == [role |-> User(k).role,
                     password |-> IF Unknown(k) THEN User(k).password
                                  ELSE account[n].password]
    <2>1. User(k) \in Users /\ n \in Accounts /\ User(k).role \in Roles
          /\ User(k).password \in Passwords \cup {""}
      BY <1>0, <1>2, CopyFields DEF Users, Valid
    <2>2. ~Unknown(k) => account[n] \in AccountType
      BY <1>t, <2>1 DEF Unknown, PlaceOK, InPlace
    <2>3. a \in AccountType
      BY <2>1, <2>2 DEF AccountType
    <2>4. account' = [account EXCEPT ![n] = a]
      BY <1>2 DEF Effect
    <2>5. account'[n] = a /\ \A u \in Accounts \ {n} : account'[u] = account[u]
      BY <1>t, <2>1, <2>4
    <2>6. account' \in [Accounts -> AccountType \cup {NoObj}]
      BY <1>t, <2>3, <2>4
    <2>7. \A u \in Accounts : account[u] # NoObj => account'[u] # NoObj
      BY <1>t, <2>3, <2>5
    <2>8. QED
      BY <1>1, <1>2, <1>t, <2>3, <2>5, <2>6, <2>7
  <1>3. CASE step[k] = "password"
    <2> DEFINE n == User(k).name
               a == [account[n] EXCEPT !.password = User(k).password]
    <2>1. n \in Accounts /\ User(k).password \in Passwords \cup {""}
      BY <1>0, <1>3, CopyFields DEF Users
    <2>2. account[n] \in AccountType
      BY <1>3, <1>t, <2>1 DEF PlaceOK, InPlace
    <2>3. a \in AccountType /\ a.role = account[n].role /\ a.password = User(k).password
      BY <2>1, <2>2 DEF AccountType
    <2>4. account' = [account EXCEPT ![n] = a]
      BY <1>3 DEF Effect
    <2>5. account'[n] = a /\ \A u \in Accounts \ {n} : account'[u] = account[u]
      BY <1>t, <2>1, <2>4
    <2>6. account' \in [Accounts -> AccountType \cup {NoObj}]
      BY <1>t, <2>3, <2>4
    <2>7. \A u \in Accounts : account[u] # NoObj => account'[u] # NoObj
      BY <1>t, <2>3, <2>5
    <2>8. QED
      BY <1>1, <1>3, <1>t, <2>3, <2>5, <2>6, <2>7
  <1>4. CASE step[k] \notin {"user", "password"}
    BY <1>1, <1>4, <1>t DEF Effect
  <1>5. QED
    BY <1>2, <1>3, <1>4

\* Where a sync goes after a statement.
LEMMA ContinueFacts ==
    ASSUME DatabaseTypeOK, PlaceOK, NEW k \in Databases, step[k] \in SqlSteps, Continue(k)
    PROVE  /\ step' \in [Databases -> Steps] /\ at' \in [Databases -> Nat]
           /\ known' \in [Databases -> SUBSET Accounts] /\ fresh' \in [Databases -> BOOLEAN]
           /\ step'[k] \in {"user", "password", "secret"}
           /\ step'[k] \in {"user", "password"} => Plugin(snap[k].spec) # "mysql"
           /\ step'[k] = "password" <=> step[k] = "user" /\ ~Unknown(k)
           /\ step'[k] = "password" => at'[k] = at[k]
           /\ step'[k] = "user" => at'[k] \in 1..Len(UsersOf(k))
           /\ step'[k] = "user" => at'[k] = IF step[k] \in {"create", "list"} THEN 1
                                            ELSE at[k] + 1
           /\ step'[k] = "secret" =>
                 \/ Plugin(snap[k].spec) = "mysql"
                 \/ step[k] \in {"create", "list"} /\ UsersOf(k) = <<>>
                 \/ step[k] \in {"user", "password"} /\ at[k] = Len(UsersOf(k))
           /\ \A u \in known'[k] : account[u] # NoObj
           /\ \A j \in Databases \ {k} :
                 /\ step'[j] = step[j] /\ at'[j] = at[j]
                 /\ known'[j] = known[j] /\ fresh'[j] = fresh[j]
  <1>t. /\ step \in [Databases -> Steps] /\ at \in [Databases -> Nat]
        /\ known \in [Databases -> SUBSET Accounts] /\ fresh \in [Databases -> BOOLEAN]
    BY DEF DatabaseTypeOK
  <1> DEFINE alter == step[k] = "user" /\ ~Unknown(k)
             last == \/ Plugin(snap[k].spec) = "mysql"
                     \/ step[k] \in {"create", "list"} /\ UsersOf(k) = <<>>
                     \/ step[k] \in {"user", "password"} /\ at[k] = Len(UsersOf(k)) /\ ~alter
             s == IF alter THEN "password" ELSE IF last THEN "secret" ELSE "user"
             a == IF last \/ step[k] \in {"create", "list"} THEN 1
                  ELSE IF alter THEN at[k] ELSE at[k] + 1
             m == IF last THEN {}
                  ELSE IF step[k] = "list" THEN {u \in Accounts : account[u] # NoObj}
                  ELSE known[k]
             f == fresh[k] \/ step[k] = "create"
  <1>1. /\ step' = [step EXCEPT ![k] = s] /\ at' = [at EXCEPT ![k] = a]
        /\ known' = [known EXCEPT ![k] = m] /\ fresh' = [fresh EXCEPT ![k] = f]
    BY DEF Continue, GoTo
  <1>2. UsersOf(k) \in Seq(Users) /\ (step[k] \in {"user", "password"} =>
                                       at[k] \in 1..Len(UsersOf(k)))
    BY CopyFields DEF SqlSteps, PlaceOK, InPlace
  <1>3. s \in Steps /\ a \in Nat /\ m \in SUBSET Accounts /\ f \in BOOLEAN
    BY <1>t DEF Steps, SqlSteps
  <1>4. \A u \in m : account[u] # NoObj
    BY DEF PlaceOK, InPlace
  <1>5. /\ step' \in [Databases -> Steps] /\ step'[k] = s
        /\ \A j \in Databases \ {k} : step'[j] = step[j]
    <2> HIDE DEF s
    <2>1. QED
      BY <1>t, <1>1, <1>3
  <1>6. /\ at' \in [Databases -> Nat] /\ at'[k] = a
        /\ \A j \in Databases \ {k} : at'[j] = at[j]
    <2> HIDE DEF a
    <2>1. QED
      BY <1>t, <1>1, <1>3
  <1>7. /\ known' \in [Databases -> SUBSET Accounts] /\ known'[k] = m
        /\ \A j \in Databases \ {k} : known'[j] = known[j]
    <2> HIDE DEF m
    <2>1. QED
      BY <1>t, <1>1, <1>3
  <1>8. /\ fresh' \in [Databases -> BOOLEAN]
        /\ \A j \in Databases \ {k} : fresh'[j] = fresh[j]
    <2> HIDE DEF f
    <2>1. QED
      BY <1>t, <1>1, <1>3
  <1>9. s = "user" => a \in 1..Len(UsersOf(k))
    <2>1. s = "user" /\ step[k] \in {"create", "list"} => Len(UsersOf(k)) \in Nat \ {0}
      BY <1>2, EmptySeq
    <2>2. s = "user" /\ step[k] \in {"user", "password"} => at[k] # Len(UsersOf(k))
      OBVIOUS
    <2>3. s = "user" /\ step[k] \in {"user", "password"} => a = at[k] + 1
      BY <1>t
    <2>4. s = "user" /\ step[k] \in {"create", "list"} => a = 1
      OBVIOUS
    <2> HIDE DEF s, a
    <2>5. step[k] \in {"create", "list", "user", "password"}
      BY DEF SqlSteps
    <2>6. Len(UsersOf(k)) \in Nat
      BY <1>2
    <2>7. QED
      BY <1>2, <2>1, <2>2, <2>3, <2>4, <2>5, <2>6
  <1>10. s = "password" <=> alter
    OBVIOUS
  <1>11. s = "password" => a = at[k]
    <2>1. alter => step[k] \notin {"create", "list"} /\ Plugin(snap[k].spec) # "mysql"
      BY DEF PlaceOK, InPlace
    <2>2. QED
      BY <1>10, <2>1
  <1>12. s = "user" => a = IF step[k] \in {"create", "list"} THEN 1 ELSE at[k] + 1
    OBVIOUS
  <1>13. (s = "secret" => last) /\ s \in {"user", "password", "secret"}
    OBVIOUS
  <1>14. s \in {"user", "password"} => Plugin(snap[k].spec) # "mysql"
    <2>1. alter => Plugin(snap[k].spec) # "mysql"
      BY DEF PlaceOK, InPlace
    <2>2. QED
      BY <2>1
  <1>15. QED
    BY <1>4, <1>5, <1>6, <1>7, <1>8, <1>9, <1>10, <1>11, <1>12, <1>13, <1>14
-----------------------------------------------------------------------------
\* The last element of a sequence that grows at its end and shrinks at its head.
LEMMA AppendLast ==
    ASSUME NEW S, NEW q \in Seq(S), NEW x \in S
    PROVE  /\ Append(q, x) \in Seq(S) /\ Append(q, x) # <<>> /\ Append(q, x) # q
           /\ Append(q, x)[Len(Append(q, x))] = x
  OBVIOUS

LEMMA TailLast ==
    ASSUME NEW S, NEW q \in Seq(S), q # <<>>
    PROVE  /\ Head(q) \in S /\ Tail(q) \in Seq(S)
           /\ Tail(q) = <<>> => Head(q) = q[Len(q)]
           /\ Tail(q) # <<>> => Tail(q)[Len(Tail(q))] = q[Len(q)]
  <1>1. /\ Head(q) \in S /\ Tail(q) \in Seq(S) /\ Len(Tail(q)) = Len(q) - 1
        /\ \A i \in 1..Len(Tail(q)) : Tail(q)[i] = q[i + 1]
    BY HeadTailProperties
  <1>2. Len(q) \in Nat /\ Head(q) = q[1]
    OBVIOUS
  <1>3. Tail(q) = <<>> => Len(q) = 1
    <2>1. Tail(q) = <<>> => Len(Tail(q)) = 0
      BY EmptySeq
    <2>2. QED
      BY <1>1, <1>2, <2>1
  <1>4. Tail(q) # <<>> => Len(Tail(q)) \in 1..Len(Tail(q))
    BY <1>1, EmptySeq
  <1>5. QED
    BY <1>1, <1>2, <1>3, <1>4

\* Every variable keeps its type.
LEMMA StoreFacts ==
    ASSUME DatabaseTypeOK, NEW k \in Databases, NEW o \in Value, Store(k, o)
    PROVE  /\ obj' \in [Databases -> Value] /\ news' \in [Databases -> Seq(Value)]
           /\ obj'[k] = o /\ news'[k] = Append(news[k], o)
           /\ \A j \in Databases \ {k} : obj'[j] = obj[j] /\ news'[j] = news[j]
           /\ news'[k] # <<>> /\ news'[k] # news[k]
           /\ news'[k][Len(news'[k])] = o
  <1>1. obj' = [obj EXCEPT ![k] = o] /\ news' = [news EXCEPT ![k] = Append(news[k], o)]
    BY DEF Store
  <1>t. obj \in [Databases -> Value] /\ news \in [Databases -> Seq(Value)]
    BY DEF DatabaseTypeOK, Value
  <1>2. news[k] \in Seq(Value)
    BY <1>t
  <1>3. /\ Append(news[k], o) \in Seq(Value) /\ Append(news[k], o) # <<>>
        /\ Append(news[k], o) # news[k]
        /\ Append(news[k], o)[Len(Append(news[k], o))] = o
    BY <1>2, AppendLast
  <1>4. QED
    BY <1>t, <1>1, <1>3

LEMMA StoreSecretFacts ==
    ASSUME DatabaseTypeOK, NEW k \in Databases, NEW c \in Secrets \cup {NoObj}, StoreSecret(k, c)
    PROVE  /\ secret' \in [Databases -> Secrets \cup {NoObj}]
           /\ secretNews' \in [Databases -> Seq(Secrets \cup {NoObj})]
           /\ secret'[k] = c /\ \A j \in Databases \ {k} : secret'[j] = secret[j]
  <1>1. /\ secret' = [secret EXCEPT ![k] = c]
        /\ secretNews' = [secretNews EXCEPT ![k] = Append(secretNews[k], c)]
    BY DEF StoreSecret
  <1>2. Append(secretNews[k], c) \in Seq(Secrets \cup {NoObj})
    BY DEF DatabaseTypeOK
  <1>3. QED
    BY <1>1, <1>2 DEF DatabaseTypeOK

LEMMA WriteStatusType ==
    ASSUME DatabaseTypeOK, NEW k \in Databases, NEW st \in States, snap[k] \in Objects,
           WriteStatus(k, st)
    PROVE  obj' \in [Databases -> Value] /\ news' \in [Databases -> Seq(Value)]
  <1>1. [snap[k] EXCEPT !.state = st] \in Value
    BY ObjectState DEF Value
  <1>2. CASE Store(k, [snap[k] EXCEPT !.state = st])
    BY <1>1, <1>2, StoreFacts
  <1>3. CASE UNCHANGED <<obj, news>>
    BY <1>3 DEF DatabaseTypeOK, Value
  <1>4. QED
    BY <1>2, <1>3 DEF WriteStatus

\* A sync begins with o, which is the cached object but for passwords.
LEMMA BeginFacts ==
    ASSUME DatabaseTypeOK, NEW k \in Databases, NEW o \in Objects, cache[k] # NoObj, Begin(k, o)
    PROVE  /\ obj' \in [Databases -> Value] /\ news' \in [Databases -> Seq(Value)]
           /\ cache' \in [Databases -> Value] /\ snap' \in [Databases -> Value]
           /\ current' \in [Databases -> BOOLEAN] /\ pending' \subseteq Databases
           /\ snap'[k] = o /\ cache'[k] = o
           /\ \/ news[k] = <<>> /\ Store(k, [cache[k] EXCEPT !.state = "Pending"])
                 /\ ~current'[k]
              \/ UNCHANGED <<obj, news>> /\ (current'[k] => news[k] = <<>>)
           /\ \A j \in Databases \ {k} :
                 snap'[j] = snap[j] /\ cache'[j] = cache[j] /\ current'[j] = current[j]
           /\ UNCHANGED <<born, asked>>
  <1>t. /\ cache \in [Databases -> Value] /\ snap \in [Databases -> Value]
        /\ current \in [Databases -> BOOLEAN] /\ pending \subseteq Databases
        /\ obj \in [Databases -> Value] /\ news \in [Databases -> Seq(Value)]
    BY DEF DatabaseTypeOK, Value
  <1>1. /\ cache' = [cache EXCEPT ![k] = o] /\ snap' = [snap EXCEPT ![k] = o]
        /\ current' = [current EXCEPT ![k] = (news'[k] = <<>>)]
        /\ pending' = pending \ {k} /\ Greet(k)
    BY DEF Begin
  <1>2. o \in Value /\ (news'[k] = <<>>) \in BOOLEAN
    BY DEF Value
  <1>3. current' \in [Databases -> BOOLEAN] /\ current'[k] = (news'[k] = <<>>)
        /\ \A j \in Databases \ {k} : current'[j] = current[j]
    BY <1>t, <1>1, <1>2
  <1>4. /\ cache' \in [Databases -> Value] /\ snap' \in [Databases -> Value]
        /\ snap'[k] = o /\ cache'[k] = o
        /\ \A j \in Databases \ {k} : snap'[j] = snap[j] /\ cache'[j] = cache[j]
    BY <1>t, <1>1, <1>2
  <1>5. CASE news[k] = <<>> /\ Store(k, [cache[k] EXCEPT !.state = "Pending"])
    <2>1. cache[k] \in Objects
      BY <1>t DEF Value
    <2>2. [cache[k] EXCEPT !.state = "Pending"] \in Value
      BY <2>1, ObjectState DEF Value, States
    <2>3. /\ obj' \in [Databases -> Value] /\ news' \in [Databases -> Seq(Value)]
          /\ news'[k] # <<>>
      BY <1>5, <2>2, StoreFacts
    <2>4. QED
      BY <1>t, <1>1, <1>3, <1>4, <1>5, <2>3 DEF Greet
  <1>6. CASE UNCHANGED <<obj, news>>
    BY <1>t, <1>1, <1>3, <1>4, <1>6 DEF Greet
  <1>7. QED
    BY <1>1, <1>5, <1>6 DEF Greet

LEMMA ConcludeFacts ==
    ASSUME DatabaseTypeOK, NEW k \in Databases, NEW st \in States, Conclude(k, st)
    PROVE  /\ step' \in [Databases -> Steps] /\ verdict' \in [Databases -> States]
           /\ step'[k] = "report" /\ verdict'[k] = st
           /\ \A j \in Databases \ {k} : step'[j] = step[j] /\ verdict'[j] = verdict[j]
  BY DEF DatabaseTypeOK, Conclude, GoTo, Steps

LEMMA LeaveFacts ==
    ASSUME DatabaseTypeOK, NEW k \in Databases, Leave(k)
    PROVE  /\ at' \in [Databases -> Nat] /\ known' \in [Databases -> SUBSET Accounts]
           /\ fresh' \in [Databases -> BOOLEAN]
           /\ known'[k] = {}
           /\ \A j \in Databases \ {k} : at'[j] = at[j] /\ known'[j] = known[j]
  BY DEF DatabaseTypeOK, Leave
\* DatabaseTypeOK, by the groups of variables that actions leave alone.
ApiTypes ==
    /\ obj \in [Databases -> Value] /\ news \in [Databases -> Seq(Value)]
    /\ born \in [Databases -> Uids] /\ asked \in [Databases -> Specs \cup {NoObj}]
SecretTypes ==
    /\ secret \in [Databases -> Secrets \cup {NoObj}]
    /\ secretNews \in [Databases -> Seq(Secrets \cup {NoObj})]
EnvTypes ==
    source \in [Sources -> Contents] /\ inputs \in [Databases -> Unready \cup {"ready"}]
SqlTypes == exists \subseteq Databases /\ account \in [Accounts -> AccountType \cup {NoObj}]
QueueTypes ==
    /\ cache \in [Databases -> Value] /\ pending \subseteq Databases
    /\ secretCache \in [Databases -> Secrets \cup {NoObj}]
WalkTypes ==
    /\ at \in [Databases -> Nat] /\ known \in [Databases -> SUBSET Accounts]
    /\ fresh \in [Databases -> BOOLEAN]
SyncTypes ==
    /\ step \in [Databases -> Steps] /\ snap \in [Databases -> Value]
    /\ current \in [Databases -> BOOLEAN] /\ verdict \in [Databases -> States] /\ WalkTypes
Types ==
    /\ ApiTypes /\ SecretTypes /\ EnvTypes /\ SqlTypes /\ QueueTypes /\ SyncTypes
    /\ events \in 0..MaxEvents

LEMMA TypesAreTypes == DatabaseTypeOK <=> Types
  BY DEF DatabaseTypeOK, Types, ApiTypes, SecretTypes, EnvTypes, SqlTypes, QueueTypes,
         SyncTypes, WalkTypes, Value

LEMMA GroupsStay ==
    ASSUME Types
    PROVE  /\ UNCHANGED apiVars => ApiTypes'
           /\ UNCHANGED secretVars => SecretTypes'
           /\ UNCHANGED envVars => EnvTypes'
           /\ UNCHANGED sqlVars => SqlTypes'
           /\ UNCHANGED queueVars => QueueTypes'
           /\ UNCHANGED walkVars => WalkTypes'
           /\ UNCHANGED syncVars => SyncTypes'
           /\ events' = events \/ Happens => events' \in 0..MaxEvents
  <1>1. UNCHANGED apiVars => ApiTypes'
    BY DEF Types, ApiTypes, apiVars
  <1>2. UNCHANGED secretVars => SecretTypes'
    BY DEF Types, SecretTypes, secretVars
  <1>3. UNCHANGED envVars => EnvTypes'
    BY DEF Types, EnvTypes, envVars
  <1>4. UNCHANGED sqlVars => SqlTypes'
    BY DEF Types, SqlTypes, sqlVars
  <1>5. UNCHANGED queueVars => QueueTypes'
    BY DEF Types, QueueTypes, queueVars
  <1>6. UNCHANGED walkVars => WalkTypes'
    BY DEF Types, SyncTypes, WalkTypes, walkVars
  <1>7. UNCHANGED syncVars => SyncTypes'
    BY <1>6 DEF Types, SyncTypes, syncVars
  <1>8. events' = events \/ Happens => events' \in 0..MaxEvents
    <2>1. MaxEvents \in Nat
      BY DatabaseSyncAssumption
    <2>2. events \in 0..MaxEvents
      BY DEF Types
    <2>3. QED
      BY <2>1, <2>2 DEF Happens
  <1>9. QED
    BY <1>1, <1>2, <1>3, <1>4, <1>5, <1>6, <1>7, <1>8

LEMMA EditTypes ==
    ASSUME Types, UidsOK, NEW k \in Databases, Edit(k)
    PROVE  Types'
  <1>t. DatabaseTypeOK
    BY TypesAreTypes
  <1>o. NoObj \in Value /\ (obj[k] # NoObj => obj[k] \in Objects)
    BY DEF Types, ApiTypes, Value
  <1>s. Specs \subseteq SpecType
    BY DatabaseSyncAssumption
  <1>1. current' \in [Databases -> BOOLEAN]
    BY DEF Edit, Types, SyncTypes
  <1>2. SyncTypes'
    <2>1. UNCHANGED <<step, snap, verdict>> /\ WalkTypes'
      BY GroupsStay DEF Edit
    <2>2. QED
      BY <1>1, <2>1 DEF Types, SyncTypes
  <1>3. ASSUME NEW sp \in Specs, obj[k] # NoObj,
               Store(k, [obj[k] EXCEPT !.spec = sp]), asked' = [asked EXCEPT ![k] = sp],
               UNCHANGED born
        PROVE  ApiTypes'
    <2>1. [obj[k] EXCEPT !.spec = sp] \in Value
      BY <1>3, <1>o, <1>s, ObjectSpec DEF Value
    <2>2. obj' \in [Databases -> Value] /\ news' \in [Databases -> Seq(Value)]
      BY <1>t, <1>3, <2>1, StoreFacts
    <2>3. QED
      BY <1>3, <2>2 DEF Types, ApiTypes
  <1>4. ASSUME Store(k, NoObj), asked' = [asked EXCEPT ![k] = NoObj], UNCHANGED born
        PROVE  ApiTypes'
    <2>1. obj' \in [Databases -> Value] /\ news' \in [Databases -> Seq(Value)]
      BY <1>t, <1>o, <1>4, StoreFacts
    <2>2. QED
      BY <1>4, <2>1 DEF Types, ApiTypes
  <1>5. ASSUME NEW sp \in Specs, obj[k] = NoObj, born' = [born EXCEPT ![k] = @ + 1],
               Store(k, [uid |-> born[k] + 1, spec |-> sp, state |-> ""]),
               asked' = [asked EXCEPT ![k] = sp]
        PROVE  ApiTypes'
    <2>1. born[k] + 1 \in Uids
      <3>1. MaxEvents \in Nat
        BY DatabaseSyncAssumption
      <3>2. born[k] \in Uids /\ events \in 0..MaxEvents
        BY DEF Types, ApiTypes
      <3>3. born[k] <= events
        BY <1>5 DEF UidsOK, UidIsFree
      <3>4. QED
        BY <3>1, <3>2, <3>3 DEF Uids
    <2>2. [uid |-> born[k] + 1, spec |-> sp, state |-> ""] \in Value
      BY <1>s, <2>1 DEF Value, Objects, States
    <2>3. obj' \in [Databases -> Value] /\ news' \in [Databases -> Seq(Value)]
      BY <1>t, <1>5, <2>2, StoreFacts
    <2>4. born' \in [Databases -> Uids]
      BY <1>5, <2>1 DEF Types, ApiTypes
    <2>5. asked' \in [Databases -> Specs \cup {NoObj}]
      BY <1>5 DEF Types, ApiTypes
    <2>6. QED
      BY <2>3, <2>4, <2>5 DEF ApiTypes
  <1>6. ApiTypes'
    BY <1>3, <1>4, <1>5 DEF Edit
  <1>7. SecretTypes' /\ EnvTypes' /\ SqlTypes' /\ QueueTypes' /\ events' \in 0..MaxEvents
    BY GroupsStay DEF Edit
  <1>8. QED
    BY <1>2, <1>6, <1>7 DEF Types
\* A restart leaves no more than the objects in the API server and in the SQL
\* server.
LEMMA RestartTypes ==
    ASSUME Types, obj' \in [Databases -> Value], Restart, events' = events \/ Happens
    PROVE  Types'
  <1>1. ApiTypes'
    <2>1. <<>> \in Seq(Value)
      OBVIOUS
    <2>2. news' \in [Databases -> Seq(Value)]
      BY <2>1 DEF Restart
    <2>3. QED
      BY <2>2 DEF Restart, Types, ApiTypes
  <1>2. SecretTypes'
    <2>1. <<>> \in Seq(Secrets \cup {NoObj})
      OBVIOUS
    <2>2. secretNews' \in [Databases -> Seq(Secrets \cup {NoObj})]
      BY <2>1 DEF Restart
    <2>3. QED
      BY <2>2 DEF Restart, Types, SecretTypes
  <1>3. QueueTypes'
    BY DEF Restart, Types, SecretTypes, QueueTypes
  <1>4. SyncTypes'
    <2>1. step' \in [Databases -> Steps] /\ verdict' \in [Databases -> States]
      BY DEF Restart, Steps, States
    <2>2. snap' \in [Databases -> Value]
      BY DEF Restart, Value
    <2>3. current' \in [Databases -> BOOLEAN] /\ fresh' \in [Databases -> BOOLEAN]
      BY DEF Restart
    <2>4. at' \in [Databases -> Nat] /\ known' \in [Databases -> SUBSET Accounts]
      BY DEF Restart
    <2>5. QED
      BY <2>1, <2>2, <2>3, <2>4 DEF SyncTypes, WalkTypes
  <1>5. EnvTypes' /\ SqlTypes' /\ events' \in 0..MaxEvents
    BY GroupsStay DEF Restart
  <1>6. QED
    BY <1>1, <1>2, <1>3, <1>4, <1>5 DEF Types

\* What happens outside of the syncs.
LEMMA OutsideTypes ==
    ASSUME Types, NEW k \in Databases,
           UserSecret(k) \/ InputsArrive(k) \/ Deliver(k) \/ DeliverSecret(k) \/ Resync(k)
    PROVE  Types'
  <1>t. DatabaseTypeOK
    BY TypesAreTypes
  <1>1. CASE UserSecret(k)
    <2>1. ForeignSecret \in Secrets
      BY DEF ForeignSecret, Secrets
    <2>2. SecretTypes'
      BY <1>t, <1>1, <2>1, StoreSecretFacts DEF UserSecret, SecretTypes
    <2>3. QED
      BY <1>1, <2>2, GroupsStay DEF UserSecret, Types
  <1>2. CASE InputsArrive(k)
    <2>1. EnvTypes'
      BY <1>2 DEF InputsArrive, Types, EnvTypes
    <2>2. QED
      BY <1>2, <2>1, GroupsStay DEF InputsArrive, Types
  <1>3. CASE Deliver(k)
    <2>1. Head(news[k]) \in Value /\ Tail(news[k]) \in Seq(Value)
      <3>1. news[k] \in Seq(Value) /\ news[k] # <<>>
        BY <1>3 DEF Deliver, Types, ApiTypes
      <3>2. QED
        BY <3>1, TailLast
    <2>2. ApiTypes'
      BY <1>3, <2>1 DEF Deliver, Types, ApiTypes
    <2>3. QueueTypes'
      BY <1>3, <2>1 DEF Deliver, Types, QueueTypes
    <2>4. QED
      BY <1>3, <2>2, <2>3, GroupsStay DEF Deliver, Types
  <1>4. CASE DeliverSecret(k)
    <2> DEFINE S == Secrets \cup {NoObj}
    <2>1. Head(secretNews[k]) \in S /\ Tail(secretNews[k]) \in Seq(S)
      <3>1. secretNews[k] \in Seq(S) /\ secretNews[k] # <<>>
        BY <1>4 DEF DeliverSecret, Types, SecretTypes
      <3>2. QED
        BY <3>1, TailLast
    <2>2. SecretTypes'
      BY <1>4, <2>1 DEF DeliverSecret, Types, SecretTypes
    <2>3. QueueTypes'
      BY <1>4, <2>1 DEF DeliverSecret, Types, QueueTypes
    <2>4. QED
      BY <1>4, <2>2, <2>3, GroupsStay DEF DeliverSecret, Types
  <1>5. CASE Resync(k)
    <2>1. QueueTypes'
      BY <1>5 DEF Resync, Types, QueueTypes
    <2>2. QED
      BY <1>5, <2>1, GroupsStay DEF Resync, Types
  <1>6. QED
    BY <1>1, <1>2, <1>3, <1>4, <1>5

LEMMA SourceTypes ==
    ASSUME Types, NEW f \in Sources, Rotate(f) \/ SourceArrives(f)
    PROVE  Types'
  <1>1. EnvTypes'
    BY DEF Rotate, SourceArrives, Types, EnvTypes, Contents
  <1>2. QED
    BY <1>1, GroupsStay DEF Rotate, SourceArrives, Types

LEMMA StartTypes ==
    ASSUME Types, NEW k \in Databases, Start(k)
    PROVE  Types'
  <1>t. DatabaseTypeOK
    BY TypesAreTypes
  <1>c. cache[k] # NoObj => cache[k] \in Objects
    BY DEF Types, QueueTypes, Value
  <1>f. cache[k] # NoObj => FilledObject(cache[k]) \in Objects
    BY <1>c, FilledFields DEF Types, EnvTypes
  <1>1. CASE StartGone(k)
    <2>1. QueueTypes'
      BY <1>1 DEF StartGone, Types, QueueTypes
    <2>2. QED
      BY <1>1, <2>1, GroupsStay DEF StartGone, Types
  <1>2. ASSUME NEW o \in Objects, cache[k] # NoObj, Begin(k, o),
               step' \in [Databases -> Steps], verdict' \in [Databases -> States],
               UNCHANGED walkVars
        PROVE  Types'
    <2>1. ApiTypes' /\ QueueTypes'
      BY <1>t, <1>2, BeginFacts DEF Begin, Types, ApiTypes, QueueTypes
    <2>2. SyncTypes'
      BY <1>t, <1>2, BeginFacts, GroupsStay DEF SyncTypes
    <2>3. QED
      BY <1>2, <2>1, <2>2, GroupsStay DEF Begin, Types
  <1>3. CASE StartInVain(k)
    <2>1. cache[k] # NoObj /\ UNCHANGED walkVars
      BY <1>3 DEF StartInVain
    <2>2. PICK o \in Objects, st \in States : Begin(k, o) /\ Conclude(k, st)
      BY <1>3, <1>c, <1>f DEF StartInVain, NoDsn, States, FilledObject
    <2>3. QED
      BY <1>t, <1>2, <2>1, <2>2, ConcludeFacts
  <1>4. CASE StartSync(k)
    <2>1. /\ cache[k] # NoObj /\ Begin(k, FilledObject(cache[k]))
          /\ verdict' \in [Databases -> States] /\ UNCHANGED walkVars
      BY <1>4 DEF StartSync, FilledObject, Types, SyncTypes
    <2>2. step' \in [Databases -> Steps]
      BY <1>4 DEF StartSync, GoTo, Types, SyncTypes, Steps, SqlSteps
    <2>3. QED
      BY <1>2, <1>f, <2>1, <2>2
  <1>5. CASE StartPanics(k)
    <2>1. [cache[k] EXCEPT !.state = "Pending"] \in Value
      BY <1>5, <1>c, ObjectState DEF StartPanics, Value, States
    <2>2. obj' \in [Databases -> Value]
      BY <1>5, <2>1 DEF StartPanics, Types, ApiTypes
    <2>3. QED
      BY <1>5, <2>2, RestartTypes DEF StartPanics
  <1>6. QED
    BY <1>1, <1>3, <1>4, <1>5 DEF Start
LEMMA SqlTypesStep ==
    ASSUME Types, PlaceOK, NEW k \in Databases, SqlStep(k) \/ SqlRefused(k) \/ SqlFails(k)
    PROVE  Types'
  <1>t. DatabaseTypeOK
    BY TypesAreTypes
  <1>1. step[k] \in SqlSteps /\ UNCHANGED <<snap, current>>
    BY DEF SqlStep, SqlRefused, SqlFails
  <1>2. SqlTypes'
    <2>1. Valid(k) /\ Effect(k) => SqlTypes'
      BY <1>t, <1>1, EffectFacts DEF SqlTypes
    <2>2. QED
      BY <2>1, GroupsStay DEF SqlStep, SqlRefused, SqlFails
  <1>3. step' \in [Databases -> Steps] /\ verdict' \in [Databases -> States] /\ WalkTypes'
    <2>1. CASE Continue(k) /\ UNCHANGED verdict
      BY <1>t, <1>1, <2>1, ContinueFacts DEF WalkTypes, Types, SyncTypes
    <2>2. CASE Conclude(k, "Error") /\ Leave(k)
      BY <1>t, <2>2, ConcludeFacts, LeaveFacts DEF WalkTypes, States
    <2>3. QED
      BY <2>1, <2>2 DEF SqlStep, SqlRefused, SqlFails
  <1>4. SyncTypes'
    BY <1>1, <1>3 DEF SyncTypes, Types
  <1>5. ApiTypes' /\ SecretTypes' /\ EnvTypes' /\ QueueTypes' /\ events' \in 0..MaxEvents
    BY GroupsStay DEF SqlStep, SqlRefused, SqlFails
  <1>6. QED
    BY <1>2, <1>4, <1>5 DEF Types

LEMMA SecretFields ==
    ASSUME NEW a \in Uids, NEW n \in Accounts, NEW w \in Passwords \cup {"", "super"},
           NEW h \in {"server", "nowhere"}
    PROVE  [owner |-> a, user |-> n, password |-> w, host |-> h] \in Secrets
  BY DEF Secrets

\* The DSN is for an admin of the copy.
LEMMA DsnFacts ==
    ASSUME Types, PlaceOK, NEW k \in Databases, step[k] = "secret",
           Admins(UsersOf(k)) # {}
    PROVE  /\ Dsn(snap[k]) \in Secrets /\ Dsn(snap[k]).owner # Foreign
           /\ \E i \in 1..Len(UsersOf(k)) : UsersOf(k)[i].name = Dsn(snap[k]).user
  <1>t. DatabaseTypeOK
    BY TypesAreTypes
  <1>1. snap[k] \in Objects /\ UsersOf(k) \in Seq(Users)
    BY <1>t, CopyFields
  <1>2. PICK i \in 1..Len(UsersOf(k)) : FirstAdmin(UsersOf(k)) = UsersOf(k)[i]
    BY <1>1, FirstAdminIsOne
  <1> DEFINE u == FirstAdmin(UsersOf(k))
  <1>3. u \in Users /\ u.name \in Accounts /\ u.password \in Passwords \cup {""}
    <2>1. UsersOf(k)[i] \in Users
      BY <1>1
    <2>2. QED
      BY <1>2, <2>1 DEF Users
  <1>4. snap[k].uid \in Uids
    BY <1>1, ObjectFields
  <1>5. Dsn(snap[k]) =
          [owner |-> snap[k].uid, user |-> u.name,
           password |-> IF /\ u.password = "" /\ snap[k].spec.server
                           /\ Plugin(snap[k].spec) = "postgres"
                        THEN "super" ELSE u.password,
           host |-> IF snap[k].spec.server THEN "server" ELSE "nowhere"]
    BY DEF Dsn, UsersOf
  <1>6. Dsn(snap[k]) \in Secrets /\ Dsn(snap[k]).owner = snap[k].uid
        /\ Dsn(snap[k]).user = u.name
    <2> DEFINE w == IF /\ u.password = "" /\ snap[k].spec.server
                       /\ Plugin(snap[k].spec) = "postgres"
                    THEN "super" ELSE u.password
               h == IF snap[k].spec.server THEN "server" ELSE "nowhere"
    <2>1. w \in Passwords \cup {"", "super"} /\ h \in {"server", "nowhere"}
      BY <1>3
    <2>2. Dsn(snap[k]) = [owner |-> snap[k].uid, user |-> u.name, password |-> w, host |-> h]
      BY <1>5
    <2> DEFINE d == Dsn(snap[k])
               a == snap[k].uid
               n == u.name
    <2>3. a \in Uids /\ n \in Accounts /\ w \in Passwords \cup {"", "super"}
          /\ h \in {"server", "nowhere"}
      BY <1>3, <1>4, <2>1
    <2>4. d = [owner |-> a, user |-> n, password |-> w, host |-> h]
      BY <2>2
    <2> HIDE DEF u, w, h, d, a, n
    <2>5. [owner |-> a, user |-> n, password |-> w, host |-> h] \in Secrets
      BY <2>3, SecretFields
    <2>6. d \in Secrets /\ d.owner = a /\ d.user = n
      BY <2>4, <2>5
    <2>7. QED
      BY <2>6 DEF d, a, n, u
  <1>7. snap[k].uid # Foreign
    <2>1. MaxEvents \in Nat
      BY DatabaseSyncAssumption
    <2>2. QED
      BY <1>4, <2>1 DEF Uids, Foreign
  <1>8. QED
    BY <1>2, <1>6, <1>7

LEMMA SecretTypesStep ==
    ASSUME Types, PlaceOK, NEW k \in Databases,
           FindSecret(k) \/ CreateSecret(k) \/ CreateFails(k)
    PROVE  Types'
  <1>t. DatabaseTypeOK
    BY TypesAreTypes
  <1>1. step[k] = "secret" /\ UNCHANGED snap
    BY DEF FindSecret, CreateSecret, CreateFails
  <1>2. snap[k] \in Objects
    BY <1>t, <1>1, CopyFields
  <1>3. step' \in [Databases -> Steps] /\ verdict' \in [Databases -> States] /\ WalkTypes'
    <2>1. PICK st \in States : Conclude(k, st) /\ Leave(k)
      BY DEF FindSecret, CreateSecret, CreateFails, States
    <2>2. QED
      BY <1>t, <2>1, ConcludeFacts, LeaveFacts DEF WalkTypes
  <1>4. current' \in [Databases -> BOOLEAN]
    <2>1. current \in [Databases -> BOOLEAN]
      BY DEF Types, SyncTypes
    <2>2. CASE UNCHANGED current
      BY <2>1, <2>2
    <2>3. CASE current' = [current EXCEPT ![k] = @ /\ news' = news]
      BY <2>1, <2>3
    <2>4. QED
      BY <2>2, <2>3 DEF FindSecret, CreateSecret, CreateFails
  <1>5. SyncTypes'
    BY <1>1, <1>3, <1>4 DEF SyncTypes, Types
  <1>6. ApiTypes'
    <2>1. CASE UNCHANGED apiVars
      BY <2>1, GroupsStay
    <2>2. CASE WriteStatus(k, "Error") /\ UNCHANGED <<born, asked>>
      BY <1>t, <1>2, <2>2, WriteStatusType DEF States, ApiTypes, Types
    <2>3. QED
      BY <2>1, <2>2 DEF FindSecret, CreateSecret, CreateFails
  <1>7. SecretTypes'
    <2>1. CASE UNCHANGED secretVars
      BY <2>1, GroupsStay
    <2>2. CASE CreateSecret(k)
      <3>1. Admins(UsersOf(k)) # {} /\ StoreSecret(k, Dsn(snap[k]))
        BY <2>2 DEF CreateSecret, EndsInPanic
      <3>2. Dsn(snap[k]) \in Secrets
        BY <1>1, <3>1, DsnFacts
      <3>3. QED
        BY <1>t, <3>1, <3>2, StoreSecretFacts DEF SecretTypes
    <2>3. QED
      BY <2>1, <2>2 DEF FindSecret, CreateFails
  <1>8. EnvTypes' /\ SqlTypes' /\ QueueTypes' /\ events' \in 0..MaxEvents
    BY GroupsStay DEF FindSecret, CreateSecret, CreateFails
  <1>9. QED
    BY <1>5, <1>6, <1>7, <1>8 DEF Types

LEMMA ReportTypes ==
    ASSUME Types, PlaceOK, NEW k \in Databases, Report(k)
    PROVE  Types'
  <1>t. DatabaseTypeOK
    BY TypesAreTypes
  <1>1. snap[k] \in Objects /\ verdict[k] \in States
    BY <1>t, CopyFields DEF Report, Types, SyncTypes
  <1>2. ApiTypes'
    BY <1>t, <1>1, WriteStatusType DEF Report, ApiTypes, Types
  <1>3. step' \in [Databases -> Steps] /\ verdict' \in [Databases -> States]
    BY DEF Report, GoTo, Types, SyncTypes, Steps, States
  <1>4. snap' \in [Databases -> Value] /\ current' \in [Databases -> BOOLEAN]
    BY DEF Report, Types, SyncTypes, Value
  <1>5. SyncTypes'
    BY <1>3, <1>4, GroupsStay DEF Report, SyncTypes
  <1>6. QED
    BY <1>2, <1>5, GroupsStay DEF Report, Types

LEMMA TypeStep ==
    ASSUME DatabaseTypeOK, PlaceOK, UidsOK, [Next]_vars
    PROVE  DatabaseTypeOK'
  <1>t. Types
    BY TypesAreTypes
  <1>1. ASSUME UNCHANGED obj, Restart, events' = events \/ Happens PROVE Types'
    <2>1. obj' \in [Databases -> Value]
      BY <1>1, <1>t DEF Types, ApiTypes
    <2>2. QED
      BY <1>1, <1>t, <2>1, RestartTypes
  <1>2. ASSUME NEW k \in Databases, SyncStep(k) \/ SqlFails(k) PROVE Types'
    <2>1. CASE SecretPanics(k)
      BY <1>1, <2>1 DEF SecretPanics
    <2>2. CASE SqlStep(k) \/ SqlRefused(k) \/ SqlFails(k)
      BY <1>t, <2>2, SqlTypesStep
    <2>3. CASE FindSecret(k) \/ CreateSecret(k) \/ CreateFails(k)
      BY <1>t, <2>3, SecretTypesStep
    <2>4. CASE Report(k)
      BY <1>t, <2>4, ReportTypes
    <2>5. QED
      BY <1>2, <2>1, <2>2, <2>3, <2>4 DEF SyncStep
  <1>3. ASSUME Crash PROVE Types'
    BY <1>1, <1>3 DEF Crash
  <1>4. ASSUME UNCHANGED vars PROVE Types'
    BY <1>4, <1>t, GroupsStay DEF vars, Types
  <1>5. ASSUME NEW k \in Databases,
               Edit(k) \/ UserSecret(k) \/ InputsArrive(k)
               \/ Deliver(k) \/ DeliverSecret(k) \/ Resync(k) \/ Start(k)
        PROVE  Types'
    BY <1>5, <1>t, EditTypes, OutsideTypes, StartTypes
  <1>6. ASSUME NEW f \in Sources, Rotate(f) \/ SourceArrives(f) PROVE Types'
    BY <1>6, <1>t, SourceTypes
  <1>7. Types'
    BY <1>2, <1>3, <1>4, <1>5, <1>6 DEF Next
  <1>8. QED
    BY <1>7, TypesAreTypes, PTL
-----------------------------------------------------------------------------
\* The rest of the inductive invariant.  Copies of the object: the last event is
\* the object; without events the cache agrees with it, but for passwords; so
\* does a copy that is current.
Agree(a, b) == IF a = NoObj THEN b = NoObj
               ELSE b # NoObj /\ SameButPasswords(a.spec, b.spec)
CopiesAgree(k) ==
    /\ IF news[k] = <<>> THEN Agree(cache[k], obj[k]) ELSE news[k][Len(news[k])] = obj[k]
    /\ current[k] => snap[k] # NoObj /\ Agree(snap[k], obj[k])
SpecIsAsked(k) ==
    IF obj[k] = NoObj THEN asked[k] = NoObj
    ELSE asked[k] # NoObj /\ SameButPasswords(obj[k].spec, asked[k])

IsFirst(k) ==
    \/ obj[k] # NoObj /\ obj[k].state = "Success"
    \/ secret[k] # NoObj /\ secret[k].owner # Foreign
    => k \in exists

\* The users that the sync is past have been seen as the spec says.
HasSeen(k, i) == <<i, "role">> \in seen[k] /\ <<i, "password">> \in seen[k]
SeenSoFar(k) ==
    Plugin(snap[k].spec) = "postgres" =>
        /\ step[k] \in {"user", "password"} =>
              \A i \in 1..Len(UsersOf(k)) : i < at[k] => HasSeen(k, i)
        /\ step[k] = "password" => <<at[k], "role">> \in seen[k]
        /\ step[k] = "secret" \/ verdict[k] = "Success" =>
              \A i \in 1..Len(UsersOf(k)) : HasSeen(k, i)

DatabaseIs(k) ==
    InPlace(k) /\ UidIsFree(k) /\ CopiesAgree(k) /\ SpecIsAsked(k) /\ IsFirst(k) /\ SeenSoFar(k)
DatabaseInv == DatabaseTypeOK /\ \A k \in Databases : DatabaseIs(k)

\* What a step of k leaves alone: all that other Databases have.  Accounts and
\* databases are never dropped.
OthersStay(k) ==
    \A j \in Databases \ {k} :
        /\ obj'[j] = obj[j] /\ news'[j] = news[j] /\ cache'[j] = cache[j]
        /\ born'[j] = born[j] /\ asked'[j] = asked[j] /\ secret'[j] = secret[j]
        /\ step'[j] = step[j] /\ at'[j] = at[j] /\ known'[j] = known[j]
        /\ snap'[j] = snap[j] /\ current'[j] = current[j] /\ verdict'[j] = verdict[j]
SqlGrows ==
    /\ exists \subseteq exists'
    /\ \A u \in Accounts : account[u] # NoObj => account'[u] # NoObj

LEMMA InPlaceStays ==
    ASSUME DatabaseTypeOK, PlaceOK, NEW j \in Databases, SqlGrows,
           step'[j] = step[j], at'[j] = at[j], known'[j] = known[j], snap'[j] = snap[j],
           verdict'[j] = verdict[j]
    PROVE  InPlace(j)'
  <1>1. InPlace(j)
    BY DEF PlaceOK
  <1>2. step[j] = "password" => User(j).name \in Accounts
    BY CopyFields DEF Users
  <1>3. User(j)' = User(j) /\ UsersOf(j)' = UsersOf(j)
    BY DEF User, UsersOf
  <1>4. known[j] \subseteq Accounts
    BY DEF DatabaseTypeOK
  <1>5. QED
    BY <1>1, <1>2, <1>3, <1>4 DEF InPlace, SqlGrows, UsersOf, Plugin

LEMMA SeenStays ==
    ASSUME NEW j \in Databases, Witness, SeenSoFar(j), InPlace(j),
           step'[j] = step[j], at'[j] = at[j], snap'[j] = snap[j], verdict'[j] = verdict[j]
    PROVE  SeenSoFar(j)'
  <1>1. Looks(j) => seen[j] \subseteq seen'[j]
    BY DEF Witness, Looks
  <1>2. UsersOf(j)' = UsersOf(j)
    BY DEF UsersOf
  <1>3. step[j] \in {"user", "password", "secret"} \/ verdict[j] = "Success" => Looks(j)
    BY DEF Looks, SqlSteps
  <1>4. QED
    BY <1>1, <1>2, <1>3 DEF SeenSoFar, HasSeen, Plugin

LEMMA OthersAreStill ==
    ASSUME DatabaseInv, NEW k \in Databases, OthersStay(k), SqlGrows, Witness,
           events' \in Nat, events <= events'
    PROVE  \A j \in Databases \ {k} : DatabaseIs(j)'
  <1> SUFFICES ASSUME NEW j \in Databases \ {k} PROVE DatabaseIs(j)'
    OBVIOUS
  <1>1. DatabaseTypeOK /\ PlaceOK /\ DatabaseIs(j)
    BY DEF DatabaseInv, PlaceOK, DatabaseIs
  <1>2. InPlace(j)' /\ SeenSoFar(j)'
    BY <1>1, InPlaceStays, SeenStays DEF OthersStay, DatabaseIs
  <1>3. UidIsFree(j)'
    <2>1. born[j] \in Nat /\ events \in Nat
      <3>1. MaxEvents \in Nat
        BY DatabaseSyncAssumption
      <3>2. born[j] \in Uids /\ events \in 0..MaxEvents
        BY <1>1 DEF DatabaseTypeOK
      <3>3. QED
        BY <3>1, <3>2 DEF Uids
    <2>2. QED
      BY <1>1, <2>1 DEF DatabaseIs, UidIsFree, OthersStay
  <1>4. CopiesAgree(j)' /\ SpecIsAsked(j)' /\ IsFirst(j)'
    BY <1>1 DEF DatabaseIs, CopiesAgree, Agree, SpecIsAsked, IsFirst, OthersStay, SqlGrows
  <1>5. QED
    BY <1>2, <1>3, <1>4 DEF DatabaseIs
-----------------------------------------------------------------------------
\* A write to the object by the controller: nothing, or a state; it keeps the
\* spec but for passwords.
Wrote(k, st) ==
    \/ UNCHANGED <<obj, news>>
    \/ \E o \in Objects :
          /\ Store(k, o) /\ o.state = st
          /\ obj[k] # NoObj /\ SameButPasswords(o.spec, obj[k].spec)

LEMMA StatusWrites ==
    ASSUME DatabaseInv, NEW k \in Databases, NEW st \in States, step[k] # "idle",
           WriteStatus(k, st)
    PROVE  Wrote(k, st)
  <1> DEFINE o == [snap[k] EXCEPT !.state = st]
  <1>1. DatabaseTypeOK /\ PlaceOK /\ CopiesAgree(k)
    BY DEF DatabaseInv, PlaceOK, DatabaseIs
  <1>2. snap[k] \in Objects /\ snap[k] # NoObj
    BY <1>1, CopyFields, ObjectFields
  <1>3. o \in Objects /\ o.spec = snap[k].spec /\ o.state = st
    BY <1>2, ObjectState
  <1>4. CASE current[k] /\ Store(k, o)
    <2>1. obj[k] # NoObj /\ SameButPasswords(snap[k].spec, obj[k].spec)
      BY <1>1, <1>2, <1>4 DEF CopiesAgree, Agree
    <2> HIDE DEF o
    <2>2. QED
      BY <1>3, <1>4, <2>1 DEF Wrote
  <1>5. CASE UNCHANGED <<obj, news>>
    BY <1>5 DEF Wrote
  <1>6. QED
    BY <1>4, <1>5 DEF WriteStatus

LEMMA BeginWrites ==
    ASSUME DatabaseInv, NEW k \in Databases, NEW o \in Objects, cache[k] # NoObj, Begin(k, o)
    PROVE  Wrote(k, "Pending")
  <1> DEFINE p == [cache[k] EXCEPT !.state = "Pending"]
  <1>1. DatabaseTypeOK /\ CopiesAgree(k)
    BY DEF DatabaseInv, DatabaseIs
  <1>2. cache[k] \in Objects
    BY <1>1 DEF DatabaseTypeOK
  <1>3. p \in Objects /\ p.spec = cache[k].spec /\ p.state = "Pending"
    BY <1>2, ObjectState DEF States
  <1>4. CASE news[k] = <<>> /\ Store(k, p)
    <2>1. obj[k] # NoObj /\ SameButPasswords(cache[k].spec, obj[k].spec)
      BY <1>1, <1>4 DEF CopiesAgree, Agree
    <2> HIDE DEF p
    <2>2. QED
      BY <1>3, <1>4, <2>1 DEF Wrote
  <1>5. CASE UNCHANGED <<obj, news>>
    BY <1>5 DEF Wrote
  <1>6. QED
    BY <1>1, <1>4, <1>5, BeginFacts

LEMMA WroteFacts ==
    ASSUME DatabaseInv, NEW k \in Databases, NEW st \in States, Wrote(k, st),
           UNCHANGED <<born, asked>>, events' \in Nat, events <= events',
           exists \subseteq exists', st = "Success" => k \in exists',
           secret'[k] # NoObj /\ secret'[k].owner # Foreign => k \in exists'
    PROVE  /\ SpecIsAsked(k)' /\ IsFirst(k)' /\ UidIsFree(k)'
           /\ \A j \in Databases \ {k} : obj'[j] = obj[j] /\ news'[j] = news[j]
           /\ \/ UNCHANGED <<obj, news>>
              \/ /\ news'[k] # news[k] /\ news'[k] # <<>>
                 /\ news'[k][Len(news'[k])] = obj'[k]
  <1>1. DatabaseTypeOK /\ DatabaseIs(k)
    BY DEF DatabaseInv
  <1>n. born[k] \in Nat /\ events \in Nat
    <2>1. MaxEvents \in Nat
      BY DatabaseSyncAssumption
    <2>2. born[k] \in Uids /\ events \in 0..MaxEvents
      BY <1>1 DEF DatabaseTypeOK
    <2>3. QED
      BY <2>1, <2>2 DEF Uids
  <1>2. CASE UNCHANGED <<obj, news>>
    <2>1. obj' = obj /\ news' = news /\ born' = born /\ asked' = asked
      BY <1>2
    <2>2. UidIsFree(k)'
      BY <1>1, <1>n, <2>1 DEF DatabaseIs, UidIsFree
    <2>3. SpecIsAsked(k)' /\ IsFirst(k)'
      BY <1>1, <2>1 DEF DatabaseIs, SpecIsAsked, IsFirst
    <2>4. \A j \in Databases \ {k} : obj'[j] = obj[j] /\ news'[j] = news[j]
      BY <2>1
    <2>5. QED
      BY <1>2, <2>2, <2>3, <2>4
  <1>3. ASSUME NEW o \in Objects, Store(k, o), o.state = st, obj[k] # NoObj,
               SameButPasswords(o.spec, obj[k].spec)
        PROVE  /\ SpecIsAsked(k)' /\ IsFirst(k)' /\ UidIsFree(k)'
               /\ \A j \in Databases \ {k} : obj'[j] = obj[j] /\ news'[j] = news[j]
               /\ news'[k] # news[k] /\ news'[k] # <<>>
               /\ news'[k][Len(news'[k])] = obj'[k]
    <2>1. /\ obj'[k] = o /\ news'[k] # news[k] /\ news'[k] # <<>>
          /\ news'[k][Len(news'[k])] = obj'[k]
          /\ \A j \in Databases \ {k} : obj'[j] = obj[j] /\ news'[j] = news[j]
      BY <1>1, <1>3, ObjectFields, StoreFacts
    <2>2. o # NoObj
      BY ObjectFields
    <2>3. SpecIsAsked(k)'
      BY <1>1, <1>3, <2>1, <2>2 DEF DatabaseIs, SpecIsAsked, SameButPasswords
    <2>4. IsFirst(k)' /\ UidIsFree(k)'
      BY <1>1, <1>3, <1>n, <2>1, <2>2 DEF DatabaseIs, IsFirst, UidIsFree
    <2>5. QED
      BY <2>1, <2>3, <2>4
  <1>4. QED
    BY <1>2, <1>3 DEF Wrote

\* The copies agree after it, where the sync goes on with one that is current
\* only if it wrote nothing.
LEMMA WroteCopies ==
    ASSUME DatabaseInv, NEW k \in Databases, cache'[k] = cache[k],
           current'[k] => current[k] /\ news'[k] = news[k] /\ snap'[k] = snap[k],
           \/ UNCHANGED <<obj, news>>
           \/ /\ news'[k] # news[k] /\ news'[k] # <<>>
              /\ news'[k][Len(news'[k])] = obj'[k]
    PROVE  CopiesAgree(k)'
  <1>1. CopiesAgree(k)
    BY DEF DatabaseInv, DatabaseIs
  <1>2. CASE UNCHANGED <<obj, news>>
    <2>1. obj'[k] = obj[k] /\ news'[k] = news[k]
      BY <1>2
    <2>2. IF news'[k] = <<>> THEN Agree(cache'[k], obj'[k])
          ELSE news'[k][Len(news'[k])] = obj'[k]
      BY <1>1, <2>1 DEF CopiesAgree
    <2>3. current'[k] => snap'[k] # NoObj /\ Agree(snap'[k], obj'[k])
      BY <1>1, <2>1 DEF CopiesAgree
    <2>4. QED
      BY <2>2, <2>3 DEF CopiesAgree, Agree
  <1>3. CASE news'[k] # news[k] /\ news'[k] # <<>> /\ news'[k][Len(news'[k])] = obj'[k]
    BY <1>3 DEF CopiesAgree
  <1>4. QED
    BY <1>2, <1>3
-----------------------------------------------------------------------------
\* Every action on k keeps the invariant of k, and leaves the others alone.
StepIsWell(k) == OthersStay(k) /\ SqlGrows /\ DatabaseIs(k)'

LEMMA Numbers ==
    ASSUME DatabaseTypeOK, NEW k \in Databases
    PROVE  events \in Nat /\ born[k] \in Nat
  <1>1. MaxEvents \in Nat
    BY DatabaseSyncAssumption
  <1>2. born[k] \in Uids /\ events \in 0..MaxEvents
    BY DEF DatabaseTypeOK
  <1>3. QED
    BY <1>1, <1>2 DEF Uids

LEMMA SyncStays ==
    ASSUME DatabaseInv, NEW k \in Databases, Witness, UNCHANGED <<sqlVars, step, snap, verdict, walkVars>>
    PROVE  SqlGrows /\ InPlace(k)' /\ SeenSoFar(k)'
  <1>1. DatabaseTypeOK /\ PlaceOK /\ DatabaseIs(k)
    BY DEF DatabaseInv, PlaceOK, DatabaseIs
  <1>2. SqlGrows
    BY DEF SqlGrows, sqlVars
  <1>3. /\ step'[k] = step[k] /\ at'[k] = at[k] /\ known'[k] = known[k] /\ snap'[k] = snap[k]
        /\ verdict'[k] = verdict[k]
    BY DEF walkVars
  <1>4. QED
    BY <1>1, <1>2, <1>3, InPlaceStays, SeenStays DEF DatabaseIs

LEMMA EditIsWell ==
    ASSUME DatabaseInv, NEW k \in Databases, Edit(k), Witness
    PROVE  StepIsWell(k)
  <1>t. DatabaseTypeOK /\ DatabaseIs(k)
    BY DEF DatabaseInv
  <1>n. events \in Nat /\ born[k] \in Nat
    BY <1>t, Numbers
  <1>v. /\ obj \in [Databases -> Value] /\ news \in [Databases -> Seq(Value)]
        /\ current \in [Databases -> BOOLEAN] /\ born \in [Databases -> Uids]
        /\ asked \in [Databases -> Specs \cup {NoObj}]
    BY <1>t DEF DatabaseTypeOK, Value
  <1>s. /\ Specs \subseteq SpecType /\ NoObj \notin Specs /\ NoObj \in Value
        /\ (obj[k] # NoObj => obj[k] \in Objects)
    BY <1>v, DatabaseSyncAssumption, NoObjAssumption DEF Value
  <1>1. SqlGrows /\ InPlace(k)' /\ SeenSoFar(k)'
    BY SyncStays DEF Edit
  <1>2. /\ ~current'[k]
        /\ \A j \in Databases \ {k} :
              /\ current'[j] = current[j] /\ cache'[j] = cache[j] /\ secret'[j] = secret[j]
              /\ step'[j] = step[j] /\ at'[j] = at[j] /\ known'[j] = known[j]
              /\ snap'[j] = snap[j] /\ verdict'[j] = verdict[j]
        /\ secret'[k] = secret[k] /\ exists' = exists
    BY <1>v DEF Edit, queueVars, secretVars, walkVars, sqlVars
  <1>3. ASSUME NEW o \in Value, NEW sp \in Specs \cup {NoObj}, Store(k, o),
               asked' = [asked EXCEPT ![k] = sp],
               IF o = NoObj THEN sp = NoObj ELSE sp # NoObj /\ o.spec = sp,
               o # NoObj => o.state # "Success" \/ (obj[k] # NoObj /\ o.state = obj[k].state),
               \A j \in Databases \ {k} : born'[j] = born[j], UidIsFree(k)'
        PROVE  StepIsWell(k)
    <2>1. /\ obj'[k] = o /\ news'[k] # <<>> /\ news'[k][Len(news'[k])] = obj'[k]
          /\ \A j \in Databases \ {k} : obj'[j] = obj[j] /\ news'[j] = news[j]
      BY <1>t, <1>3, StoreFacts
    <2>2. asked'[k] = sp /\ \A j \in Databases \ {k} : asked'[j] = asked[j]
      BY <1>v, <1>3
    <2>3. OthersStay(k)
      BY <1>2, <1>3, <2>1, <2>2 DEF OthersStay
    <2>4. CopiesAgree(k)'
      BY <1>2, <2>1 DEF CopiesAgree
    <2>5. SpecIsAsked(k)'
      BY <1>3, <2>1, <2>2 DEF SpecIsAsked, SameButPasswords
    <2>6. IsFirst(k)'
      BY <1>t, <1>2, <1>3, <2>1 DEF IsFirst, DatabaseIs
    <2>7. QED
      BY <1>1, <1>3, <2>3, <2>4, <2>5, <2>6 DEF StepIsWell, DatabaseIs
  <1>4. ASSUME NEW sp \in Specs, obj[k] # NoObj, Happens,
               Store(k, [obj[k] EXCEPT !.spec = sp]), asked' = [asked EXCEPT ![k] = sp],
               UNCHANGED born
        PROVE  StepIsWell(k)
    <2> DEFINE o == [obj[k] EXCEPT !.spec = sp]
    <2>1. o \in Objects /\ o.spec = sp /\ o.state = obj[k].state
      BY <1>4, <1>s, ObjectSpec
    <2>2. o \in Value /\ o # NoObj
      BY <2>1, ObjectFields
    <2> HIDE DEF o
    <2>3. obj'[k] # NoObj
      BY <1>t, <1>4, <2>2, StoreFacts DEF o
    <2>4. UidIsFree(k)'
      BY <1>n, <1>t, <1>4, <2>3 DEF UidIsFree, Happens, DatabaseIs
    <2>5. Store(k, o)
      BY <1>4 DEF o
    <2>6. QED
      BY <1>3, <1>4, <1>s, <2>1, <2>2, <2>4, <2>5
  <1>5. ASSUME Happens, Store(k, NoObj), asked' = [asked EXCEPT ![k] = NoObj], UNCHANGED born
        PROVE  StepIsWell(k)
    <2>1. UidIsFree(k)'
      BY <1>n, <1>t, <1>5 DEF UidIsFree, Happens, DatabaseIs
    <2>2. QED
      BY <1>3, <1>5, <1>s, <2>1
  <1>6. ASSUME NEW sp \in Specs, obj[k] = NoObj, born' = [born EXCEPT ![k] = @ + 1],
               Store(k, [uid |-> born[k] + 1, spec |-> sp, state |-> ""]),
               asked' = [asked EXCEPT ![k] = sp], UNCHANGED events
        PROVE  StepIsWell(k)
    <2> DEFINE o == [uid |-> born[k] + 1, spec |-> sp, state |-> ""]
    <2>1. born[k] + 1 \in Uids
      <3>1. MaxEvents \in Nat
        BY DatabaseSyncAssumption
      <3>2. born[k] <= events /\ events \in 0..MaxEvents
        BY <1>t, <1>6 DEF DatabaseIs, UidIsFree, DatabaseTypeOK
      <3>3. QED
        BY <1>n, <3>1, <3>2 DEF Uids
    <2>2. o \in Objects
      BY <1>s, <2>1 DEF Objects, States
    <2>3. o \in Value /\ o # NoObj
      BY <2>2, ObjectFields
    <2>4. obj'[k] # NoObj
      BY <1>t, <1>6, <2>3, StoreFacts
    <2>5. o.spec = sp /\ o.state # "Success"
      OBVIOUS
    <2>6. UidIsFree(k)' /\ \A j \in Databases \ {k} : born'[j] = born[j]
      <3>1. born'[k] = born[k] + 1 /\ \A j \in Databases \ {k} : born'[j] = born[j]
        BY <1>v, <1>6
      <3>2. born[k] <= events
        BY <1>t, <1>6 DEF DatabaseIs, UidIsFree
      <3>3. events' = events
        BY <1>6
      <3>4. born'[k] <= events' + 1
        BY <1>n, <3>1, <3>2, <3>3
      <3>5. QED
        BY <2>4, <3>1, <3>4 DEF UidIsFree
    <2>7. Store(k, o)
      BY <1>6
    <2> HIDE DEF o
    <2>8. QED
      BY <1>3, <1>6, <1>s, <2>3, <2>5, <2>6, <2>7
  <1>7. QED
    BY <1>4, <1>5, <1>6 DEF Edit

LEMMA OutsideIsWell ==
    ASSUME DatabaseInv, NEW k \in Databases, Witness,
           \/ UserSecret(k) \/ InputsArrive(k) \/ Deliver(k) \/ DeliverSecret(k)
           \/ Resync(k) \/ StartGone(k)
    PROVE  StepIsWell(k)
  <1>t. DatabaseTypeOK /\ DatabaseIs(k)
    BY DEF DatabaseInv
  <1>n. events \in Nat /\ born[k] \in Nat
    BY <1>t, Numbers
  <1>1. UNCHANGED <<obj, born, asked, sqlVars, step, snap, current, verdict, walkVars>>
    BY DEF UserSecret, InputsArrive, Deliver, DeliverSecret, Resync, StartGone,
           apiVars, syncVars
  <1>2. SqlGrows /\ InPlace(k)' /\ SeenSoFar(k)' /\ SpecIsAsked(k)'
    BY <1>1, <1>t, SyncStays DEF DatabaseIs, SpecIsAsked
  <1>3. UidIsFree(k)'
    <2>1. events' = events \/ events' = events + 1
      BY DEF UserSecret, InputsArrive, Deliver, DeliverSecret, Resync, StartGone, Happens
    <2>2. born' = born /\ obj' = obj
      BY <1>1
    <2>3. QED
      BY <1>n, <1>t, <2>1, <2>2 DEF DatabaseIs, UidIsFree
  <1>4. IsFirst(k)' /\ \A j \in Databases \ {k} : secret'[j] = secret[j]
    <2>1. CASE UserSecret(k)
      <3>1. PICK c \in {ForeignSecret, NoObj} : StoreSecret(k, c)
        BY <2>1 DEF UserSecret
      <3>2. c \in Secrets \cup {NoObj} /\ (c # NoObj => c.owner = Foreign)
        <4>1. ForeignSecret \in Secrets /\ ForeignSecret.owner = Foreign
          BY DEF ForeignSecret, Secrets
        <4>2. QED
          BY <4>1
      <3>3. secret'[k] = c /\ \A j \in Databases \ {k} : secret'[j] = secret[j]
        BY <1>t, <3>1, <3>2, StoreSecretFacts
      <3>4. obj' = obj /\ exists' = exists
        BY <1>1 DEF sqlVars
      <3>5. QED
        BY <1>t, <3>2, <3>3, <3>4 DEF DatabaseIs, IsFirst
    <2>2. CASE UNCHANGED secret
      BY <1>1, <1>t, <2>2 DEF DatabaseIs, IsFirst, sqlVars
    <2>3. QED
      BY <2>1, <2>2 DEF InputsArrive, Deliver, DeliverSecret, Resync, StartGone, secretVars
  <1>5. CopiesAgree(k)' /\ \A j \in Databases \ {k} : news'[j] = news[j] /\ cache'[j] = cache[j]
    <2>1. CASE Deliver(k)
      <3>1. /\ news \in [Databases -> Seq(Value)] /\ cache \in [Databases -> Value]
            /\ news[k] # <<>>
        BY <1>t, <2>1 DEF Deliver, DatabaseTypeOK, Value
      <3>2. cache' = [cache EXCEPT ![k] = Head(news[k])] /\ news' = [news EXCEPT ![k] = Tail(news[k])]
        BY <2>1 DEF Deliver
      <3>3. /\ cache'[k] = Head(news[k]) /\ news'[k] = Tail(news[k])
            /\ \A j \in Databases \ {k} : news'[j] = news[j] /\ cache'[j] = cache[j]
        BY <3>1, <3>2
      <3>4. /\ news'[k] = <<>> => cache'[k] = obj[k]
            /\ news'[k] # <<>> => news'[k][Len(news'[k])] = obj[k]
        <4>1. news[k][Len(news[k])] = obj[k]
          BY <1>t, <3>1 DEF DatabaseIs, CopiesAgree
        <4>2. news[k] \in Seq(Value)
          BY <3>1
        <4>3. QED
          BY <3>1, <3>3, <4>1, <4>2, TailLast
      <3>5. QED
        BY <1>1, <1>t, <3>3, <3>4 DEF DatabaseIs, CopiesAgree, Agree, SameButPasswords
    <2>2. CASE UNCHANGED <<news, cache>>
      BY <1>1, <1>t, <2>2 DEF DatabaseIs, CopiesAgree, Agree
    <2>3. QED
      BY <2>1, <2>2 DEF UserSecret, InputsArrive, DeliverSecret, Resync, StartGone,
                        apiVars, queueVars
  <1>6. OthersStay(k)
    BY <1>1, <1>4, <1>5 DEF OthersStay, walkVars
  <1>7. QED
    BY <1>2, <1>3, <1>4, <1>5, <1>6 DEF StepIsWell, DatabaseIs

\* A change of a source, and no step at all, concern no Database.
LEMMA RestIsWell ==
    ASSUME DatabaseInv, NEW k \in Databases,
           \/ UNCHANGED vars
           \/ /\ Witness
              /\ \E f \in Sources : Rotate(f) \/ SourceArrives(f)
    PROVE  DatabaseIs(k)'
  <1>t. DatabaseTypeOK /\ PlaceOK /\ DatabaseIs(k)
    BY DEF DatabaseInv, PlaceOK, DatabaseIs
  <1>n. events \in Nat /\ born[k] \in Nat
    BY <1>t, Numbers
  <1>1. UNCHANGED <<apiVars, secret, sqlVars, cache, syncVars>>
    BY DEF Rotate, SourceArrives, vars, secretVars, queueVars
  <1>2. UidIsFree(k)'
    <2>1. events' = events \/ events' = events + 1
      BY DEF Rotate, SourceArrives, Happens, vars
    <2>2. born' = born /\ obj' = obj
      BY <1>1 DEF apiVars
    <2>3. QED
      BY <1>n, <1>t, <2>1, <2>2 DEF DatabaseIs, UidIsFree
  <1>3. CopiesAgree(k)' /\ SpecIsAsked(k)' /\ IsFirst(k)'
    BY <1>1, <1>t DEF DatabaseIs, CopiesAgree, Agree, SpecIsAsked, IsFirst,
                      apiVars, sqlVars, syncVars
  <1>4. SqlGrows /\ step'[k] = step[k] /\ at'[k] = at[k] /\ known'[k] = known[k]
        /\ snap'[k] = snap[k] /\ verdict'[k] = verdict[k]
    BY <1>1 DEF SqlGrows, sqlVars, syncVars, walkVars
  <1>5. InPlace(k)'
    BY <1>t, <1>4, InPlaceStays
  <1>6. SeenSoFar(k)'
    <2>1. CASE Witness
      BY <1>t, <1>4, <2>1, SeenStays DEF DatabaseIs
    <2>2. CASE UNCHANGED vars
      BY <1>t, <1>4, <2>2 DEF DatabaseIs, SeenSoFar, HasSeen, UsersOf, vars
    <2>3. QED
      BY <2>1, <2>2
  <1>7. QED
    BY <1>2, <1>3, <1>5, <1>6 DEF DatabaseIs

\* After a restart no sync is under way, and the cache is the API server's.
LEMMA RestartIsWell ==
    ASSUME DatabaseInv, Restart, events' = events \/ Happens, NEW j \in Databases,
           \/ obj'[j] = obj[j]
           \/ /\ obj'[j] \in Objects /\ obj[j] # NoObj
              /\ obj'[j].state # "Success"
              /\ SameButPasswords(obj'[j].spec, obj[j].spec)
    PROVE  DatabaseIs(j)'
  <1>t. DatabaseTypeOK /\ DatabaseIs(j)
    BY DEF DatabaseInv
  <1>n. events \in Nat /\ born[j] \in Nat
    BY <1>t, Numbers
  <1>1. /\ step'[j] = "idle" /\ verdict'[j] = "" /\ known'[j] = {} /\ ~current'[j]
        /\ news'[j] = <<>> /\ cache'[j] = obj'[j]
        /\ UNCHANGED <<born, asked, secret, exists>>
    BY DEF Restart, sqlVars
  <1>2. InPlace(j)' /\ SeenSoFar(j)'
    BY <1>1 DEF InPlace, SeenSoFar
  <1>3. CopiesAgree(j)'
    BY <1>1 DEF CopiesAgree, Agree, SameButPasswords
  <1>4. obj'[j] = NoObj <=> obj[j] = NoObj
    BY ObjectFields
  <1>5. SpecIsAsked(j)'
    BY <1>t, <1>1, <1>4 DEF DatabaseIs, SpecIsAsked, SameButPasswords
  <1>6. IsFirst(j)'
    BY <1>t, <1>1, <1>4 DEF DatabaseIs, IsFirst
  <1>7. UidIsFree(j)'
    <2>1. events' = events \/ events' = events + 1
      BY DEF Happens
    <2>2. born[j] <= events + 1 /\ (obj'[j] = NoObj => born[j] <= events)
      BY <1>t, <1>4 DEF DatabaseIs, UidIsFree
    <2>3. born'[j] = born[j]
      BY <1>1
    <2>4. QED
      BY <1>n, <2>1, <2>2, <2>3 DEF UidIsFree
  <1>8. QED
    BY <1>2, <1>3, <1>5, <1>6, <1>7 DEF DatabaseIs

LEMMA BeginIsWell ==
    ASSUME DatabaseInv, NEW k \in Databases, NEW o \in Objects, cache[k] # NoObj,
           Begin(k, o), SameButPasswords(o.spec, cache[k].spec)
    PROVE  /\ CopiesAgree(k)' /\ SpecIsAsked(k)' /\ IsFirst(k)' /\ UidIsFree(k)'
           /\ SqlGrows /\ account' = account /\ exists' = exists
           /\ snap'[k] = o /\ o # NoObj
           /\ \A j \in Databases \ {k} :
                 /\ obj'[j] = obj[j] /\ news'[j] = news[j] /\ cache'[j] = cache[j]
                 /\ born'[j] = born[j] /\ asked'[j] = asked[j] /\ secret'[j] = secret[j]
                 /\ snap'[j] = snap[j] /\ current'[j] = current[j]
  <1>t. DatabaseTypeOK /\ DatabaseIs(k)
    BY DEF DatabaseInv
  <1>n. events \in Nat /\ events' = events
    BY <1>t, Numbers DEF Begin
  <1>1. /\ exists' = exists /\ account' = account /\ secret' = secret
        /\ born' = born /\ asked' = asked
    BY DEF Begin, Greet, sqlVars, secretVars
  <1>2. Wrote(k, "Pending")
    BY BeginWrites
  <1>3. secret'[k] # NoObj /\ secret'[k].owner # Foreign => k \in exists'
    BY <1>1, <1>t DEF DatabaseIs, IsFirst
  <1>4. /\ SpecIsAsked(k)' /\ IsFirst(k)' /\ UidIsFree(k)'
        /\ \A j \in Databases \ {k} : obj'[j] = obj[j] /\ news'[j] = news[j]
        /\ \/ UNCHANGED <<obj, news>>
           \/ /\ news'[k] # news[k] /\ news'[k] # <<>>
              /\ news'[k][Len(news'[k])] = obj'[k]
    <2>1. /\ "Pending" \in States /\ "Pending" # "Success" /\ exists \subseteq exists'
          /\ events' \in Nat /\ events <= events' /\ UNCHANGED <<born, asked>>
      BY <1>1, <1>n DEF States
    <2>2. QED
      BY <1>2, <1>3, <2>1, WroteFacts
  <1>5. /\ snap'[k] = o /\ cache'[k] = o
        /\ \A j \in Databases \ {k} :
              snap'[j] = snap[j] /\ cache'[j] = cache[j] /\ current'[j] = current[j]
        /\ current'[k] => news[k] = <<>> /\ obj'[k] = obj[k]
    BY <1>t, BeginFacts
  <1>6. o # NoObj
    BY ObjectFields
  <1>7. CopiesAgree(k)'
    <2>1. news[k] = <<>> => obj[k] # NoObj /\ SameButPasswords(o.spec, obj[k].spec)
      BY <1>t DEF DatabaseIs, CopiesAgree, Agree, SameButPasswords
    <2>2. CASE UNCHANGED <<obj, news>>
      <3>1. obj'[k] = obj[k] /\ news'[k] = news[k]
        BY <2>2
      <3>2. news[k] # <<>> => news[k][Len(news[k])] = obj[k]
        BY <1>t DEF DatabaseIs, CopiesAgree
      <3>3. QED
        BY <1>5, <1>6, <2>1, <3>1, <3>2 DEF CopiesAgree, Agree, SameButPasswords
    <2>3. CASE /\ news'[k] # news[k] /\ news'[k] # <<>>
               /\ news'[k][Len(news'[k])] = obj'[k]
      BY <1>5, <1>6, <2>1, <2>3 DEF CopiesAgree, Agree, SameButPasswords
    <2>4. QED
      BY <1>4, <2>2, <2>3
  <1>8. SqlGrows
    BY <1>1 DEF SqlGrows
  <1>9. QED
    BY <1>1, <1>4, <1>5, <1>6, <1>7, <1>8

LEMMA StartIsWell ==
    ASSUME DatabaseInv, NEW k \in Databases, Witness, StartInVain(k) \/ StartSync(k)
    PROVE  StepIsWell(k)
  <1>t. DatabaseTypeOK /\ DatabaseIs(k) /\ step[k] = "idle"
    BY DEF DatabaseInv, StartInVain, StartSync, Take
  <1>v. /\ step \in [Databases -> Steps] /\ verdict \in [Databases -> States]
        /\ exists \subseteq Databases
    BY <1>t DEF DatabaseTypeOK
  <1>c. cache[k] \in Objects /\ cache[k] # NoObj /\ source \in [Sources -> Contents]
    BY <1>t DEF StartInVain, StartSync, DatabaseTypeOK
  <1>f. /\ FilledObject(cache[k]) \in Objects
        /\ SameButPasswords(FilledObject(cache[k]).spec, cache[k].spec)
        /\ Plugin(FilledObject(cache[k]).spec) = Plugin(cache[k].spec)
        /\ SameButPasswords(cache[k].spec, cache[k].spec)
    BY <1>c, FilledFields DEF SameButPasswords
  <1>w. UNCHANGED walkVars
    BY DEF StartInVain, StartSync
  <1>1. CASE StartInVain(k)
    <2>1. PICK o \in Objects, st \in {"Pending", "Error"} :
              Begin(k, o) /\ Conclude(k, st) /\ SameButPasswords(o.spec, cache[k].spec)
      BY <1>1, <1>c, <1>f DEF StartInVain, NoDsn, FilledObject
    <2>2. st \in States /\ st # "Success"
      BY DEF States
    <2>3. /\ step'[k] = "report" /\ verdict'[k] = st
          /\ \A j \in Databases \ {k} : step'[j] = step[j] /\ verdict'[j] = verdict[j]
      BY <1>t, <2>1, <2>2, ConcludeFacts
    <2>4. /\ CopiesAgree(k)' /\ SpecIsAsked(k)' /\ IsFirst(k)' /\ UidIsFree(k)'
          /\ SqlGrows /\ account' = account /\ exists' = exists
          /\ snap'[k] = o /\ o # NoObj
          /\ \A j \in Databases \ {k} :
                /\ obj'[j] = obj[j] /\ news'[j] = news[j] /\ cache'[j] = cache[j]
                /\ born'[j] = born[j] /\ asked'[j] = asked[j] /\ secret'[j] = secret[j]
                /\ snap'[j] = snap[j] /\ current'[j] = current[j]
      BY <1>c, <2>1, BeginIsWell
    <2>5. InPlace(k)' /\ SeenSoFar(k)'
      BY <1>t, <1>w, <2>2, <2>3, <2>4 DEF DatabaseIs, InPlace, SeenSoFar, walkVars
    <2>6. OthersStay(k)
      BY <1>w, <2>3, <2>4 DEF OthersStay, walkVars
    <2>7. QED
      BY <2>4, <2>5, <2>6 DEF StepIsWell, DatabaseIs
  <1>2. CASE StartSync(k)
    <2> DEFINE o == FilledObject(cache[k])
               s == IF Plugin(cache[k].spec) = "mysql" \/ k \notin exists
                    THEN "create" ELSE "list"
    <2>1. Begin(k, o) /\ step' = [step EXCEPT ![k] = s] /\ verdict' = verdict
      BY <1>2 DEF StartSync, FilledObject, GoTo
    <2>2. s \in {"create", "list"} /\ (s = "list" => Plugin(o.spec) # "mysql" /\ k \in exists)
      BY <1>f
    <2>3. /\ CopiesAgree(k)' /\ SpecIsAsked(k)' /\ IsFirst(k)' /\ UidIsFree(k)'
          /\ SqlGrows /\ account' = account /\ exists' = exists
          /\ snap'[k] = o /\ o # NoObj
          /\ \A j \in Databases \ {k} :
                /\ obj'[j] = obj[j] /\ news'[j] = news[j] /\ cache'[j] = cache[j]
                /\ born'[j] = born[j] /\ asked'[j] = asked[j] /\ secret'[j] = secret[j]
                /\ snap'[j] = snap[j] /\ current'[j] = current[j]
      <3> HIDE DEF o
      <3>1. o \in Objects /\ SameButPasswords(o.spec, cache[k].spec)
        BY <1>f DEF o
      <3>2. QED
        BY <1>c, <2>1, <3>1, BeginIsWell
    <2> HIDE DEF o, s
    <2>4. step'[k] = s /\ \A j \in Databases \ {k} : step'[j] = step[j]
      BY <1>v, <2>1
    <2>5. verdict[k] # "Success" /\ verdict'[k] = verdict[k]
      BY <1>t, <2>1 DEF DatabaseIs, InPlace
    <2>6. InPlace(k)' /\ SeenSoFar(k)'
      BY <1>t, <1>w, <2>2, <2>3, <2>4, <2>5 DEF DatabaseIs, InPlace, SeenSoFar, walkVars
    <2>7. OthersStay(k)
      BY <1>w, <2>1, <2>3, <2>4 DEF OthersStay, walkVars
    <2>8. QED
      BY <2>3, <2>6, <2>7 DEF StepIsWell, DatabaseIs
  <1>3. QED
    BY <1>1, <1>2

LEMMA PanicIsWell ==
    ASSUME DatabaseInv, NEW k \in Databases, StartPanics(k) \/ SecretPanics(k), NEW j \in Databases
    PROVE  DatabaseIs(j)'
  <1>t. DatabaseTypeOK /\ DatabaseIs(k)
    BY DEF DatabaseInv
  <1>1. Restart /\ (events' = events \/ Happens)
    BY DEF StartPanics, SecretPanics
  <1>2. CASE obj' = obj
    BY <1>1, <1>2, RestartIsWell
  <1>3. CASE /\ cache[k] # NoObj /\ news[k] = <<>>
             /\ obj' = [obj EXCEPT ![k] = [cache[k] EXCEPT !.state = "Pending"]]
    <2> DEFINE o == [cache[k] EXCEPT !.state = "Pending"]
    <2>1. cache[k] \in Objects /\ obj \in [Databases -> Value]
      BY <1>3, <1>t DEF DatabaseTypeOK, Value
    <2>2. o \in Objects /\ o.spec = cache[k].spec /\ o.state # "Success"
      BY <2>1, ObjectState DEF States
    <2>3. obj[k] # NoObj /\ SameButPasswords(cache[k].spec, obj[k].spec)
      BY <1>3, <1>t DEF DatabaseIs, CopiesAgree, Agree
    <2>4. obj' = [obj EXCEPT ![k] = o]
      BY <1>3
    <2> HIDE DEF o
    <2>5. \/ obj'[j] = obj[j]
          \/ /\ obj'[j] \in Objects /\ obj[j] # NoObj /\ obj'[j].state # "Success"
             /\ SameButPasswords(obj'[j].spec, obj[j].spec)
      BY <2>1, <2>2, <2>3, <2>4
    <2>6. QED
      BY <1>1, <2>5, RestartIsWell
  <1>4. QED
    <2>1. CASE SecretPanics(k)
      BY <1>2, <2>1 DEF SecretPanics
    <2>2. CASE StartPanics(k)
      <3>1. PICK o \in {obj[k], [cache[k] EXCEPT !.state = "Pending"]} :
                /\ o # obj[k] => cache[k].state = "" /\ news[k] = <<>>
                /\ obj' = [obj EXCEPT ![k] = o]
        BY <2>2 DEF StartPanics
      <3>2. CASE o = obj[k]
        BY <1>2, <1>t, <3>1, <3>2 DEF DatabaseTypeOK
      <3>3. CASE o # obj[k]
        BY <1>3, <2>2, <3>1, <3>3 DEF StartPanics
      <3>4. QED
        BY <3>2, <3>3
    <2>3. QED
      BY <2>1, <2>2

\* What a statement has made so is seen: the role after CREATE or the first
\* ALTER, the password after CREATE or the second.
LEMMA StatementIsSeen ==
    ASSUME DatabaseInv, NEW k \in Databases, Witness, step[k] \in {"user", "password"},
           Valid(k), Effect(k), Continue(k), UNCHANGED snap,
           Plugin(snap[k].spec) = "postgres", SeenSoFar(k)
    PROVE  /\ seen[k] \subseteq seen'[k]
           /\ <<at[k], "role">> \in seen'[k]
           /\ step'[k] # "password" => <<at[k], "password">> \in seen'[k]
  <1>1. DatabaseTypeOK /\ PlaceOK /\ step[k] \in SqlSteps /\ step[k] # "idle"
    BY DEF DatabaseInv, PlaceOK, DatabaseIs, SqlSteps
  <1>2. /\ step'[k] \in {"user", "password", "secret"}
        /\ step'[k] = "password" <=> step[k] = "user" /\ ~Unknown(k)
    BY <1>1, ContinueFacts
  <1>3. Looks(k) /\ Looks(k)'
    BY <1>1, <1>2 DEF Looks, SqlSteps
  <1>4. seen'[k] = seen[k] \cup Matches(k)'
    BY <1>3 DEF Witness
  <1>5. UsersOf(k)' = UsersOf(k) /\ UsersOf(k)[at[k]] = User(k)
        /\ at[k] \in 1..Len(UsersOf(k))
    BY <1>1 DEF UsersOf, User, PlaceOK, InPlace
  <1>6. /\ step[k] = "user" =>
              /\ account'[User(k).name] # NoObj
              /\ account'[User(k).name].role = User(k).role
              /\ Unknown(k) => account'[User(k).name].password = User(k).password
        /\ step[k] = "password" =>
              /\ account'[User(k).name] # NoObj
              /\ account'[User(k).name].password = User(k).password
    BY <1>1, EffectFacts
  <1>7. step[k] = "user" => <<at[k], "role">> \in Matches(k)'
    BY <1>5, <1>6 DEF Matches
  <1>8. (step[k] = "user" /\ Unknown(k)) \/ step[k] = "password"
        => <<at[k], "password">> \in Matches(k)'
    BY <1>5, <1>6 DEF Matches
  <1>9. step[k] = "password" => <<at[k], "role">> \in seen[k]
    BY DEF SeenSoFar
  <1>10. QED
    BY <1>2, <1>4, <1>7, <1>8, <1>9

LEMMA ContinueIsSeen ==
    ASSUME DatabaseInv, NEW k \in Databases, Witness, step[k] \in SqlSteps,
           Valid(k), Effect(k), Continue(k), UNCHANGED <<snap, verdict>>
    PROVE  SeenSoFar(k)'
  <1>1. DatabaseTypeOK /\ PlaceOK /\ InPlace(k) /\ SeenSoFar(k) /\ step[k] # "idle"
    BY DEF DatabaseInv, PlaceOK, DatabaseIs, SqlSteps
  <1>2. /\ step'[k] \in {"user", "password", "secret"}
        /\ step'[k] = "password" <=> step[k] = "user" /\ ~Unknown(k)
        /\ step'[k] = "password" => at'[k] = at[k]
        /\ step'[k] = "user" => at'[k] = IF step[k] \in {"create", "list"} THEN 1
                                         ELSE at[k] + 1
        /\ step'[k] = "secret" =>
              \/ Plugin(snap[k].spec) = "mysql"
              \/ step[k] \in {"create", "list"} /\ UsersOf(k) = <<>>
              \/ step[k] \in {"user", "password"} /\ at[k] = Len(UsersOf(k))
    BY <1>1, ContinueFacts
  <1>3. UsersOf(k)' = UsersOf(k) /\ snap'[k] = snap[k] /\ verdict'[k] # "Success"
        /\ UsersOf(k) \in Seq(Users)
    BY <1>1, CopyFields DEF UsersOf, InPlace, SqlSteps
  <1>4. Len(UsersOf(k)) \in Nat
    BY <1>3
  <1> SUFFICES ASSUME Plugin(snap[k].spec) = "postgres" PROVE SeenSoFar(k)'
    BY <1>3 DEF SeenSoFar, Plugin
  <1>5. CASE step[k] \in {"create", "list"}
    <2>1. step'[k] # "password"
      BY <1>2, <1>5
    <2>2. step'[k] = "secret" => Len(UsersOf(k)) = 0
      BY <1>2, <1>5
    <2>3. step'[k] = "user" => at'[k] = 1
      BY <1>2, <1>5
    <2>4. QED
      BY <1>3, <1>4, <2>1, <2>2, <2>3 DEF SeenSoFar
  <1>6. CASE step[k] \in {"user", "password"}
    <2>1. /\ seen[k] \subseteq seen'[k] /\ <<at[k], "role">> \in seen'[k]
          /\ step'[k] # "password" => <<at[k], "password">> \in seen'[k]
      BY <1>1, <1>6, StatementIsSeen
    <2>2. at[k] \in 1..Len(UsersOf(k))
      BY <1>1, <1>6 DEF InPlace
    <2>3. \A i \in 1..Len(UsersOf(k)) : i < at[k] => HasSeen(k, i)'
      BY <1>1, <1>6, <2>1 DEF SeenSoFar, HasSeen
    <2>4. step'[k] # "password" =>
              \A i \in 1..Len(UsersOf(k)) : i < at[k] + 1 => HasSeen(k, i)'
      <3>1. SUFFICES ASSUME step'[k] # "password", NEW i \in 1..Len(UsersOf(k)), i < at[k] + 1
                     PROVE  HasSeen(k, i)'
        OBVIOUS
      <3>2. i < at[k] \/ i = at[k]
        BY <1>4, <2>2, <3>1
      <3>3. QED
        BY <2>1, <2>3, <3>1, <3>2 DEF HasSeen
    <2>5. step'[k] = "secret" => \A i \in 1..Len(UsersOf(k)) : HasSeen(k, i)'
      <3>1. SUFFICES ASSUME step'[k] = "secret", NEW i \in 1..Len(UsersOf(k))
                     PROVE  HasSeen(k, i)'
        OBVIOUS
      <3>2. at[k] = Len(UsersOf(k))
        BY <1>2, <1>6, <3>1
      <3>3. i < at[k] + 1
        BY <1>4, <3>2
      <3>4. QED
        BY <2>4, <3>1, <3>3
    <2>6. step'[k] = "user" => at'[k] = at[k] + 1
      BY <1>2, <1>6
    <2>7. QED
      BY <1>2, <1>3, <2>1, <2>3, <2>4, <2>5, <2>6 DEF SeenSoFar
  <1>7. QED
    BY <1>5, <1>6 DEF SqlSteps

LEMMA SqlIsWell ==
    ASSUME DatabaseInv, NEW k \in Databases, Witness,
           SqlStep(k) \/ SqlRefused(k) \/ SqlFails(k)
    PROVE  StepIsWell(k)
  <1>1. /\ DatabaseTypeOK /\ PlaceOK /\ DatabaseIs(k)
        /\ step[k] \in SqlSteps /\ step[k] # "idle"
    BY DEF DatabaseInv, PlaceOK, DatabaseIs, SqlStep, SqlRefused, SqlFails, SqlSteps
  <1>n. events \in Nat /\ born[k] \in Nat
    BY <1>1, Numbers
  <1>2. UNCHANGED <<obj, news, born, asked, cache, secret, snap, current>>
    BY DEF SqlStep, SqlRefused, SqlFails, apiVars, secretVars, queueVars
  <1>3. SqlGrows /\ ((Effect(k) /\ Valid(k)) \/ UNCHANGED sqlVars)
    <2>1. CASE UNCHANGED sqlVars
      BY <2>1 DEF SqlGrows, sqlVars
    <2>2. CASE Effect(k) /\ Valid(k)
      BY <1>1, <2>2, EffectFacts DEF SqlGrows
    <2>3. QED
      BY <2>1, <2>2 DEF SqlStep, SqlRefused, SqlFails
  <1>4. CopiesAgree(k)' /\ SpecIsAsked(k)' /\ IsFirst(k)'
    <2>1. CopiesAgree(k)'
      BY <1>1, <1>2 DEF DatabaseIs, CopiesAgree, Agree
    <2>2. SpecIsAsked(k)' /\ IsFirst(k)'
      BY <1>1, <1>2, <1>3 DEF DatabaseIs, SpecIsAsked, IsFirst, SqlGrows
    <2>3. QED
      BY <2>1, <2>2
  <1>5. UidIsFree(k)'
    <2>1. events' = events \/ events' = events + 1
      BY DEF SqlStep, SqlRefused, SqlFails, Happens
    <2>2. born' = born /\ obj' = obj
      BY <1>2
    <2>3. QED
      BY <1>n, <1>1, <2>1, <2>2 DEF DatabaseIs, UidIsFree
  <1>6. CASE Conclude(k, "Error") /\ Leave(k)
    <2>1. /\ step'[k] = "report" /\ verdict'[k] = "Error" /\ known'[k] = {}
          /\ snap'[k] = snap[k]
          /\ \A j \in Databases \ {k} :
                /\ step'[j] = step[j] /\ verdict'[j] = verdict[j]
                /\ at'[j] = at[j] /\ known'[j] = known[j]
      BY <1>1, <1>2, <1>6, ConcludeFacts, LeaveFacts DEF States
    <2>2. InPlace(k)' /\ SeenSoFar(k)'
      BY <1>1, <2>1 DEF DatabaseIs, InPlace, SeenSoFar
    <2>3. OthersStay(k)
      BY <1>2, <2>1 DEF OthersStay
    <2>4. QED
      BY <1>3, <1>4, <1>5, <2>2, <2>3 DEF StepIsWell, DatabaseIs
  <1>7. CASE Effect(k) /\ Valid(k) /\ Continue(k) /\ UNCHANGED verdict
    <2>1. /\ step'[k] \in {"user", "password", "secret"}
          /\ step'[k] \in {"user", "password"} => Plugin(snap[k].spec) # "mysql"
          /\ step'[k] = "password" <=> step[k] = "user" /\ ~Unknown(k)
          /\ step'[k] = "password" => at'[k] = at[k]
          /\ step'[k] = "user" => at'[k] \in 1..Len(UsersOf(k))
          /\ known'[k] \subseteq Accounts
          /\ \A u \in known'[k] : account[u] # NoObj
          /\ \A j \in Databases \ {k} :
                /\ step'[j] = step[j] /\ at'[j] = at[j] /\ known'[j] = known[j]
      BY <1>1, <1>7, ContinueFacts
    <2>2. /\ step[k] = "create" => k \in exists'
          /\ step[k] = "user" => account'[User(k).name] # NoObj
      BY <1>1, <1>7, EffectFacts
    <2>3. k \in exists'
      BY <1>1, <1>3, <2>2 DEF SqlGrows, DatabaseIs, InPlace, SqlSteps
    <2>4. /\ snap'[k] = snap[k] /\ snap[k] # NoObj /\ verdict'[k] # "Success"
          /\ UsersOf(k)' = UsersOf(k)
      BY <1>1, <1>2, <1>7 DEF DatabaseIs, InPlace, SqlSteps, UsersOf
    <2>5. step'[k] = "password" => at[k] \in 1..Len(UsersOf(k)) /\ User(k)' = User(k)
      BY <1>1, <2>1, <2>4 DEF DatabaseIs, InPlace, User
    <2>6. \A u \in known'[k] : account'[u] # NoObj
      BY <1>3, <2>1 DEF SqlGrows
    <2>7. InPlace(k)'
      BY <2>1, <2>2, <2>3, <2>4, <2>5, <2>6 DEF InPlace, Plugin
    <2>8. SeenSoFar(k)'
      BY <1>1, <1>2, <1>7, ContinueIsSeen
    <2>9. OthersStay(k)
      BY <1>2, <1>7, <2>1 DEF OthersStay
    <2>10. QED
      BY <1>3, <1>4, <1>5, <2>7, <2>8, <2>9 DEF StepIsWell, DatabaseIs
  <1>8. QED
    BY <1>6, <1>7 DEF SqlStep, SqlRefused, SqlFails

\* The end of a sync: a verdict, or the last write of the status.
LEMMA SecretIsWell ==
    ASSUME DatabaseInv, NEW k \in Databases, Witness,
           FindSecret(k) \/ CreateSecret(k) \/ CreateFails(k)
    PROVE  StepIsWell(k)
  <1>1. /\ DatabaseTypeOK /\ PlaceOK /\ DatabaseIs(k)
        /\ step[k] = "secret" /\ k \in exists /\ snap[k] # NoObj
    BY DEF DatabaseInv, PlaceOK, DatabaseIs, InPlace, FindSecret, CreateSecret, CreateFails
  <1>n. events \in Nat /\ born[k] \in Nat
    BY <1>1, Numbers
  <1>2. UNCHANGED <<born, asked, cache, snap, exists, account>>
    BY DEF FindSecret, CreateSecret, CreateFails, apiVars, queueVars, sqlVars
  <1>3. PICK st \in {"Success", "Error"} : Conclude(k, st)
    BY DEF FindSecret, CreateSecret, CreateFails
  <1>4. Leave(k)
    BY DEF FindSecret, CreateSecret, CreateFails
  <1>5. /\ step'[k] = "report" /\ verdict'[k] = st /\ known'[k] = {}
        /\ \A j \in Databases \ {k} :
              /\ step'[j] = step[j] /\ verdict'[j] = verdict[j]
              /\ at'[j] = at[j] /\ known'[j] = known[j]
    BY <1>1, <1>3, <1>4, ConcludeFacts, LeaveFacts DEF States
  <1>6. InPlace(k)'
    BY <1>1, <1>2, <1>5 DEF InPlace
  <1>7. SeenSoFar(k)'
    <2>1. snap'[k] = snap[k] /\ UsersOf(k)' = UsersOf(k)
      BY <1>2 DEF UsersOf
    <2>2. verdict'[k] = "Success" => seen[k] \subseteq seen'[k]
      BY DEF Looks, Witness
    <2>3. QED
      BY <1>1, <1>5, <2>1, <2>2 DEF DatabaseIs, SeenSoFar, HasSeen, Plugin
  <1>8. SqlGrows
    BY <1>2 DEF SqlGrows
  <1>9. /\ secret'[k] # NoObj /\ secret'[k].owner # Foreign => k \in exists'
        /\ \A j \in Databases \ {k} : secret'[j] = secret[j]
    <2>1. CASE CreateSecret(k)
      BY <1>1, <1>2, <2>1 DEF CreateSecret, StoreSecret, DatabaseTypeOK
    <2>2. CASE UNCHANGED secret
      BY <1>1, <1>2, <2>2
    <2>3. QED
      BY <2>1, <2>2 DEF FindSecret, CreateFails, secretVars
  <1>10. Wrote(k, "Error")
    <2>1. CASE UNCHANGED <<obj, news>>
      BY <2>1 DEF Wrote
    <2>2. CASE WriteStatus(k, "Error")
      BY <1>1, <2>2, StatusWrites DEF States
    <2>3. QED
      BY <2>1, <2>2 DEF FindSecret, CreateSecret, CreateFails, apiVars
  <1>11. /\ SpecIsAsked(k)' /\ IsFirst(k)' /\ UidIsFree(k)'
         /\ \A j \in Databases \ {k} : obj'[j] = obj[j] /\ news'[j] = news[j]
         /\ \/ UNCHANGED <<obj, news>>
            \/ /\ news'[k] # news[k] /\ news'[k] # <<>>
               /\ news'[k][Len(news'[k])] = obj'[k]
    <2>1. events' = events \/ events' = events + 1
      BY DEF FindSecret, CreateSecret, CreateFails, Happens
    <2>2. /\ "Error" \in States /\ "Error" # "Success" /\ exists \subseteq exists'
          /\ events' \in Nat /\ events <= events' /\ UNCHANGED <<born, asked>>
      BY <1>2, <1>n, <2>1 DEF States
    <2>3. QED
      BY <1>9, <1>10, <2>2, WroteFacts
  <1>12. /\ current'[k] => current[k] /\ news'[k] = news[k] /\ snap'[k] = snap[k]
         /\ \A j \in Databases \ {k} : current'[j] = current[j]
    <2>1. current \in [Databases -> BOOLEAN]
      BY <1>1 DEF DatabaseTypeOK
    <2>2. CASE UNCHANGED <<news, current>>
      BY <1>2, <2>2
    <2>3. CASE current' = [current EXCEPT ![k] = @ /\ news' = news]
      BY <1>2, <2>1, <2>3
    <2>4. QED
      BY <2>2, <2>3 DEF FindSecret, CreateSecret, CreateFails, apiVars
  <1>13. CopiesAgree(k)'
    <2>1. cache'[k] = cache[k]
      BY <1>2
    <2>2. QED
      BY <1>11, <1>12, <2>1, WroteCopies
  <1>14. OthersStay(k)
    BY <1>2, <1>5, <1>9, <1>11, <1>12 DEF OthersStay
  <1>15. QED
    BY <1>6, <1>7, <1>8, <1>11, <1>13, <1>14 DEF StepIsWell, DatabaseIs

LEMMA ReportIsWell ==
    ASSUME DatabaseInv, NEW k \in Databases, Witness, Report(k)
    PROVE  StepIsWell(k)
  <1>1. /\ DatabaseTypeOK /\ PlaceOK /\ DatabaseIs(k) /\ step[k] # "idle"
        /\ verdict[k] \in States /\ (verdict[k] = "Success" => k \in exists)
    BY DEF DatabaseInv, PlaceOK, DatabaseIs, InPlace, Report, DatabaseTypeOK
  <1>n. events \in Nat /\ events' = events
    BY <1>1, Numbers DEF Report
  <1>2. UNCHANGED <<born, asked, secret, cache, exists, account, at, known>>
    BY DEF Report, secretVars, queueVars, sqlVars, walkVars
  <1>3. /\ step'[k] = "idle" /\ verdict'[k] = "" /\ ~current'[k]
        /\ \A j \in Databases \ {k} :
              /\ step'[j] = step[j] /\ verdict'[j] = verdict[j]
              /\ snap'[j] = snap[j] /\ current'[j] = current[j]
    BY <1>1 DEF Report, GoTo, DatabaseTypeOK
  <1>4. InPlace(k)' /\ SeenSoFar(k)'
    BY <1>1, <1>2, <1>3 DEF DatabaseIs, InPlace, SeenSoFar
  <1>5. SqlGrows
    BY <1>2 DEF SqlGrows
  <1>6. Wrote(k, verdict[k])
    BY <1>1, StatusWrites DEF Report
  <1>7. /\ SpecIsAsked(k)' /\ IsFirst(k)' /\ UidIsFree(k)'
        /\ \A j \in Databases \ {k} : obj'[j] = obj[j] /\ news'[j] = news[j]
        /\ \/ UNCHANGED <<obj, news>>
           \/ /\ news'[k] # news[k] /\ news'[k] # <<>>
              /\ news'[k][Len(news'[k])] = obj'[k]
    <2>1. /\ exists \subseteq exists' /\ (verdict[k] = "Success" => k \in exists')
          /\ events' \in Nat /\ events <= events' /\ UNCHANGED <<born, asked>>
      BY <1>1, <1>2, <1>n
    <2>2. secret'[k] # NoObj /\ secret'[k].owner # Foreign => k \in exists'
      BY <1>1, <1>2 DEF DatabaseIs, IsFirst
    <2>3. QED
      BY <1>1, <1>6, <2>1, <2>2, WroteFacts
  <1>8. CopiesAgree(k)'
    <2>1. cache'[k] = cache[k]
      BY <1>2
    <2>2. QED
      BY <1>3, <1>7, <2>1, WroteCopies
  <1>9. OthersStay(k)
    BY <1>2, <1>3, <1>7 DEF OthersStay
  <1>10. QED
    BY <1>4, <1>5, <1>7, <1>8, <1>9 DEF StepIsWell, DatabaseIs
-----------------------------------------------------------------------------
LEMMA DatabaseInit == Init => DatabaseInv
  <1> SUFFICES ASSUME Init PROVE DatabaseInv
    OBVIOUS
  <1>0. MaxEvents \in Nat
    BY DatabaseSyncAssumption
  <1>s. Specs \subseteq SpecType /\ asked \in [Databases -> Specs]
    BY DatabaseSyncAssumption DEF Init
  <1>1. \A k \in Databases : obj[k] = [uid |-> 1, spec |-> asked[k], state |-> ""]
    BY DEF Init
  <1>2. \A k \in Databases : obj[k] \in Objects
    <2>1. 1 \in Uids
      BY <1>0 DEF Uids
    <2>2. ASSUME NEW k \in Databases PROVE obj[k] \in Objects
      <3>1. asked[k] \in SpecType
        BY <1>s
      <3>2. [uid |-> 1, spec |-> asked[k], state |-> ""] \in Objects
        BY <2>1, <3>1 DEF Objects, States
      <3>3. QED
        BY <1>1, <3>2
    <2>3. QED
      BY <2>2
  <1>3. obj \in [Databases -> Value]
    <2>1. obj = [k \in Databases |-> obj[k]]
      BY DEF Init
    <2>2. QED
      BY <1>2, <2>1 DEF Value
  <1>4. Types
    <2>1. ApiTypes
      <3>1. <<>> \in Seq(Value) /\ 1 \in Uids
        BY <1>0 DEF Uids
      <3>2. news \in [Databases -> Seq(Value)] /\ born \in [Databases -> Uids]
        BY <3>1 DEF Init
      <3>3. QED
        BY <1>3, <1>s, <3>2 DEF ApiTypes
    <2>2. SecretTypes
      <3>1. <<>> \in Seq(Secrets \cup {NoObj})
        OBVIOUS
      <3>2. secretNews \in [Databases -> Seq(Secrets \cup {NoObj})]
        BY <3>1 DEF Init
      <3>3. QED
        BY <3>2 DEF Init, SecretTypes
    <2>3. EnvTypes
      BY DEF Init, EnvTypes
    <2>4. SqlTypes
      BY DEF Init, SqlTypes
    <2>5. QueueTypes
      BY <1>3 DEF Init, QueueTypes
    <2>6. SyncTypes
      <3>1. step \in [Databases -> Steps] /\ verdict \in [Databases -> States]
        BY DEF Init, Steps, States
      <3>2. snap \in [Databases -> Value] /\ current \in [Databases -> BOOLEAN]
        BY DEF Init, Value
      <3>3. WalkTypes
        BY DEF Init, WalkTypes
      <3>4. QED
        BY <3>1, <3>2, <3>3 DEF SyncTypes
    <2>7. events \in 0..MaxEvents
      <3>1. 0 \in 0..MaxEvents
        BY <1>0
      <3>2. QED
        BY <3>1 DEF Init
    <2>8. QED
      BY <2>1, <2>2, <2>3, <2>4, <2>5, <2>6, <2>7 DEF Types
  <1>5. ASSUME NEW k \in Databases PROVE DatabaseIs(k)
    <2>1. /\ obj[k] # NoObj /\ obj[k].state = "" /\ obj[k].spec = asked[k]
          /\ asked[k] # NoObj
      <3>1. obj[k] = [uid |-> 1, spec |-> asked[k], state |-> ""] /\ obj[k] # NoObj
        BY <1>1, <1>2, ObjectFields
      <3>2. asked[k] # NoObj
        <4>1. asked[k] \in SpecType
          BY <1>s
        <4>2. QED
          BY <4>1, NoObjAssumption
      <3>3. /\ [uid |-> 1, spec |-> asked[k], state |-> ""].state = ""
            /\ [uid |-> 1, spec |-> asked[k], state |-> ""].spec = asked[k]
        OBVIOUS
      <3>4. QED
        BY <3>1, <3>2, <3>3
    <2>2. /\ step[k] = "idle" /\ verdict[k] = "" /\ known[k] = {} /\ ~current[k]
          /\ news[k] = <<>> /\ cache = obj /\ born[k] = 1 /\ events = 0 /\ secret[k] = NoObj
      BY DEF Init
    <2>3. InPlace(k) /\ SeenSoFar(k) /\ UidIsFree(k)
      <3>1. InPlace(k) /\ SeenSoFar(k)
        BY <2>1, <2>2 DEF InPlace, SeenSoFar
      <3>2. UidIsFree(k)
        <4>1. born[k] = 1 /\ events = 0
          BY <2>2
        <4>2. born[k] <= events + 1
          BY <4>1
        <4>3. QED
          BY <2>1, <4>2 DEF UidIsFree
      <3>3. QED
        BY <3>1, <3>2
    <2>4. CopiesAgree(k) /\ SpecIsAsked(k) /\ IsFirst(k)
      BY <2>1, <2>2 DEF CopiesAgree, Agree, SameButPasswords, SpecIsAsked, IsFirst
    <2>5. QED
      BY <2>3, <2>4 DEF DatabaseIs
  <1>6. QED
    BY <1>4, <1>5, TypesAreTypes DEF DatabaseInv

LEMMA DatabaseNext == DatabaseInv /\ [Next]_vars => DatabaseInv'
  <1> SUFFICES ASSUME DatabaseInv, [Next]_vars PROVE DatabaseInv'
    OBVIOUS
  <1>1. DatabaseTypeOK /\ PlaceOK /\ UidsOK
    BY DEF DatabaseInv, PlaceOK, UidsOK, DatabaseIs
  <1>2. DatabaseTypeOK'
    BY <1>1, TypeStep
  <1>3. ASSUME NEW k \in Databases, Witness, StepIsWell(k), events' = events \/ Happens
        PROVE  \A j \in Databases : DatabaseIs(j)'
    <2>1. events' \in Nat /\ events <= events'
      BY <1>1, <1>3, Numbers DEF Happens
    <2>2. \A j \in Databases \ {k} : DatabaseIs(j)'
      BY <1>3, <2>1, OthersAreStill DEF StepIsWell
    <2>3. QED
      BY <1>3, <2>2 DEF StepIsWell
  <1>4. ASSUME NEW k \in Databases, Witness,
               \/ Edit(k) \/ UserSecret(k) \/ InputsArrive(k)
               \/ Deliver(k) \/ DeliverSecret(k) \/ Resync(k)
               \/ StartGone(k) \/ StartInVain(k) \/ StartSync(k)
        PROVE  \A j \in Databases : DatabaseIs(j)'
    <2>1. StepIsWell(k)
      BY <1>4, EditIsWell, OutsideIsWell, StartIsWell
    <2>2. events' = events \/ Happens
      BY <1>4 DEF Edit, UserSecret, InputsArrive, Deliver, DeliverSecret, Resync, StartGone,
                  StartInVain, StartSync, Begin
    <2>3. QED
      BY <1>3, <1>4, <2>1, <2>2
  <1>5. ASSUME NEW k \in Databases, Witness,
               \/ SqlStep(k) \/ SqlRefused(k) \/ SqlFails(k)
               \/ FindSecret(k) \/ CreateSecret(k) \/ CreateFails(k) \/ Report(k)
        PROVE  \A j \in Databases : DatabaseIs(j)'
    <2>1. StepIsWell(k)
      BY <1>5, SqlIsWell, SecretIsWell, ReportIsWell
    <2>2. events' = events \/ Happens
      BY <1>5 DEF SqlStep, SqlRefused, SqlFails, FindSecret, CreateSecret, CreateFails, Report
    <2>3. QED
      BY <1>3, <1>5, <2>1, <2>2
  <1>6. ASSUME NEW k \in Databases, StartPanics(k) \/ SecretPanics(k)
        PROVE  \A j \in Databases : DatabaseIs(j)'
    BY <1>6, PanicIsWell
  <1>7. ASSUME Crash PROVE \A j \in Databases : DatabaseIs(j)'
    BY <1>7, RestartIsWell DEF Crash
  <1>8. ASSUME \/ UNCHANGED vars
               \/ /\ Witness
                  /\ \E f \in Sources : Rotate(f) \/ SourceArrives(f)
        PROVE  \A j \in Databases : DatabaseIs(j)'
    BY <1>8, RestIsWell
  <1>9. \A j \in Databases : DatabaseIs(j)'
    <2>1. CASE UNCHANGED vars
      BY <1>8, <2>1
    <2>2. ASSUME NEW k \in Databases, Witness,
                 \/ Edit(k) \/ UserSecret(k) \/ InputsArrive(k)
                 \/ Deliver(k) \/ DeliverSecret(k) \/ Resync(k)
                 \/ Start(k) \/ SyncStep(k) \/ SqlFails(k)
          PROVE  \A j \in Databases : DatabaseIs(j)'
      BY <1>4, <1>5, <1>6, <2>2 DEF Start, SyncStep
    <2>3. ASSUME NEW f \in Sources, Rotate(f) \/ SourceArrives(f), Witness
          PROVE  \A j \in Databases : DatabaseIs(j)'
      BY <1>8, <2>3
    <2>4. ASSUME Next PROVE \A j \in Databases : DatabaseIs(j)'
      <3>1. Witness
        BY <2>4 DEF Next
      <3>2. \/ \E k \in Databases :
                  \/ Edit(k) \/ UserSecret(k) \/ InputsArrive(k)
                  \/ Deliver(k) \/ DeliverSecret(k) \/ Resync(k)
                  \/ Start(k) \/ SyncStep(k) \/ SqlFails(k)
            \/ \E f \in Sources : Rotate(f) \/ SourceArrives(f)
            \/ Crash
        BY <2>4 DEF Next
      <3>3. QED
        BY <1>7, <2>2, <2>3, <3>1, <3>2
    <2>5. QED
      BY <2>1, <2>4
  <1>10. QED
    BY <1>2, <1>9 DEF DatabaseInv

\* Every variable has its type, all the time.
THEOREM DatabaseTypeCorrect == Spec => []DatabaseTypeOK
  <1>1. DatabaseInv => DatabaseTypeOK
    BY DEF DatabaseInv
  <1>2. QED
    BY <1>1, DatabaseInit, DatabaseNext, PTL DEF Spec

\* Status updates send the whole object back, with the passwords that the sync
\* has read (databaseResource.go:137, :163-171): they never bring back a spec
\* that users have replaced, but for these passwords.
THEOREM SpecStaysButPasswords == Spec => []SpecIsTheUsersButPasswords
  <1>1. DatabaseInv => SpecIsTheUsersButPasswords
    BY DEF DatabaseInv, DatabaseIs, SpecIsAsked, SpecIsTheUsersButPasswords
  <1>2. QED
    BY <1>1, DatabaseInit, DatabaseNext, PTL DEF Spec

\* A sync that reports Success has found or made the database, and has seen the
\* account of each user with the role and the password of the spec.
THEOREM SuccessHasBeenSo == Spec => []SuccessWasSo
  <1>1. DatabaseInv => SuccessWasSo
    <2> SUFFICES ASSUME DatabaseInv, NEW k \in Databases, verdict[k] = "Success"
                 PROVE  /\ k \in exists
                        /\ Plugin(snap[k].spec) = "postgres" =>
                              (1..Len(UsersOf(k))) \X {"role", "password"} \subseteq seen[k]
      BY DEF SuccessWasSo
    <2>1. InPlace(k) /\ SeenSoFar(k)
      BY DEF DatabaseInv, DatabaseIs
    <2>2. QED
      <3>1. k \in exists
        BY <2>1 DEF InPlace
      <3>2. Plugin(snap[k].spec) = "postgres" =>
                \A i \in 1..Len(UsersOf(k)) : HasSeen(k, i)
        BY <2>1 DEF SeenSoFar
      <3>3. (\A i \in 1..Len(UsersOf(k)) : HasSeen(k, i)) =>
                (1..Len(UsersOf(k))) \X {"role", "password"} \subseteq seen[k]
        <4>1. SUFFICES ASSUME \A i \in 1..Len(UsersOf(k)) : HasSeen(k, i),
                              NEW p \in (1..Len(UsersOf(k))) \X {"role", "password"}
                       PROVE  p \in seen[k]
          OBVIOUS
        <4>2. p = <<p[1], p[2]>> /\ p[1] \in 1..Len(UsersOf(k)) /\ p[2] \in {"role", "password"}
          OBVIOUS
        <4>3. HasSeen(k, p[1])
          BY <4>1, <4>2
        <4>4. QED
          BY <4>2, <4>3 DEF HasSeen
      <3>4. QED
        BY <3>1, <3>2, <3>3
  <1>2. QED
    BY <1>1, DatabaseInit, DatabaseNext, PTL DEF Spec

\* The database is there before the secret and before the state Success,
\* whatever crashes, retries and edits come in between.
THEOREM DatabaseIsFirst == Spec => []DatabaseComesFirst
  <1>1. DatabaseInv => DatabaseComesFirst
    BY DEF DatabaseInv, DatabaseIs, IsFirst, DatabaseComesFirst
  <1>2. QED
    BY <1>1, DatabaseInit, DatabaseNext, PTL DEF Spec

\* Only CreateSecret makes a secret that belongs to a Database.
LEMMA SecretIsMade ==
    ASSUME DatabaseInv, [Next]_vars, NEW k \in Databases,
           secret'[k] # secret[k], secret'[k] # NoObj, secret'[k].owner # Foreign
    PROVE  CreateSecret(k)
  <1>1. DatabaseTypeOK
    BY DEF DatabaseInv
  <1>2. secret' # secret
    OBVIOUS
  <1>3. ASSUME NEW j \in Databases, UserSecret(j) PROVE FALSE
    <2>1. PICK c \in {ForeignSecret, NoObj} : StoreSecret(j, c)
      BY <1>3 DEF UserSecret
    <2>2. c = NoObj \/ c.owner = Foreign
      <3>1. ForeignSecret.owner = Foreign
        BY DEF ForeignSecret
      <3>2. QED
        BY <3>1
    <2>3. secret'[k] = c \/ secret'[k] = secret[k]
      BY <1>1, <2>1 DEF StoreSecret, DatabaseTypeOK
    <2>4. QED
      BY <2>2, <2>3
  <1>4. ASSUME NEW j \in Databases, CreateSecret(j) PROVE CreateSecret(k)
    <2>1. j # k => secret'[k] = secret[k]
      BY <1>1, <1>4 DEF CreateSecret, StoreSecret, DatabaseTypeOK
    <2>2. QED
      BY <1>4, <2>1
  <1>5. ASSUME NEW j \in Databases,
               \/ Edit(j) \/ InputsArrive(j) \/ Deliver(j) \/ DeliverSecret(j) \/ Resync(j)
               \/ SqlStep(j) \/ SqlRefused(j) \/ SqlFails(j)
               \/ FindSecret(j) \/ CreateFails(j) \/ SecretPanics(j) \/ Report(j)
        PROVE  FALSE
    BY <1>2, <1>5 DEF Edit, InputsArrive, Deliver, DeliverSecret, Resync, SqlStep, SqlRefused,
       SqlFails, FindSecret, CreateFails, SecretPanics, Report, Restart, secretVars
  <1>6. ASSUME NEW j \in Databases, Start(j) PROVE FALSE
    BY <1>2, <1>6 DEF Start, StartGone, StartInVain, StartSync, StartPanics, Begin, Restart,
       secretVars
  <1>7. ASSUME NEW f \in Sources, Rotate(f) \/ SourceArrives(f) PROVE FALSE
    BY <1>2, <1>7 DEF Rotate, SourceArrives, secretVars
  <1>8. Crash => FALSE
    BY <1>2 DEF Crash, Restart
  <1>9. vars' # vars
    BY <1>2 DEF vars, secretVars
  <1>10. \/ \E j \in Databases :
               \/ Edit(j) \/ UserSecret(j) \/ InputsArrive(j)
               \/ Deliver(j) \/ DeliverSecret(j) \/ Resync(j)
               \/ Start(j) \/ SyncStep(j) \/ SqlFails(j)
         \/ \E f \in Sources : Rotate(f) \/ SourceArrives(f)
         \/ Crash
    BY <1>9 DEF Next
  <1>11. QED
    BY <1>3, <1>4, <1>5, <1>6, <1>7, <1>8, <1>10 DEF SyncStep

\* When the secret is made, the account that its DSN names has been seen with
\* the role and the password of the spec, in this very sync.
THEOREM SecretHasBeenSo == Spec => SecretWasSo
  <1> DEFINE Q == \A k \in Databases :
                     /\ secret'[k] # secret[k]
                     /\ secret'[k] # NoObj /\ secret'[k].owner # Foreign
                     /\ Plugin(snap[k].spec) = "postgres"
                     => \E i \in 1..Len(UsersOf(k)) :
                           /\ UsersOf(k)[i].name = secret'[k].user
                           /\ {i} \X {"role", "password"} \subseteq seen[k]
  <1>1. DatabaseInv /\ [Next]_vars => Q
    <2> SUFFICES ASSUME DatabaseInv, [Next]_vars, NEW k \in Databases,
                        secret'[k] # secret[k], secret'[k] # NoObj,
                        secret'[k].owner # Foreign, Plugin(snap[k].spec) = "postgres"
                 PROVE  \E i \in 1..Len(UsersOf(k)) :
                           /\ UsersOf(k)[i].name = secret'[k].user
                           /\ {i} \X {"role", "password"} \subseteq seen[k]
      OBVIOUS
    <2>1. CreateSecret(k)
      BY SecretIsMade
    <2>2. Types /\ PlaceOK /\ SeenSoFar(k) /\ DatabaseTypeOK
      BY TypesAreTypes DEF DatabaseInv, DatabaseIs, PlaceOK
    <2>3. step[k] = "secret" /\ Admins(UsersOf(k)) # {} /\ StoreSecret(k, Dsn(snap[k]))
      BY <2>1 DEF CreateSecret, EndsInPanic
    <2>4. PICK i \in 1..Len(UsersOf(k)) : UsersOf(k)[i].name = Dsn(snap[k]).user
      BY <2>2, <2>3, DsnFacts
    <2>5. secret'[k] = Dsn(snap[k])
      BY <2>2, <2>3 DEF StoreSecret, DatabaseTypeOK
    <2>6. HasSeen(k, i)
      BY <2>2, <2>3 DEF SeenSoFar
    <2>7. {i} \X {"role", "password"} \subseteq seen[k]
      BY <2>6 DEF HasSeen
    <2>8. QED
      BY <2>4, <2>5, <2>7
  <1>2. QED
    BY <1>1, DatabaseInit, DatabaseNext, PTL DEF Spec, SecretWasSo
-----------------------------------------------------------------------------
\* The promise to users.  What a sync has seen belongs to its copy, which it
\* keeps to its end.
SeenIsBusy == \A k \in Databases : seen[k] # {} => step[k] # "idle"

LEMMA SeenIsBusyStep == DatabaseInv' /\ SeenIsBusy /\ [Next]_vars => SeenIsBusy'
  <1> SUFFICES ASSUME DatabaseInv', SeenIsBusy, [Next]_vars PROVE SeenIsBusy'
    OBVIOUS
  <1>1. CASE Witness
    <2>1. \A k \in Databases : Looks(k)' => step'[k] # "idle"
      BY DEF DatabaseInv, DatabaseIs, InPlace, Looks, SqlSteps
    <2>2. QED
      BY <1>1, <2>1 DEF Witness, SeenIsBusy
  <1>2. CASE UNCHANGED vars
    BY <1>2 DEF SeenIsBusy, vars, syncVars
  <1>3. QED
    BY <1>1, <1>2 DEF Next

LEMMA SnapStays ==
    ASSUME DatabaseTypeOK, Next, NEW k \in Databases, step[k] # "idle", step'[k] # "idle"
    PROVE  snap'[k] = snap[k]
  <1>t. /\ step \in [Databases -> Steps] /\ snap \in [Databases -> Objects \cup {NoObj}]
    BY DEF DatabaseTypeOK
  <1>1. ASSUME NEW j \in Databases, NEW o, Take(j), Begin(j, o) PROVE snap'[k] = snap[k]
    BY <1>t, <1>1 DEF Begin, Take
  <1>2. ASSUME NEW j \in Databases, StartInVain(j) \/ StartSync(j) PROVE snap'[k] = snap[k]
    BY <1>1, <1>2 DEF StartInVain, StartSync
  <1>3. ASSUME NEW j \in Databases, Report(j) PROVE snap'[k] = snap[k]
    BY <1>t, <1>3 DEF Report, GoTo
  <1>4. ASSUME Restart PROVE FALSE
    BY <1>4 DEF Restart
  <1>5. ASSUME NEW j \in Databases,
               \/ Edit(j) \/ UserSecret(j) \/ InputsArrive(j)
               \/ Deliver(j) \/ DeliverSecret(j) \/ Resync(j)
               \/ StartGone(j) \/ SqlStep(j) \/ SqlRefused(j) \/ SqlFails(j)
               \/ FindSecret(j) \/ CreateSecret(j) \/ CreateFails(j)
        PROVE  snap'[k] = snap[k]
    BY <1>5 DEF Edit, UserSecret, InputsArrive, Deliver, DeliverSecret, Resync, StartGone,
       SqlStep, SqlRefused, SqlFails, FindSecret, CreateSecret, CreateFails, syncVars
  <1>6. ASSUME NEW f \in Sources, Rotate(f) \/ SourceArrives(f) PROVE snap'[k] = snap[k]
    BY <1>6 DEF Rotate, SourceArrives, syncVars
  <1>7. ASSUME NEW j \in Databases, StartPanics(j) \/ SecretPanics(j) PROVE FALSE
    BY <1>4, <1>7 DEF StartPanics, SecretPanics
  <1>8. Crash => FALSE
    BY <1>4 DEF Crash
  <1>9. QED
    BY <1>2, <1>3, <1>5, <1>6, <1>7, <1>8 DEF Next, Start, SyncStep

LEMMA SyncLooks ==
    ASSUME DatabaseTypeOK, DatabaseInv', SeenIsBusy, Next
    PROVE  D!Look
  <1> SUFFICES ASSUME NEW k \in Databases, NEW t \in SeenBySync'[k] \ SeenBySync[k]
               PROVE  D!Is(t)'
    BY DEF D!Look
  <1>1. PICK p \in seen'[k] :
            t = <<UsersOf(k)'[p[1]].name, p[2], UsersOf(k)'[p[1]][p[2]]>>
    BY DEF SeenBySync
  <1>2. Looks(k)' /\ p \in seen[k] \cup Matches(k)'
    BY <1>1 DEF Next, Witness
  <1>3. p \notin seen[k]
    <2>1. CASE p \in seen[k]
      <3>1. step[k] # "idle" /\ step'[k] # "idle"
        BY <1>2, <2>1 DEF SeenIsBusy, DatabaseInv, DatabaseIs, InPlace, Looks, SqlSteps
      <3>2. UsersOf(k)' = UsersOf(k)
        BY <3>1, SnapStays DEF UsersOf
      <3>3. t \in SeenBySync[k]
        BY <1>1, <2>1, <3>2 DEF SeenBySync
      <3>4. QED
        BY <3>3
    <2>2. QED
      BY <2>1
  <1>4. /\ account'[UsersOf(k)'[p[1]].name] # NoObj
        /\ account'[UsersOf(k)'[p[1]].name][p[2]] = UsersOf(k)'[p[1]][p[2]]
    BY <1>2, <1>3 DEF Matches
  <1>5. /\ t[1] = UsersOf(k)'[p[1]].name /\ t[2] = p[2]
        /\ t[3] = UsersOf(k)'[p[1]][p[2]]
    BY <1>1
  <1>6. QED
    BY <1>4, <1>5 DEF D!Is

\* A controller's write is a Report, or nothing that users can see.
LEMMA WriteIsReport ==
    ASSUME DatabaseInv, NEW k \in Databases, NEW st \in States, Wrote(k, st), asked' = asked,
           st = "Success" /\ obj' # obj =>
              k \in exists /\ D!Duties(obj'[k].spec) \subseteq SeenBySync[k]
              /\ SeenBySync'[k] = {}
    PROVE  UNCHANGED <<obj, asked>> \/ D!Report(k)
  <1>1. ASSUME NEW o \in Objects, Store(k, o), o.state = st,
               obj[k] # NoObj, SameButPasswords(o.spec, obj[k].spec), obj' # obj
        PROVE  D!Report(k)
    <2>1. DatabaseTypeOK /\ o # NoObj
      BY ObjectFields DEF DatabaseInv
    <2>2. obj'[k] = o /\ \A j \in Databases \ {k} : obj'[j] = obj[j]
      BY <1>1, <2>1 DEF Store, DatabaseTypeOK
    <2>3. D!Others(k)
      BY <2>2 DEF D!Others
    <2>4. D!SameButPasswords(obj'[k].spec, obj[k].spec)
      BY <1>1, <2>2 DEF D!SameButPasswords, D!Unfilled, SameButPasswords, Unfilled
    <2>5. QED
      BY <1>1, <2>1, <2>2, <2>3, <2>4 DEF D!Report
  <1>2. QED
    BY <1>1 DEF Wrote

\* What a sync that concludes Success has seen are the duties of its copy.
LEMMA DutiesAreSeen ==
    ASSUME DatabaseInv, NEW k \in Databases, verdict[k] = "Success"
    PROVE  D!Duties(snap[k].spec) \subseteq SeenBySync[k]
  <1> DEFINE n == Len(UsersOf(k))
  <1>1. SeenSoFar(k)
    BY DEF DatabaseInv, DatabaseIs
  <1>2. CASE Plugin(snap[k].spec) # "postgres"
    BY <1>2 DEF D!Duties, D!Plugin, Plugin
  <1>3. CASE Plugin(snap[k].spec) = "postgres"
    <2>1. ASSUME NEW i \in 1..n
          PROVE  /\ <<UsersOf(k)[i].name, "role", UsersOf(k)[i].role>> \in SeenBySync[k]
                 /\ <<UsersOf(k)[i].name, "password", UsersOf(k)[i].password>>
                       \in SeenBySync[k]
      <3>1. <<i, "role">> \in seen[k] /\ <<i, "password">> \in seen[k]
        BY <1>1, <1>3 DEF SeenSoFar, HasSeen
      <3>2. QED
        BY <3>1 DEF SeenBySync
    <2>2. ASSUME NEW t \in D!Duties(snap[k].spec)
          PROVE  \E i \in 1..n :
                    t \in {<<UsersOf(k)[i].name, "role", UsersOf(k)[i].role>>,
                          <<UsersOf(k)[i].name, "password", UsersOf(k)[i].password>>}
      <3>1. t \in UNION {{<<UsersOf(k)[i].name, "role", UsersOf(k)[i].role>>,
                          <<UsersOf(k)[i].name, "password", UsersOf(k)[i].password>>} :
                            i \in 1..n}
        BY <1>3, <2>2 DEF D!Duties, D!Plugin, Plugin, UsersOf
      <3>2. QED
        BY <3>1
    <2>3. QED
      BY <2>1, <2>2
  <1>4. QED
    BY <1>2, <1>3

LEMMA EditIsAsked ==
    ASSUME DatabaseInv, NEW k \in Databases, Edit(k)
    PROVE  D!Ask(k) \/ D!Delete(k)
  <1>1. DatabaseTypeOK
    BY DEF DatabaseInv
  <1>2. ASSUME NEW o \in Objects, NEW sp \in Specs, Store(k, o), o.spec = sp,
               asked' = [asked EXCEPT ![k] = sp],
               o.state = IF obj[k] = NoObj THEN "" ELSE obj[k].state
        PROVE  D!Ask(k)
    <2>1. obj'[k] = o /\ asked'[k] = sp /\ o # NoObj /\ D!Others(k)
      BY <1>1, <1>2, ObjectFields DEF Store, DatabaseTypeOK, D!Others
    <2>2. QED
      BY <1>2, <2>1 DEF D!Ask
  <1>3. ASSUME NEW sp \in Specs, obj[k] # NoObj,
               Store(k, [obj[k] EXCEPT !.spec = sp]), asked' = [asked EXCEPT ![k] = sp]
        PROVE  D!Ask(k)
    <2>1. obj[k] \in Objects /\ sp \in SpecType
      BY <1>1, <1>3, DatabaseSyncAssumption DEF DatabaseTypeOK
    <2>2. QED
      BY <1>2, <1>3, <2>1, ObjectSpec
  <1>4. ASSUME NEW sp \in Specs, obj[k] = NoObj, born' = [born EXCEPT ![k] = @ + 1],
               Store(k, [uid |-> born[k] + 1, spec |-> sp, state |-> ""]),
               asked' = [asked EXCEPT ![k] = sp]
        PROVE  D!Ask(k)
    <2>1. [uid |-> born[k] + 1, spec |-> sp, state |-> ""] \in Objects
      <3>1. born[k] \in Nat /\ events \in Nat /\ events <= MaxEvents /\ MaxEvents \in Nat
        <4>1. events \in 0..MaxEvents /\ MaxEvents \in Nat
          BY <1>1, DatabaseSyncAssumption DEF DatabaseTypeOK
        <4>2. QED
          BY <1>1, <4>1, Numbers
      <3>2. born[k] <= events
        BY <1>4 DEF DatabaseInv, DatabaseIs, UidIsFree
      <3>3. born[k] + 1 \in Uids
        BY <3>1, <3>2 DEF Uids
      <3>4. QED
        BY <3>3, DatabaseSyncAssumption DEF Objects, States
    <2>2. QED
      BY <1>2, <1>4, <2>1
  <1>5. ASSUME Store(k, NoObj), asked' = [asked EXCEPT ![k] = NoObj] PROVE D!Delete(k)
    BY <1>1, <1>5 DEF Store, DatabaseTypeOK, D!Delete, D!Others
  <1>6. QED
    BY <1>3, <1>4, <1>5 DEF Edit

\* What users see of an object changes when they change it, or in a Report.
LEMMA ObjectsArePromised ==
    ASSUME DatabaseInv, DatabaseInv', SeenIsBusy', Next
    PROVE  UNCHANGED <<obj, asked>> \/ \E k \in Databases : D!Ask(k) \/ D!Delete(k) \/ D!Report(k)
  <1>t. DatabaseTypeOK /\ PlaceOK
    BY DEF DatabaseInv, PlaceOK, DatabaseIs
  <1>1. ASSUME NEW k \in Databases, Edit(k) PROVE D!Ask(k) \/ D!Delete(k)
    BY <1>1, EditIsAsked
  <1>2. ASSUME NEW k \in Databases, StartInVain(k) \/ StartSync(k)
        PROVE  UNCHANGED <<obj, asked>> \/ D!Report(k)
    <2>1. PICK o \in {cache[k], FilledObject(cache[k])} : Begin(k, o)
      BY <1>2 DEF StartInVain, StartSync, FilledObject
    <2>2. cache[k] # NoObj /\ cache[k] \in Objects /\ source \in [Sources -> Contents]
      BY <1>t, <1>2 DEF StartInVain, StartSync, DatabaseTypeOK
    <2>3. o \in Objects
      BY <2>1, <2>2, FilledFields
    <2>4. Wrote(k, "Pending")
      BY <2>1, <2>2, <2>3, BeginWrites
    <2>5. asked' = asked /\ "Pending" \in States
      BY <2>1 DEF Begin, Greet, States
    <2>6. QED
      BY <2>4, <2>5, WriteIsReport
  <1>3. ASSUME NEW k \in Databases, StartPanics(k)
        PROVE  UNCHANGED <<obj, asked>> \/ D!Report(k)
    <2> DEFINE p == [cache[k] EXCEPT !.state = "Pending"]
    <2>1. asked' = asked
      BY <1>3 DEF StartPanics, Restart
    <2>2. CASE news[k] = <<>> /\ obj' = [obj EXCEPT ![k] = p]
      <3>1. cache[k] \in Objects /\ obj \in [Databases -> Value] /\ CopiesAgree(k)
        BY <1>t, <1>3 DEF StartPanics, DatabaseTypeOK, DatabaseInv, DatabaseIs, Value
      <3>2. p \in Objects /\ p.spec = cache[k].spec /\ p.state # "Success" /\ p # NoObj
        BY <3>1, ObjectState, ObjectFields DEF States
      <3>3. obj[k] # NoObj /\ SameButPasswords(cache[k].spec, obj[k].spec)
        BY <1>3, <2>2, <3>1 DEF StartPanics, CopiesAgree, Agree
      <3> HIDE DEF p
      <3>4. obj'[k] = p /\ \A j \in Databases \ {k} : obj'[j] = obj[j]
        BY <2>2, <3>1
      <3>5. D!SameButPasswords(obj'[k].spec, obj[k].spec)
        BY <3>2, <3>3, <3>4 DEF D!SameButPasswords, D!Unfilled, SameButPasswords, Unfilled
      <3>6. QED
        BY <2>1, <3>2, <3>3, <3>4, <3>5 DEF D!Report, D!Others
    <2>3. CASE obj' = [obj EXCEPT ![k] = obj[k]]
      BY <1>t, <2>1, <2>3 DEF DatabaseTypeOK
    <2>4. QED
      BY <1>3, <2>2, <2>3 DEF StartPanics
  <1>4. ASSUME NEW k \in Databases, CreateFails(k)
        PROVE  UNCHANGED <<obj, asked>> \/ D!Report(k)
    <2>1. step[k] # "idle" /\ WriteStatus(k, "Error") /\ asked' = asked /\ "Error" \in States
      BY <1>4 DEF CreateFails, States
    <2>2. QED
      BY <2>1, StatusWrites, WriteIsReport
  <1>5. ASSUME NEW k \in Databases, Report(k)
        PROVE  UNCHANGED <<obj, asked>> \/ D!Report(k)
    <2>1. /\ step[k] # "idle" /\ WriteStatus(k, verdict[k]) /\ asked' = asked
          /\ verdict[k] \in States
      BY <1>t, <1>5 DEF Report, DatabaseTypeOK
    <2>2. ASSUME verdict[k] = "Success", obj' # obj
          PROVE  /\ k \in exists /\ D!Duties(obj'[k].spec) \subseteq SeenBySync[k]
                 /\ SeenBySync'[k] = {}
      <3>1. k \in exists
        BY <1>t, <2>2 DEF PlaceOK, InPlace
      <3>2. obj'[k].spec = snap[k].spec
        <4> DEFINE o == [snap[k] EXCEPT !.state = "Success"]
        <4>1. snap[k] \in Objects /\ obj \in [Databases -> Value]
          BY <1>t, <2>1, CopyFields DEF DatabaseTypeOK, Value
        <4>2. o.spec = snap[k].spec
          BY <4>1, ObjectState DEF States
        <4>3. WriteStatus(k, "Success")
          BY <2>1, <2>2
        <4>4. Store(k, o)
          BY <2>2, <4>3 DEF WriteStatus
        <4> HIDE DEF o
        <4>5. obj'[k] = o
          BY <4>1, <4>4 DEF Store
        <4>6. QED
          BY <4>2, <4>5
      <3>3. D!Duties(obj'[k].spec) \subseteq SeenBySync[k]
        BY <2>2, <3>2, DutiesAreSeen
      <3>4. step'[k] = "idle"
        BY <1>t, <1>5 DEF Report, GoTo, DatabaseTypeOK
      <3>5. SeenBySync'[k] = {}
        BY <3>4 DEF SeenIsBusy, SeenBySync
      <3>6. QED
        BY <3>1, <3>3, <3>5
    <2>3. QED
      BY <2>1, <2>2, StatusWrites, WriteIsReport
  <1>6. ASSUME NEW k \in Databases,
               \/ UserSecret(k) \/ InputsArrive(k)
               \/ Deliver(k) \/ DeliverSecret(k) \/ Resync(k)
               \/ StartGone(k) \/ SqlStep(k) \/ SqlRefused(k) \/ SqlFails(k)
               \/ FindSecret(k) \/ CreateSecret(k) \/ SecretPanics(k)
        PROVE  UNCHANGED <<obj, asked>>
    BY <1>6 DEF UserSecret, InputsArrive, Deliver, DeliverSecret, Resync, StartGone,
       SqlStep, SqlRefused, SqlFails, FindSecret, CreateSecret, SecretPanics, Restart, apiVars
  <1>7. ASSUME NEW f \in Sources, Rotate(f) \/ SourceArrives(f) PROVE UNCHANGED <<obj, asked>>
    BY <1>7 DEF Rotate, SourceArrives, apiVars
  <1>8. Crash => UNCHANGED <<obj, asked>>
    BY DEF Crash, Restart
  <1>9. QED
    BY <1>1, <1>2, <1>3, <1>4, <1>5, <1>6, <1>7, <1>8 DEF Next, Start, SyncStep

LEMMA NothingIsDropped ==
    ASSUME DatabaseInv, Next
    PROVE  D!Grow
  <1>t. DatabaseTypeOK /\ PlaceOK
    BY DEF DatabaseInv, PlaceOK, DatabaseIs
  <1>1. UNCHANGED sqlVars => D!Grow
    BY DEF D!Grow, sqlVars
  <1>2. ASSUME NEW k \in Databases, SqlStep(k) \/ SqlRefused(k) \/ SqlFails(k) PROVE D!Grow
    BY <1>t, <1>1, <1>2, EffectFacts DEF SqlStep, SqlRefused, SqlFails, D!Grow
  <1>3. ASSUME NEW k \in Databases,
               \/ Edit(k) \/ UserSecret(k) \/ InputsArrive(k)
               \/ Deliver(k) \/ DeliverSecret(k) \/ Resync(k) \/ Start(k)
               \/ FindSecret(k) \/ CreateSecret(k) \/ CreateFails(k) \/ SecretPanics(k)
               \/ Report(k)
        PROVE  UNCHANGED sqlVars
    BY <1>3 DEF Edit, UserSecret, InputsArrive, Deliver, DeliverSecret, Resync, Start,
       StartGone, StartInVain, StartSync, StartPanics, Begin, FindSecret, CreateSecret,
       CreateFails, SecretPanics, Report, Restart
  <1>4. ASSUME NEW f \in Sources, Rotate(f) \/ SourceArrives(f) PROVE UNCHANGED sqlVars
    BY <1>4 DEF Rotate, SourceArrives
  <1>5. Crash => UNCHANGED sqlVars
    BY DEF Crash, Restart
  <1>6. QED
    BY <1>1, <1>2, <1>3, <1>4, <1>5 DEF Next, SyncStep

LEMMA PromiseStep ==
    ASSUME DatabaseInv, DatabaseInv', SeenIsBusy, SeenIsBusy', [Next]_vars
    PROVE  [D!Next]_<<obj, asked, secret, exists, account, SeenBySync>>
  <1>1. CASE UNCHANGED vars
    BY <1>1 DEF vars, apiVars, secretVars, sqlVars, syncVars, SeenBySync, UsersOf
  <1>2. CASE Next
    <2>1. UNCHANGED <<obj, asked>> \/ \E k \in Databases : D!Ask(k) \/ D!Delete(k) \/ D!Report(k)
      BY <1>2, ObjectsArePromised
    <2>2. D!Look
      BY <1>2, SyncLooks DEF DatabaseInv
    <2>3. D!Grow
      BY <1>2, NothingIsDropped
    <2>4. ASSUME NEW k \in Databases, secret'[k] \notin {secret[k], NoObj},
                 secret'[k].owner # D!Foreign
          PROVE  secret[k] = NoObj /\ k \in exists
      <3>1. CreateSecret(k)
        BY <2>4, SecretIsMade DEF Foreign, D!Foreign
      <3>2. QED
        BY <3>1 DEF CreateSecret, DatabaseInv, DatabaseIs, InPlace
    <2>5. D!Secrets
      BY <2>4 DEF D!Secrets
    <2>6. QED
      BY <2>1, <2>2, <2>3, <2>5 DEF D!Next
  <1>3. QED
    BY <1>1, <1>2

\* What users rely on: only they change what an object asks for; when the
\* controller writes Success, the database is there and the accounts were seen as
\* the spec says that is written, in the sync that writes it; a secret of the
\* controller's follows its database; no database or account is dropped.
THEOREM DatabasePromiseIsKept == Spec => ImplementsDatabasePromise
  <1>1. Init => D!Init
    <2>1. Init => SeenBySync = [k \in Databases |-> {}]
      <3> SUFFICES ASSUME Init PROVE SeenBySync = [k \in Databases |-> {}]
        OBVIOUS
      <3> DEFINE T(k) == {<<UsersOf(k)[p[1]].name, p[2], UsersOf(k)[p[1]][p[2]]>> : p \in seen[k]}
      <3>1. ASSUME NEW k \in Databases PROVE T(k) = {}
        <4>1. seen[k] = {}
          BY DEF Init
        <4>2. QED
          BY <4>1
      <3>2. SeenBySync = [k \in Databases |-> T(k)]
        BY DEF SeenBySync
      <3> HIDE DEF T
      <3>3. QED
        BY <3>1, <3>2
    <2>2. QED
      BY <2>1 DEF Init, D!Init
  <1>2. Spec => []DatabaseInv
    BY DatabaseInit, DatabaseNext, PTL DEF Spec
  <1>3. Init => SeenIsBusy
    BY DEF Init, SeenIsBusy
  <1>4. Spec => []SeenIsBusy
    BY <1>2, <1>3, SeenIsBusyStep, PTL DEF Spec
  <1>5. DatabaseInv /\ DatabaseInv' /\ SeenIsBusy /\ SeenIsBusy' /\ [Next]_vars
            => [D!Next]_<<obj, asked, secret, exists, account, SeenBySync>>
    BY PromiseStep
  <1>6. QED
    BY <1>1, <1>2, <1>4, <1>5, PTL DEF Spec, ImplementsDatabasePromise, D!Spec
=============================================================================
