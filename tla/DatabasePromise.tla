--------------------------- MODULE DatabasePromise ---------------------------
(***************************************************************************)
(* What the users of Database objects may rely on, whatever the controller *)
(* is doing (databaseResource.go:44-221): the specs are theirs but for the *)
(* passwords, which are filled in; an object says Success only when its    *)
(* database is there and, of PostgreSQL, when each account was seen with   *)
(* the role and the password of the very spec that is written; the secret  *)
(* comes after the database and replaces none; nothing is ever dropped.    *)
(* Queues, caches, copies, single statements and failures are not in here: *)
(* DatabaseSync adds them and implements this module.                      *)
(***************************************************************************)
EXTENDS Naturals, Sequences

CONSTANTS Databases,     \* names of Database objects
          Accounts,      \* names of users of the SQL server
          Specs,         \* the specs that users give
          ServerPlugin,  \* the plugin of the server
          NoObj          \* no such object, account or source

Foreign == 0

VARIABLES obj,       \* obj[k]: the Database in the API server
          asked,     \* asked[k]: the spec users want k to have, NoObj if deleted
          secret,    \* secret[k]: the secret of its name
          exists,    \* the databases of the SQL server
          account,   \* account[u]: role and password of its user u
          seen       \* seen[k]: what accounts were seen to have since k's last
                     \* Success: an account, "role" or "password", and its value

Init ==
    /\ asked \in [Databases -> Specs]
    /\ obj = [k \in Databases |-> [uid |-> 1, spec |-> asked[k], state |-> ""]]
    /\ secret = [k \in Databases |-> NoObj]
    /\ exists = {} /\ account = [u \in Accounts |-> NoObj]
    /\ seen = [k \in Databases |-> {}]

\* Specs that differ in the passwords that are read from sources, if at all.
Unfilled(users) ==
    [i \in 1..Len(users) |-> IF users[i].from = NoObj THEN users[i]
                             ELSE [users[i] EXCEPT !.password = ""]]
SameButPasswords(s, t) ==
    [s EXCEPT !.users = Unfilled(@)] = [t EXCEPT !.users = Unfilled(@)]

\* What has to be seen before Success: only PostgreSQL's plugin has users.
Plugin(sp) == IF sp.type # "" THEN sp.type ELSE ServerPlugin
Duties(sp) ==
    IF Plugin(sp) # "postgres" THEN {}
    ELSE UNION {{<<sp.users[i].name, "role", sp.users[i].role>>,
                 <<sp.users[i].name, "password", sp.users[i].password>>} :
                    i \in 1..Len(sp.users)}

Others(k) == \A j \in Databases \ {k} : obj'[j] = obj[j] /\ asked'[j] = asked[j]

\* Users create or edit an object, or delete it.
Ask(k) ==
    /\ obj'[k] # NoObj /\ obj'[k].spec = asked'[k] /\ asked'[k] \in Specs
    /\ obj'[k].state = IF obj[k] = NoObj THEN "" ELSE obj[k].state
    /\ Others(k)
Delete(k) == obj'[k] = NoObj /\ asked'[k] = NoObj /\ Others(k)

\* The controller writes the state of an object that exists, and passwords.
Report(k) ==
    /\ obj[k] # NoObj /\ obj'[k] # NoObj
    /\ SameButPasswords(obj'[k].spec, obj[k].spec)
    /\ obj'[k].state = "Success" =>
          k \in exists /\ Duties(obj'[k].spec) \subseteq seen[k] /\ seen'[k] = {}
    /\ asked' = asked /\ Others(k)

\* What has been seen was so when it was seen; it may be forgotten.
Is(t) == account[t[1]] # NoObj /\ account[t[1]][t[2]] = t[3]
Look == \A k \in Databases : \A t \in seen'[k] \ seen[k] : Is(t)'

\* The secret that others wait for is made once, for a database that is there;
\* users may put one of their own in its place.
Secrets ==
    \A k \in Databases :
        secret'[k] \notin {secret[k], NoObj} /\ secret'[k].owner # Foreign
        => secret[k] = NoObj /\ k \in exists

\* Databases and accounts are never dropped.
Grow == /\ exists \subseteq exists'
        /\ \A u \in Accounts : account[u] # NoObj => account'[u] # NoObj

Next ==
    /\ \/ UNCHANGED <<obj, asked>>
       \/ \E k \in Databases : Ask(k) \/ Delete(k) \/ Report(k)
    /\ Look /\ Secrets /\ Grow

Spec == Init /\ [][Next]_<<obj, asked, secret, exists, account, seen>>
=============================================================================
