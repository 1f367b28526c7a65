---------------------------- MODULE SchemaPromise ----------------------------
(***************************************************************************)
(* What the users of DatabaseSchema objects may rely on, whatever the      *)
(* controller is doing (databaseSchemaResource.go:150-219): what they ask  *)
(* for is theirs, only the state of an object is the controller's, and it  *)
(* says Success only of the version asked for at that moment, when a       *)
(* database was seen there, and once for each time that it was seen.       *)
(* Queues, caches, copies, connections and failures are not in here:       *)
(* SchemaSync adds them and implements this module.                        *)
(***************************************************************************)
EXTENDS Integers

CONSTANTS Schemas,     \* the DatabaseSchema objects
          Databases,
          Wants,       \* what a spec may ask for: a database and a version
          States,      \* what Status.State may say
          NoObj        \* no such object

Nil == -1

VARIABLES table,     \* table[d]: the row of schema_migrations
          obj,       \* obj[k]: the object in the API server
          asked,     \* asked[k]: what users want k to be, NoObj if deleted
          seen       \* seen[k]: the versions a database was seen at since k's
                     \* last Success

Init ==
    /\ asked \in [Schemas -> Wants \cup {NoObj}]
    /\ obj = [k \in Schemas |-> IF asked[k] = NoObj THEN NoObj
                               ELSE [want |-> asked[k], state |-> ""]]
    /\ seen = [k \in Schemas |-> {}]

\* Some database is at version v and clean (no row counts as 0).
At(v) ==
    \E d \in Databases :
        /\ ~table[d].dirty
        /\ table[d].version = v \/ (table[d].version = Nil /\ v = 0)

\* Users create or edit an object, or delete it.
Ask(k, w) ==
    /\ asked' = [asked EXCEPT ![k] = w]
    /\ obj' = [obj EXCEPT ![k] = IF @ = NoObj THEN [want |-> w, state |-> ""]
                                              ELSE [@ EXCEPT !.want = w]]
Delete(k) ==
    /\ asked' = [asked EXCEPT ![k] = NoObj]
    /\ obj' = [obj EXCEPT ![k] = NoObj]

\* The controller writes the state of an object that exists, and no more.
Report(k, state) ==
    /\ obj[k] # NoObj
    /\ state = "Success" => obj[k].want.version \in seen[k] /\ seen'[k] = {}
    /\ obj' = [obj EXCEPT ![k].state = state]
    /\ UNCHANGED asked

\* What has been seen was so when it was seen; it may be forgotten.
Look == \A k \in Schemas : \A v \in seen'[k] \ seen[k] : At(v)'

Next ==
    /\ \/ UNCHANGED <<obj, asked>>
       \/ \E k \in Schemas :
             \/ \E w \in Wants : Ask(k, w)
             \/ Delete(k)
             \/ \E state \in States : Report(k, state)
    /\ Look

Spec == Init /\ [][Next]_<<obj, asked, seen>>
=============================================================================
