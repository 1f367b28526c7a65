------------------------------ MODULE Versioned ------------------------------
(***************************************************************************)
(* What a database that golang-migrate looks after goes through, whoever   *)
(* asks for migrations and whatever fails (migrate.go:692-729): one        *)
(* migration at a time, from a version of the source to the next or the    *)
(* one before, run at most once, on what it was written for.  A migration  *)
(* that is not finished leaves the row dirty, and nothing follows on it.   *)
(* Who migrates, the lock, connections and calls are not in here: Migrate  *)
(* adds them and implements this module.                                   *)
(***************************************************************************)
EXTENDS Integers

CONSTANTS Databases, Source

Nil  == -1
Torn == -2

VARIABLES table,     \* table[d]: the row of schema_migrations
          content    \* content[d]: the version that d has, or Torn

vars == <<table, content>>

Init ==
    /\ table = [d \in Databases |-> [version |-> Nil, dirty |-> FALSE]]
    /\ content = [d \in Databases |-> Nil]

\* The versions one migration away from v, up or down.
Adjacent(v) ==
    {x \in Source : x # v /\ \A y \in Source : ~(v < y /\ y < x) /\ ~(x < y /\ y < v)}

\* A migration is announced in a clean row.
Begin(d) ==
    /\ ~table[d].dirty
    /\ \E x \in Adjacent(table[d].version) :
          table' = [table EXCEPT ![d] = [version |-> x, dirty |-> TRUE]]
    /\ UNCHANGED content

\* The migration announced has not touched the database yet.
Pending(d) ==
    /\ table[d].dirty
    /\ content[d] # Torn
    /\ table[d].version \in Adjacent(content[d])

\* It takes the database from the version before to the one announced...
Apply(d) ==
    /\ Pending(d)
    /\ content' = [content EXCEPT ![d] = table[d].version]
    /\ UNCHANGED table

\* ...or stops halfway...
Tear(d) ==
    /\ Pending(d)
    /\ content' = [content EXCEPT ![d] = Torn]
    /\ UNCHANGED table

\* ...and only when it has been run is the row clean again.
Finish(d) ==
    /\ table[d].dirty
    /\ content[d] = table[d].version
    /\ table' = [table EXCEPT ![d] = [version |-> content[d], dirty |-> FALSE]]
    /\ UNCHANGED content

Next == \E d \in Databases : Begin(d) \/ Apply(d) \/ Tear(d) \/ Finish(d)

Spec == Init /\ [][Next]_vars
=============================================================================
