---------------------------- MODULE MCSchemaSync -----------------------------
(* TLC instances of SchemaSync.                                              *)
EXTENDS SchemaSync, TLC

CONSTANTS s1, s2, d1, d2

OneSchema    == {s1}
TwoSchemas   == {s1, s2}
OneDatabase  == {d1}
TwoDatabases == {d1, d2}
TwoVersions  == {0, 2}   \* 0, which no version is taken for, and a gap
Symmetry     == Permutations(Schemas)

\* Users who agree: the objects that there are want the same (Converges says
\* nothing of others, who undo each other's migrations), and one whose secrets
\* come late is alone at first.
Agreed     == ~\E k \in Schemas : obj[k] # NoObj /\ Contested(k)
LateAlone  == \A k \in Schemas : inputs[k] \/ \A j \in Schemas \ {k} : obj[j] = NoObj
AgreedInit == Init /\ Agreed /\ LateAlone
AgreedNext == Next /\ Agreed'
AgreedSpec == AgreedInit /\ [][AgreedNext]_vars /\ Fairness
=============================================================================
