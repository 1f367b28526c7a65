------------------------------ MODULE MCMigrate ------------------------------
(* TLC instances of Migrate: two schema objects, each free to connect to     *)
(* either of two databases.  The source has a gap, so that neighbours are    *)
(* not consecutive numbers, and one target has no files.                     *)
EXTENDS Migrate

CONSTANTS s1, s2, d1, d2

TwoSchemas   == {s1, s2}
TwoDatabases == {d1, d2}
GappedSource == {1, 3, 4}
SomeTargets  == {1, 2, 4}
=============================================================================
