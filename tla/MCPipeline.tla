----------------------------- MODULE MCPipeline ------------------------------
(* TLC instance of Pipeline.                                                 *)
EXTENDS Pipeline

CONSTANTS k1, k2

TwoSchemas   == {k1, k2}
TwoPasswords == {"p", "q"}
=============================================================================
