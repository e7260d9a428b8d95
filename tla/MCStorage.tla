------------------------------ MODULE MCStorage ------------------------------
(***************************************************************************)
(* Instances of Storage for model checking.                                *)
(***************************************************************************)
EXTENDS Storage

CONSTANTS admin, operator, oracle

\* A contract before init and every earlier schema version, 0 for a deployment
\* that stored no version.
AnyVersion == -1..4
=============================================================================
