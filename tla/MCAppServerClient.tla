------------------------- MODULE MCAppServerClient -------------------------
(* Small instances of AppServerClient for TLC.                             *)
EXTENDS AppServerClient, TLC

\* Calls are interchangeable in every definition of the module.
CallSymmetry == Permutations(Calls)
============================================================================
