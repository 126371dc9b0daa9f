------------------------ MODULE MCRequestLifecycle -------------------------
(* Small instances of RequestLifecycle for TLC.  No symmetry: the run of    *)
(* this module checks a temporal property as well.                         *)
EXTENDS RequestLifecycle, TLC
============================================================================
