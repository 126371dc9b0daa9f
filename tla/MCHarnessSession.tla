-------------------------- MODULE MCHarnessSession -------------------------
(* Small instances of HarnessSession for TLC.                              *)
EXTENDS HarnessSession
============================================================================
