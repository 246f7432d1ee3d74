---------------------------- MODULE MCFdReactor ----------------------------
(* Small instances of FdReactor for TLC.                                   *)
EXTENDS FdReactor

CONSTANTS f1, r1, r2
=============================================================================
