---------------------------- MODULE MCResponseRun ----------------------------
(* Small instances of ResponseRun for TLC; the bounds are in the .cfg files. *)
EXTENDS ResponseProperties
=============================================================================
