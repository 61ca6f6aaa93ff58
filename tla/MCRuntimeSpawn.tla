---------------------------- MODULE MCRuntimeSpawn ----------------------------
(***************************************************************************)
(* Instances of RuntimeSpawn for TLC.  Liveness is checked, so that tasks  *)
(* are told apart although they are interchangeable.                       *)
(***************************************************************************)
EXTENDS RuntimeSpawn
=============================================================================
