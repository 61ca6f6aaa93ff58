------------------------- MODULE MCWasmEdgeInstance -------------------------
(***************************************************************************)
(* Instances of WasmEdgeInstance for TLC: a module with three overlapping  *)
(* data segments in a memory that can grow by two pages.                   *)
(***************************************************************************)
EXTENDS WasmEdgeInstance

\* The second segment overwrites the first one.
MCSegments == <<0, 0, 1>>

\* 1.0, which the conversion keeps, and 0.5, which it does not.
MCWhole == 2
MCHalf == 1
MCGuestFloats == {-2, 1, 6}

\* Every strategy in every build, and a runtime that reuses its instances in a
\* release build.
MCSetups == Setup
MCRelease == {[fastReuse |-> TRUE, overflowChecks |-> FALSE]}
=============================================================================
