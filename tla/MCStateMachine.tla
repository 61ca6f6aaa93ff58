---------------------------- MODULE MCStateMachine ----------------------------
(***************************************************************************)
(* Instance of StateMachine for TLC: one key in the main trie, in a child  *)
(* trie and in the offchain storage each.                                  *)
(***************************************************************************)
EXTENDS StateMachine, TLC

MCMapOf == ("a" :> "top") @@ ("c" :> "child") @@ ("o" :> "offchain")
MCWritten == ("a" :> {0, Deleted}) @@ ("c" :> {0}) @@ ("o" :> {0})
=============================================================================
