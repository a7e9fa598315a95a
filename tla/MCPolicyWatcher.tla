---------------------------- MODULE MCPolicyWatcher ----------------------------
(***************************************************************************)
(* Model-checking instances of PolicyWatcher.                              *)
(***************************************************************************)
EXTENDS PolicyWatcher

=============================================================================
