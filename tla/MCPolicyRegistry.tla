--------------------------- MODULE MCPolicyRegistry ---------------------------
(***************************************************************************)
(* Model-checking instances of PolicyRegistry.                             *)
(***************************************************************************)
EXTENDS PolicyRegistry

=============================================================================
