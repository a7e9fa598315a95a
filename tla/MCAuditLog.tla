------------------------------ MODULE MCAuditLog ------------------------------
(***************************************************************************)
(* Model-checking instance of AuditLog.                                    *)
(***************************************************************************)
EXTENDS AuditLog, TLC

CONSTANTS e1, e2, e3, e4

\* Lines that fit with room, that fill the buffer with their newline, and two
\* that bypass it (one may then follow the failure of the other).
Sizes == (e1 :> 1) @@ (e2 :> 2) @@ (e3 :> 3) @@ (e4 :> 3)

=============================================================================
