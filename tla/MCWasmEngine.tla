----------------------------- MODULE MCWasmEngine -----------------------------
(***************************************************************************)
(* Model-checking instances of WasmEngine.                                 *)
(***************************************************************************)
EXTENDS WasmEngine

CONSTANTS e1, e2, e3

\* Behaviours of three guests, up to the names of the evaluations; one spins,
\* as without it no timeout is needed (but its evaluation need not begin).
SpinningGuest ==
    LET rank == [finite |-> 0, waiting |-> 1, spinning |-> 2]
    IN  {g \in [Evaluations -> Guests] :
            /\ rank[g[e1]] <= rank[g[e2]] /\ rank[g[e2]] <= rank[g[e3]]
            /\ g[e3] = "spinning"}

=============================================================================
