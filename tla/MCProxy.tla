------------------------------- MODULE MCProxy -------------------------------
(***************************************************************************)
(* Model-checking instances of Proxy.                                      *)
(***************************************************************************)
EXTENDS Proxy, TLC

Mcp(a, b) == [route |-> "mcp", authenticated |-> TRUE, agent |-> a,
              body |-> b, layout |-> "object"]

SomeAgent == CHOOSE a \in Agents : TRUE

ToolCall == Mcp(SomeAgent, "clean")
PiiCall  == Mcp(SomeAgent, "pii")

\* One message of every kind that takes its own path through the handler.  The
\* kinds left out take the path of one that is here: invalid of unreadable, get
\* and other of odd_params, odd of array.
EveryInput ==
    {Mcp(SomeAgent, "unreadable"), Mcp(SomeAgent, "odd_params")}
        \cup {[PiiCall EXCEPT !.layout = l] : l \in {"object", "array", "positional"}}
        \cup {ToolCall,
              [ToolCall EXCEPT !.layout = "positional"],
              [ToolCall EXCEPT !.route = "pathless"],
              [ToolCall EXCEPT !.route = "metrics"],
              [ToolCall EXCEPT !.authenticated = FALSE]}

\* Tool calls of every agent.
ToolCalls == {Mcp(a, "clean") : a \in Agents}

Symmetry == Permutations(Requests)

=============================================================================
