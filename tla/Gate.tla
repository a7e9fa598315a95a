--------------------------------- MODULE Gate ---------------------------------
(***************************************************************************)
(* What the gateway promises of every request it takes, whatever stages it *)
(* is made of: a request is turned away, neither sent on nor on record, or *)
(* it is decided once, to be denied or passed on; only what is passed on   *)
(* is sent; a decision is recorded once, as it was taken, and before the   *)
(* client is answered.  The exception is the client that leaves, and the   *)
(* handler that panics: such a request may end without a record.  Proxy is *)
(* shown to implement this specification.                                  *)
(***************************************************************************)
CONSTANT Requests

VARIABLES
    open,      \* the requests being handled or still to come
    decision,  \* what was decided of an open or answered request
    sent,      \* the requests sent on to the upstream
    logged     \* the decision recorded of each request

vars == <<open, decision, sent, logged>>

Init ==
    /\ open = Requests
    /\ decision = [r \in Requests |-> "none"]
    /\ sent = {}
    /\ logged = [r \in Requests |-> "none"]

Decide(r, d) ==
    /\ r \in open /\ decision[r] = "none"
    /\ decision' = [decision EXCEPT ![r] = d]
    /\ UNCHANGED <<open, sent, logged>>

Send(r) ==
    /\ r \in open \ sent /\ decision[r] = "pass" /\ logged[r] = "none"
    /\ sent' = sent \cup {r}
    /\ UNCHANGED <<open, decision, logged>>

\* The record may come with the answer (a refusal, a failure) or before it.
Record(r) ==
    /\ r \in open /\ decision[r] # "none" /\ logged[r] = "none"
    /\ logged' = [logged EXCEPT ![r] = decision[r]]
    /\ open' \in {open, open \ {r}}
    /\ UNCHANGED <<decision, sent>>

\* An answer: to a request that was turned away, or one that is on record.
Answer(r) ==
    /\ r \in open /\ decision[r] = logged[r]
    /\ open' = open \ {r}
    /\ UNCHANGED <<decision, sent, logged>>

\* The client leaves, or the handler dies.
Abandon(r) ==
    /\ r \in open
    /\ open' = open \ {r}
    /\ decision' = [decision EXCEPT ![r] = "none"]
    /\ UNCHANGED <<sent, logged>>

Next ==
    \E r \in Requests :
        \/ \E d \in {"pass", "deny"} : Decide(r, d)
        \/ Send(r) \/ Record(r) \/ Answer(r) \/ Abandon(r)

Spec == Init /\ [][Next]_vars

=============================================================================
