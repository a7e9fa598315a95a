-------------------------------- MODULE Proxy --------------------------------
(***************************************************************************)
(* The request pipeline Proxy::handle_request (safegate-proxy/src/proxy.rs)*)
(* for a set of concurrent requests, composed with the rate limiter and    *)
(* the circuit breaker it shares between them.                             *)
(*                                                                         *)
(* A request is one run of the handler.  It is cut into a step per access  *)
(* to shared state and per await; code between two such points is local to *)
(* its task and belongs to the step before it.  hyper drops the handler's  *)
(* future when the client disconnects, so a request may end at any await;  *)
(* a panic ends it between them.                                           *)
(*                                                                         *)
(* The message is abstracted to its kind (see Bodies), the policy engine   *)
(* to the outcome of one evaluation, the upstream to the status it answers *)
(* with, if it does.                                                       *)
(***************************************************************************)
EXTENDS Integers, FiniteSets, Sequences

CONSTANTS
    Agents, Requests,
    Inputs,                       \* the messages clients may send
    Outcomes,                     \* the results policy evaluations may have
    Threshold, Window, Cooldown,  \* parameters of the circuit breaker
    MaxRequests, RateWindow,      \* AGENT_RATE_LIMIT, AGENT_RATE_LIMIT_WINDOW
    MaxTime                       \* bound: the last instant the clock reaches

ASSUME BreakerAssumption == Threshold \in Nat \ {0} /\ Window \in Nat /\ Cooldown \in Nat
ASSUME LimiterAssumption == MaxRequests \in Nat /\ RateWindow \in Nat
ASSUME MaxTimeAssumption == MaxTime \in Nat

VARIABLES
    pc,         \* where each request's handler is
    input,      \* the message each request carries
    verdict,    \* what the policy evaluation returned
    upstream_result,  \* what client.request returned
    reply,      \* what the client was answered
    received,   \* the body whose bytes were sent to the upstream
    audited,    \* the audit entries enqueued for each request
    http_requests_total,
    policy_decisions_total,
    checked,    \* history: the instant circuit_breaker.check returned Ok
    clock,
    requests, now,              \* of the rate limiter
    states, at, counted, trips  \* of the circuit breaker

local   == <<pc, verdict, upstream_result, reply>>
ledgers == <<audited, http_requests_total, policy_decisions_total>>
limiter == <<requests, now>>
breaker == <<states, at, counted, trips>>
vars    == <<local, input, received, ledgers, checked, clock, limiter, breaker>>

-----------------------------------------------------------------------------
(* Messages. *)

\* The target: a management route, another path, or none (authority form).
Routes == {"metrics", "healthz", "mcp", "pathless"}

(***************************************************************************)
(* What the handler can tell about a body: collecting it fails             *)
(* (unreadable); a non-POST (get); a POST that is not JSON-RPC (invalid),  *)
(* another method (other), tools/call with parameters that are no          *)
(* McpToolCallParams (odd_params), tools/call without (clean) or with      *)
(* values the redactor rewrites (pii).                                     *)
(***************************************************************************)
Bodies == {"unreadable", "get", "invalid", "other", "odd_params", "clean", "pii"}

(***************************************************************************)
(* How a tool call is written.  serde reads a struct from an object or     *)
(* from an array of its fields, so the request itself may be an array, or  *)
(* its params may be (positional); and the two parsers of a body differ on *)
(* fields JsonRpcRequest ignores (odd: not a Value).                       *)
(***************************************************************************)
Layouts == {"object", "array", "positional", "odd"}

Message == [route : Routes, authenticated : BOOLEAN, agent : Agents,
            body : Bodies, layout : Layouts]

ASSUME InputsAssumption == Inputs \subseteq Message

\* tool_call_params.is_some(): only these are evaluated.
IsToolCall(in) == in.body \in {"clean", "pii"}

\* pii_redacted
PiiRedacted(in) == in.body = "pii"

(***************************************************************************)
(* rebuild_tool_call_body, given new arguments that parse.  It replaces    *)
(* them in an object; it finds no "params" in an array and returns that as *)
(* it is; assigning a member of positional params panics; an odd body is   *)
(* an error, for which the callers keep the one they have.                 *)
(***************************************************************************)
RebuildPanics(in) == in.layout = "positional"

Rebuild(in, old, new) == IF in.layout = "object" THEN new ELSE old

\* What evaluate_policy may return; redact_invalid is RedactArgs with non-JSON.
Verdicts == {"allow", "deny", "redact", "redact_invalid", "error"}

ASSUME OutcomesAssumption == Outcomes \subseteq Verdicts

Forms == {"original", "sanitised", "rewritten"}

\* Mutant of SanitisedBody: the rebuilt body is dropped.
UnsanitisedBody(in) == "original"

\* body_bytes after the redactor ran.
SanitisedBody(in) ==
    IF PiiRedacted(in) THEN Rebuild(in, "original", "sanitised") ELSE "original"

\* body_to_forward
BodyToForward(in, v) ==
    IF v = "redact" THEN Rebuild(in, SanitisedBody(in), "rewritten")
    ELSE SanitisedBody(in)

\* Mutant of AuditDecision: the raw outcome of the evaluation is logged.
AuditVerdict(in, v) == v

\* audit_decision
AuditDecision(in, v) ==
    CASE v = "deny" -> "deny"
      [] v \in {"redact", "redact_invalid"} -> "redact"
      [] OTHER -> IF PiiRedacted(in) THEN "redact" ELSE "allow"

-----------------------------------------------------------------------------
(* The shared components, and where a request is in their terms. *)

Agent(r) == input[r].agent

Unstamped == {r \in Requests : pc[r] = "new" \/ reply[r] \in {"management", "unauthorized"}}
Stamped   == {r \in Requests : pc[r] = "stamped"}
Limited   == {r \in Requests : reply[r] = "rate_limit_exceeded"}
Admitted  == Requests \ (Unstamped \cup Stamped \cup Limited)

\* The requests that have not called record_failure.
Unrecorded == {r \in Requests : verdict[r] # "deny" \/ pc[r] = "denied"}

ByAgent(S) == [a \in Agents |-> {r \in S : Agent(r) = a}]

RL == INSTANCE RateLimiter WITH
        Keys <- Agents, Calls <- Requests, idle <- Unstamped,
        stamped <- ByAgent(Stamped), allowed <- ByAgent(Admitted),
        rejected <- ByAgent(Limited)

CB == INSTANCE CircuitBreaker WITH Calls <- Requests, pending <- Unrecorded

(***************************************************************************)
(* The request in the terms of the abstract gateway: the policy's denial   *)
(* decides it, or being handed to the client of the upstream does.         *)
(***************************************************************************)
Passed(r) ==
    \/ pc[r] \in {"awaiting", "auditing", "counting", "relaying"}
    \/ audited[r] # <<>>

Decided(r) ==
    CASE pc[r] # "dropped" /\ verdict[r] = "deny" -> "deny"
      [] pc[r] # "dropped" /\ verdict[r] # "deny" /\ Passed(r) -> "pass"
      [] OTHER -> "none"

Recorded(r) ==
    CASE audited[r] = <<>> -> "none"
      [] audited[r] = <<"deny">> -> "deny"
      [] OTHER -> "pass"

Open     == {r \in Requests : pc[r] \notin {"done", "dropped"}}
Sent     == {r \in Requests : received[r] # "nothing"}
Decision == [r \in Requests |-> Decided(r)]
Logged   == [r \in Requests |-> Recorded(r)]

G == INSTANCE Gate WITH open <- Open, decision <- Decision, sent <- Sent, logged <- Logged

-----------------------------------------------------------------------------
(* The handler. *)

\* Where a handler waits for others: its client, the policy, the upstream.
Awaits == {"reading", "evaluating", "awaiting", "relaying"}

Stages == Awaits \cup {"new", "stamped", "admitted", "denied", "recorded",
           "tallied", "refusing", "auditing", "counting", "done", "dropped"}

\* The label of http_requests_total: the two the gateway sets, and any other.
Statuses == {"200", "403", "502"}

Replies == {"none", "management", "unauthorized", "rate_limit_exceeded",
            "circuit_open", "bad_request", "guardrail_violation",
            "bad_gateway", "upstream"}

Init ==
    /\ input \in [Requests -> Inputs]
    /\ pc = [r \in Requests |-> "new"]
    /\ verdict = [r \in Requests |-> "none"]
    /\ upstream_result = [r \in Requests |-> "none"]
    /\ reply = [r \in Requests |-> "none"]
    /\ received = [r \in Requests |-> "nothing"]
    /\ audited = [r \in Requests |-> <<>>]
    /\ http_requests_total = [s \in Statuses |-> 0]
    /\ policy_decisions_total = [d \in {"allow", "deny", "redact"} |-> 0]
    /\ checked = [r \in Requests |-> CB!None]
    /\ clock = 0
    /\ requests = [a \in Agents |-> {}]
    /\ now = [r \in Requests |-> 0]
    /\ states = [a \in Agents |-> CB!Closed]
    /\ at = [r \in Requests |-> CB!None]
    /\ counted = [a \in Agents |-> {}]
    /\ trips = [a \in Agents |-> {}]

Goto(r, stage)  == pc' = [pc EXCEPT ![r] = stage]
Answer(r, code) == Goto(r, "done") /\ reply' = [reply EXCEPT ![r] = code]

CountDecision(d) ==
    policy_decisions_total' = [policy_decisions_total EXCEPT ![d] = @ + 1]
CountHttp(s) ==
    http_requests_total' = [http_requests_total EXCEPT ![s] = @ + 1]

\* emit_audit: the entry is signed and enqueued on the logger's channel.
EmitAudit(r) ==
    audited' = [audited EXCEPT ![r] = Append(@, AuditDecision(input[r], verdict[r]))]

\* Step 0: handle_metrics and handle_healthz answer before any check.
Manage(r) ==
    /\ pc[r] = "new"
    /\ input[r].route \in {"metrics", "healthz"}
    /\ Answer(r, "management")
    /\ UNCHANGED <<input, verdict, upstream_result, received, ledgers,
                   checked, clock, limiter, breaker>>

\* Step 1: a request without the token.
Unauthorized(r) ==
    /\ pc[r] = "new"
    /\ input[r].route \in {"mcp", "pathless"} /\ ~input[r].authenticated
    /\ Answer(r, "unauthorized")
    /\ UNCHANGED <<input, verdict, upstream_result, received, ledgers,
                   checked, clock, limiter, breaker>>

\* Step 1, and check_rate_limit up to its entry lock.
Arrive(r) ==
    /\ pc[r] = "new"
    /\ input[r].route \in {"mcp", "pathless"} /\ input[r].authenticated
    /\ Goto(r, "stamped")
    /\ UNCHANGED <<input, verdict, upstream_result, reply>>
    /\ RL!Begin(r, Agent(r))
    /\ UNCHANGED <<received, ledgers, checked, breaker>>

\* Mutant of RateLimit: a request over the quota waits instead of failing.
RateLimitWaits(r) ==
    /\ pc[r] = "stamped"
    /\ UNCHANGED <<input, verdict, upstream_result, reply>>
    /\ Goto(r, "admitted")
    /\ RL!Admit(r, Agent(r))
    /\ UNCHANGED <<received, ledgers, checked, breaker>>

\* Step 2: the limiter's decision.
RateLimit(r) ==
    /\ pc[r] = "stamped"
    /\ UNCHANGED <<input, verdict, upstream_result>>
    /\ \/ /\ Goto(r, "admitted") /\ UNCHANGED reply
          /\ RL!Admit(r, Agent(r))
       \/ /\ Answer(r, "rate_limit_exceeded")
          /\ RL!Reject(r, Agent(r))
    /\ UNCHANGED <<received, ledgers, checked, breaker>>

\* Mutant of CircuitCheck: the request goes on whatever the breaker says.
CircuitUnchecked(r) ==
    /\ pc[r] = "admitted"
    /\ Goto(r, "reading") /\ UNCHANGED reply
    /\ checked' = [checked EXCEPT ![r] = clock]
    /\ UNCHANGED <<input, verdict, upstream_result, received, ledgers, clock,
                   limiter, breaker>>

\* Step 2.5: quarantined agents are refused; otherwise the body is awaited.
CircuitCheck(r) ==
    /\ pc[r] = "admitted"
    /\ UNCHANGED <<input, verdict, upstream_result>>
    /\ IF CB!IsOpen(states[Agent(r)], clock)
       THEN Answer(r, "circuit_open") /\ UNCHANGED checked
       ELSE /\ Goto(r, "reading") /\ UNCHANGED reply
            /\ checked' = [checked EXCEPT ![r] = clock]
    /\ CB!Check(Agent(r))
    /\ UNCHANGED <<received, ledgers, limiter>>

\* upstream_uri(..).is_ok(): it fails when the inbound target has no path.
UpstreamUri(in) == in.route # "pathless"

\* Step 5, up to the await.
Forward(r) ==
    IF UpstreamUri(input[r]) THEN Goto(r, "awaiting") /\ UNCHANGED reply
    ELSE Answer(r, "bad_gateway")

\* The task panics: its connection is closed without an answer.
Panic(r) == Goto(r, "dropped") /\ UNCHANGED reply

\* Steps 3 and 3.5: the body is collected, parsed and sanitised.
ReadBody(r) ==
    LET in     == input[r]
        panics == PiiRedacted(in) /\ RebuildPanics(in)
    IN  /\ pc[r] = "reading"
        /\ \/ in.body \in {"unreadable", "invalid"} /\ Answer(r, "bad_request")
           \/ IsToolCall(in) /\ ~panics /\ Goto(r, "evaluating") /\ UNCHANGED reply
           \/ panics /\ Panic(r)
           \/ in.body \in {"get", "other", "odd_params"} /\ Forward(r)
        /\ IF PiiRedacted(in) /\ ~panics THEN CountDecision("redact")
           ELSE UNCHANGED policy_decisions_total
        /\ UNCHANGED <<input, verdict, upstream_result, received, audited,
                       http_requests_total, checked, clock, limiter, breaker>>

\* Mutant of Evaluate: a denial only logs its warning.
EvaluateFallsThrough(r, v) ==
    /\ pc[r] = "evaluating"
    /\ verdict' = [verdict EXCEPT ![r] = v]
    /\ Forward(r)
    /\ CountDecision(IF v \in {"allow", "error"} THEN "allow" ELSE "redact")
    /\ UNCHANGED <<input, upstream_result, received, audited,
                   http_requests_total, checked, clock, limiter, breaker>>

\* Step 4: the evaluation returned v; an error lets the request through.
Evaluate(r, v) ==
    /\ pc[r] = "evaluating"
    /\ verdict' = [verdict EXCEPT ![r] = v]
    /\ \/ v = "deny" /\ Goto(r, "denied") /\ UNCHANGED reply
       \/ v = "redact" /\ RebuildPanics(input[r]) /\ Panic(r)
       \/ v # "deny" /\ ~(v = "redact" /\ RebuildPanics(input[r])) /\ Forward(r)
    /\ \/ v \in {"redact", "redact_invalid"} /\ CountDecision("redact")
       \/ /\ v \in {"allow", "error"} /\ ~PiiRedacted(input[r])
          /\ CountDecision("allow")
       \/ /\ v = "deny" \/ (v \in {"allow", "error"} /\ PiiRedacted(input[r]))
          /\ UNCHANGED policy_decisions_total
    /\ UNCHANGED <<input, upstream_result, received, audited,
                   http_requests_total, checked, clock, limiter, breaker>>

\* Mutant of RecordDenial: the call of record_failure is missing.
DenialUnrecorded(r) ==
    /\ pc[r] = "denied"
    /\ Goto(r, "recorded")
    /\ UNCHANGED <<input, verdict, upstream_result, reply, received, ledgers,
                   checked, clock, limiter, breaker>>

\* The Deny branch: circuit_breaker.record_failure.
RecordDenial(r) ==
    /\ pc[r] = "denied"
    /\ Goto(r, "recorded")
    /\ UNCHANGED <<input, verdict, upstream_result, reply>>
    /\ CB!RecordFailure(r, Agent(r)) \/ CB!IgnoreFailure(r, Agent(r))
    /\ UNCHANGED <<received, ledgers, checked, limiter>>

\* The Deny branch: policy_decisions_total.
CountDenial(r) ==
    /\ pc[r] = "recorded"
    /\ Goto(r, "tallied") /\ UNCHANGED reply
    /\ CountDecision("deny")
    /\ UNCHANGED <<input, verdict, upstream_result, received, audited,
                   http_requests_total, checked, clock, limiter, breaker>>

\* The Deny branch: http_requests_total.
CountRefusal(r) ==
    /\ pc[r] = "tallied"
    /\ Goto(r, "refusing") /\ UNCHANGED reply
    /\ CountHttp("403")
    /\ UNCHANGED <<input, verdict, upstream_result, received, audited,
                   policy_decisions_total, checked, clock, limiter, breaker>>

\* Mutant of Refuse: the early return comes before emit_audit.
RefuseUnaudited(r) ==
    /\ pc[r] = "refusing"
    /\ Answer(r, "guardrail_violation")
    /\ UNCHANGED <<input, verdict, upstream_result, received, ledgers, checked,
                   clock, limiter, breaker>>

\* The end of the Deny branch: the audit entry, and 403.
Refuse(r) ==
    /\ pc[r] = "refusing"
    /\ Answer(r, "guardrail_violation")
    /\ EmitAudit(r)
    /\ UNCHANGED <<input, verdict, upstream_result, received,
                   http_requests_total,
                   policy_decisions_total, checked, clock, limiter, breaker>>

\* External: the bytes of the request leave for the upstream.
Transmit(r) ==
    /\ pc[r] = "awaiting"
    /\ received[r] = "nothing"
    /\ received' = [received EXCEPT ![r] = BodyToForward(input[r], verdict[r])]
    /\ UNCHANGED <<local, input, ledgers, checked, clock, limiter, breaker>>

\* External: client.request returns a response, or an error.
Respond(r) ==
    /\ pc[r] = "awaiting"
    /\ \E result \in (IF received[r] = "nothing" THEN {} ELSE Statuses) \cup {"error"} :
          upstream_result' = [upstream_result EXCEPT ![r] = result]
    /\ Goto(r, "auditing") /\ UNCHANGED reply
    /\ UNCHANGED <<input, verdict, received, ledgers, checked, clock, limiter, breaker>>

\* Mutant of AuditOutcome: only what the upstream answered is audited.
AuditAnswered(r) ==
    /\ pc[r] = "auditing"
    /\ Goto(r, "counting") /\ UNCHANGED reply
    /\ IF upstream_result[r] = "error" THEN UNCHANGED audited ELSE EmitAudit(r)
    /\ UNCHANGED <<input, verdict, upstream_result, received,
                   http_requests_total,
                   policy_decisions_total, checked, clock, limiter, breaker>>

\* Step 6.
AuditOutcome(r) ==
    /\ pc[r] = "auditing"
    /\ Goto(r, "counting") /\ UNCHANGED reply
    /\ EmitAudit(r)
    /\ UNCHANGED <<input, verdict, upstream_result, received,
                   http_requests_total,
                   policy_decisions_total, checked, clock, limiter, breaker>>

\* Mutant of CountOutcome: an upstream that failed is not counted.
CountAnswered(r) ==
    /\ pc[r] = "counting"
    /\ IF upstream_result[r] = "error"
       THEN UNCHANGED http_requests_total /\ Answer(r, "bad_gateway")
       ELSE CountHttp(upstream_result[r]) /\ Goto(r, "relaying") /\ UNCHANGED reply
    /\ UNCHANGED <<input, verdict, upstream_result, received, audited,
                   policy_decisions_total, checked, clock, limiter, breaker>>

\* Step 7: the upstream's own status is the label; an error is a 502.
CountOutcome(r) ==
    /\ pc[r] = "counting"
    /\ IF upstream_result[r] = "error"
       THEN CountHttp("502") /\ Answer(r, "bad_gateway")
       ELSE CountHttp(upstream_result[r]) /\ Goto(r, "relaying") /\ UNCHANGED reply
    /\ UNCHANGED <<input, verdict, upstream_result, received, audited,
                   policy_decisions_total, checked, clock, limiter, breaker>>

\* relay_response: the upstream's body is collected, or fails half-way.
Relay(r) ==
    /\ pc[r] = "relaying"
    /\ Answer(r, "upstream") \/ Answer(r, "bad_gateway")
    /\ UNCHANGED <<input, verdict, upstream_result, received, ledgers,
                   checked, clock, limiter, breaker>>

\* External: the client disconnects and hyper drops the future at an await.
Cancel(r) ==
    /\ pc[r] \in Awaits
    /\ Goto(r, "dropped") /\ UNCHANGED reply
    /\ UNCHANGED <<input, verdict, upstream_result, received, ledgers, checked,
                   clock, limiter, breaker>>

Tick ==
    /\ clock < MaxTime
    /\ clock' = clock + 1
    /\ UNCHANGED <<local, input, received, ledgers, checked, limiter, breaker>>

\* The steps of r's own task between two awaits: no one else is waited for.
Step(r) ==
    \/ RateLimit(r) \/ CircuitCheck(r)
    \/ RecordDenial(r) \/ CountDenial(r) \/ CountRefusal(r) \/ Refuse(r)
    \/ AuditOutcome(r) \/ CountOutcome(r)

\* What ends an await: the client, the policy, the upstream, a disconnection.
Resume(r) ==
    \/ ReadBody(r) \/ \E v \in Outcomes : Evaluate(r, v)
    \/ Respond(r) \/ Relay(r) \/ Cancel(r)

Next ==
    \/ Tick
    \/ \E r \in Requests :
          \/ Manage(r) \/ Unauthorized(r) \/ Arrive(r)
          \/ Step(r) \/ Resume(r) \/ Transmit(r)

(***************************************************************************)
(* Code between two awaits runs to the next one: it takes locks that are   *)
(* held for a few statements only.  Nothing is assumed of the awaits: the  *)
(* handler has no timeout on the client, the policy or the upstream.       *)
(***************************************************************************)
Spec == Init /\ [][Next]_vars /\ \A r \in Requests : WF_vars(Step(r))

-----------------------------------------------------------------------------
(* Properties. *)

TypeOK ==
    /\ input \in [Requests -> Inputs]
    /\ pc \in [Requests -> Stages]
    /\ verdict \in [Requests -> Verdicts \cup {"none"}]
    /\ upstream_result \in [Requests -> Statuses \cup {"none", "error"}]
    /\ reply \in [Requests -> Replies]
    /\ received \in [Requests -> Forms \cup {"nothing"}]
    /\ audited \in [Requests -> Seq({"allow", "deny", "redact"})]
    /\ http_requests_total \in [Statuses -> Nat]
    /\ policy_decisions_total \in [{"allow", "deny", "redact"} -> Nat]
    /\ checked \in [Requests -> CB!Time \cup {CB!None}]
    /\ RL!TypeOK
    /\ CB!TypeOK

\* All increments of safegate_http_requests_total, over its labels.
Total == http_requests_total["200"] + http_requests_total["403"]
            + http_requests_total["502"]

(***************************************************************************)
(* The requests a scrape should find in safegate_http_requests_total:      *)
(* those on the audit trail, less the ones whose handler is yet to count   *)
(* them, and the refused ones that are counted just before their entry.    *)
(***************************************************************************)
Tallied == {r \in Requests : audited[r] # <<>> /\ pc[r] # "counting"}
              \cup {r \in Requests : pc[r] = "refusing"}

(***************************************************************************)
(* The pipeline uses its shared parts only as their specifications allow,  *)
(* so that what is proved of them holds here: whatever the other stages    *)
(* do, the limiter's map and stamps move only by check_rate_limit, and the *)
(* breaker's map by check and by one record_failure per denied request.    *)
(***************************************************************************)
ImplementsParts ==
    /\ RL!Spec
    /\ CB!Init /\ [][CB!Next]_(CB!vars)

(***************************************************************************)
(* The pipeline keeps the promise of the gateway: through all its stages,  *)
(* early returns and disconnections every request is turned away, or is    *)
(* decided, sent on only if it may pass, and on record once before its     *)
(* client is answered.                                                     *)
(***************************************************************************)
ImplementsGate == G!Spec

(***************************************************************************)
(* Nothing reaches the upstream unvetted: a request whose bytes left the   *)
(* proxy carried the token, passed the limiter and the breaker, was not    *)
(* denied and, if its parameters parse as a tool call, was evaluated.      *)
(***************************************************************************)
OnlyVetted ==
    \A r \in Requests : received[r] # "nothing" =>
        /\ input[r].authenticated /\ r \in Admitted
        /\ checked[r] # CB!None
        /\ verdict[r] # "deny"
        /\ IsToolCall(input[r]) => verdict[r] # "none"

(***************************************************************************)
(* The quarantine is honoured under concurrency: a request that arrived    *)
(* after its agent's circuit opened and was checked before the cooldown    *)
(* ran out never gets past the breaker, however requests interleave.       *)
(***************************************************************************)
QuarantineRejects ==
    \A r \in Requests : checked[r] # CB!None =>
        \A p \in trips[Agent(r)] :
            ~(p.at < now[r] /\ checked[r] < p.at + Cooldown)

(***************************************************************************)
(* Offenders are quarantined: when Threshold requests of an agent were     *)
(* answered 403 and every denial the breaker counted fell within one       *)
(* window, the breaker has opened, and it did so before the last of these  *)
(* answers was sent.                                                       *)
(***************************************************************************)
OffendersQuarantined ==
    \A a \in Agents :
        LET denied == {r \in Requests : Agent(r) = a /\ reply[r] = "guardrail_violation"}
        IN  /\ Cardinality(denied) >= Threshold
            /\ \A r, q \in counted[a] : at[r] - at[q] <= Window
            => trips[a] # {}

(***************************************************************************)
(* The quarantine works from the first denial to the last request: an      *)
(* agent that offends is quarantined, and while it is, what it sends is    *)
(* rejected.                                                               *)
(***************************************************************************)
QuarantineHolds == QuarantineRejects /\ OffendersQuarantined

(***************************************************************************)
(* The audit trail of answered requests is exact: nothing is audited       *)
(* twice; a 403 and only a 403 leaves a deny entry; an answered request    *)
(* that reached the upstream left exactly one entry that is no denial.     *)
(***************************************************************************)
AuditExact ==
    \A r \in Requests :
        /\ Len(audited[r]) <= 1
        /\ reply[r] = "guardrail_violation" <=> audited[r] = <<"deny">>
        /\ reply[r] # "none" /\ received[r] # "nothing" =>
              audited[r] \in {<<"allow">>, <<"redact">>}

(***************************************************************************)
(* The ledgers tell one story at every scrape, although each handler       *)
(* writes them one after the other: the HTTP counter counts each request   *)
(* on the trail once, up to the handlers between two writes; its 403s are  *)
(* the denials and the upstream's own 403s, and the deny decisions lead    *)
(* the denials by the handlers between the two counters.                   *)
(***************************************************************************)
LedgersAgree ==
    /\ Total = Cardinality(Tallied)
    /\ http_requests_total["403"] =
          Cardinality({r \in Tallied : verdict[r] = "deny" \/ upstream_result[r] = "403"})
    /\ policy_decisions_total["deny"] =
          Cardinality({r \in Tallied : verdict[r] = "deny"}
                        \cup {r \in Requests : pc[r] = "tallied"})

(***************************************************************************)
(* Redaction survives the rest of the pipeline: of a tool call that is     *)
(* written as objects, values the redactor found never reach the upstream, *)
(* and a usable RedactArgs verdict is what the upstream sees.  (Of one     *)
(* written as an array the rebuild finds no params, and of an odd one it   *)
(* fails: these go on as they came.)                                       *)
(***************************************************************************)
RedactionSticks ==
    \A r \in Requests : received[r] # "nothing" /\ input[r].layout = "object" =>
        /\ PiiRedacted(input[r]) => received[r] # "original"
        /\ verdict[r] = "redact" => received[r] = "rewritten"

(***************************************************************************)
(* A handler never stops by itself: a request that arrives is answered or  *)
(* dropped, provided its awaits end (its client sends, its policy returns, *)
(* its upstream answers).  No stage, however the shared components decide, *)
(* is left without a way on.                                               *)
(***************************************************************************)
Finishes ==
    \A r \in Requests :
        []<>(pc[r] \notin Awaits) =>
            (pc[r] # "new" ~> pc[r] \in {"done", "dropped"})

=============================================================================
