----------------------------- MODULE ProxyProofs -----------------------------
(***************************************************************************)
(* Proofs about the request pipeline, for every set of agents, requests    *)
(* and messages, every quota and every setting of the breaker: what one    *)
(* request may go through, however the requests interleave and wherever    *)
(* their clients disconnect.                                               *)
(***************************************************************************)
EXTENDS Proxy, FiniteSetTheorems, TLAPS

-----------------------------------------------------------------------------
(* The inductive invariant, per request. *)

Early  == {"new", "stamped", "admitted", "reading", "evaluating"}
Refusals == {"management", "unauthorized", "rate_limit_exceeded",
             "circuit_open", "bad_request"}

\* A request is answered when its handler returns, and only then.
ReplyInv(r) == reply[r] # "none" <=> pc[r] = "done"

\* Before its evaluation, or turned away before it, a request has no effect.
QuietInv(r) ==
    pc[r] \in Early \/ reply[r] \in Refusals =>
        verdict[r] = "none" /\ received[r] = "nothing" /\ audited[r] = <<>>

\* The stages of the Deny branch, and those behind the upstream's answer.
Denying   == {"denied", "recorded", "tallied", "refusing"}
Answering == {"auditing", "counting", "relaying"}

\* What a request has passed by the time it is where it is.
VettedInv(r) ==
    /\ pc[r] # "new" /\ reply[r] \notin {"management", "unauthorized"} =>
          input[r].route \in {"mcp", "pathless"} /\ input[r].authenticated
    /\ pc[r] \notin {"new", "stamped", "admitted"} /\ reply[r] \notin Refusals =>
          checked[r] # CB!None
    /\ pc[r] \in {"new", "stamped", "admitted"} => checked[r] = CB!None
    /\ pc[r] = "evaluating" => IsToolCall(input[r])

\* A denied request is held back and leaves one entry, when it is answered.
DeniedInv(r) ==
    /\ verdict[r] = "deny" <=> pc[r] \in Denying \/ reply[r] = "guardrail_violation"
    /\ verdict[r] = "deny" => received[r] = "nothing" /\ upstream_result[r] = "none"
    /\ pc[r] \in Denying => audited[r] = <<>>
    /\ reply[r] = "guardrail_violation" => audited[r] # <<>>

\* The request is past its evaluation, if it needs one.
Forwarded(r) ==
    pc[r] \in {"awaiting"} \cup Answering \/ audited[r] # <<>> \/ received[r] # "nothing"

\* What the upstream got, and what the log holds, is what was decided.
ForwardInv(r) ==
    /\ Forwarded(r) /\ IsToolCall(input[r]) => verdict[r] # "none"
    /\ received[r] \in {"nothing", BodyToForward(input[r], verdict[r])}
    /\ audited[r] \in {<<>>, <<AuditDecision(input[r], verdict[r])>>}
    /\ pc[r] \in {"awaiting", "auditing"} => audited[r] = <<>>
    /\ pc[r] \in {"counting", "relaying"} => audited[r] # <<>>
    /\ pc[r] \in Answering <=> upstream_result[r] # "none"
                               /\ pc[r] \notin {"done", "dropped"}
    /\ pc[r] \in Answering /\ upstream_result[r] # "error" => received[r] # "nothing"
    /\ pc[r] = "relaying" => upstream_result[r] # "error"
    /\ reply[r] # "none" /\ received[r] # "nothing" => audited[r] # <<>>

RequestInv(r) ==
    ReplyInv(r) /\ QuietInv(r) /\ VettedInv(r) /\ DeniedInv(r) /\ ForwardInv(r)

RequestsInv == \A r \in Requests : RequestInv(r)

\* The part of TypeOK that concerns the handlers' own state.
LocalType ==
    /\ input \in [Requests -> Inputs]
    /\ pc \in [Requests -> Stages]
    /\ verdict \in [Requests -> Verdicts \cup {"none"}]
    /\ upstream_result \in [Requests -> Statuses \cup {"none", "error"}]
    /\ reply \in [Requests -> Replies]
    /\ received \in [Requests -> Forms \cup {"nothing"}]
    /\ audited \in [Requests -> Seq({"allow", "deny", "redact"})]
    /\ http_requests_total \in [Statuses -> Nat]
    /\ policy_decisions_total \in [{"allow", "deny", "redact"} -> Nat]
    /\ checked \in [Requests -> CB!Time \cup {CB!None}]
    /\ clock \in CB!Time

-----------------------------------------------------------------------------
USE InputsAssumption, OutcomesAssumption, BreakerAssumption, LimiterAssumption,
    MaxTimeAssumption

\* The two conversions give a body that may be sent and a decision of the log.
LEMMA ConversionTypes ==
  ASSUME NEW in \in Inputs, NEW v \in Verdicts \cup {"none"}
  PROVE  /\ BodyToForward(in, v) \in Forms
         /\ AuditDecision(in, v) \in {"allow", "deny", "redact"}
         /\ AuditDecision(in, v) = "deny" <=> v = "deny"
  BY DEF BodyToForward, SanitisedBody, Rebuild, Forms, AuditDecision

\* The first entry of a request is its only one, and a log with it is not empty.
LEMMA AppendToEmpty ==
  ASSUME NEW d \in {"allow", "deny", "redact"}
  PROVE  Append(<<>>, d) = <<d>> /\ <<d>> # <<>> /\ Len(<<>>) = 0 /\ Len(<<d>>) = 1
  OBVIOUS

\* The initial state of the handlers.
LEMMA LocalInit == Init => LocalType /\ RequestsInv
<1>1. Init => LocalType
  BY DEF Init, LocalType, Stages, Awaits, Statuses, Replies, CB!Time, CB!None
<1>2. Init => RequestsInv
  BY DEF Init, RequestsInv, RequestInv, ReplyInv, QuietInv, VettedInv,
         DeniedInv, ForwardInv, Forwarded, Denying, Answering
<1> QED
  BY <1>1, <1>2

\* A step that does not touch request q.
LEMMA RequestUntouched ==
  ASSUME NEW q \in Requests, RequestInv(q), input' = input,
         pc'[q] = pc[q], verdict'[q] = verdict[q], reply'[q] = reply[q],
         upstream_result'[q] = upstream_result[q],
         received'[q] = received[q], audited'[q] = audited[q],
         checked'[q] = checked[q]
  PROVE  RequestInv(q)'
  BY DEF RequestInv, ReplyInv, QuietInv, VettedInv, DeniedInv, ForwardInv, Forwarded

\* A step of request r need be looked at for r alone.
LEMMA OneRequest ==
  ASSUME RequestsInv, NEW r \in Requests, input' = input,
         \A q \in Requests \ {r} :
            /\ pc'[q] = pc[q] /\ verdict'[q] = verdict[q] /\ reply'[q] = reply[q]
            /\ upstream_result'[q] = upstream_result[q]
            /\ received'[q] = received[q] /\ audited'[q] = audited[q]
            /\ checked'[q] = checked[q],
         RequestInv(r)'
  PROVE  RequestsInv'
<1>1. \A q \in Requests \ {r} : RequestInv(q)'
  BY RequestUntouched DEF RequestsInv
<1> QED
  BY <1>1 DEF RequestsInv

(***************************************************************************)
(* Every step of the pipeline keeps the handlers' state well formed.       *)
(***************************************************************************)
LEMMA LocalTypeStep == LocalType /\ RequestsInv /\ [Next]_vars => LocalType'
<1> SUFFICES ASSUME LocalType, RequestsInv, [Next]_vars PROVE LocalType'
  OBVIOUS
<1>t. pc \in [Requests -> Stages] /\ reply \in [Requests -> Replies]
  BY DEF LocalType
<1>m. ASSUME NEW r \in Requests, NEW s \in Stages, Goto(r, s)
      PROVE  pc' \in [Requests -> Stages]
  BY <1>m, <1>t DEF Goto
<1>n. ASSUME NEW r \in Requests, NEW c \in Replies, Answer(r, c)
      PROVE  pc' \in [Requests -> Stages] /\ reply' \in [Requests -> Replies]
  <2>1. "done" \in Stages
    BY DEF Stages
  <2>2. pc' \in [Requests -> Stages]
    BY <1>n, <2>1, <1>m DEF Answer
  <2>3. reply' \in [Requests -> Replies]
    BY <1>n, <1>t DEF Answer
  <2> QED
    BY <2>2, <2>3
<1>d. ASSUME NEW r \in Requests, Forward(r)
      PROVE  pc' \in [Requests -> Stages] /\ reply' \in [Requests -> Replies]
  <2>1. "awaiting" \in Stages /\ "bad_gateway" \in Replies
    BY DEF Stages, Awaits, Replies
  <2>2. CASE UpstreamUri(input[r])
    BY <1>d, <2>1, <2>2, <1>m, <1>t DEF Forward
  <2>3. CASE ~UpstreamUri(input[r])
    BY <1>d, <2>1, <2>3, <1>n DEF Forward
  <2> QED
    BY <2>2, <2>3
<1>o. ASSUME NEW r \in Requests, CircuitCheck(r)
      PROVE  /\ pc' \in [Requests -> Stages] /\ reply' \in [Requests -> Replies]
             /\ checked' \in [Requests -> CB!Time \cup {CB!None}]
  <2>1. "reading" \in Stages /\ "circuit_open" \in Replies
    BY DEF Stages, Awaits, Replies
  <2>2. checked \in [Requests -> CB!Time \cup {CB!None}] /\ clock \in CB!Time
    BY DEF LocalType
  <2>3. CASE CB!IsOpen(states[Agent(r)], clock)
    <3>1. Answer(r, "circuit_open") /\ checked' = checked
      BY <1>o, <2>3 DEF CircuitCheck
    <3> QED
      BY <3>1, <2>1, <2>2, <1>n
  <2>4. CASE ~CB!IsOpen(states[Agent(r)], clock)
    <3>1. /\ Goto(r, "reading") /\ reply' = reply
          /\ checked' = [checked EXCEPT ![r] = clock]
      BY <1>o, <2>4 DEF CircuitCheck
    <3>2. checked' \in [Requests -> CB!Time \cup {CB!None}]
      BY <3>1, <2>2
    <3> QED
      BY <3>1, <3>2, <2>1, <1>t, <1>m
  <2> QED
    BY <2>3, <2>4
<1>p. ASSUME NEW r \in Requests, CountOutcome(r), upstream_result[r] # "none"
      PROVE  /\ pc' \in [Requests -> Stages] /\ reply' \in [Requests -> Replies]
             /\ \E h \in Statuses : CountHttp(h)
  <2>1. /\ "relaying" \in Stages /\ "bad_gateway" \in Replies /\ "502" \in Statuses
    BY DEF Stages, Awaits, Replies, Statuses
  <2>2. CASE upstream_result[r] = "error"
    <3>1. CountHttp("502") /\ Answer(r, "bad_gateway")
      BY <1>p, <2>2 DEF CountOutcome
    <3> QED
      BY <3>1, <2>1, <1>n
  <2>3. CASE upstream_result[r] # "error"
    <3>1. CountHttp(upstream_result[r]) /\ Goto(r, "relaying") /\ reply' = reply
      BY <1>p, <2>3 DEF CountOutcome
    <3>2. upstream_result[r] \in Statuses
      BY <1>p, <2>3 DEF LocalType
    <3> QED
      BY <3>1, <3>2, <2>1, <1>t, <1>m
  <2> QED
    BY <2>2, <2>3
<1> USE DEF LocalType, Stages, Awaits, Statuses, Replies, Goto, Answer, ledgers, limiter,
    breaker, local
<1>a. ASSUME NEW d \in {"allow", "deny", "redact"}, CountDecision(d)
      PROVE  policy_decisions_total' \in [{"allow", "deny", "redact"} -> Nat]
  BY <1>a DEF CountDecision
<1>b. ASSUME NEW h \in Statuses, CountHttp(h)
      PROVE  http_requests_total' \in [Statuses -> Nat]
  BY <1>b DEF CountHttp
<1>c. ASSUME NEW r \in Requests, EmitAudit(r)
      PROVE  audited' \in [Requests -> Seq({"allow", "deny", "redact"})]
  BY <1>c, ConversionTypes DEF EmitAudit
<1>1. CASE Tick
  BY <1>1 DEF Tick, CB!Time
<1>2. ASSUME NEW r \in Requests, Manage(r) PROVE LocalType'
  BY <1>2 DEF Manage
<1>3. ASSUME NEW r \in Requests, Unauthorized(r) PROVE LocalType'
  BY <1>3 DEF Unauthorized
<1>4. ASSUME NEW r \in Requests, Arrive(r) PROVE LocalType'
  BY <1>4 DEF Arrive, RL!Begin
<1>5. ASSUME NEW r \in Requests, RateLimit(r) PROVE LocalType'
  BY <1>5 DEF RateLimit, RL!Admit, RL!Reject
<1>6. ASSUME NEW r \in Requests, CircuitCheck(r) PROVE LocalType'
  <2>1. /\ clock' = clock /\ input' = input /\ verdict' = verdict /\ received' = received
        /\ audited' = audited /\ http_requests_total' = http_requests_total
        /\ policy_decisions_total' = policy_decisions_total
        /\ upstream_result' = upstream_result
    BY <1>6 DEF CircuitCheck, CB!Check
  <2> QED
    BY <2>1, <1>o, <1>6
<1>7. ASSUME NEW r \in Requests, ReadBody(r) PROVE LocalType'
  BY <1>7, <1>a, <1>d DEF ReadBody, Panic
<1>8. ASSUME NEW r \in Requests, NEW v \in Outcomes, Evaluate(r, v) PROVE LocalType'
  BY <1>8, <1>a, <1>d DEF Evaluate, Panic
<1>9. ASSUME NEW r \in Requests, RecordDenial(r) PROVE LocalType'
  BY <1>9 DEF RecordDenial, CB!RecordFailure, CB!IgnoreFailure
<1>10. ASSUME NEW r \in Requests, Refuse(r) PROVE LocalType'
  BY <1>c, <1>10 DEF Refuse
<1>11. ASSUME NEW r \in Requests, Transmit(r) PROVE LocalType'
  BY <1>11, ConversionTypes DEF Transmit
<1>12. ASSUME NEW r \in Requests, Respond(r) PROVE LocalType'
  BY <1>12 DEF Respond
<1>16. ASSUME NEW r \in Requests, CountDenial(r) PROVE LocalType'
  BY <1>16, <1>a DEF CountDenial
<1>17. ASSUME NEW r \in Requests, CountRefusal(r) PROVE LocalType'
  BY <1>17, <1>b DEF CountRefusal
<1>18. ASSUME NEW r \in Requests, AuditOutcome(r) PROVE LocalType'
  BY <1>18, <1>c DEF AuditOutcome
<1>19. ASSUME NEW r \in Requests, CountOutcome(r), upstream_result[r] # "none" PROVE LocalType'
  <2>1. /\ clock' = clock /\ input' = input /\ verdict' = verdict /\ received' = received
        /\ audited' = audited /\ policy_decisions_total' = policy_decisions_total
        /\ upstream_result' = upstream_result /\ checked' = checked
    BY <1>19 DEF CountOutcome
  <2>2. http_requests_total' \in [Statuses -> Nat]
    BY <1>19, <1>p, <1>b
  <2> QED
    BY <2>1, <2>2, <1>p, <1>19
<1>13. ASSUME NEW r \in Requests, Relay(r) PROVE LocalType'
  BY <1>13 DEF Relay
<1>14. ASSUME NEW r \in Requests, Cancel(r) PROVE LocalType'
  BY <1>14 DEF Cancel
<1>15. CASE UNCHANGED vars
  BY <1>15 DEF vars
<1>20. ASSUME NEW r \in Requests, CountOutcome(r) PROVE upstream_result[r] # "none"
  BY <1>20 DEF CountOutcome, RequestsInv, RequestInv, ForwardInv, Answering
<1> QED
  BY <1>1, <1>2, <1>3, <1>4, <1>5, <1>6, <1>7, <1>8, <1>9, <1>10, <1>11, <1>12,
     <1>13, <1>14, <1>15, <1>16, <1>17, <1>18, <1>19, <1>20 DEF Next, Step, Resume

\* What a handler's step may change of request r, and the others keep.
LEMMA RequestsStep == LocalType /\ RequestsInv /\ [Next]_vars => RequestsInv'
<1> SUFFICES ASSUME LocalType, RequestsInv, [Next]_vars PROVE RequestsInv'
  OBVIOUS
<1>t. /\ pc \in [Requests -> Stages] /\ verdict \in [Requests -> Verdicts \cup {"none"}]
      /\ reply \in [Requests -> Replies] /\ received \in [Requests -> Forms \cup {"nothing"}]
      /\ upstream_result \in [Requests -> Statuses \cup {"none", "error"}]
      /\ DOMAIN audited = Requests /\ checked \in [Requests -> CB!Time \cup {CB!None}]
      /\ clock \in CB!Time /\ input \in [Requests -> Inputs]
  BY DEF LocalType
<1>i. \A r \in Requests : RequestInv(r)
  BY DEF RequestsInv
<1> USE DEF Goto, Answer, ledgers, limiter, breaker, local, Early, Refusals,
    Denying, Answering
<1>1. CASE Tick
  BY <1>1, <1>i, RequestUntouched DEF Tick, RequestsInv
<1>2. ASSUME NEW r \in Requests, Manage(r) PROVE RequestsInv'
  <2>1. RequestInv(r)'
    BY <1>2, <1>t, <1>i DEF Manage, RequestInv, ReplyInv, QuietInv, VettedInv,
       DeniedInv, ForwardInv, Forwarded
  <2> QED
    BY <1>2, <1>t, <2>1, OneRequest DEF Manage
<1>3. ASSUME NEW r \in Requests, Unauthorized(r) PROVE RequestsInv'
  <2>1. RequestInv(r)'
    BY <1>3, <1>t, <1>i DEF Unauthorized, RequestInv, ReplyInv, QuietInv, VettedInv,
       DeniedInv, ForwardInv, Forwarded
  <2> QED
    BY <1>3, <1>t, <2>1, OneRequest DEF Unauthorized
<1>4. ASSUME NEW r \in Requests, Arrive(r) PROVE RequestsInv'
  <2>1. RequestInv(r)'
    BY <1>4, <1>t, <1>i DEF Arrive, RequestInv, ReplyInv, QuietInv, VettedInv,
       DeniedInv, ForwardInv, Forwarded
  <2> QED
    BY <1>4, <1>t, <2>1, OneRequest DEF Arrive
<1>5. ASSUME NEW r \in Requests, RateLimit(r) PROVE RequestsInv'
  <2>1. RequestInv(r)'
    BY <1>5, <1>t, <1>i DEF RateLimit, RequestInv, ReplyInv, QuietInv, VettedInv,
       DeniedInv, ForwardInv, Forwarded
  <2> QED
    BY <1>5, <1>t, <2>1, OneRequest DEF RateLimit
<1>6. ASSUME NEW r \in Requests, CircuitCheck(r) PROVE RequestsInv'
  <2>1. RequestInv(r)'
    BY <1>6, <1>t, <1>i DEF CircuitCheck, CB!Time, CB!None, RequestInv, ReplyInv, QuietInv,
       VettedInv, DeniedInv, ForwardInv, Forwarded
  <2> QED
    BY <1>6, <1>t, <2>1, OneRequest DEF CircuitCheck
<1>7. ASSUME NEW r \in Requests, ReadBody(r) PROVE RequestsInv'
  <2>1. RequestInv(r)'
    BY <1>7, <1>t, <1>i DEF ReadBody, Forward, Panic, IsToolCall, RequestInv, ReplyInv, QuietInv,
       VettedInv, DeniedInv, ForwardInv, Forwarded
  <2> QED
    BY <1>7, <1>t, <2>1, OneRequest DEF ReadBody, Forward, Panic
<1>8. ASSUME NEW r \in Requests, NEW v \in Outcomes, Evaluate(r, v) PROVE RequestsInv'
  <2>1. RequestInv(r)'
    BY <1>8, <1>t, <1>i DEF Evaluate, Forward, Panic, IsToolCall, Verdicts, RequestInv,
       ReplyInv, QuietInv, VettedInv, DeniedInv, ForwardInv, Forwarded
  <2> QED
    BY <1>8, <1>t, <2>1, OneRequest DEF Evaluate, Forward, Panic
<1>9. ASSUME NEW r \in Requests, RecordDenial(r) PROVE RequestsInv'
  <2>1. RequestInv(r)'
    BY <1>9, <1>t, <1>i DEF RecordDenial, RequestInv, ReplyInv, QuietInv, VettedInv,
       DeniedInv, ForwardInv, Forwarded
  <2> QED
    BY <1>9, <1>t, <2>1, OneRequest DEF RecordDenial
<1>10. ASSUME NEW r \in Requests, Refuse(r) PROVE RequestsInv'
  <2>0. audited[r] = <<>> /\ verdict[r] = "deny"
    BY <1>10, <1>i DEF Refuse, RequestInv, DeniedInv
  <2>a. audited'[r] = <<AuditDecision(input[r], verdict[r])>>
    BY <1>10, <1>t, <2>0, AppendToEmpty DEF Refuse, EmitAudit
  <2>1. RequestInv(r)'
    BY <1>10, <1>t, <1>i, <2>0, <2>a DEF Refuse, RequestInv, ReplyInv, QuietInv, VettedInv,
       DeniedInv, ForwardInv, Forwarded
  <2> QED
    BY <1>10, <1>t, <2>1, OneRequest DEF Refuse, EmitAudit
<1>11. ASSUME NEW r \in Requests, Transmit(r) PROVE RequestsInv'
  <2>1. RequestInv(r)'
    BY <1>11, <1>t, <1>i DEF Transmit, RequestInv, ReplyInv, QuietInv, VettedInv,
       DeniedInv, ForwardInv, Forwarded
  <2> QED
    BY <1>11, <1>t, <2>1, OneRequest DEF Transmit
<1>12. ASSUME NEW r \in Requests, Respond(r) PROVE RequestsInv'
  <2>1. RequestInv(r)'
    BY <1>12, <1>t, <1>i DEF Respond, RequestInv, ReplyInv, QuietInv, VettedInv,
       DeniedInv, ForwardInv, Forwarded, Statuses
  <2> QED
    BY <1>12, <1>t, <2>1, OneRequest DEF Respond
<1>16. ASSUME NEW r \in Requests, CountDenial(r) PROVE RequestsInv'
  <2>1. RequestInv(r)'
    BY <1>16, <1>t, <1>i DEF CountDenial, RequestInv, ReplyInv, QuietInv, VettedInv,
       DeniedInv, ForwardInv, Forwarded, Statuses
  <2> QED
    BY <1>16, <1>t, <2>1, OneRequest DEF CountDenial
<1>17. ASSUME NEW r \in Requests, CountRefusal(r) PROVE RequestsInv'
  <2>1. RequestInv(r)'
    BY <1>17, <1>t, <1>i DEF CountRefusal, RequestInv, ReplyInv, QuietInv, VettedInv,
       DeniedInv, ForwardInv, Forwarded, Statuses
  <2> QED
    BY <1>17, <1>t, <2>1, OneRequest DEF CountRefusal
<1>18. ASSUME NEW r \in Requests, AuditOutcome(r) PROVE RequestsInv'
  <2>0. audited[r] = <<>>
    BY <1>18, <1>i DEF AuditOutcome, RequestInv, ForwardInv
  <2>a. audited'[r] = <<AuditDecision(input[r], verdict[r])>>
    BY <1>18, <1>t, <2>0, AppendToEmpty DEF AuditOutcome, EmitAudit
  <2>1. RequestInv(r)'
    BY <1>18, <1>t, <1>i, <2>0, <2>a DEF AuditOutcome, RequestInv, ReplyInv, QuietInv,
       VettedInv, DeniedInv, ForwardInv, Forwarded
  <2> QED
    BY <1>18, <1>t, <2>1, OneRequest DEF AuditOutcome, EmitAudit
<1>19. ASSUME NEW r \in Requests, CountOutcome(r) PROVE RequestsInv'
  <2>1. RequestInv(r)'
    BY <1>19, <1>t, <1>i DEF CountOutcome, RequestInv, ReplyInv, QuietInv, VettedInv,
       DeniedInv, ForwardInv, Forwarded, Statuses
  <2> QED
    BY <1>19, <1>t, <2>1, OneRequest DEF CountOutcome
<1>13. ASSUME NEW r \in Requests, Relay(r) PROVE RequestsInv'
  <2>1. RequestInv(r)'
    BY <1>13, <1>t, <1>i DEF Relay, RequestInv, ReplyInv, QuietInv, VettedInv,
       DeniedInv, ForwardInv, Forwarded
  <2> QED
    BY <1>13, <1>t, <2>1, OneRequest DEF Relay
<1>14. ASSUME NEW r \in Requests, Cancel(r) PROVE RequestsInv'
  <2>1. RequestInv(r)'
    BY <1>14, <1>t, <1>i DEF Cancel, Awaits, RequestInv, ReplyInv, QuietInv, VettedInv,
       DeniedInv, ForwardInv, Forwarded
  <2> QED
    BY <1>14, <1>t, <2>1, OneRequest DEF Cancel
<1>15. CASE UNCHANGED vars
  BY <1>15, <1>i, RequestUntouched DEF vars, RequestsInv
<1> QED
  BY <1>1, <1>2, <1>3, <1>4, <1>5, <1>6, <1>7, <1>8, <1>9, <1>10, <1>11, <1>12,
     <1>13, <1>14, <1>15, <1>16, <1>17, <1>18, <1>19 DEF Next, Step, Resume

-----------------------------------------------------------------------------
(* The pipeline uses the limiter and the breaker as their modules say. *)

\* Where request q is for the limiter, and for the breaker.
LimiterKept(q) ==
    /\ q \in Unstamped' <=> q \in Unstamped
    /\ q \in Stamped' <=> q \in Stamped
    /\ q \in Limited' <=> q \in Limited

\* A step that moves no request in the limiter's terms is none of its steps.
LEMMA LimiterView ==
  ASSUME input' = input, UNCHANGED limiter, \A q \in Requests : LimiterKept(q)
  PROVE  /\ Unstamped' = Unstamped
         /\ ByAgent(Stamped)' = ByAgent(Stamped) /\ ByAgent(Limited)' = ByAgent(Limited)
         /\ ByAgent(Admitted)' = ByAgent(Admitted)
         /\ requests' = requests /\ now' = now
<1>1. Unstamped' = Unstamped
  BY DEF LimiterKept, Unstamped
<1>2. Stamped' = Stamped
  BY DEF LimiterKept, Stamped
<1>3. Limited' = Limited
  BY DEF LimiterKept, Limited
<1>4. Admitted' = Admitted
  BY <1>1, <1>2, <1>3 DEF Admitted
<1> QED
  BY <1>1, <1>2, <1>3, <1>4 DEF limiter, ByAgent, Agent

(***************************************************************************)
(* Every step of the pipeline is, for the limiter, one of its own steps or *)
(* none.                                                                   *)
(***************************************************************************)
LEMMA LimiterStep == LocalType /\ RequestsInv /\ [Next]_vars => [RL!Next]_(RL!vars)
<1> SUFFICES ASSUME LocalType, RequestsInv, [Next]_vars PROVE [RL!Next]_(RL!vars)
  OBVIOUS
<1>t. /\ pc \in [Requests -> Stages] /\ reply \in [Requests -> Replies]
      /\ \A r \in Requests : Agent(r) \in Agents
  BY DEF LocalType, Agent, Message
<1>i. \A r \in Requests : reply[r] # "none" <=> pc[r] = "done"
  BY DEF RequestsInv, RequestInv, ReplyInv
<1>v. ASSUME input' = input, UNCHANGED <<clock, limiter>>, \A q \in Requests : LimiterKept(q)
      PROVE  UNCHANGED RL!vars
  BY <1>v, LimiterView DEF RL!vars
<1> USE DEF Goto, Answer, local, ledgers
<1>1. CASE Tick
  <2>1. \A q \in Requests : LimiterKept(q)
    BY <1>1 DEF Tick, LimiterKept, Unstamped, Stamped, Limited
  <2>2. RL!Tick
    BY <1>1, <2>1, LimiterView DEF Tick, RL!Tick
  <2> QED
    BY <2>2 DEF RL!Next
<1>2. ASSUME NEW r \in Requests, Arrive(r) PROVE RL!Next
  BY <1>2, <1>t DEF Arrive, RL!Next
<1>3. ASSUME NEW r \in Requests, RateLimit(r) PROVE RL!Next
  BY <1>3, <1>t DEF RateLimit, RL!Next
<1> USE DEF LimiterKept, Unstamped, Stamped, Limited, limiter
<1>4. ASSUME NEW r \in Requests, Manage(r) \/ Unauthorized(r) PROVE UNCHANGED RL!vars
  BY <1>4, <1>t, <1>i, <1>v DEF Manage, Unauthorized
<1>5. ASSUME NEW r \in Requests, CircuitCheck(r) PROVE UNCHANGED RL!vars
  BY <1>5, <1>t, <1>i, <1>v DEF CircuitCheck, CB!Check
<1>6. ASSUME NEW r \in Requests, ReadBody(r) PROVE UNCHANGED RL!vars
  BY <1>6, <1>t, <1>i, <1>v DEF ReadBody, Forward, Panic
<1>7. ASSUME NEW r \in Requests, NEW v \in Outcomes, Evaluate(r, v) PROVE UNCHANGED RL!vars
  BY <1>7, <1>t, <1>i, <1>v DEF Evaluate, Forward, Panic
<1>8. ASSUME NEW r \in Requests, RecordDenial(r) PROVE UNCHANGED RL!vars
  BY <1>8, <1>t, <1>i, <1>v DEF RecordDenial, CB!RecordFailure, CB!IgnoreFailure
<1>9. ASSUME NEW r \in Requests, Refuse(r) PROVE UNCHANGED RL!vars
  BY <1>9, <1>t, <1>i, <1>v DEF Refuse
<1>10. ASSUME NEW r \in Requests, Transmit(r) PROVE UNCHANGED RL!vars
  BY <1>10, <1>t, <1>i, <1>v DEF Transmit
<1>11. ASSUME NEW r \in Requests, Respond(r) PROVE UNCHANGED RL!vars
  BY <1>11, <1>t, <1>i, <1>v DEF Respond
<1>15. ASSUME NEW r \in Requests, CountDenial(r) PROVE UNCHANGED RL!vars
  BY <1>15, <1>t, <1>i, <1>v DEF CountDenial
<1>16. ASSUME NEW r \in Requests, CountRefusal(r) PROVE UNCHANGED RL!vars
  BY <1>16, <1>t, <1>i, <1>v DEF CountRefusal
<1>17. ASSUME NEW r \in Requests, AuditOutcome(r) PROVE UNCHANGED RL!vars
  BY <1>17, <1>t, <1>i, <1>v DEF AuditOutcome
<1>18. ASSUME NEW r \in Requests, CountOutcome(r) PROVE UNCHANGED RL!vars
  BY <1>18, <1>t, <1>i, <1>v DEF CountOutcome
<1>12. ASSUME NEW r \in Requests, Relay(r) PROVE UNCHANGED RL!vars
  BY <1>12, <1>t, <1>i, <1>v DEF Relay
<1>13. ASSUME NEW r \in Requests, Cancel(r) PROVE UNCHANGED RL!vars
  BY <1>13, <1>t, <1>i, <1>v DEF Cancel, Awaits
<1>14. CASE UNCHANGED vars
  BY <1>14, <1>v DEF vars
<1> QED
  BY <1>1, <1>2, <1>3, <1>4, <1>5, <1>6, <1>7, <1>8, <1>9, <1>10, <1>11, <1>12,
     <1>13, <1>14, <1>15, <1>16, <1>17, <1>18 DEF Next, Step, Resume

(***************************************************************************)
(* Every step of the pipeline is, for the breaker, one of its own steps or *)
(* none: a denied request calls record_failure once, no other calls it.    *)
(***************************************************************************)
LEMMA BreakerStep == LocalType /\ RequestsInv /\ [Next]_vars => [CB!Next]_(CB!vars)
<1> SUFFICES ASSUME LocalType, RequestsInv, [Next]_vars PROVE [CB!Next]_(CB!vars)
  OBVIOUS
<1>t. /\ pc \in [Requests -> Stages] /\ verdict \in [Requests -> Verdicts \cup {"none"}]
      /\ \A r \in Requests : Agent(r) \in Agents
  BY DEF LocalType, Agent, Message
<1>i. \A r \in Requests : /\ pc[r] = "denied" => verdict[r] = "deny"
                          /\ pc[r] \in Early => verdict[r] = "none"
                          /\ verdict[r] = "deny" => pc[r] \in Denying
                                                    \/ reply[r] = "guardrail_violation"
                          /\ reply[r] # "none" <=> pc[r] = "done"
  BY DEF RequestsInv, RequestInv, ReplyInv, DeniedInv, QuietInv, Denying
<1>v. ASSUME UNCHANGED <<clock, breaker>>,
             \A q \in Requests : q \in Unrecorded' <=> q \in Unrecorded
      PROVE  UNCHANGED CB!vars
  <2>1. Unrecorded' = Unrecorded
    BY <1>v DEF Unrecorded
  <2> QED
    BY <1>v, <2>1 DEF CB!vars, breaker
<1> USE DEF Goto, Answer, local, ledgers, limiter
<1>1. CASE Tick
  BY <1>1 DEF Tick, CB!Tick, CB!Next, breaker, Unrecorded
<1>2. ASSUME NEW r \in Requests, CircuitCheck(r) PROVE CB!Next
  BY <1>2, <1>t DEF CircuitCheck, CB!Next
<1>3. ASSUME NEW r \in Requests, RecordDenial(r) PROVE CB!Next
  BY <1>3, <1>t DEF RecordDenial, CB!Next
<1> USE DEF Unrecorded, breaker, Early, Denying
<1>4. ASSUME NEW r \in Requests, Manage(r) \/ Unauthorized(r) PROVE UNCHANGED CB!vars
  BY <1>4, <1>t, <1>i, <1>v DEF Manage, Unauthorized
<1>5. ASSUME NEW r \in Requests, Arrive(r) PROVE UNCHANGED CB!vars
  BY <1>5, <1>t, <1>i, <1>v DEF Arrive, RL!Begin
<1>6. ASSUME NEW r \in Requests, RateLimit(r) PROVE UNCHANGED CB!vars
  BY <1>6, <1>t, <1>i, <1>v DEF RateLimit, RL!Admit, RL!Reject
<1>7. ASSUME NEW r \in Requests, ReadBody(r) PROVE UNCHANGED CB!vars
  BY <1>7, <1>t, <1>i, <1>v DEF ReadBody, Forward, Panic
<1>8. ASSUME NEW r \in Requests, NEW v \in Outcomes, Evaluate(r, v) PROVE UNCHANGED CB!vars
  BY <1>8, <1>t, <1>i, <1>v DEF Evaluate, Forward, Panic
<1>9. ASSUME NEW r \in Requests, Refuse(r) PROVE UNCHANGED CB!vars
  BY <1>9, <1>t, <1>i, <1>v DEF Refuse
<1>10. ASSUME NEW r \in Requests, Transmit(r) PROVE UNCHANGED CB!vars
  BY <1>10, <1>t, <1>i, <1>v DEF Transmit
<1>11. ASSUME NEW r \in Requests, Respond(r) PROVE UNCHANGED CB!vars
  BY <1>11, <1>t, <1>i, <1>v DEF Respond
<1>15. ASSUME NEW r \in Requests, CountDenial(r) PROVE UNCHANGED CB!vars
  BY <1>15, <1>t, <1>i, <1>v DEF CountDenial
<1>16. ASSUME NEW r \in Requests, CountRefusal(r) PROVE UNCHANGED CB!vars
  BY <1>16, <1>t, <1>i, <1>v DEF CountRefusal
<1>17. ASSUME NEW r \in Requests, AuditOutcome(r) PROVE UNCHANGED CB!vars
  BY <1>17, <1>t, <1>i, <1>v DEF AuditOutcome
<1>18. ASSUME NEW r \in Requests, CountOutcome(r) PROVE UNCHANGED CB!vars
  BY <1>18, <1>t, <1>i, <1>v DEF CountOutcome
<1>12. ASSUME NEW r \in Requests, Relay(r) PROVE UNCHANGED CB!vars
  BY <1>12, <1>t, <1>i, <1>v DEF Relay
<1>13. ASSUME NEW r \in Requests, Cancel(r) PROVE UNCHANGED CB!vars
  BY <1>13, <1>t, <1>i, <1>v DEF Cancel, Awaits
<1>14. CASE UNCHANGED vars
  BY <1>14, <1>v DEF vars
<1> QED
  BY <1>1, <1>2, <1>3, <1>4, <1>5, <1>6, <1>7, <1>8, <1>9, <1>10, <1>11, <1>12,
     <1>13, <1>14, <1>15, <1>16, <1>17, <1>18 DEF Next, Step, Resume

-----------------------------------------------------------------------------
(* What is proved of the parts holds in the pipeline. *)

RLP == INSTANCE RateLimiterProofs WITH
         Keys <- Agents, Calls <- Requests, idle <- Unstamped,
         stamped <- ByAgent(Stamped), allowed <- ByAgent(Admitted),
         rejected <- ByAgent(Limited)

CBP == INSTANCE CircuitBreakerProofs WITH Calls <- Requests, pending <- Unrecorded

\* Cardinality is one operator, whichever instance it is reached through.
LEMMA SameCardinality ==
  ASSUME NEW S
  PROVE  /\ CB!Cardinality(S) = Cardinality(S) /\ CBP!Cardinality(S) = Cardinality(S)
         /\ RL!Cardinality(S) = Cardinality(S) /\ RLP!Cardinality(S) = Cardinality(S)
         /\ CBP!IsFiniteSet(S) <=> IsFiniteSet(S)
  BY DEF Cardinality, CB!Cardinality, CBP!Cardinality, RL!Cardinality, RLP!Cardinality,
     IsFiniteSet, CB!IsFiniteSet, CBP!IsFiniteSet, RL!IsFiniteSet, RLP!IsFiniteSet

\* The two instances of the breaker's module say the same.
LEMMA SameBreaker ==
    /\ CB!Init <=> CBP!Init
    /\ [CB!Next]_(CB!vars) <=> [CBP!Next]_(CBP!vars)
    /\ CB!TypeOK <=> CBP!TypeOK
<1>1. CB!Init <=> CBP!Init
  BY DEF CB!Init, CBP!Init, CB!Closed, CBP!Closed, CB!None, CBP!None
<1>2. CB!TypeOK <=> CBP!TypeOK
  BY DEF CB!TypeOK, CBP!TypeOK, CB!Time, CBP!Time, CB!None, CBP!None,
         CB!AgentCircuitState, CBP!AgentCircuitState, CB!Trip, CBP!Trip
<1> USE DEF CB!Closed, CBP!Closed, CB!None, CBP!None, CB!IsOpen, CBP!IsOpen,
    CB!Expire, CBP!Expire, CB!Retained, CBP!Retained,
    CB!CountFailure, CBP!CountFailure
<1>3. CB!Tick <=> CBP!Tick
  BY DEF CB!Tick, CBP!Tick
<1>4. \A a : CB!Check(a) <=> CBP!Check(a)
  BY DEF CB!Check, CBP!Check
<1>5. \A c, a : CB!IgnoreFailure(c, a) <=> CBP!IgnoreFailure(c, a)
  BY DEF CB!IgnoreFailure, CBP!IgnoreFailure
<1>6. \A c, a : CB!RecordFailure(c, a) <=> CBP!RecordFailure(c, a)
  BY SameCardinality DEF CB!RecordFailure, CBP!RecordFailure
<1>7. CB!Next <=> CBP!Next
  BY <1>3, <1>4, <1>5, <1>6 DEF CB!Next, CBP!Next
<1> QED
  BY <1>1, <1>2, <1>7 DEF CB!vars, CBP!vars

\* The two instances of the limiter's module say the same.
LEMMA SameLimiter ==
    /\ RL!Init <=> RLP!Init
    /\ [RL!Next]_(RL!vars) <=> [RLP!Next]_(RLP!vars)
    /\ RL!TypeOK <=> RLP!TypeOK
<1>1. RL!Init <=> RLP!Init
  BY DEF RL!Init, RLP!Init
<1>2. RL!TypeOK <=> RLP!TypeOK
  BY DEF RL!TypeOK, RLP!TypeOK, RL!Time, RLP!Time
<1> USE DEF RL!Retained, RLP!Retained, RL!DurationSince, RLP!DurationSince
<1>3. RL!Tick <=> RLP!Tick
  BY DEF RL!Tick, RLP!Tick
<1>4. \A c, k : RL!Begin(c, k) <=> RLP!Begin(c, k)
  BY DEF RL!Begin, RLP!Begin
<1>5. \A c, k : RL!Admit(c, k) <=> RLP!Admit(c, k)
  BY SameCardinality DEF RL!Admit, RLP!Admit
<1>6. \A c, k : RL!Reject(c, k) <=> RLP!Reject(c, k)
  BY SameCardinality DEF RL!Reject, RLP!Reject
<1>7. RL!Next <=> RLP!Next
  BY <1>3, <1>4, <1>5, <1>6 DEF RL!Next, RLP!Next
<1> QED
  BY <1>1, <1>2, <1>7 DEF RL!vars, RLP!vars

\* The invariants of the handlers and of the parts they share.
PipelineInv == LocalType /\ RequestsInv /\ RLP!IndInv /\ CBP!IndInv

\* The handlers, the limiter and the breaker start well formed.
LEMMA PipelineInit == Init => PipelineInv
<1>1. Init => RL!Init
  BY DEF Init, RL!Init, Unstamped, Stamped, Limited, Admitted, ByAgent
<1>2. Init => CB!Init
  BY DEF Init, CB!Init, Unrecorded
<1> QED
  BY <1>1, <1>2, LocalInit, SameBreaker, SameLimiter, RLP!LimiterInductiveInit,
     CBP!InductiveInit DEF PipelineInv

\* Every step of a handler keeps its invariant and those of the two parts.
LEMMA PipelineStep == PipelineInv /\ [Next]_vars => PipelineInv'
  BY LocalTypeStep, RequestsStep, LimiterStep, BreakerStep, SameBreaker, SameLimiter,
     RLP!LimiterInductiveStep, CBP!InductiveStep DEF PipelineInv

\* In every reachable state the handlers and the parts satisfy their invariants.
LEMMA PipelineInductive == Spec => []PipelineInv
  BY PipelineInit, PipelineStep, PTL DEF Spec

-----------------------------------------------------------------------------
(* The theorems. *)

(***************************************************************************)
(* Type correctness of the pipeline, with the limiter's and the breaker's. *)
(***************************************************************************)
THEOREM ProxyTypeCorrect == Spec => []TypeOK
<1>1. PipelineInv => TypeOK
  <2>1. PipelineInv => RL!TypeOK /\ CB!TypeOK
    BY SameLimiter, SameBreaker DEF PipelineInv, RLP!IndInv, CBP!IndInv
  <2> QED
    BY <2>1 DEF PipelineInv, LocalType, TypeOK
<1> QED
  BY <1>1, PipelineInductive, PTL

(***************************************************************************)
(* Nothing reaches the upstream that was not authenticated, admitted by    *)
(* the limiter and the breaker, and evaluated without a denial if it is a  *)
(* tool call, whatever the other requests do.                              *)
(***************************************************************************)
THEOREM UpstreamVetted == Spec => []OnlyVetted
<1>1. PipelineInv => OnlyVetted
  <2> SUFFICES ASSUME PipelineInv, NEW r \in Requests, received[r] # "nothing"
               PROVE  /\ input[r].authenticated /\ r \in Admitted
                      /\ checked[r] # CB!None
                      /\ verdict[r] # "deny"
                      /\ IsToolCall(input[r]) => verdict[r] # "none"
    BY DEF OnlyVetted
  <2>1. RequestInv(r)
    BY DEF PipelineInv, RequestsInv
  <2>2. pc[r] \notin Early /\ reply[r] \notin Refusals
    BY <2>1 DEF RequestInv, QuietInv
  <2>3. r \in Admitted
    BY <2>2 DEF Admitted, Unstamped, Stamped, Limited, Early, Refusals
  <2> QED
    BY <2>1, <2>2, <2>3 DEF RequestInv, VettedInv, DeniedInv, ForwardInv, Forwarded,
       Early, Refusals
<1> QED
  BY <1>1, PipelineInductive, PTL

(***************************************************************************)
(* The audit trail of answered requests is exact: one entry at most, a     *)
(* deny entry for a 403 and only for it, and one for all that was sent.    *)
(***************************************************************************)
THEOREM AuditTrailExact == Spec => []AuditExact
<1>1. PipelineInv => AuditExact
  <2> SUFFICES ASSUME PipelineInv, NEW r \in Requests
               PROVE  /\ Len(audited[r]) <= 1
                      /\ reply[r] = "guardrail_violation" <=> audited[r] = <<"deny">>
                      /\ reply[r] # "none" /\ received[r] # "nothing" =>
                            audited[r] \in {<<"allow">>, <<"redact">>}
    BY DEF AuditExact
  <2> DEFINE d == AuditDecision(input[r], verdict[r])
  <2>1. RequestInv(r) /\ d \in {"allow", "deny", "redact"} /\ (d = "deny" <=> verdict[r] = "deny")
    BY ConversionTypes DEF PipelineInv, RequestsInv, LocalType
  <2>2. audited[r] \in {<<>>, <<d>>}
    BY <2>1 DEF RequestInv, ForwardInv
  <2>3. Len(audited[r]) <= 1
    <3>1. Len(<<>>) = 0 /\ Len(<<d>>) = 1
      BY <2>1, AppendToEmpty
    <3>2. CASE audited[r] = <<>>
      BY <3>1, <3>2
    <3>3. CASE audited[r] = <<d>>
      BY <3>1, <3>3
    <3> QED
      BY <2>2, <3>2, <3>3
  <2>4. reply[r] = "guardrail_violation" => audited[r] = <<"deny">>
    BY <2>1, <2>2 DEF RequestInv, DeniedInv, ForwardInv
  <2>5. audited[r] = <<"deny">> => reply[r] = "guardrail_violation"
    BY <2>1, <2>2 DEF RequestInv, DeniedInv, QuietInv, ReplyInv
  <2>6. reply[r] # "none" /\ received[r] # "nothing" => audited[r] \in {<<"allow">>, <<"redact">>}
    BY <2>1, <2>2 DEF RequestInv, DeniedInv, ForwardInv
  <2> QED
    BY <2>3, <2>4, <2>5, <2>6
<1> QED
  BY <1>1, PipelineInductive, PTL

(***************************************************************************)
(* Redaction survives the rest of the pipeline: the bytes sent are the     *)
(* sanitised or the rewritten body of every tool call written as objects.  *)
(***************************************************************************)
THEOREM RedactionKept == Spec => []RedactionSticks
<1>1. PipelineInv => RedactionSticks
  BY DEF PipelineInv, RequestsInv, RequestInv, ForwardInv, RedactionSticks,
     BodyToForward, SanitisedBody, Rebuild
<1> QED
  BY <1>1, PipelineInductive, PTL

(***************************************************************************)
(* The pipeline uses the limiter and the breaker only as their own         *)
(* specifications allow, so what is proved of them holds in the pipeline.  *)
(***************************************************************************)
THEOREM PartsImplemented == Spec => ImplementsParts
<1>1. Init => RL!Init /\ CB!Init
  BY DEF Init, RL!Init, CB!Init, Unstamped, Stamped, Limited, Admitted, ByAgent, Unrecorded
<1>2. PipelineInv /\ [Next]_vars => [RL!Next]_(RL!vars) /\ [CB!Next]_(CB!vars)
  BY LimiterStep, BreakerStep DEF PipelineInv
<1> QED
  BY <1>1, <1>2, PipelineInductive, PTL DEF Spec, ImplementsParts, RL!Spec

-----------------------------------------------------------------------------
(* The pipeline implements the abstract gateway. *)

\* What was decided of a request, in each of the cases the mapping tells apart.
LEMMA DecidedCases ==
  ASSUME NEW r \in Requests
  PROVE  /\ pc[r] # "dropped" /\ verdict[r] = "deny" => Decided(r) = "deny"
         /\ pc[r] # "dropped" /\ verdict[r] # "deny" /\ Passed(r) => Decided(r) = "pass"
         /\ pc[r] = "dropped" => Decided(r) = "none"
         /\ verdict[r] # "deny" /\ ~Passed(r) => Decided(r) = "none"
  BY DEF Decided, Passed

\* What is on record of a request.
LEMMA RecordedCases ==
  ASSUME NEW r \in Requests
  PROVE  /\ audited[r] = <<>> => Recorded(r) = "none"
         /\ audited[r] = <<"deny">> => Recorded(r) = "deny"
         /\ audited[r] = <<"allow">> \/ audited[r] = <<"redact">> => Recorded(r) = "pass"
<1>1. /\ <<"deny">> # <<>> /\ <<"allow">> # <<>> /\ <<"redact">> # <<>>
      /\ <<"allow">> # <<"deny">> /\ <<"redact">> # <<"deny">>
  OBVIOUS
<1> QED
  BY <1>1 DEF Recorded

\* A step of request r moves the gateway's variables at r only.
LEMMA GateMove ==
  ASSUME NEW r \in Requests,
         \A q \in Requests \ {r} :
            /\ pc'[q] = pc[q] /\ verdict'[q] = verdict[q]
            /\ received'[q] = received[q] /\ audited'[q] = audited[q]
  PROVE  /\ Decision' = [Decision EXCEPT ![r] = Decided(r)']
         /\ Logged' = [Logged EXCEPT ![r] = Recorded(r)']
         /\ r \in Open' /\ r \in Open => Open' = Open
         /\ r \notin Open' => Open' = Open \ {r}
         /\ r \in Sent' => Sent' = Sent \cup {r}
         /\ received'[r] = received[r] => Sent' = Sent
<1>1. \A q \in Requests \ {r} : Decided(q)' = Decided(q) /\ Recorded(q)' = Recorded(q)
  BY DEF Decided, Passed, Recorded
<1>2. Decision' = [Decision EXCEPT ![r] = Decided(r)']
  BY <1>1 DEF Decision
<1>3. Logged' = [Logged EXCEPT ![r] = Recorded(r)']
  BY <1>1 DEF Logged
<1>4. (r \in Open' /\ r \in Open => Open' = Open) /\ (r \notin Open' => Open' = Open \ {r})
  BY DEF Open
<1>5. (r \in Sent' => Sent' = Sent \cup {r}) /\ (received'[r] = received[r] => Sent' = Sent)
  BY DEF Sent
<1> QED
  BY <1>2, <1>3, <1>4, <1>5

\* The stages of a request that was handed to the client of the upstream.
Handed == {"awaiting", "auditing", "counting", "relaying"}

(***************************************************************************)
(* Every step of the pipeline is a step of the gateway, or none: a stage   *)
(* passed is nothing, a denial and the hand-over decide, the bytes are     *)
(* sent, the audit records, an early return, a failure of the upstream or  *)
(* the relay answers, a disconnection or a panic abandons.                 *)
(***************************************************************************)
LEMMA GateStep == LocalType /\ RequestsInv /\ [Next]_vars => [G!Next]_(G!vars)
<1> SUFFICES ASSUME LocalType, RequestsInv, [Next]_vars PROVE [G!Next]_(G!vars)
  OBVIOUS
<1>t. /\ pc \in [Requests -> Stages] /\ verdict \in [Requests -> Verdicts \cup {"none"}]
      /\ received \in [Requests -> Forms \cup {"nothing"}] /\ DOMAIN audited = Requests
  BY DEF LocalType
<1>i. \A r \in Requests : RequestInv(r)
  BY DEF RequestsInv
<1>f. \A r \in Requests : Decision[r] = Decided(r) /\ Logged[r] = Recorded(r)
  BY DEF Decision, Logged
<1>e. \A r \in Requests : /\ [Decision EXCEPT ![r] = Decided(r)] = Decision
                          /\ [Logged EXCEPT ![r] = Recorded(r)] = Logged
  BY DEF Decision, Logged
\* A step that moves r to another stage, and nothing else of it.
<1>s. ASSUME NEW r \in Requests, NEW p, p \notin {"done", "dropped"},
             pc[r] \notin {"done", "dropped"}, p \in Handed <=> pc[r] \in Handed,
             pc' = [pc EXCEPT ![r] = p], UNCHANGED <<verdict, received, audited>>
      PROVE  UNCHANGED G!vars
  <2>1. /\ Decided(r)' = Decided(r) /\ Recorded(r)' = Recorded(r)
        /\ r \in Open /\ r \in Open'
    BY <1>s, <1>t DEF Decided, Passed, Handed, Recorded, Open
  <2> QED
    BY <1>s, <1>t, <1>e, <2>1, GateMove DEF G!vars
\* A step that answers r, whose decision is on record or was never taken.
<1>a. ASSUME NEW r \in Requests, Decided(r) = Recorded(r), pc[r] # "done", pc[r] # "dropped",
             pc' = [pc EXCEPT ![r] = "done"], UNCHANGED <<received, audited>>,
             NEW v, v = "deny" <=> verdict[r] = "deny", verdict' = [verdict EXCEPT ![r] = v],
             Passed(r)' <=> Passed(r)
      PROVE  G!Next
  <2>1. /\ Decided(r)' = Decided(r) /\ Recorded(r)' = Recorded(r)
        /\ r \in Open /\ r \notin Open'
    BY <1>a, <1>t DEF Decided, Recorded, Open
  <2>2. G!Answer(r)
    BY <1>a, <1>t, <1>e, <1>f, <2>1, GateMove DEF G!Answer
  <2> QED
    BY <2>2 DEF G!Next
\* The client of r leaves, or its handler panics.
<1>b. ASSUME NEW r \in Requests, pc[r] # "done", pc[r] # "dropped",
             pc' = [pc EXCEPT ![r] = "dropped"], UNCHANGED <<received, audited>>,
             \A q \in Requests \ {r} : verdict'[q] = verdict[q]
      PROVE  G!Next
  <2>1. Decided(r)' = "none" /\ Recorded(r)' = Recorded(r)
    BY <1>b, <1>t DEF Decided, Recorded
  <2>2. r \in Open /\ r \notin Open'
    BY <1>b, <1>t DEF Open
  <2>3. G!Abandon(r)
    BY <1>b, <1>t, <1>e, <1>f, <2>1, <2>2, GateMove DEF G!Abandon
  <2> QED
    BY <2>3 DEF G!Next
\* An early return: a request that was never decided is answered.
<1>r. ASSUME NEW r \in Requests, pc[r] \in Early, pc' = [pc EXCEPT ![r] = "done"],
             NEW v, v # "deny", verdict' = [verdict EXCEPT ![r] = v],
             UNCHANGED <<received, audited>>
      PROVE  G!Next
  <2>1. verdict[r] = "none" /\ audited[r] = <<>>
    BY <1>r, <1>i DEF RequestInv, QuietInv
  <2>2. ~Passed(r) /\ ~Passed(r)'
    BY <1>r, <1>t, <2>1 DEF Passed, Early
  <2>3. Decided(r) = "none" /\ Recorded(r) = "none"
    BY <2>1, <2>2, DecidedCases, RecordedCases
  <2> QED
    BY <1>r, <2>1, <2>2, <2>3, <1>a DEF Early
\* The same before the evaluation, when the verdict stays none.
<1>n. ASSUME NEW r \in Requests, pc[r] \in Early, pc' = [pc EXCEPT ![r] = "done"],
             UNCHANGED <<verdict, received, audited>>
      PROVE  G!Next
  <2>1. verdict' = [verdict EXCEPT ![r] = "none"]
    BY <1>n, <1>t, <1>i DEF RequestInv, QuietInv
  <2> QED
    BY <1>n, <2>1, <1>r
<1> USE DEF Goto, Answer, local, ledgers
<1>1. CASE Tick
  BY <1>1 DEF Tick, G!vars, Open, Sent, Decision, Logged, Decided, Passed, Recorded
<1>2. ASSUME NEW r \in Requests, Manage(r) \/ Unauthorized(r) PROVE G!Next
  BY <1>2, <1>n DEF Manage, Unauthorized, Early
<1>3. ASSUME NEW r \in Requests, Arrive(r) PROVE UNCHANGED G!vars
  BY <1>3, <1>s DEF Arrive, Handed
<1>4. ASSUME NEW r \in Requests, RateLimit(r) PROVE [G!Next]_(G!vars)
  BY <1>4, <1>n, <1>s DEF RateLimit, Early, Handed
<1>5. ASSUME NEW r \in Requests, CircuitCheck(r) PROVE [G!Next]_(G!vars)
  BY <1>5, <1>n, <1>s DEF CircuitCheck, Early, Handed
\* The request is handed over to the client of the upstream, or turned away.
<1>d. ASSUME NEW r \in Requests, pc[r] \in {"reading", "evaluating"},
             NEW v \in Verdicts \cup {"none"}, v # "deny",
             verdict' = [verdict EXCEPT ![r] = v],
             pc' = [pc EXCEPT ![r] = "awaiting"], UNCHANGED <<received, audited>>
      PROVE  G!Next
  <2>1. verdict[r] = "none" /\ audited[r] = <<>>
    BY <1>d, <1>i DEF RequestInv, QuietInv, Early
  <2>2. ~Passed(r) /\ Passed(r)'
    BY <1>d, <1>t, <2>1 DEF Passed
  <2>3. Decided(r) = "none" /\ Decided(r)' = "pass"
    BY <1>d, <1>t, <2>1, <2>2 DEF Decided
  <2>4. Recorded(r)' = Recorded(r) /\ r \in Open /\ r \in Open'
    BY <1>d, <1>t DEF Recorded, Open
  <2>5. G!Decide(r, "pass")
    BY <1>d, <1>t, <1>e, <1>f, <2>3, <2>4, GateMove DEF G!Decide
  <2> QED
    BY <2>5 DEF G!Next
<1>6. ASSUME NEW r \in Requests, ReadBody(r) PROVE [G!Next]_(G!vars)
  <2>1. verdict[r] = "none" /\ verdict = [verdict EXCEPT ![r] = "none"]
    BY <1>6, <1>t, <1>i DEF ReadBody, RequestInv, QuietInv, Early
  <2>2. CASE pc' = [pc EXCEPT ![r] = "done"]
    BY <1>6, <2>2, <1>n DEF ReadBody, Early
  <2>3. CASE pc' = [pc EXCEPT ![r] = "evaluating"]
    BY <1>6, <2>3, <1>s DEF ReadBody, Handed
  <2>4. CASE pc' = [pc EXCEPT ![r] = "dropped"]
    BY <1>6, <2>4, <1>b DEF ReadBody
  <2>5. CASE pc' = [pc EXCEPT ![r] = "awaiting"]
    BY <1>6, <2>1, <2>5, <1>d DEF ReadBody
  <2> QED
    BY <1>6, <2>2, <2>3, <2>4, <2>5 DEF ReadBody, Forward, Panic
<1>7. ASSUME NEW r \in Requests, NEW v \in Outcomes, Evaluate(r, v) PROVE [G!Next]_(G!vars)
  <2>0. \A q \in Requests \ {r} : verdict'[q] = verdict[q]
    BY <1>7, <1>t DEF Evaluate
  <2>1. CASE pc' = [pc EXCEPT ![r] = "dropped"]
    BY <1>7, <2>0, <2>1, <1>b DEF Evaluate
  <2>2. CASE v # "deny" /\ pc' = [pc EXCEPT ![r] = "awaiting"]
    BY <1>7, <2>2, <1>d DEF Evaluate
  <2>4. CASE v # "deny" /\ pc' = [pc EXCEPT ![r] = "done"]
    BY <1>7, <2>4, <1>r DEF Evaluate, Early
  <2>3. CASE v = "deny"
    <3>1. verdict[r] = "none" /\ audited[r] = <<>>
      BY <1>7, <1>i DEF Evaluate, RequestInv, QuietInv, Early
    <3>2. Decided(r) = "none"
      BY <1>7, <3>1, DecidedCases DEF Evaluate, Passed
    <3>a. pc'[r] # "dropped" /\ verdict'[r] = "deny" /\ audited' = audited
      BY <1>7, <1>t, <2>3 DEF Evaluate
    <3>3. Decided(r)' = "deny" /\ Recorded(r)' = Recorded(r)
      BY <3>a DEF Decided, Passed, Recorded
    <3>4. r \in Open /\ r \in Open'
      BY <1>7, <1>t, <2>3 DEF Evaluate, Open
    <3>5. G!Decide(r, "deny")
      BY <1>7, <1>t, <1>e, <1>f, <2>3, <3>2, <3>3, <3>4, GateMove DEF Evaluate, G!Decide
    <3> QED
      BY <3>5 DEF G!Next
  <2> QED
    BY <1>7, <2>1, <2>2, <2>3, <2>4 DEF Evaluate, Forward, Panic
<1>8. ASSUME NEW r \in Requests, RecordDenial(r) \/ CountDenial(r) \/ CountRefusal(r)
      PROVE  UNCHANGED G!vars
  BY <1>8, <1>s DEF RecordDenial, CountDenial, CountRefusal, Handed
\* The decision of r is recorded, with its answer or before it.
<1>g. ASSUME NEW r \in Requests, pc[r] \in {"refusing", "auditing"},
             NEW p \in {"done", "counting"}, pc' = [pc EXCEPT ![r] = p],
             audited[r] = <<>>, verdict[r] = "deny" <=> pc[r] = "refusing",
             EmitAudit(r), UNCHANGED <<input, verdict, received>>
      PROVE  G!Next
  <2> DEFINE d == AuditDecision(input[r], verdict[r])
  <2>1. d \in {"allow", "deny", "redact"} /\ (d = "deny" <=> verdict[r] = "deny")
    BY ConversionTypes DEF LocalType
  <2>2. audited'[r] = <<d>> /\ <<d>> # <<>>
    BY <1>g, <1>t, <2>1, AppendToEmpty DEF EmitAudit
  <2>3. Decided(r) # "none" /\ Decided(r)' = Decided(r)
    <3>0. pc[r] # "dropped" /\ pc'[r] # "dropped" /\ verdict'[r] = verdict[r]
      BY <1>g, <1>t
    <3>1. CASE verdict[r] = "deny"
      BY <3>0, <3>1 DEF Decided, Passed
    <3>2. CASE verdict[r] # "deny"
      <4>1. Passed(r) /\ Passed(r)'
        BY <1>g, <1>t, <3>2, <2>2 DEF Passed
      <4> QED
        BY <1>g, <1>t, <3>2, <4>1 DEF Decided
    <3> QED
      BY <3>1, <3>2
  <2>4. Recorded(r) = "none" /\ Recorded(r)' = Decided(r)
    <3>1. Recorded(r) = "none"
      BY <1>g, RecordedCases
    <3>2. CASE verdict[r] = "deny"
      <4>1. Recorded(r)' = "deny"
        BY <2>1, <2>2, <3>2 DEF Recorded
      <4> QED
        BY <1>g, <3>1, <3>2, <4>1, DecidedCases
    <3>3. CASE verdict[r] # "deny"
      <4>1. Passed(r)
        BY <1>g, <3>3 DEF Passed
      <4>2. <<d>> # <<"deny">>
        BY <2>1, <3>3
      <4>3. Recorded(r)' = "pass"
        BY <2>2, <4>2 DEF Recorded
      <4> QED
        BY <1>g, <3>1, <3>3, <4>1, <4>3, DecidedCases
    <3> QED
      BY <3>1, <3>2, <3>3
  <2>5. r \in Open /\ Open' \in {Open, Open \ {r}}
    BY <1>g, <1>t DEF Open
  <2>6. DOMAIN audited' = Requests /\ \A q \in Requests \ {r} : audited'[q] = audited[q]
    BY <1>g, <1>t DEF EmitAudit
  <2>7. G!Record(r)
    BY <1>g, <1>t, <1>e, <1>f, <2>3, <2>4, <2>5, <2>6, GateMove DEF G!Record
  <2> QED
    BY <2>7 DEF G!Next
<1>9. ASSUME NEW r \in Requests, Refuse(r) PROVE G!Next
  <2>1. audited[r] = <<>> /\ verdict[r] = "deny"
    BY <1>9, <1>i DEF Refuse, RequestInv, DeniedInv, Denying
  <2> QED
    BY <1>9, <2>1, <1>g DEF Refuse
<1>10. ASSUME NEW r \in Requests, AuditOutcome(r) PROVE G!Next
  <2>1. audited[r] = <<>> /\ verdict[r] # "deny"
    BY <1>10, <1>i DEF AuditOutcome, RequestInv, DeniedInv, ForwardInv, ReplyInv, Denying
  <2> QED
    BY <1>10, <2>1, <1>g DEF AuditOutcome
<1>15. ASSUME NEW r \in Requests, Respond(r) PROVE UNCHANGED G!vars
  BY <1>15, <1>s DEF Respond, Handed
<1>11. ASSUME NEW r \in Requests, Transmit(r) PROVE G!Next
  <2>1. verdict[r] # "deny" /\ audited[r] = <<>>
    BY <1>11, <1>i DEF Transmit, RequestInv, DeniedInv, ForwardInv, ReplyInv, Denying
  <2>2. Passed(r) /\ Decided(r) = "pass" /\ Recorded(r) = "none"
    BY <1>11, <2>1, DecidedCases, RecordedCases DEF Transmit, Passed
  <2>3. Decided(r)' = Decided(r) /\ Recorded(r)' = Recorded(r)
    BY <1>11 DEF Transmit, Decided, Passed, Recorded
  <2>4. BodyToForward(input[r], verdict[r]) \in Forms
    BY ConversionTypes DEF LocalType
  <2>5. r \in Open \ Sent /\ r \in Open' /\ r \in Sent'
    BY <1>11, <1>t, <2>4 DEF Transmit, Open, Sent, Forms
  <2>6. G!Send(r)
    BY <1>11, <1>t, <1>e, <1>f, <2>2, <2>3, <2>5, GateMove DEF Transmit, G!Send
  <2> QED
    BY <2>6 DEF G!Next
\* A request that was handed over and is on record is answered.
<1>w. ASSUME NEW r \in Requests, pc[r] \in {"counting", "relaying"},
             pc' = [pc EXCEPT ![r] = "done"], UNCHANGED <<verdict, received, audited>>
      PROVE  G!Next
  <2>1. /\ verdict[r] # "deny" /\ audited[r] # <<>>
        /\ audited[r] \in {<<>>, <<AuditDecision(input[r], verdict[r])>>}
    BY <1>w, <1>i DEF RequestInv, DeniedInv, ForwardInv, ReplyInv, Denying
  <2>2. Passed(r) /\ Passed(r)'
    BY <1>w, <1>t, <2>1 DEF Passed
  <2>3. AuditDecision(input[r], verdict[r]) \in {"allow", "redact"}
    BY <2>1, ConversionTypes DEF LocalType
  <2>4. Decided(r) = "pass" /\ Recorded(r) = "pass"
    BY <1>w, <2>1, <2>2, <2>3, DecidedCases, RecordedCases
  <2>5. verdict' = [verdict EXCEPT ![r] = verdict[r]]
    BY <1>w, <1>t
  <2> QED
    BY <1>w, <2>2, <2>4, <2>5, <1>a
<1>12. ASSUME NEW r \in Requests, Relay(r) PROVE G!Next
  BY <1>12, <1>w DEF Relay
<1>16. ASSUME NEW r \in Requests, CountOutcome(r) PROVE [G!Next]_(G!vars)
  BY <1>16, <1>s, <1>w DEF CountOutcome, Handed
<1>13. ASSUME NEW r \in Requests, Cancel(r) PROVE G!Next
  BY <1>13, <1>b DEF Cancel, Awaits
<1>14. CASE UNCHANGED vars
  BY <1>14 DEF vars, G!vars, Open, Sent, Decision, Logged, Decided, Passed, Recorded
<1> QED
  BY <1>1, <1>2, <1>3, <1>4, <1>5, <1>6, <1>7, <1>8, <1>9, <1>10, <1>11, <1>12,
     <1>13, <1>14, <1>15, <1>16 DEF Next, Step, Resume

(***************************************************************************)
(* The pipeline implements the abstract gateway: a request is turned away  *)
(* undecided or decided once, sent on only if it may pass, and recorded as *)
(* it was decided before its client is answered.                           *)
(***************************************************************************)
THEOREM GateImplemented == Spec => ImplementsGate
<1>1. Init => G!Init
  <2> SUFFICES ASSUME Init PROVE G!Init
    OBVIOUS
  <2>1. \A r \in Requests : Decided(r) = "none" /\ Recorded(r) = "none"
    BY DecidedCases, RecordedCases DEF Init, Passed
  <2> QED
    BY <2>1 DEF Init, G!Init, Open, Sent, Decision, Logged
<1>2. PipelineInv /\ [Next]_vars => [G!Next]_(G!vars)
  BY GateStep DEF PipelineInv
<1> QED
  BY <1>1, <1>2, PipelineInductive, PTL DEF Spec, ImplementsGate, G!Spec

-----------------------------------------------------------------------------
(* The ledgers. *)

\* The requests behind each of the three numbers.
Forbidden == {r \in Tallied : verdict[r] = "deny" \/ upstream_result[r] = "403"}
Denials   == {r \in Tallied : verdict[r] = "deny"} \cup {r \in Requests : pc[r] = "tallied"}

\* They are finitely many, and the counters agree with them.
LedgerInv ==
    /\ IsFiniteSet(Tallied) /\ IsFiniteSet(Forbidden) /\ IsFiniteSet(Denials)
    /\ LedgersAgree

\* A step of request r moves the three sets at r only.
LEMMA LedgerMove ==
  ASSUME NEW r \in Requests,
         \A q \in Requests \ {r} :
            /\ pc'[q] = pc[q] /\ verdict'[q] = verdict[q] /\ audited'[q] = audited[q]
            /\ upstream_result'[q] = upstream_result[q]
  PROVE  /\ (r \in Tallied' <=> r \in Tallied) => Tallied' = Tallied
         /\ r \in Tallied' => Tallied' = Tallied \cup {r}
         /\ (r \in Forbidden' <=> r \in Forbidden) => Forbidden' = Forbidden
         /\ r \in Forbidden' => Forbidden' = Forbidden \cup {r}
         /\ (r \in Denials' <=> r \in Denials) => Denials' = Denials
         /\ r \in Denials' => Denials' = Denials \cup {r}
<1>1. \A q \in Requests \ {r} : /\ q \in Tallied' <=> q \in Tallied
                                /\ q \in Forbidden' <=> q \in Forbidden
                                /\ q \in Denials' <=> q \in Denials
  BY DEF Tallied, Forbidden, Denials
<1>2. /\ Tallied \subseteq Requests /\ Tallied' \subseteq Requests
      /\ Forbidden \subseteq Requests /\ Forbidden' \subseteq Requests
      /\ Denials \subseteq Requests /\ Denials' \subseteq Requests
  BY DEF Tallied, Forbidden, Denials
<1>3. /\ (r \in Tallied' <=> r \in Tallied) => Tallied' = Tallied
      /\ r \in Tallied' => Tallied' = Tallied \cup {r}
  BY <1>1, <1>2
<1>4. /\ (r \in Forbidden' <=> r \in Forbidden) => Forbidden' = Forbidden
      /\ r \in Forbidden' => Forbidden' = Forbidden \cup {r}
  BY <1>1, <1>2
<1>5. /\ (r \in Denials' <=> r \in Denials) => Denials' = Denials
      /\ r \in Denials' => Denials' = Denials \cup {r}
  BY <1>1, <1>2
<1> QED
  BY <1>3, <1>4, <1>5

\* A set that gains one request, and its size.
LEMMA OneMore ==
  ASSUME NEW S, NEW T, NEW r, IsFiniteSet(S), r \notin S, T = S \cup {r}
  PROVE  IsFiniteSet(T) /\ Cardinality(T) = Cardinality(S) + 1
  BY FS_AddElement

\* The counters, in terms of the three sets.
LEMMA LedgerNumbers ==
    LedgersAgree <=> /\ Total = Cardinality(Tallied)
                     /\ http_requests_total["403"] = Cardinality(Forbidden)
                     /\ policy_decisions_total["deny"] = Cardinality(Denials)
  BY DEF LedgersAgree, Forbidden, Denials

\* What one increment of a label adds to it and to the sum.
LEMMA HttpCounted ==
  ASSUME LocalType, NEW h \in Statuses, CountHttp(h)
  PROVE  /\ Total' = Total + 1
         /\ h = "403" => http_requests_total'["403"] = http_requests_total["403"] + 1
         /\ h # "403" => http_requests_total'["403"] = http_requests_total["403"]
<1>1. /\ http_requests_total["200"] \in Nat /\ http_requests_total["403"] \in Nat
      /\ http_requests_total["502"] \in Nat
  BY DEF LocalType, Statuses
<1>2. \A l \in Statuses : http_requests_total'[l] =
          IF l = h THEN http_requests_total[l] + 1 ELSE http_requests_total[l]
  BY DEF LocalType, CountHttp
<1>3. CASE h = "200"
  BY <1>1, <1>2, <1>3 DEF Total, Statuses
<1>4. CASE h = "403"
  BY <1>1, <1>2, <1>4 DEF Total, Statuses
<1>5. CASE h = "502"
  BY <1>1, <1>2, <1>5 DEF Total, Statuses
<1> QED
  BY <1>3, <1>4, <1>5 DEF Statuses

\* Every step keeps the ledgers in agreement.
LEMMA LedgerStep ==
    LocalType /\ RequestsInv /\ LedgerInv /\ [Next]_vars => LedgerInv'
<1> SUFFICES ASSUME LocalType, RequestsInv, LedgerInv, [Next]_vars PROVE LedgerInv'
  OBVIOUS
<1>i. \A r \in Requests : RequestInv(r)
  BY DEF RequestsInv
<1>t. /\ pc \in [Requests -> Stages] /\ verdict \in [Requests -> Verdicts \cup {"none"}]
      /\ upstream_result \in [Requests -> Statuses \cup {"none", "error"}]
      /\ DOMAIN audited = Requests
  BY DEF LocalType
<1>l. /\ IsFiniteSet(Tallied) /\ IsFiniteSet(Forbidden) /\ IsFiniteSet(Denials)
      /\ Total = Cardinality(Tallied) /\ http_requests_total["403"] = Cardinality(Forbidden)
      /\ policy_decisions_total["deny"] = Cardinality(Denials)
  BY LedgerNumbers DEF LedgerInv
\* A step that leaves the counters and the three sets as they are.
<1>k. ASSUME UNCHANGED <<http_requests_total, Tallied, Forbidden, Denials>>,
             policy_decisions_total'["deny"] = policy_decisions_total["deny"]
      PROVE  LedgerInv'
  BY <1>k, <1>l, LedgerNumbers DEF LedgerInv, LedgersAgree, Forbidden, Denials, Total
\* Such a step of one request, which is not counted before or after it.
<1>u. ASSUME NEW r \in Requests,
             \A q \in Requests \ {r} :
                /\ pc'[q] = pc[q] /\ verdict'[q] = verdict[q] /\ audited'[q] = audited[q]
                /\ upstream_result'[q] = upstream_result[q],
             audited[r] = <<>> \/ pc[r] = "counting", pc[r] \notin {"refusing", "tallied"},
             audited'[r] = <<>> \/ pc'[r] = "counting", pc'[r] \notin {"refusing", "tallied"},
             http_requests_total' = http_requests_total,
             policy_decisions_total'["deny"] = policy_decisions_total["deny"]
      PROVE  LedgerInv'
  <2>1. /\ r \notin Tallied /\ r \notin Forbidden /\ r \notin Denials
        /\ r \notin Tallied' /\ r \notin Forbidden' /\ r \notin Denials'
    BY <1>u DEF Tallied, Forbidden, Denials
  <2> QED
    BY <1>k, <1>u, <2>1, LedgerMove
\* Or one that is counted before and after it.
<1>o. ASSUME NEW r \in Requests,
             \A q \in Requests \ {r} :
                /\ pc'[q] = pc[q] /\ audited'[q] = audited[q],
             (audited[r] # <<>> /\ pc[r] # "counting") \/ pc[r] = "refusing",
             pc[r] # "tallied",
             audited'[r] # <<>>, pc'[r] \notin {"counting", "tallied"},
             UNCHANGED <<verdict, upstream_result, http_requests_total, policy_decisions_total>>
      PROVE  LedgerInv'
  <2>1. r \in Tallied /\ r \in Tallied'
    BY <1>o DEF Tallied
  <2>2. (r \in Forbidden' <=> r \in Forbidden) /\ (r \in Denials' <=> r \in Denials)
    BY <1>o, <2>1 DEF Forbidden, Denials
  <2> QED
    BY <1>k, <1>o, <2>1, <2>2, LedgerMove
<1> USE DEF local, ledgers, Goto, Answer
<1>1. ASSUME NEW r \in Requests, ReadBody(r) PROVE LedgerInv'
  <2>1. audited[r] = <<>>
    BY <1>1, <1>i DEF ReadBody, RequestInv, QuietInv, Early
  <2>2. policy_decisions_total'["deny"] = policy_decisions_total["deny"]
    BY <1>1 DEF ReadBody, CountDecision, LocalType
  <2> QED
    BY <1>1, <1>t, <1>u, <2>1, <2>2 DEF ReadBody, Forward, Panic
<1>2. ASSUME NEW r \in Requests, NEW v \in Outcomes, Evaluate(r, v) PROVE LedgerInv'
  <2>1. audited[r] = <<>>
    BY <1>2, <1>i DEF Evaluate, RequestInv, QuietInv, Early
  <2>2. policy_decisions_total'["deny"] = policy_decisions_total["deny"]
    BY <1>2 DEF Evaluate, CountDecision, LocalType
  <2> QED
    BY <1>2, <1>t, <1>u, <2>1, <2>2 DEF Evaluate, Forward, Panic
<1>3. ASSUME NEW r \in Requests, Refuse(r) PROVE LedgerInv'
  <2>1. audited[r] = <<>>
    BY <1>3, <1>i DEF Refuse, RequestInv, DeniedInv, Denying
  <2>2. AuditDecision(input[r], verdict[r]) \in {"allow", "deny", "redact"}
    BY ConversionTypes DEF LocalType
  <2>3. audited'[r] # <<>> /\ \A q \in Requests \ {r} : audited'[q] = audited[q]
    BY <1>3, <1>t, <2>1, <2>2, AppendToEmpty DEF Refuse, EmitAudit
  <2> QED
    BY <1>3, <1>t, <1>o, <2>3 DEF Refuse
<1>4. ASSUME NEW r \in Requests, AuditOutcome(r) PROVE LedgerInv'
  <2>1. audited[r] = <<>>
    BY <1>4, <1>i DEF AuditOutcome, RequestInv, ForwardInv
  <2>2. \A q \in Requests \ {r} : audited'[q] = audited[q]
    BY <1>4, <1>t DEF AuditOutcome, EmitAudit
  <2> QED
    BY <1>4, <1>t, <1>u, <2>1, <2>2 DEF AuditOutcome
<1>10. ASSUME NEW r \in Requests, CountDenial(r) PROVE LedgerInv'
  <2>1. audited[r] = <<>>
    BY <1>10, <1>i DEF CountDenial, RequestInv, DeniedInv, Denying
  <2>2. /\ r \notin Tallied /\ r \notin Forbidden /\ r \notin Denials
        /\ r \notin Tallied' /\ r \notin Forbidden' /\ r \in Denials'
    BY <1>10, <1>t, <2>1 DEF CountDenial, Tallied, Forbidden, Denials
  <2>3. Tallied' = Tallied /\ Forbidden' = Forbidden /\ Denials' = Denials \cup {r}
    BY <1>10, <1>t, <2>2, LedgerMove DEF CountDenial
  <2>4. IsFiniteSet(Denials') /\ Cardinality(Denials') = Cardinality(Denials) + 1
    BY <1>l, <2>2, <2>3, OneMore
  <2>5. policy_decisions_total'["deny"] = policy_decisions_total["deny"] + 1
    BY <1>10 DEF CountDenial, CountDecision, LocalType
  <2> QED
    BY <1>10, <1>l, <2>3, <2>4, <2>5, LedgerNumbers
       DEF CountDenial, LedgerInv, LedgersAgree, Forbidden, Denials, Total
<1>11. ASSUME NEW r \in Requests, CountRefusal(r) PROVE LedgerInv'
  <2>1. audited[r] = <<>> /\ verdict[r] = "deny"
    BY <1>11, <1>i DEF CountRefusal, RequestInv, DeniedInv, Denying
  <2>2. /\ r \notin Tallied /\ r \notin Forbidden /\ r \in Denials
        /\ r \in Tallied' /\ r \in Forbidden' /\ r \in Denials'
    BY <1>11, <1>t, <2>1 DEF CountRefusal, Tallied, Forbidden, Denials
  <2>3. /\ Tallied' = Tallied \cup {r} /\ Forbidden' = Forbidden \cup {r}
        /\ Denials' = Denials
    BY <1>11, <1>t, <2>2, LedgerMove DEF CountRefusal
  <2>4. /\ IsFiniteSet(Tallied') /\ Cardinality(Tallied') = Cardinality(Tallied) + 1
        /\ IsFiniteSet(Forbidden') /\ Cardinality(Forbidden') = Cardinality(Forbidden) + 1
    BY <1>l, <2>2, <2>3, OneMore
  <2>5. /\ Total' = Total + 1
        /\ http_requests_total'["403"] = http_requests_total["403"] + 1
    BY <1>11, HttpCounted DEF CountRefusal, Statuses
  <2> QED
    BY <1>11, <1>l, <2>3, <2>4, <2>5
       DEF CountRefusal, LedgerInv, LedgersAgree, Forbidden, Denials
<1>12. ASSUME NEW r \in Requests, CountOutcome(r) PROVE LedgerInv'
  <2> DEFINE h == IF upstream_result[r] = "error" THEN "502" ELSE upstream_result[r]
  <2>1. audited[r] # <<>> /\ verdict[r] # "deny" /\ upstream_result[r] # "none"
    BY <1>12, <1>i DEF CountOutcome, RequestInv, ReplyInv, DeniedInv, ForwardInv, Denying,
       Answering
  <2>2. h \in Statuses /\ CountHttp(h) /\ (h = "403" <=> upstream_result[r] = "403")
    BY <1>12, <1>t, <2>1 DEF CountOutcome, Statuses
  <2> HIDE DEF h
  <2>3. /\ r \notin Tallied /\ r \notin Forbidden /\ r \notin Denials
        /\ r \in Tallied' /\ r \notin Denials'
        /\ r \in Forbidden' <=> upstream_result[r] = "403"
    BY <1>12, <1>t, <2>1 DEF CountOutcome, Tallied, Forbidden, Denials
  <2>4. /\ Tallied' = Tallied \cup {r} /\ Denials' = Denials
        /\ upstream_result[r] = "403" => Forbidden' = Forbidden \cup {r}
        /\ upstream_result[r] # "403" => Forbidden' = Forbidden
    BY <1>12, <1>t, <2>3, LedgerMove DEF CountOutcome
  <2>5. IsFiniteSet(Tallied') /\ Total' = Cardinality(Tallied')
    BY <1>l, <2>2, <2>3, <2>4, OneMore, HttpCounted
  <2>6. IsFiniteSet(Forbidden') /\ http_requests_total'["403"] = Cardinality(Forbidden')
    <3>1. CASE upstream_result[r] = "403"
      BY <1>l, <2>2, <2>3, <2>4, <3>1, OneMore, HttpCounted
    <3>2. CASE upstream_result[r] # "403"
      BY <1>l, <2>2, <2>4, <3>2, HttpCounted
    <3> QED
      BY <3>1, <3>2
  <2> QED
    BY <1>12, <1>l, <2>4, <2>5, <2>6
       DEF CountOutcome, LedgerInv, LedgersAgree, Forbidden, Denials
<1>5. CASE Tick
  BY <1>5, <1>k DEF Tick, Tallied, Forbidden, Denials
<1>6. ASSUME NEW r \in Requests, \/ Manage(r) \/ Unauthorized(r) \/ Arrive(r)
                                 \/ RateLimit(r) \/ CircuitCheck(r)
      PROVE  LedgerInv'
  <2>1. audited[r] = <<>>
    BY <1>6, <1>i DEF Manage, Unauthorized, Arrive, RateLimit, CircuitCheck, RequestInv,
       QuietInv, Early
  <2> QED
    BY <1>6, <1>t, <1>u, <2>1 DEF Manage, Unauthorized, Arrive, RateLimit, CircuitCheck
<1>7. ASSUME NEW r \in Requests, RecordDenial(r) PROVE LedgerInv'
  <2>1. audited[r] = <<>>
    BY <1>7, <1>i DEF RecordDenial, RequestInv, DeniedInv, Denying
  <2> QED
    BY <1>7, <1>t, <1>u, <2>1 DEF RecordDenial
<1>8. ASSUME NEW r \in Requests, Transmit(r) PROVE LedgerInv'
  BY <1>8, <1>k DEF Transmit, Tallied, Forbidden, Denials
<1>13. ASSUME NEW r \in Requests, Respond(r) PROVE LedgerInv'
  <2>1. audited[r] = <<>>
    BY <1>13, <1>i DEF Respond, RequestInv, ForwardInv
  <2> QED
    BY <1>13, <1>t, <1>u, <2>1 DEF Respond
<1>14. ASSUME NEW r \in Requests, Relay(r) PROVE LedgerInv'
  <2>1. audited[r] # <<>>
    BY <1>14, <1>i DEF Relay, RequestInv, ForwardInv
  <2> QED
    BY <1>14, <1>t, <1>o, <2>1 DEF Relay
<1>15. ASSUME NEW r \in Requests, Cancel(r) PROVE LedgerInv'
  <2>1. CASE audited[r] = <<>>
    BY <1>15, <1>t, <1>u, <2>1 DEF Cancel, Awaits
  <2>2. CASE audited[r] # <<>>
    BY <1>15, <1>t, <1>o, <2>2 DEF Cancel, Awaits
  <2> QED
    BY <2>1, <2>2
<1>9. CASE UNCHANGED vars
  BY <1>9, <1>k DEF vars, Tallied, Forbidden, Denials
<1> QED
  BY <1>1, <1>2, <1>3, <1>4, <1>5, <1>6, <1>7, <1>8, <1>9, <1>10, <1>11, <1>12,
     <1>13, <1>14, <1>15 DEF Next, Step, Resume

(***************************************************************************)
(* The ledgers tell one story at every scrape: the HTTP counter counts     *)
(* each audited request once up to the handlers between two writes, its    *)
(* 403s are the denials and the upstream's own, and the deny decisions     *)
(* lead the denials by the handlers between the two counters.              *)
(***************************************************************************)
THEOREM LedgersAlwaysAgree == Spec => []LedgersAgree
<1>1. Init => LedgerInv
  <2> SUFFICES ASSUME Init PROVE LedgerInv
    OBVIOUS
  <2>1. Tallied = {} /\ Forbidden = {} /\ Denials = {}
    BY DEF Init, Tallied, Forbidden, Denials
  <2>2. IsFiniteSet({}) /\ Cardinality({}) = 0
    BY FS_EmptySet
  <2>3. Total = 0 /\ http_requests_total["403"] = 0 /\ policy_decisions_total["deny"] = 0
    BY DEF Init, Total, Statuses
  <2> QED
    BY <2>1, <2>2, <2>3, LedgerNumbers DEF LedgerInv
<1>2. PipelineInv /\ LedgerInv /\ [Next]_vars => LedgerInv'
  BY LedgerStep DEF PipelineInv
<1>3. LedgerInv => LedgersAgree
  BY DEF LedgerInv
<1> QED
  BY <1>1, <1>2, <1>3, PipelineInductive, PTL DEF Spec

-----------------------------------------------------------------------------
(* The quarantine. *)

\* No request carries a stamp from the future.
StampsInv == \A r \in Requests : now[r] <= clock

\* The request is denied and past its call of record_failure.
BeyondRecord(r) ==
    pc[r] \in {"recorded", "tallied", "refusing"} \/ reply[r] = "guardrail_violation"

\* A denial that was recorded was counted, unless the breaker had opened.
RecordedInv ==
    \A r \in Requests : BeyondRecord(r) => r \in counted[Agent(r)] \/ trips[Agent(r)] # {}

\* Until the breaker opens, what left the list was a window older than the
\* latest denial.
LatestInv(a) ==
    trips[a] = {} /\ counted[a] # {} =>
        \E l \in counted[a] : \A c \in counted[a] :
            c \in states[a].failures \/ at[l] - at[c] > Window

QuarantineInv ==
    StampsInv /\ QuarantineRejects /\ RecordedInv /\ \A a \in Agents : LatestInv(a)

\* What the breaker's invariant says of an agent, in the pipeline's terms.
LEMMA BreakerFacts ==
  ASSUME PipelineInv, NEW a \in Agents
  PROVE  /\ clock \in Nat /\ states[a] \in [failures : SUBSET Requests,
                                            opened_at : CB!Time \cup {CB!None}]
         /\ at \in [Requests -> Int] /\ counted[a] \in SUBSET Requests
         /\ \A p \in trips[a] : p.at \in Nat
         /\ IsFiniteSet(states[a].failures)
         /\ states[a].opened_at = CB!None => Cardinality(states[a].failures) < Threshold
         /\ states[a].opened_at # CB!None => trips[a] # {}
         /\ \A c \in counted[a] : c \notin Unrecorded /\ at[c] \in Nat /\ at[c] <= clock
         /\ ~CB!IsOpen(states[a], clock) => \A p \in trips[a] : p.at + Cooldown <= clock
<1>1. CBP!TypeOK /\ CBP!ListInv(a) /\ CBP!TripInv(a)
  BY DEF PipelineInv, CBP!IndInv, CBP!AgentsInv, CBP!AgentInv
<1>2. /\ clock \in Nat /\ states[a] \in [failures : SUBSET Requests,
                                         opened_at : CB!Time \cup {CB!None}]
      /\ at \in [Requests -> Int] /\ counted[a] \in SUBSET Requests
      /\ \A p \in trips[a] : p.at \in Nat
  BY <1>1 DEF CBP!TypeOK, CBP!AgentCircuitState, CBP!Trip, CBP!Time, CBP!None,
     CB!Time, CB!None
<1>3. /\ IsFiniteSet(states[a].failures)
      /\ states[a].opened_at = CB!None => Cardinality(states[a].failures) < Threshold
      /\ \A c \in counted[a] : c \notin Unrecorded /\ at[c] \in Nat /\ at[c] <= clock
  BY <1>1, SameCardinality DEF CBP!ListInv, CBP!None, CB!None, CBP!Time
<1>4. states[a].opened_at # CB!None => trips[a] # {}
  BY <1>1 DEF CBP!TripInv, CBP!None, CB!None
<1>5. ASSUME ~CB!IsOpen(states[a], clock), NEW p \in trips[a] PROVE p.at + Cooldown <= clock
  <2>1. CASE states[a].opened_at = CB!None
    BY <1>1, <2>1 DEF CBP!TripInv, CBP!Past, CBP!None, CB!None
  <2>2. CASE states[a].opened_at # CB!None
    <3>1. states[a].opened_at \in Nat /\ p.at \in Nat
      BY <1>2, <2>2 DEF CB!Time
    <3>2. clock - states[a].opened_at >= Cooldown
      BY <1>2, <1>5, <2>2, <3>1 DEF CB!IsOpen
    <3>3. p.at = states[a].opened_at \/ p.at + Cooldown <= states[a].opened_at
      BY <1>1, <2>2 DEF CBP!TripInv, CBP!Past, CBP!Current, CBP!None, CB!None
    <3> QED
      BY <1>2, <3>1, <3>2, <3>3
  <2> QED
    BY <2>1, <2>2
<1> QED
  BY <1>2, <1>3, <1>4, <1>5

\* The stamps of requests: set to the clock, which never goes back.
LEMMA StampsStep == PipelineInv /\ StampsInv /\ [Next]_vars => StampsInv'
<1> SUFFICES ASSUME PipelineInv, StampsInv, [Next]_vars, NEW r \in Requests
             PROVE  now'[r] <= clock'
  BY DEF StampsInv
<1>1. clock \in Nat /\ now \in [Requests -> Nat] /\ now[r] <= clock
  BY DEF PipelineInv, RLP!IndInv, RLP!TypeOK, RLP!Time, StampsInv
<1>2. [RL!Next]_(RL!vars)
  BY LimiterStep DEF PipelineInv
<1>3. CASE RL!Tick
  BY <1>1, <1>3 DEF RL!Tick
<1>4. CASE \E k \in Agents, c \in Requests : RL!Begin(c, k)
  BY <1>1, <1>4 DEF RL!Begin
<1>5. CASE \E k \in Agents, c \in Requests : RL!Admit(c, k) \/ RL!Reject(c, k)
  BY <1>1, <1>5 DEF RL!Admit, RL!Reject
<1>6. CASE UNCHANGED RL!vars
  BY <1>1, <1>6 DEF RL!vars
<1> QED
  BY <1>2, <1>3, <1>4, <1>5, <1>6 DEF RL!Next

\* What a step does to the breaker's variables.
LEMMA BreakerMoves ==
  ASSUME PipelineInv, [Next]_vars
  PROVE  \/ \E r \in Requests : RecordDenial(r)
         \/ (\E r \in Requests : CircuitCheck(r)) /\ UNCHANGED <<at, counted, trips>>
         \/ UNCHANGED breaker /\ checked' = checked
<1>1. ASSUME NEW r \in Requests, CircuitCheck(r) PROVE UNCHANGED <<at, counted, trips>>
  BY <1>1 DEF CircuitCheck, CB!Check
<1> USE DEF local, ledgers, limiter
<1>2. CASE Tick
  BY <1>2 DEF Tick
<1>3. ASSUME NEW r \in Requests, Manage(r) \/ Unauthorized(r) \/ Arrive(r) \/ RateLimit(r)
      PROVE  UNCHANGED breaker /\ checked' = checked
  BY <1>3 DEF Manage, Unauthorized, Arrive, RateLimit
<1>4. ASSUME NEW r \in Requests, ReadBody(r) \/ \E v \in Outcomes : Evaluate(r, v)
      PROVE  UNCHANGED breaker /\ checked' = checked
  BY <1>4 DEF ReadBody, Evaluate
<1>5. ASSUME NEW r \in Requests, \/ Refuse(r) \/ Respond(r) \/ Relay(r)
                                 \/ Transmit(r) \/ Cancel(r)
      PROVE  UNCHANGED breaker /\ checked' = checked
  BY <1>5 DEF Refuse, Respond, Relay, Transmit, Cancel
<1>7. ASSUME NEW r \in Requests, \/ CountDenial(r) \/ CountRefusal(r)
                                 \/ AuditOutcome(r) \/ CountOutcome(r)
      PROVE  UNCHANGED breaker /\ checked' = checked
  BY <1>7 DEF CountDenial, CountRefusal, AuditOutcome, CountOutcome
<1>6. CASE UNCHANGED vars
  BY <1>6 DEF vars
<1> QED
  BY <1>1, <1>2, <1>3, <1>4, <1>5, <1>6, <1>7 DEF Next, Step, Resume

\* record_failure for request r either finds the circuit open, or counts r.
LEMMA RecordDenialCases ==
  ASSUME PipelineInv, NEW r \in Requests, RecordDenial(r)
  PROVE  /\ clock' = clock /\ checked' = checked /\ now' = now /\ input' = input
         /\ r \notin counted[Agent(r)] /\ Agent(r) \in Agents
         /\ \/ /\ CB!IsOpen(states[Agent(r)], clock)
               /\ UNCHANGED <<states, at, counted, trips>>
            \/ /\ ~CB!IsOpen(states[Agent(r)], clock)
               /\ states' = [states EXCEPT ![Agent(r)] =
                                CB!CountFailure(states[Agent(r)], r, clock)]
               /\ at' = [at EXCEPT ![r] = clock]
               /\ counted' = [counted EXCEPT ![Agent(r)] = @ \cup {r}]
               /\ \/ trips' = trips
                  \/ trips' = [trips EXCEPT ![Agent(r)] = @ \cup
                         {[at |-> clock, calls |->
                            CB!CountFailure(states[Agent(r)], r, clock).failures]}]
<1>1. Agent(r) \in Agents
  BY DEF PipelineInv, LocalType, Agent, Message
<1>2. r \in Unrecorded
  BY DEF RecordDenial, Unrecorded
<1>3. r \notin counted[Agent(r)]
  BY <1>1, <1>2, BreakerFacts
<1>4. CASE CB!IgnoreFailure(r, Agent(r))
  BY <1>1, <1>3, <1>4 DEF RecordDenial, CB!IgnoreFailure, limiter
<1>5. CASE CB!RecordFailure(r, Agent(r))
  BY <1>1, <1>3, <1>5 DEF RecordDenial, CB!RecordFailure, limiter
<1> QED
  BY <1>4, <1>5 DEF RecordDenial

\* The message of a request is fixed; so is its stamp once it was checked.
LEMMA StampKept ==
  ASSUME PipelineInv, [Next]_vars
  PROVE  input' = input /\ \A r \in Requests : checked[r] # CB!None => now'[r] = now[r]
<1>1. ASSUME NEW q \in Requests, Arrive(q)
      PROVE  input' = input /\ \A r \in Requests : checked[r] # CB!None => now'[r] = now[r]
  <2>1. checked[q] = CB!None
    BY <1>1 DEF Arrive, PipelineInv, RequestsInv, RequestInv, VettedInv
  <2>2. now \in [Requests -> RLP!Time]
    BY DEF PipelineInv, RLP!IndInv, RLP!TypeOK
  <2> QED
    BY <1>1, <2>1, <2>2 DEF Arrive, RL!Begin
<1> USE DEF local, ledgers, limiter
<1>2. CASE Tick
  BY <1>2 DEF Tick
<1>3. ASSUME NEW r \in Requests, Manage(r) \/ Unauthorized(r) PROVE UNCHANGED <<input, now>>
  BY <1>3 DEF Manage, Unauthorized
<1>4. ASSUME NEW r \in Requests, RateLimit(r) \/ CircuitCheck(r) \/ RecordDenial(r)
      PROVE  UNCHANGED <<input, now>>
  BY <1>4 DEF RateLimit, RL!Admit, RL!Reject, CircuitCheck, RecordDenial
<1>5. ASSUME NEW r \in Requests, ReadBody(r) \/ \E v \in Outcomes : Evaluate(r, v)
      PROVE  UNCHANGED <<input, now>>
  BY <1>5 DEF ReadBody, Evaluate
<1>6. ASSUME NEW r \in Requests, \/ Refuse(r) \/ Respond(r) \/ Relay(r)
                                 \/ Transmit(r) \/ Cancel(r)
      PROVE  UNCHANGED <<input, now>>
  BY <1>6 DEF Refuse, Respond, Relay, Transmit, Cancel
<1>8. ASSUME NEW r \in Requests, \/ CountDenial(r) \/ CountRefusal(r)
                                 \/ AuditOutcome(r) \/ CountOutcome(r)
      PROVE  UNCHANGED <<input, now>>
  BY <1>8 DEF CountDenial, CountRefusal, AuditOutcome, CountOutcome
<1>7. CASE UNCHANGED vars
  BY <1>7 DEF vars
<1> QED
  BY <1>1, <1>2, <1>3, <1>4, <1>5, <1>6, <1>7, <1>8 DEF Next, Step, Resume

\* The check lets a request through only when every quarantine is over, and a
\* quarantine begins only after all stamps that were taken.
LEMMA RejectsStep ==
    PipelineInv /\ StampsInv /\ QuarantineRejects /\ [Next]_vars => QuarantineRejects'
<1> SUFFICES ASSUME PipelineInv, StampsInv, QuarantineRejects, [Next]_vars
             PROVE  QuarantineRejects'
  OBVIOUS
<1> SUFFICES ASSUME NEW r \in Requests, checked'[r] # CB!None,
                    NEW p \in trips'[Agent(r)], p.at < now'[r]
             PROVE  ~(checked'[r] < p.at + Cooldown)
  BY StampKept DEF QuarantineRejects, Agent
<1>1. /\ clock \in Nat /\ now[r] \in Nat /\ now[r] <= clock /\ Agent(r) \in Agents
      /\ checked \in [Requests -> CB!Time \cup {CB!None}] /\ trips \in [Agents -> SUBSET CBP!Trip]
  BY DEF PipelineInv, LocalType, Agent, Message, RLP!IndInv, RLP!TypeOK, RLP!Time, StampsInv,
     CBP!IndInv, CBP!TypeOK
<1>2. ASSUME trips' = trips, checked'[r] = checked[r] PROVE ~(checked'[r] < p.at + Cooldown)
  BY <1>2, StampKept DEF QuarantineRejects
<1>3. ASSUME NEW q \in Requests, CircuitCheck(q), trips' = trips
      PROVE  ~(checked'[r] < p.at + Cooldown)
  <2>1. CASE checked'[r] = checked[r]
    BY <1>2, <1>3, <2>1
  <2>2. CASE checked'[r] # checked[r]
    <3>1. r = q /\ checked'[r] = clock /\ ~CB!IsOpen(states[Agent(r)], clock)
      BY <1>1, <1>3, <2>2 DEF CircuitCheck
    <3>2. p.at \in Nat /\ p.at + Cooldown <= clock
      BY <1>1, <1>3, <3>1, BreakerFacts
    <3> QED
      BY <1>1, <3>1, <3>2
  <2> QED
    BY <2>1, <2>2
<1>4. ASSUME NEW q \in Requests, RecordDenial(q) PROVE ~(checked'[r] < p.at + Cooldown)
  <2>1. p \in trips[Agent(r)] \/ p.at = clock
    BY <1>1, <1>4, RecordDenialCases
  <2>2. checked' = checked /\ now' = now
    BY <1>4, RecordDenialCases
  <2> QED
    BY <1>1, <2>1, <2>2 DEF QuarantineRejects
<1> QED
  BY <1>2, <1>3, <1>4, BreakerMoves DEF breaker

\* A denial is recorded before it is answered.
LEMMA RecordedStep == PipelineInv /\ RecordedInv /\ [Next]_vars => RecordedInv'
<1> SUFFICES ASSUME PipelineInv, RecordedInv, [Next]_vars, NEW r \in Requests,
                    BeyondRecord(r)'
             PROVE  r \in counted'[Agent(r)] \/ trips'[Agent(r)] # {}
  BY StampKept DEF RecordedInv, Agent
<1>t. /\ pc \in [Requests -> Stages] /\ reply \in [Requests -> Replies]
      /\ Agent(r) \in Agents /\ trips \in [Agents -> SUBSET CBP!Trip]
      /\ counted \in [Agents -> SUBSET Requests]
  BY DEF PipelineInv, LocalType, Agent, Message, CBP!IndInv, CBP!TypeOK
<1>1. ASSUME NEW q \in Requests, RecordDenial(q)
      PROVE  r \in counted'[Agent(r)] \/ trips'[Agent(r)] # {}
  <2>1. /\ counted[Agent(r)] \subseteq counted'[Agent(r)]
        /\ trips[Agent(r)] \subseteq trips'[Agent(r)]
    BY <1>1, <1>t, RecordDenialCases
  <2>2. CASE r # q
    <3>1. BeyondRecord(r)
      BY <1>1, <1>t, <2>2 DEF RecordDenial, Goto, BeyondRecord
    <3> QED
      BY <2>1, <3>1 DEF RecordedInv
  <2>3. CASE r = q
    <3>1. CASE CB!IsOpen(states[Agent(r)], clock)
      <4>1. trips[Agent(r)] # {}
        BY <1>t, <3>1, BreakerFacts DEF CB!IsOpen
      <4> QED
        BY <2>1, <4>1
    <3>2. CASE ~CB!IsOpen(states[Agent(r)], clock)
      BY <1>1, <1>t, <2>3, <3>2, RecordDenialCases
    <3> QED
      BY <3>1, <3>2
  <2> QED
    BY <2>2, <2>3
<1>2. ASSUME UNCHANGED <<counted, trips>>,
             BeyondRecord(r)
      PROVE  r \in counted'[Agent(r)] \/ trips'[Agent(r)] # {}
  BY <1>2 DEF RecordedInv
<1>3. (\E q \in Requests : RecordDenial(q)) \/ UNCHANGED <<counted, trips>>
  BY BreakerMoves DEF breaker
<1>4. \/ BeyondRecord(r)
      \/ \E q \in Requests : RecordDenial(q)
  <2> USE DEF Goto, Answer, local, ledgers, BeyondRecord
  <2>1. CASE Tick
    BY <2>1 DEF Tick
  <2>2. ASSUME NEW q \in Requests,
               \/ Manage(q) \/ Unauthorized(q) \/ Arrive(q)
               \/ RateLimit(q) \/ CircuitCheck(q)
        PROVE  BeyondRecord(r)
    BY <1>t, <2>2 DEF Manage, Unauthorized, Arrive, RateLimit, CircuitCheck
  <2>3. ASSUME NEW q \in Requests, ReadBody(q) \/ \E v \in Outcomes : Evaluate(q, v)
        PROVE  BeyondRecord(r)
    BY <1>t, <2>3 DEF ReadBody, Evaluate, Forward, Panic
  <2>4. ASSUME NEW q \in Requests, Respond(q) \/ Relay(q) \/ Transmit(q) \/ Cancel(q)
        PROVE  BeyondRecord(r)
    BY <1>t, <2>4 DEF Respond, Relay, Transmit, Cancel
  <2>6. ASSUME NEW q \in Requests,
               \/ CountDenial(q) \/ CountRefusal(q) \/ Refuse(q)
               \/ AuditOutcome(q) \/ CountOutcome(q)
        PROVE  BeyondRecord(r)
    BY <1>t, <2>6 DEF CountDenial, CountRefusal, Refuse, AuditOutcome, CountOutcome
  <2>5. CASE UNCHANGED vars
    BY <2>5 DEF vars
  <2> QED
    BY <2>1, <2>2, <2>3, <2>4, <2>5, <2>6 DEF Next, Step, Resume
<1> QED
  BY <1>1, <1>2, <1>3, <1>4

\* The latest denial, and what it aged out of the list.
LEMMA LatestStep ==
  ASSUME PipelineInv, [Next]_vars, NEW a \in Agents, LatestInv(a)
  PROVE  LatestInv(a)'
<1> DEFINE st == states[a]
<1>t. /\ states \in [Agents -> CBP!AgentCircuitState] /\ trips \in [Agents -> SUBSET CBP!Trip]
      /\ counted \in [Agents -> SUBSET Requests] /\ at \in [Requests -> Int] /\ clock \in Nat
  BY BreakerFacts DEF PipelineInv, CBP!IndInv, CBP!TypeOK
<1>1. ASSUME trips'[a] = trips[a], counted'[a] = counted[a],
             trips[a] = {} => states'[a] = states[a],
             \A c \in counted[a] : at'[c] = at[c]
      PROVE  LatestInv(a)'
  BY <1>1 DEF LatestInv
\* A circuit that never opened is closed: the reset does nothing to it.
<1>2. trips[a] = {} => st.opened_at = CB!None /\ CB!Expire(st, clock) = st
                       /\ ~CB!IsOpen(st, clock)
  BY BreakerFacts DEF CB!Expire, CB!IsOpen
<1>3. ASSUME NEW r \in Requests, CircuitCheck(r), UNCHANGED <<at, counted, trips>>
      PROVE  LatestInv(a)'
  <2>1. states' = [states EXCEPT ![Agent(r)] = CB!Expire(states[Agent(r)], clock)]
    BY <1>3 DEF CircuitCheck, CB!Check
  <2>2. trips[a] = {} => states'[a] = states[a]
    BY <1>t, <1>2, <2>1
  <2> QED
    BY <1>1, <1>3, <2>2
<1>4. ASSUME NEW r \in Requests, RecordDenial(r) PROVE LatestInv(a)'
  <2>0. r \notin counted[a]
    <3>1. r \in Unrecorded
      BY <1>4 DEF RecordDenial, Unrecorded
    <3> QED
      BY <3>1, BreakerFacts
  <2>1. CASE Agent(r) # a \/ CB!IsOpen(states[Agent(r)], clock)
    <3>1. /\ trips'[a] = trips[a] /\ counted'[a] = counted[a] /\ states'[a] = states[a]
          /\ \A c \in counted[a] : at'[c] = at[c]
      BY <1>4, <1>t, <2>0, <2>1, RecordDenialCases
    <3> QED
      BY <1>1, <3>1
  <2>2. CASE Agent(r) = a /\ ~CB!IsOpen(st, clock)
    <3> SUFFICES ASSUME trips'[a] = {} PROVE LatestInv(a)'
      BY DEF LatestInv
    <3>1. /\ states'[a] = CB!CountFailure(st, r, clock)
          /\ at' = [at EXCEPT ![r] = clock] /\ counted'[a] = counted[a] \cup {r}
          /\ trips[a] \subseteq trips'[a]
      BY <1>4, <1>t, <2>2, RecordDenialCases
    <3>2. trips[a] = {} /\ st.opened_at = CB!None /\ CB!Expire(st, clock) = st
      BY <1>2, <3>1
    <3>3. states'[a].failures = {d \in st.failures : clock - at[d] <= Window} \cup {r}
      BY <3>1, <3>2 DEF CB!CountFailure, CB!Retained
    <3>4. at'[r] = clock /\ r \in counted'[a] /\ r \in states'[a].failures
      BY <1>t, <3>1, <3>3
    <3>5. ASSUME NEW c \in counted[a] PROVE c \in states'[a].failures \/ at'[r] - at'[c] > Window
      <4>1. at'[c] = at[c] /\ at[c] \in Nat /\ at[c] <= clock
        BY <1>t, <2>0, <3>1, BreakerFacts
      <4>2. CASE c \in st.failures
        BY <1>t, <3>3, <3>4, <4>1, <4>2
      <4>3. CASE c \notin st.failures
        <5>1. PICK l \in counted[a] : at[l] - at[c] > Window
          BY <3>2, <4>3 DEF LatestInv
        <5>2. at[l] \in Nat /\ at[l] <= clock
          BY BreakerFacts
        <5> QED
          BY <1>t, <3>4, <4>1, <5>1, <5>2
      <4> QED
        BY <4>2, <4>3
    <3> QED
      BY <3>1, <3>4, <3>5 DEF LatestInv
  <2> QED
    BY <2>1, <2>2
<1>5. CASE UNCHANGED breaker
  BY <1>1, <1>5 DEF breaker
<1> QED
  BY <1>3, <1>4, <1>5, BreakerMoves

\* Threshold denials within one window are all still listed: a closed circuit
\* cannot hold that many.
LEMMA OffendersFound ==
  ASSUME PipelineInv, QuarantineInv
  PROVE  OffendersQuarantined
<1> SUFFICES ASSUME NEW a \in Agents, trips[a] = {},
                    \A r, q \in counted[a] : at[r] - at[q] <= Window,
                    Cardinality({r \in Requests : Agent(r) = a
                                   /\ reply[r] = "guardrail_violation"}) >= Threshold
             PROVE  FALSE
  BY DEF OffendersQuarantined
<1> DEFINE denied == {r \in Requests : Agent(r) = a /\ reply[r] = "guardrail_violation"}
           listed == states[a].failures
<1>1. /\ IsFiniteSet(listed) /\ Cardinality(listed) < Threshold
      /\ \A c \in counted[a] : at[c] \in Nat
  BY BreakerFacts
<1>2. denied \subseteq counted[a]
  BY DEF QuarantineInv, RecordedInv, BeyondRecord
<1>3. counted[a] \subseteq listed
  <2> SUFFICES ASSUME NEW c \in counted[a], c \notin listed PROVE FALSE
    OBVIOUS
  <2>1. PICK l \in counted[a] : at[l] - at[c] > Window
    BY DEF QuarantineInv, LatestInv
  <2> QED
    BY <1>1, <2>1
<1>4. denied \subseteq listed
  BY <1>2, <1>3
<1>5. /\ Cardinality(denied) <= Cardinality(listed)
      /\ Cardinality(denied) \in Nat /\ Cardinality(listed) \in Nat
  BY <1>1, <1>4, FS_Subset, FS_CardinalityType
<1> QED
  BY <1>1, <1>5

(***************************************************************************)
(* The quarantine holds under concurrency: an agent whose denials reach    *)
(* the threshold is quarantined before the last of them is answered, and   *)
(* no request that arrives during a quarantine gets past the breaker.      *)
(***************************************************************************)
THEOREM QuarantineKept == Spec => []QuarantineHolds
<1>1. Init => QuarantineInv
  <2> SUFFICES ASSUME Init PROVE QuarantineInv
    OBVIOUS
  <2>1. StampsInv /\ QuarantineRejects
    BY DEF Init, StampsInv, QuarantineRejects
  <2>2. RecordedInv /\ \A a \in Agents : LatestInv(a)
    BY DEF Init, RecordedInv, BeyondRecord, LatestInv
  <2> QED
    BY <2>1, <2>2 DEF QuarantineInv
<1>2. PipelineInv /\ QuarantineInv /\ [Next]_vars => QuarantineInv'
  BY StampsStep, RejectsStep, RecordedStep, LatestStep DEF QuarantineInv
<1>3. PipelineInv /\ QuarantineInv => QuarantineHolds
  BY OffendersFound DEF QuarantineInv, QuarantineHolds
<1> QED
  BY <1>1, <1>2, <1>3, PipelineInductive, PTL DEF Spec

=============================================================================
