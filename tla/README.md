# mcp-safegate: TLA+ models, checks and proofs

mcp-safegate is a gateway between MCP agents and an upstream MCP server. For
every request it authenticates the agent, applies a rate limit and a circuit
breaker, redacts personal data, evaluates a WASM policy of the agent's tenant,
forwards the request and writes an audit entry. These modules model the gateway
as the source in `src/` implements it. TLC checks them on small instances; the
theorems in the `*Proofs` modules are checked by TLAPS for every value of the
constants.

## 1. Inventory

| Component (source) | State | Operations | Correct when |
|---|---|---|---|
| Circuit breaker (`safegate-proxy/src/circuit_breaker.rs`) | mutex-protected map agent -> failure instants, `opened_at` | `check`, `record_failure` | opens exactly when the threshold is met within the window; a quarantine is neither shortened nor extended; resets leave nothing behind |
| Rate limiter (`rate_limit.rs`) | DashMap key -> instants | `check_rate_limit` | no window holds more than the quota, no request is refused without cause, whatever the lock order |
| Request pipeline (`proxy.rs`) | none of its own; a handler future per request | `handle_request`, `relay_response`, `rebuild_tool_call_body`, `emit_audit` | only vetted, redacted requests reach the upstream; audit, counters and answers agree |
| Identity (`identity.rs`) | none | `extract_agent_context` | (input to the pipeline) |
| Metrics (`metrics.rs`) | counter vectors, histograms | increments, text exposition | counters agree with the audit trail |
| Policy registry (`safegate-wasm/src/registry.rs`) | ArcSwap map tenant -> engine, event channel, watcher task | `new`/scan, notify callback, debounce, upsert, remove, `get` | an engine comes from its tenant's own valid file; a bad file never costs a policy; the map follows the directory |
| Default policy watcher (`watcher.rs`) | ArcSwap engine, event channel, watcher task | notify callback, debounce, `reload_policy` | the fallback never loses its component; the last valid write is loaded |
| WASM engine (`safegate-wasm/src/lib.rs`, `sandbox.rs`) | wasmtime engine with one epoch counter, component; per evaluation a store with a deadline and a timeout task | `load_component_from_file`, `evaluate_policy` | an evaluation ends; it is interrupted for a reason; a timeout does not act after its evaluation returned |
| Redactor (`safegate-core/src/redactor.rs`) | none (pure) | `sanitize_str` with its passes, Luhn, entropy; `sanitize_json` | what a detector finds is replaced, harmless text is not; the answer tells whether anything changed |
| Audit entry and writer (`safegate-audit`) | unbounded channel, `BufWriter`, file or stdout, writer task | `AuditLogEntry::new`, `log`, writer task | lines in order, none twice; an acknowledged line is durable; damage is local; nothing vanishes silently |
| Startup, configuration (`main.rs`, `config.rs`) | environment | start the parts | (fixes the initial states) |

Interactions: every connection is a task; every request runs `handle_request`,
which calls the limiter and the breaker (shared behind an `Arc`), reads an
engine from the registry or the default watcher, awaits the policy, awaits the
upstream client and enqueues audit entries on the writer's channel. The registry
and the watcher each have a background task fed by a notify callback thread.

Hard behaviours: a stamp taken before a lock; checks that are stale after an
await; denials recorded concurrently; a handler that is dropped at any await
when its client disconnects; directory edits that race the startup scan, the
debounce and the reload; a debounce that discards events; fail-open errors; an
epoch counter shared by evaluations, advanced by tasks that need a worker of
the same runtime and that `abort()` may meet half-way; audit lines torn by failing writes, whose errors surface one
call late, or by the end of the process; redaction passes chosen on a text that
earlier passes change. The list with source lines is under `hazards` in `PROJECT.json`.

## 2. Modules

| Module | Models | Composes |
|---|---|---|
| `CircuitBreaker` | the breaker | |
| `RateLimiter` | the limiter | |
| `Gate` | what the gateway promises of a request (abstract) | |
| `Proxy` | the pipeline for concurrent requests | instantiates `RateLimiter` and `CircuitBreaker`; implements `Gate` |
| `PolicyRegistry` | the tenant registry | |
| `PolicyWatcher` | the default policy watcher | |
| `WasmEngine` | concurrent evaluations of one engine | |
| `Redactor` | the redactor | |
| `AuditLog` | the audit writer | |
| `CircuitBreakerProofs`, `RateLimiterProofs`, `PolicyRegistryProofs`, `PolicyWatcherProofs`, `AuditLogProofs`, `WasmEngineProofs`, `RedactorProofs` | theorems | extend their component |
| `ProxyProofs` | theorems | extends `Proxy`; instantiates `RateLimiterProofs` and `CircuitBreakerProofs` |
| `MC*` | instances for TLC | extend their component |

Each definition's source lines are in the `map` of `PROJECT.json`. Operators
called "Mutant of X" are plausible wrong versions of X; with one of them in
place of X, TLC finds the property that is paired with it violated. They are
not used by any specification.

**CircuitBreaker.** `check` and `record_failure` hold the mutex for their whole
body and read the clock inside it, so each is one action at the current instant
(`Check`; `RecordFailure` or, on the early return, `IgnoreFailure`). A
`Vec<Instant>` whose order does not matter is the set of the calls that pushed
its elements, and `at` gives their instants: equal instants stay distinct.
`counted` and `trips` are histories. A missing map entry behaves as a fresh one
and is not distinguished from it.

**RateLimiter.** `check_rate_limit` reads `Instant::now()` before it takes the
DashMap entry lock. `Begin` is the stamp; `Admit` and `Reject` are the two
outcomes of what happens under the lock. Between them other calls for the key
may run with younger stamps. `DurationSince` saturates at zero as the library
does.

**Proxy.** A request is one run of `handle_request`, cut at every write to
shared state and at every await: arrival and stamp, limiter, breaker check, body
(collected, parsed, sanitised), evaluation; for a denial `RecordDenial`,
`CountDenial`, `CountRefusal` and `Refuse` with the audit entry; otherwise the
await of the upstream (`Respond`), `AuditOutcome`, `CountOutcome` and the relay of
the answer. A scrape of `/metrics` may fall between any two of them. `Cancel` is the
client's disconnection: hyper drops the future, so a handler may end at any of its
four awaits (`Awaits`). `Transmit` is the moment the bytes leave, within the await
on the upstream. The counter's label is the upstream's own status: of the statuses,
403 and 502 are kept, which the gateway itself uses, and 200 stands for the rest.
Data is abstracted: a message is its route (`pathless` is an authority-form target,
whatever its method and body), its body (seven kinds the handler can tell apart) and
its `Layouts`: serde reads `JsonRpcRequest` and `McpToolCallParams` from objects or
from arrays, and `rebuild_tool_call_body` behaves differently on each. It replaces the
arguments in an object, returns an array as it is, panics on positional params
(`Panic` ends the handler without an answer), and fails on an odd body, one that parses
as `JsonRpcRequest` but not as `serde_json::Value`. An evaluation is its outcome, a
forwarded body is original, sanitised or rewritten. The steps of the limiter and of the
breaker are the actions of their modules (`RL!Admit`, `CB!RecordFailure`, ...) with the
mapping that a request is a call: where the handler is, and what it answered, says where
the call is.

**Gate.** The abstract gateway: a request is turned away undecided or decided
once, sent on only if it may pass and before its record, recorded once and as
decided, and answered after the record; the exception is `Abandon`, the client
that leaves and the handler that panics. It knows no stages, counters, limiter or breaker. `Proxy`
maps to it (`G`): a request is decided when the policy denies it, or when it
is handed to the upstream's client, so that one whose upstream URI fails (502) was
turned away, evaluated or not; a request is sent when its bytes reached the upstream.

**PolicyRegistry, PolicyWatcher.** A file is its content, which compiles or does
not; an engine is the content it was compiled from. The operator of the
directory writes (also half-written contents), deletes or moves files away at
any moment, in any number up to `MaxEdits`. The registry lists the tenant directory
(`List`, which may fail and leaves the map empty), loads the entries one by one
(`Scan`, `SkipEntry`) and returns (`FinishScan`). A file created after the listing was
read may or may not be among the entries still to come (`Unwatched`). A reported edit enqueues an event as
`handle_notify_event` classifies it: a move away is `Modify(Name)`, so the
registry upserts (and fails to load) and the watcher reloads; a deletion removes
a tenant and is ignored by the watcher. The task receives one event, sleeps
(`Receive`), drains the channel (`Debounce`), then applies the event it received
to the file as it is by then. Registering the watch may fail and then disables
the task. An edit before the watch is not reported; `missed` and `unseen` record
which files or edits neither the scan nor the watch came upon.

**WasmEngine.** `Begin` is `evaluate_policy` up to its first await (store,
deadline one epoch ahead, spawn of the timeout task), then `Instantiate` or
`InstantiateFails`, `Return` and `Finish`; `NoComponent` is the early return. A
guest runs inside the poll of its request's task and keeps the worker
(`OnWorker`) until it returns, traps or awaits a host call (`Await`, `Resume`).
It is interrupted only while it runs, once `epoch >= deadline`, as wasmtime
checks epochs at loop heads and function entries. The timeout task sleeps only
after its first poll (`Sleep`); once the sleep is over a worker polls it again
(`Wake`), and that poll advances the epoch (`Fire`). `Wake` and `Fire` are apart
because `abort()` does not stop a poll that is past the sleep: `AbortTimer` leaves
such a task to finish, also after its evaluation returned. `Cancel` drops a pending
evaluation: its `JoinHandle` is dropped, which detaches the task. `Busy` counts the
workers inside a poll. The scheduler is tokio's multi-threaded one, as
`#[tokio::main]` starts: any idle worker may poll a task that is ready, and none
has to soon.

**Redactor.** A text is a sequence of words; a word is what the four patterns see
in it (its kind, its digits) with what stands before it (`sep`): a space, another
whitespace such as a line break, or a character that no pattern takes and that
glues it to the word before. Words glued together are one token, so a match may
begin or end inside a token (`key=sk-...`, an address followed by a comma and a
secret); `high` on its first word says that the token is long and of high entropy.
`SanitizeStr` is `sanitize_str`: which passes run is decided on the original, then
bearer, keys, e-mails, cards and entropy follow in this order. Two tokenisations
differ in the source and in the model: `EntropyHit` splits at whitespace,
`EntropyPass` at spaces. The entropy of a token that is `Intact`, made of one token
of the original in which nothing was replaced, is that of the original; that of any
other is unknown and chosen freely (`dense`). A token is `Bracketed` if it starts with
`[` and ends with `]`, of its own or of a placeholder; the entropy pass skips it. The
three passes that replace more than one word share `Rewrite`, which goes through a
text from left to right as `replace_all` does; `CardPass` takes leftmost, then longest
candidates, as the regex library does. The walk of `sanitize_json` is one action per
leaf. Characters are not modelled: which pattern matches where is given.

**AuditLog.** `Log` is `AuditLogger::log`; the writer task opens the sink
(`Open`), receives (`Receive`), writes line and newline (`WriteAll`), flushes
(`Flush`), and goes on after an error (`Fail`). The `BufWriter` holds bytes back
(`buffer`, `held` bytes of them) up to its capacity, passes them on in one write
when the next piece does not fit (`Spill`), and is bypassed by a piece that
fills it alone (`Direct`). Below it, tokio's `File` and `Stdout` accept a write
at once and leave it to a blocking thread (`Disk`); its failure is reported by
the next call. Since `write_line` ends with a flush, that call still belongs to
the same entry, but the `BufWriter` may keep bytes of it, which precede the next
entry's line. A failing write leaves any fragment. `Crash` is the end of the
process at any point, also inside a write, and `Restart` the next process on the
same file. The sink is a sequence of whole and torn lines and newlines.
Serialising an entry cannot fail (strings, integers and a unit or string enum
variant), so that `continue` has no action.

## 3. Runs

| Run | Instance | Shows |
|---|---|---|
| `breaker` | 2 agents, 5 denials, threshold 2, window 2, cooldown 2, instants 0..5 | the breaker opens when justified, misses nothing, separates quarantines, keeps its list bounded; a quarantine is fixed and ends |
| `limiter` | 2 keys, 5 calls, quota 2, window 2, instants 0..4 | quota of the current window, justified rejections, no live stamp dropped |
| `limiter_any_window` (violation) | 1 key, 4 calls | the quota of *any* interval fails |
| `proxy` | 2 requests of 1 agent, 10 messages and every outcome, threshold 1, quota 1, instants 0..1 | only vetted requests leave, object-form ones redacted; audit and counters agree at every scrape; the pipeline implements `Gate`, `RateLimiter!Spec` and the safety part of `CircuitBreaker!Spec`; a handler stops nowhere but at an await |
| `proxy_breaker` | 3 tool calls of 2 agents, all denied, threshold 2, instants 0..3 | the quarantine holds under concurrency; offenders are quarantined |
| `registry` | 2 tenants, 4 edits of every kind | tenant isolation, no policy lost to a bad file, convergence of bursts of writes |
| `registry_live` (violation) | 2 tenants, 2 writes | the drain loses another tenant's event |
| `watcher` | default.wasm and another file, 4 edits | the fallback keeps a component; the last write is loaded |
| `audit` | 4 entries (lines of 1, 2, 3, 3 units), buffer of 3, 2 failing writes, 1 end of the process | order, durability of what was acknowledged, local damage, no silent loss, and every entry is written or given up |
| `engine` | 3 evaluations on 2 workers, at least one guest that spins, timeout 2 | causes of interruptions, no timeout that wakes after its evaluation returned, an end for every guest that computes if its timeout task is polled |
| `engine_isolated` (violation) | the same | an evaluation is interrupted by another one's timeout |
| `redactor` | all texts of up to 3 words (8 that start a token, after a space or a line break; 5 inside one; digit groups) or 4 digit groups, documents of 3 leaves; cards of 2 to 3 digits | patterns, spaced unchanged secrets and lone cards are gone; harmless text stays; the change is reported exactly |

**Bounds.** `MaxTime` bounds the clock and `MaxEdits` the edits; both only cut
behaviours short. Instants are only compared, so the unit of time is arbitrary;
in `breaker` the clock spans a quarantine and a window on either side of it, with
denials enough for two openings and one left over, and instants on, inside and
beyond the window's edge. In `limiter` five calls fill a window, expire it, and
leave a stale stamp to arrive late; both components are proved for all
parameters anyway. In `proxy`, requests meet only through the limiter, the
breaker and the counters, and two requests suffice for each pairwise race; the
threshold needs three (`proxy_breaker`): two offenders and one that arrives
later. In `proxy` the threshold and the quota are 1, so that one request's denial
or admission already refuses the other, and a window and a quarantine of 1 end
within the clock. `EveryInput` has one message for every path through the handler;
the kinds left out take the path of one that is there (named in `MCProxy`).
`proxy_breaker` has only denials, as nothing else reaches the breaker's map but its
checks. Four edits allow a burst of three behind
a received event, also across two files. In `audit` the line lengths cover a line that is held back with its
newline, one whose newline fills the buffer, and two that bypass it, so that a
newline left over from a failed entry meets a line that fits or not; two failures and one end of the
process can hit the same line or different ones. `WasmEngine` needs no bound on
time: sleep and run time are counted per evaluation and only up to the timeout.
Three evaluations on two workers let one spin, one run beside it and one queue,
or two spin and starve the timers; behaviours are taken up to renaming. In
`redactor` a card number has 2 to 3 digits instead of 13 to 19: with the code's
lengths several candidates would need texts of dozens of digits, and the passes
depend on the lengths only through comparison with the two bounds. Symmetry over
request, call and key identities is used only in runs without temporal
properties. `CHECK_DEADLOCK FALSE` is set where the model ends when
all calls are made, all requests are done, all edits are spent, the document is
walked or the writer has nothing left to write.

**Fairness.** `CircuitBreaker`: the clock advances (weak fairness of `Tick`),
nothing else. `Proxy`: weak fairness of a handler's synchronous steps only (`Step`),
which run to the next await under locks held for a few statements. Nothing is
assumed of the awaits: the handler has no timeout on the request body, the upstream
or the relayed body, and the end of an evaluation is not certain (see `WasmEngine`).
That the awaits of a request end is a hypothesis of `Finishes`; with it, the property
says that no stage is left without a way on, and no more: a silent client or
upstream, or an evaluation that is never interrupted, holds its request for ever.
`PolicyRegistry` and `PolicyWatcher`: weak fairness of the startup scan, which runs to
its end on the starting thread, and of the task, which the runtime polls; none of the
operator's edits. `AuditLog`: weak fairness of the writer task and of the blocking
thread; none of `Log`, `Close`, `Crash` and `Restart`. `WasmEngine`: time passes, and a
thread that is inside a poll goes on with it (weak fairness of `Tick`, `Proceed` and
`Fire`). None of `Sleep` and `Wake`: tokio does not promise that a ready timeout task
is polled while one worker is inside a long poll, even if another is idle. That worker
may hold the task in its own slot, or the timer driver, and the others may stay parked.
`EndsIfTimeoutPolled` has the polling of the task as its hypothesis. Host calls of a
guest need not return and clients need not leave.

## 4. Proofs

Every safety invariant and action property that a run checks, and both
refinements, are theorems for every value of the constants; only liveness is not
(end of this section). Each inductive invariant was also model-checked on the run's
instance.

Assumptions, each an `ASSUME` that TLC evaluates. Breaker and limiter, also in
`Proxy`: `Threshold` is a positive integer; `Window`, `Cooldown`, `MaxRequests`,
`RateWindow` and `MaxTime` are naturals. `Proxy`: `Inputs` are messages,
`Outcomes` are verdicts. Policy modules: there is a tenant (`Default` is a
path), good and corrupt contents are different and neither is the absence of a
file, `MaxEdits` is a natural. `WasmEngine`: finitely many evaluations, at least
one worker, a positive timeout. `AuditLog`: there is an entry, lines are not
empty, `Capacity` exceeds 1. `Redactor`: `Documents` are sequences
of leaves, a card number has at least one digit (`MinDigits` is positive).
Sets of agents, keys, calls, requests, tenants, paths and entries are arbitrary,
also infinite; the bounds on time, edits, failures and ends of the process are
arbitrary naturals.

**CircuitBreakerProofs.** `TypeCorrect`, then `Inductive` for
`IndInv = TypeOK` and, per agent, `ListInv` (the list is a finite part of the
counted denials, below the threshold while closed), `TripInv` (the opening in
force is the newest of the history, every other is a cooldown older and shares no
listed denial), `CoverInv` (a counted denial is listed, or has aged out of the
window, or precedes an opening) and the three properties. The properties alone are
not inductive: `NoMissedTrip` for a window that ends now follows only because
the retained list contains every denial of that window which no opening covers,
which is `CoverInv`; `TripsSeparate` needs to know that the list holds no denial
of an older opening, which is `TripInv`. From `IndInv` follow `Justified`,
`NotMissed`, `Separate` and `Bounded`; `Fixed` is the action property.

**RateLimiterProofs.** `LimiterTypeCorrect`, then `LimiterInductive` for
`PlaceInv`, `VectorInv`, `ExpiredInv` (an admitted call that left the vector was
a full window older than some returned call) and `RejectInv`. `ExpiredInv` is
the strengthening: with it, the admitted calls of a window that ends at or after
every returned stamp are all still in the vector, and the vector is within the
quota (`CurrentQuota`); it also gives `LiveRetained`. `RejectsJustified` follows
from `RejectInv`. The theorems hold for every interleaving of stamps and locks.

**ProxyProofs.** `PipelineInv` is the conjunction of `LocalType`, of
`RequestsInv` and of the inductive invariants of the limiter and of the breaker.
The latter are not proved again: every step of a handler is a step of each part or
leaves it alone (`PartsImplemented`, the refinement `ImplementsParts`), and the
step lemmas of the two proof modules are used through `INSTANCE` with the mapping
that a request is a call. `RequestsInv` says of each request, by where its handler
is and what it answered, what it has passed (`VettedInv`), that it had no effect
before its evaluation (`QuietInv`), that a denied one is held back (`DeniedInv`),
and that what was sent and logged is what was decided (`ForwardInv`). From it
follow `UpstreamVetted`, `AuditTrailExact`, `RedactionKept` and
`ProxyTypeCorrect`, and `GateImplemented`: the initial states map to initial
states of `Gate`, and every action to one of its actions or a stutter.
`RequestsInv` also says at which stage between two writes a handler is and what it
has written by then (also for one that panicked). `LedgersAlwaysAgree` adds that the
counted requests are finitely many (`LedgerInv`); its steps are that each write of a
counter moves one request into the set that it counts (`Tallied`), once.
`QuarantineKept` needs `QuarantineInv`: no stamp is from the
future, a recorded denial was counted unless the breaker had opened, and until
it opens what left the breaker's list was a window older than the latest denial
(`LatestInv`); the breaker's own invariant does not say by which denial a listed
one was aged out, and without it a late record could miss the threshold.

**PolicyRegistryProofs, PolicyWatcherProofs.** `RegistryInv` adds to the types
that a file's content is in its history (`HeldInv`), and that a queued or received
removal concerns a file that was taken away (`ChannelInv`, `EventInv`): that is
why a merged or late event never takes a policy from a tenant whose file was
always there (`PolicyNeverLost`). `TenantsIsolated` is `EnginesGenuine` in the
same invariant. For the watcher, `SharedInv` (the component in force was held
by some file) gives `EngineNeverLost`.

**AuditLogProofs.** The output is followed as one sequence, `Track`: what is in
the sink, in flight and held back. `Spill` and a successful write leave it as it
is, `WriteAll` appends to it (a piece that bypasses the buffer finds it empty,
`DirectInTurn`), and a failed write or the end of the process takes pieces out
of it or tears one (`DamageKeeps`). `OrderInv`: the whole lines of the output,
the entry at hand and the channel follow each other as they were logged, which
gives `FileInOrder`. `FateInv`: an entry has one fate, and none while it is queued
or at hand (`AuditTypeCorrect`). `TailInv`: until a failure the output ends with
what `write_line` wrote, so that a flush acknowledges a line and a newline that
are in the sink (`AcknowledgedDurable`). `DamageInv` counts the acknowledged
entries that cannot be read back, plus one while there is `Danger`: a failure
not yet reported, or output before the line at hand that is no newline. Only a
failure brings danger, and a flush uses it up; hence `DamageIsLocal`. The bound
alone is not inductive: it does not say that an entry can be damaged only if a
failure is still unpaid. `LossInv` fixes how many entries were received while
nothing failed and gives `OnlyFailuresLose`, with `DamageIsLocal` for the part
about reading back.

**WasmEngineProofs.** `EngineInv`: the epoch is the number of timeouts that fired
(`EpochInv`), no more polls, of evaluations and of timeout tasks, run than there are
workers (`WorkersInv`), once its evaluation has returned a timeout task is gone, has
fired, or is in the poll that will (`TimerInv`), and a task that sleeps beside its
running evaluation has slept no longer than that has run (`SleepInv`). From it follow
`EngineTypeCorrect` (with the bound on the epoch) and the action property
`InterruptsHaveCause`, of which `SleepInv` gives that a sleep that ends beside its own
evaluation lasted the whole timeout of it.

**RedactorProofs.** `WalkReported`: with the shape of the document (`ShapeInv`)
and what is still ahead (`AheadInv`), `ChangeReported` is inductive. It says that
a visited string is `SanitizeStr` of the original, so the other three theorems
are facts about that operator, for texts of any length. They take induction over
the text. The library's induction theorems have an operator as a parameter, which
the provers cannot instantiate; but `WFMin` speaks of a set, and gives that a set
of naturals has a least element (`LeastNatural`), hence induction along the
positions of a text for membership in a set (`Upward`, `Downward`). With it the
recursions of `Rewrite`, `Total` and `FlattenSeq` are shown to have a solution
(`RewriteExists`, `TotalExists`, `FlattenExists`), which is what a recursive
function definition means.

`NothingDetectedLeft`: what `Rewrite` returns is a concatenation of pieces, each a
stretch of the text kept as it is or one dull word, which no detector recognises
(`Pieces`). A word of the result that is not dull was a word of the text, and if
the next one is not dull either, that one was its successor there (`Successor`);
so no rewriting brings a pattern about that was not there (`RewritingKeeps`), and
what a pass has removed stays removed although which passes run is decided on the
original (`CleanEmails`, `SanitizedClean`). For cards, a run of groups left in the
result that has no digits beside it was one piece, hence a longest candidate,
hence one that failed the check (`LoneCards`); where the original has no
candidate, the earlier passes make none (`NoNewRuns`). For entropy, an intact token
between two spaces of the result was one of the original and so was tested, and
replaced unless the text has it in brackets (`SpacedGone`).
`HarmlessTextKept`: every pass keeps every piece, and the pieces make up the text
(`AllKept`). `TyposDetected`: changing a digit changes one term of the sum
(`TotalChange`), by between 1 and 9 either way because doubling with reduction is
injective on digits (`DigitsDistinct`).

**Only model-checked.** Liveness (`QuarantineEnds`, `Finishes`,
`LoneUpsertsConverge`, `DefaultConverges`, `Drained`, `EndsIfTimeoutPolled`),
because the prover does not treat fairness.

## 5. Where documentation and code differ

With a run each (see `findings` in `PROJECT.json`):

- the limiter's quota "in any one `window_duration` interval" (`rate_limit.rs:25`):
  exact only for the current window, because the stamp precedes the lock;
- the registry "keeps [the map] live" (`registry.rs:3`): the drain discards other
  tenants' events;
- limits "applied to each isolated policy evaluation" and a timeout "for one
  policy evaluation" (`sandbox.rs:5`, `:15`): the epoch is the engine's, so one
  evaluation's timeout interrupts the others, whose requests are then let through.

The models also make these visible, without a run of their own.

Pipeline and policies: a tool call whose client disconnects while the upstream
works on it leaves no audit entry (`Gate!Abandon` is there for this), against "for
every proxied tool call" (`safegate-audit/src/lib.rs:35`); RedactArgs is audited
also when the body could not be rebuilt and the old one went out
(`BodyToForward`, `AuditDecision`), against "rewritten before forwarding"
(`safegate-audit/src/lib.rs:29`); a `default.wasm` present at startup is not
loaded until it changes (`PolicyWatcher!Init`), against "automatic fallback to
`default.wasm`" (`README.md:17`); the 401, 429 and
400 answers and the 502 for a target without a path, also of a tool call that was
evaluated, leave no audit entry and no HTTP count (`Proxy!AuditExact` states which answers do), against "emitted for every
outcome" (`proxy.rs:100`); a redaction counts as a policy decision before, and in
addition to, the policy's (`metrics.rs:42`); a `tools/call` whose parameters do
not parse is forwarded unevaluated (`IsToolCall`; `proxy.rs:311`); any `.wasm`
file of the policy directory becomes the default policy (`main.rs:25`); a tool call
written as an array, or with a body `serde_json::Value` refuses, is evaluated in its
sanitised form and forwarded as it came (`Rebuild`), against "the JSON-RPC body bytes
are rebuilt so the cleaned payload propagates" (`proxy.rs:195`); positional params
panic in the rebuild (`RebuildPanics`) and leave the client without an answer; the 403
and 502 series of `safegate_http_requests_total` mix the gateway's own answers with the
upstream's (`CountOutcome`); a tenant file created while the directory is being listed,
or any if the listing fails, is not loaded until it changes (`Unwatched`, `List`).

Evaluation: a guest that waits in a host call is not interrupted, as epochs are
checked by running code only, and with a spinning guest on every worker no timer
is polled, nor need it be with one such guest on a quiet gateway whose other workers
are parked; all against "hard-terminated after 5 ms via epoch interrupt"
(`README.md:114`). `EndsIfTimeoutPolled` states the case in which a
guest ends. A timeout task that `abort()` meets past its sleep still advances the epoch
and may interrupt an evaluation that began after its own had returned (`AbortTimer`).

Audit writer: after a torn line the next acknowledged entry shares its line with
the fragment (`DamageBounded` allows one per failure), against "one compact JSON
object per line" (`writer.rs:4`); entries in the channel are lost with the
process; entries sent after a failed open are discarded without a message.

Redactor: a high-entropy token in square brackets, or one joined to its
neighbours by line breaks, may stay, and so may one that starts with an address and
ends with `]`, since its start becomes a placeholder (`Bracketed`; the comment says
that tokens are skipped that "now equal one of the `[REDACTED_*]` literals",
`redactor.rs:253`); a valid card number followed by a short
group of digits is taken together with it, fails the check and stays; "bearer"
before an e-mail address takes the local part and leaves the domain; object keys
and numbers are never sanitised.

## 6. Not modelled

- Text formats: HTTP headers, JSON-RPC error bodies, the Prometheus exposition,
  environment variables, JSON field layout. They carry no state.
- HMAC, the matching of regular expressions on characters, the value of the
  Shannon entropy (logarithms), wasmtime's memory limit, TLS and sockets.
- The conversion of agent context and arguments into WIT types.
- `extract_agent_context` beyond its outcome; the tenant only selects an engine.
- `PolicyRegistry::get` is a read; it matters once registry and pipeline are composed.
- Histograms and logging. Tests, benchmarks, the sample policy and deployment files.

## 7. Plan

Done, in this order: `CircuitBreaker` with proofs, `RateLimiter` with proofs,
`Proxy` with both composed, `PolicyRegistry`, `PolicyWatcher`, `AuditLog`,
`WasmEngine`, `Redactor`, `Gate` with the refinement by `Proxy`; then the proofs
of section 4 about all of them.

Next:

1. A composition of `PolicyRegistry`, `PolicyWatcher` and the evaluation step of
   `Proxy` (tenant lookup, fallback, fail-open), with the theorem that a tenant
   with a policy is never evaluated by the fallback engine.
2. An abstract specification of the audit trail (a log that may lose entries only
   by a failure) that `AuditLog` implements, and its refinement as a theorem.
