------------------------------ MODULE WasmEngine ------------------------------
(***************************************************************************)
(* Concurrent evaluations of one WasmPolicyEngine (safegate-wasm/src/      *)
(* lib.rs) on the worker threads of the runtime.  The guest runs inside    *)
(* the poll of the request's task and keeps its worker until it returns,   *)
(* traps, or awaits a host call.  It traps at its next check once the      *)
(* engine's epoch reached its store's deadline; the epoch is advanced by   *)
(* the timeout tasks, one for each evaluation, which are tasks of the same *)
(* runtime and keep a worker while they are polled.                        *)
(*                                                                         *)
(* Time is counted per evaluation and only up to Timeout, so no bound on a *)
(* clock is needed.  A task that is ready may be polled by any idle worker *)
(* (the multi-threaded scheduler lets them steal it), and need not be soon.*)
(***************************************************************************)
EXTENDS Integers, FiniteSets

CONSTANTS
    Evaluations,   \* calls of evaluate_policy on this engine
    Behaviours,    \* what the guest may do with their arguments
    Workers,       \* the number of worker threads
    Timeout        \* EXECUTION_TIMEOUT, in ticks

\* A guest may compute for a while, loop for ever, or wait on host calls (a
\* clock, a poll) that need not return.
Guests == {"finite", "spinning", "waiting"}

ASSUME EvaluationsAssumption == IsFiniteSet(Evaluations)

ASSUME EngineAssumption ==
    /\ Behaviours \subseteq [Evaluations -> Guests]
    /\ Workers \in Nat \ {0} /\ Timeout \in Nat \ {0}

VARIABLES
    component,  \* the engine's component: "none", "broken", "good"
    guest,      \* what the guest does in each evaluation
    state,      \* where each evaluation is
    result,     \* what evaluate_policy returned
    epoch,      \* the epoch of the engine
    deadline,   \* the epoch deadline of each evaluation's store
    timer,      \* the timeout task of each evaluation
    slept,      \* how long that task has slept
    elapsed     \* history: the time since the evaluation began, while it lasts

fixed   == <<component, guest>>
calls   == <<state, result>>
timers  == <<timer, slept>>
vars    == <<fixed, calls, epoch, deadline, timers, elapsed>>

\* WasmSandboxConfig::default().epoch_deadlines
EpochDeadlines == 1

-----------------------------------------------------------------------------
\* The engine of with_sandbox_config, after load_component_from_file or not.
Init ==
    /\ component \in {"none", "broken", "good"}
    /\ guest \in Behaviours
    /\ state = [e \in Evaluations |-> "idle"]
    /\ result = [e \in Evaluations |-> "none"]
    /\ epoch = 0
    /\ deadline = [e \in Evaluations |-> 0]
    /\ timer = [e \in Evaluations |-> "none"]
    /\ slept = [e \in Evaluations |-> 0]
    /\ elapsed = [e \in Evaluations |-> 0]

OnWorker(e) == state[e] \in {"instantiating", "calling", "returned"}
Live(e)     == OnWorker(e) \/ state[e] = "awaiting"

\* The workers that are inside a poll, of a request or of a timeout task.
Busy ==
    Cardinality({e \in Evaluations : OnWorker(e)})
        + Cardinality({e \in Evaluations : timer[e] = "firing"})

IdleWorker == Busy < Workers

Goto(e, s) == state' = [state EXCEPT ![e] = s]

\* evaluate_policy gives up at once when no component is loaded.
NoComponent(e) ==
    /\ state[e] = "idle" /\ IdleWorker
    /\ component = "none"
    /\ Goto(e, "done")
    /\ result' = [result EXCEPT ![e] = "error"]
    /\ UNCHANGED <<fixed, epoch, deadline, timers, elapsed>>

\* The store, its deadline, and the spawn of the timeout task.
Begin(e) ==
    /\ state[e] = "idle" /\ IdleWorker
    /\ component # "none"
    /\ Goto(e, "instantiating")
    /\ deadline' = [deadline EXCEPT ![e] = epoch + EpochDeadlines]
    /\ timer' = [timer EXCEPT ![e] = "spawned"]
    /\ UNCHANGED <<fixed, result, epoch, slept, elapsed>>

\* abort(): a task that has completed stays completed, and a poll that is past
\* the sleep runs to its end.
AbortTimer(e) ==
    /\ timer' = [timer EXCEPT ![e] = IF @ \in {"firing", "fired"} THEN @ ELSE "aborted"]
    /\ slept' = [slept EXCEPT ![e] = 0]

\* The future of evaluate_policy is gone, and its store with it.
DropStore(e) ==
    /\ deadline' = [deadline EXCEPT ![e] = 0]
    /\ elapsed' = [elapsed EXCEPT ![e] = 0]

\* The deadline of the store has passed: guest code traps at its next check.
Expired(e) == epoch >= deadline[e]

\* Mutant of InstantiateFails: the error path forgets the timeout task.
InstantiateFailsUnaborted(e) ==
    /\ state[e] = "instantiating"
    /\ component = "broken" \/ Expired(e)
    /\ Goto(e, "done")
    /\ result' = [result EXCEPT ![e] = IF component = "broken" THEN "error" ELSE "interrupted"]
    /\ DropStore(e)
    /\ UNCHANGED <<fixed, epoch, timers>>

\* instantiate_async returns an error, or the epoch interrupts it.
InstantiateFails(e) ==
    /\ state[e] = "instantiating"
    /\ component = "broken" \/ Expired(e)
    /\ Goto(e, "done")
    /\ result' = [result EXCEPT ![e] = IF component = "broken" THEN "error" ELSE "interrupted"]
    /\ AbortTimer(e) /\ DropStore(e)
    /\ UNCHANGED <<fixed, epoch>>

\* Mutant of Instantiate: the timeout task is aborted before the call.
InstantiateAborts(e) ==
    /\ state[e] = "instantiating" /\ component = "good"
    /\ Goto(e, "calling")
    /\ AbortTimer(e)
    /\ UNCHANGED <<fixed, result, epoch, deadline, elapsed>>

\* instantiate_async succeeds and call_evaluate enters the guest.
Instantiate(e) ==
    /\ state[e] = "instantiating" /\ component = "good"
    /\ Goto(e, "calling")
    /\ UNCHANGED <<fixed, result, epoch, deadline, timers, elapsed>>

\* The guest awaits a host call: the future is pending, the worker free.
Await(e) ==
    /\ state[e] = "calling" /\ guest[e] = "waiting"
    /\ Goto(e, "awaiting")
    /\ UNCHANGED <<fixed, result, epoch, deadline, timers, elapsed>>

\* External: the host call returns and a worker polls the task again.
Resume(e) ==
    /\ state[e] = "awaiting" /\ IdleWorker
    /\ Goto(e, "calling")
    /\ UNCHANGED <<fixed, result, epoch, deadline, timers, elapsed>>

\* call_evaluate returns the guest's decision, a trap of its own (memory that
\* grows past the store's limit included), or the interruption.
Return(e) ==
    /\ state[e] = "calling"
    /\ \/ /\ guest[e] # "spinning"
          /\ \E r \in {"decision", "error"} : result' = [result EXCEPT ![e] = r]
       \/ Expired(e) /\ result' = [result EXCEPT ![e] = "interrupted"]
    /\ Goto(e, "returned")
    /\ UNCHANGED <<fixed, epoch, deadline, timers, elapsed>>

\* timeout_task.abort(), and the result is handed to the caller.
Finish(e) ==
    /\ state[e] = "returned"
    /\ Goto(e, "done")
    /\ AbortTimer(e) /\ DropStore(e)
    /\ UNCHANGED <<fixed, result, epoch>>

\* External: the client disconnects; the future is dropped while it is pending.
\* Dropping the JoinHandle detaches the timeout task, it does not abort it.
Cancel(e) ==
    /\ state[e] = "awaiting"
    /\ Goto(e, "dropped")
    /\ DropStore(e)
    /\ UNCHANGED <<fixed, result, epoch, timers>>

\* The timeout task is polled for the first time and its sleep begins.
Sleep(e) ==
    /\ timer[e] = "spawned" /\ IdleWorker
    /\ timer' = [timer EXCEPT ![e] = "sleeping"]
    /\ UNCHANGED <<fixed, calls, epoch, deadline, slept, elapsed>>

\* Its sleep is over and a worker polls it again.
Wake(e) ==
    /\ timer[e] = "sleeping" /\ slept[e] = Timeout /\ IdleWorker
    /\ timer' = [timer EXCEPT ![e] = "firing"]
    /\ slept' = [slept EXCEPT ![e] = 0]
    /\ UNCHANGED <<fixed, calls, epoch, deadline, elapsed>>

\* Mutant of Fire: the task sleeps again, like an interval.
FireRepeatedly(e) ==
    /\ timer[e] = "firing"
    /\ timer' = [timer EXCEPT ![e] = "sleeping"]
    /\ epoch' = epoch + EpochDeadlines
    /\ UNCHANGED <<fixed, calls, deadline, slept, elapsed>>

\* for _ in 0..epoch_deadlines { increment_epoch() }, and the task completes.
Fire(e) ==
    /\ timer[e] = "firing"
    /\ timer' = [timer EXCEPT ![e] = "fired"]
    /\ epoch' = epoch + EpochDeadlines
    /\ UNCHANGED <<fixed, calls, deadline, slept, elapsed>>

\* Time passes.
Tick ==
    LET Later(n) == IF n < Timeout THEN n + 1 ELSE n
    IN  /\ slept' = [e \in Evaluations |->
                        IF timer[e] = "sleeping" THEN Later(slept[e]) ELSE slept[e]]
        /\ elapsed' = [e \in Evaluations |->
                        IF Live(e) THEN Later(elapsed[e]) ELSE elapsed[e]]
        /\ UNCHANGED <<fixed, calls, epoch, deadline, timer>>

\* What a worker that runs e, or a guest that computes, does next.
Proceed(e) ==
    \/ InstantiateFails(e) \/ Instantiate(e) \/ Return(e) \/ Finish(e)

Next ==
    \/ Tick
    \/ \E e \in Evaluations :
          \/ NoComponent(e) \/ Begin(e) \/ Proceed(e)
          \/ Await(e) \/ Resume(e) \/ Cancel(e)
          \/ Sleep(e) \/ Wake(e) \/ Fire(e)

(***************************************************************************)
(* Time passes, and a thread that runs a poll goes on with it.  Nothing    *)
(* makes the host call of a waiting guest return, and nothing is assumed   *)
(* of when the scheduler polls a timeout task that is ready (Sleep, Wake): *)
(* a worker that runs a guest for long may hold the task in its own slot,  *)
(* or the timer driver, while the other workers are parked.                *)
(***************************************************************************)
Spec ==
    /\ Init /\ [][Next]_vars
    /\ WF_vars(Tick)
    /\ \A e \in Evaluations : WF_vars(Proceed(e)) /\ WF_vars(Fire(e))

-----------------------------------------------------------------------------
(* Properties. *)

TypeOK ==
    /\ component \in {"none", "broken", "good"}
    /\ guest \in Behaviours
    /\ state \in [Evaluations -> {"idle", "instantiating", "calling", "awaiting",
                                  "returned", "done", "dropped"}]
    /\ result \in [Evaluations -> {"none", "decision", "error", "interrupted"}]
    /\ epoch \in 0 .. EpochDeadlines * Cardinality(Evaluations)
    /\ deadline \in [Evaluations -> Nat]
    /\ timer \in [Evaluations -> {"none", "spawned", "sleeping", "firing", "fired",
                                  "aborted"}]
    /\ slept \in [Evaluations -> 0 .. Timeout]
    /\ elapsed \in [Evaluations -> 0 .. Timeout]
    /\ Busy <= Workers

(***************************************************************************)
(* No interruption without cause: the deadline of a running evaluation     *)
(* passes only as a timeout task advances the epoch, never because of how  *)
(* or when the evaluation began; and the sleep of a timeout task ends only *)
(* while its own evaluation still runs, after the whole Timeout, or was    *)
(* dropped by its client.  One that returned interrupts others only if its *)
(* task was past the sleep already, out of the reach of abort().           *)
(***************************************************************************)
InterruptsExplained ==
    [][\A e \in Evaluations :
          /\ Live(e)' /\ Expired(e)' =>
                (Live(e) /\ Expired(e)) \/ \E f \in Evaluations : Fire(f)
          /\ Wake(e) =>
                (Live(e) /\ elapsed[e] = Timeout) \/ state[e] = "dropped"]_vars

\* The timeout task of e waits for a worker to poll it.
Ready(e) == timer[e] = "spawned" \/ (timer[e] = "sleeping" /\ slept[e] = Timeout)

(***************************************************************************)
(* A guest that computes cannot hold its request for ever, provided its    *)
(* timeout task is polled in the end whenever it is ready: its evaluation  *)
(* ends, unless it waits on a host call that does not return.  With a      *)
(* spinning guest on every worker, or one beside workers that stay parked, *)
(* no worker polls the task and the evaluation never ends.                 *)
(***************************************************************************)
EndsIfTimeoutPolled ==
    \A e \in Evaluations :
        []<>(~Ready(e)) /\ [](guest[e] # "waiting") =>
            (Live(e) ~> state[e] \in {"done", "dropped"})

(***************************************************************************)
(* sandbox.rs:5 and :15: the limits are "applied to each isolated policy   *)
(* evaluation", the timeout being the "Maximum wall-clock duration allowed *)
(* for one policy evaluation".  So an evaluation is interrupted for the    *)
(* time it took itself.                                                    *)
(***************************************************************************)
IsolatedDeadline ==
    [][\A e \in Evaluations :
          result[e] = "none" /\ result'[e] = "interrupted" => elapsed[e] = Timeout]_vars

=============================================================================
