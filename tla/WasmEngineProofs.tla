-------------------------- MODULE WasmEngineProofs --------------------------
(***************************************************************************)
(* Proofs about concurrent evaluations on one engine, for any number of    *)
(* evaluations, worker threads and any timeout: the epoch counts the       *)
(* timeouts that fired, and nothing else moves a deadline.                 *)
(***************************************************************************)
EXTENDS WasmEngine, FiniteSetTheorems, TLAPS

-----------------------------------------------------------------------------
(* The inductive invariant. *)

Running == {e \in Evaluations : OnWorker(e)}
Firing  == {e \in Evaluations : timer[e] = "firing"}
Fired   == {e \in Evaluations : timer[e] = "fired"}

\* The types, without the bounds that take counting.
BasicType ==
    /\ component \in {"none", "broken", "good"}
    /\ guest \in Behaviours
    /\ state \in [Evaluations -> {"idle", "instantiating", "calling", "awaiting",
                                  "returned", "done", "dropped"}]
    /\ result \in [Evaluations -> {"none", "decision", "error", "interrupted"}]
    /\ epoch \in Nat
    /\ deadline \in [Evaluations -> Nat]
    /\ timer \in [Evaluations -> {"none", "spawned", "sleeping", "firing", "fired",
                                  "aborted"}]
    /\ slept \in [Evaluations -> 0 .. Timeout]
    /\ elapsed \in [Evaluations -> 0 .. Timeout]

\* The epoch counts the timeouts that fired, each of them once.
EpochInv == epoch = Cardinality(Fired)

\* No more polls run than there are threads.
WorkersInv == Cardinality(Running) + Cardinality(Firing) <= Workers

\* A timeout task exists from the beginning of its evaluation; once
\* evaluate_policy has returned it is gone, or past its sleep.
TimerInv ==
    \A e \in Evaluations :
        /\ state[e] = "idle" => timer[e] = "none"
        /\ state[e] = "done" => timer[e] \notin {"spawned", "sleeping"}

\* No timeout task sleeps for longer than its evaluation has lasted.
SleepInv ==
    \A e \in Evaluations :
        /\ timer[e] # "sleeping" => slept[e] = 0
        /\ Live(e) => slept[e] <= elapsed[e]

EngineInv == BasicType /\ EpochInv /\ WorkersInv /\ TimerInv /\ SleepInv

-----------------------------------------------------------------------------
USE EvaluationsAssumption, EngineAssumption

\* Every set of evaluations can be counted.
LEMMA Counting ==
  ASSUME NEW S \in SUBSET Evaluations
  PROVE  /\ IsFiniteSet(S) /\ Cardinality(S) \in Nat
         /\ Cardinality(S) <= Cardinality(Evaluations)
         /\ \A T \in SUBSET S : Cardinality(T) <= Cardinality(S)
         /\ \A e \in Evaluations \ S : Cardinality(S \cup {e}) = Cardinality(S) + 1
<1>1. IsFiniteSet(S) /\ Cardinality(S) \in Nat
  BY FS_Subset, FS_CardinalityType
<1>2. Cardinality(S) <= Cardinality(Evaluations)
  BY FS_Subset
<1>3. \A T \in SUBSET S : Cardinality(T) <= Cardinality(S)
  BY <1>1, FS_Subset
<1>4. \A e \in Evaluations \ S : Cardinality(S \cup {e}) = Cardinality(S) + 1
  BY <1>1, FS_AddElement
<1> QED
  BY <1>1, <1>2, <1>3, <1>4

\* Every step keeps the engine's state well formed.
LEMMA BasicTypeStep == BasicType /\ [Next]_vars => BasicType'
<1> SUFFICES ASSUME BasicType, [Next]_vars PROVE BasicType'
  OBVIOUS
<1> USE DEF BasicType, Goto, fixed, calls, timers, EpochDeadlines, AbortTimer, DropStore
<1>1. CASE Tick
  BY <1>1 DEF Tick
<1>2. ASSUME NEW e \in Evaluations, NoComponent(e) PROVE BasicType'
  BY <1>2 DEF NoComponent
<1>3. ASSUME NEW e \in Evaluations, Begin(e) PROVE BasicType'
  BY <1>3 DEF Begin
<1>4. ASSUME NEW e \in Evaluations, InstantiateFails(e) PROVE BasicType'
  BY <1>4 DEF InstantiateFails
<1>5. ASSUME NEW e \in Evaluations, Instantiate(e) \/ Await(e) \/ Resume(e) PROVE BasicType'
  BY <1>5 DEF Instantiate, Await, Resume
<1>6. ASSUME NEW e \in Evaluations, Return(e) PROVE BasicType'
  BY <1>6 DEF Return
<1>7. ASSUME NEW e \in Evaluations, Finish(e) PROVE BasicType'
  BY <1>7 DEF Finish
<1>8. ASSUME NEW e \in Evaluations, Cancel(e) PROVE BasicType'
  BY <1>8 DEF Cancel
<1>9. ASSUME NEW e \in Evaluations, Sleep(e) PROVE BasicType'
  BY <1>9 DEF Sleep
<1>10. ASSUME NEW e \in Evaluations, Wake(e) \/ Fire(e) PROVE BasicType'
  BY <1>10 DEF Wake, Fire
<1>11. CASE UNCHANGED vars
  BY <1>11 DEF vars
<1> QED
  BY <1>1, <1>2, <1>3, <1>4, <1>5, <1>6, <1>7, <1>8, <1>9, <1>10, <1>11 DEF Next, Proceed

\* The epoch moves with the timeout tasks that complete, and only with them.
LEMMA EpochStep == BasicType /\ EpochInv /\ TimerInv /\ [Next]_vars => EpochInv'
<1> SUFFICES ASSUME BasicType, EpochInv, TimerInv, [Next]_vars PROVE EpochInv'
  OBVIOUS
<1> USE DEF BasicType, Goto, fixed, calls, timers, AbortTimer
<1>k. ASSUME epoch' = epoch,
             \A e \in Evaluations : timer'[e] = "fired" <=> timer[e] = "fired"
      PROVE  EpochInv'
  <2>1. Fired' = Fired
    BY <1>k DEF Fired
  <2> QED
    BY <1>k, <2>1 DEF EpochInv
<1>1. CASE Tick
  BY <1>1, <1>k DEF Tick
<1>2. ASSUME NEW e \in Evaluations, NoComponent(e) PROVE EpochInv'
  BY <1>2, <1>k DEF NoComponent
<1>3. ASSUME NEW e \in Evaluations, Begin(e) PROVE EpochInv'
  BY <1>3, <1>k DEF Begin, TimerInv
<1>4. ASSUME NEW e \in Evaluations, InstantiateFails(e) PROVE EpochInv'
  BY <1>4, <1>k DEF InstantiateFails
<1>5. ASSUME NEW e \in Evaluations, Instantiate(e) \/ Await(e) \/ Resume(e) PROVE EpochInv'
  BY <1>5, <1>k DEF Instantiate, Await, Resume
<1>6. ASSUME NEW e \in Evaluations, Return(e) \/ Cancel(e) PROVE EpochInv'
  BY <1>6, <1>k DEF Return, Cancel
<1>7. ASSUME NEW e \in Evaluations, Finish(e) PROVE EpochInv'
  BY <1>7, <1>k DEF Finish
<1>8. ASSUME NEW e \in Evaluations, Sleep(e) \/ Wake(e) PROVE EpochInv'
  BY <1>8, <1>k DEF Sleep, Wake
<1>9. ASSUME NEW e \in Evaluations, Fire(e) PROVE EpochInv'
  <2>1. e \notin Fired /\ Fired' = Fired \cup {e}
    BY <1>9 DEF Fire, Fired
  <2>2. Fired \in SUBSET Evaluations
    BY DEF Fired
  <2>3. Cardinality(Fired') = Cardinality(Fired) + 1
    BY <2>1, <2>2, Counting
  <2> QED
    BY <1>9, <2>3 DEF Fire, EpochDeadlines, EpochInv
<1>10. CASE UNCHANGED vars
  BY <1>10, <1>k DEF vars
<1> QED
  BY <1>1, <1>2, <1>3, <1>4, <1>5, <1>6, <1>7, <1>8, <1>9, <1>10 DEF Next, Proceed

\* A poll, of a request or of a timeout task, starts only on an idle worker.
LEMMA WorkersStep == BasicType /\ WorkersInv /\ TimerInv /\ [Next]_vars => WorkersInv'
<1> SUFFICES ASSUME BasicType, WorkersInv, TimerInv, [Next]_vars PROVE WorkersInv'
  OBVIOUS
<1> USE DEF BasicType, Goto, fixed, calls, timers, AbortTimer
<1>t. /\ Running \in SUBSET Evaluations /\ Running' \in SUBSET Evaluations
      /\ Firing \in SUBSET Evaluations /\ Firing' \in SUBSET Evaluations
  BY DEF Running, Firing
<1>c. /\ Cardinality(Running) \in Nat /\ Cardinality(Running') \in Nat
      /\ Cardinality(Firing) \in Nat /\ Cardinality(Firing') \in Nat
  BY <1>t, Counting
<1>k. ASSUME \A e \in Evaluations : OnWorker(e)' => OnWorker(e),
             \A e \in Evaluations : timer'[e] = "firing" => timer[e] = "firing"
      PROVE  WorkersInv'
  <2>1. Running' \subseteq Running /\ Firing' \subseteq Firing
    BY <1>k DEF Running, Firing
  <2>2. /\ Cardinality(Running') <= Cardinality(Running)
        /\ Cardinality(Firing') <= Cardinality(Firing)
    BY <1>t, <2>1, Counting
  <2> QED
    BY <1>c, <2>2 DEF WorkersInv
<1>i. IdleWorker => Cardinality(Running) + Cardinality(Firing) < Workers
  BY DEF IdleWorker, Busy, Running, Firing
<1>g. ASSUME NEW S \in SUBSET Evaluations, NEW T \in SUBSET Evaluations,
             NEW e \in Evaluations, T \subseteq S \cup {e}
      PROVE  Cardinality(T) <= Cardinality(S) + 1
  <2>1. CASE e \in S
    <3>1. T \in SUBSET S
      BY <1>g, <2>1
    <3>2. Cardinality(T) <= Cardinality(S) /\ Cardinality(S) \in Nat /\ Cardinality(T) \in Nat
      BY <3>1, Counting
    <3> QED
      BY <3>2
  <2>2. CASE e \notin S
    <3>1. S \cup {e} \in SUBSET Evaluations /\ Cardinality(S \cup {e}) = Cardinality(S) + 1
      BY <2>2, Counting
    <3>2. Cardinality(T) <= Cardinality(S \cup {e})
      BY <1>g, <3>1, Counting
    <3> QED
      BY <3>1, <3>2
  <2> QED
    BY <2>1, <2>2
<1>r. ASSUME NEW e \in Evaluations, IdleWorker, NEW s, state' = [state EXCEPT ![e] = s],
             \A f \in Evaluations : timer'[f] = "firing" => timer[f] = "firing"
      PROVE  WorkersInv'
  <2>1. Running' \subseteq Running \cup {e} /\ Firing' \subseteq Firing
    BY <1>r DEF Running, Firing, OnWorker
  <2>2. Cardinality(Running') <= Cardinality(Running) + 1
    BY <1>t, <1>g, <2>1
  <2>3. Cardinality(Firing') <= Cardinality(Firing)
    BY <1>t, <2>1, Counting
  <2> QED
    BY <1>c, <1>i, <1>r, <2>2, <2>3 DEF WorkersInv
<1>1. CASE Tick
  BY <1>1, <1>k DEF Tick, OnWorker
<1>2. ASSUME NEW e \in Evaluations, NoComponent(e) \/ Begin(e) \/ Resume(e) PROVE WorkersInv'
  <2>1. \A f \in Evaluations : timer'[f] = "firing" => timer[f] = "firing"
    BY <1>2 DEF NoComponent, Begin, Resume
  <2> QED
    BY <1>2, <1>r, <2>1 DEF NoComponent, Begin, Resume
<1>3. ASSUME NEW e \in Evaluations, InstantiateFails(e) \/ Instantiate(e) \/ Await(e)
      PROVE  WorkersInv'
  BY <1>3, <1>k DEF InstantiateFails, Instantiate, Await, OnWorker
<1>4. ASSUME NEW e \in Evaluations, Return(e) \/ Finish(e) \/ Cancel(e) PROVE WorkersInv'
  BY <1>4, <1>k DEF Return, Finish, Cancel, OnWorker
<1>5. ASSUME NEW e \in Evaluations, Sleep(e) \/ Fire(e) PROVE WorkersInv'
  BY <1>5, <1>k DEF Sleep, Fire, OnWorker
<1>6. ASSUME NEW e \in Evaluations, Wake(e) PROVE WorkersInv'
  <2>1. Running' = Running /\ Firing' \subseteq Firing \cup {e} /\ IdleWorker
    BY <1>6 DEF Wake, Running, Firing, OnWorker
  <2>2. Cardinality(Firing') <= Cardinality(Firing) + 1
    BY <1>t, <1>g, <2>1
  <2> QED
    BY <1>c, <1>i, <2>1, <2>2 DEF WorkersInv
<1>7. CASE UNCHANGED vars
  BY <1>7, <1>k DEF vars, OnWorker
<1> QED
  BY <1>1, <1>2, <1>3, <1>4, <1>5, <1>6, <1>7 DEF Next, Proceed

\* Every way out of evaluate_policy but the dropped future aborts the task.
LEMMA TimerStep == BasicType /\ TimerInv /\ [Next]_vars => TimerInv'
<1> SUFFICES ASSUME BasicType, TimerInv, [Next]_vars PROVE TimerInv'
  OBVIOUS
<1> USE DEF BasicType, TimerInv, Goto, fixed, calls, timers, AbortTimer
<1>1. CASE Tick
  BY <1>1 DEF Tick
<1>2. ASSUME NEW e \in Evaluations, NoComponent(e) \/ Begin(e) PROVE TimerInv'
  BY <1>2 DEF NoComponent, Begin
<1>3. ASSUME NEW e \in Evaluations, InstantiateFails(e) PROVE TimerInv'
  BY <1>3 DEF InstantiateFails
<1>4. ASSUME NEW e \in Evaluations, Instantiate(e) \/ Await(e) \/ Resume(e) PROVE TimerInv'
  BY <1>4 DEF Instantiate, Await, Resume
<1>5. ASSUME NEW e \in Evaluations, Return(e) \/ Cancel(e) PROVE TimerInv'
  BY <1>5 DEF Return, Cancel
<1>6. ASSUME NEW e \in Evaluations, Finish(e) PROVE TimerInv'
  BY <1>6 DEF Finish
<1>7. ASSUME NEW e \in Evaluations, Sleep(e) \/ Wake(e) \/ Fire(e) PROVE TimerInv'
  BY <1>7 DEF Sleep, Wake, Fire
<1>8. CASE UNCHANGED vars
  BY <1>8 DEF vars
<1> QED
  BY <1>1, <1>2, <1>3, <1>4, <1>5, <1>6, <1>7, <1>8 DEF Next, Proceed

\* The sleep begins after the evaluation and time passes for both alike.
LEMMA SleepStep == BasicType /\ SleepInv /\ TimerInv /\ [Next]_vars => SleepInv'
<1> SUFFICES ASSUME BasicType, SleepInv, TimerInv, [Next]_vars PROVE SleepInv'
  OBVIOUS
<1> USE DEF BasicType, SleepInv, TimerInv, Live, OnWorker, Goto, fixed, calls, timers,
            AbortTimer, DropStore
<1>1. CASE Tick
  BY <1>1 DEF Tick
<1>2. ASSUME NEW e \in Evaluations, NoComponent(e) \/ Begin(e) PROVE SleepInv'
  BY <1>2 DEF NoComponent, Begin
<1>3. ASSUME NEW e \in Evaluations, InstantiateFails(e) PROVE SleepInv'
  BY <1>3 DEF InstantiateFails
<1>4. ASSUME NEW e \in Evaluations, Instantiate(e) \/ Await(e) \/ Resume(e) PROVE SleepInv'
  BY <1>4 DEF Instantiate, Await, Resume
<1>5. ASSUME NEW e \in Evaluations, Return(e) \/ Cancel(e) PROVE SleepInv'
  BY <1>5 DEF Return, Cancel
<1>6. ASSUME NEW e \in Evaluations, Finish(e) PROVE SleepInv'
  BY <1>6 DEF Finish
<1>7. ASSUME NEW e \in Evaluations, Sleep(e) \/ Wake(e) \/ Fire(e) PROVE SleepInv'
  BY <1>7 DEF Sleep, Wake, Fire
<1>8. CASE UNCHANGED vars
  BY <1>8 DEF vars
<1> QED
  BY <1>1, <1>2, <1>3, <1>4, <1>5, <1>6, <1>7, <1>8 DEF Next, Proceed

\* The engine as it starts.
LEMMA EngineInit == Init => EngineInv
<1> SUFFICES ASSUME Init PROVE EngineInv
  OBVIOUS
<1>1. BasicType /\ TimerInv /\ SleepInv
  BY DEF Init, BasicType, TimerInv, SleepInv
<1>2. Fired = {} /\ Running = {} /\ Firing = {}
  BY DEF Init, Fired, Running, Firing, OnWorker
<1>3. Cardinality({}) = 0
  BY FS_EmptySet
<1> QED
  BY <1>1, <1>2, <1>3 DEF Init, EngineInv, EpochInv, WorkersInv

\* In every reachable state the engine satisfies its invariant.
LEMMA EngineInductive == Spec => []EngineInv
<1>1. EngineInv /\ [Next]_vars => EngineInv'
  BY BasicTypeStep, EpochStep, WorkersStep, TimerStep, SleepStep DEF EngineInv
<1> QED
  BY <1>1, EngineInit, PTL DEF Spec

-----------------------------------------------------------------------------
(***************************************************************************)
(* Type correctness, with its two bounds: the epoch advances at most once  *)
(* per evaluation, and no more polls run at a time than there are threads. *)
(***************************************************************************)
THEOREM EngineTypeCorrect == Spec => []TypeOK
<1>1. EngineInv => TypeOK
  <2> SUFFICES ASSUME EngineInv PROVE TypeOK
    OBVIOUS
  <2>1. Fired \in SUBSET Evaluations /\ Evaluations \in SUBSET Evaluations
    BY DEF Fired
  <2>2. epoch \in 0 .. EpochDeadlines * Cardinality(Evaluations)
    BY <2>1, Counting DEF EngineInv, EpochInv, EpochDeadlines
  <2> QED
    BY <2>2 DEF EngineInv, BasicType, WorkersInv, Running, Firing, Busy, TypeOK
<1> QED
  BY <1>1, EngineInductive, PTL

(***************************************************************************)
(* No interruption without cause: the deadline of an evaluation passes     *)
(* only as a timeout task advances the epoch, and no such task wakes early *)
(* or after its evaluation returned: abort() reaches it while it sleeps.   *)
(***************************************************************************)
THEOREM InterruptsHaveCause == Spec => InterruptsExplained
<1>1. EngineInv /\ [Next]_vars =>
        [\A e \in Evaluations :
            /\ Live(e)' /\ Expired(e)' =>
                  (Live(e) /\ Expired(e)) \/ \E f \in Evaluations : Fire(f)
            /\ Wake(e) =>
                  (Live(e) /\ elapsed[e] = Timeout) \/ state[e] = "dropped"]_vars
  <2> SUFFICES ASSUME EngineInv, [Next]_vars, NEW e \in Evaluations
               PROVE  /\ Live(e)' /\ Expired(e)' =>
                            (Live(e) /\ Expired(e)) \/ \E f \in Evaluations : Fire(f)
                      /\ Wake(e) =>
                            (Live(e) /\ elapsed[e] = Timeout) \/ state[e] = "dropped"
    OBVIOUS
  <2> USE DEF Goto, fixed, calls, timers, DropStore, Live, OnWorker, Expired
  <2>t. BasicType /\ TimerInv /\ SleepInv
    BY DEF EngineInv
  <2>w. ASSUME Wake(e) PROVE (Live(e) /\ elapsed[e] = Timeout) \/ state[e] = "dropped"
    <3>1. timer[e] = "sleeping" /\ slept[e] = Timeout
      BY <2>w DEF Wake
    <3>2. Live(e) \/ state[e] = "dropped"
      BY <2>t, <3>1 DEF BasicType, TimerInv
    <3>3. Live(e) => elapsed[e] = Timeout
      BY <2>t, <3>1 DEF BasicType, SleepInv
    <3> QED
      BY <3>2, <3>3
  <2>i. ASSUME Live(e)', Expired(e)', ~(Live(e) /\ Expired(e))
        PROVE  \E f \in Evaluations : Fire(f)
    <3> USE <2>i
    <3>2. ASSUME NEW f \in Evaluations, Begin(f) PROVE FALSE
      BY <3>2, <2>t DEF Begin, BasicType, EpochDeadlines
    <3>3. CASE Tick \/ UNCHANGED vars
      BY <3>3 DEF Tick, vars
    <3>4. ASSUME NEW f \in Evaluations,
                 NoComponent(f) \/ InstantiateFails(f) \/ Instantiate(f)
          PROVE  FALSE
      BY <3>4, <2>t DEF NoComponent, InstantiateFails, Instantiate, BasicType
    <3>5. ASSUME NEW f \in Evaluations, Await(f) \/ Resume(f) \/ Return(f) PROVE FALSE
      BY <3>5, <2>t DEF Await, Resume, Return, BasicType
    <3>6. ASSUME NEW f \in Evaluations, Finish(f) \/ Cancel(f) \/ Sleep(f) \/ Wake(f)
          PROVE  FALSE
      BY <3>6, <2>t DEF Finish, Cancel, Sleep, Wake, BasicType
    <3> QED
      BY <3>2, <3>3, <3>4, <3>5, <3>6 DEF Next, Proceed
  <2> QED
    BY <2>w, <2>i
<1> QED
  BY <1>1, EngineInductive, PTL DEF Spec, InterruptsExplained

=============================================================================
