--------------------------- MODULE CircuitBreaker ---------------------------
(***************************************************************************)
(* The per-agent circuit breaker of safegate-proxy/src/circuit_breaker.rs. *)
(*                                                                         *)
(* `states` is the map behind the mutex.  Both operations hold the mutex   *)
(* for their whole body and read Instant::now() inside it, so each is one  *)
(* action that sees the current clock.  An agent without a map entry       *)
(* behaves exactly as one with the entry AgentCircuitState::new(), so the  *)
(* model keeps an entry for every agent.                                   *)
(*                                                                         *)
(* Vec<Instant> is only ever filtered, pushed to, counted and cleared, so  *)
(* its order is irrelevant but repeated instants are not: it is the set of *)
(* the record_failure calls that pushed its elements, and at[c] is the     *)
(* instant that call c pushed.                                             *)
(***************************************************************************)
EXTENDS Integers, FiniteSets

CONSTANTS
    Agents,     \* agent_id values
    Calls,      \* identities of the calls of record_failure
    Threshold,  \* CircuitBreaker.threshold
    Window,     \* CircuitBreaker.window
    Cooldown,   \* CircuitBreaker.cooldown
    MaxTime     \* bound: the last instant the clock reaches

ASSUME ThresholdAssumption == Threshold \in Nat \ {0}
ASSUME WindowAssumption    == Window \in Nat
ASSUME CooldownAssumption  == Cooldown \in Nat
ASSUME MaxTimeAssumption   == MaxTime \in Nat

VARIABLES
    clock,      \* what Instant::now() returns
    states,     \* CircuitBreaker.states
    at,         \* the instant each call pushed, None if it pushed nothing
    pending,    \* the calls that have not been made yet
    counted,    \* history: the calls that ever pushed, by agent
    trips       \* history: every transition to Open, by agent

vars == <<clock, states, at, pending, counted, trips>>

Time == 0 .. MaxTime

\* Option::None; no instant is negative.
None == -1

AgentCircuitState == [failures : SUBSET Calls, opened_at : Time \cup {None}]

Trip == [at : Time, calls : SUBSET Calls]

\* AgentCircuitState::new(), and what an expired circuit is reset to.
Closed == [failures |-> {}, opened_at |-> None]

-----------------------------------------------------------------------------
\* Mutant of IsOpen: the cooldown is never compared.
IsOpenForever(st, now) == st.opened_at # None

\* The circuit is open and its cooldown has not run out at `now`.
IsOpen(st, now) == st.opened_at # None /\ now - st.opened_at < Cooldown

\* Mutant of Expire: the reset forgets failures.clear().
ExpireKeepsFailures(st, now) ==
    IF st.opened_at # None /\ ~IsOpen(st, now)
    THEN [st EXCEPT !.opened_at = None] ELSE st

\* The reset both operations make when they find the cooldown over.
Expire(st, now) ==
    IF st.opened_at # None /\ ~IsOpen(st, now) THEN Closed ELSE st

\* Mutant of Retained: the retain call is missing.
RetainedAll(st, c, now) == st.failures \cup {c}

\* Mutant of Retained: `<` for `<=` at the edge of the window.
RetainedStrict(st, c, now) ==
    {d \in st.failures : now - at[d] < Window} \cup {c}

\* failures.retain(..), then push(now) by call c.
Retained(st, c, now) ==
    {d \in st.failures : now - at[d] <= Window} \cup {c}

\* Mutant of CountFailure: `>` for `>=` at the threshold.
CountFailureLate(st, c, now) ==
    LET closed == Expire(st, now)
        kept   == Retained(closed, c, now)
    IN  [failures  |-> kept,
         opened_at |-> IF Cardinality(kept) > Threshold
                       THEN now ELSE closed.opened_at]

\* Mutant of CountFailure: the end of the quarantine is stored, not its start.
CountFailureUntil(st, c, now) ==
    LET closed == Expire(st, now)
        kept   == Retained(closed, c, now)
    IN  [failures  |-> kept,
         opened_at |-> IF Cardinality(kept) >= Threshold
                       THEN now + Cooldown ELSE closed.opened_at]

\* A denial that finds the circuit closed (or its cooldown over).
CountFailure(st, c, now) ==
    LET closed == Expire(st, now)
        kept   == Retained(closed, c, now)
    IN  [failures  |-> kept,
         opened_at |-> IF Cardinality(kept) >= Threshold
                       THEN now ELSE closed.opened_at]

-----------------------------------------------------------------------------
Init ==
    /\ clock = 0
    /\ states = [a \in Agents |-> Closed]
    /\ at = [c \in Calls |-> None]
    /\ pending = Calls
    /\ counted = [a \in Agents |-> {}]
    /\ trips = [a \in Agents |-> {}]

\* check(a): Err(CircuitOpen) while open; an expired circuit is closed again.
Check(a) ==
    /\ states' = [states EXCEPT ![a] = Expire(@, clock)]
    /\ UNCHANGED <<clock, at, pending, counted, trips>>

\* Mutant of IgnoreFailure: a denial during the quarantine restarts it.
RearmOnFailure(c, a) ==
    /\ c \in pending
    /\ IsOpen(states[a], clock)
    /\ pending' = pending \ {c}
    /\ states' = [states EXCEPT ![a].opened_at = clock]
    /\ UNCHANGED <<clock, at, counted, trips>>

\* record_failure(a) as call c, on an open circuit: the early return.
IgnoreFailure(c, a) ==
    /\ c \in pending
    /\ IsOpen(states[a], clock)
    /\ pending' = pending \ {c}
    /\ UNCHANGED <<clock, states, at, counted, trips>>

\* record_failure(a) as call c, on a closed or expired circuit.
RecordFailure(c, a) ==
    LET new == CountFailure(states[a], c, clock)
    IN  /\ c \in pending
        /\ ~IsOpen(states[a], clock)
        /\ pending' = pending \ {c}
        /\ states' = [states EXCEPT ![a] = new]
        /\ at' = [at EXCEPT ![c] = clock]
        /\ counted' = [counted EXCEPT ![a] = @ \cup {c}]
        /\ trips' = IF new.opened_at = None THEN trips
                    ELSE [trips EXCEPT ![a] =
                            @ \cup {[at |-> clock, calls |-> new.failures]}]
        /\ UNCHANGED clock

\* Time passes; instants are only compared, so one unit is any duration.
Tick ==
    /\ clock < MaxTime
    /\ clock' = clock + 1
    /\ UNCHANGED <<states, at, pending, counted, trips>>

Next ==
    \/ Tick
    \/ \E a \in Agents :
          \/ Check(a)
          \/ \E c \in Calls : IgnoreFailure(c, a) \/ RecordFailure(c, a)

\* The clock never stops: the only fairness this component needs.
Spec == Init /\ [][Next]_vars /\ WF_vars(Tick)

-----------------------------------------------------------------------------
TypeOK ==
    /\ clock \in Time
    /\ states \in [Agents -> AgentCircuitState]
    /\ at \in [Calls -> Time \cup {None}]
    /\ pending \in SUBSET Calls
    /\ counted \in [Agents -> SUBSET Calls]
    /\ trips \in [Agents -> SUBSET Trip]

\* The denials counted for agent a in the closed interval that ends at t.
CountedIn(a, t) == {c \in counted[a] : t - Window <= at[c] /\ at[c] <= t}

(***************************************************************************)
(* No premature quarantine: whenever the breaker opened, at least          *)
(* Threshold counted denials of that agent lay within Window of the        *)
(* opening instant (circuit_breaker.rs:118-124).                           *)
(***************************************************************************)
TripsJustified ==
    \A a \in Agents : \A p \in trips[a] :
        /\ Cardinality(p.calls) >= Threshold
        /\ p.calls \subseteq CountedIn(a, p.at)

(***************************************************************************)
(* No missed quarantine: every interval of length Window in which          *)
(* Threshold denials of an agent were counted, wherever it lies and        *)
(* whatever resets it spans, contains an opening of that agent's circuit.  *)
(***************************************************************************)
NoMissedTrip ==
    \A a \in Agents : \A t \in Time :
        Cardinality(CountedIn(a, t)) >= Threshold =>
            \E p \in trips[a] : t - Window <= p.at /\ p.at <= t

(***************************************************************************)
(* Quarantines are independent: two openings for one agent are a full      *)
(* cooldown apart and no denial counts towards both, because the reset     *)
(* clears the failures (circuit_breaker.rs:88-89, 113-114).                *)
(***************************************************************************)
TripsSeparate ==
    \A a \in Agents : \A p, q \in trips[a] :
        p # q => /\ p.at - q.at >= Cooldown \/ q.at - p.at >= Cooldown
                 /\ p.calls \cap q.calls = {}

(***************************************************************************)
(* The failure list cannot grow while an agent stays quarantined or under  *)
(* the threshold: it never holds more than Threshold instants.             *)
(***************************************************************************)
FailuresBounded ==
    \A a \in Agents : Cardinality(states[a].failures) <= Threshold

(***************************************************************************)
(* A running quarantine is neither lifted early nor extended by the        *)
(* denials and checks that fall into it (circuit_breaker.rs:109-111).      *)
(***************************************************************************)
QuarantineFixed ==
    [][\A a \in Agents : IsOpen(states[a], clock) =>
            states'[a] = states[a]]_vars

(***************************************************************************)
(* Quarantine ends: an open circuit, however many denials its agent keeps  *)
(* causing, reaches an instant at which check would let requests through   *)
(* (for openings whose cooldown fits below the clock's bound).             *)
(***************************************************************************)
QuarantineEnds ==
    \A a \in Agents :
        (states[a].opened_at # None /\ states[a].opened_at + Cooldown <= MaxTime)
            ~> ~IsOpen(states[a], clock)

=============================================================================
