------------------------ MODULE CircuitBreakerProofs ------------------------
(***************************************************************************)
(* Proofs that the circuit breaker quarantines exactly when it should, for *)
(* every threshold, window, cooldown, set of agents and number of calls.   *)
(***************************************************************************)
EXTENDS CircuitBreaker, FiniteSetTheorems, TLAPS

-----------------------------------------------------------------------------
(* The inductive invariant, per agent, in four parts. *)

\* The failure list: finite, counted, in the past and below the threshold.
ListInv(a) ==
    /\ IsFiniteSet(states[a].failures)
    /\ states[a].failures \subseteq counted[a]
    /\ \A c \in counted[a] : c \notin pending /\ at[c] \in Time /\ at[c] <= clock
    /\ Cardinality(states[a].failures) <= Threshold
    /\ states[a].opened_at = None => Cardinality(states[a].failures) < Threshold

\* The opening that is in force, as it is recorded in the history.
Current(a) == [at |-> states[a].opened_at, calls |-> states[a].failures]

\* A past opening: a cooldown before `now`, none of its denials still listed.
Past(p, now, failures) == p.at + Cooldown <= now /\ p.calls \cap failures = {}

\* The history of openings agrees with the state.
TripInv(a) ==
    /\ \A p \in trips[a] : p.at <= clock
    /\ states[a].opened_at # None => Current(a) \in trips[a]
    /\ states[a].opened_at # None =>
          \A p \in trips[a] :
              p = Current(a) \/ Past(p, states[a].opened_at, states[a].failures)
    /\ states[a].opened_at = None =>
          \A p \in trips[a] : Past(p, clock, states[a].failures)

\* A counted denial leaves the list only by ageing or by a reset after a trip.
CoverInv(a) ==
    \A c \in counted[a] :
        \/ c \in states[a].failures
        \/ \E p \in trips[a] : at[c] <= p.at
        \/ clock - at[c] > Window

JustifiedInv(a) ==
    \A p \in trips[a] :
        /\ Cardinality(p.calls) >= Threshold
        /\ p.calls \subseteq CountedIn(a, p.at)

SeparateInv(a) ==
    \A p, q \in trips[a] :
        p # q => /\ p.at - q.at >= Cooldown \/ q.at - p.at >= Cooldown
                 /\ p.calls \cap q.calls = {}

MissedInv(a) ==
    \A t \in Time :
        Cardinality(CountedIn(a, t)) >= Threshold =>
            \E p \in trips[a] : t - Window <= p.at /\ p.at <= t

AgentInv(a) ==
    /\ ListInv(a)
    /\ TripInv(a)
    /\ CoverInv(a)
    /\ JustifiedInv(a)
    /\ SeparateInv(a)
    /\ MissedInv(a)

AgentsInv == \A a \in Agents : AgentInv(a)

IndInv == TypeOK /\ AgentsInv

-----------------------------------------------------------------------------
USE ThresholdAssumption, WindowAssumption, CooldownAssumption, MaxTimeAssumption

\* An instant is a natural number, and None is not one.
LEMMA TimeFacts == Time \subseteq Nat /\ None \notin Time
  BY DEF Time, None

\* The reset yields a well-typed state, whichever branch it takes.
LEMMA ExpireType ==
  ASSUME NEW st \in AgentCircuitState, NEW now
  PROVE  Expire(st, now) \in AgentCircuitState
  BY DEF Expire, Closed, AgentCircuitState, None

\* Counting a denial yields a well-typed state with an instant or None in it.
LEMMA CountFailureType ==
  ASSUME NEW st \in AgentCircuitState, NEW c \in Calls, NEW now \in Time
  PROVE  CountFailure(st, c, now) \in AgentCircuitState
<1>1. Expire(st, now) \in AgentCircuitState
  BY ExpireType
<1>2. Retained(Expire(st, now), c, now) \in SUBSET Calls
  BY <1>1 DEF Retained, AgentCircuitState
<1>3. QED
  BY <1>1, <1>2 DEF CountFailure, AgentCircuitState

\* The initial map and instants are well formed.
LEMMA TypeInit == Init => TypeOK
  BY DEF Init, TypeOK, Time, Closed, AgentCircuitState, None

\* Every operation of the breaker keeps its map and its instants well formed.
LEMMA TypeStep == TypeOK /\ [Next]_vars => TypeOK'
<1> SUFFICES ASSUME TypeOK, [Next]_vars PROVE TypeOK'
  OBVIOUS
<1> USE DEF TypeOK
<1>1. CASE Tick
  BY <1>1 DEF Tick, Time
<1>2. ASSUME NEW a \in Agents, Check(a) PROVE TypeOK'
  BY <1>2, ExpireType DEF Check
<1>3. ASSUME NEW a \in Agents, NEW c \in Calls, IgnoreFailure(c, a) PROVE TypeOK'
  BY <1>3 DEF IgnoreFailure
<1>4. ASSUME NEW a \in Agents, NEW c \in Calls, RecordFailure(c, a) PROVE TypeOK'
  <2> DEFINE new == CountFailure(states[a], c, clock)
  <2>1. new \in AgentCircuitState
    BY CountFailureType
  <2>2. new.failures \in SUBSET Calls
    BY <2>1 DEF AgentCircuitState
  <2>3. [at |-> clock, calls |-> new.failures] \in Trip
    BY <2>2 DEF Trip
  <2>4. trips' \in [Agents -> SUBSET Trip]
    BY <1>4, <2>3 DEF RecordFailure
  <2> QED
    BY <1>4, <2>1, <2>4 DEF RecordFailure
<1>5. CASE UNCHANGED vars
  BY <1>5 DEF vars
<1> QED
  BY <1>1, <1>2, <1>3, <1>4, <1>5 DEF Next

(***************************************************************************)
(* Type correctness: every operation of the breaker keeps its map and its  *)
(* instants well formed.                                                   *)
(***************************************************************************)
THEOREM TypeCorrect == Spec => []TypeOK
  BY TypeInit, TypeStep, PTL DEF Spec

-----------------------------------------------------------------------------
(* What the operations find once the reset has been made. *)

\* A closed circuit that agrees with the histories of agent a.
Fresh(st, a) ==
    /\ st.opened_at = None
    /\ IsFiniteSet(st.failures)
    /\ st.failures \subseteq counted[a]
    /\ Cardinality(st.failures) < Threshold
    /\ \A p \in trips[a] : Past(p, clock, st.failures)
    /\ \A c \in counted[a] :
          \/ c \in st.failures
          \/ \E p \in trips[a] : at[c] <= p.at
          \/ clock - at[c] > Window

\* A circuit that is not open at `clock` is fresh after the reset.
LEMMA ExpireFresh ==
  ASSUME IndInv, NEW a \in Agents, ~IsOpen(states[a], clock)
  PROVE  Fresh(Expire(states[a], clock), a)
<1> DEFINE st == states[a]
<1>0. /\ st \in AgentCircuitState /\ clock \in Time /\ trips[a] \in SUBSET Trip
      /\ counted[a] \in SUBSET Calls /\ at \in [Calls -> Time \cup {None}]
      /\ AgentInv(a)
  BY DEF IndInv, AgentsInv, TypeOK
<1>1. CASE st.opened_at = None
  <2>1. Expire(st, clock) = st
    BY <1>1 DEF Expire
  <2> QED
    BY <1>0, <1>1, <2>1 DEF Fresh, AgentInv, ListInv, TripInv, CoverInv
<1>2. CASE st.opened_at # None
  <2>1. Expire(st, clock) = Closed
    BY <1>2 DEF Expire
  <2>2. IsFiniteSet({}) /\ Cardinality({}) = 0
    BY FS_EmptySet
  <2>3. Closed.failures = {} /\ Closed.opened_at = None
    BY DEF Closed
  <2>4. st.opened_at \in Time /\ st.opened_at + Cooldown <= clock
    BY <1>0, <1>2 DEF IsOpen, AgentCircuitState, Time, None
  <2>5. ASSUME NEW p \in trips[a] PROVE Past(p, clock, {})
    <3>1. p = Current(a) \/ p.at + Cooldown <= st.opened_at
      BY <1>0, <1>2 DEF AgentInv, TripInv, Past
    <3>2. p.at \in Time
      BY <1>0 DEF Trip
    <3>3. p = Current(a) => p.at = st.opened_at
      BY DEF Current
    <3> QED
      BY <3>1, <3>2, <3>3, <2>4, <1>0 DEF Past, Time
  <2>6. ASSUME NEW c \in counted[a]
        PROVE  (\E p \in trips[a] : at[c] <= p.at) \/ clock - at[c] > Window
    <3>1. CASE c \in st.failures
      <4>1. Current(a) \in trips[a] /\ Current(a).at = st.opened_at
            /\ Current(a).calls = st.failures
        BY <1>0, <1>2 DEF AgentInv, TripInv, Current
      <4>2. c \in CountedIn(a, Current(a).at)
        BY <1>0, <4>1, <3>1 DEF AgentInv, JustifiedInv
      <4> QED
        BY <4>1, <4>2 DEF CountedIn
    <3>2. CASE c \notin st.failures
      BY <1>0, <3>2 DEF AgentInv, CoverInv
    <3> QED
      BY <3>1, <3>2
  <2> QED
    BY <2>1, <2>2, <2>3, <2>5, <2>6 DEF Fresh
<1> QED
  BY <1>1, <1>2

-----------------------------------------------------------------------------
(* The invariant is inductive. *)

\* A step that leaves agent b's circuit, histories and instants alone.
LEMMA Untouched ==
  ASSUME NEW b \in Agents, AgentInv(b),
         clock' = clock, states'[b] = states[b], trips'[b] = trips[b],
         counted'[b] = counted[b], pending' \subseteq pending,
         \A c \in counted[b] : at'[c] = at[c]
  PROVE  AgentInv(b)'
<1>1. \A t : CountedIn(b, t)' = CountedIn(b, t)
  BY DEF CountedIn
<1>2. ListInv(b)'
  BY DEF AgentInv, ListInv
<1>3. TripInv(b)'
  BY DEF AgentInv, TripInv, Current
<1>4. CoverInv(b)'
  BY DEF AgentInv, CoverInv
<1>5. JustifiedInv(b)' /\ SeparateInv(b)' /\ MissedInv(b)'
  BY <1>1 DEF AgentInv, JustifiedInv, SeparateInv, MissedInv
<1> QED
  BY <1>2, <1>3, <1>4, <1>5 DEF AgentInv

\* Time only makes instants older.
LEMMA TickStep ==
  ASSUME IndInv, Tick, NEW b \in Agents
  PROVE  AgentInv(b)'
<1>0. /\ clock \in Time /\ clock' \in Time /\ clock' = clock + 1
      /\ at \in [Calls -> Time \cup {None}] /\ counted[b] \in SUBSET Calls
      /\ trips[b] \in SUBSET Trip
      /\ UNCHANGED <<states, at, pending, counted, trips>>
      /\ AgentInv(b)
  BY DEF IndInv, AgentsInv, TypeOK, Tick, Time
<1>1. \A t : CountedIn(b, t)' = CountedIn(b, t)
  BY <1>0 DEF CountedIn
<1>2. ListInv(b)'
  BY <1>0 DEF AgentInv, ListInv, Time
<1>3. TripInv(b)'
  <2>1. \A p \in trips[b] : p.at \in Time
    BY <1>0 DEF Trip
  <2> QED
    BY <1>0, <2>1 DEF AgentInv, TripInv, Current, Past, Time
<1>4. CoverInv(b)'
  <2>1. \A c \in counted[b] : at[c] \in Time
    BY <1>0 DEF AgentInv, ListInv
  <2> QED
    BY <1>0, <2>1 DEF AgentInv, CoverInv, Time
<1>5. JustifiedInv(b)' /\ SeparateInv(b)' /\ MissedInv(b)'
  BY <1>0, <1>1 DEF AgentInv, JustifiedInv, SeparateInv, MissedInv
<1> QED
  BY <1>2, <1>3, <1>4, <1>5 DEF AgentInv

\* check closes an expired circuit and changes nothing else.
LEMMA CheckStep ==
  ASSUME IndInv, NEW a \in Agents, Check(a), NEW b \in Agents
  PROVE  AgentInv(b)'
<1>0. /\ states' = [states EXCEPT ![a] = Expire(states[a], clock)]
      /\ UNCHANGED <<clock, at, pending, counted, trips>>
      /\ states \in [Agents -> AgentCircuitState]
      /\ AgentInv(b)
  BY DEF IndInv, AgentsInv, TypeOK, Check
<1>1. CASE b # a \/ IsOpen(states[a], clock)
  <2>1. states'[b] = states[b]
    BY <1>0, <1>1 DEF Expire
  <2> QED
    BY <1>0, <2>1, Untouched
<1>2. CASE b = a /\ ~IsOpen(states[a], clock)
  <2> DEFINE st == Expire(states[a], clock)
  <2>1. states'[b] = st /\ Fresh(st, b)
    BY <1>0, <1>2, ExpireFresh
  <2> HIDE DEF st
  <2>2. \A t : CountedIn(b, t)' = CountedIn(b, t)
    BY <1>0 DEF CountedIn
  <2>3. ListInv(b)'
    <3>1. Cardinality(st.failures) \in Nat
      BY <2>1, FS_CardinalityType DEF Fresh
    <3> QED
      BY <1>0, <2>1, <3>1 DEF AgentInv, ListInv, Fresh
  <2>4. TripInv(b)'
    BY <1>0, <2>1 DEF AgentInv, TripInv, Fresh
  <2>5. CoverInv(b)'
    BY <1>0, <2>1 DEF CoverInv, Fresh
  <2>6. JustifiedInv(b)' /\ SeparateInv(b)' /\ MissedInv(b)'
    BY <1>0, <2>2 DEF AgentInv, JustifiedInv, SeparateInv, MissedInv
  <2> QED
    BY <2>3, <2>4, <2>5, <2>6 DEF AgentInv
<1> QED
  BY <1>1, <1>2

\* A denial on a closed or expired circuit: the step that counts and opens.
LEMMA RecordStep ==
  ASSUME IndInv, NEW a \in Agents, NEW c \in Calls, RecordFailure(c, a),
         NEW b \in Agents
  PROVE  AgentInv(b)'
<1> DEFINE closed == Expire(states[a], clock)
           kept   == Retained(closed, c, clock)
           new    == CountFailure(states[a], c, clock)
           trip   == [at |-> clock, calls |-> kept]
<1>0. /\ clock \in Time /\ at \in [Calls -> Time \cup {None}]
      /\ states \in [Agents -> AgentCircuitState]
      /\ counted \in [Agents -> SUBSET Calls] /\ trips \in [Agents -> SUBSET Trip]
      /\ AgentInv(a) /\ AgentInv(b)
  BY DEF IndInv, AgentsInv, TypeOK
<1>1. /\ c \in pending /\ pending' = pending \ {c} /\ clock' = clock
      /\ states' = [states EXCEPT ![a] = new]
      /\ at' = [at EXCEPT ![c] = clock]
      /\ counted' = [counted EXCEPT ![a] = @ \cup {c}]
      /\ trips' = IF new.opened_at = None THEN trips
                  ELSE [trips EXCEPT ![a] =
                          @ \cup {[at |-> clock, calls |-> new.failures]}]
      /\ ~IsOpen(states[a], clock)
  BY DEF RecordFailure
<1>2. \A d \in counted[b] : d # c /\ at'[d] = at[d]
  BY <1>0, <1>1 DEF AgentInv, ListInv
<1>3. CASE b # a
  <2>1. /\ states'[b] = states[b] /\ counted'[b] = counted[b]
        /\ trips'[b] = trips[b] /\ pending' \subseteq pending
    BY <1>0, <1>1, <1>3
  <2> QED
    BY <1>0, <1>1, <1>2, <2>1, Untouched
<1>4. CASE b = a
  <2>1. Fresh(closed, a)
    BY <1>1, ExpireFresh
  <2>2. /\ kept = {d \in closed.failures : clock - at[d] <= Window} \cup {c}
        /\ new = [failures |-> kept,
                  opened_at |-> IF Cardinality(kept) >= Threshold
                                THEN clock ELSE None]
    BY <2>1 DEF Retained, CountFailure, Fresh
  <2>3. states'[a] = new /\ counted'[a] = counted[a] \cup {c} /\ at'[c] = clock
    BY <1>0, <1>1
  <2>4. /\ new.failures = kept
        /\ new.opened_at = IF Cardinality(kept) >= Threshold THEN clock ELSE None
    BY <2>2
  <2>5. trips'[a] = IF Cardinality(kept) >= Threshold
                    THEN trips[a] \cup {trip} ELSE trips[a]
    BY <1>0, <1>1, <2>4 DEF None, Time
  <2>6. \A d \in counted[a] : d # c /\ at'[d] = at[d] /\ at[d] \in Time /\ at[d] <= clock
    BY <1>0, <1>2, <1>4 DEF AgentInv, ListInv
  <2>7. \A p \in trips[a] : p.at \in Time /\ p.at <= clock
                            /\ p.at + Cooldown <= clock /\ p.calls \subseteq counted[a]
    <3>1. \A p \in trips[a] : p.at \in Time
      BY <1>0 DEF Trip
    <3>2. \A p \in trips[a] : p.at <= clock
      BY <1>0, <1>4 DEF AgentInv, TripInv
    <3>3. \A p \in trips[a] : p.at + Cooldown <= clock
      BY <2>1 DEF Fresh, Past
    <3>4. \A p \in trips[a] : p.calls \subseteq counted[a]
      BY <1>0 DEF AgentInv, JustifiedInv, CountedIn
    <3> QED
      BY <3>1, <3>2, <3>3, <3>4
  <2>8. /\ IsFiniteSet(kept) /\ Cardinality(kept) \in Nat
        /\ Cardinality(kept) <= Threshold
    <3> DEFINE young == {d \in closed.failures : clock - at[d] <= Window}
    <3>1. IsFiniteSet(closed.failures) /\ Cardinality(closed.failures) < Threshold
      BY <2>1 DEF Fresh
    <3>2. IsFiniteSet(young) /\ Cardinality(young) <= Cardinality(closed.failures)
      BY <3>1, FS_Subset
    <3>3. /\ Cardinality(young) \in Nat /\ Cardinality(closed.failures) \in Nat
      BY <3>1, <3>2, FS_CardinalityType
    <3>4. /\ IsFiniteSet(young \cup {c})
          /\ Cardinality(young \cup {c}) \in {Cardinality(young), Cardinality(young) + 1}
      BY <3>2, FS_AddElement
    <3> QED
      BY <2>2, <3>1, <3>2, <3>3, <3>4
  <2>9. /\ kept \subseteq counted[a] \cup {c}
        /\ \A d \in kept : d \in closed.failures \/ d = c
        /\ \A d \in kept : clock - at'[d] <= Window /\ at'[d] <= clock
    <3>1. closed.failures \subseteq counted[a]
      BY <2>1 DEF Fresh
    <3> QED
      BY <1>0, <2>2, <2>3, <2>6, <3>1 DEF Time
  <2>10. \A p \in trips[a] : p.calls \cap kept = {}
    <3>1. \A p \in trips[a] : p.calls \cap closed.failures = {}
      BY <2>1 DEF Fresh, Past
    <3> QED
      BY <2>6, <2>7, <2>9, <3>1
  <2>11. ASSUME NEW t PROVE CountedIn(a, t)' = CountedIn(a, t) \cup
               (IF t - Window <= clock /\ clock <= t THEN {c} ELSE {})
    BY <2>3, <2>6 DEF CountedIn
  <2> HIDE DEF closed, kept, new
  <2>12. ListInv(a)'
    BY <1>0, <1>1, <2>3, <2>4, <2>6, <2>8, <2>9 DEF AgentInv, ListInv, Time, None
  <2>13. TripInv(a)'
    <3>1. CASE Cardinality(kept) >= Threshold
      <4>1. /\ states'[a].opened_at = clock /\ states'[a].failures = kept
            /\ trips'[a] = trips[a] \cup {trip} /\ clock # None
        BY <1>0, <2>3, <2>4, <2>5, <3>1 DEF Time, None
      <4>2. Current(a)' = trip
        BY <4>1 DEF Current
      <4> QED
        BY <1>0, <1>1, <4>1, <4>2, <2>7, <2>10 DEF TripInv, Past, Time
    <3>2. CASE ~(Cardinality(kept) >= Threshold)
      <4>1. /\ states'[a].opened_at = None /\ states'[a].failures = kept
            /\ trips'[a] = trips[a]
        BY <2>3, <2>4, <2>5, <3>2
      <4> QED
        BY <1>1, <4>1, <2>7, <2>10 DEF TripInv, Past
    <3> QED
      BY <3>1, <3>2
  <2>14. CoverInv(a)'
    <3> SUFFICES ASSUME NEW d \in counted'[a]
                 PROVE  \/ d \in states'[a].failures
                        \/ \E p \in trips'[a] : at'[d] <= p.at
                        \/ clock' - at'[d] > Window
      BY DEF CoverInv
    <3>1. CASE d = c
      BY <2>2, <2>3, <2>4, <3>1
    <3>2. CASE d \in counted[a]
      <4>1. at'[d] = at[d] /\ trips[a] \subseteq trips'[a] /\ at[d] \in Time
        BY <2>5, <2>6, <3>2
      <4>2. \/ d \in closed.failures
            \/ \E p \in trips[a] : at[d] <= p.at
            \/ clock - at[d] > Window
        BY <2>1, <3>2 DEF Fresh
      <4>3. CASE d \in closed.failures
        <5>1. d \in kept \/ clock - at[d] > Window
          BY <1>0, <2>2, <4>1, <4>3 DEF Time
        <5> QED
          BY <1>1, <2>3, <2>4, <4>1, <5>1
      <4> QED
        BY <1>1, <4>1, <4>2, <4>3
    <3> QED
      BY <2>3, <3>1, <3>2
  <2>15. JustifiedInv(a)'
    <3>1. ASSUME NEW p \in trips[a]
          PROVE  Cardinality(p.calls) >= Threshold /\ p.calls \subseteq CountedIn(a, p.at)'
      <4>1. CountedIn(a, p.at) \subseteq CountedIn(a, p.at)'
        BY <2>3, <2>6 DEF CountedIn
      <4> QED
        BY <1>0, <4>1 DEF AgentInv, JustifiedInv
    <3>2. kept \subseteq CountedIn(a, clock)'
      BY <1>0, <1>1, <2>3, <2>6, <2>9 DEF CountedIn, Time
    <3>3. trip.at = clock /\ trip.calls = kept
      OBVIOUS
    <3> HIDE DEF trip
    <3>4. ASSUME NEW p \in trips'[a]
          PROVE  Cardinality(p.calls) >= Threshold /\ p.calls \subseteq CountedIn(a, p.at)'
      <4>1. CASE p \in trips[a]
        BY <3>1, <4>1
      <4>2. CASE p = trip /\ Cardinality(kept) >= Threshold
        BY <1>1, <3>2, <3>3, <4>2 DEF CountedIn
      <4> QED
        BY <2>5, <4>1, <4>2
    <3> QED
      BY <3>4 DEF JustifiedInv, CountedIn
  <2>16. SeparateInv(a)'
    <3>1. trip.at = clock /\ trip.calls = kept
      OBVIOUS
    <3> HIDE DEF trip
    <3>2. SeparateInv(a)
      BY <1>0 DEF AgentInv
    <3>3. \A p \in trips[a] : trip.at - p.at >= Cooldown /\ p.calls \cap trip.calls = {}
                              /\ trip.calls \cap p.calls = {}
      BY <1>0, <2>7, <2>10, <3>1 DEF Time
    <3> QED
      BY <2>5, <3>2, <3>3 DEF SeparateInv
  <2>17. MissedInv(a)'
    <3> SUFFICES ASSUME NEW t \in Time, Cardinality(CountedIn(a, t)') >= Threshold
                 PROVE  \E p \in trips'[a] : t - Window <= p.at /\ p.at <= t
      BY DEF MissedInv
    <3>0. trips[a] \subseteq trips'[a]
      BY <2>5
    <3>1. CASE ~(t - Window <= clock /\ clock <= t)
      <4>1. CountedIn(a, t)' = CountedIn(a, t)
        BY <2>11, <3>1
      <4> QED
        BY <1>0, <3>0, <4>1 DEF AgentInv, MissedInv
    <3>2. CASE t - Window <= clock /\ clock <= t
      <4>1. CASE Cardinality(kept) >= Threshold
        <5>1. trip \in trips'[a] /\ trip.at = clock
          BY <2>5, <4>1
        <5> QED
          BY <3>2, <5>1
      <4>2. CASE \E p \in trips[a] : t - Window <= p.at /\ p.at <= t
        BY <3>0, <4>2
      <4>3. CASE /\ ~(Cardinality(kept) >= Threshold)
                 /\ \A p \in trips[a] : ~(t - Window <= p.at /\ p.at <= t)
        <5>1. ASSUME NEW d \in counted[a], t - Window <= at[d]
              PROVE  d \in closed.failures /\ clock - at[d] <= Window
          <6>1. at[d] \in Time /\ clock - at[d] <= Window
            BY <1>0, <2>6, <3>2, <5>1 DEF Time
          <6>2. ~ \E p \in trips[a] : at[d] <= p.at
            BY <1>0, <2>7, <3>2, <4>3, <5>1, <6>1 DEF Time
          <6> QED
            BY <1>0, <2>1, <6>1, <6>2 DEF Fresh, Time
        <5>2. CountedIn(a, t)' \subseteq kept
          BY <2>2, <2>11, <3>2, <5>1 DEF CountedIn
        <5>3. Cardinality(CountedIn(a, t)') <= Cardinality(kept)
              /\ IsFiniteSet(CountedIn(a, t)')
          BY <2>8, <5>2, FS_Subset
        <5>4. Cardinality(CountedIn(a, t)') \in Nat
          BY <5>3, FS_CardinalityType
        <5> QED
          BY <2>8, <4>3, <5>3, <5>4
      <4> QED
        BY <4>1, <4>2, <4>3
    <3> QED
      BY <3>1, <3>2
  <2> QED
    BY <1>4, <2>12, <2>13, <2>14, <2>15, <2>16, <2>17 DEF AgentInv
<1> QED
  BY <1>3, <1>4

-----------------------------------------------------------------------------
\* The initial state satisfies the strengthened invariant.
LEMMA InductiveInit == Init => IndInv
<1>1. Init => AgentsInv
  <2> SUFFICES ASSUME Init, NEW b \in Agents PROVE AgentInv(b)
    BY DEF AgentsInv
  <2>1. /\ states[b].failures = {} /\ states[b].opened_at = None
        /\ counted[b] = {} /\ trips[b] = {}
    BY DEF Init, Closed
  <2>2. IsFiniteSet({}) /\ Cardinality({}) = 0
    BY FS_EmptySet
  <2>3. \A t : CountedIn(b, t) = {}
    BY <2>1 DEF CountedIn
  <2>4. ListInv(b)
    BY <2>1, <2>2 DEF ListInv
  <2>5. TripInv(b) /\ CoverInv(b) /\ JustifiedInv(b) /\ SeparateInv(b)
    BY <2>1 DEF TripInv, CoverInv, JustifiedInv, SeparateInv
  <2>6. MissedInv(b)
    BY <2>2, <2>3 DEF MissedInv
  <2> QED
    BY <2>4, <2>5, <2>6 DEF AgentInv
<1> QED
  BY <1>1, TypeInit DEF IndInv

\* record_failure and check preserve the strengthened invariant, and so does time.
LEMMA InductiveStep == IndInv /\ [Next]_vars => IndInv'
<1>1. IndInv /\ [Next]_vars => AgentsInv'
  <2> SUFFICES ASSUME IndInv, [Next]_vars, NEW b \in Agents PROVE AgentInv(b)'
    BY DEF AgentsInv
  <2>0. AgentInv(b)
    BY DEF IndInv, AgentsInv
  <2>1. CASE Tick
    BY <2>1, TickStep
  <2>2. ASSUME NEW a \in Agents, Check(a) PROVE AgentInv(b)'
    BY <2>2, CheckStep
  <2>3. ASSUME NEW a \in Agents, NEW c \in Calls, IgnoreFailure(c, a)
        PROVE  AgentInv(b)'
    <3>1. pending' \subseteq pending /\ UNCHANGED <<clock, states, at, counted, trips>>
      BY <2>3 DEF IgnoreFailure
    <3> QED
      BY <2>0, <3>1, Untouched
  <2>4. ASSUME NEW a \in Agents, NEW c \in Calls, RecordFailure(c, a)
        PROVE  AgentInv(b)'
    BY <2>4, RecordStep
  <2>5. CASE UNCHANGED vars
    <3>1. pending' \subseteq pending /\ UNCHANGED <<clock, states, at, counted, trips>>
      BY <2>5 DEF vars
    <3> QED
      BY <2>0, <3>1, Untouched
  <2> QED
    BY <2>1, <2>2, <2>3, <2>4, <2>5 DEF Next
<1> QED
  BY <1>1, TypeStep DEF IndInv

(***************************************************************************)
(* The strengthened invariant holds in every reachable state of the        *)
(* breaker: record_failure and check preserve it, and so does time.        *)
(***************************************************************************)
THEOREM Inductive == Spec => []IndInv
  BY InductiveInit, InductiveStep, PTL DEF Spec

(***************************************************************************)
(* No premature quarantine, for every threshold, window and cooldown: each *)
(* opening rests on Threshold denials counted within the window before it. *)
(***************************************************************************)
THEOREM Justified == Spec => []TripsJustified
<1>1. IndInv => TripsJustified
  BY DEF IndInv, AgentsInv, AgentInv, JustifiedInv, TripsJustified
<1> QED
  BY <1>1, Inductive, PTL

(***************************************************************************)
(* No missed quarantine: Threshold denials counted within any window imply *)
(* an opening within that window, across resets.                           *)
(***************************************************************************)
THEOREM NotMissed == Spec => []NoMissedTrip
<1>1. IndInv => NoMissedTrip
  BY DEF IndInv, AgentsInv, AgentInv, MissedInv, NoMissedTrip
<1> QED
  BY <1>1, Inductive, PTL

(***************************************************************************)
(* Openings of one agent are a cooldown apart and share no denial.         *)
(***************************************************************************)
THEOREM Separate == Spec => []TripsSeparate
<1>1. IndInv => TripsSeparate
  BY DEF IndInv, AgentsInv, AgentInv, SeparateInv, TripsSeparate
<1> QED
  BY <1>1, Inductive, PTL

(***************************************************************************)
(* The failure list of an agent never exceeds the threshold, although the  *)
(* code has no explicit cap on the vector.                                 *)
(***************************************************************************)
THEOREM Bounded == Spec => []FailuresBounded
<1>1. IndInv => FailuresBounded
  BY DEF IndInv, AgentsInv, AgentInv, ListInv, FailuresBounded
<1> QED
  BY <1>1, Inductive, PTL

(***************************************************************************)
(* No step touches the entry of an agent whose quarantine is running.      *)
(***************************************************************************)
THEOREM Fixed == Spec => QuarantineFixed
<1>1. TypeOK /\ [Next]_vars =>
        [\A a \in Agents : IsOpen(states[a], clock) => states'[a] = states[a]]_vars
  <2> SUFFICES ASSUME TypeOK, [Next]_vars, NEW b \in Agents, IsOpen(states[b], clock)
               PROVE  states'[b] = states[b]
    BY DEF vars
  <2> USE DEF TypeOK
  <2>1. CASE Tick
    BY <2>1 DEF Tick
  <2>2. ASSUME NEW a \in Agents, Check(a) PROVE states'[b] = states[b]
    BY <2>2 DEF Check, Expire
  <2>3. ASSUME NEW a \in Agents, NEW c \in Calls, IgnoreFailure(c, a)
        PROVE  states'[b] = states[b]
    BY <2>3 DEF IgnoreFailure
  <2>4. ASSUME NEW a \in Agents, NEW c \in Calls, RecordFailure(c, a)
        PROVE  states'[b] = states[b]
    BY <2>4 DEF RecordFailure
  <2>5. CASE UNCHANGED vars
    BY <2>5 DEF vars
  <2> QED
    BY <2>1, <2>2, <2>3, <2>4, <2>5 DEF Next
<1> QED
  BY <1>1, TypeCorrect, PTL DEF Spec, QuarantineFixed

=============================================================================
