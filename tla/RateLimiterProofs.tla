-------------------------- MODULE RateLimiterProofs --------------------------
(***************************************************************************)
(* Proofs about the sliding-window limiter, for every quota, window, set   *)
(* of keys and number of concurrent calls.                                 *)
(***************************************************************************)
EXTENDS RateLimiter, FiniteSetTheorems, TLAPS

-----------------------------------------------------------------------------
(* The inductive invariant, per key. *)

\* A call is in one place: what has a stamp is not about to be stamped.
PlaceInv(k) == idle \cap (stamped[k] \cup Done(k)) = {}

\* The vector holds admitted calls, at most as many as the quota.
VectorInv(k) ==
    /\ IsFiniteSet(allowed[k])
    /\ requests[k] \subseteq allowed[k]
    /\ Cardinality(requests[k]) <= MaxRequests

\* An admitted call left the vector because of a call a full window younger.
ExpiredInv(k) ==
    \A c \in allowed[k] \ requests[k] :
        \E d \in Done(k) : DurationSince(now[d], now[c]) >= RateWindow

\* The admitted calls that count against call c.
Against(k, c) == {d \in allowed[k] : now[c] - now[d] < RateWindow}

\* A rejected call met a full quota.
RejectInv(k) == \A c \in rejected[k] : Cardinality(Against(k, c)) >= MaxRequests

KeyInv(k) == PlaceInv(k) /\ VectorInv(k) /\ ExpiredInv(k) /\ RejectInv(k)

KeysInv == \A k \in Keys : KeyInv(k)

IndInv == TypeOK /\ KeysInv

-----------------------------------------------------------------------------
USE MaxRequestsAssumption, RateWindowAssumption, LastInstantAssumption

\* The initial map and stamps are well formed.
LEMMA LimiterTypeInit == Init => TypeOK
  BY DEF Init, TypeOK, Time

\* Every step of a call keeps the map and the stamps well formed.
LEMMA LimiterTypeStep == TypeOK /\ [Next]_vars => TypeOK'
<1> SUFFICES ASSUME TypeOK, [Next]_vars PROVE TypeOK'
  OBVIOUS
<1> USE DEF TypeOK
<1>1. CASE Tick
  BY <1>1 DEF Tick, Time
<1>2. ASSUME NEW k \in Keys, NEW c \in Calls, Begin(c, k) PROVE TypeOK'
  BY <1>2 DEF Begin
<1>3. ASSUME NEW k \in Keys, NEW c \in Calls, Admit(c, k) PROVE TypeOK'
  BY <1>3 DEF Admit, Retained
<1>4. ASSUME NEW k \in Keys, NEW c \in Calls, Reject(c, k) PROVE TypeOK'
  BY <1>4 DEF Reject, Retained
<1>5. CASE UNCHANGED vars
  BY <1>5 DEF vars
<1> QED
  BY <1>1, <1>2, <1>3, <1>4, <1>5 DEF Next

(***************************************************************************)
(* Type correctness of the limiter's map and of the stamps of its calls.   *)
(***************************************************************************)
THEOREM LimiterTypeCorrect == Spec => []TypeOK
  BY LimiterTypeInit, LimiterTypeStep, PTL DEF Spec

\* A step that leaves key b alone: no call of b moves or is stamped again.
LEMMA KeyUntouched ==
  ASSUME NEW b \in Keys, KeyInv(b),
         requests'[b] = requests[b], allowed'[b] = allowed[b],
         rejected'[b] = rejected[b],
         idle' \cap (stamped'[b] \cup Done(b)) = {},
         \A c \in Done(b) : now'[c] = now[c]
  PROVE  KeyInv(b)'
<1>1. Done(b)' = Done(b) /\ allowed[b] \subseteq Done(b) /\ rejected[b] \subseteq Done(b)
  BY DEF Done
<1>2. PlaceInv(b)'
  BY <1>1 DEF PlaceInv
<1>3. VectorInv(b)' /\ ExpiredInv(b)'
  BY <1>1 DEF KeyInv, VectorInv, ExpiredInv
<1>4. RejectInv(b)'
  <2>1. \A c \in rejected[b] : Against(b, c)' = Against(b, c)
    BY <1>1 DEF Against
  <2> QED
    BY <2>1 DEF KeyInv, RejectInv
<1> QED
  BY <1>2, <1>3, <1>4 DEF KeyInv

\* The retain keeps a finite part of the vector, and all of it is live.
LEMMA RetainedFacts ==
  ASSUME IndInv, NEW k \in Keys, NEW c \in Calls
  PROVE  /\ Retained(k, c) \subseteq requests[k]
         /\ Retained(k, c) \subseteq Against(k, c)
         /\ IsFiniteSet(Retained(k, c))
         /\ Cardinality(Retained(k, c)) \in Nat
         /\ Cardinality(Retained(k, c)) <= MaxRequests
         /\ \A d \in requests[k] \ Retained(k, c) :
               DurationSince(now[c], now[d]) >= RateWindow
<1>1. /\ requests[k] \subseteq allowed[k] /\ IsFiniteSet(allowed[k])
      /\ Cardinality(requests[k]) <= MaxRequests
  BY DEF IndInv, KeysInv, KeyInv, VectorInv
<1>2. /\ now[c] \in Nat /\ \A d \in requests[k] : now[d] \in Nat
  BY DEF IndInv, TypeOK, Time
<1>3. Retained(k, c) \subseteq requests[k]
  BY DEF Retained
<1>4. /\ IsFiniteSet(requests[k]) /\ Cardinality(requests[k]) \in Nat
  BY <1>1, FS_Subset, FS_CardinalityType
<1>5. /\ IsFiniteSet(Retained(k, c)) /\ Cardinality(Retained(k, c)) \in Nat
      /\ Cardinality(Retained(k, c)) <= Cardinality(requests[k])
  BY <1>3, <1>4, FS_Subset, FS_CardinalityType
<1>6. Retained(k, c) \subseteq Against(k, c)
  BY <1>1, <1>2 DEF Retained, Against, DurationSince
<1>7. \A d \in requests[k] \ Retained(k, c) :
         DurationSince(now[c], now[d]) >= RateWindow
  BY <1>2 DEF Retained, DurationSince
<1>8. Cardinality(Retained(k, c)) <= MaxRequests
  BY <1>1, <1>4, <1>5
<1> QED
  BY <1>3, <1>5, <1>6, <1>7, <1>8

\* What call c expires stays expired, and what was expired has its witness.
LEMMA ExpiredKept ==
  ASSUME IndInv, NEW k \in Keys, NEW c \in Calls,
         NEW x \in allowed[k], x \notin Retained(k, c)
  PROVE  \E d \in Done(k) \cup {c} : DurationSince(now[d], now[x]) >= RateWindow
<1>1. CASE x \in requests[k]
  BY <1>1, RetainedFacts
<1>2. CASE x \notin requests[k]
  BY <1>2 DEF IndInv, KeysInv, KeyInv, ExpiredInv
<1> QED
  BY <1>1, <1>2

\* Call c takes the lock for key k and is admitted.
LEMMA AdmitStep ==
  ASSUME IndInv, NEW k \in Keys, NEW c \in Calls, Admit(c, k), NEW b \in Keys
  PROVE  KeyInv(b)'
<1>0. /\ c \in stamped[k] /\ Cardinality(Retained(k, c)) < MaxRequests
      /\ requests' = [requests EXCEPT ![k] = Retained(k, c) \cup {c}]
      /\ stamped' = [stamped EXCEPT ![k] = @ \ {c}]
      /\ allowed' = [allowed EXCEPT ![k] = @ \cup {c}]
      /\ UNCHANGED <<now, idle, rejected>>
      /\ KeyInv(b) /\ KeyInv(k)
  BY DEF Admit, IndInv, KeysInv
<1>t. /\ requests \in [Keys -> SUBSET Calls] /\ stamped \in [Keys -> SUBSET Calls]
      /\ allowed \in [Keys -> SUBSET Calls] /\ rejected \in [Keys -> SUBSET Calls]
      /\ now \in [Calls -> Nat]
  BY DEF IndInv, TypeOK, Time
<1>1. CASE b # k
  <2>1. /\ requests'[b] = requests[b] /\ allowed'[b] = allowed[b]
        /\ stamped'[b] = stamped[b]
    BY <1>0, <1>t, <1>1
  <2> QED
    BY <1>0, <2>1, KeyUntouched DEF KeyInv, PlaceInv
<1>2. CASE b = k
  <2>1. /\ requests'[k] = Retained(k, c) \cup {c}
        /\ allowed'[k] = allowed[k] \cup {c} /\ rejected'[k] = rejected[k]
        /\ stamped'[k] = stamped[k] \ {c} /\ Done(k)' = Done(k) \cup {c}
    BY <1>0, <1>t DEF Done
  <2>2. PlaceInv(k)'
    BY <1>0, <2>1 DEF KeyInv, PlaceInv
  <2>3. VectorInv(k)'
    <3>1. IsFiniteSet(allowed[k] \cup {c})
      BY <1>0, FS_AddElement DEF KeyInv, VectorInv
    <3>2. requests'[k] \subseteq allowed'[k]
      BY <1>0, <2>1, RetainedFacts DEF KeyInv, VectorInv
    <3>3. Cardinality(Retained(k, c) \cup {c}) <= MaxRequests
      <4>1. /\ IsFiniteSet(Retained(k, c)) /\ Cardinality(Retained(k, c)) \in Nat
        BY RetainedFacts
      <4>2. Cardinality(Retained(k, c) \cup {c})
              \in {Cardinality(Retained(k, c)), Cardinality(Retained(k, c)) + 1}
        BY <4>1, FS_AddElement
      <4> QED
        BY <1>0, <4>1, <4>2
    <3> QED
      BY <2>1, <3>1, <3>2, <3>3 DEF VectorInv
  <2>4. ExpiredInv(k)'
    BY <1>0, <2>1, ExpiredKept DEF ExpiredInv
  <2>5. RejectInv(k)'
    <3> SUFFICES ASSUME NEW d \in rejected[k]
                 PROVE  Cardinality(Against(k, d)') >= MaxRequests
      BY <2>1 DEF RejectInv
    <3>1. Against(k, d) \subseteq Against(k, d)'
      BY <1>0, <2>1 DEF Against
    <3>2. IsFiniteSet(Against(k, d)')
      <4>1. IsFiniteSet(allowed'[k])
        BY <2>3 DEF VectorInv
      <4>2. Against(k, d)' \subseteq allowed'[k]
        BY DEF Against
      <4> QED
        BY <4>1, <4>2, FS_Subset
    <3>3. /\ Cardinality(Against(k, d)) <= Cardinality(Against(k, d)')
          /\ Cardinality(Against(k, d)) \in Nat /\ Cardinality(Against(k, d)') \in Nat
      BY <3>1, <3>2, FS_Subset, FS_CardinalityType
    <3>4. Cardinality(Against(k, d)) >= MaxRequests
      BY <1>0 DEF KeyInv, RejectInv
    <3> QED
      BY <3>3, <3>4
  <2> QED
    BY <1>2, <2>2, <2>3, <2>4, <2>5 DEF KeyInv
<1> QED
  BY <1>1, <1>2

\* Call c takes the lock for key k and is rejected; the retain still happens.
LEMMA RejectStep ==
  ASSUME IndInv, NEW k \in Keys, NEW c \in Calls, Reject(c, k), NEW b \in Keys
  PROVE  KeyInv(b)'
<1>0. /\ c \in stamped[k] /\ Cardinality(Retained(k, c)) >= MaxRequests
      /\ requests' = [requests EXCEPT ![k] = Retained(k, c)]
      /\ stamped' = [stamped EXCEPT ![k] = @ \ {c}]
      /\ rejected' = [rejected EXCEPT ![k] = @ \cup {c}]
      /\ UNCHANGED <<now, idle, allowed>>
      /\ KeyInv(b) /\ KeyInv(k)
  BY DEF Reject, IndInv, KeysInv
<1>t. /\ requests \in [Keys -> SUBSET Calls] /\ stamped \in [Keys -> SUBSET Calls]
      /\ allowed \in [Keys -> SUBSET Calls] /\ rejected \in [Keys -> SUBSET Calls]
  BY DEF IndInv, TypeOK
<1>1. CASE b # k
  <2>1. /\ requests'[b] = requests[b] /\ rejected'[b] = rejected[b]
        /\ stamped'[b] = stamped[b]
    BY <1>0, <1>t, <1>1
  <2> QED
    BY <1>0, <2>1, KeyUntouched DEF KeyInv, PlaceInv
<1>2. CASE b = k
  <2>1. /\ requests'[k] = Retained(k, c) /\ allowed'[k] = allowed[k]
        /\ rejected'[k] = rejected[k] \cup {c}
        /\ stamped'[k] = stamped[k] \ {c} /\ Done(k)' = Done(k) \cup {c}
    BY <1>0, <1>t DEF Done
  <2>2. PlaceInv(k)'
    BY <1>0, <2>1 DEF KeyInv, PlaceInv
  <2>3. VectorInv(k)'
    BY <1>0, <2>1, RetainedFacts DEF KeyInv, VectorInv
  <2>4. ExpiredInv(k)'
    BY <1>0, <2>1, ExpiredKept DEF ExpiredInv
  <2>5. RejectInv(k)'
    <3>1. \A d : Against(k, d)' = Against(k, d)
      BY <1>0, <2>1 DEF Against
    <3>2. Cardinality(Against(k, c)) >= MaxRequests
      <4>1. Retained(k, c) \subseteq Against(k, c) /\ Cardinality(Retained(k, c)) \in Nat
        BY RetainedFacts
      <4>2. IsFiniteSet(Against(k, c))
        <5>1. Against(k, c) \subseteq allowed[k]
          BY DEF Against
        <5> QED
          BY <1>0, <5>1, FS_Subset DEF KeyInv, VectorInv
      <4>3. /\ Cardinality(Retained(k, c)) <= Cardinality(Against(k, c))
            /\ Cardinality(Against(k, c)) \in Nat
        BY <4>1, <4>2, FS_Subset, FS_CardinalityType
      <4> QED
        BY <1>0, <4>1, <4>3
    <3> QED
      BY <1>0, <2>1, <3>1, <3>2 DEF KeyInv, RejectInv
  <2> QED
    BY <1>2, <2>2, <2>3, <2>4, <2>5 DEF KeyInv
<1> QED
  BY <1>1, <1>2

\* The initial state satisfies the strengthened invariant.
LEMMA LimiterInductiveInit == Init => IndInv
<1>1. Init => KeysInv
  <2> SUFFICES ASSUME Init, NEW k \in Keys PROVE KeyInv(k)
    BY DEF KeysInv
  <2>1. requests[k] = {} /\ stamped[k] = {} /\ allowed[k] = {} /\ rejected[k] = {}
    BY DEF Init
  <2>2. IsFiniteSet({}) /\ Cardinality({}) = 0
    BY FS_EmptySet
  <2> QED
    BY <2>1, <2>2 DEF KeyInv, PlaceInv, VectorInv, ExpiredInv, RejectInv, Done
<1> QED
  BY <1>1, LimiterTypeInit DEF IndInv

\* Every step of a call preserves the strengthened invariant, and so does time.
LEMMA LimiterInductiveStep == IndInv /\ [Next]_vars => IndInv'
<1>1. IndInv /\ [Next]_vars => KeysInv'
  <2> SUFFICES ASSUME IndInv, [Next]_vars, NEW b \in Keys PROVE KeyInv(b)'
    BY DEF KeysInv
  <2>0. KeyInv(b)
    BY DEF IndInv, KeysInv
  <2>1. CASE Tick
    BY <2>0, <2>1, KeyUntouched DEF Tick, KeyInv, PlaceInv
  <2>2. ASSUME NEW k \in Keys, NEW c \in Calls, Begin(c, k) PROVE KeyInv(b)'
    <3>1. /\ c \in idle /\ idle' = idle \ {c}
          /\ now' = [now EXCEPT ![c] = clock]
          /\ stamped'[b] \subseteq stamped[b] \cup {c}
          /\ UNCHANGED <<requests, allowed, rejected>>
      BY <2>2 DEF Begin, IndInv, TypeOK
    <3>2. c \notin Done(b) /\ now \in [Calls -> Time]
      BY <2>0, <3>1 DEF KeyInv, PlaceInv, IndInv, TypeOK
    <3>3. \A d \in Done(b) : now'[d] = now[d]
      BY <3>1, <3>2 DEF Done, IndInv, TypeOK
    <3>4. idle' \cap (stamped'[b] \cup Done(b)) = {}
      BY <2>0, <3>1 DEF KeyInv, PlaceInv
    <3> QED
      BY <2>0, <3>1, <3>3, <3>4, KeyUntouched
  <2>3. ASSUME NEW k \in Keys, NEW c \in Calls, Admit(c, k) PROVE KeyInv(b)'
    BY <2>3, AdmitStep
  <2>4. ASSUME NEW k \in Keys, NEW c \in Calls, Reject(c, k) PROVE KeyInv(b)'
    BY <2>4, RejectStep
  <2>5. CASE UNCHANGED vars
    BY <2>0, <2>5, KeyUntouched DEF vars, KeyInv, PlaceInv
  <2> QED
    BY <2>1, <2>2, <2>3, <2>4, <2>5 DEF Next
<1> QED
  BY <1>1, LimiterTypeStep DEF IndInv

(***************************************************************************)
(* The strengthened invariant holds in every reachable state, whatever the *)
(* order in which stamped calls reach the entry lock.                      *)
(***************************************************************************)
THEOREM LimiterInductive == Spec => []IndInv
  BY LimiterInductiveInit, LimiterInductiveStep, PTL DEF Spec

(***************************************************************************)
(* No stale stamp breaks the quota of a current window: the windows that   *)
(* end at or after every returned call's stamp hold at most MaxRequests.   *)
(***************************************************************************)
THEOREM CurrentQuota == Spec => []CurrentWindowQuota
<1>1. IndInv => CurrentWindowQuota
  <2> SUFFICES ASSUME IndInv, NEW k \in Keys, NEW t \in Time,
                      \A d \in Done(k) : now[d] <= t
               PROVE  Cardinality(AllowedIn(k, t)) <= MaxRequests
    BY DEF CurrentWindowQuota
  <2>1. /\ IsFiniteSet(allowed[k]) /\ requests[k] \subseteq allowed[k]
        /\ Cardinality(requests[k]) <= MaxRequests
    BY DEF IndInv, KeysInv, KeyInv, VectorInv
  <2>2. AllowedIn(k, t) \subseteq requests[k]
    <3> SUFFICES ASSUME NEW c \in allowed[k], t - RateWindow < now[c],
                        now[c] <= t, c \notin requests[k]
                 PROVE  FALSE
      BY DEF AllowedIn
    <3>1. PICK d \in Done(k) : DurationSince(now[d], now[c]) >= RateWindow
      BY DEF IndInv, KeysInv, KeyInv, ExpiredInv
    <3>2. now[d] \in Nat /\ now[c] \in Nat /\ t \in Nat /\ now[d] <= t
      BY DEF Done, IndInv, TypeOK, Time
    <3> QED
      BY <3>1, <3>2 DEF DurationSince
  <2>3. IsFiniteSet(requests[k])
    BY <2>1, FS_Subset
  <2>4. /\ Cardinality(AllowedIn(k, t)) <= Cardinality(requests[k])
        /\ Cardinality(AllowedIn(k, t)) \in Nat /\ Cardinality(requests[k]) \in Nat
    BY <2>2, <2>3, FS_Subset, FS_CardinalityType
  <2> QED
    BY <2>1, <2>4
<1> QED
  BY <1>1, LimiterInductive, PTL

(***************************************************************************)
(* A call is rejected only when MaxRequests admitted calls of its own key  *)
(* count against it.                                                       *)
(***************************************************************************)
THEOREM RejectsJustified == Spec => []NoFalseReject
<1>1. IndInv => NoFalseReject
  BY DEF IndInv, KeysInv, KeyInv, RejectInv, Against, NoFalseReject
<1> QED
  BY <1>1, LimiterInductive, PTL

(***************************************************************************)
(* The vector is bounded by the quota and keeps every live stamp.          *)
(***************************************************************************)
THEOREM LiveRetained == Spec => []RetainsLive
<1>1. IndInv => RetainsLive
  <2> SUFFICES ASSUME IndInv, NEW k \in Keys
               PROVE  /\ Cardinality(requests[k]) <= MaxRequests
                      /\ \A c \in allowed[k] :
                            (\A d \in Done(k) : now[d] - now[c] < RateWindow)
                                => c \in requests[k]
    BY DEF RetainsLive
  <2>1. Cardinality(requests[k]) <= MaxRequests
    BY DEF IndInv, KeysInv, KeyInv, VectorInv
  <2>2. ASSUME NEW c \in allowed[k], c \notin requests[k],
               \A d \in Done(k) : now[d] - now[c] < RateWindow
        PROVE  FALSE
    <3>1. PICK d \in Done(k) : DurationSince(now[d], now[c]) >= RateWindow
      BY <2>2 DEF IndInv, KeysInv, KeyInv, ExpiredInv
    <3>2. now[d] \in Nat /\ now[c] \in Nat
      BY DEF Done, IndInv, TypeOK, Time
    <3>3. now[c] - now[c] < RateWindow
      BY <2>2 DEF Done
    <3> QED
      BY <2>2, <3>1, <3>2, <3>3 DEF DurationSince
  <2> QED
    BY <2>1, <2>2
<1> QED
  BY <1>1, LimiterInductive, PTL

=============================================================================
