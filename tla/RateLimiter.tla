----------------------------- MODULE RateLimiter -----------------------------
(***************************************************************************)
(* The sliding-window limiter of safegate-proxy/src/rate_limit.rs.         *)
(*                                                                         *)
(* check_rate_limit reads Instant::now() BEFORE it takes the DashMap entry *)
(* lock, so a call is two steps: Begin (the stamp) and Admit or Reject     *)
(* (everything under the lock).  Between them other calls for the same key *)
(* may run with younger stamps.                                            *)
(*                                                                         *)
(* As in CircuitBreaker, Vec<Instant> is the set of the calls that pushed  *)
(* its elements; now[c] is the stamp of call c.                            *)
(***************************************************************************)
EXTENDS Integers, FiniteSets

CONSTANTS
    Keys,        \* keys of the map: agent_id values
    Calls,       \* identities of the calls of check_rate_limit
    MaxRequests, \* max_requests
    RateWindow,  \* window_duration
    MaxTime      \* bound: the last instant the clock reaches

ASSUME MaxRequestsAssumption == MaxRequests \in Nat
ASSUME RateWindowAssumption  == RateWindow \in Nat
ASSUME LastInstantAssumption == MaxTime \in Nat

VARIABLES
    clock,      \* what Instant::now() returns
    requests,   \* RateLimiter.requests
    now,        \* the local `now` of each call
    idle,       \* the calls that have not been made yet
    stamped,    \* the calls between Instant::now() and the entry lock, by key
    allowed,    \* the calls that returned Ok(()), by key
    rejected    \* the calls that returned RateLimitExceeded, by key

vars == <<clock, requests, now, idle, stamped, allowed, rejected>>

Time == 0 .. MaxTime

\* The calls for k that have returned.
Done(k) == allowed[k] \cup rejected[k]

-----------------------------------------------------------------------------
\* Mutant of DurationSince: the distance of the instants, whatever their order.
DurationBetween(later, earlier) ==
    IF later >= earlier THEN later - earlier ELSE earlier - later

\* Instant::duration_since: saturates to zero when `earlier` is the later one.
DurationSince(later, earlier) ==
    IF later >= earlier THEN later - earlier ELSE 0

\* Mutant of Retained: `<=` for `<` keeps the instant at the window's edge.
RetainedInclusive(k, c) ==
    {d \in requests[k] : DurationSince(now[c], now[d]) <= RateWindow}

\* timestamps.retain(..) as call c makes it.
Retained(k, c) ==
    {d \in requests[k] : DurationSince(now[c], now[d]) < RateWindow}

Init ==
    /\ clock = 0
    /\ requests = [k \in Keys |-> {}]
    /\ now = [c \in Calls |-> 0]
    /\ idle = Calls
    /\ stamped = [k \in Keys |-> {}]
    /\ allowed = [k \in Keys |-> {}]
    /\ rejected = [k \in Keys |-> {}]

\* Mutant of Begin: the instant at which the stamp expires is kept instead.
BeginDeadline(c, k) ==
    /\ c \in idle
    /\ idle' = idle \ {c}
    /\ now' = [now EXCEPT ![c] = clock + RateWindow]
    /\ stamped' = [stamped EXCEPT ![k] = @ \cup {c}]
    /\ UNCHANGED <<clock, requests, allowed, rejected>>

\* let now = Instant::now()
Begin(c, k) ==
    /\ c \in idle
    /\ idle' = idle \ {c}
    /\ now' = [now EXCEPT ![c] = clock]
    /\ stamped' = [stamped EXCEPT ![k] = @ \cup {c}]
    /\ UNCHANGED <<clock, requests, allowed, rejected>>

\* Mutant of Admit: the stamp of an admitted call is not pushed.
AdmitUnrecorded(c, k) ==
    /\ c \in stamped[k]
    /\ Cardinality(Retained(k, c)) < MaxRequests
    /\ requests' = [requests EXCEPT ![k] = Retained(k, c)]
    /\ stamped' = [stamped EXCEPT ![k] = @ \ {c}]
    /\ allowed' = [allowed EXCEPT ![k] = @ \cup {c}]
    /\ UNCHANGED <<clock, now, idle, rejected>>

\* The entry lock, retain, and the branch that pushes and returns Ok(()).
Admit(c, k) ==
    /\ c \in stamped[k]
    /\ Cardinality(Retained(k, c)) < MaxRequests
    /\ requests' = [requests EXCEPT ![k] = Retained(k, c) \cup {c}]
    /\ stamped' = [stamped EXCEPT ![k] = @ \ {c}]
    /\ allowed' = [allowed EXCEPT ![k] = @ \cup {c}]
    /\ UNCHANGED <<clock, now, idle, rejected>>

\* The entry lock, retain, and the early return at the quota.
Reject(c, k) ==
    /\ c \in stamped[k]
    /\ Cardinality(Retained(k, c)) >= MaxRequests
    /\ requests' = [requests EXCEPT ![k] = Retained(k, c)]
    /\ stamped' = [stamped EXCEPT ![k] = @ \ {c}]
    /\ rejected' = [rejected EXCEPT ![k] = @ \cup {c}]
    /\ UNCHANGED <<clock, now, idle, allowed>>

Tick ==
    /\ clock < MaxTime
    /\ clock' = clock + 1
    /\ UNCHANGED <<requests, now, idle, stamped, allowed, rejected>>

Next ==
    \/ Tick
    \/ \E k \in Keys, c \in Calls : Begin(c, k) \/ Admit(c, k) \/ Reject(c, k)

Spec == Init /\ [][Next]_vars

-----------------------------------------------------------------------------
TypeOK ==
    /\ clock \in Time
    /\ requests \in [Keys -> SUBSET Calls]
    /\ now \in [Calls -> Time]
    /\ idle \in SUBSET Calls
    /\ stamped \in [Keys -> SUBSET Calls]
    /\ allowed \in [Keys -> SUBSET Calls]
    /\ rejected \in [Keys -> SUBSET Calls]

\* The admitted calls of k whose stamps lie in the half-open window up to t.
AllowedIn(k, t) == {c \in allowed[k] : t - RateWindow < now[c] /\ now[c] <= t}

(***************************************************************************)
(* The quota holds for every window that ends at or after the youngest     *)
(* stamp a returned call carries: no stale stamp, whatever the order in    *)
(* which calls reach the lock, lets more than MaxRequests requests into    *)
(* the window that is current.                                             *)
(***************************************************************************)
CurrentWindowQuota ==
    \A k \in Keys, t \in Time :
        (\A d \in Done(k) : now[d] <= t) =>
            Cardinality(AllowedIn(k, t)) <= MaxRequests

(***************************************************************************)
(* No request is refused without cause: a rejected call has MaxRequests    *)
(* admitted calls of its own key stamped less than a window before it (or  *)
(* after it), so one agent's traffic never costs another its quota.        *)
(***************************************************************************)
NoFalseReject ==
    \A k \in Keys : \A c \in rejected[k] :
        Cardinality({d \in allowed[k] : now[c] - now[d] < RateWindow}) >= MaxRequests

(***************************************************************************)
(* The timestamp vector of a key never outgrows the quota, and an admitted *)
(* stamp leaves it only once some returned call was a full window younger: *)
(* a call that is late at the lock drops nothing that must still count.    *)
(***************************************************************************)
RetainsLive ==
    \A k \in Keys :
        /\ Cardinality(requests[k]) <= MaxRequests
        /\ \A c \in allowed[k] :
              (\A d \in Done(k) : now[d] - now[c] < RateWindow) => c \in requests[k]

(***************************************************************************)
(* The doc comment of check_rate_limit: "at most `max_requests` requests   *)
(* may exist in any one `window_duration` interval" (rate_limit.rs:25-26). *)
(***************************************************************************)
WindowQuota ==
    \A k \in Keys, t \in Time : Cardinality(AllowedIn(k, t)) <= MaxRequests

=============================================================================
