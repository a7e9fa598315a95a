------------------------ MODULE PolicyRegistryProofs ------------------------
(***************************************************************************)
(* Proofs about the tenant policy registry, for every set of tenants and   *)
(* of contents and any number of edits of the directory: what the          *)
(* debounce merges or drops never mixes up tenants or takes a policy away. *)
(***************************************************************************)
EXTENDS PolicyRegistry, TLAPS

-----------------------------------------------------------------------------
(* The inductive invariant. *)

\* The history of a file holds its content.
HeldInv == \A t \in Tenants : files[t] # Absent => files[t] \in held[t]

\* A removal is reported only of a file that was taken away.
Reported(e) == e.kind = "remove" => Absent \in held[e.tenant]

ChannelInv == \A i \in 1 .. Len(channel) : Reported(channel[i])

\* The same of the event the loop took from the channel.
EventInv == watcher \in {"sleep", "apply"} => Reported(event)

RegistryInv == TypeOK /\ HeldInv /\ ChannelInv /\ EventInv /\ EnginesGenuine

-----------------------------------------------------------------------------
USE TenantsAssumption, ContentsAssumption

\* What the operator's edits have in common.
LEMMA EditOf ==
  ASSUME NEW t \in Tenants, Delete(t) \/ MoveAway(t) \/ \E c \in Contents : Write(t, c)
  PROVE  \E c \in Contents \cup {Absent}, k \in {"upsert", "remove"} :
            Edit(t, c, k) /\ (k = "remove" => c = Absent)
  BY DEF Delete, MoveAway, Write

\* Every step keeps the registry's state well formed.
LEMMA RegistryTypeStep == TypeOK /\ [Next]_vars => TypeOK'
<1> SUFFICES ASSUME TypeOK, [Next]_vars PROVE TypeOK'
  OBVIOUS
<1> USE DEF TypeOK
<1>1. ASSUME NEW t \in Tenants, NEW c \in Contents \cup {Absent},
             NEW k \in {"upsert", "remove"}, Edit(t, c, k)
      PROVE  TypeOK'
  <2>1. [kind |-> k, tenant |-> t] \in RegistryEvent
    BY DEF RegistryEvent
  <2>2. channel' \in Seq(RegistryEvent)
    BY <1>1, <2>1 DEF Edit
  <2>3. unscanned' \in SUBSET Tenants /\ missed' \in SUBSET Tenants
    BY <1>1 DEF Edit, Unwatched
  <2> QED
    BY <1>1, <2>2, <2>3 DEF Edit
<1>2. ASSUME NEW t \in Tenants, Scan(t) PROVE TypeOK'
  BY <1>2 DEF Scan, Loads
<1>3. CASE StartWatch
  BY <1>3 DEF StartWatch
<1>9. CASE List \/ FinishScan
  BY <1>9 DEF List, FinishScan
<1>10. ASSUME NEW t \in Tenants, SkipEntry(t) PROVE TypeOK'
  BY <1>10 DEF SkipEntry
<1>4. CASE Receive
  BY <1>4 DEF Receive
<1>5. CASE Debounce
  BY <1>5 DEF Debounce
<1>6. CASE Upsert
  BY <1>6 DEF Upsert, Loads, RegistryEvent
<1>7. CASE Remove
  BY <1>7 DEF Remove, RegistryEvent
<1>8. CASE UNCHANGED vars
  BY <1>8 DEF vars
<1> QED
  BY <1>1, <1>2, <1>3, <1>4, <1>5, <1>6, <1>7, <1>8, <1>9, <1>10, EditOf
  DEF Next, Startup, WatcherStep, Apply

\* The initial directory and map.
LEMMA RegistryInit == Init => RegistryInv
<1> SUFFICES ASSUME Init PROVE RegistryInv
  OBVIOUS
<1>1. (CHOOSE t \in Tenants : TRUE) \in Tenants
  OBVIOUS
<1>2. TypeOK
  BY <1>1 DEF Init, TypeOK, RegistryEvent, Contents
<1>3. HeldInv /\ ChannelInv /\ EventInv /\ EnginesGenuine
  BY DEF Init, HeldInv, ChannelInv, EventInv, EnginesGenuine
<1> QED
  BY <1>2, <1>3 DEF RegistryInv

\* An edit extends histories, and reports a removal after one.
LEMMA EditStep ==
  ASSUME RegistryInv, NEW t \in Tenants, NEW c \in Contents \cup {Absent},
         NEW k \in {"upsert", "remove"}, Edit(t, c, k), k = "remove" => c = Absent
  PROVE  HeldInv' /\ ChannelInv' /\ EventInv' /\ EnginesGenuine'
<1> DEFINE e == [kind |-> k, tenant |-> t]
<1>t. /\ files \in [Tenants -> Contents \cup {Absent}] /\ channel \in Seq(RegistryEvent)
      /\ held \in [Tenants -> SUBSET (Contents \cup {Absent})] /\ event \in RegistryEvent
  BY DEF RegistryInv, TypeOK
<1>0. /\ files' = [files EXCEPT ![t] = c]
      /\ held' = [held EXCEPT ![t] = @ \cup {c}]
      /\ channel' \in {channel, Append(channel, e)}
      /\ UNCHANGED <<engines, watcher, event>>
  BY DEF Edit
<1>1. c \in held'[t] /\ \A s \in Tenants : held[s] \subseteq held'[s]
  BY <1>t, <1>0
<1>2. HeldInv'
  BY <1>t, <1>0, <1>1 DEF HeldInv, RegistryInv
<1>3. EnginesGenuine'
  BY <1>0, <1>1 DEF EnginesGenuine, RegistryInv
<1>4. EventInv'
  BY <1>t, <1>0, <1>1 DEF EventInv, Reported, RegistryEvent, RegistryInv
<1>5. ChannelInv'
  <2>1. \A i \in 1 .. Len(channel) : channel[i] \in RegistryEvent /\ Reported(channel[i])
    BY <1>t DEF RegistryInv, ChannelInv
  <2>2. \A i \in 1 .. Len(channel) :
           channel[i].kind = "remove" => Absent \in held'[channel[i].tenant]
    BY <1>1, <2>1 DEF Reported, RegistryEvent
  <2>3. ASSUME NEW i \in 1 .. Len(channel'), i \in 1 .. Len(channel)
        PROVE  channel'[i] = channel[i]
    BY <1>t, <1>0, <2>3
  <2>4. ASSUME NEW i \in 1 .. Len(channel'), i \notin 1 .. Len(channel)
        PROVE  channel'[i] = e
    BY <1>t, <1>0, <2>4
  <2>5. e.kind = "remove" => Absent \in held'[e.tenant]
    BY <1>1
  <2> QED
    BY <2>1, <2>2, <2>3, <2>4, <2>5 DEF ChannelInv, Reported, RegistryEvent
<1> QED
  BY <1>2, <1>3, <1>4, <1>5

\* Every step of the registry and every edit preserves the invariant.
LEMMA RegistryStep == RegistryInv /\ [Next]_vars => RegistryInv'
<1> SUFFICES ASSUME RegistryInv, [Next]_vars PROVE RegistryInv'
  OBVIOUS
<1>t. TypeOK /\ TypeOK'
  BY RegistryTypeStep DEF RegistryInv
<1> SUFFICES HeldInv' /\ ChannelInv' /\ EventInv' /\ EnginesGenuine'
  BY <1>t DEF RegistryInv
<1> USE DEF RegistryInv, TypeOK
<1>1. ASSUME NEW t \in Tenants, NEW c \in Contents \cup {Absent},
             NEW k \in {"upsert", "remove"}, Edit(t, c, k), k = "remove" => c = Absent
      PROVE  HeldInv' /\ ChannelInv' /\ EventInv' /\ EnginesGenuine'
  BY <1>1, EditStep
<1>2. ASSUME NEW t \in Tenants, Scan(t)
      PROVE  HeldInv' /\ ChannelInv' /\ EventInv' /\ EnginesGenuine'
  <2>1. EnginesGenuine'
    BY <1>2 DEF Scan, Loads, EnginesGenuine, HeldInv
  <2> QED
    BY <1>2, <2>1 DEF Scan, HeldInv, ChannelInv, EventInv, Reported
<1>9. CASE List \/ FinishScan
  BY <1>9 DEF List, FinishScan, HeldInv, ChannelInv, EventInv, Reported, EnginesGenuine
<1>10. ASSUME NEW t \in Tenants, SkipEntry(t)
       PROVE  HeldInv' /\ ChannelInv' /\ EventInv' /\ EnginesGenuine'
  BY <1>10 DEF SkipEntry, HeldInv, ChannelInv, EventInv, Reported, EnginesGenuine
<1>3. CASE StartWatch
  BY <1>3 DEF StartWatch, HeldInv, ChannelInv, EventInv, Reported, EnginesGenuine
<1>4. CASE Receive
  <2>1. channel # <<>> /\ event' = Head(channel) /\ channel' = Tail(channel)
        /\ UNCHANGED <<files, engines, held>>
    BY <1>4 DEF Receive
  <2>2. Len(channel) >= 1 /\ Head(channel) = channel[1]
    BY <2>1
  <2>3. Reported(channel[1])
    BY <2>2 DEF ChannelInv
  <2>4. Len(Tail(channel)) = Len(channel) - 1
        /\ \A i \in 1 .. Len(Tail(channel)) : Tail(channel)[i] = channel[i + 1]
    BY <2>1
  <2>5. \A i \in 1 .. Len(channel') :
           channel'[i] = channel[i + 1] /\ i + 1 \in 1 .. Len(channel)
    BY <2>1, <2>2, <2>4
  <2> QED
    BY <2>1, <2>2, <2>3, <2>5 DEF HeldInv, ChannelInv, EventInv, Reported, EnginesGenuine
<1>5. CASE Debounce
  BY <1>5 DEF Debounce, HeldInv, ChannelInv, EventInv, Reported, EnginesGenuine
<1>6. CASE Upsert
  <2>1. EnginesGenuine'
    BY <1>6 DEF Upsert, Loads, EnginesGenuine, HeldInv, RegistryEvent
  <2> QED
    BY <1>6, <2>1 DEF Upsert, HeldInv, ChannelInv, EventInv, Reported
<1>7. CASE Remove
  <2>1. EnginesGenuine'
    BY <1>7 DEF Remove, EnginesGenuine, RegistryEvent
  <2> QED
    BY <1>7, <2>1 DEF Remove, HeldInv, ChannelInv, EventInv, Reported
<1>8. CASE UNCHANGED vars
  BY <1>8 DEF vars, HeldInv, ChannelInv, EventInv, Reported, EnginesGenuine
<1> QED
  BY <1>1, <1>2, <1>3, <1>4, <1>5, <1>6, <1>7, <1>8, <1>9, <1>10, EditOf
  DEF Next, Startup, WatcherStep, Apply

\* In every reachable state the registry agrees with the directory's history.
LEMMA RegistryInductive == Spec => []RegistryInv
  BY RegistryInit, RegistryStep, PTL DEF Spec

-----------------------------------------------------------------------------
(***************************************************************************)
(* Type correctness: in particular the map holds only contents that        *)
(* compile, whatever is written into the directory.                        *)
(***************************************************************************)
THEOREM RegistryTypeCorrect == Spec => []TypeOK
<1>1. RegistryInv => TypeOK
  BY DEF RegistryInv
<1> QED
  BY <1>1, RegistryInductive, PTL

(***************************************************************************)
(* Tenants are isolated: the engine of a tenant was compiled from a        *)
(* content its own file held, although events are merged by the debounce   *)
(* and the file is read only when the surviving event is applied.          *)
(***************************************************************************)
THEOREM TenantsIsolated == Spec => []EnginesGenuine
<1>1. RegistryInv => EnginesGenuine
  BY DEF RegistryInv
<1> QED
  BY <1>1, RegistryInductive, PTL

(***************************************************************************)
(* Zero-downtime reload: a tenant loses its policy only if its file was    *)
(* taken away at some time; a removal is applied to no other tenant.       *)
(***************************************************************************)
THEOREM PolicyNeverLost == Spec => PolicyKept
<1>1. RegistryInv /\ [Next]_vars =>
        [\A t \in Tenants :
            engines[t] # Absent /\ engines'[t] = Absent => Absent \in held[t]]_vars
  <2> SUFFICES ASSUME RegistryInv, [Next]_vars, NEW t \in Tenants,
                      engines[t] # Absent, engines'[t] = Absent
               PROVE  Absent \in held[t]
    OBVIOUS
  <2> USE DEF RegistryInv, TypeOK
  <2>1. CASE Remove
    <3>1. event.tenant = t
      BY <2>1 DEF Remove, RegistryEvent
    <3> QED
      BY <2>1, <3>1 DEF Remove, EventInv, Reported
  <2>2. ASSUME NEW s \in Tenants, Scan(s) PROVE FALSE
    BY <2>2 DEF Scan, Loads
  <2>3. CASE Upsert
    BY <2>3 DEF Upsert, Loads, RegistryEvent
  <2>4. ASSUME NEW s \in Tenants, NEW c \in Contents \cup {Absent},
               NEW k \in {"upsert", "remove"}, Edit(s, c, k)
        PROVE  FALSE
    BY <2>4 DEF Edit
  <2>5. CASE StartWatch \/ Receive \/ Debounce \/ UNCHANGED vars
    BY <2>5 DEF StartWatch, Receive, Debounce, vars
  <2>6. CASE List \/ FinishScan \/ \E s \in Tenants : SkipEntry(s)
    BY <2>6 DEF List, FinishScan, SkipEntry
  <2> QED
    BY <2>1, <2>2, <2>3, <2>4, <2>5, <2>6, EditOf DEF Next, Startup, WatcherStep, Apply
<1> QED
  BY <1>1, RegistryInductive, PTL DEF Spec, PolicyKept

=============================================================================
