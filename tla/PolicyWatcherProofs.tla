------------------------- MODULE PolicyWatcherProofs -------------------------
(***************************************************************************)
(* Proofs about the watcher of the default policy, for every directory and *)
(* any number of edits: no content, and no order of edits and reloads,     *)
(* takes away a policy that is in force.                                   *)
(***************************************************************************)
EXTENDS PolicyWatcher, TLAPS

-----------------------------------------------------------------------------
(* The inductive invariant. *)

\* The history of a file holds its content.
HeldInv == \A p \in Paths : files[p] # Absent => files[p] \in held[p]

\* The component in force was held by some file of the directory.
SharedInv == shared # Absent => \E p \in Paths : shared \in held[p] \cap Good

WatcherInv == TypeOK /\ HeldInv /\ SharedInv

-----------------------------------------------------------------------------
USE PathsAssumption

\* What the operator's edits have in common.
LEMMA EditOf ==
  ASSUME NEW p \in Paths, Delete(p) \/ MoveAway(p) \/ \E c \in Contents : Write(p, c)
  PROVE  \E c \in Contents \cup {Absent}, b \in BOOLEAN : Edit(p, c, b)
  BY DEF Delete, MoveAway, Write

\* The initial directory, and an engine without a component.
LEMMA WatcherInit == Init => WatcherInv
  BY DEF Init, WatcherInv, TypeOK, HeldInv, SharedInv, Contents

\* Every step keeps the watcher's state well formed.
LEMMA WatcherTypeStep == TypeOK /\ [Next]_vars => TypeOK'
<1> SUFFICES ASSUME TypeOK, [Next]_vars PROVE TypeOK'
  OBVIOUS
<1> USE DEF TypeOK
<1>1. ASSUME NEW p \in Paths, NEW c \in Contents \cup {Absent}, NEW b \in BOOLEAN, Edit(p, c, b)
      PROVE  TypeOK'
  <2>1. channel' \in Seq(Paths)
    BY <1>1 DEF Edit
  <2> QED
    BY <1>1, <2>1 DEF Edit
<1>2. CASE StartWatch
  BY <1>2 DEF StartWatch
<1>3. CASE Receive
  BY <1>3 DEF Receive
<1>4. CASE Debounce
  BY <1>4 DEF Debounce
<1>5. CASE Reload
  BY <1>5 DEF Reload
<1>6. CASE UNCHANGED vars
  BY <1>6 DEF vars
<1> HIDE DEF TypeOK
<1>7. ASSUME NEW p \in Paths, Delete(p) \/ MoveAway(p) \/ \E c \in Contents : Write(p, c)
      PROVE  TypeOK'
  BY <1>1, <1>7, EditOf
<1> QED
  BY <1>2, <1>3, <1>4, <1>5, <1>6, <1>7 DEF Next, WatcherStep

\* Every step of the watcher and every edit preserves the invariant.
LEMMA WatcherInvStep == WatcherInv /\ [Next]_vars => WatcherInv'
<1> SUFFICES ASSUME WatcherInv, [Next]_vars PROVE HeldInv' /\ SharedInv'
  BY WatcherTypeStep DEF WatcherInv
<1> USE DEF WatcherInv, TypeOK
<1>1. ASSUME NEW p \in Paths, NEW c \in Contents \cup {Absent}, NEW b \in BOOLEAN, Edit(p, c, b)
      PROVE  HeldInv' /\ SharedInv'
  <2>1. c \in held'[p] /\ \A q \in Paths : held[q] \subseteq held'[q]
    BY <1>1 DEF Edit
  <2>2. HeldInv'
    BY <1>1, <2>1 DEF Edit, HeldInv
  <2>3. SharedInv'
    BY <1>1, <2>1 DEF Edit, SharedInv
  <2> QED
    BY <2>2, <2>3
<1>2. CASE Reload
  BY <1>2 DEF Reload, HeldInv, SharedInv
<1>3. CASE StartWatch \/ Receive \/ Debounce \/ UNCHANGED vars
  BY <1>3 DEF StartWatch, Receive, Debounce, vars, HeldInv, SharedInv
<1> QED
  BY <1>1, <1>2, <1>3, EditOf DEF Next, WatcherStep

\* In every reachable state the engine agrees with the directory's history.
LEMMA WatcherInductive == Spec => []WatcherInv
  BY WatcherInit, WatcherInvStep, PTL DEF Spec

-----------------------------------------------------------------------------
(***************************************************************************)
(* Type correctness: in particular the engine never runs a content that    *)
(* does not compile.                                                       *)
(***************************************************************************)
THEOREM WatcherTypeCorrect == Spec => []TypeOK
<1>1. WatcherInv => TypeOK
  BY DEF WatcherInv
<1> QED
  BY <1>1, WatcherInductive, PTL

(***************************************************************************)
(* A policy that is in force is followed only by another one: no reload of *)
(* a missing, corrupt or half-written file leaves the fallback without one *)
(* ("If compilation fails the current engine remains untouched").          *)
(***************************************************************************)
THEOREM EngineNeverLost == Spec => EngineSurvives
<1>1. WatcherInv /\ WatcherInv' /\ [Next]_vars =>
        [shared # Absent => \E p \in Paths : shared' \in held'[p] \cap Good]_vars
  <2> SUFFICES ASSUME WatcherInv, WatcherInv', [Next]_vars, shared # Absent
               PROVE  \E p \in Paths : shared' \in held'[p] \cap Good
    OBVIOUS
  <2>1. shared' # Absent
    <3>1. ASSUME NEW p \in Paths, NEW c \in Contents \cup {Absent}, NEW b \in BOOLEAN,
                 Edit(p, c, b)
          PROVE  shared' # Absent
      BY <3>1 DEF Edit
    <3>2. CASE Reload
      BY <3>2 DEF Reload
    <3>3. CASE StartWatch \/ Receive \/ Debounce \/ UNCHANGED vars
      BY <3>3 DEF StartWatch, Receive, Debounce, vars
    <3> QED
      BY <3>1, <3>2, <3>3, EditOf DEF Next, WatcherStep
  <2> QED
    BY <2>1 DEF WatcherInv, SharedInv
<1> QED
  BY <1>1, WatcherInductive, WatcherInvStep, PTL DEF Spec, EngineSurvives

=============================================================================
