----------------------------- MODULE PolicyWatcher -----------------------------
(***************************************************************************)
(* The watcher of the default policy (safegate-wasm/src/watcher.rs), as    *)
(* main.rs starts it: with an engine that has no component, on the policy  *)
(* directory.  Files and contents are as in PolicyRegistry; `shared` is    *)
(* the content the engine behind the ArcSwap was compiled from.            *)
(***************************************************************************)
EXTENDS Integers, Sequences

CONSTANTS
    Paths,     \* the .wasm paths of the policy directory
    Default,   \* default.wasm
    Good,      \* contents that compile
    Corrupt,   \* contents that do not
    Absent,    \* no such file; for the engine: no component
    Edits,     \* which of "write", "delete", "move" the operator makes
    MaxEdits   \* bound: the number of edits of the directory

ASSUME PathsAssumption ==
    /\ Default \in Paths
    /\ Good \cap Corrupt = {} /\ Absent \notin Good \cup Corrupt
    /\ Edits \subseteq {"write", "delete", "move"}
    /\ MaxEdits \in Nat

VARIABLES
    files,     \* the policy directory
    shared,    \* PolicyWatcher.shared
    watcher,   \* where the watcher task is
    wasm_path, \* the path the loop is handling (meaningless in recv)
    channel,   \* the mpsc channel from the notify callback
    edits,     \* the number of edits made so far
    unseen,    \* history: files whose content dates from before watch()
    held       \* history: what each file held

vars == <<files, shared, watcher, wasm_path, channel, edits, unseen, held>>

Contents == Good \cup Corrupt

-----------------------------------------------------------------------------
\* PolicyWatcher::new does not look at the directory.
Init ==
    /\ files \in [Paths -> Contents \cup {Absent}]
    /\ shared = Absent
    /\ watcher = "starting"
    /\ wasm_path = Default
    /\ channel = <<>>
    /\ edits = 0
    /\ unseen = Paths
    /\ held = [p \in Paths |-> {files[p]} \ {Absent}]

\* External: an edit; `reported` when its kind passes handle_notify_event.
Edit(p, content, reported) ==
    /\ edits < MaxEdits
    /\ edits' = edits + 1
    /\ files' = [files EXCEPT ![p] = content]
    /\ held' = [held EXCEPT ![p] = @ \cup {content}]
    /\ IF watcher \in {"starting", "disabled"}
       THEN unseen' = unseen \cup {p} /\ UNCHANGED channel
       ELSE /\ unseen' = unseen \ {p}
            /\ channel' = IF reported THEN Append(channel, p) ELSE channel
    /\ UNCHANGED <<shared, watcher, wasm_path>>

Write(p, c) == "write" \in Edits /\ Edit(p, c, TRUE)

\* EventKind::Remove is filtered out.
Delete(p) == "delete" \in Edits /\ files[p] # Absent /\ Edit(p, Absent, FALSE)

\* A move away is Modify(Name), which is not.
MoveAway(p) == "move" \in Edits /\ files[p] # Absent /\ Edit(p, Absent, TRUE)

\* watch_policy_dir up to its loop: the watch is set up, or one step fails.
StartWatch ==
    /\ watcher = "starting"
    /\ watcher' \in {"recv", "disabled"}
    /\ UNCHANGED <<files, shared, wasm_path, channel, edits, unseen, held>>

\* rx.recv() yields a path; the task sleeps for the debounce interval.
Receive ==
    /\ watcher = "recv" /\ channel # <<>>
    /\ wasm_path' = Head(channel)
    /\ channel' = Tail(channel)
    /\ watcher' = "sleep"
    /\ UNCHANGED <<files, shared, edits, unseen, held>>

\* while rx.try_recv().is_ok() {}: everything that is queued is discarded.
Debounce ==
    /\ watcher = "sleep"
    /\ channel' = <<>>
    /\ watcher' = "apply"
    /\ UNCHANGED <<files, shared, wasm_path, edits, unseen, held>>

\* Mutant of Reload: the engine is stored before its component is loaded.
ReloadStoresFirst ==
    /\ watcher = "apply"
    /\ shared' = IF files[wasm_path] \in Good THEN files[wasm_path] ELSE Absent
    /\ watcher' = "recv"
    /\ UNCHANGED <<files, wasm_path, channel, edits, unseen, held>>

\* Mutant of Reload: whatever is in the file is taken for a component.
ReloadUnvalidated ==
    /\ watcher = "apply"
    /\ shared' = files[wasm_path]
    /\ watcher' = "recv"
    /\ UNCHANGED <<files, wasm_path, channel, edits, unseen, held>>

\* Mutant of Reload: a file that fails to compile ends the loop.
ReloadGivesUp ==
    /\ watcher = "apply"
    /\ shared' = IF files[wasm_path] \in Good THEN files[wasm_path] ELSE shared
    /\ watcher' = IF files[wasm_path] \in Good THEN "recv" ELSE "ended"
    /\ UNCHANGED <<files, wasm_path, channel, edits, unseen, held>>

\* reload_policy: compiles the file as it is now; a failure keeps the engine.
Reload ==
    /\ watcher = "apply"
    /\ shared' = IF files[wasm_path] \in Good THEN files[wasm_path] ELSE shared
    /\ watcher' = "recv"
    /\ UNCHANGED <<files, wasm_path, channel, edits, unseen, held>>

WatcherStep == StartWatch \/ Receive \/ Debounce \/ Reload

Next ==
    \/ WatcherStep
    \/ \E p \in Paths :
          \/ Delete(p) \/ MoveAway(p)
          \/ \E c \in Contents : Write(p, c)

\* The watcher task is polled whenever it can go on.
Spec == Init /\ [][Next]_vars /\ WF_vars(WatcherStep)

-----------------------------------------------------------------------------
TypeOK ==
    /\ files \in [Paths -> Contents \cup {Absent}]
    /\ shared \in Good \cup {Absent}
    /\ watcher \in {"starting", "disabled", "recv", "sleep", "apply"}
    /\ wasm_path \in Paths
    /\ channel \in Seq(Paths)
    /\ edits \in 0 .. MaxEdits
    /\ unseen \in SUBSET Paths
    /\ held \in [Paths -> SUBSET (Contents \cup {Absent})]

(***************************************************************************)
(* watcher.rs:10: "If compilation fails the current engine remains         *)
(* untouched".  Over whole histories: once a policy is in force the        *)
(* fallback is never without one again, and what is in force is a          *)
(* component some file of the directory held.                              *)
(***************************************************************************)
EngineSurvives ==
    [][shared # Absent => \E p \in Paths : shared' \in held'[p] \cap Good]_vars

(***************************************************************************)
(* As long as only default.wasm is reported, the debounce loses nothing:   *)
(* its last write is loaded if it compiles, after any burst of good,       *)
(* corrupt and half-written contents, also one that falls between the      *)
(* drain and the reload (watcher.rs:117-122).                              *)
(***************************************************************************)
DefaultConverges ==
    [](\A i \in DOMAIN channel : channel[i] = Default) =>
        <>[](watcher # "disabled" /\ Default \notin unseen /\ files[Default] \in Good
                => shared = files[Default])

=============================================================================
