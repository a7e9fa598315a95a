---------------------------- MODULE PolicyRegistry ----------------------------
(***************************************************************************)
(* The multi-tenant policy registry of safegate-wasm/src/registry.rs: the  *)
(* startup scan of the tenant directory, the notify callback and the       *)
(* watcher task that debounces its events and swaps the tenant map.        *)
(*                                                                         *)
(* A file is the content it holds; some contents compile to a component    *)
(* and some (a corrupt or half-written file) do not.  An entry of the map  *)
(* is the content its engine was compiled from.  The directory is edited   *)
(* by its operator, concurrently with everything the registry does.        *)
(***************************************************************************)
EXTENDS Integers, Sequences

CONSTANTS
    Tenants,   \* the tenant ids: the stems of <tenant_id>.wasm
    Good,      \* contents that compile
    Corrupt,   \* contents that do not
    Absent,    \* no such file, or no entry in the map
    Edits,     \* which of "write", "delete", "move" the operator makes
    MaxEdits   \* bound: the number of edits of the directory

ASSUME TenantsAssumption == Tenants # {}

ASSUME ContentsAssumption ==
    /\ Good \cap Corrupt = {} /\ Absent \notin Good \cup Corrupt
    /\ Edits \subseteq {"write", "delete", "move"}
    /\ MaxEdits \in Nat

VARIABLES
    files,     \* the tenant directory
    engines,   \* PolicyRegistry.engines
    unscanned, \* the entries read_dir has in store for load_all_from_dir
    watcher,   \* where startup and the watcher task are
    event,     \* the event the loop is handling (meaningless in recv)
    channel,   \* the mpsc channel from the notify callback
    edits,     \* the number of edits made so far
    missed,    \* history: tenants whose file, or last edit, neither the scan
               \* nor the watch came upon
    held       \* history: what each file held, Absent once it was taken away

vars == <<files, engines, unscanned, watcher, event, channel, edits, missed, held>>

Contents == Good \cup Corrupt

\* RegistryEvent
RegistryEvent == [kind : {"upsert", "remove"}, tenant : Tenants]

-----------------------------------------------------------------------------
Init ==
    /\ files \in [Tenants -> Contents \cup {Absent}]
    /\ engines = [t \in Tenants |-> Absent]
    /\ unscanned = {}
    /\ watcher = "listing"
    /\ event = [kind |-> "upsert", tenant |-> CHOOSE t \in Tenants : TRUE]
    /\ channel = <<>>
    /\ edits = 0
    /\ missed = {}
    /\ held = [t \in Tenants |-> {files[t]} \ {Absent}]

(***************************************************************************)
(* External: an edit before the directory is watched.  The listing shows   *)
(* what is there when it is read, and a file is loaded as it is at its     *)
(* turn.  A new file may or may not be among the entries still to come;    *)
(* any other edit goes unnoticed.                                          *)
(***************************************************************************)
Unwatched(t) ==
    \/ /\ \/ watcher = "listing"
          \/ watcher = "scanning" /\ t \in unscanned /\ files[t] # Absent
       /\ UNCHANGED <<unscanned, missed>>
    \/ /\ watcher = "scanning" /\ files[t] = Absent
       /\ unscanned' = unscanned \cup {t}
       /\ UNCHANGED missed
    \/ /\ \/ watcher = "scanning" /\ (t \notin unscanned \/ files[t] = Absent)
          \/ watcher \in {"starting", "disabled"}
       /\ unscanned' = unscanned \ {t}
       /\ missed' = missed \cup {t}

(***************************************************************************)
(* External: an edit of the directory.  Once the directory is watched,     *)
(* notify reports it and handle_notify_event enqueues an event.  A move    *)
(* out of the directory is reported as Modify(Name), hence as an Upsert.   *)
(***************************************************************************)
Edit(t, content, kind) ==
    /\ edits < MaxEdits
    /\ edits' = edits + 1
    /\ files' = [files EXCEPT ![t] = content]
    /\ held' = [held EXCEPT ![t] = @ \cup {content}]
    /\ IF watcher \in {"listing", "scanning", "starting", "disabled"}
       THEN Unwatched(t) /\ UNCHANGED channel
       ELSE /\ channel' = Append(channel, [kind |-> kind, tenant |-> t])
            /\ missed' = missed \ {t}
            /\ UNCHANGED unscanned
    /\ UNCHANGED <<engines, watcher, event>>

Write(t, c) == "write" \in Edits /\ Edit(t, c, "upsert")

Delete(t) == "delete" \in Edits /\ files[t] # Absent /\ Edit(t, Absent, "remove")

MoveAway(t) == "move" \in Edits /\ files[t] # Absent /\ Edit(t, Absent, "upsert")

\* Mutant of Loads: the engine is kept whether or not the file compiled.
LoadsAnything(t) == files[t] # Absent

\* load_tenant_engine(path).is_some(), for the file as it is now.
Loads(t) == files[t] \in Good

\* PolicyRegistry::new: read_dir lists the files, or fails (or there is no
\* such directory) and the map stays empty.
List ==
    /\ watcher = "listing"
    /\ LET present == {t \in Tenants : files[t] # Absent}
       IN  \/ /\ watcher' = "scanning" /\ unscanned' = present
              /\ UNCHANGED missed
           \/ /\ watcher' = "starting" /\ missed' = present
              /\ UNCHANGED unscanned
    /\ UNCHANGED <<files, engines, event, channel, edits, held>>

\* One entry of load_all_from_dir.
Scan(t) ==
    /\ watcher = "scanning" /\ t \in unscanned
    /\ unscanned' = unscanned \ {t}
    /\ engines' = IF Loads(t) THEN [engines EXCEPT ![t] = files[t]] ELSE engines
    /\ UNCHANGED <<files, watcher, event, channel, edits, missed, held>>

\* An entry that read_dir fails to read: flatten() passes over it.
SkipEntry(t) ==
    /\ watcher = "scanning" /\ t \in unscanned
    /\ unscanned' = unscanned \ {t}
    /\ missed' = missed \cup {t}
    /\ UNCHANGED <<files, engines, watcher, event, channel, edits, held>>

\* The entries are exhausted: new returns.
FinishScan ==
    /\ watcher = "scanning" /\ unscanned = {}
    /\ watcher' = "starting"
    /\ UNCHANGED <<files, engines, unscanned, event, channel, edits, missed, held>>

\* watch_tenant_dir up to its loop: the watch is set up, or one step fails.
StartWatch ==
    /\ watcher = "starting"
    /\ watcher' \in {"recv", "disabled"}
    /\ UNCHANGED <<files, engines, unscanned, event, channel, edits, missed, held>>

\* rx.recv() yields an event; the task sleeps for the debounce interval.
Receive ==
    /\ watcher = "recv" /\ channel # <<>>
    /\ event' = Head(channel)
    /\ channel' = Tail(channel)
    /\ watcher' = "sleep"
    /\ UNCHANGED <<files, engines, unscanned, edits, missed, held>>

\* while rx.try_recv().is_ok() {}: everything that is queued is discarded.
Debounce ==
    /\ watcher = "sleep"
    /\ channel' = <<>>
    /\ watcher' = "apply"
    /\ UNCHANGED <<files, engines, unscanned, event, edits, missed, held>>

\* Mutant of Upsert: a file that fails to compile drops the tenant's entry.
UpsertOrDrop ==
    LET t == event.tenant
    IN  /\ watcher = "apply" /\ event.kind = "upsert"
        /\ engines' = [engines EXCEPT ![t] = IF Loads(t) THEN files[t] ELSE Absent]
        /\ watcher' = "recv"
        /\ UNCHANGED <<files, unscanned, event, channel, edits, missed, held>>

\* Mutant of Upsert: the loop ends after the first change, as `if let` would.
UpsertOnce ==
    LET t == event.tenant
    IN  /\ watcher = "apply" /\ event.kind = "upsert"
        /\ engines' = IF Loads(t) THEN [engines EXCEPT ![t] = files[t]] ELSE engines
        /\ watcher' = "ended"
        /\ UNCHANGED <<files, unscanned, event, channel, edits, missed, held>>

\* upsert_tenant: reads the file as it is now; a failure keeps the old engine.
Upsert ==
    LET t == event.tenant
    IN  /\ watcher = "apply" /\ event.kind = "upsert"
        /\ engines' = IF Loads(t) THEN [engines EXCEPT ![t] = files[t]] ELSE engines
        /\ watcher' = "recv"
        /\ UNCHANGED <<files, unscanned, event, channel, edits, missed, held>>

\* remove_tenant: does not look at the directory.
Remove ==
    /\ watcher = "apply" /\ event.kind = "remove"
    /\ engines' = [engines EXCEPT ![event.tenant] = Absent]
    /\ watcher' = "recv"
    /\ UNCHANGED <<files, unscanned, event, channel, edits, missed, held>>

\* match event { .. }, and back to recv.
Apply == Upsert \/ Remove

\* PolicyRegistry::new
Startup == List \/ (\E t \in Tenants : Scan(t) \/ SkipEntry(t)) \/ FinishScan

WatcherStep == StartWatch \/ Receive \/ Debounce \/ Apply

Next ==
    \/ Startup
    \/ WatcherStep
    \/ \E t \in Tenants :
          Delete(t) \/ MoveAway(t) \/ \E c \in Contents : Write(t, c)

\* PolicyRegistry::new runs to its end and the watcher task is polled.
Spec == Init /\ [][Next]_vars /\ WF_vars(Startup) /\ WF_vars(WatcherStep)

-----------------------------------------------------------------------------
TypeOK ==
    /\ files \in [Tenants -> Contents \cup {Absent}]
    /\ engines \in [Tenants -> Good \cup {Absent}]
    /\ unscanned \in SUBSET Tenants
    /\ watcher \in {"listing", "scanning", "starting", "disabled",
                    "recv", "sleep", "apply"}
    /\ event \in RegistryEvent
    /\ channel \in Seq(RegistryEvent)
    /\ edits \in 0 .. MaxEdits
    /\ missed \in SUBSET Tenants
    /\ held \in [Tenants -> SUBSET (Contents \cup {Absent})]

(***************************************************************************)
(* Tenants are isolated: an entry of the map was compiled from a content   *)
(* that this tenant's own file held, whatever events were merged, dropped  *)
(* or applied late.                                                        *)
(***************************************************************************)
EnginesGenuine ==
    \A t \in Tenants : engines[t] # Absent => engines[t] \in held[t] \cap Good

(***************************************************************************)
(* Zero-downtime reload: once a tenant has a policy it keeps one for as    *)
(* long as its file is never taken away; no corrupt or half-written file,  *)
(* and no merging of events, leaves it with the fallback engine.           *)
(***************************************************************************)
PolicyKept ==
    [][\A t \in Tenants :
          engines[t] # Absent /\ engines'[t] = Absent => Absent \in held[t]]_vars

(***************************************************************************)
(* A tenant whose upserts share the channel with no other event loses      *)
(* nothing to the debounce: whatever bursts of writes hit its file, during *)
(* the scan, after watch() and between drain and reload, its entry ends up *)
(* compiled from the file's last content if that compiles.  The exception  *)
(* is a file or a write that neither the scan nor the watch came upon: the *)
(* directory could not be listed, or the write fell between the file's     *)
(* turn (its absence from the listing) and watch().                        *)
(***************************************************************************)
LoneUpsertsConverge ==
    \A t \in Tenants :
        [](\A i \in DOMAIN channel :
              channel[i] = [kind |-> "upsert", tenant |-> t]) =>
            <>[](watcher # "disabled" /\ t \notin missed /\ Loads(t) =>
                    engines[t] = files[t])

(***************************************************************************)
(* registry.rs:4: the registry "keeps [the map] live by watching a         *)
(* directory": when the loop is idle the map reflects the directory.       *)
(***************************************************************************)
KeepsLive ==
    watcher = "recv" /\ channel = <<>> =>
        \A t \in Tenants \ missed :
            /\ Loads(t) => engines[t] = files[t]
            /\ files[t] = Absent => engines[t] = Absent

=============================================================================
