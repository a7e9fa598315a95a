------------------------------- MODULE AuditLog -------------------------------
(***************************************************************************)
(* The audit writer (safegate-audit/src/writer.rs): AuditLogger::log       *)
(* enqueues an entry on an unbounded channel, and one background task      *)
(* writes the entries as lines through a BufWriter over tokio's File (or   *)
(* Stdout), which hands every write to a blocking thread and reports its   *)
(* failure at the next call.                                               *)
(*                                                                         *)
(* The sink is a sequence of pieces: whole lines, torn lines, newlines.    *)
(* The process may end at any point and be started again on the same sink. *)
(* Serialising an AuditLogEntry cannot fail (it holds strings and a unit   *)
(* enum only), so the `continue` of that branch has no counterpart here.   *)
(***************************************************************************)
EXTENDS Integers, FiniteSets, Sequences, Functions

CONSTANTS
    Entries,    \* the entries requests produce
    Size,       \* the length of each entry's line; a newline has length 1
    Capacity,   \* the capacity of the BufWriter
    MaxFaults,  \* bound: the number of writes that fail
    MaxCrashes  \* bound: the number of times the process ends

ASSUME SizesAssumption ==
    /\ Entries # {}
    /\ Capacity \in Nat /\ Capacity > 1
    /\ Size \in [Entries -> Nat \ {0}]
    /\ MaxFaults \in Nat /\ MaxCrashes \in Nat

VARIABLES
    channel,   \* the mpsc channel
    closed,    \* every clone of the AuditLogger was dropped
    writer,    \* where the background task is
    entry,     \* the entry it is writing (meaningless elsewhere)
    buffer,    \* the pieces the BufWriter holds back
    held,      \* their number of bytes
    inflight,  \* the bytes a blocking thread is writing
    failed,    \* that write failed, and no call has reported it yet
    sink,      \* what the file holds
    logged,    \* history: the entries passed to log, in order
    written,   \* history: the entries whose write_line returned Ok
    lost,      \* history: the entries given up
    faults,    \* the number of failed writes
    crashes    \* the number of times the process ended

queueing == <<channel, closed>>
bytes    == <<buffer, held, inflight, failed, sink>>
history  == <<logged, written, lost>>
vars     == <<queueing, writer, entry, bytes, history, faults, crashes>>

-----------------------------------------------------------------------------
(* Pieces of output. *)

Newline == [of |-> "newline", whole |-> TRUE]
Line(e) == [of |-> e, whole |-> TRUE]
Torn(p) == [p EXCEPT !.whole = FALSE]

Pieces == {Newline} \cup [of : Entries, whole : BOOLEAN]

Length(p) == IF p = Newline THEN 1 ELSE Size[p.of]

\* What reaches the sink of a write that fails: whole pieces, then part of one.
Fragments(ps) ==
    LET Prefix(n) == SubSeq(ps, 1, n)
        cuts == 0 .. Len(ps) - 1
    IN  {Prefix(n) : n \in cuts}
          \cup {Prefix(n) \o <<Torn(ps[n + 1])>> : n \in {m \in cuts : ps[m + 1] # Newline}}

-----------------------------------------------------------------------------
Init ==
    /\ channel = <<>> /\ closed = FALSE
    /\ writer = "opening"
    /\ entry = CHOOSE e \in Entries : TRUE
    /\ buffer = <<>> /\ held = 0 /\ inflight = <<>> /\ failed = FALSE
    /\ sink = <<>>
    /\ logged = <<>> /\ written = {} /\ lost = {}
    /\ faults = 0 /\ crashes = 0

\* Mutant of Log: the channel has room for one entry, and try_send is ignored.
LogBounded(e) ==
    /\ writer # "down" /\ ~closed
    /\ e \notin Range(logged)
    /\ logged' = Append(logged, e)
    /\ IF writer = "gone" \/ channel # <<>>
       THEN lost' = lost \cup {e} /\ UNCHANGED channel
       ELSE channel' = Append(channel, e) /\ UNCHANGED lost
    /\ UNCHANGED <<closed, writer, entry, bytes, written, faults, crashes>>

\* AuditLogger::log: the send fails only when the receiver was dropped.
Log(e) ==
    /\ writer # "down" /\ ~closed
    /\ e \notin Range(logged)
    /\ logged' = Append(logged, e)
    /\ IF writer = "gone"
       THEN lost' = lost \cup {e} /\ UNCHANGED channel
       ELSE channel' = Append(channel, e) /\ UNCHANGED lost
    /\ UNCHANGED <<closed, writer, entry, bytes, written, faults, crashes>>

\* The last sender is dropped.
Close ==
    /\ writer # "down" /\ ~closed
    /\ closed' = TRUE
    /\ UNCHANGED <<channel, writer, entry, bytes, history, faults, crashes>>

\* OpenOptions::open: on failure the task returns and drops the receiver.
Open ==
    /\ writer = "opening"
    /\ \/ writer' = "recv" /\ UNCHANGED <<channel, lost>>
       \/ /\ writer' = "gone"
          /\ channel' = <<>>
          /\ lost' = lost \cup Range(channel)
    /\ UNCHANGED <<closed, entry, bytes, logged, written, faults, crashes>>

\* rx.recv(): an entry, or None once the channel is closed and empty.
Receive ==
    /\ writer = "recv"
    /\ \/ /\ channel # <<>>
          /\ entry' = Head(channel) /\ channel' = Tail(channel)
          /\ writer' = "line"
       \/ /\ channel = <<>> /\ closed
          /\ writer' = "closing"
          /\ UNCHANGED <<entry, channel>>
    /\ UNCHANGED <<closed, bytes, history, faults, crashes>>

\* What the current call of write_all is writing.
Piece == IF writer = "line" THEN Line(entry) ELSE Newline

\* The BufWriter has to pass its bytes on before it can go on.
MustSpill ==
    /\ buffer # <<>>
    /\ \/ writer \in {"line", "newline"} /\ held + Length(Piece) > Capacity
       \/ writer \in {"flush", "closing"}

\* A piece that fills the buffer on its own bypasses it.
Direct == writer \in {"line", "newline"} /\ Length(Piece) >= Capacity

\* The current call needs the file below, and the file is idle.
AtFile ==
    /\ MustSpill \/ Direct \/ writer \in {"flush", "closing"}
    /\ inflight = <<>>

Advance == writer' = IF writer = "line" THEN "newline" ELSE "flush"

\* BufWriter::flush_buf: the held back bytes are handed on in one write.
Spill ==
    /\ MustSpill /\ AtFile /\ ~failed
    /\ inflight' = buffer /\ buffer' = <<>> /\ held' = 0
    /\ UNCHANGED <<queueing, writer, entry, failed, sink, history, faults, crashes>>

\* Mutant of WriteAll: the newline is written only into an empty buffer.
WriteAllOnce ==
    /\ writer \in {"line", "newline"} /\ ~MustSpill
    /\ IF Direct
       THEN AtFile /\ ~failed /\ inflight' = <<Piece>> /\ UNCHANGED <<buffer, held>>
       ELSE /\ buffer' = IF buffer = <<>> THEN <<Piece>> ELSE buffer
            /\ held' = IF buffer = <<>> THEN Length(Piece) ELSE held
            /\ UNCHANGED inflight
    /\ Advance
    /\ UNCHANGED <<queueing, entry, failed, sink, history, faults, crashes>>

\* writer.write_all of the line or of the newline, once there is room.
WriteAll ==
    /\ writer \in {"line", "newline"} /\ ~MustSpill
    /\ IF Direct
       THEN AtFile /\ ~failed /\ inflight' = <<Piece>> /\ UNCHANGED <<buffer, held>>
       ELSE /\ buffer' = Append(buffer, Piece) /\ held' = held + Length(Piece)
            /\ UNCHANGED inflight
    /\ Advance
    /\ UNCHANGED <<queueing, entry, failed, sink, history, faults, crashes>>

\* Mutant of Flush: the buffer is flushed, the file below it is not.
FlushBufferOnly ==
    /\ writer \in {"flush", "closing"} /\ ~MustSpill
    /\ writer' = IF writer = "flush" THEN "recv" ELSE "ended"
    /\ written' = IF writer = "flush" THEN written \cup {entry} ELSE written
    /\ UNCHANGED <<queueing, entry, bytes, logged, lost, faults, crashes>>

\* writer.flush() returns Ok: every byte was handed on and reached the sink.
Flush ==
    /\ writer \in {"flush", "closing"} /\ ~MustSpill
    /\ AtFile /\ ~failed
    /\ writer' = IF writer = "flush" THEN "recv" ELSE "ended"
    /\ written' = IF writer = "flush" THEN written \cup {entry} ELSE written
    /\ UNCHANGED <<queueing, entry, bytes, logged, lost, faults, crashes>>

\* Mutant of Fail: the entry is put back to be tried again.
FailRequeues ==
    /\ AtFile /\ failed
    /\ failed' = FALSE
    /\ writer' = IF writer = "closing" THEN "ended" ELSE "recv"
    /\ channel' = IF writer = "closing" THEN channel ELSE Append(channel, entry)
    /\ lost' = IF writer = "closing" THEN lost ELSE lost \cup {entry}
    /\ UNCHANGED <<closed, entry, buffer, held, inflight, sink, logged, written,
                   faults, crashes>>

\* Mutant of Fail: the error ends the task's loop.
FailEnds ==
    /\ AtFile /\ failed
    /\ failed' = FALSE
    /\ writer' = "ended"
    /\ lost' = IF writer = "closing" THEN lost ELSE lost \cup {entry}
    /\ UNCHANGED <<queueing, entry, buffer, held, inflight, sink, logged, written,
                   faults, crashes>>

\* A call reports the failed write: write_line returns Err, the loop goes on.
Fail ==
    /\ AtFile /\ failed
    /\ failed' = FALSE
    /\ writer' = IF writer = "closing" THEN "ended" ELSE "recv"
    /\ lost' = IF writer = "closing" THEN lost ELSE lost \cup {entry}
    /\ UNCHANGED <<queueing, entry, buffer, held, inflight, sink, logged, written,
                   faults, crashes>>

\* External: the blocking thread finishes its write, or fails half-way.
Disk ==
    /\ inflight # <<>>
    /\ inflight' = <<>>
    /\ \/ sink' = sink \o inflight /\ UNCHANGED <<failed, faults>>
       \/ /\ faults < MaxFaults
          /\ faults' = faults + 1
          /\ failed' = TRUE
          /\ \E part \in Fragments(inflight) : sink' = sink \o part
    /\ UNCHANGED <<queueing, writer, entry, buffer, held, history, crashes>>

\* External: the process ends; only what reached the sink survives.
Crash ==
    /\ writer # "down" /\ crashes < MaxCrashes
    /\ crashes' = crashes + 1
    /\ writer' = "down"
    /\ \E part \in Fragments(inflight) \cup {inflight} : sink' = sink \o part
    /\ channel' = <<>> /\ buffer' = <<>> /\ held' = 0
    /\ inflight' = <<>> /\ failed' = FALSE
    /\ lost' = Range(logged) \ written
    /\ UNCHANGED <<closed, entry, logged, written, faults>>

\* AuditLogger::new in the next process, on the same file.
Restart ==
    /\ writer = "down"
    /\ writer' = "opening" /\ closed' = FALSE
    /\ UNCHANGED <<channel, entry, bytes, history, faults, crashes>>

Writing == Open \/ Receive \/ Spill \/ WriteAll \/ Flush \/ Fail

Next ==
    \/ \E e \in Entries : Log(e)
    \/ Close \/ Writing \/ Disk \/ Crash \/ Restart

\* The runtime polls the task, and the blocking thread finishes its write.
Spec == Init /\ [][Next]_vars /\ WF_vars(Writing) /\ WF_vars(Disk)

-----------------------------------------------------------------------------
(* Properties. *)

Stages == {"opening", "recv", "line", "newline", "flush", "closing", "ended",
           "gone", "down"}

TypeOK ==
    /\ channel \in Seq(Entries) /\ closed \in BOOLEAN
    /\ writer \in Stages
    /\ entry \in Entries
    /\ buffer \in Seq(Pieces) /\ inflight \in Seq(Pieces) /\ sink \in Seq(Pieces)
    /\ held \in Nat /\ failed \in BOOLEAN
    /\ logged \in Seq(Entries)
    /\ lost \in SUBSET Range(logged) /\ written \in SUBSET (Range(logged) \ lost)
    /\ faults \in 0 .. MaxFaults /\ crashes \in 0 .. MaxCrashes

\* Where the sink holds a whole line.
WholeLines == {i \in DOMAIN sink : sink[i].whole /\ sink[i] # Newline}

\* A reader of JSON lines finds e: its line is whole and stands alone.
Readable(e) ==
    \E i \in DOMAIN sink :
        /\ sink[i] = Line(e)
        /\ i = 1 \/ sink[i - 1] = Newline
        /\ i < Len(sink) /\ sink[i + 1] = Newline

(***************************************************************************)
(* The file tells the order of events: whatever writes fail and whenever   *)
(* the process is restarted, the whole lines are entries in the order they *)
(* were logged, none of them twice (write_entries never retries).          *)
(***************************************************************************)
InOrder ==
    \E f \in [WholeLines -> DOMAIN logged] :
        /\ \A i \in WholeLines : logged[f[i]] = sink[i].of
        /\ \A i, j \in WholeLines : i < j => f[i] < f[j]

(***************************************************************************)
(* Ok means written: when write_line returns Ok the line and its newline   *)
(* are in the sink, so that the end of the process, or the failure of a    *)
(* later write, cannot take them back.                                     *)
(***************************************************************************)
OkIsDurable ==
    \A e \in written :
        \E i \in DOMAIN sink \ {Len(sink)} : sink[i] = Line(e) /\ sink[i + 1] = Newline

(***************************************************************************)
(* Damage is local: a torn line without its newline swallows the entry     *)
(* that is appended to it, and no other.  So at most one acknowledged      *)
(* entry per failed write or end of the process cannot be read back.       *)
(***************************************************************************)
DamageBounded ==
    Cardinality({e \in written : ~Readable(e)}) <= faults + crashes

(***************************************************************************)
(* Nothing vanishes: every entry that is logged is eventually written or   *)
(* given up, by an error the task reports, with a process that ends, or    *)
(* because the sink could not be opened.  A failed write does not stop the *)
(* entries queued behind it.                                               *)
(***************************************************************************)
Drained == \A e \in Entries : e \in Range(logged) ~> e \in written \cup lost

(***************************************************************************)
(* Only failures lose entries: while no write failed, the process did not  *)
(* end and the sink could be opened, every entry is written, being written *)
(* or queued, in order, and every acknowledged one can be read back.       *)
(***************************************************************************)
LossIsFailure ==
    faults = 0 /\ crashes = 0 /\ writer # "gone" =>
        /\ \A e \in written : Readable(e)
        /\ \E n \in 0 .. Len(logged) :
              /\ channel = SubSeq(logged, n + 1, Len(logged))
              /\ written = {logged[i] : i \in 1 .. n} \
                    IF writer \in {"line", "newline", "flush"} THEN {entry} ELSE {}

=============================================================================
