--------------------------- MODULE AuditLogProofs ---------------------------
(***************************************************************************)
(* Proofs about the audit writer, for any entries, line lengths, capacity  *)
(* of the buffer, and any number of failed writes and ends of the process. *)
(*                                                                         *)
(* The argument follows the output from the buffer through the blocking    *)
(* thread into the sink as one sequence, Track: handing bytes on leaves it *)
(* as it is, a call of write_all appends to it, and a failure takes pieces *)
(* out of it or tears one.                                                 *)
(***************************************************************************)
EXTENDS AuditLog, SequenceTheorems, FiniteSetTheorems, TLAPS

-----------------------------------------------------------------------------
(* The inductive invariant. *)

\* The types, without the fates of the entries.
BasicType ==
    /\ channel \in Seq(Entries) /\ closed \in BOOLEAN
    /\ writer \in Stages
    /\ entry \in Entries
    /\ buffer \in Seq(Pieces) /\ inflight \in Seq(Pieces) /\ sink \in Seq(Pieces)
    /\ held \in Nat /\ failed \in BOOLEAN
    /\ logged \in Seq(Entries)
    /\ lost \in SUBSET Range(logged) /\ written \in SUBSET Range(logged)
    /\ faults \in 0 .. MaxFaults /\ crashes \in 0 .. MaxCrashes

\* write_line is at work on entry.
Busy == writer \in {"line", "newline", "flush"}

\* The output from its beginning, wherever its pieces are by now.
Track == (sink \o inflight) \o buffer

IsLine(p) == p.whole /\ p # Newline

\* In the sequence l, a stands before b.
Ahead(l, a, b) == \E i, j \in DOMAIN l : i < j /\ l[i] = a /\ l[j] = b

\* The whole lines of t are entries of l, in the order of l.
InLine(l, t) ==
    /\ \A i \in DOMAIN t : IsLine(t[i]) => t[i].of \in Range(l)
    /\ \A i, j \in DOMAIN t :
          i < j /\ IsLine(t[i]) /\ IsLine(t[j]) => Ahead(l, t[i].of, t[j].of)

\* The whole lines of t are ahead of e in l.
AllAhead(l, t, e) == \A i \in DOMAIN t : IsLine(t[i]) => Ahead(l, t[i].of, e)

\* The output, the entry at hand and the channel follow each other in the
\* order of the calls of log, and no entry was logged twice.
OrderInv ==
    /\ IsInjective(logged)
    /\ InLine(logged, Track)
    /\ Range(channel) \subseteq Range(logged)
    /\ \A i, j \in DOMAIN channel : i < j => Ahead(logged, channel[i], channel[j])
    /\ \A e \in Range(channel) : AllAhead(logged, Track, e)
    /\ Busy => entry \in Range(logged) /\ \A e \in Range(channel) : Ahead(logged, entry, e)
    /\ writer = "line" => AllAhead(logged, Track, entry)

\* An entry has one fate, and none while it is queued or being written.
FateInv ==
    /\ written \cap lost = {}
    /\ Range(channel) \cap (written \cup lost) = {}
    /\ Busy => entry \notin written \cup lost

\* While no write failed, the output ends with what write_line wrote so far.
TailInv ==
    /\ buffer # <<>> => held > 0
    /\ writer = "newline" /\ ~failed =>
          Len(Track) >= 1 /\ Track[Len(Track)] = Line(entry)
    /\ writer = "flush" /\ ~failed =>
          /\ Len(Track) >= 2
          /\ Track[Len(Track) - 1] = Line(entry) /\ Track[Len(Track)] = Newline

Unreadable == {e \in written : ~Readable(e)}

\* Where the line at hand begins, or the next one will.
Slot ==
    IF writer = "newline" THEN Len(Track)
    ELSE IF writer = "flush" THEN Len(Track) - 1
    ELSE Len(Track) + 1

\* A failure that has not cost an acknowledged entry yet, but still may.
Danger == failed \/ (Slot > 1 /\ Track[Slot - 1] # Newline)

DamageInv ==
    Cardinality(Unreadable) + (IF Danger THEN 1 ELSE 0) <= faults + crashes

\* Without failures, the first entries logged were taken from the channel.
Taken == Len(logged) - Len(channel)

LossInv ==
    /\ faults = 0 => ~failed
    /\ crashes = 0 => writer # "down"
    /\ faults = 0 /\ crashes = 0 /\ writer # "gone" =>
          /\ Taken >= 0
          /\ \A k \in DOMAIN channel : channel[k] = logged[Taken + k]
          /\ Busy => Taken >= 1 /\ entry = logged[Taken]
          /\ written = {logged[i] : i \in 1 .. Taken} \ IF Busy THEN {entry} ELSE {}

AuditInv ==
    BasicType /\ OrderInv /\ FateInv /\ TailInv /\ OkIsDurable /\ DamageInv /\ LossInv

-----------------------------------------------------------------------------
(* Facts about pieces and sequences. *)

\* Pieces: a newline is no line, a torn line is none either, and none is empty.
LEMMA PieceFacts ==
  /\ Newline \in Pieces /\ Newline.whole /\ ~IsLine(Newline)
  /\ \A e \in Entries : Line(e) \in Pieces /\ Line(e).of = e /\ Line(e).whole
  /\ \A p \in Pieces : p # Newline =>
        Torn(p) \in Pieces /\ ~IsLine(Torn(p)) /\ Size[p.of] \in Nat /\ Size[p.of] > 0
  /\ \A p \in Pieces : Length(p) \in Nat /\ Length(p) > 0
  /\ \A p \in Pieces : p.whole \in BOOLEAN /\ (IsLine(p) => p.of \in Entries)
<1>1. Newline \in Pieces /\ Newline.whole /\ ~IsLine(Newline)
  BY DEF Newline, Pieces, IsLine
<1>2. \A e \in Entries : Line(e) \in Pieces /\ Line(e).of = e /\ Line(e).whole
  BY DEF Line, Pieces
<1>3. \A p \in Pieces : p # Newline => p.of \in Entries /\ p \in [of : Entries, whole : BOOLEAN]
  BY DEF Pieces
<1>4. \A p \in Pieces : p # Newline => Torn(p) \in [of : Entries, whole : BOOLEAN] /\ ~Torn(p).whole
  BY <1>3 DEF Torn
<1>5. \A p \in Pieces : p # Newline => Torn(p) \in Pieces /\ ~IsLine(Torn(p))
  BY <1>4 DEF Pieces, IsLine
<1>6. \A p \in Pieces : p # Newline => Size[p.of] \in Nat /\ Size[p.of] > 0
  BY <1>3, SizesAssumption
<1>7. \A p \in Pieces : Length(p) \in Nat /\ Length(p) > 0
  BY <1>6 DEF Length
<1>8. \A p \in Pieces : p.whole \in BOOLEAN /\ (IsLine(p) => p.of \in Entries)
  BY <1>1, <1>3 DEF IsLine, Newline
<1> QED
  BY <1>1, <1>2, <1>5, <1>6, <1>7, <1>8

\* A write that fails, or is cut off, leaves no whole line that was not there.
LEMMA FragmentFacts ==
  ASSUME NEW ps \in Seq(Pieces), NEW part \in Fragments(ps) \cup {ps}
  PROVE  /\ part \in Seq(Pieces) /\ Len(part) <= Len(ps)
         /\ \A i \in 1 .. Len(part) : IsLine(part[i]) => part[i] = ps[i]
<1>1. CASE part = ps
  BY <1>1, LenProperties
<1>2. CASE part \in Fragments(ps)
  <2>1. \A n \in 0 .. Len(ps) - 1 :
           /\ SubSeq(ps, 1, n) \in Seq(Pieces) /\ Len(SubSeq(ps, 1, n)) = n
           /\ \A i \in 1 .. n : SubSeq(ps, 1, n)[i] = ps[i]
    <3> TAKE n \in 0 .. Len(ps) - 1
    <3>1. \A i \in 1 .. n : ps[i] \in Pieces
      BY LenProperties
    <3> QED
      BY <3>1, SubSeqProperties, LenProperties
  <2>2. CASE \E n \in 0 .. Len(ps) - 1 : part = SubSeq(ps, 1, n)
    BY <2>1, <2>2, LenProperties
  <2>3. CASE \E n \in 0 .. Len(ps) - 1 :
                ps[n + 1] # Newline /\ part = SubSeq(ps, 1, n) \o <<Torn(ps[n + 1])>>
    <3>1. PICK n \in 0 .. Len(ps) - 1 :
             ps[n + 1] # Newline /\ part = SubSeq(ps, 1, n) \o <<Torn(ps[n + 1])>>
      BY <2>3
    <3>2. Torn(ps[n + 1]) \in Pieces /\ ~IsLine(Torn(ps[n + 1]))
      BY <3>1, PieceFacts, LenProperties
    <3>3. /\ <<Torn(ps[n + 1])>> \in Seq(Pieces) /\ Len(<<Torn(ps[n + 1])>>) = 1
          /\ <<Torn(ps[n + 1])>>[1] = Torn(ps[n + 1])
      BY <3>2
    <3>4. /\ part \in Seq(Pieces) /\ Len(part) = n + 1
          /\ \A i \in 1 .. n + 1 :
                part[i] = IF i <= n THEN SubSeq(ps, 1, n)[i] ELSE <<Torn(ps[n + 1])>>[i - n]
      BY <3>1, <3>3, <2>1, ConcatProperties
    <3>5. \A i \in 1 .. Len(part) : IsLine(part[i]) => part[i] = ps[i]
      BY <3>2, <3>3, <3>4, <2>1
    <3> QED
      BY <3>4, <3>5, LenProperties
  <2> QED
    BY <1>2, <2>2, <2>3 DEF Fragments
<1> QED
  BY <1>1, <1>2

\* A longer log keeps the order; what is logged last comes last.
LEMMA LogKeeps ==
  ASSUME NEW l \in Seq(Entries), NEW e \in Entries, NEW t
  PROVE  /\ Append(l, e) \in Seq(Entries)
         /\ Range(Append(l, e)) = Range(l) \cup {e}
         /\ \A a, b : Ahead(l, a, b) => Ahead(Append(l, e), a, b)
         /\ \A a \in Range(l) : Ahead(Append(l, e), a, e)
         /\ InLine(l, t) => InLine(Append(l, e), t) /\ AllAhead(Append(l, e), t, e)
         /\ \A b : AllAhead(l, t, b) => AllAhead(Append(l, e), t, b)
         /\ e \notin Range(l) /\ IsInjective(l) => IsInjective(Append(l, e))
<1> DEFINE m == Append(l, e)
<1>1. /\ m \in Seq(Entries) /\ Len(m) = Len(l) + 1
      /\ DOMAIN m = 1 .. Len(l) + 1 /\ DOMAIN l = 1 .. Len(l) /\ Len(l) \in Nat
      /\ \A i \in 1 .. Len(l) : m[i] = l[i]
      /\ m[Len(l) + 1] = e
  BY AppendProperties, LenProperties
<1> HIDE DEF m
<1>2. Range(m) = Range(l) \cup {e}
  BY <1>1 DEF Range
<1>3. \A a, b : Ahead(l, a, b) => Ahead(m, a, b)
  <2> SUFFICES ASSUME NEW a, NEW b, Ahead(l, a, b)
               PROVE  Ahead(m, a, b)
    OBVIOUS
  <2>1. PICK i \in DOMAIN l, j \in DOMAIN l : i < j /\ l[i] = a /\ l[j] = b
    BY DEF Ahead
  <2>2. i \in DOMAIN m /\ j \in DOMAIN m /\ m[i] = a /\ m[j] = b
    BY <1>1, <2>1
  <2> QED
    BY <2>1, <2>2 DEF Ahead
<1>4. \A a \in Range(l) : Ahead(m, a, e)
  <2> TAKE a \in Range(l)
  <2>1. PICK i \in DOMAIN l : l[i] = a
    BY DEF Range
  <2>2. i \in DOMAIN m /\ Len(l) + 1 \in DOMAIN m /\ i < Len(l) + 1
    BY <1>1, <2>1
  <2> QED
    BY <2>1, <2>2, <1>1 DEF Ahead
<1>5. InLine(l, t) => InLine(m, t) /\ AllAhead(m, t, e)
  BY <1>2, <1>3, <1>4 DEF InLine, AllAhead
<1>6. \A b : AllAhead(l, t, b) => AllAhead(m, t, b)
  BY <1>3 DEF AllAhead
<1>7. e \notin Range(l) /\ IsInjective(l) => IsInjective(m)
  BY <1>1 DEF IsInjective, Range
<1> QED
  BY <1>1, <1>2, <1>3, <1>4, <1>5, <1>6, <1>7 DEF m

\* Output that grows by the line that is due, or by a newline, keeps the order.
LEMMA AppendKeeps ==
  ASSUME NEW l, NEW t \in Seq(Pieces)
  PROVE  /\ \A e \in Entries :
              e \in Range(l) /\ InLine(l, t) /\ AllAhead(l, t, e) =>
                InLine(l, Append(t, Line(e)))
         /\ \A e \in Entries : \A b :
              AllAhead(l, t, b) /\ Ahead(l, e, b) => AllAhead(l, Append(t, Line(e)), b)
         /\ InLine(l, t) => InLine(l, Append(t, Newline))
         /\ \A b : AllAhead(l, t, b) => AllAhead(l, Append(t, Newline), b)
<1>1. \A p \in Pieces :
        /\ DOMAIN Append(t, p) = 1 .. Len(t) + 1 /\ DOMAIN t = 1 .. Len(t) /\ Len(t) \in Nat
        /\ \A i \in 1 .. Len(t) : Append(t, p)[i] = t[i]
        /\ Append(t, p)[Len(t) + 1] = p
  BY AppendProperties, LenProperties
<1>2. ASSUME NEW e \in Entries, e \in Range(l), InLine(l, t), AllAhead(l, t, e)
      PROVE  InLine(l, Append(t, Line(e)))
  <2> DEFINE u == Append(t, Line(e))
  <2>1. /\ DOMAIN u = 1 .. Len(t) + 1 /\ DOMAIN t = 1 .. Len(t) /\ Len(t) \in Nat
        /\ \A i \in 1 .. Len(t) : u[i] = t[i]
        /\ u[Len(t) + 1].of = e
    BY <1>1, PieceFacts
  <2> HIDE DEF u
  <2>2. \A i \in DOMAIN u : i \in DOMAIN t \/ i = Len(t) + 1
    BY <2>1
  <2>3. \A i \in DOMAIN u : IsLine(u[i]) => u[i].of \in Range(l)
    BY <1>2, <2>1, <2>2 DEF InLine
  <2>4. \A i, j \in DOMAIN u : i < j => i \in DOMAIN t
    BY <2>1
  <2>5. \A i, j \in DOMAIN u :
          i < j /\ IsLine(u[i]) /\ IsLine(u[j]) => Ahead(l, u[i].of, u[j].of)
    BY <1>2, <2>1, <2>2, <2>4 DEF InLine, AllAhead
  <2> QED
    BY <2>3, <2>5 DEF InLine, u
<1>3. ASSUME NEW e \in Entries, NEW b, AllAhead(l, t, b), Ahead(l, e, b)
      PROVE  AllAhead(l, Append(t, Line(e)), b)
  BY <1>1, <1>3, PieceFacts DEF AllAhead
<1>4. ASSUME InLine(l, t)
      PROVE  InLine(l, Append(t, Newline))
  BY <1>1, <1>4, PieceFacts DEF InLine
<1>5. ASSUME NEW b, AllAhead(l, t, b)
      PROVE  AllAhead(l, Append(t, Newline), b)
  BY <1>1, <1>5, PieceFacts DEF AllAhead
<1> QED
  BY <1>2, <1>3, <1>4, <1>5

\* Output that loses pieces in the middle, and at the end, keeps the order.
LEMMA DamageKeeps ==
  ASSUME NEW l, NEW s \in Seq(Pieces), NEW ps \in Seq(Pieces), NEW b \in Seq(Pieces),
         NEW part \in Fragments(ps) \cup {ps}, NEW c \in {b, <<>>}
  PROVE  /\ InLine(l, (s \o ps) \o b) => InLine(l, (s \o part) \o c)
         /\ \A e : AllAhead(l, (s \o ps) \o b, e) => AllAhead(l, (s \o part) \o c, e)
<1> DEFINE t == (s \o ps) \o b
           u == (s \o part) \o c
           H(i) == IF i <= Len(s) + Len(part) THEN i ELSE i + (Len(ps) - Len(part))
<1>1. /\ part \in Seq(Pieces) /\ Len(part) <= Len(ps)
      /\ \A i \in 1 .. Len(part) : IsLine(part[i]) => part[i] = ps[i]
  BY FragmentFacts
<1>2. c \in Seq(Pieces) /\ Len(c) <= Len(b) /\ \A i \in 1 .. Len(c) : c[i] = b[i]
  <2>1. CASE c = b
    BY <2>1, LenProperties
  <2>2. CASE c = <<>>
    BY <2>2, EmptySeq, LenProperties
  <2> QED
    BY <2>1, <2>2
<1>3. /\ Len(s) \in Nat /\ Len(ps) \in Nat /\ Len(b) \in Nat /\ Len(part) \in Nat /\ Len(c) \in Nat
  BY <1>1, <1>2, LenProperties
<1>4. /\ s \o ps \in Seq(Pieces) /\ Len(s \o ps) = Len(s) + Len(ps)
      /\ \A i \in 1 .. Len(s) + Len(ps) :
            (s \o ps)[i] = IF i <= Len(s) THEN s[i] ELSE ps[i - Len(s)]
  BY ConcatProperties
<1>5. /\ s \o part \in Seq(Pieces) /\ Len(s \o part) = Len(s) + Len(part)
      /\ \A i \in 1 .. Len(s) + Len(part) :
            (s \o part)[i] = IF i <= Len(s) THEN s[i] ELSE part[i - Len(s)]
  BY <1>1, ConcatProperties
<1>6. /\ t \in Seq(Pieces) /\ Len(t) = Len(s) + Len(ps) + Len(b)
      /\ DOMAIN t = 1 .. Len(s) + Len(ps) + Len(b)
      /\ \A i \in 1 .. Len(s) + Len(ps) + Len(b) :
            t[i] = IF i <= Len(s) + Len(ps) THEN (s \o ps)[i] ELSE b[i - (Len(s) + Len(ps))]
  BY <1>3, <1>4, ConcatProperties, LenProperties
<1>7. /\ u \in Seq(Pieces) /\ Len(u) = Len(s) + Len(part) + Len(c)
      /\ DOMAIN u = 1 .. Len(s) + Len(part) + Len(c)
      /\ \A i \in 1 .. Len(s) + Len(part) + Len(c) :
            u[i] = IF i <= Len(s) + Len(part) THEN (s \o part)[i] ELSE c[i - (Len(s) + Len(part))]
  BY <1>2, <1>3, <1>5, ConcatProperties, LenProperties
<1> HIDE DEF t, u
<1>8. \A i \in DOMAIN u : H(i) \in DOMAIN t /\ (IsLine(u[i]) => u[i] = t[H(i)])
  <2> SUFFICES ASSUME NEW i \in DOMAIN u
               PROVE  H(i) \in DOMAIN t /\ (IsLine(u[i]) => u[i] = t[H(i)])
    OBVIOUS
  <2>1. CASE i <= Len(s)
    <3>1. i \in DOMAIN t /\ H(i) = i
      BY <2>1, <1>1, <1>2, <1>3, <1>6, <1>7
    <3>2. u[i] = s[i] /\ t[i] = s[i]
      BY <2>1, <3>1, <1>3, <1>4, <1>5, <1>6, <1>7
    <3> QED
      BY <3>1, <3>2
  <2>2. CASE i > Len(s) /\ i <= Len(s) + Len(part)
    <3>1. i - Len(s) \in 1 .. Len(part) /\ u[i] = part[i - Len(s)]
      BY <2>2, <1>3, <1>5, <1>7
    <3>2. i \in DOMAIN t /\ t[i] = ps[i - Len(s)]
      <4>1. i \in 1 .. Len(s) + Len(ps) /\ ~(i <= Len(s))
        BY <2>2, <1>1, <1>3, <1>7
      <4>2. (s \o ps)[i] = ps[i - Len(s)]
        BY <4>1, <1>4
      <4>3. i \in DOMAIN t /\ t[i] = (s \o ps)[i]
        BY <4>1, <1>3, <1>6
      <4> QED
        BY <4>2, <4>3
    <3> QED
      BY <2>2, <3>1, <3>2, <1>1
  <2>3. CASE i > Len(s) + Len(part)
    <3> DEFINE k == i - (Len(s) + Len(part))
    <3>1. k \in 1 .. Len(c) /\ u[i] = c[k]
      BY <2>3, <1>3, <1>7
    <3>2. H(i) \in DOMAIN t /\ t[H(i)] = b[k]
      <4>1. H(i) = k + (Len(s) + Len(ps)) /\ k \in 1 .. Len(b)
        BY <2>3, <3>1, <1>1, <1>2, <1>3, <1>7
      <4> HIDE DEF k, H
      <4>2. H(i) \in 1 .. Len(s) + Len(ps) + Len(b) /\ ~(H(i) <= Len(s) + Len(ps))
        BY <4>1, <1>3
      <4>3. H(i) - (Len(s) + Len(ps)) = k
        BY <4>1, <1>3
      <4> QED
        BY <4>2, <4>3, <1>6
    <3> QED
      BY <3>1, <3>2, <1>2
  <2> QED
    BY <2>1, <2>2, <2>3, <1>3, <1>7
<1>9. \A i, j \in DOMAIN u : i < j => H(i) < H(j)
  BY <1>1, <1>3, <1>7
<1> HIDE DEF H
<1>10. InLine(l, t) => InLine(l, u)
  BY <1>8, <1>9 DEF InLine
<1>11. \A e : AllAhead(l, t, e) => AllAhead(l, u, e)
  BY <1>8 DEF AllAhead
<1> QED
  BY <1>10, <1>11 DEF t, u

-----------------------------------------------------------------------------
(* The output is one sequence. *)

\* The output is a sequence of pieces.
LEMMA TrackFacts ==
  ASSUME BasicType
  PROVE  /\ Track \in Seq(Pieces) /\ Len(Track) \in Nat /\ DOMAIN Track = 1 .. Len(Track)
         /\ sink \o inflight \in Seq(Pieces)
         /\ Len(sink) \in Nat /\ DOMAIN sink = 1 .. Len(sink)
BY ConcatProperties, LenProperties DEF BasicType, Track

\* Handing the held back bytes on changes nothing of the output.
LEMMA SpillKeepsTrack ==
  ASSUME BasicType, Spill
  PROVE  Track' = Track /\ sink' = sink
<1>1. inflight = <<>> /\ inflight' = buffer /\ buffer' = <<>> /\ sink' = sink
  BY DEF Spill, AtFile
<1>2. sink \o <<>> = sink /\ sink \o buffer \in Seq(Pieces)
  BY ConcatEmptySeq, ConcatProperties DEF BasicType
<1>3. (sink \o buffer) \o <<>> = sink \o buffer
  BY <1>2, ConcatEmptySeq
<1> QED
  BY <1>1, <1>2, <1>3 DEF Track

\* Nor does the end of a write that succeeds.
LEMMA WriteKeepsTrack ==
  ASSUME BasicType, sink' = sink \o inflight, inflight' = <<>>, buffer' = buffer
  PROVE  Track' = Track
<1>1. (sink \o inflight) \o <<>> = sink \o inflight
  BY TrackFacts, ConcatEmptySeq
<1> QED
  BY <1>1 DEF Track

\* A piece that bypasses the buffer finds it empty, and is not overtaken.
LEMMA DirectInTurn ==
  ASSUME BasicType, TailInv, WriteAll, Direct
  PROVE  buffer = <<>>
<1>1. Length(Piece) \in Nat /\ Length(Piece) > 0
  BY PieceFacts DEF BasicType, Piece
<1>2. ~(held + Length(Piece) > Capacity) \/ buffer = <<>>
  BY DEF WriteAll, MustSpill
<1>3. Length(Piece) >= Capacity /\ held \in Nat
  BY DEF Direct, BasicType
<1>4. CASE buffer # <<>>
  <2>1. held > 0
    BY <1>4 DEF TailInv
  <2> QED
    BY <2>1, <1>1, <1>2, <1>3, <1>4, SizesAssumption
<1> QED
  BY <1>4

\* write_all, held back or not, appends its piece to the output.
LEMMA WriteAllAppends ==
  ASSUME BasicType, TailInv, WriteAll
  PROVE  /\ Track' = Append(Track, Piece) /\ sink' = sink
         /\ Piece \in Pieces
<1> DEFINE p == Piece
<1>1. p \in Pieces
  BY PieceFacts DEF BasicType, Piece
<1> HIDE DEF p
<1>2. CASE Direct
  <2>1. inflight = <<>> /\ buffer = <<>> /\ inflight' = <<p>> /\ buffer' = <<>> /\ sink' = sink
    BY <1>2, DirectInTurn DEF WriteAll, AtFile, p
  <2>2. sink \o <<p>> \in Seq(Pieces) /\ sink \in Seq(Pieces)
    BY <1>1, ConcatProperties DEF BasicType
  <2>3. Track = sink
    BY <2>1, <2>2, ConcatEmptySeq DEF Track
  <2>4. Track' = sink \o <<p>>
    BY <2>1, <2>2, ConcatEmptySeq DEF Track
  <2> QED
    BY <1>1, <2>1, <2>2, <2>3, <2>4, AppendIsConcat DEF p
<1>3. CASE ~Direct
  <2>1. buffer' = Append(buffer, p) /\ inflight' = inflight /\ sink' = sink
    BY <1>3 DEF WriteAll, p
  <2>2. <<p>> \in Seq(Pieces) /\ buffer \in Seq(Pieces) /\ sink \o inflight \in Seq(Pieces)
    BY <1>1, TrackFacts DEF BasicType
  <2>3. Append(buffer, p) = buffer \o <<p>> /\ Append(Track, p) = Track \o <<p>>
    BY <1>1, <2>2, TrackFacts, AppendIsConcat
  <2>4. ((sink \o inflight) \o buffer) \o <<p>> = (sink \o inflight) \o (buffer \o <<p>>)
    BY <2>2, ConcatAssociative
  <2> QED
    BY <1>1, <2>1, <2>3, <2>4 DEF Track, p
<1> QED
  BY <1>2, <1>3

-----------------------------------------------------------------------------
(* The types. *)

\* A process that starts on an empty sink.
LEMMA TypeInit == Init => BasicType
<1> SUFFICES ASSUME Init PROVE BasicType
  OBVIOUS
<1>1. entry \in Entries
  BY SizesAssumption DEF Init
<1>2. <<>> \in Seq(Entries) /\ <<>> \in Seq(Pieces)
  BY EmptySeq
<1>3. 0 \in 0 .. MaxFaults /\ 0 \in 0 .. MaxCrashes
  BY SizesAssumption
<1>4. {} \in SUBSET Range(logged) /\ "opening" \in Stages
  BY DEF Stages
<1> QED
  BY <1>1, <1>2, <1>3, <1>4 DEF Init, BasicType

\* Every step keeps the types.
LEMMA TypeStep ==
  ASSUME BasicType, OrderInv, [Next]_vars
  PROVE  BasicType'
<1> USE DEF BasicType
<1>1. ASSUME NEW e \in Entries, Log(e)
      PROVE  BasicType'
  <2>1. logged' \in Seq(Entries) /\ Range(logged') = Range(logged) \cup {e}
    BY <1>1, LogKeeps DEF Log
  <2>2. Append(channel, e) \in Seq(Entries)
    BY AppendProperties
  <2> QED
    BY <1>1, <2>1, <2>2 DEF Log, bytes
<1>2. CASE Close
  BY <1>2 DEF Close, bytes, history
<1>3. CASE Open
  <2>1. <<>> \in Seq(Entries)
    BY EmptySeq
  <2>2. Range(channel) \subseteq Range(logged)
    BY DEF OrderInv
  <2> QED
    BY <1>3, <2>1, <2>2 DEF Open, bytes, Stages
<1>4. CASE Receive
  <2>1. channel # <<>> => Head(channel) \in Entries /\ Tail(channel) \in Seq(Entries)
    BY HeadTailProperties
  <2> QED
    BY <1>4, <2>1 DEF Receive, bytes, history, Stages
<1>5. CASE Spill
  BY <1>5, EmptySeq DEF Spill, queueing, history
<1>6. CASE WriteAll
  <2>1. Piece \in Pieces /\ Length(Piece) \in Nat
    BY PieceFacts DEF Piece
  <2>2. <<Piece>> \in Seq(Pieces) /\ Append(buffer, Piece) \in Seq(Pieces)
    BY <2>1, AppendProperties
  <2>3. buffer' \in Seq(Pieces) /\ inflight' \in Seq(Pieces) /\ held' \in Nat
    <3>1. CASE Direct
      BY <1>6, <2>2, <3>1 DEF WriteAll
    <3>2. CASE ~Direct
      <4>1. buffer' = Append(buffer, Piece) /\ inflight' = inflight /\ held' = held + Length(Piece)
        BY <1>6, <3>2 DEF WriteAll
      <4> QED
        BY <2>1, <2>2, <4>1
    <3> QED
      BY <3>1, <3>2
  <2> QED
    BY <1>6, <2>3 DEF WriteAll, Advance, queueing, history, Stages
<1>7. CASE Flush
  <2>1. Busy /\ writer = "flush" => entry \in Range(logged)
    BY DEF OrderInv
  <2> QED
    BY <1>7, <2>1 DEF Flush, queueing, bytes, Stages, Busy
<1>8. CASE Fail
  <2>1. writer # "closing" => Busy
    BY <1>8 DEF Fail, AtFile, MustSpill, Direct, Busy
  <2>2. writer # "closing" => entry \in Range(logged)
    BY <2>1 DEF OrderInv
  <2> QED
    BY <1>8, <2>2 DEF Fail, queueing, Stages
<1>9. CASE Disk
  <2>1. sink' \in Seq(Pieces)
    BY <1>9, FragmentFacts, ConcatProperties DEF Disk
  <2>2. faults' \in 0 .. MaxFaults
    BY <1>9, SizesAssumption DEF Disk
  <2> QED
    BY <1>9, <2>1, <2>2, EmptySeq DEF Disk, queueing, history
<1>10. CASE Crash
  <2>1. sink' \in Seq(Pieces)
    BY <1>10, FragmentFacts, ConcatProperties DEF Crash
  <2>2. crashes' \in 0 .. MaxCrashes
    BY <1>10, SizesAssumption DEF Crash
  <2>3. lost' \in SUBSET Range(logged)
    BY <1>10 DEF Crash
  <2> QED
    BY <1>10, <2>1, <2>2, <2>3, EmptySeq DEF Crash, Stages
<1>11. CASE Restart
  BY <1>11 DEF Restart, bytes, history, Stages
<1>12. CASE UNCHANGED vars
  BY <1>12 DEF vars, queueing, bytes, history
<1> QED
  BY <1>1, <1>2, <1>3, <1>4, <1>5, <1>6, <1>7, <1>8, <1>9, <1>10, <1>11, <1>12
     DEF Next, Writing

-----------------------------------------------------------------------------
(* The order. *)

\* Nothing was logged yet.
LEMMA OrderInit == Init => OrderInv
<1> SUFFICES ASSUME Init PROVE OrderInv
  OBVIOUS
<1>1. <<>> \o <<>> = <<>>
  BY EmptySeq, ConcatEmptySeq
<1>2. Track = <<>> /\ logged = <<>> /\ channel = <<>> /\ ~Busy
  BY <1>1 DEF Init, Track, Busy
<1>3. \A i : i \notin DOMAIN <<>>
  BY EmptySeq
<1> QED
  BY <1>2, <1>3 DEF OrderInv, InLine, AllAhead, Range, IsInjective, Busy

\* What a step may do that logs nothing, receives nothing and writes nothing.
LEMMA OrderFrame ==
  ASSUME OrderInv, logged' = logged,
         InLine(logged, Track) => InLine(logged, Track'),
         \A e : AllAhead(logged, Track, e) => AllAhead(logged, Track', e),
         channel' \in {channel, <<>>},
         Busy' => Busy /\ entry' = entry,
         writer' = "line" => writer = "line"
  PROVE  OrderInv'
<1>1. InLine(logged, Track')
  BY DEF OrderInv
<1>2. CASE channel' = channel
  <2>1. writer' = "line" => AllAhead(logged, Track', entry')
    BY DEF OrderInv, Busy
  <2> QED
    BY <1>1, <1>2, <2>1 DEF OrderInv
<1>3. CASE channel' = <<>>
  <2>1. writer' = "line" => AllAhead(logged, Track', entry')
    BY DEF OrderInv, Busy
  <2>2. DOMAIN channel' = {} /\ Range(channel') = {}
    BY <1>3 DEF Range
  <2> QED
    BY <1>1, <2>1, <2>2 DEF OrderInv
<1> QED
  BY <1>2, <1>3

\* What is logged is new, and comes after everything logged before.
LEMMA LogOrdered ==
  ASSUME BasicType, OrderInv, NEW e \in Entries, Log(e)
  PROVE  OrderInv'
<1> DEFINE m == Append(logged, e)
<1>1. /\ e \notin Range(logged) /\ logged' = m
      /\ writer' = writer /\ entry' = entry /\ UNCHANGED bytes
  BY DEF Log
<1>2. Track' = Track
  BY <1>1 DEF Track, bytes
<1>3. /\ Range(m) = Range(logged) \cup {e}
      /\ \A a, b : Ahead(logged, a, b) => Ahead(m, a, b)
      /\ \A a \in Range(logged) : Ahead(m, a, e)
      /\ InLine(logged, Track) => InLine(m, Track) /\ AllAhead(m, Track, e)
      /\ \A b : AllAhead(logged, Track, b) => AllAhead(m, Track, b)
      /\ e \notin Range(logged) /\ IsInjective(logged) => IsInjective(m)
  BY LogKeeps DEF BasicType
<1> HIDE DEF m
<1>4. IsInjective(m) /\ InLine(m, Track) /\ AllAhead(m, Track, e)
  BY <1>1, <1>3 DEF OrderInv
<1>5. CASE channel' = channel
  BY <1>1, <1>2, <1>3, <1>4, <1>5 DEF OrderInv, Busy
<1>6. CASE channel' = Append(channel, e)
  <2>1. /\ DOMAIN channel' = 1 .. Len(channel) + 1 /\ DOMAIN channel = 1 .. Len(channel)
        /\ Len(channel) \in Nat
        /\ \A i \in 1 .. Len(channel) : channel'[i] = channel[i]
        /\ channel'[Len(channel) + 1] = e
    BY <1>6, AppendProperties, LenProperties DEF BasicType
  <2>2. Range(channel') = Range(channel) \cup {e}
    BY <1>6, LogKeeps DEF BasicType
  <2>3. \A i, j \in DOMAIN channel' : i < j => Ahead(m, channel'[i], channel'[j])
    <3> SUFFICES ASSUME NEW i \in DOMAIN channel', NEW j \in DOMAIN channel', i < j
                 PROVE  Ahead(m, channel'[i], channel'[j])
      OBVIOUS
    <3>1. i \in DOMAIN channel /\ channel'[i] = channel[i]
      BY <2>1
    <3>2. CASE j \in DOMAIN channel
      BY <3>1, <3>2, <2>1, <1>3 DEF OrderInv
    <3>3. CASE j = Len(channel) + 1
      BY <3>1, <3>3, <2>1, <1>3 DEF OrderInv, Range
    <3> QED
      BY <3>2, <3>3, <2>1
  <2>4. \A b \in Range(channel') : AllAhead(m, Track, b)
    BY <2>2, <1>3, <1>4 DEF OrderInv
  <2>5. Range(channel') \subseteq Range(m)
    BY <2>2, <1>3 DEF OrderInv
  <2>6. Busy' => entry \in Range(m) /\ \A b \in Range(channel') : Ahead(m, entry, b)
    BY <1>1, <2>2, <1>3 DEF OrderInv, Busy
  <2>7. writer' = "line" => AllAhead(m, Track, entry)
    BY <1>1, <1>3 DEF OrderInv
  <2> QED
    BY <1>1, <1>2, <1>4, <2>3, <2>4, <2>5, <2>6, <2>7 DEF OrderInv
<1> QED
  BY <1>5, <1>6 DEF Log

\* The entry received was the first of the channel.
LEMMA ReceiveOrdered ==
  ASSUME BasicType, OrderInv, Receive
  PROVE  OrderInv'
<1>1. logged' = logged /\ Track' = Track
  BY DEF Receive, Track, bytes, history
<1>2. CASE channel = <<>> /\ writer' = "closing" /\ UNCHANGED <<entry, channel>>
  BY <1>1, <1>2, OrderFrame DEF Busy
<1>3. CASE channel # <<>> /\ entry' = Head(channel) /\ channel' = Tail(channel) /\ writer' = "line"
  <2>1. /\ Len(channel) \in Nat /\ Len(channel) >= 1 /\ DOMAIN channel = 1 .. Len(channel)
        /\ DOMAIN channel' = 1 .. Len(channel) - 1
        /\ \A i \in 1 .. Len(channel) - 1 : channel'[i] = channel[i + 1]
        /\ entry' = channel[1]
    <3>1. /\ Tail(channel) \in Seq(Entries) /\ Len(Tail(channel)) = Len(channel) - 1
          /\ \A i \in 1 .. Len(Tail(channel)) : Tail(channel)[i] = channel[i + 1]
      BY <1>3, HeadTailProperties DEF BasicType
    <3>2. Len(channel) \in Nat /\ Len(channel) >= 1 /\ DOMAIN channel = 1 .. Len(channel)
      BY <1>3, EmptySeq, LenProperties DEF BasicType
    <3>3. DOMAIN Tail(channel) = 1 .. Len(channel) - 1
      BY <3>1, LenProperties
    <3>4. Head(channel) = channel[1]
      BY <1>3 DEF BasicType
    <3> QED
      BY <1>3, <3>1, <3>2, <3>3, <3>4
  <2>2. Range(channel') \subseteq Range(channel) /\ entry' \in Range(channel)
    BY <2>1 DEF Range
  <2>3. \A i, j \in DOMAIN channel' : i < j => Ahead(logged, channel'[i], channel'[j])
    BY <2>1 DEF OrderInv
  <2>4. \A e \in Range(channel') : Ahead(logged, entry', e)
    <3> SUFFICES ASSUME NEW i \in DOMAIN channel'
                 PROVE  Ahead(logged, entry', channel'[i])
      BY DEF Range
    <3>1. i + 1 \in DOMAIN channel /\ 1 \in DOMAIN channel /\ 1 < i + 1
      BY <2>1
    <3> QED
      BY <2>1, <3>1 DEF OrderInv
  <2> QED
    BY <1>1, <2>2, <2>3, <2>4 DEF OrderInv
<1> QED
  BY <1>2, <1>3 DEF Receive

\* The line written comes after the output and before the channel.
LEMMA WriteAllOrdered ==
  ASSUME BasicType, TailInv, OrderInv, WriteAll
  PROVE  OrderInv'
<1>1. /\ Track' = Append(Track, Piece)
      /\ logged' = logged /\ channel' = channel /\ entry' = entry
      /\ writer \in {"line", "newline"}
      /\ writer' = IF writer = "line" THEN "newline" ELSE "flush"
  BY WriteAllAppends DEF WriteAll, Advance, queueing, history
<1>2. Track \in Seq(Pieces) /\ entry \in Entries
  BY TrackFacts DEF BasicType
<1>3. Busy /\ Busy' /\ writer' # "line"
  BY <1>1 DEF Busy
<1>4. CASE writer = "line"
  <2>1. Track' = Append(Track, Line(entry))
    BY <1>1, <1>4 DEF Piece
  <2>2. InLine(logged, Track')
    BY <1>2, <1>3, <1>4, <2>1, AppendKeeps DEF OrderInv
  <2>3. \A e \in Range(channel) : AllAhead(logged, Track', e)
    BY <1>2, <1>3, <1>4, <2>1, AppendKeeps DEF OrderInv
  <2> QED
    BY <1>1, <1>3, <2>2, <2>3 DEF OrderInv
<1>5. CASE writer # "line"
  <2>1. Track' = Append(Track, Newline)
    BY <1>1, <1>5 DEF Piece
  <2>2. InLine(logged, Track')
    BY <1>2, <2>1, AppendKeeps DEF OrderInv
  <2>3. \A e \in Range(channel) : AllAhead(logged, Track', e)
    BY <1>2, <2>1, AppendKeeps DEF OrderInv
  <2> QED
    BY <1>1, <1>3, <2>2, <2>3 DEF OrderInv
<1> QED
  BY <1>4, <1>5

\* Every step keeps the order, whatever a failure takes out of the output.
LEMMA OrderStep ==
  ASSUME BasicType, TailInv, OrderInv, [Next]_vars
  PROVE  OrderInv'
<1>1. ASSUME NEW e \in Entries, Log(e)
      PROVE  OrderInv'
  BY <1>1, LogOrdered
<1>2. CASE Close \/ Restart \/ UNCHANGED vars
  <2>1. logged' = logged /\ Track' = Track /\ channel' = channel
    BY <1>2 DEF Close, Restart, Track, vars, queueing, bytes, history
  <2>2. /\ Busy' => Busy /\ entry' = entry
        /\ writer' = "line" => writer = "line"
    BY <1>2 DEF Close, Restart, Busy, vars
  <2> QED
    BY <2>1, <2>2, OrderFrame
<1>3. CASE Open
  <2>1. logged' = logged /\ Track' = Track /\ channel' \in {channel, <<>>}
    BY <1>3 DEF Open, Track, bytes
  <2>2. ~Busy' /\ writer' # "line"
    BY <1>3 DEF Open, Busy
  <2> QED
    BY <2>1, <2>2, OrderFrame
<1>4. CASE Receive
  BY <1>4, ReceiveOrdered
<1>5. CASE Spill
  <2>1. logged' = logged /\ Track' = Track /\ channel' = channel
    BY <1>5, SpillKeepsTrack DEF Spill, queueing, history
  <2>2. entry' = entry /\ writer' = writer
    BY <1>5 DEF Spill
  <2> QED
    BY <2>1, <2>2, OrderFrame DEF Busy
<1>6. CASE WriteAll
  BY <1>6, WriteAllOrdered
<1>7. CASE Flush \/ Fail
  <2>1. logged' = logged /\ Track' = Track /\ channel' = channel
    BY <1>7 DEF Flush, Fail, Track, queueing, bytes
  <2>2. ~Busy' /\ writer' # "line"
    BY <1>7 DEF Flush, Fail, Busy
  <2> QED
    BY <2>1, <2>2, OrderFrame
<1>8. CASE Disk
  <2>1. /\ logged' = logged /\ channel' = channel /\ entry' = entry /\ writer' = writer
        /\ inflight' = <<>> /\ buffer' = buffer
    BY <1>8 DEF Disk, queueing, history
  <2>2. CASE sink' = sink \o inflight
    <3>1. Track' = Track
      BY <2>1, <2>2, WriteKeepsTrack
    <3> QED
      BY <2>1, <3>1, OrderFrame DEF Busy
  <2>3. ASSUME NEW part \in Fragments(inflight), sink' = sink \o part
        PROVE  OrderInv'
    <3>1. Track' = (sink \o part) \o buffer
      <4>1. sink \o part \in Seq(Pieces)
        BY FragmentFacts, ConcatProperties DEF BasicType
      <4> QED
        BY <4>1, <2>1, <2>3, ConcatEmptySeq DEF Track
    <3>2. /\ InLine(logged, Track) => InLine(logged, Track')
          /\ \A e : AllAhead(logged, Track, e) => AllAhead(logged, Track', e)
      BY <3>1, DamageKeeps DEF BasicType, Track
    <3> QED
      BY <2>1, <3>2, OrderFrame DEF Busy
  <2> QED
    BY <1>8, <2>2, <2>3 DEF Disk
<1>9. CASE Crash
  <2>1. PICK part \in Fragments(inflight) \cup {inflight} : sink' = sink \o part
    BY <1>9 DEF Crash
  <2>2. /\ logged' = logged /\ channel' = <<>> /\ writer' = "down"
        /\ inflight' = <<>> /\ buffer' = <<>>
    BY <1>9 DEF Crash
  <2>3. Track' = (sink \o part) \o <<>>
    <3>1. sink \o part \in Seq(Pieces)
      BY FragmentFacts, ConcatProperties DEF BasicType
    <3> QED
      BY <3>1, <2>1, <2>2, ConcatEmptySeq DEF Track
  <2>4. /\ InLine(logged, Track) => InLine(logged, Track')
        /\ \A e : AllAhead(logged, Track, e) => AllAhead(logged, Track', e)
    BY <2>3, DamageKeeps DEF BasicType, Track
  <2> QED
    BY <2>2, <2>4, OrderFrame DEF Busy
<1> QED
  BY <1>1, <1>2, <1>3, <1>4, <1>5, <1>6, <1>7, <1>8, <1>9 DEF Next, Writing

-----------------------------------------------------------------------------
(* The fates of the entries. *)

\* Nothing is before itself, as no entry was logged twice.
LEMMA AtHandNotQueued ==
  ASSUME OrderInv, Busy, BasicType
  PROVE  entry \notin Range(channel)
<1>1. ~Ahead(logged, entry, entry)
  <2> SUFFICES ASSUME NEW i \in DOMAIN logged, NEW j \in DOMAIN logged,
                      i < j, logged[i] = entry, logged[j] = entry
               PROVE  FALSE
    BY DEF Ahead
  <2>1. i = j
    BY DEF OrderInv, IsInjective
  <2>2. i \in Nat
    BY LenProperties DEF BasicType
  <2> QED
    BY <2>1, <2>2
<1> QED
  BY <1>1 DEF OrderInv

\* Every step that decides the fate of an entry decides it once.
LEMMA FateStep ==
  ASSUME BasicType, OrderInv, FateInv, [Next]_vars
  PROVE  FateInv'
<1>1. ASSUME NEW e \in Entries, Log(e)
      PROVE  FateInv'
  <2>1. /\ e \notin Range(logged) /\ writer' = writer /\ entry' = entry /\ written' = written
        /\ (Busy' <=> Busy)
    BY <1>1 DEF Log, Busy
  <2>2. /\ e \notin written \cup lost \cup Range(channel)
        /\ Busy => entry # e
    BY <2>1 DEF BasicType, OrderInv
  <2>3. CASE writer = "gone"
    <3>1. lost' = lost \cup {e} /\ channel' = channel /\ ~Busy
      BY <1>1, <2>3 DEF Log, Busy
    <3> QED
      BY <2>1, <2>2, <3>1 DEF FateInv
  <2>4. CASE writer # "gone"
    <3>1. lost' = lost /\ Range(channel') = Range(channel) \cup {e}
      BY <1>1, <2>4, LogKeeps DEF Log, BasicType
    <3> QED
      BY <2>1, <2>2, <3>1 DEF FateInv
  <2> QED
    BY <2>3, <2>4
<1>2. CASE Close \/ Restart \/ UNCHANGED vars \/ Spill \/ Disk
  <2>1. channel' = channel /\ written' = written /\ lost' = lost
    BY <1>2 DEF Close, Restart, vars, Spill, Disk, queueing, history
  <2>2. Busy' => Busy /\ entry' = entry
    BY <1>2 DEF Close, Restart, vars, Spill, Disk, Busy
  <2> QED
    BY <2>1, <2>2 DEF FateInv
<1>3. CASE Open
  <2>1. ~Busy' /\ written' = written
    BY <1>3 DEF Open, Busy
  <2>2. CASE UNCHANGED <<channel, lost>>
    BY <2>1, <2>2 DEF FateInv
  <2>3. CASE channel' = <<>> /\ lost' = lost \cup Range(channel)
    <3>1. Range(channel') = {}
      BY <2>3, EmptySeq DEF Range
    <3> QED
      BY <2>1, <2>3, <3>1 DEF FateInv
  <2> QED
    BY <1>3, <2>2, <2>3 DEF Open
<1>4. CASE Receive
  <2>1. written' = written /\ lost' = lost
    BY <1>4 DEF Receive, history
  <2>2. CASE channel = <<>> /\ writer' = "closing" /\ UNCHANGED <<entry, channel>>
    BY <2>1, <2>2 DEF FateInv, Busy
  <2>3. CASE channel # <<>> /\ entry' = Head(channel) /\ channel' = Tail(channel)
    <3>1. Range(Tail(channel)) \subseteq Range(channel) /\ Head(channel) \in Range(channel)
      <4>1. /\ Len(channel) \in Nat /\ Len(channel) >= 1 /\ DOMAIN channel = 1 .. Len(channel)
            /\ Head(channel) = channel[1]
        BY <2>3, EmptySeq, LenProperties DEF BasicType
      <4>2. /\ DOMAIN Tail(channel) = 1 .. Len(channel) - 1
            /\ \A i \in 1 .. Len(channel) - 1 : Tail(channel)[i] = channel[i + 1]
        BY <2>3, HeadTailProperties, LenProperties DEF BasicType
      <4> QED
        BY <4>1, <4>2 DEF Range
    <3> QED
      BY <2>1, <2>3, <3>1 DEF FateInv
  <2> QED
    BY <1>4, <2>2, <2>3 DEF Receive
<1>5. CASE WriteAll
  <2>1. /\ channel' = channel /\ written' = written /\ lost' = lost /\ entry' = entry /\ Busy
    BY <1>5 DEF WriteAll, queueing, history, Busy
  <2> QED
    BY <2>1 DEF FateInv
<1>6. CASE Flush
  <2>1. ~Busy' /\ channel' = channel /\ lost' = lost
    BY <1>6 DEF Flush, Busy, queueing
  <2>2. written' = written \/ (Busy /\ written' = written \cup {entry})
    BY <1>6 DEF Flush, Busy
  <2> QED
    BY <2>1, <2>2, AtHandNotQueued DEF FateInv
<1>7. CASE Fail
  <2>1. ~Busy' /\ channel' = channel /\ written' = written
    BY <1>7 DEF Fail, Busy, queueing
  <2>2. lost' = lost \/ (Busy /\ lost' = lost \cup {entry})
    BY <1>7 DEF Fail, Busy, AtFile, MustSpill, Direct
  <2> QED
    BY <2>1, <2>2, AtHandNotQueued DEF FateInv
<1>8. CASE Crash
  <2>1. ~Busy' /\ channel' = <<>> /\ written' = written /\ lost' = Range(logged) \ written
    BY <1>8 DEF Crash, Busy
  <2>2. Range(channel') = {}
    BY <2>1, EmptySeq DEF Range
  <2> QED
    BY <2>1, <2>2 DEF FateInv
<1> QED
  BY <1>1, <1>2, <1>3, <1>4, <1>5, <1>6, <1>7, <1>8 DEF Next, Writing

-----------------------------------------------------------------------------
(* The end of the output. *)

\* The output ends with the line at hand until a failure.
LEMMA TailStep ==
  ASSUME BasicType, TailInv, [Next]_vars
  PROVE  TailInv'
<1>1. CASE WriteAll
  <2> DEFINE p == Piece
  <2>1. p \in Pieces /\ Track' = Append(Track, p) /\ Length(p) \in Nat /\ Length(p) > 0
    BY <1>1, WriteAllAppends, PieceFacts
  <2> HIDE DEF p
  <2>2. /\ Len(Track') = Len(Track) + 1 /\ Len(Track) \in Nat
        /\ Track'[Len(Track) + 1] = p
        /\ \A i \in 1 .. Len(Track) : Track'[i] = Track[i]
    BY <2>1, TrackFacts, AppendProperties
  <2>3. buffer' # <<>> => held' > 0
    <3>1. CASE Direct
      BY <1>1, <3>1 DEF WriteAll, TailInv
    <3>2. CASE ~Direct
      <4>1. held' = held + Length(p)
        BY <1>1, <3>2 DEF WriteAll, p
      <4> QED
        BY <2>1, <4>1 DEF BasicType
    <3> QED
      BY <3>1, <3>2
  <2>4. entry' = entry /\ failed' = failed
    BY <1>1 DEF WriteAll
  <2>5. CASE writer = "line"
    <3>1. writer' = "newline" /\ p = Line(entry)
      BY <1>1, <2>5 DEF WriteAll, Advance, p, Piece
    <3> QED
      BY <2>2, <2>3, <2>4, <3>1 DEF TailInv
  <2>6. CASE writer = "newline"
    <3>1. writer' = "flush" /\ p = Newline
      BY <1>1, <2>6 DEF WriteAll, Advance, p, Piece
    <3>2. ~failed => Len(Track) >= 1 /\ Track[Len(Track)] = Line(entry)
      BY <2>6 DEF TailInv
    <3>3. ~failed' => /\ Len(Track') >= 2
                      /\ Track'[Len(Track') - 1] = Line(entry) /\ Track'[Len(Track')] = Newline
      BY <2>2, <2>4, <3>1, <3>2
    <3> QED
      BY <2>3, <2>4, <3>1, <3>3 DEF TailInv
  <2> QED
    BY <1>1, <2>5, <2>6 DEF WriteAll
<1>2. CASE Spill
  <2>1. Track' = Track /\ buffer' = <<>> /\ writer' = writer /\ entry' = entry /\ failed' = failed
    BY <1>2, SpillKeepsTrack DEF Spill
  <2> QED
    BY <2>1 DEF TailInv
<1>3. CASE Disk
  <2>1. /\ writer' = writer /\ entry' = entry /\ buffer' = buffer /\ held' = held
        /\ inflight' = <<>>
    BY <1>3 DEF Disk
  <2>2. CASE sink' = sink \o inflight /\ UNCHANGED <<failed, faults>>
    <3>1. Track' = Track
      BY <2>1, <2>2, WriteKeepsTrack
    <3> QED
      BY <2>1, <2>2, <3>1 DEF TailInv
  <2>3. CASE failed'
    BY <2>1, <2>3 DEF TailInv
  <2> QED
    BY <1>3, <2>2, <2>3 DEF Disk
<1>4. CASE Crash
  BY <1>4 DEF Crash, TailInv
<1>5. CASE \/ \E e \in Entries : Log(e)
           \/ Close \/ Restart \/ UNCHANGED vars
  <2>1. /\ UNCHANGED bytes
        /\ writer' \in {"newline", "flush"} => writer' = writer /\ entry' = entry
    BY <1>5 DEF Log, Close, Restart, vars
  <2> QED
    BY <2>1 DEF TailInv, Track, bytes
<1>6. CASE Open \/ Receive \/ Flush \/ Fail
  <2>1. writer' \notin {"newline", "flush"} /\ buffer' = buffer /\ held' = held
    BY <1>6 DEF Open, Receive, Flush, Fail, bytes
  <2> QED
    BY <2>1 DEF TailInv
<1> QED
  BY <1>1, <1>2, <1>3, <1>4, <1>5, <1>6 DEF Next, Writing

-----------------------------------------------------------------------------
(* The sink. *)

\* What the sink holds it keeps.
LEMMA SinkGrows ==
  ASSUME BasicType, [Next]_vars
  PROVE  /\ Len(sink') \in Nat /\ Len(sink') >= Len(sink)
         /\ DOMAIN sink' = 1 .. Len(sink')
         /\ \A i \in 1 .. Len(sink) : sink'[i] = sink[i]
<1>1. ASSUME NEW x \in Seq(Pieces), sink' = sink \o x
      PROVE  /\ Len(sink') \in Nat /\ Len(sink') >= Len(sink)
             /\ DOMAIN sink' = 1 .. Len(sink')
             /\ \A i \in 1 .. Len(sink) : sink'[i] = sink[i]
  <2>1. /\ sink' \in Seq(Pieces) /\ Len(sink') = Len(sink) + Len(x)
        /\ \A i \in 1 .. Len(sink) + Len(x) :
              sink'[i] = IF i <= Len(sink) THEN sink[i] ELSE x[i - Len(sink)]
    BY <1>1, ConcatProperties DEF BasicType
  <2>2. Len(x) \in Nat /\ Len(sink) \in Nat /\ DOMAIN sink' = 1 .. Len(sink')
    BY <2>1, LenProperties DEF BasicType
  <2> QED
    BY <2>1, <2>2
<1>2. CASE Disk
  BY <1>1, <1>2, FragmentFacts DEF Disk, BasicType
<1>3. CASE Crash
  BY <1>1, <1>3, FragmentFacts DEF Crash, BasicType
<1>4. CASE sink' = sink
  BY <1>4, TrackFacts
<1>5. ASSUME NEW e \in Entries, Log(e)
      PROVE  sink' = sink
  BY <1>5 DEF Log, bytes
<1>6. CASE Close \/ Restart \/ UNCHANGED vars \/ Writing
  <2>1. sink' = sink
    BY <1>6 DEF Close, Restart, vars, Writing, Open, Receive, Spill, WriteAll, Flush, Fail, bytes
  <2> QED
    BY <1>4, <2>1
<1> QED
  BY <1>2, <1>3, <1>4, <1>5, <1>6 DEF Next

\* When flush returns Ok, the sink holds the whole output.
LEMMA FlushedIsSunk ==
  ASSUME BasicType, Flush
  PROVE  Track = sink
<1>1. inflight = <<>> /\ buffer = <<>>
  BY DEF Flush, AtFile, MustSpill
<1> QED
  BY <1>1, ConcatEmptySeq DEF Track, BasicType

\* An entry is acknowledged by the flush of its write_line only.
LEMMA WrittenStep ==
  ASSUME [Next]_vars
  PROVE  \/ written' = written
         \/ Flush /\ writer = "flush" /\ written' = written \cup {entry}
<1>1. ASSUME NEW e \in Entries, Log(e)
      PROVE  written' = written
  BY <1>1 DEF Log
<1>2. CASE Flush
  BY <1>2 DEF Flush
<1>3. CASE Close \/ Restart \/ UNCHANGED vars \/ Open \/ Receive \/ Spill \/ WriteAll \/ Fail
  BY <1>3 DEF Close, Restart, vars, Open, Receive, Spill, WriteAll, Fail, history
<1>4. CASE Disk \/ Crash
  BY <1>4 DEF Disk, Crash, history
<1> QED
  BY <1>1, <1>2, <1>3, <1>4 DEF Next, Writing

\* What was acknowledged stays in the sink; what is acknowledged got there.
LEMMA DurableStep ==
  ASSUME BasicType, TailInv, OkIsDurable, [Next]_vars
  PROVE  OkIsDurable'
<1>1. ASSUME NEW e \in written
      PROVE  \E i \in DOMAIN sink' \ {Len(sink')} : sink'[i] = Line(e) /\ sink'[i + 1] = Newline
  <2>1. PICK i \in DOMAIN sink \ {Len(sink)} : sink[i] = Line(e) /\ sink[i + 1] = Newline
    BY DEF OkIsDurable
  <2>2. i \in 1 .. Len(sink) /\ i + 1 \in 1 .. Len(sink) /\ i # Len(sink')
    BY SinkGrows, TrackFacts
  <2> QED
    BY <2>1, <2>2, SinkGrows
<1>2. CASE Flush /\ writer = "flush" /\ written' = written \cup {entry}
  <2>1. Track = sink /\ sink' = sink
    BY <1>2, FlushedIsSunk DEF Flush, bytes
  <2>2. Len(sink) >= 2 /\ sink[Len(sink) - 1] = Line(entry) /\ sink[Len(sink)] = Newline
    BY <1>2, <2>1 DEF TailInv, Flush
  <2>3. Len(sink) \in Nat /\ DOMAIN sink = 1 .. Len(sink)
    BY LenProperties DEF BasicType
  <2>4. Len(sink) - 1 \in DOMAIN sink \ {Len(sink)} /\ (Len(sink) - 1) + 1 = Len(sink)
    <3> DEFINE n == Len(sink)
    <3>1. n \in Nat /\ n >= 2 /\ DOMAIN sink = 1 .. n
      BY <2>2, <2>3
    <3> HIDE DEF n
    <3>2. n - 1 \in DOMAIN sink /\ n - 1 # n /\ (n - 1) + 1 = n
      BY <3>1
    <3> QED
      BY <3>2 DEF n
  <2>5. \E i \in DOMAIN sink' \ {Len(sink')} : sink'[i] = Line(entry) /\ sink'[i + 1] = Newline
    BY <2>1, <2>2, <2>3, <2>4
  <2> QED
    BY <1>1, <1>2, <2>5 DEF OkIsDurable, Line
<1>3. CASE written' = written
  BY <1>1, <1>3 DEF OkIsDurable, Line
<1> QED
  BY <1>2, <1>3, WrittenStep

-----------------------------------------------------------------------------
(* Damage. *)

\* Finitely many entries were acknowledged.
LEMMA WrittenFinite ==
  ASSUME BasicType
  PROVE  IsFiniteSet(written)
<1>1. /\ DOMAIN logged = 1 .. Len(logged) /\ Len(logged) \in Nat
  BY LenProperties DEF BasicType
<1>2. IsFiniteSet(DOMAIN logged)
  BY <1>1, FS_Interval
<1>3. IsFiniteSet(Range(logged))
  <2>1. logged \in Surjection(DOMAIN logged, Range(logged))
    BY <1>1, LenProperties DEF Surjection, Range, BasicType
  <2> QED
    BY <1>2, <2>1, FS_Surjection
<1> QED
  BY <1>3, FS_Subset DEF BasicType

\* What can be read back stays so.
LEMMA ReadableStays ==
  ASSUME BasicType, [Next]_vars, NEW e, Readable(e)
  PROVE  Readable(e)'
<1>1. PICK i \in DOMAIN sink :
         /\ sink[i] = Line(e)
         /\ i = 1 \/ sink[i - 1] = Newline
         /\ i < Len(sink) /\ sink[i + 1] = Newline
  BY DEF Readable
<1>2. i \in 1 .. Len(sink) /\ i + 1 \in 1 .. Len(sink) /\ (i # 1 => i - 1 \in 1 .. Len(sink))
  BY <1>1, TrackFacts
<1>3. /\ i \in DOMAIN sink' /\ i < Len(sink')
      /\ sink'[i] = sink[i] /\ sink'[i + 1] = sink[i + 1]
      /\ i # 1 => sink'[i - 1] = sink[i - 1]
  BY <1>1, <1>2, SinkGrows, TrackFacts
<1> QED
  BY <1>1, <1>3 DEF Readable, Line

\* Only a failed write or the end of the process brings danger.
LEMMA DangerStep ==
  ASSUME BasicType, TailInv, [Next]_vars
  PROVE  \/ faults' + crashes' = faults + crashes + 1
         \/ Flush /\ writer = "flush"
         \/ faults' + crashes' = faults + crashes /\ (Danger' => Danger)
<1>1. ASSUME failed' = failed, Track' = Track, Slot' = Slot
      PROVE  Danger' => Danger
  BY <1>1 DEF Danger
<1>2. ASSUME Track' = Track, writer' \in {"newline", "flush"} \/ writer \in {"newline", "flush"} => writer' = writer
      PROVE  Slot' = Slot
  BY <1>2 DEF Slot
<1>3. CASE \/ \E e \in Entries : Log(e)
           \/ Close \/ Restart \/ Open \/ Receive \/ UNCHANGED vars
  <2>1. /\ UNCHANGED bytes /\ faults' = faults /\ crashes' = crashes
    BY <1>3 DEF Log, Close, Restart, Open, Receive, vars
  <2>2. writer' \in {"newline", "flush"} \/ writer \in {"newline", "flush"} => writer' = writer
    BY <1>3 DEF Log, Close, Restart, Open, Receive, vars
  <2>3. Track' = Track /\ failed' = failed
    BY <2>1 DEF Track, bytes
  <2> QED
    BY <1>1, <1>2, <2>1, <2>2, <2>3
<1>4. CASE Spill
  <2>1. /\ Track' = Track /\ failed' = failed /\ writer' = writer
        /\ faults' = faults /\ crashes' = crashes
    BY <1>4, SpillKeepsTrack DEF Spill
  <2> QED
    BY <1>1, <1>2, <2>1
<1>5. CASE WriteAll
  <2>1. /\ failed' = failed /\ faults' = faults /\ crashes' = crashes
        /\ writer \in {"line", "newline"}
        /\ writer' = IF writer = "line" THEN "newline" ELSE "flush"
    BY <1>5 DEF WriteAll, Advance
  <2>2. /\ Len(Track') = Len(Track) + 1 /\ Len(Track) \in Nat
        /\ \A i \in 1 .. Len(Track) : Track'[i] = Track[i]
    BY <1>5, WriteAllAppends, TrackFacts, AppendProperties
  <2>3. Slot' = Slot /\ Slot \in Int /\ Slot <= Len(Track) + 1
    BY <2>1, <2>2 DEF Slot
  <2>4. Slot > 1 => Slot - 1 \in 1 .. Len(Track)
    BY <2>2, <2>3
  <2>5. Danger' => Danger
    BY <2>1, <2>2, <2>3, <2>4 DEF Danger
  <2> QED
    BY <2>1, <2>5
<1>6. CASE Flush /\ writer # "flush"
  <2>1. /\ UNCHANGED bytes /\ faults' = faults /\ crashes' = crashes
        /\ writer = "closing" /\ writer' = "ended"
    BY <1>6 DEF Flush
  <2>2. Track' = Track /\ failed' = failed
    BY <2>1 DEF Track, bytes
  <2> QED
    BY <1>1, <1>2, <2>1, <2>2
<1>7. CASE Fail
  BY <1>7 DEF Fail, Danger
<1>8. CASE Disk
  <2>1. crashes' = crashes /\ faults \in Nat /\ crashes \in Nat
    BY <1>8, SizesAssumption DEF Disk, BasicType
  <2>2. CASE faults' = faults + 1
    BY <2>1, <2>2
  <2>3. CASE sink' = sink \o inflight /\ UNCHANGED <<failed, faults>>
    <3>1. Track' = Track /\ writer' = writer /\ failed' = failed /\ faults' = faults
      BY <1>8, <2>3, WriteKeepsTrack DEF Disk
    <3> QED
      BY <1>1, <1>2, <2>1, <3>1
  <2> QED
    BY <1>8, <2>2, <2>3 DEF Disk
<1>9. CASE Crash
  <2>1. crashes' = crashes + 1 /\ faults' = faults /\ faults \in Nat /\ crashes \in Nat
    BY <1>9, SizesAssumption DEF Crash, BasicType
  <2> QED
    BY <2>1
<1> QED
  BY <1>3, <1>4, <1>5, <1>6, <1>7, <1>8, <1>9 DEF Next, Writing

\* A flush that succeeds makes its entry readable, unless there was danger,
\* and then the danger is over.
LEMMA FlushReads ==
  ASSUME BasicType, TailInv, Flush, writer = "flush"
  PROVE  ~Danger' /\ \A e : e = entry => Danger \/ Readable(e)'
<1>1. /\ Track = sink /\ sink' = sink /\ failed' = failed /\ ~failed
      /\ inflight' = inflight /\ buffer' = buffer /\ writer' = "recv" /\ entry' = entry
  BY FlushedIsSunk DEF Flush, bytes
<1>2. Len(sink) \in Nat /\ DOMAIN sink = 1 .. Len(sink)
  BY LenProperties DEF BasicType
<1>3. Len(sink) >= 2 /\ sink[Len(sink) - 1] = Line(entry) /\ sink[Len(sink)] = Newline
  BY <1>1 DEF TailInv
<1>4. Track' = sink
  BY <1>1 DEF Track
<1>5. Slot' - 1 = Len(sink)
  BY <1>1, <1>2, <1>4 DEF Slot
<1>6. ~Danger'
  BY <1>1, <1>3, <1>4, <1>5 DEF Danger
<1>7. ASSUME ~Danger, NEW e, e = entry
      PROVE  Readable(e)'
  <2> DEFINE i == Len(sink) - 1
  <2>1. Slot = i
    BY <1>1 DEF Slot
  <2>2. i = 1 \/ sink[i - 1] = Newline
    BY <1>1, <1>2, <1>3, <1>7, <2>1 DEF Danger
  <2>3. i \in DOMAIN sink /\ i < Len(sink) /\ sink[i + 1] = Newline /\ sink[i] = Line(e)
    BY <1>2, <1>3, <1>7
  <2> HIDE DEF i
  <2> QED
    BY <1>1, <2>2, <2>3 DEF Readable, Line
<1> QED
  BY <1>6, <1>7

\* A flush pays with the danger for an entry that cannot be read back.
LEMMA DamageStep ==
  ASSUME BasicType, TailInv, DamageInv, [Next]_vars
  PROVE  DamageInv'
<1>1. IsFiniteSet(Unreadable) /\ Cardinality(Unreadable) \in Nat
  BY WrittenFinite, FS_Subset, FS_CardinalityType DEF Unreadable
<1>2. faults \in Nat /\ crashes \in Nat
  BY SizesAssumption DEF BasicType
<1>3. \A e \in written : Readable(e) => Readable(e)'
  BY ReadableStays
<1>4. Cardinality(Unreadable) <= faults + crashes
  BY <1>1, <1>2 DEF DamageInv
<1>5. CASE written' = written
  <2>1. Unreadable' \subseteq Unreadable
    BY <1>3, <1>5 DEF Unreadable
  <2>2. Cardinality(Unreadable') \in Nat /\ Cardinality(Unreadable') <= Cardinality(Unreadable)
    BY <2>1, <1>1, FS_Subset, FS_CardinalityType
  <2>3. CASE faults' + crashes' = faults + crashes + 1
    BY <2>2, <2>3, <1>1, <1>2, <1>4 DEF DamageInv
  <2>4. CASE faults' + crashes' = faults + crashes /\ (Danger' => Danger)
    BY <2>2, <2>4, <1>1, <1>2 DEF DamageInv
  <2>5. CASE Flush /\ writer = "flush"
    <3>1. ~Danger' /\ faults' = faults /\ crashes' = crashes
      BY <2>5, FlushReads DEF Flush
    <3> QED
      BY <3>1, <2>2, <1>1, <1>2, <1>4 DEF DamageInv
  <2> QED
    BY <2>3, <2>4, <2>5, DangerStep
<1>6. CASE Flush /\ writer = "flush" /\ written' = written \cup {entry}
  <2>1. /\ ~Danger' /\ faults' = faults /\ crashes' = crashes
        /\ \A e : e = entry => Danger \/ Readable(e)'
    BY <1>6, FlushReads DEF Flush
  <2>2. CASE ~Danger
    <3>1. Unreadable' \subseteq Unreadable
      BY <1>3, <1>6, <2>1, <2>2 DEF Unreadable
    <3>2. Cardinality(Unreadable') \in Nat /\ Cardinality(Unreadable') <= Cardinality(Unreadable)
      BY <3>1, <1>1, FS_Subset, FS_CardinalityType
    <3> QED
      BY <2>1, <3>2, <1>1, <1>2, <1>4 DEF DamageInv
  <2>3. CASE Danger
    <3>1. Unreadable' \subseteq Unreadable \cup {entry}
      BY <1>3, <1>6 DEF Unreadable
    <3>2. /\ IsFiniteSet(Unreadable \cup {entry})
          /\ Cardinality(Unreadable \cup {entry}) <= Cardinality(Unreadable) + 1
      <4>1. /\ IsFiniteSet(Unreadable \cup {entry})
            /\ Cardinality(Unreadable \cup {entry}) =
                  IF entry \in Unreadable THEN Cardinality(Unreadable) ELSE Cardinality(Unreadable) + 1
        BY <1>1, FS_AddElement
      <4> QED
        BY <1>1, <4>1
    <3>3. /\ Cardinality(Unreadable') \in Nat
          /\ Cardinality(Unreadable') <= Cardinality(Unreadable \cup {entry})
      BY <3>1, <3>2, FS_Subset, FS_CardinalityType
    <3>4. Cardinality(Unreadable \cup {entry}) \in Nat
      BY <3>2, FS_CardinalityType
    <3>5. Cardinality(Unreadable) + 1 <= faults + crashes
      BY <2>3 DEF DamageInv
    <3> QED
      BY <2>1, <3>2, <3>3, <3>4, <3>5, <1>1, <1>2 DEF DamageInv
  <2> QED
    BY <2>2, <2>3
<1> QED
  BY <1>5, <1>6, WrittenStep

-----------------------------------------------------------------------------
(* Loss. *)

\* Nothing failed so far.
Sound == faults = 0 /\ crashes = 0 /\ writer # "gone"

\* The entries received are written, or at hand; the others are queued.
Queued(l, c) ==
    /\ Len(l) - Len(c) >= 0
    /\ \A k \in DOMAIN c : c[k] = l[Len(l) - Len(c) + k]

First(l, n) == {l[i] : i \in 1 .. n}

\* The channel and the log grow by the same entry.
LEMMA LogQueues ==
  ASSUME NEW l \in Seq(Entries), NEW c \in Seq(Entries), NEW e \in Entries, Queued(l, c)
  PROVE  /\ Queued(Append(l, e), Append(c, e))
         /\ Len(Append(l, e)) - Len(Append(c, e)) = Len(l) - Len(c)
         /\ \A i \in 1 .. Len(l) - Len(c) : Append(l, e)[i] = l[i]
         /\ First(Append(l, e), Len(l) - Len(c)) = First(l, Len(l) - Len(c))
<1> DEFINE m == Append(l, e)
           d == Append(c, e)
           n == Len(l) - Len(c)
<1>1. /\ Len(m) = Len(l) + 1 /\ Len(l) \in Nat
      /\ \A i \in 1 .. Len(l) : m[i] = l[i]
      /\ m[Len(l) + 1] = e
  BY AppendProperties, LenProperties
<1>2. /\ Len(d) = Len(c) + 1 /\ Len(c) \in Nat /\ DOMAIN d = 1 .. Len(c) + 1
      /\ DOMAIN c = 1 .. Len(c)
      /\ \A i \in 1 .. Len(c) : d[i] = c[i]
      /\ d[Len(c) + 1] = e
  BY AppendProperties, LenProperties
<1>3. n \in Nat /\ \A k \in 1 .. Len(c) : c[k] = l[n + k]
  BY <1>1, <1>2 DEF Queued
<1> HIDE DEF m, d
<1>4. Len(m) - Len(d) = n
  BY <1>1, <1>2
<1>5. \A i \in 1 .. n : m[i] = l[i]
  BY <1>1, <1>2, <1>3
<1>6. \A k \in DOMAIN d : d[k] = m[n + k]
  <2> SUFFICES ASSUME NEW k \in DOMAIN d PROVE d[k] = m[n + k]
    OBVIOUS
  <2>1. CASE k \in 1 .. Len(c)
    <3>1. n + k \in 1 .. Len(l)
      BY <2>1, <1>1, <1>2, <1>3
    <3> QED
      BY <2>1, <3>1, <1>1, <1>2, <1>3
  <2>2. CASE k = Len(c) + 1
    <3>1. n + k = Len(l) + 1
      BY <2>2, <1>1, <1>2
    <3> QED
      BY <2>2, <3>1, <1>1, <1>2
  <2> QED
    BY <2>1, <2>2, <1>2
<1>7. Queued(m, d)
  BY <1>3, <1>4, <1>6 DEF Queued
<1>8. First(m, n) = First(l, n)
  BY <1>5 DEF First
<1> QED
  BY <1>4, <1>5, <1>7, <1>8 DEF m, d

\* Receiving takes the entry that was logged next.
LEMMA ReceiveTakes ==
  ASSUME NEW l \in Seq(Entries), NEW c \in Seq(Entries), c # <<>>, Queued(l, c), IsInjective(l)
  PROVE  /\ Queued(l, Tail(c))
         /\ Len(l) - Len(Tail(c)) = (Len(l) - Len(c)) + 1
         /\ Len(l) - Len(Tail(c)) >= 1
         /\ Head(c) = l[Len(l) - Len(Tail(c))]
         /\ First(l, Len(l) - Len(c)) = First(l, Len(l) - Len(Tail(c))) \ {Head(c)}
<1> DEFINE d == Tail(c)
           n == Len(l) - Len(c)
<1>1. /\ Len(l) \in Nat /\ DOMAIN l = 1 .. Len(l)
      /\ Len(c) \in Nat /\ Len(c) >= 1 /\ DOMAIN c = 1 .. Len(c)
  BY LenProperties, EmptySeq
<1>2. /\ d \in Seq(Entries) /\ Len(d) = Len(c) - 1
      /\ \A i \in 1 .. Len(d) : d[i] = c[i + 1]
  BY HeadTailProperties
<1>3. DOMAIN d = 1 .. Len(d) /\ Len(d) \in Nat /\ Head(c) = c[1]
  BY <1>2, LenProperties
<1>4. n \in Nat /\ \A k \in 1 .. Len(c) : c[k] = l[n + k]
  BY <1>1 DEF Queued
<1> HIDE DEF d
<1>5. Len(l) - Len(d) = n + 1
  BY <1>1, <1>2
<1>6. \A k \in DOMAIN d : d[k] = l[(n + 1) + k]
  <2> SUFFICES ASSUME NEW k \in 1 .. Len(d) PROVE d[k] = l[(n + 1) + k]
    BY <1>3
  <2>1. k + 1 \in 1 .. Len(c) /\ n + (k + 1) = (n + 1) + k
    BY <1>1, <1>2, <1>4
  <2> QED
    BY <2>1, <1>2, <1>4
<1>7. Queued(l, d)
  BY <1>4, <1>5, <1>6 DEF Queued
<1>8. Head(c) = l[n + 1] /\ n + 1 \in DOMAIN l
  BY <1>1, <1>3, <1>4
<1>9. First(l, n) = First(l, n + 1) \ {Head(c)}
  <2>1. \A i \in 1 .. n : i \in DOMAIN l /\ i \in 1 .. n + 1 /\ l[i] # l[n + 1]
    BY <1>1, <1>4, <1>8 DEF IsInjective
  <2>2. \A i \in 1 .. n + 1 : i \in 1 .. n \/ i = n + 1
    BY <1>4
  <2> QED
    BY <2>1, <2>2, <1>8 DEF First
<1> QED
  BY <1>4, <1>5, <1>7, <1>8, <1>9 DEF d

\* Without failures, no step takes an entry out of the order.
LEMMA LossStep ==
  ASSUME BasicType, OrderInv, LossInv, [Next]_vars
  PROVE  LossInv'
<1> DEFINE Good ==
      /\ Queued(logged, channel)
      /\ Busy => Taken >= 1 /\ entry = logged[Taken]
      /\ written = First(logged, Taken) \ IF Busy THEN {entry} ELSE {}
<1>1. /\ faults = 0 => ~failed
      /\ crashes = 0 => writer # "down"
      /\ Sound => Good
  BY DEF LossInv, Sound, Good, Queued, Taken, First
<1>2. /\ Len(logged) \in Nat /\ Len(channel) \in Nat /\ faults \in Nat /\ crashes \in Nat
  BY LenProperties, SizesAssumption DEF BasicType
<1>3. SUFFICES /\ faults' = 0 => ~failed'
               /\ crashes' = 0 => writer' # "down"
               /\ Sound' => Good'
  BY DEF LossInv, Sound, Good, Queued, Taken, First
<1> HIDE DEF Good
<1>4. ASSUME logged' = logged, channel' = channel, written' = written, entry' = entry, Busy' <=> Busy, Good
      PROVE  Good'
  BY <1>4 DEF Good, Taken, Queued, First
<1>5. ASSUME NEW e \in Entries, Log(e)
      PROVE  /\ faults' = 0 => ~failed'
             /\ crashes' = 0 => writer' # "down"
             /\ Sound' => Good'
  <2>1. /\ failed' = failed /\ faults' = faults /\ crashes' = crashes /\ writer' = writer
        /\ entry' = entry /\ written' = written /\ logged' = Append(logged, e)
        /\ Sound' => Sound /\ channel' = Append(channel, e)
        /\ Busy' <=> Busy
    BY <1>5 DEF Log, bytes, Sound, Busy
  <2>2. ASSUME Sound'
        PROVE  Good'
    <3>1. /\ Queued(logged, channel)
          /\ Busy => Taken >= 1 /\ entry = logged[Taken]
          /\ written = First(logged, Taken) \ IF Busy THEN {entry} ELSE {}
      BY <2>1, <2>2, <1>1 DEF Good
    <3>2. /\ Queued(logged', channel') /\ Taken' = Taken
          /\ \A i \in 1 .. Taken : logged'[i] = logged[i]
          /\ First(logged', Taken) = First(logged, Taken)
      <4>1. logged \in Seq(Entries) /\ channel \in Seq(Entries)
        BY DEF BasicType
      <4>2. /\ Queued(Append(logged, e), Append(channel, e))
            /\ Len(Append(logged, e)) - Len(Append(channel, e)) = Taken
            /\ \A i \in 1 .. Taken : Append(logged, e)[i] = logged[i]
            /\ First(Append(logged, e), Taken) = First(logged, Taken)
        <5>1. Queued(logged, channel)
          BY <3>1
        <5> QED
          BY <4>1, <5>1, LogQueues, Zenon DEF Taken
      <4>3. logged' = Append(logged, e) /\ channel' = Append(channel, e)
        BY <2>1, <2>2, Zenon
      <4>4. Taken' = Len(logged') - Len(channel')
        BY DEF Taken
      <4> QED
        BY <4>2, <4>3, <4>4, Zenon
    <3>3. Busy => Taken >= 1 /\ entry = logged'[Taken]
      BY <3>1, <3>2, <1>2 DEF Taken
    <3> QED
      BY <2>1, <3>1, <3>2, <3>3 DEF Good
  <2> QED
    BY <1>1, <2>1, <2>2
<1>6. CASE Close \/ Spill \/ UNCHANGED vars
  <2>1. /\ failed' = failed /\ faults' = faults /\ crashes' = crashes /\ writer' = writer
        /\ logged' = logged /\ channel' = channel /\ written' = written /\ entry' = entry
    BY <1>6 DEF Close, Spill, vars, queueing, bytes, history
  <2> QED
    BY <2>1, <1>1, <1>4 DEF Sound, Busy
<1>7. CASE Restart
  <2>1. crashes' = crashes /\ crashes # 0 /\ failed' = failed /\ faults' = faults
    BY <1>7, <1>1 DEF Restart, bytes
  <2> QED
    BY <2>1, <1>1 DEF Sound
<1>8. CASE Open
  <2>1. /\ failed' = failed /\ faults' = faults /\ crashes' = crashes /\ writer' # "down"
        /\ Sound' => Sound /\ channel' = channel
        /\ logged' = logged /\ written' = written /\ entry' = entry /\ ~Busy /\ ~Busy'
    BY <1>8 DEF Open, bytes, Sound, Busy
  <2> QED
    BY <2>1, <1>1, <1>4
<1>9. CASE Receive
  <2>1. /\ failed' = failed /\ faults' = faults /\ crashes' = crashes /\ writer' # "down"
        /\ logged' = logged /\ written' = written /\ ~Busy /\ (Sound' => Sound)
    BY <1>9 DEF Receive, bytes, history, Sound, Busy
  <2>2. CASE channel = <<>> /\ writer' = "closing" /\ UNCHANGED <<entry, channel>>
    BY <2>1, <2>2, <1>1, <1>4 DEF Busy
  <2>3. CASE channel # <<>> /\ entry' = Head(channel) /\ channel' = Tail(channel) /\ writer' = "line"
    <3>1. ASSUME Sound'
          PROVE  Good'
      <4>1. Queued(logged, channel) /\ written = First(logged, Taken)
        BY <3>1, <2>1, <1>1 DEF Good
      <4>2. /\ Queued(logged, channel')
            /\ Len(logged) - Len(channel') >= 1
            /\ entry' = logged[Len(logged) - Len(channel')]
            /\ First(logged, Taken) = First(logged, Len(logged) - Len(channel')) \ {entry'}
        BY <2>3, <4>1, ReceiveTakes DEF BasicType, OrderInv, Taken
      <4>3. Busy' /\ Taken' = Len(logged) - Len(channel')
        BY <2>1, <2>3 DEF Busy, Taken
      <4> QED
        BY <2>1, <4>1, <4>2, <4>3 DEF Good
    <3> QED
      BY <2>1, <3>1, <1>1
  <2> QED
    BY <1>9, <2>2, <2>3 DEF Receive
<1>10. CASE WriteAll
  <2>1. /\ failed' = failed /\ faults' = faults /\ crashes' = crashes /\ writer' # "down"
        /\ logged' = logged /\ channel' = channel /\ written' = written /\ entry' = entry
        /\ Busy /\ Busy' /\ (Sound' => Sound)
    BY <1>10 DEF WriteAll, Advance, queueing, history, Busy, Sound
  <2> QED
    BY <2>1, <1>1, <1>4
<1>11. CASE Flush
  <2>1. /\ failed' = failed /\ faults' = faults /\ crashes' = crashes /\ writer' # "down"
        /\ logged' = logged /\ channel' = channel /\ entry' = entry
        /\ ~Busy' /\ (Sound' => Sound)
        /\ \/ Busy /\ written' = written \cup {entry}
           \/ ~Busy /\ written' = written
    BY <1>11 DEF Flush, queueing, bytes, Busy, Sound
  <2>2. ASSUME Sound'
        PROVE  Good'
    <3>1. /\ Queued(logged, channel)
          /\ Busy => Taken >= 1 /\ entry = logged[Taken]
          /\ written = First(logged, Taken) \ IF Busy THEN {entry} ELSE {}
      BY <2>1, <2>2, <1>1 DEF Good
    <3>2. Taken' = Taken /\ Taken \in Int
      BY <2>1, <1>2 DEF Taken
    <3>3. Busy => entry \in First(logged, Taken)
      BY <3>1, <3>2 DEF First
    <3>4. written' = First(logged, Taken)
      BY <2>1, <3>1, <3>3
    <3> QED
      BY <2>1, <3>1, <3>2, <3>4 DEF Good
  <2> QED
    BY <2>1, <2>2, <1>1
<1>12. CASE Fail
  <2>1. /\ failed /\ faults' = faults /\ crashes' = crashes /\ writer' # "down"
    BY <1>12 DEF Fail
  <2> QED
    BY <2>1, <1>1 DEF Sound
<1>13. CASE Disk
  <2>1. /\ crashes' = crashes /\ writer' = writer
        /\ logged' = logged /\ channel' = channel /\ written' = written /\ entry' = entry
    BY <1>13 DEF Disk, queueing, history
  <2>2. CASE faults' = faults + 1
    <3>1. faults' # 0
      BY <2>2, <1>2
    <3> QED
      BY <2>1, <3>1, <1>1 DEF Sound
  <2>3. CASE UNCHANGED <<failed, faults>>
    BY <2>1, <2>3, <1>1, <1>4 DEF Sound, Busy
  <2> QED
    BY <1>13, <2>2, <2>3 DEF Disk
<1>14. CASE Crash
  <2>1. crashes' = crashes + 1 /\ faults' = faults /\ ~failed'
    BY <1>14 DEF Crash
  <2>2. crashes' # 0
    BY <2>1, <1>2
  <2> QED
    BY <2>1, <2>2 DEF Sound
<1> QED
  BY <1>5, <1>6, <1>7, <1>8, <1>9, <1>10, <1>11, <1>12, <1>13, <1>14 DEF Next, Writing

-----------------------------------------------------------------------------
(* The theorems. *)

\* The inductive invariant holds at first.
LEMMA AuditInit == Init => AuditInv
<1> SUFFICES ASSUME Init PROVE AuditInv
  OBVIOUS
<1>1. BasicType /\ OrderInv
  BY TypeInit, OrderInit
<1>2. /\ channel = <<>> /\ logged = <<>> /\ written = {} /\ lost = {} /\ buffer = <<>>
      /\ sink = <<>> /\ inflight = <<>> /\ ~failed /\ writer = "opening"
      /\ faults = 0 /\ crashes = 0 /\ ~Busy
  BY DEF Init, Busy
<1>3. FateInv
  BY <1>2 DEF FateInv
<1>4. TailInv /\ OkIsDurable
  BY <1>2 DEF TailInv, OkIsDurable
<1>5. DamageInv
  <2>1. Track = <<>> /\ Len(<<>>) = 0
    BY <1>2, EmptySeq, ConcatEmptySeq DEF Track
  <2>2. ~Danger
    BY <1>2, <2>1 DEF Danger, Slot
  <2>3. Unreadable = {}
    BY <1>2 DEF Unreadable
  <2> QED
    BY <1>2, <2>2, <2>3, FS_EmptySet DEF DamageInv
<1>6. LossInv
  <2>1. Len(<<>>) = 0 /\ DOMAIN channel = {} /\ Taken = 0
    BY <1>2, EmptySeq DEF Taken
  <2>2. {logged[i] : i \in 1 .. Taken} = {}
    BY <2>1
  <2> QED
    BY <1>2, <2>1, <2>2 DEF LossInv
<1> QED
  BY <1>1, <1>3, <1>4, <1>5, <1>6 DEF AuditInv

\* Every step keeps the inductive invariant.
LEMMA AuditStep == AuditInv /\ [Next]_vars => AuditInv'
BY TypeStep, OrderStep, FateStep, TailStep, DurableStep, DamageStep, LossStep DEF AuditInv

\* The audit writer keeps its types: the entries given up are entries that
\* were logged, and none of them was acknowledged as well.
THEOREM AuditTypeCorrect == Spec => []TypeOK
<1>1. AuditInv => TypeOK
  BY DEF AuditInv, BasicType, FateInv, TypeOK
<1> QED
  BY <1>1, AuditInit, AuditStep, PTL DEF Spec

\* The whole lines of the file are entries in the order of the calls of
\* AuditLogger::log, none of them twice, whatever failed in between.
THEOREM FileInOrder == Spec => []InOrder
<1>1. AuditInv => InOrder
  <2> SUFFICES ASSUME AuditInv PROVE InOrder
    OBVIOUS
  <2>1. /\ Len(sink) \in Nat /\ DOMAIN sink = 1 .. Len(sink)
        /\ Len(Track) \in Nat /\ DOMAIN Track = 1 .. Len(Track) /\ Len(sink) <= Len(Track)
        /\ \A i \in 1 .. Len(sink) : Track[i] = sink[i]
    <3>1. /\ Len(sink \o inflight) = Len(sink) + Len(inflight)
          /\ \A i \in 1 .. Len(sink) + Len(inflight) :
                (sink \o inflight)[i] = IF i <= Len(sink) THEN sink[i] ELSE inflight[i - Len(sink)]
      BY ConcatProperties DEF AuditInv, BasicType
    <3>2. sink \o inflight \in Seq(Pieces) /\ buffer \in Seq(Pieces)
      BY TrackFacts DEF AuditInv, BasicType
    <3>3. /\ Len(Track) = Len(sink \o inflight) + Len(buffer)
          /\ \A i \in 1 .. Len(sink \o inflight) + Len(buffer) :
                Track[i] = IF i <= Len(sink \o inflight) THEN (sink \o inflight)[i]
                           ELSE buffer[i - Len(sink \o inflight)]
      BY <3>2, ConcatProperties DEF Track
    <3>4. Len(sink) \in Nat /\ Len(inflight) \in Nat /\ Len(buffer) \in Nat
      BY LenProperties DEF AuditInv, BasicType
    <3>5. DOMAIN sink = 1 .. Len(sink) /\ DOMAIN Track = 1 .. Len(Track)
      BY TrackFacts DEF AuditInv
    <3> QED
      BY <3>1, <3>3, <3>4, <3>5
  <2>2. /\ \A i \in WholeLines : sink[i].of \in Range(logged)
        /\ \A i, j \in WholeLines : i < j => Ahead(logged, sink[i].of, sink[j].of)
    BY <2>1 DEF AuditInv, OrderInv, InLine, IsLine, WholeLines
  <2> DEFINE f == [i \in WholeLines |-> CHOOSE k \in DOMAIN logged : logged[k] = sink[i].of]
  <2>3. \A i \in WholeLines : f[i] \in DOMAIN logged /\ logged[f[i]] = sink[i].of
    BY <2>2 DEF Range
  <2>4. f \in [WholeLines -> DOMAIN logged]
    BY <2>3
  <2> HIDE DEF f
  <2>5. ASSUME NEW i \in WholeLines, NEW j \in WholeLines, i < j
        PROVE  f[i] < f[j]
    <3>1. PICK a \in DOMAIN logged, b \in DOMAIN logged :
             a < b /\ logged[a] = sink[i].of /\ logged[b] = sink[j].of
      BY <2>2, <2>5 DEF Ahead
    <3>2. a = f[i] /\ b = f[j]
      BY <3>1, <2>3 DEF AuditInv, OrderInv, IsInjective
    <3> QED
      BY <3>1, <3>2
  <2> QED
    BY <2>3, <2>4, <2>5 DEF InOrder
<1> QED
  BY <1>1, AuditInit, AuditStep, PTL DEF Spec

\* When write_line returns Ok, the line and its newline are in the sink and
\* stay there.
THEOREM AcknowledgedDurable == Spec => []OkIsDurable
<1>1. AuditInv => OkIsDurable
  BY DEF AuditInv
<1> QED
  BY <1>1, AuditInit, AuditStep, PTL DEF Spec

\* The bound without the danger that is left.
LEMMA DamageIsBounded == AuditInv => DamageBounded
<1> SUFFICES ASSUME AuditInv PROVE DamageBounded
  OBVIOUS
<1>1. Cardinality(Unreadable) \in Nat /\ faults \in Nat /\ crashes \in Nat
  <2>1. IsFiniteSet(Unreadable)
    BY WrittenFinite, FS_Subset DEF Unreadable, AuditInv
  <2> QED
    BY <2>1, FS_CardinalityType, SizesAssumption DEF AuditInv, BasicType
<1>2. Cardinality(Unreadable) <= faults + crashes
  BY <1>1 DEF AuditInv, DamageInv
<1> QED
  BY <1>2 DEF DamageBounded, Unreadable

\* A failed write, or the end of the process, costs at most one entry that
\* was acknowledged: the one whose line is appended to the torn one.
THEOREM DamageIsLocal == Spec => []DamageBounded
BY DamageIsBounded, AuditInit, AuditStep, PTL DEF Spec

\* While nothing failed, every entry is written, at hand or queued, in order,
\* and what was acknowledged can be read back.
THEOREM OnlyFailuresLose == Spec => []LossIsFailure
<1>1. AuditInv => LossIsFailure
  <2> SUFFICES ASSUME AuditInv, faults = 0, crashes = 0, writer # "gone"
               PROVE  /\ \A e \in written : Readable(e)
                      /\ \E n \in 0 .. Len(logged) :
                            /\ channel = SubSeq(logged, n + 1, Len(logged))
                            /\ written = {logged[i] : i \in 1 .. n} \
                                  IF Busy THEN {entry} ELSE {}
    BY DEF LossIsFailure, Busy
  <2>1. \A e \in written : Readable(e)
    <3>1. IsFiniteSet(Unreadable) /\ Cardinality(Unreadable) \in Nat
      BY WrittenFinite, FS_Subset, FS_CardinalityType DEF Unreadable, AuditInv
    <3>2. Cardinality(Unreadable) = 0
      BY <3>1, DamageIsBounded DEF DamageBounded, Unreadable
    <3>3. Unreadable = {}
      BY <3>1, <3>2, FS_EmptySet
    <3> QED
      BY <3>3 DEF Unreadable
  <2>2. /\ Taken >= 0
        /\ \A k \in DOMAIN channel : channel[k] = logged[Taken + k]
        /\ written = {logged[i] : i \in 1 .. Taken} \ IF Busy THEN {entry} ELSE {}
    BY DEF AuditInv, LossInv
  <2>3. /\ Len(logged) \in Nat /\ DOMAIN logged = 1 .. Len(logged)
        /\ Len(channel) \in Nat /\ DOMAIN channel = 1 .. Len(channel)
        /\ \A i \in 1 .. Len(logged) : logged[i] \in Entries
    BY LenProperties DEF AuditInv, BasicType
  <2> DEFINE n == Taken
             q == SubSeq(logged, n + 1, Len(logged))
  <2>4. n \in 0 .. Len(logged) /\ Len(logged) = n + Len(channel)
    BY <2>2, <2>3 DEF Taken
  <2> HIDE DEF n
  <2>5. /\ q \in Seq(Entries) /\ Len(q) = Len(channel)
        /\ \A k \in 1 .. Len(channel) : q[k] = logged[n + k]
    <3>1. \A i \in n + 1 .. Len(logged) : logged[i] \in Entries
      BY <2>3, <2>4
    <3>2. /\ q \in Seq(Entries)
          /\ Len(q) = IF n + 1 <= Len(logged) THEN Len(logged) - (n + 1) + 1 ELSE 0
          /\ \A k \in 1 .. Len(logged) - (n + 1) + 1 : q[k] = logged[(n + 1) + k - 1]
      BY <2>3, <2>4, <3>1, SubSeqProperties
    <3> HIDE DEF q
    <3>3. Len(q) = Len(channel)
      BY <2>3, <2>4, <3>2
    <3>4. \A k \in 1 .. Len(channel) :
             k \in 1 .. Len(logged) - (n + 1) + 1 /\ (n + 1) + k - 1 = n + k
      BY <2>3, <2>4
    <3> QED
      BY <3>2, <3>3, <3>4
  <2> HIDE DEF q
  <2>6. channel = q
    BY <2>2, <2>3, <2>5, SeqEqual DEF AuditInv, BasicType, n
  <2>7. written = {logged[i] : i \in 1 .. n} \ IF Busy THEN {entry} ELSE {}
    BY <2>2 DEF n
  <2> QED
    BY <2>1, <2>4, <2>6, <2>7 DEF q
<1> QED
  BY <1>1, AuditInit, AuditStep, PTL DEF Spec

=============================================================================
