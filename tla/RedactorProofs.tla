--------------------------- MODULE RedactorProofs ---------------------------
(***************************************************************************)
(* Proofs about the redactor, for texts and documents of any length: what  *)
(* the passes of sanitize_str make of a string, and what the walk of       *)
(* sanitize_json makes of a document.                                      *)
(*                                                                         *)
(* A pass that rewrites a text goes through it by recursion.  Its result   *)
(* is the concatenation of pieces, each of them a stretch of the text kept *)
(* as it is or one dull word; the lemmas say where the words of the result *)
(* come from and what stands beside them.                                  *)
(***************************************************************************)
EXTENDS Redactor, SequenceTheorems, WellFoundedInduction, TLAPS

-----------------------------------------------------------------------------
(* Induction, from the library's theorem on well-founded relations. *)

\* A set of natural numbers has a least element.
LEMMA LeastNatural ==
  ASSUME NEW T \in SUBSET Nat, T # {}
  PROVE  \E x \in T : \A y \in T : x <= y
<1> DEFINE R == OpToRel(<, Nat)
<1>1. IsWellFoundedOn(R, Nat)
  BY NatLessThanWellFounded
<1>2. \A x, y \in Nat : y < x => <<y, x>> \in R
  BY DEF OpToRel
<1> HIDE DEF R
<1>3. PICK x \in T : \A y \in T : ~ (<<y, x>> \in R)
  BY <1>1, WFMin
<1>4. \A y \in T : y \in Nat /\ x \in Nat /\ ~ (y < x)
  BY <1>2, <1>3
<1> QED
  BY <1>3, <1>4

\* Induction from the end of a text to its start.
LEMMA Downward ==
  ASSUME NEW L \in Nat, NEW S,
         \A i \in 1 .. L + 1 : (\A j \in i + 1 .. L + 1 : j \in S) => i \in S
  PROVE  \A i \in 1 .. L + 1 : i \in S
<1> DEFINE T == {k \in Nat : k <= L /\ L + 1 - k \notin S}
<1>1. CASE T = {}
  <2> SUFFICES ASSUME NEW i \in 1 .. L + 1, i \notin S
               PROVE  FALSE
    OBVIOUS
  <2>1. L + 1 - i \in Nat /\ L + 1 - i <= L /\ L + 1 - (L + 1 - i) = i
    OBVIOUS
  <2>2. L + 1 - i \in T
    BY <2>1
  <2> QED
    BY <1>1, <2>2
<1>2. CASE T # {}
  <2>1. PICK k \in T : \A y \in T : k <= y
    BY <1>2, LeastNatural
  <2>2. k \in Nat /\ k <= L /\ L + 1 - k \in 1 .. L + 1 /\ L + 1 - k \notin S
    BY <2>1
  <2>3. ASSUME NEW j \in L + 1 - k + 1 .. L + 1
        PROVE  j \in S
    <3>1. L + 1 - j \in Nat /\ L + 1 - j <= L /\ L + 1 - j < k /\ L + 1 - (L + 1 - j) = j
      BY <2>2
    <3>2. L + 1 - j \notin T
      BY <2>1, <2>2, <3>1
    <3> QED
      BY <3>1, <3>2
  <2> QED
    BY <2>2, <2>3
<1> QED
  BY <1>1, <1>2

\* Induction from zero up to a bound.
LEMMA Upward ==
  ASSUME NEW L \in Nat, NEW S, 0 \in S,
         \A i \in 1 .. L : i - 1 \in S => i \in S
  PROVE  \A i \in 0 .. L : i \in S
<1> DEFINE T == {k \in Nat : k <= L /\ k \notin S}
<1>1. CASE T = {}
  BY <1>1
<1>2. CASE T # {}
  <2>1. PICK k \in T : \A y \in T : k <= y
    BY <1>2, LeastNatural
  <2>2. k \in 1 .. L /\ k - 1 \in Nat /\ k - 1 <= L /\ ~ (k <= k - 1)
    BY <2>1
  <2> QED
    BY <2>1, <2>2
<1> QED
  BY <1>1, <1>2

\* A set of positions has a greatest element, and Max names it.
LEMMA MaxIsGreatest ==
  ASSUME NEW L \in Nat, NEW S \in SUBSET (1 .. L), S # {}
  PROVE  Max(S) \in S /\ \A y \in S : Max(S) >= y
<1> DEFINE T == {k \in Nat : k <= L /\ L - k \in S}
<1>1. T # {}
  <2>1. PICK x \in S : TRUE
    OBVIOUS
  <2>2. L - x \in Nat /\ L - x <= L /\ L - (L - x) = x
    OBVIOUS
  <2> QED
    BY <2>2
<1>2. PICK k \in T : \A y \in T : k <= y
  BY <1>1, LeastNatural
<1>3. ASSUME NEW y \in S
      PROVE  L - k >= y
  <2>1. L - y \in Nat /\ L - y <= L /\ L - (L - y) = y
    OBVIOUS
  <2>2. L - y \in T
    BY <2>1
  <2> QED
    BY <1>2, <2>1, <2>2
<1>4. L - k \in S
  OBVIOUS
<1> QED
  BY <1>3, <1>4 DEF Max

\* The neighbours of word q of a stretch from i to e of n words.
LEMMA Inside ==
  ASSUME NEW i \in Int, NEW e \in Int, NEW n \in Int, n = e - i + 1, NEW q \in 1 .. n
  PROVE  /\ q < n => q + 1 \in 1 .. n /\ i + (q + 1) - 1 \in i + 1 .. e
         /\ q > 1 => /\ i + (q - 1) - 1 \in i .. e
                     /\ i + q - 1 \in i .. e /\ i + q - 1 > i
OBVIOUS

\* A stretch of a text, word by word.
LEMMA Stretch ==
  ASSUME NEW t \in Seq(Word), NEW i \in 1 .. Len(t), NEW e \in i .. Len(t), NEW x,
         x = SubSeq(t, i, e)
  PROVE  /\ x \in Seq(Word) /\ Len(x) = e - i + 1
         /\ \A k \in 1 .. e - i + 1 : x[k] = t[i + k - 1]
<1>1. Len(t) \in Nat /\ \A k \in 1 .. Len(t) : t[k] \in Word
  BY LenProperties
<1>2. i \in Int /\ e \in Int /\ i <= e /\ \A k \in i .. e : k \in 1 .. Len(t)
  BY <1>1
<1>3. \A k \in i .. e : t[k] \in Word
  BY <1>1, <1>2
<1>4. /\ SubSeq(t, i, e) \in Seq(Word)
      /\ Len(SubSeq(t, i, e)) = IF i <= e THEN e - i + 1 ELSE 0
      /\ \A k \in 1 .. e - i + 1 : SubSeq(t, i, e)[k] = t[i + k - 1]
  BY <1>2, <1>3, SubSeqProperties
<1> QED
  BY <1>2, <1>4

-----------------------------------------------------------------------------
(* Rewrite. *)

\* A word that stands for something replaced.
Dull(w) == w.kind \in Placeholders \cup {"cut"} /\ ~w.high

\* What the passes give to Rewrite: a match is kept, or becomes one word that
\* no detector recognises.
Pieces(t, end, new) ==
    /\ t \in Seq(Word)
    /\ end \in [1 .. Len(t) -> 1 .. Len(t)]
    /\ new \in [1 .. Len(t) -> Seq(Word)]
    /\ \A i \in 1 .. Len(t) : end[i] >= i
    /\ \A i \in 1 .. Len(t) :
          \/ new[i] = SubSeq(t, i, end[i])
          \/ \E w \in Word : new[i] = <<w>> /\ Dull(w)

\* f[i] is the rewritten text from word i on.
Unfolds(t, end, new, f) ==
    /\ f \in [1 .. Len(t) + 1 -> Seq(Word)]
    /\ f[Len(t) + 1] = <<>>
    /\ \A i \in 1 .. Len(t) : f[i] = new[i] \o f[end[i] + 1]

\* The recursion of Rewrite has a solution.
LEMMA RewriteExists ==
  ASSUME NEW t, NEW end, NEW new, Pieces(t, end, new)
  PROVE  \E g \in [1 .. Len(t) + 1 -> Seq(Word)] : \A j \in 1 .. Len(t) + 1 :
            g[j] = IF j > Len(t) THEN <<>> ELSE new[j] \o g[end[j] + 1]
<1> DEFINE L == Len(t)
           G == [1 .. L + 1 -> Seq(Word)]
           Solved(g, j) == g[j] = IF j > L THEN <<>> ELSE new[j] \o g[end[j] + 1]
           S == {i \in 1 .. L + 1 : \E g \in G : \A j \in i .. L + 1 : Solved(g, j)}
<1>1. /\ L \in Nat
      /\ \A i \in 1 .. L : end[i] \in i .. L /\ new[i] \in Seq(Word)
  <2>1. L \in Nat
    BY LenProperties DEF Pieces
  <2> QED
    BY <2>1 DEF Pieces
<1>2. ASSUME NEW i \in 1 .. L + 1, \A j \in i + 1 .. L + 1 : j \in S
      PROVE  i \in S
  <2>1. CASE i = L + 1
    <3> DEFINE g == [k \in 1 .. L + 1 |-> <<>>]
    <3>1. <<>> \in Seq(Word)
      OBVIOUS
    <3>2. g \in G /\ g[i] = <<>> /\ i > L
      BY <1>1, <2>1, <3>1
    <3>3. \A j \in i .. L + 1 : j = i
      BY <1>1, <2>1
    <3> HIDE DEF g, G
    <3>4. \A j \in i .. L + 1 : Solved(g, j)
      BY <3>2, <3>3
    <3> QED
      BY <3>2, <3>4
  <2>2. CASE i \in 1 .. L
    <3>1. i + 1 \in S /\ end[i] + 1 \in 1 .. L + 1 /\ ~ (i > L)
      <4>1. i + 1 \in i + 1 .. L + 1 /\ end[i] + 1 \in 1 .. L + 1 /\ ~ (i > L)
        BY <1>1, <2>2
      <4> HIDE DEF S
      <4> QED
        BY <1>2, <4>1
    <3>2. PICK g \in G : \A j \in i + 1 .. L + 1 : Solved(g, j)
      BY <3>1
    <3> DEFINE x == new[i] \o g[end[i] + 1]
               h == [g EXCEPT ![i] = x]
    <3>3. x \in Seq(Word)
      BY <1>1, <2>2, <3>1, <3>2, ConcatProperties
    <3> HIDE DEF x
    <3>4. h \in G /\ h[i] = x /\ \A j \in 1 .. L + 1 : j # i => h[j] = g[j]
      BY <3>2, <3>3
    <3> HIDE DEF h, G
    <3>5. end[i] + 1 # i
      BY <1>1, <2>2
    <3>6. Solved(h, i)
      BY <3>1, <3>4, <3>5 DEF x
    <3>7. ASSUME NEW j \in i + 1 .. L + 1
          PROVE  Solved(h, j)
      <4>1. j \in 1 .. L + 1 /\ j # i
        BY <1>1
      <4>2. CASE j > L
        BY <3>2, <3>4, <4>1, <4>2
      <4>3. CASE ~ (j > L)
        <5>1. j \in 1 .. L /\ end[j] + 1 \in 1 .. L + 1 /\ end[j] + 1 # i
          BY <1>1, <4>1, <4>3
        <5> QED
          BY <3>2, <3>4, <4>1, <4>3, <5>1
      <4> QED
        BY <4>2, <4>3
    <3>8. \A j \in i .. L + 1 : j = i \/ j \in i + 1 .. L + 1
      BY <1>1
    <3> HIDE DEF Solved
    <3>9. \A j \in i .. L + 1 : Solved(h, j)
      BY <3>6, <3>7, <3>8
    <3> QED
      BY <3>4, <3>9
  <2> QED
    BY <1>1, <2>1, <2>2
<1>3. 1 \in 1 .. L + 1
  BY <1>1
<1> HIDE DEF S, L
<1>4. 1 \in S
  BY <1>1, <1>2, <1>3, Downward
<1> QED
  BY <1>4 DEF S, L

\* Rewrite is what its recursion says.
LEMMA RewriteUnfolds ==
  ASSUME NEW t, NEW end, NEW new, Pieces(t, end, new)
  PROVE  \E f : Unfolds(t, end, new, f) /\ Rewrite(t, end, new) = f[1]
<1> DEFINE L == Len(t)
           f == CHOOSE g : g = [i \in 1 .. L + 1 |->
                                   IF i > L THEN <<>> ELSE new[i] \o g[end[i] + 1]]
           S == {i \in 1 .. L + 1 : f[i] \in Seq(Word)}
<1>1. /\ L \in Nat
      /\ \A i \in 1 .. L : end[i] \in i .. L /\ new[i] \in Seq(Word)
  <2>1. L \in Nat
    BY LenProperties DEF Pieces
  <2> QED
    BY <2>1 DEF Pieces
<1>2. f = [i \in 1 .. L + 1 |-> IF i > L THEN <<>> ELSE new[i] \o f[end[i] + 1]]
  <2>1. PICK g \in [1 .. L + 1 -> Seq(Word)] : \A j \in 1 .. L + 1 :
            g[j] = IF j > L THEN <<>> ELSE new[j] \o g[end[j] + 1]
    BY RewriteExists
  <2>2. g = [i \in 1 .. L + 1 |-> IF i > L THEN <<>> ELSE new[i] \o g[end[i] + 1]]
    BY <2>1
  <2> QED
    BY <2>2
<1>3. Rewrite(t, end, new) = f[1]
  BY DEF Rewrite
<1> HIDE DEF f
<1>4. f[L + 1] = <<>> /\ \A i \in 1 .. L : f[i] = new[i] \o f[end[i] + 1]
  <2>1. \A i \in 1 .. L + 1 : f[i] = IF i > L THEN <<>> ELSE new[i] \o f[end[i] + 1]
    BY <1>2
  <2>2. L + 1 \in 1 .. L + 1 /\ L + 1 > L /\ \A i \in 1 .. L : i \in 1 .. L + 1 /\ ~ (i > L)
    BY <1>1
  <2> HIDE DEF L
  <2> QED
    BY <2>1, <2>2
<1>5. ASSUME NEW i \in 1 .. L + 1, \A j \in i + 1 .. L + 1 : j \in S
      PROVE  i \in S
  <2>1. CASE i = L + 1
    <3>1. <<>> \in Seq(Word)
      OBVIOUS
    <3> QED
      BY <1>4, <2>1, <3>1
  <2>2. CASE i \in 1 .. L
    <3>1. end[i] + 1 \in i + 1 .. L + 1 /\ new[i] \in Seq(Word)
      BY <1>1, <2>2
    <3>2. f[end[i] + 1] \in Seq(Word)
      BY <1>5, <3>1
    <3> QED
      BY <1>4, <2>2, <3>1, <3>2, ConcatProperties
  <2> QED
    BY <1>1, <2>1, <2>2
<1> HIDE DEF S, L
<1>6. \A i \in 1 .. L + 1 : i \in S
  BY <1>1, <1>5, Downward
<1>7. f \in [1 .. L + 1 -> Seq(Word)]
  <2>1. \A i \in 1 .. L + 1 : f[i] \in Seq(Word)
    BY <1>6 DEF S
  <2>2. \E g : f = [i \in 1 .. L + 1 |-> g[i]]
    <3> DEFINE g == [i \in 1 .. L + 1 |-> IF i > L THEN <<>> ELSE new[i] \o f[end[i] + 1]]
    <3>1. g = [i \in 1 .. L + 1 |-> g[i]]
      OBVIOUS
    <3> HIDE DEF g
    <3> QED
      BY <1>2, <3>1 DEF g
  <2> QED
    BY <2>1, <2>2
<1> QED
  BY <1>3, <1>4, <1>7 DEF Unfolds, L

\* Piece i and its place in the rewritten text.
Piece(t, end, new, f, i) ==
    /\ end[i] \in i .. Len(t)
    /\ Len(new[i]) \in Nat \ {0}
    /\ Len(f[i]) = Len(new[i]) + Len(f[end[i] + 1])
    /\ \A k \in 1 .. Len(new[i]) : f[i][k] = new[i][k]
    /\ \A k \in 1 .. Len(f[end[i] + 1]) : f[i][Len(new[i]) + k] = f[end[i] + 1][k]
    /\ \/ /\ Len(new[i]) = end[i] - i + 1
          /\ \A k \in 1 .. Len(new[i]) : new[i][k] = t[i + k - 1]
       \/ Len(new[i]) = 1 /\ Dull(new[i][1])

\* The texts a rewriting works on.
Texts(t, f) ==
    /\ Len(t) \in Nat /\ DOMAIN t = 1 .. Len(t)
    /\ \A i \in 1 .. Len(t) : t[i] \in Word
    /\ \A i \in 1 .. Len(t) + 1 : f[i] \in Seq(Word) /\ Len(f[i]) \in Nat
    /\ Len(f[Len(t) + 1]) = 0

\* What a piece holds, and where the text goes on after it.
LEMMA PieceFacts ==
  ASSUME NEW t, NEW end, NEW new, NEW f, Pieces(t, end, new), Unfolds(t, end, new, f)
  PROVE  Texts(t, f) /\ \A i \in 1 .. Len(t) : Piece(t, end, new, f, i)
<1> DEFINE L == Len(t)
<1>1. /\ L \in Nat /\ DOMAIN t = 1 .. L /\ \A i \in 1 .. L : t[i] \in Word
      /\ t \in Seq(Word)
  BY LenProperties DEF Pieces
<1>2. \A i \in 1 .. L + 1 : f[i] \in Seq(Word) /\ Len(f[i]) \in Nat
  BY LenProperties DEF Unfolds
<1>3. Len(f[L + 1]) = 0
  BY DEF Unfolds
<1>4. ASSUME NEW i \in 1 .. L
      PROVE  Piece(t, end, new, f, i)
  <2>1. end[i] \in i .. L /\ new[i] \in Seq(Word)
    BY <1>1 DEF Pieces
  <2>2. end[i] + 1 \in 1 .. L + 1
    BY <1>1, <2>1
  <2>3. f[end[i] + 1] \in Seq(Word) /\ f[i] = new[i] \o f[end[i] + 1]
    BY <1>2, <2>2 DEF Unfolds
  <2>4. /\ Len(f[i]) = Len(new[i]) + Len(f[end[i] + 1])
        /\ Len(new[i]) \in Nat
        /\ \A k \in 1 .. Len(new[i]) : f[i][k] = new[i][k]
        /\ \A k \in 1 .. Len(f[end[i] + 1]) : f[i][Len(new[i]) + k] = f[end[i] + 1][k]
    <3> DEFINE a == new[i]
               b == f[end[i] + 1]
               ab == a \o b
    <3>1. a \in Seq(Word) /\ b \in Seq(Word)
      BY <2>1, <2>3
    <3> HIDE DEF a, b
    <3>2. Len(a) \in Nat /\ Len(b) \in Nat
      BY <3>1, LenProperties
    <3>3. /\ Len(ab) = Len(a) + Len(b)
          /\ \A k \in 1 .. Len(a) + Len(b) :
                ab[k] = IF k <= Len(a) THEN a[k] ELSE b[k - Len(a)]
      BY <3>1, ConcatProperties
    <3> HIDE DEF ab
    <3>4. \A k \in 1 .. Len(a) : ab[k] = a[k]
      BY <3>2, <3>3
    <3>5. \A k \in 1 .. Len(b) : ab[Len(a) + k] = b[k]
      <4> SUFFICES ASSUME NEW k \in 1 .. Len(b)
                   PROVE  ab[Len(a) + k] = b[k]
        OBVIOUS
      <4>1. Len(a) + k \in 1 .. Len(a) + Len(b) /\ ~ (Len(a) + k <= Len(a)) /\ Len(a) + k - Len(a) = k
        BY <3>2
      <4> QED
        BY <3>3, <4>1
    <3>6. f[i] = ab
      BY <2>3 DEF a, b, ab
    <3> QED
      BY <3>2, <3>3, <3>4, <3>5, <3>6 DEF a, b
  <2>5. CASE new[i] = SubSeq(t, i, end[i])
    <3>1. /\ Len(new[i]) = end[i] - i + 1
          /\ \A k \in 1 .. end[i] - i + 1 : new[i][k] = t[i + k - 1]
      BY <1>1, <2>1, <2>5, Stretch DEF Pieces
    <3>2. Len(new[i]) # 0
      BY <1>1, <2>1, <3>1
    <3> QED
      BY <2>1, <2>4, <3>1, <3>2 DEF Piece
  <2>6. CASE \E w \in Word : new[i] = <<w>> /\ Dull(w)
    <3>1. Len(new[i]) = 1 /\ Dull(new[i][1])
      BY <2>6
    <3> QED
      BY <2>1, <2>4, <3>1 DEF Piece
  <2> QED
    BY <2>5, <2>6 DEF Pieces
<1> HIDE DEF L
<1>5. /\ \A i \in 1 .. L : t[i] \in Word
      /\ L \in Nat /\ DOMAIN t = 1 .. L
  BY <1>1
<1> QED
  BY <1>2, <1>3, <1>4, <1>5 DEF L, Texts

\* Word p of the suffix f[s] stands in piece i, whose suffix starts after c words.
At(new, f, s, p, i, c) ==
    /\ p - c \in 1 .. Len(new[i])
    /\ Len(f[s]) = c + Len(f[i])
    /\ \A k \in 1 .. Len(f[i]) : f[s][c + k] = f[i][k]

\* Every word of the rewritten text stands in a piece, and from there on the
\* text is what the piece's suffix says.
LEMMA Located ==
  ASSUME NEW t, NEW end, NEW new, NEW f, Pieces(t, end, new), Unfolds(t, end, new, f),
         NEW p \in 1 .. Len(f[1])
  PROVE  \E i \in 1 .. Len(t), c \in Nat : At(new, f, 1, p, i, c)
<1> DEFINE L == Len(t)
           S == {s \in 1 .. L + 1 : \A x \in 1 .. Len(f[s]) :
                    \E i \in 1 .. L, c \in Nat : At(new, f, s, x, i, c)}
<1>1. Texts(t, f) /\ \A i \in 1 .. L : Piece(t, end, new, f, i)
  BY PieceFacts, Zenon
<1>2. L \in Nat
  BY <1>1 DEF Texts
<1>3. \A i \in 1 .. L + 1 : Len(f[i]) \in Nat
  BY <1>1 DEF Texts
<1>4. Len(f[L + 1]) = 0
  BY <1>1 DEF Texts
<1> HIDE DEF L
<1>5. ASSUME NEW s \in 1 .. L + 1, \A j \in s + 1 .. L + 1 : j \in S
      PROVE  s \in S
  <2> SUFFICES ASSUME NEW x \in 1 .. Len(f[s])
               PROVE  \E i \in 1 .. L, c \in Nat : At(new, f, s, x, i, c)
    OBVIOUS
  <2>1. s \in 1 .. L
    BY <1>2, <1>4
  <2> DEFINE n == Len(new[s])
             e == end[s] + 1
  <2>2. Piece(t, end, new, f, s)
    BY <1>1, <2>1
  <2>3. n \in Nat \ {0} /\ Len(f[s]) = n + Len(f[e])
    BY <2>2 DEF Piece
  <2>4. \A k \in 1 .. Len(f[e]) : f[s][n + k] = f[e][k]
    BY <2>2 DEF Piece
  <2>5. e \in s + 1 .. L + 1
    BY <1>2, <2>2 DEF Piece, L
  <2>6. e \in 1 .. L + 1 /\ e \in S
    BY <1>2, <1>5, <2>1, <2>5
  <2>7. Len(f[s]) \in Nat /\ Len(f[e]) \in Nat
    BY <1>3, <2>6
  <2> HIDE DEF n, e
  <2>8. CASE x <= n
    <3>1. At(new, f, s, x, s, 0)
      BY <2>1, <2>3, <2>7, <2>8 DEF n, At
    <3> QED
      BY <2>1, <3>1
  <2>9. CASE ~ (x <= n)
    <3>1. x - n \in 1 .. Len(f[e])
      BY <2>3, <2>7, <2>9
    <3>2. PICK i \in 1 .. L, c \in Nat : At(new, f, e, x - n, i, c)
      BY <2>6, <3>1
    <3>3. i \in 1 .. L + 1
      BY <1>2
    <3>4. Len(f[i]) \in Nat
      BY <1>3, <3>3
    <3>5. Len(new[i]) \in Nat
      <4>1. Piece(t, end, new, f, i)
        BY <1>1
      <4> QED
        BY <4>1 DEF Piece
    <3>6. x - n - c \in 1 .. Len(new[i]) /\ Len(f[e]) = c + Len(f[i])
      BY <3>2 DEF At
    <3>7. \A k \in 1 .. Len(f[i]) : f[e][c + k] = f[i][k]
      BY <3>2 DEF At
    <3>8. x - (n + c) \in 1 .. Len(new[i]) /\ Len(f[s]) = (n + c) + Len(f[i]) /\ n + c \in Nat
      <4> DEFINE li == Len(new[i])
                 fi == Len(f[i])
                 fe == Len(f[e])
                 fs == Len(f[s])
      <4> HIDE DEF li, fi, fe, fs
      <4>1. x \in Int /\ n \in Nat /\ c \in Nat /\ li \in Nat /\ fi \in Nat /\ fe \in Nat /\ fs \in Nat
        BY <2>3, <2>7, <3>4, <3>5 DEF li, fi, fe, fs
      <4>2. x - n - c \in 1 .. li /\ fe = c + fi /\ fs = n + fe
        BY <2>3, <3>6 DEF li, fi, fe, fs
      <4>3. x - (n + c) \in 1 .. li /\ fs = (n + c) + fi /\ n + c \in Nat
        BY <4>1, <4>2
      <4> QED
        BY <4>3 DEF li, fi, fs
    <3>9. ASSUME NEW k \in 1 .. Len(f[i])
          PROVE  f[s][(n + c) + k] = f[i][k]
      <4>1. c + k \in 1 .. Len(f[e]) /\ n + (c + k) = (n + c) + k
        BY <2>3, <3>4, <3>6
      <4>2. f[s][n + (c + k)] = f[e][c + k]
        BY <2>4, <4>1
      <4> QED
        BY <3>7, <4>1, <4>2
    <3>10. At(new, f, s, x, i, n + c)
      BY <3>8, <3>9 DEF At
    <3> QED
      BY <3>8, <3>10
  <2> QED
    BY <2>8, <2>9
<1>6. 1 \in 1 .. L + 1
  BY <1>2
<1> HIDE DEF S
<1>7. 1 \in S
  BY <1>2, <1>5, <1>6, Downward
<1> QED
  BY <1>7 DEF S, L

\* Word p of the rewritten text is word q of piece i; its neighbours are those
\* in its piece, or the first word of the piece that follows.
Neighbours(t, end, new, f, p, i, q) ==
    /\ q \in 1 .. Len(new[i]) /\ p >= q
    /\ f[1][p] = new[i][q]
    /\ q > 1 => f[1][p - 1] = new[i][q - 1]
    /\ q < Len(new[i]) => p < Len(f[1]) /\ f[1][p + 1] = new[i][q + 1]
    /\ q = Len(new[i]) /\ p < Len(f[1]) =>
          end[i] < Len(t) /\ f[1][p + 1] = new[end[i] + 1][1]

\* Every word of the rewritten text has such neighbours.
LEMMA Adjacent ==
  ASSUME NEW t, NEW end, NEW new, NEW f, Pieces(t, end, new), Unfolds(t, end, new, f),
         NEW p \in 1 .. Len(f[1])
  PROVE  \E i \in 1 .. Len(t), q \in Nat : Neighbours(t, end, new, f, p, i, q)
<1> DEFINE L == Len(t)
<1>1. PICK i \in 1 .. L, c \in Nat : At(new, f, 1, p, i, c)
  BY Located, Zenon
<1>2. Texts(t, f) /\ Piece(t, end, new, f, i)
  BY <1>1, PieceFacts, Zenon
<1> DEFINE q == p - c
           n == Len(new[i])
           e == end[i] + 1
           u == f[1]
<1>3. L \in Nat /\ Len(f[L + 1]) = 0
  BY <1>2 DEF Texts
<1>4. e \in i + 1 .. L + 1 /\ end[i] \in Int /\ e = end[i] + 1
  BY <1>2, <1>3 DEF Piece
<1>5. n \in Nat \ {0} /\ Len(f[i]) = n + Len(f[e])
  BY <1>2 DEF Piece
<1>6. Len(f[i]) \in Nat /\ Len(f[e]) \in Nat /\ Len(u) \in Nat
  <2>1. i \in 1 .. L + 1 /\ e \in 1 .. L + 1 /\ 1 \in 1 .. L + 1
    BY <1>3, <1>4
  <2>2. \A k \in 1 .. L + 1 : Len(f[k]) \in Nat
    BY <1>2 DEF Texts
  <2> HIDE DEF e, L
  <2> QED
    BY <2>1, <2>2
<1>7. \A k \in 1 .. n : f[i][k] = new[i][k]
  BY <1>2 DEF Piece
<1>8. \A k \in 1 .. Len(f[e]) : f[i][n + k] = f[e][k]
  BY <1>2 DEF Piece
<1>9. q \in 1 .. n /\ Len(u) = c + Len(f[i])
  BY <1>1 DEF At
<1>10. \A k \in 1 .. Len(f[i]) : u[c + k] = f[i][k]
  BY <1>1 DEF At
<1>11. p = c + q
  OBVIOUS
<1> HIDE DEF q, n, e, u, L
<1>12. \A k \in 1 .. n : u[c + k] = new[i][k]
  <2>1. \A k \in 1 .. n : k \in 1 .. Len(f[i])
    BY <1>5, <1>6
  <2> QED
    BY <1>7, <1>10, <2>1
<1>13. ASSUME q = n, p < Len(u)
       PROVE  end[i] < L /\ u[p + 1] = new[e][1]
  <2>1. 1 \in 1 .. Len(f[e]) /\ p + 1 = c + (n + 1) /\ n + 1 \in 1 .. Len(f[i])
    BY <1>5, <1>6, <1>9, <1>11, <1>13
  <2>2. e # L + 1
    BY <1>3, <2>1
  <2>3. e \in 1 .. L /\ end[i] < L
    BY <1>3, <1>4, <2>2
  <2>4. Piece(t, end, new, f, e)
    BY <2>3, PieceFacts, Zenon DEF L
  <2>5. f[e][1] = new[e][1]
    BY <2>4 DEF Piece
  <2>6. u[c + (n + 1)] = f[i][n + 1]
    BY <1>10, <2>1
  <2>7. f[i][n + 1] = f[e][1]
    BY <1>8, <2>1
  <2> QED
    BY <2>1, <2>3, <2>5, <2>6, <2>7
<1>14. p >= q
  BY <1>9, <1>11
<1>15. u[p] = new[i][q]
  BY <1>9, <1>11, <1>12
<1>16. q > 1 => u[p - 1] = new[i][q - 1]
  <2>1. q > 1 => q - 1 \in 1 .. n /\ p - 1 = c + (q - 1)
    BY <1>5, <1>9, <1>11
  <2> QED
    BY <1>12, <2>1
<1>17. q < n => p < Len(u) /\ u[p + 1] = new[i][q + 1]
  <2>1. q < n => q + 1 \in 1 .. n /\ p + 1 = c + (q + 1) /\ p < Len(u)
    BY <1>5, <1>6, <1>9, <1>11
  <2> QED
    BY <1>12, <2>1
<1>18. Neighbours(t, end, new, f, p, i, q)
  BY <1>9, <1>13, <1>14, <1>15, <1>16, <1>17 DEF n, e, u, L, Neighbours
<1>19. i \in 1 .. Len(t) /\ q \in Nat
  BY <1>1, <1>9 DEF L
<1> QED
  BY <1>18, <1>19

\* Word p of the text u that t became is a word of t, followed by what
\* followed it there or by a replacement; or it is a replacement itself.
Follows(t, u, p) ==
    \/ Dull(u[p])
    \/ \E m \in 1 .. Len(t) :
          /\ u[p] = t[m]
          /\ p < Len(u) => m < Len(t) /\ (u[p + 1] = t[m + 1] \/ Dull(u[p + 1]))

\* A rewritten text consists of such words.
LEMMA Successor ==
  ASSUME NEW t, NEW end, NEW new, Pieces(t, end, new)
  PROVE  LET u == Rewrite(t, end, new)
         IN  u \in Seq(Word) /\ \A p \in 1 .. Len(u) : Follows(t, u, p)
<1> DEFINE u == Rewrite(t, end, new)
           L == Len(t)
<1>1. PICK f : Unfolds(t, end, new, f) /\ u = f[1]
  BY RewriteUnfolds, Zenon
<1> HIDE DEF u
<1>2. Texts(t, f) /\ \A i \in 1 .. L : Piece(t, end, new, f, i)
  BY <1>1, PieceFacts, Zenon
<1>3. L \in Nat
  BY <1>2 DEF Texts
<1>4. u \in Seq(Word)
  <2>1. 1 \in 1 .. L + 1
    BY <1>3
  <2> QED
    BY <1>1, <1>2, <2>1 DEF Texts
<1>5. ASSUME NEW p \in 1 .. Len(u)
      PROVE  Follows(t, u, p)
  <2>1. PICK i \in 1 .. L, q \in Nat : Neighbours(t, end, new, f, p, i, q)
    BY <1>1, Adjacent, Zenon
  <2> DEFINE n == Len(new[i])
             m == i + q - 1
  <2>2. Piece(t, end, new, f, i)
    BY <1>2
  <2>3. n \in Nat \ {0} /\ end[i] \in i .. L
    BY <2>2 DEF Piece
  <2>4. q \in 1 .. n /\ u[p] = new[i][q] /\ (q < n => u[p + 1] = new[i][q + 1])
    BY <1>1, <2>1 DEF Neighbours
  <2>5. q = n /\ p < Len(u) => end[i] < L /\ u[p + 1] = new[end[i] + 1][1]
    BY <1>1, <2>1 DEF Neighbours
  <2>6. CASE n = 1 /\ Dull(new[i][1])
    <3>1. q = 1
      BY <2>4, <2>6
    <3>2. Dull(u[p])
      BY <2>4, <2>6, <3>1, Zenon
    <3> QED
      BY <3>2 DEF Follows
  <2>7. CASE n = end[i] - i + 1 /\ \A k \in 1 .. n : new[i][k] = t[i + k - 1]
    <3>1. m \in 1 .. L /\ u[p] = t[m]
      BY <1>3, <2>3, <2>4, <2>7
    <3>2. CASE p < Len(u) /\ q < n
      <4>1. m < L /\ q + 1 \in 1 .. n /\ i + (q + 1) - 1 = m + 1
        <5> DEFINE e == end[i]
        <5>1. n \in Nat /\ e \in i .. L /\ n = e - i + 1 /\ q \in 1 .. n /\ q < n
          BY <2>3, <2>4, <2>7, <3>2
        <5> HIDE DEF e, n
        <5> QED
          BY <1>3, <5>1
      <4>2. u[p + 1] = t[m + 1]
        BY <2>4, <2>7, <3>2, <4>1
      <4> HIDE DEF m
      <4> QED
        BY <3>1, <4>1, <4>2 DEF Follows
    <3>3. CASE p < Len(u) /\ ~ (q < n)
      <4>1. q = n /\ m = end[i]
        <5>1. n = end[i] - i + 1 /\ q = n
          BY <2>3, <2>4, <2>7, <3>3
        <5> QED
          BY <1>3, <2>3, <5>1
      <4> HIDE DEF m, n
      <4>2. m < L /\ u[p + 1] = new[m + 1][1] /\ m + 1 \in 1 .. L
        <5>1. end[i] < L /\ u[p + 1] = new[end[i] + 1][1]
          BY <2>5, <3>3, <4>1, Zenon
        <5>2. m < L /\ u[p + 1] = new[m + 1][1]
          BY <4>1, <5>1, Zenon
        <5>3. m + 1 \in 1 .. L
          <6>1. m \in 1 .. L /\ m < L
            BY <3>1, <5>2
          <6> QED
            BY <1>3, <6>1
        <5> QED
          BY <5>2, <5>3
      <4>3. Piece(t, end, new, f, m + 1)
        BY <1>2, <4>2
      <4>4. new[m + 1][1] = t[m + 1] \/ Dull(new[m + 1][1])
        <5>1. Len(new[m + 1]) \in Nat \ {0}
          BY <4>3 DEF Piece
        <5>2. 1 \in 1 .. Len(new[m + 1]) /\ m + 1 + 1 - 1 = m + 1
          BY <3>1, <5>1
        <5>3. \/ \A k \in 1 .. Len(new[m + 1]) : new[m + 1][k] = t[m + 1 + k - 1]
              \/ Dull(new[m + 1][1])
          BY <4>3 DEF Piece
        <5> QED
          BY <5>2, <5>3
      <4>5. u[p + 1] = t[m + 1] \/ Dull(u[p + 1])
        BY <4>2, <4>4, Zenon
      <4> QED
        BY <3>1, <4>2, <4>5 DEF Follows
    <3>4. CASE ~ (p < Len(u))
      <4> HIDE DEF m
      <4> QED
        BY <3>1, <3>4 DEF Follows
    <3> QED
      BY <3>2, <3>3, <3>4
  <2> QED
    BY <2>2, <2>6, <2>7 DEF Piece
<1> QED
  BY <1>4, <1>5 DEF u

\* If every match is kept, so is the text.
LEMMA AllKept ==
  ASSUME NEW t, NEW end, NEW new, Pieces(t, end, new),
         \A i \in 1 .. Len(t) : new[i] = SubSeq(t, i, end[i])
  PROVE  Rewrite(t, end, new) = t
<1> DEFINE L == Len(t)
           Same(f, i) == Len(f[i]) = L + 1 - i /\ \A k \in 1 .. L + 1 - i : f[i][k] = t[i + k - 1]
           S(f) == {i \in 1 .. L + 1 : Same(f, i)}
<1>1. PICK f : Unfolds(t, end, new, f) /\ Rewrite(t, end, new) = f[1]
  BY RewriteUnfolds
<1>2. Texts(t, f) /\ \A i \in 1 .. L : Piece(t, end, new, f, i)
  BY <1>1, PieceFacts, Zenon
<1>3. L \in Nat /\ t \in Seq(Word)
  BY <1>2 DEF Texts, Pieces
<1>4. ASSUME NEW i \in 1 .. L + 1, \A j \in i + 1 .. L + 1 : j \in S(f)
      PROVE  i \in S(f)
  <2>0. i = L + 1 \/ i \in 1 .. L
    BY <1>3
  <2>1. CASE i = L + 1
    BY <1>2, <1>3, <2>1 DEF Texts
  <2>2. CASE i \in 1 .. L
    <3> DEFINE e == end[i] + 1
               n == Len(new[i])
    <3>1. Piece(t, end, new, f, i)
      BY <1>2, <2>2
    <3>2. e \in i + 1 .. L + 1 /\ end[i] \in i .. L
      BY <1>3, <3>1 DEF Piece
    <3>3. Same(f, e)
      BY <1>4, <3>2
    <3>4. n = e - i /\ \A k \in 1 .. n : new[i][k] = t[i + k - 1]
      <4>1. /\ Len(new[i]) = end[i] - i + 1
            /\ \A k \in 1 .. end[i] - i + 1 : new[i][k] = t[i + k - 1]
        <5>1. new[i] = SubSeq(t, i, end[i]) /\ i \in 1 .. Len(t) /\ end[i] \in i .. Len(t)
          BY <2>2, <3>2
        <5>2. t \in Seq(Word)
          BY <1>3
        <5> QED
          BY <5>1, <5>2, Stretch, ZenonT(30)
      <4> QED
        BY <3>2, <4>1
    <3>5. Len(f[i]) = n + Len(f[e]) /\ \A k \in 1 .. n : f[i][k] = new[i][k]
      BY <3>1 DEF Piece
    <3>6. \A k \in 1 .. Len(f[e]) : f[i][n + k] = f[e][k]
      BY <3>1 DEF Piece
    <3>7. Len(f[e]) = L + 1 - e /\ \A k \in 1 .. L + 1 - e : f[e][k] = t[e + k - 1]
      BY <3>3
    <3> HIDE DEF e, n, L
    <3>8. ASSUME NEW k \in 1 .. L + 1 - i
          PROVE  f[i][k] = t[i + k - 1]
      <4>1. CASE k <= n
        BY <1>3, <3>2, <3>4, <3>5, <4>1
      <4>2. CASE ~ (k <= n)
        <5>1. k - n \in 1 .. L + 1 - e /\ n + (k - n) = k /\ e + (k - n) - 1 = i + k - 1
          BY <1>3, <3>2, <3>4, <4>2
        <5>2. f[i][n + (k - n)] = f[e][k - n] /\ f[e][k - n] = t[e + (k - n) - 1]
          BY <3>6, <3>7, <5>1
        <5> QED
          BY <5>1, <5>2
      <4> QED
        BY <4>1, <4>2
    <3>9. Len(f[i]) = L + 1 - i
      BY <1>3, <3>2, <3>4, <3>5, <3>7
    <3> QED
      BY <3>8, <3>9 DEF L
  <2> QED
    BY <2>0, <2>1, <2>2
<1>5. 1 \in 1 .. L + 1
  BY <1>3
<1> HIDE DEF S, L
<1>6. 1 \in S(f)
  BY <1>3, <1>4, <1>5, Downward
<1>7. f[1] \in Seq(Word) /\ Len(f[1]) = L /\ \A k \in 1 .. L : f[1][k] = t[k]
  <2>1. Len(f[1]) = L + 1 - 1 /\ \A k \in 1 .. L + 1 - 1 : f[1][k] = t[1 + k - 1]
    BY <1>6 DEF S
  <2>2. L + 1 - 1 = L /\ \A k \in 1 .. L : 1 + k - 1 = k
    BY <1>3
  <2>3. f[1] \in Seq(Word)
    BY <1>2, <1>5 DEF Texts, L
  <2> QED
    BY <2>1, <2>2, <2>3
<1>8. f[1] = t
  <2>1. Len(f[1]) = Len(t) /\ \A k \in 1 .. Len(f[1]) : f[1][k] = t[k]
    BY <1>7 DEF L
  <2> QED
    BY <1>3, <1>7, <2>1, SeqEqual
<1> QED
  BY <1>1, <1>8

\* The first b words of the suffix f[s] are those of the text.
Untouched(t, f, s, b) ==
    s + b - 1 <= Len(t) /\ \A k \in 1 .. b : f[s][k] = t[s + k - 1]

\* The first b words of the suffix f[s] are no replacements.
Bright(f, s, b) == \A k \in 1 .. b : ~Dull(f[s][k])

\* Up to the first replacement, a suffix of the rewritten text is the text.
LEMMA Lead ==
  ASSUME NEW t, NEW end, NEW new, NEW f, Pieces(t, end, new), Unfolds(t, end, new, f),
         NEW s \in 1 .. Len(t) + 1, NEW b \in 1 .. Len(f[s])
  PROVE  Bright(f, s, b) => Untouched(t, f, s, b)
<1> DEFINE L == Len(t)
           S == {i \in 1 .. L + 1 : \A m \in 1 .. Len(f[i]) : Bright(f, i, m) => Untouched(t, f, i, m)}
<1>1. Texts(t, f) /\ \A i \in 1 .. L : Piece(t, end, new, f, i)
  BY PieceFacts, Zenon
<1>2. L \in Nat /\ Len(f[L + 1]) = 0
  BY <1>1 DEF Texts
<1>3. ASSUME NEW i \in 1 .. L + 1, \A j \in i + 1 .. L + 1 : j \in S
      PROVE  i \in S
  <2> SUFFICES ASSUME NEW m \in 1 .. Len(f[i]), Bright(f, i, m)
               PROVE  Untouched(t, f, i, m)
    OBVIOUS
  <2>1. i \in 1 .. L
    BY <1>2
  <2> DEFINE e == end[i] + 1
             n == Len(new[i])
  <2>2. Piece(t, end, new, f, i)
    BY <1>1, <2>1
  <2>3. e \in i + 1 .. L + 1 /\ n \in Nat \ {0} /\ e = end[i] + 1 /\ end[i] \in i .. L
    BY <1>2, <2>2 DEF Piece
  <2>4. Len(f[i]) = n + Len(f[e]) /\ \A k \in 1 .. n : f[i][k] = new[i][k]
    BY <2>2 DEF Piece
  <2>5. \A k \in 1 .. Len(f[e]) : f[i][n + k] = f[e][k]
    BY <2>2 DEF Piece
  <2>6. Len(f[e]) \in Nat /\ Len(f[i]) \in Nat
    <3>1. e \in 1 .. L + 1 /\ i \in 1 .. L + 1
      BY <2>1, <2>3, <1>2
    <3> HIDE DEF e
    <3> QED
      BY <1>1, <3>1 DEF Texts
  <2>7. ~Dull(new[i][1])
    <3>1. 1 \in 1 .. m /\ 1 \in 1 .. n
      BY <2>3, <2>6
    <3> QED
      BY <2>4, <3>1 DEF Bright
  <2>8. \A k \in 1 .. n : f[i][k] = t[i + k - 1]
    BY <2>2, <2>7 DEF Piece
  <2>12. n = end[i] - i + 1 /\ Len(f[i]) = n + Len(f[e])
    BY <2>2, <2>7 DEF Piece
  <2>9. e \in S
    BY <1>3, <2>3
  <2>13. m \in Nat \ {0} /\ m <= n + Len(f[e])
    BY <2>6, <2>12
  <2>14. n = e - i /\ e \in Int /\ n \in Int /\ i \in Int /\ e <= L + 1
    BY <1>2, <2>3, <2>12
  <2> HIDE DEF e, n, L
  <2>10. CASE m <= n
    <3>1. i + m - 1 <= L /\ \A k \in 1 .. m : k \in 1 .. n
      BY <1>2, <2>10, <2>13, <2>14
    <3> QED
      BY <2>8, <3>1 DEF Untouched, L
  <2>11. CASE ~ (m <= n)
    <3>1. m - n \in 1 .. Len(f[e])
      BY <2>6, <2>11, <2>13, <2>14
    <3>2. Bright(f, e, m - n)
      <4> SUFFICES ASSUME NEW k \in 1 .. m - n
                   PROVE  ~Dull(f[e][k])
        BY DEF Bright
      <4>1. k \in 1 .. Len(f[e]) /\ n + k \in 1 .. m
        BY <2>3, <2>6, <3>1
      <4> QED
        BY <2>5, <4>1 DEF Bright
    <3>3. Untouched(t, f, e, m - n)
      BY <2>9, <3>1, <3>2
    <3>4. e + (m - n) - 1 <= L /\ \A k \in 1 .. m - n : f[e][k] = t[e + k - 1]
      BY <3>3 DEF Untouched, L
    <3>5. i + m - 1 <= L
      <4>1. e + (m - n) - 1 <= L
        BY <3>3 DEF Untouched, L
      <4> QED
        BY <1>2, <2>13, <2>14, <4>1
    <3>6. ASSUME NEW k \in 1 .. m
          PROVE  f[i][k] = t[i + k - 1]
      <4>1. CASE k <= n
        BY <2>3, <2>8, <4>1
      <4>2. CASE ~ (k <= n)
        <5>1. /\ k - n \in 1 .. m - n /\ k - n \in 1 .. Len(f[e])
              /\ n + (k - n) = k /\ e + (k - n) - 1 = i + k - 1
          BY <2>6, <2>13, <2>14, <3>1, <4>2
        <5>2. f[i][n + (k - n)] = f[e][k - n] /\ f[e][k - n] = t[e + (k - n) - 1]
          BY <2>5, <3>4, <5>1
        <5> QED
          BY <5>1, <5>2
      <4> QED
        BY <4>1, <4>2
    <3> QED
      BY <3>5, <3>6 DEF Untouched, L
  <2> QED
    BY <2>10, <2>11
<1> HIDE DEF S, L
<1>4. \A i \in 1 .. L + 1 : i \in S
  BY <1>2, <1>3, Downward
<1>5. s \in S
  BY <1>4 DEF L
<1>6. Bright(f, s, b) => Untouched(t, f, s, b)
  BY <1>5 DEF S
<1> QED
  BY <1>6 DEF L

-----------------------------------------------------------------------------
(* The passes are rewritings. *)

\* A replaced word is a word, and dull.
LEMMA PutIsDull ==
  ASSUME NEW w \in Word, NEW k \in Placeholders \cup {"cut"}
  PROVE  Put(w, k) \in Word /\ Dull(Put(w, k))
<1>1. k \in Kinds /\ <<>> \in Seq(0 .. 9) /\ w.sep \in {"space", "line", "glue"}
  BY DEF Kinds, Word
<1>2. Put(w, k) \in [kind : Kinds, high : BOOLEAN, digits : Seq(0 .. 9),
                      sep : {"space", "line", "glue"}]
  BY <1>1 DEF Put
<1>3. Put(w, k).kind = k /\ Put(w, k).high = FALSE
  BY DEF Put
<1> QED
  BY <1>2, <1>3 DEF Word, Dull

\* A stretch of one word.
LEMMA SubSeqOne ==
  ASSUME NEW t \in Seq(Word), NEW i \in 1 .. Len(t)
  PROVE  SubSeq(t, i, i) = <<t[i]>> /\ <<t[i]>> \in Seq(Word)
<1>1. Len(t) \in Nat /\ t[i] \in Word
  BY LenProperties
<1>2. /\ SubSeq(t, i, i) \in Seq(Word)
      /\ Len(SubSeq(t, i, i)) = 1
      /\ SubSeq(t, i, i)[1] = t[i]
  <2>1. /\ SubSeq(t, i, i) \in Seq(Word)
        /\ Len(SubSeq(t, i, i)) = i - i + 1
        /\ \A k \in 1 .. i - i + 1 : SubSeq(t, i, i)[k] = t[i + k - 1]
    <3>1. i \in i .. Len(t)
      BY <1>1
    <3> QED
      BY <3>1, Stretch
  <2>2. i - i + 1 = 1 /\ i + 1 - 1 = i
    OBVIOUS
  <2> QED
    BY <2>1, <2>2
<1>3. <<t[i]>> \in Seq(Word) /\ Len(<<t[i]>>) = 1 /\ <<t[i]>>[1] = t[i]
  BY <1>1
<1> HIDE DEF Word
<1>4. \A k \in 1 .. 1 : SubSeq(t, i, i)[k] = <<t[i]>>[k]
  BY <1>2, <1>3
<1> QED
  BY <1>2, <1>3, <1>4, SeqEqual

\* What a match becomes is a text.
LEMMA PieceType ==
  ASSUME NEW t \in Seq(Word), NEW i \in 1 .. Len(t), NEW e \in i .. Len(t), NEW x,
         x = SubSeq(t, i, e) \/ \E w \in Word : x = <<w>> /\ Dull(w)
  PROVE  x \in Seq(Word)
<1>1. SubSeq(t, i, e) \in Seq(Word)
  BY Stretch
<1>2. \A w \in Word : <<w>> \in Seq(Word)
  OBVIOUS
<1> QED
  BY <1>1, <1>2

\* A pass that keeps or replaces every match is a rewriting.
LEMMA ArePieces ==
  ASSUME NEW t \in Seq(Word), NEW end, NEW new, DOMAIN t = 1 .. Len(t),
         end = [i \in DOMAIN t |-> end[i]], new = [i \in DOMAIN t |-> new[i]],
         \A i \in 1 .. Len(t) :
            /\ end[i] \in i .. Len(t)
            /\ new[i] = SubSeq(t, i, end[i]) \/ \E w \in Word : new[i] = <<w>> /\ Dull(w)
  PROVE  Pieces(t, end, new)
<1> DEFINE L == Len(t)
<1>1. L \in Nat
  BY LenProperties
<1>2. \A i \in 1 .. L : end[i] \in 1 .. L /\ end[i] >= i
  BY <1>1
<1>3. \A i \in 1 .. L : new[i] \in Seq(Word)
  <2> SUFFICES ASSUME NEW i \in 1 .. L
               PROVE  new[i] \in Seq(Word)
    OBVIOUS
  <2> QED
    BY PieceType
<1> HIDE DEF L
<1>4. end \in [1 .. L -> 1 .. L] /\ new \in [1 .. L -> Seq(Word)]
  BY <1>2, <1>3 DEF L
<1> QED
  BY <1>2, <1>4 DEF L, Pieces

\* BearerPass takes keyword and token for one match.
BearerEnd(t) == [i \in DOMAIN t |-> IF BearerAt(t, i) THEN i + 1 ELSE i]
BearerNew(t) ==
    [i \in DOMAIN t |->
        <<IF BearerAt(t, i)
          THEN Put(t[i], IF t[i + 1].kind = "email" THEN "cut" ELSE "[SECRET]")
          ELSE t[i]>>]

\* BearerPass is a rewriting.
LEMMA BearerPieces ==
  ASSUME NEW t \in Seq(Word)
  PROVE  Pieces(t, BearerEnd(t), BearerNew(t))
         /\ BearerPass(t) = Rewrite(t, BearerEnd(t), BearerNew(t))
<1> DEFINE end == BearerEnd(t)
           new == BearerNew(t)
<1>1. Len(t) \in Nat /\ DOMAIN t = 1 .. Len(t) /\ \A i \in 1 .. Len(t) : t[i] \in Word
  BY LenProperties
<1>2. end = [i \in DOMAIN t |-> end[i]] /\ new = [i \in DOMAIN t |-> new[i]]
  BY DEF BearerEnd, BearerNew
<1>3. ASSUME NEW i \in 1 .. Len(t)
      PROVE  /\ end[i] \in i .. Len(t)
             /\ new[i] = SubSeq(t, i, end[i]) \/ \E w \in Word : new[i] = <<w>> /\ Dull(w)
  <2>1. CASE BearerAt(t, i)
    <3> DEFINE k == IF t[i + 1].kind = "email" THEN "cut" ELSE "[SECRET]"
    <3>1. end[i] = i + 1 /\ new[i] = <<Put(t[i], k)>> /\ i < Len(t)
      BY <1>1, <2>1 DEF BearerEnd, BearerNew, BearerAt
    <3>2. k \in Placeholders \cup {"cut"}
      BY DEF Placeholders
    <3> HIDE DEF k
    <3>3. Put(t[i], k) \in Word /\ Dull(Put(t[i], k))
      BY <1>1, <3>2, PutIsDull
    <3>4. end[i] \in i .. Len(t)
      BY <1>1, <3>1
    <3> QED
      BY <3>1, <3>3, <3>4
  <2>2. CASE ~BearerAt(t, i)
    <3>1. end[i] = i /\ new[i] = <<t[i]>>
      BY <1>1, <2>2 DEF BearerEnd, BearerNew
    <3>2. new[i] = SubSeq(t, i, end[i])
      BY <3>1, SubSeqOne
    <3> QED
      BY <1>1, <3>1, <3>2
  <2> QED
    BY <2>1, <2>2
<1>4. BearerPass(t) = Rewrite(t, end, new)
  BY DEF BearerPass, BearerEnd, BearerNew
<1> HIDE DEF end, new
<1>5. Pieces(t, end, new)
  BY <1>1, <1>2, <1>3, ArePieces
<1> QED
  BY <1>4, <1>5 DEF end, new

\* CardPass takes the longest candidate for a match.
CardTo(t) == [i \in DOMAIN t |-> IF CardEnds(t, i) = {} THEN i ELSE CardEnd(t, i)]
IsCard(t, i) == CardEnds(t, i) # {} /\ LuhnCheck(DigitsOf(t, i, CardTo(t)[i]))
CardNew(t) ==
    [i \in DOMAIN t |->
        IF IsCard(t, i) THEN <<Put(t[i], "[CARD]")>> ELSE SubSeq(t, i, CardTo(t)[i])]

\* The longest candidate is a candidate.
LEMMA CardEndIsLongest ==
  ASSUME NEW t \in Seq(Word), NEW i \in 1 .. Len(t), CardEnds(t, i) # {}
  PROVE  CardEnd(t, i) \in CardEnds(t, i) /\ CardEnd(t, i) \in i .. Len(t)
         /\ \A j \in CardEnds(t, i) : j <= CardEnd(t, i)
<1>1. Len(t) \in Nat
  BY LenProperties
<1>2. CardEnds(t, i) \in SUBSET (i .. Len(t))
  BY DEF CardEnds
<1> DEFINE S == CardEnds(t, i)
<1> HIDE DEF S
<1>3. S \in SUBSET (1 .. Len(t)) /\ S # {}
  <2>1. \A j \in i .. Len(t) : j \in 1 .. Len(t)
    BY <1>1
  <2> QED
    BY <1>2, <2>1 DEF S
<1>4. Max(S) \in S /\ \A y \in S : Max(S) >= y
  BY <1>1, <1>3, MaxIsGreatest
<1>5. Max(S) \in i .. Len(t) /\ \A y \in S : y \in Int
  BY <1>2, <1>4 DEF S
<1>6. \A y \in S : y <= Max(S)
  BY <1>4, <1>5
<1> QED
  BY <1>4, <1>5, <1>6 DEF S, CardEnd

\* CardPass is a rewriting.
LEMMA CardPieces ==
  ASSUME NEW t \in Seq(Word)
  PROVE  Pieces(t, CardTo(t), CardNew(t))
         /\ CardPass(t) = Rewrite(t, CardTo(t), CardNew(t))
<1> DEFINE end == CardTo(t)
           new == CardNew(t)
<1>1. Len(t) \in Nat /\ DOMAIN t = 1 .. Len(t) /\ \A i \in 1 .. Len(t) : t[i] \in Word
  BY LenProperties
<1>2. end = [i \in DOMAIN t |-> end[i]] /\ new = [i \in DOMAIN t |-> new[i]]
  BY DEF CardTo, CardNew
<1>3. ASSUME NEW i \in 1 .. Len(t)
      PROVE  /\ end[i] \in i .. Len(t)
             /\ new[i] = SubSeq(t, i, end[i]) \/ \E w \in Word : new[i] = <<w>> /\ Dull(w)
  <2>1. end[i] \in i .. Len(t)
    BY <1>1, CardEndIsLongest DEF CardTo
  <2>2. CASE IsCard(t, i)
    <3>1. new[i] = <<Put(t[i], "[CARD]")>>
      BY <1>1, <2>2 DEF CardNew
    <3>2. Put(t[i], "[CARD]") \in Word /\ Dull(Put(t[i], "[CARD]"))
      BY <1>1, PutIsDull DEF Placeholders
    <3> QED
      BY <2>1, <3>1, <3>2
  <2>3. CASE ~IsCard(t, i)
    BY <1>1, <2>1, <2>3 DEF CardNew
  <2> QED
    BY <2>2, <2>3
<1>4. CardPass(t) = Rewrite(t, end, new)
  BY DEF CardPass, CardTo, CardNew, IsCard
<1> HIDE DEF end, new
<1>5. Pieces(t, end, new)
  BY <1>1, <1>2, <1>3, ArePieces
<1> QED
  BY <1>4, <1>5 DEF end, new

\* EntropyPass takes what stands between two spaces for a match.
TokenTo(t) == [i \in DOMAIN t |-> TokenEnd(t, i)]
IsSecret(t, dense, i) ==
    /\ ~Bracketed(t, i, TokenTo(t)[i])
    /\ IF Intact(t, i, TokenTo(t)[i]) THEN t[i].high ELSE i \in dense
TokenNew(t, dense) ==
    [i \in DOMAIN t |->
        IF IsSecret(t, dense, i) THEN <<Put(t[i], "[SECRET]")>> ELSE SubSeq(t, i, TokenTo(t)[i])]

\* A token ends at its last word that no space stands before.
LEMMA TokenEndIsLast ==
  ASSUME NEW t \in Seq(Word), NEW i \in 1 .. Len(t)
  PROVE  /\ TokenEnd(t, i) \in i .. Len(t)
         /\ \A k \in i + 1 .. TokenEnd(t, i) : t[k].sep # "space"
         /\ \A j \in i .. Len(t) : (\A k \in i + 1 .. j : t[k].sep # "space") => j <= TokenEnd(t, i)
<1> DEFINE S == {j \in i .. Len(t) : \A k \in i + 1 .. j : t[k].sep # "space"}
<1>1. Len(t) \in Nat
  BY LenProperties
<1>2. S \in SUBSET (1 .. Len(t)) /\ i \in S
  <2>1. i \in i .. Len(t) /\ \A k \in i + 1 .. i : FALSE
    BY <1>1
  <2>2. \A j \in i .. Len(t) : j \in 1 .. Len(t)
    BY <1>1
  <2>3. \A j \in S : j \in i .. Len(t)
    OBVIOUS
  <2>4. i \in S
    BY <2>1
  <2> QED
    BY <2>2, <2>3, <2>4
<1>3. TokenEnd(t, i) = Max(S)
  BY DEF TokenEnd
<1> HIDE DEF S
<1>4. S # {}
  BY <1>2
<1>5. Max(S) \in S /\ \A y \in S : Max(S) >= y
  BY <1>1, <1>2, <1>4, MaxIsGreatest
<1>6. /\ Max(S) \in i .. Len(t) /\ \A k \in i + 1 .. Max(S) : t[k].sep # "space"
  BY <1>5 DEF S
<1>7. ASSUME NEW j \in i .. Len(t), \A k \in i + 1 .. j : t[k].sep # "space"
      PROVE  j <= Max(S)
  <2>1. j \in S
    BY <1>7 DEF S
  <2> QED
    BY <1>1, <1>5, <1>6, <2>1
<1> QED
  BY <1>3, <1>6, <1>7

\* EntropyPass is a rewriting.
LEMMA EntropyPieces ==
  ASSUME NEW t \in Seq(Word), NEW dense
  PROVE  Pieces(t, TokenTo(t), TokenNew(t, dense))
         /\ EntropyPass(t, dense) = Rewrite(t, TokenTo(t), TokenNew(t, dense))
<1> DEFINE end == TokenTo(t)
           new == TokenNew(t, dense)
<1>1. Len(t) \in Nat /\ DOMAIN t = 1 .. Len(t) /\ \A i \in 1 .. Len(t) : t[i] \in Word
  BY LenProperties
<1>2. end = [i \in DOMAIN t |-> end[i]] /\ new = [i \in DOMAIN t |-> new[i]]
  BY DEF TokenTo, TokenNew
<1>3. ASSUME NEW i \in 1 .. Len(t)
      PROVE  /\ end[i] \in i .. Len(t)
             /\ new[i] = SubSeq(t, i, end[i]) \/ \E w \in Word : new[i] = <<w>> /\ Dull(w)
  <2>1. end[i] \in i .. Len(t)
    BY <1>1, TokenEndIsLast DEF TokenTo
  <2>2. CASE IsSecret(t, dense, i)
    <3>1. new[i] = <<Put(t[i], "[SECRET]")>>
      BY <1>1, <2>2 DEF TokenNew
    <3>2. Put(t[i], "[SECRET]") \in Word /\ Dull(Put(t[i], "[SECRET]"))
      BY <1>1, PutIsDull DEF Placeholders
    <3> QED
      BY <2>1, <3>1, <3>2
  <2>3. CASE ~IsSecret(t, dense, i)
    BY <1>1, <2>1, <2>3 DEF TokenNew
  <2> QED
    BY <2>2, <2>3
<1>4. EntropyPass(t, dense) = Rewrite(t, end, new)
  BY DEF EntropyPass, TokenTo, TokenNew, IsSecret
<1> HIDE DEF end, new
<1>5. Pieces(t, end, new)
  BY <1>1, <1>2, <1>3, ArePieces
<1> QED
  BY <1>4, <1>5 DEF end, new

-----------------------------------------------------------------------------
(* What the passes leave behind. *)

\* No keyword is followed by a token.
NoBearer(t) == \A p \in 1 .. Len(t) : ~BearerAt(t, p)

\* A dull word is nothing a detector looks for.
LEMMA DullIsHarmless ==
  ASSUME NEW w, Dull(w)
  PROVE  /\ w.kind \notin {"key", "email", "bearer", "digits"}
         /\ ~IsToken(w) /\ ~w.high
BY DEF Dull, Placeholders, IsToken

\* What has no match has none after another text was rewritten into it.
LEMMA RewritingKeeps ==
  ASSUME NEW t \in Seq(Word), NEW u \in Seq(Word), \A p \in 1 .. Len(u) : Follows(t, u, p)
  PROVE  /\ NoBearer(t) => NoBearer(u)
         /\ \A k \in {"key", "email"} : ~Has(t, k) => ~Has(u, k)
         /\ ~EntropyHit(t) => ~EntropyHit(u)
<1>1. /\ Len(t) \in Nat /\ DOMAIN t = 1 .. Len(t)
      /\ Len(u) \in Nat /\ DOMAIN u = 1 .. Len(u)
  BY LenProperties
<1>2. ASSUME NoBearer(t), NEW p \in 1 .. Len(u), BearerAt(u, p)
      PROVE  FALSE
  <2>1. p < Len(u) /\ u[p].kind = "bearer" /\ IsToken(u[p + 1]) /\ u[p + 1].sep # "glue"
    BY <1>2 DEF BearerAt
  <2>2. ~Dull(u[p]) /\ ~Dull(u[p + 1])
    BY <2>1, DullIsHarmless
  <2>3. PICK m \in 1 .. Len(t) : u[p] = t[m] /\ m < Len(t) /\ u[p + 1] = t[m + 1]
    BY <2>1, <2>2 DEF Follows
  <2>4. BearerAt(t, m)
    BY <2>1, <2>3 DEF BearerAt
  <2> QED
    BY <1>2, <2>4 DEF NoBearer
<1>3. ASSUME NEW p \in 1 .. Len(u)
      PROVE  Dull(u[p]) \/ \E m \in 1 .. Len(t) : u[p] = t[m]
  BY DEF Follows
<1>4. ASSUME NEW k \in {"key", "email"}, Has(u, k)
      PROVE  Has(t, k)
  <2>1. PICK p \in 1 .. Len(u) : u[p].kind = k
    BY <1>1, <1>4 DEF Has
  <2>2. ~Dull(u[p])
    BY <2>1, DullIsHarmless
  <2> QED
    BY <1>1, <1>3, <2>1, <2>2 DEF Has
<1>5. ASSUME EntropyHit(u)
      PROVE  EntropyHit(t)
  <2>1. PICK p \in 1 .. Len(u) : u[p].high
    BY <1>1, <1>5 DEF EntropyHit
  <2>2. ~Dull(u[p])
    BY <2>1, DullIsHarmless
  <2> QED
    BY <1>1, <1>3, <2>1, <2>2 DEF EntropyHit
<1> QED
  BY <1>2, <1>4, <1>5 DEF NoBearer

\* BearerPass leaves no keyword with a token, also where keywords follow each
\* other.
LEMMA BearerGone ==
  ASSUME NEW t \in Seq(Word)
  PROVE  NoBearer(BearerPass(t))
<1> DEFINE end == BearerEnd(t)
           new == BearerNew(t)
           u == BearerPass(t)
           L == Len(t)
<1>1. Pieces(t, end, new) /\ u = Rewrite(t, end, new)
  BY BearerPieces
<1>2. L \in Nat /\ DOMAIN t = 1 .. L
  BY LenProperties
<1>3. ASSUME NEW i \in 1 .. L, BearerAt(t, i)
      PROVE  new[i][1].kind # "bearer" /\ ~IsToken(new[i][1])
  BY <1>2, <1>3 DEF BearerNew, Put, IsToken, Placeholders
<1>4. ASSUME NEW i \in 1 .. L, ~BearerAt(t, i)
      PROVE  new[i][1] = t[i] /\ end[i] = i
  BY <1>2, <1>4 DEF BearerNew, BearerEnd
<1>5. \A i \in 1 .. L : Len(new[i]) = 1
  BY <1>2 DEF BearerNew
<1> HIDE DEF end, new, u
<1>6. PICK f : Unfolds(t, end, new, f) /\ u = f[1]
  BY <1>1, RewriteUnfolds
<1> SUFFICES ASSUME NEW p \in 1 .. Len(u), BearerAt(u, p)
             PROVE  FALSE
  BY DEF NoBearer, u
<1>7. p < Len(u) /\ u[p].kind = "bearer" /\ IsToken(u[p + 1]) /\ u[p + 1].sep # "glue"
  BY DEF BearerAt
<1>8. PICK i \in 1 .. L, q \in Nat : Neighbours(t, end, new, f, p, i, q)
  BY <1>1, <1>6, Adjacent, Zenon
<1>9. q \in 1 .. Len(new[i]) /\ u[p] = new[i][q]
  BY <1>6, <1>8 DEF Neighbours
<1>10. q = Len(new[i]) /\ p < Len(u) => end[i] < L /\ u[p + 1] = new[end[i] + 1][1]
  BY <1>6, <1>8 DEF Neighbours
<1>11. Len(new[i]) = 1
  BY <1>5
<1>12. q = 1
  BY <1>9, <1>11
<1>13. ~BearerAt(t, i)
  BY <1>3, <1>7, <1>9, <1>12
<1>14. new[i][1] = t[i] /\ end[i] = i
  BY <1>4, <1>13
<1>15. i < L /\ u[p + 1] = new[i + 1][1] /\ t[i].kind = "bearer"
  BY <1>7, <1>9, <1>10, <1>11, <1>12, <1>14
<1>16. i + 1 \in 1 .. L
  BY <1>2, <1>15
<1>17. CASE BearerAt(t, i + 1)
  BY <1>3, <1>7, <1>15, <1>16, <1>17
<1>18. CASE ~BearerAt(t, i + 1)
  <2>1. u[p + 1] = t[i + 1]
    BY <1>4, <1>15, <1>16, <1>18
  <2> QED
    BY <1>7, <1>13, <1>15, <2>1 DEF BearerAt
<1> QED
  BY <1>17, <1>18

\* PatternPass replaces words in their places and creates nothing new.
LEMMA PatternGone ==
  ASSUME NEW t \in Seq(Word), NEW k \in {"key", "email"}, NEW ph \in Placeholders
  PROVE  LET u == PatternPass(t, k, ph)
         IN  /\ u \in Seq(Word) /\ Len(u) = Len(t)
             /\ \A p \in 1 .. Len(u) : u[p] = t[p] \/ Dull(u[p])
             /\ NoBearer(t) => NoBearer(u)
             /\ \A x \in {"key", "email"} : ~Has(t, x) => ~Has(u, x)
             /\ ~EntropyHit(t) => ~EntropyHit(u)
             /\ ~Has(u, k)
<1> DEFINE u == PatternPass(t, k, ph)
           L == Len(t)
<1>1. L \in Nat /\ DOMAIN t = 1 .. L /\ \A p \in 1 .. L : t[p] \in Word
  BY LenProperties
<1>2. \A p \in 1 .. L : Put(t[p], ph) \in Word /\ Dull(Put(t[p], ph))
  BY <1>1, PutIsDull
<1>3. /\ u = [p \in 1 .. L |-> u[p]]
      /\ \A p \in 1 .. L : u[p] = IF t[p].kind = k THEN Put(t[p], ph) ELSE t[p]
  BY <1>1 DEF PatternPass
<1> HIDE DEF u
<1>4. ASSUME NEW p \in 1 .. L
      PROVE  u[p] \in Word /\ ((u[p] = t[p] /\ t[p].kind # k) \/ Dull(u[p]))
  BY <1>1, <1>2, <1>3
<1>5. u \in Seq(Word) /\ Len(u) = L
  <2>1. u \in [1 .. L -> Word]
    BY <1>3, <1>4
  <2>2. u \in Seq(Word)
    <3>1. u \in UNION {[1 .. n -> Word] : n \in Nat}
      BY <1>1, <2>1
    <3> QED
      BY <3>1, SeqDef
  <2>3. DOMAIN u = 1 .. L
    BY <2>1
  <2>4. Len(u) \in Nat /\ DOMAIN u = 1 .. Len(u)
    BY <2>2, LenProperties
  <2> QED
    BY <1>1, <2>2, <2>3, <2>4
<1>6. ASSUME NEW p \in 1 .. Len(u)
      PROVE  Follows(t, u, p)
  <2>1. p \in 1 .. L /\ (p < Len(u) => p < L /\ p + 1 \in 1 .. L)
    BY <1>1, <1>5
  <2>2. p < Len(u) => u[p + 1] = t[p + 1] \/ Dull(u[p + 1])
    BY <1>4, <2>1
  <2> QED
    BY <1>4, <2>1, <2>2 DEF Follows
<1>7. ~Has(u, k)
  <2>1. DOMAIN u = 1 .. L
    BY <1>5, LenProperties
  <2>2. ASSUME NEW p \in 1 .. L
        PROVE  u[p].kind # k
    BY <1>4, DullIsHarmless
  <2> QED
    BY <2>1, <2>2 DEF Has
<1>8. /\ NoBearer(t) => NoBearer(u)
      /\ \A x \in {"key", "email"} : ~Has(t, x) => ~Has(u, x)
      /\ ~EntropyHit(t) => ~EntropyHit(u)
  BY <1>5, <1>6, RewritingKeeps
<1>9. \A p \in 1 .. Len(u) : u[p] = t[p] \/ Dull(u[p])
  BY <1>4, <1>5
<1> QED
  BY <1>5, <1>7, <1>8, <1>9 DEF u

\* The texts between the passes of SanitizeStr.
AfterBearer(t) == IF BearerMatches(t) THEN BearerPass(t) ELSE t
AfterKeys(t) ==
    IF Has(t, "key") THEN PatternPass(AfterBearer(t), "key", "[SECRET]") ELSE AfterBearer(t)
AfterEmails(t) ==
    IF Has(t, "email") THEN PatternPass(AfterKeys(t), "email", "[EMAIL]") ELSE AfterKeys(t)
AfterCards(t) == IF CardMatches(t) THEN CardPass(AfterEmails(t)) ELSE AfterEmails(t)

\* SanitizeStr runs the entropy pass on what the others left.
LEMMA Stages ==
  ASSUME NEW t, NEW dense
  PROVE  SanitizeStr(t, dense) =
            IF EntropyHit(t) THEN EntropyPass(AfterCards(t), dense) ELSE AfterCards(t)
BY DEF SanitizeStr, AfterBearer, AfterKeys, AfterEmails, AfterCards

\* No key, no address and no bearer token.
Clean(t) == NoBearer(t) /\ ~Has(t, "key") /\ ~Has(t, "email")

\* What no pass looked for on the original is not there for it to find.
LEMMA CleanEmails ==
  ASSUME NEW t \in Seq(Word)
  PROVE  /\ AfterBearer(t) \in Seq(Word) /\ AfterEmails(t) \in Seq(Word)
         /\ Clean(AfterEmails(t))
         /\ ~EntropyHit(t) => ~EntropyHit(AfterEmails(t))
         /\ Len(AfterEmails(t)) = Len(AfterBearer(t))
         /\ \A p \in 1 .. Len(AfterEmails(t)) :
               AfterEmails(t)[p] = AfterBearer(t)[p] \/ Dull(AfterEmails(t)[p])
<1> DEFINE b == AfterBearer(t)
           k == AfterKeys(t)
           e == AfterEmails(t)
<1>1. DOMAIN t = 1 .. Len(t)
  BY LenProperties
<1>2. /\ b \in Seq(Word) /\ NoBearer(b)
      /\ \A x \in {"key", "email"} : ~Has(t, x) => ~Has(b, x)
      /\ ~EntropyHit(t) => ~EntropyHit(b)
  <2>1. CASE BearerMatches(t)
    <3>1. b = BearerPass(t)
      BY <2>1 DEF AfterBearer
    <3> HIDE DEF b
    <3>2. Pieces(t, BearerEnd(t), BearerNew(t)) /\ b = Rewrite(t, BearerEnd(t), BearerNew(t))
      BY <3>1, BearerPieces
    <3>3. b \in Seq(Word) /\ \A p \in 1 .. Len(b) : Follows(t, b, p)
      BY <3>2, Successor
    <3>4. NoBearer(b)
      BY <3>1, BearerGone
    <3> QED
      BY <3>3, <3>4, RewritingKeeps
  <2>2. CASE ~BearerMatches(t)
    <3>1. b = t /\ NoBearer(t)
      BY <1>1, <2>2 DEF AfterBearer, BearerMatches, NoBearer
    <3> QED
      BY <3>1
  <2> QED
    BY <2>1, <2>2
<1> HIDE DEF b
<1>3. /\ k \in Seq(Word) /\ Len(k) = Len(b) /\ NoBearer(k) /\ ~Has(k, "key")
      /\ ~Has(t, "email") => ~Has(k, "email")
      /\ ~EntropyHit(t) => ~EntropyHit(k)
      /\ \A p \in 1 .. Len(k) : k[p] = b[p] \/ Dull(k[p])
  <2>1. CASE Has(t, "key")
    <3>1. k = PatternPass(b, "key", "[SECRET]")
      BY <2>1 DEF AfterKeys, b
    <3>2. "[SECRET]" \in Placeholders
      BY DEF Placeholders
    <3> HIDE DEF k
    <3> QED
      BY <1>2, <3>1, <3>2, PatternGone
  <2>2. CASE ~Has(t, "key")
    <3>1. k = b
      BY <2>2 DEF AfterKeys, b
    <3> QED
      BY <1>2, <2>2, <3>1
  <2> QED
    BY <2>1, <2>2
<1> HIDE DEF k
<1>4. /\ e \in Seq(Word) /\ Len(e) = Len(k) /\ NoBearer(e) /\ ~Has(e, "key") /\ ~Has(e, "email")
      /\ ~EntropyHit(t) => ~EntropyHit(e)
      /\ \A p \in 1 .. Len(e) : e[p] = k[p] \/ Dull(e[p])
  <2>1. CASE Has(t, "email")
    <3>1. e = PatternPass(k, "email", "[EMAIL]")
      BY <2>1 DEF AfterEmails, k
    <3>2. "[EMAIL]" \in Placeholders
      BY DEF Placeholders
    <3> HIDE DEF e
    <3> QED
      BY <1>3, <3>1, <3>2, PatternGone
  <2>2. CASE ~Has(t, "email")
    <3>1. e = k
      BY <2>2 DEF AfterEmails, k
    <3> QED
      BY <1>3, <2>2, <3>1
  <2> QED
    BY <2>1, <2>2
<1> HIDE DEF e
<1>5. \A p \in 1 .. Len(e) : e[p] = b[p] \/ Dull(e[p])
  <2> SUFFICES ASSUME NEW p \in 1 .. Len(e)
               PROVE  e[p] = b[p] \/ Dull(e[p])
    OBVIOUS
  <2>1. e[p] = k[p] \/ Dull(e[p])
    BY <1>4
  <2>2. k[p] = b[p] \/ Dull(k[p])
    BY <1>3, <1>4
  <2> QED
    BY <2>1, <2>2
<1>6. Clean(e)
  BY <1>4 DEF Clean
<1> QED
  BY <1>2, <1>3, <1>4, <1>5, <1>6 DEF b, e

\* A rewriting keeps a clean text clean.
LEMMA RewritingClean ==
  ASSUME NEW t, NEW end, NEW new, Pieces(t, end, new)
  PROVE  LET u == Rewrite(t, end, new)
         IN  /\ u \in Seq(Word)
             /\ Clean(t) => Clean(u)
             /\ ~EntropyHit(t) => ~EntropyHit(u)
<1> DEFINE u == Rewrite(t, end, new)
<1>1. t \in Seq(Word)
  BY DEF Pieces
<1>2. u \in Seq(Word) /\ \A p \in 1 .. Len(u) : Follows(t, u, p)
  BY Successor
<1> HIDE DEF u
<1>3. /\ NoBearer(t) => NoBearer(u)
      /\ \A k \in {"key", "email"} : ~Has(t, k) => ~Has(u, k)
      /\ ~EntropyHit(t) => ~EntropyHit(u)
  BY <1>1, <1>2, RewritingKeeps
<1> QED
  BY <1>2, <1>3 DEF Clean, u

\* The card pass runs on a clean text and leaves one.
LEMMA CleanCards ==
  ASSUME NEW t \in Seq(Word)
  PROVE  /\ AfterCards(t) \in Seq(Word) /\ Clean(AfterCards(t))
         /\ ~EntropyHit(t) => ~EntropyHit(AfterCards(t))
<1> DEFINE e == AfterEmails(t)
           c == AfterCards(t)
<1>1. e \in Seq(Word) /\ Clean(e) /\ (~EntropyHit(t) => ~EntropyHit(e))
  BY CleanEmails
<1>2. c = IF CardMatches(t) THEN CardPass(e) ELSE e
  BY DEF AfterCards
<1> HIDE DEF e, c
<1>3. Pieces(e, CardTo(e), CardNew(e)) /\ CardPass(e) = Rewrite(e, CardTo(e), CardNew(e))
  BY <1>1, CardPieces
<1>4. CardPass(e) \in Seq(Word) /\ Clean(CardPass(e))
      /\ (~EntropyHit(e) => ~EntropyHit(CardPass(e)))
  BY <1>1, <1>3, RewritingClean
<1> QED
  BY <1>1, <1>2, <1>4 DEF e, c

\* Nothing that a pattern recognises is left in a sanitised string.
LEMMA SanitizedClean ==
  ASSUME NEW t \in Seq(Word), NEW dense
  PROVE  SanitizeStr(t, dense) \in Seq(Word) /\ Clean(SanitizeStr(t, dense))
<1> DEFINE c == AfterCards(t)
<1>1. c \in Seq(Word) /\ Clean(c)
  BY CleanCards
<1>2. SanitizeStr(t, dense) = IF EntropyHit(t) THEN EntropyPass(c, dense) ELSE c
  BY Stages
<1> HIDE DEF c
<1>3. /\ Pieces(c, TokenTo(c), TokenNew(c, dense))
      /\ EntropyPass(c, dense) = Rewrite(c, TokenTo(c), TokenNew(c, dense))
  BY <1>1, EntropyPieces
<1>4. EntropyPass(c, dense) \in Seq(Word) /\ Clean(EntropyPass(c, dense))
  BY <1>1, <1>3, RewritingClean
<1> QED
  BY <1>1, <1>2, <1>4

\* A high-entropy token between two spaces that no pattern changed is one in
\* brackets.
SpacedGoneAt(t, i) ==
    /\ t[i].high /\ (i = 1 \/ t[i].sep = "space")
    /\ Intact(t, i, TokenEnd(t, i))
    => Bracketed(t, i, TokenEnd(t, i))

\* Where the entropy pass keeps a token, its words stand between spaces again.
LEMMA SameToken ==
  ASSUME NEW t \in Seq(Word), NEW u \in Seq(Word),
         NEW i \in 1 .. Len(t), NEW e \in i .. Len(t), NEW p \in 1 .. Len(u),
         p + (e - i) <= Len(u), e = TokenEnd(t, i),
         \A k \in 0 .. e - i : u[p + k] = t[i + k],
         p + (e - i) < Len(u) => u[p + (e - i) + 1].sep = "space"
  PROVE  /\ TokenEnd(u, p) = p + (e - i)
         /\ Intact(u, p, p + (e - i)) => Intact(t, i, e)
         /\ Bracketed(t, i, e) => Bracketed(u, p, p + (e - i))
<1> DEFINE T == p + (e - i)
           F == TokenEnd(u, p)
<1>1. Len(t) \in Nat /\ Len(u) \in Nat
  BY LenProperties
<1>2. i \in Int /\ e \in Int /\ p \in Int /\ i <= e /\ T \in p .. Len(u)
  BY <1>1
<1>3. \A k \in i + 1 .. e : t[k].sep # "space"
  BY TokenEndIsLast
<1>4. ASSUME NEW k \in p .. T
      PROVE  /\ i + (k - p) \in i .. e /\ u[k] = t[i + (k - p)]
             /\ k > p => i + (k - p) \in i + 1 .. e
  <2>1. k - p \in 0 .. e - i /\ p + (k - p) = k
    BY <1>2
  <2>2. i + (k - p) \in i .. e /\ (k > p => i + (k - p) \in i + 1 .. e)
    BY <1>2
  <2> QED
    BY <2>1, <2>2
<1>5. \A k \in p + 1 .. T : u[k].sep # "space"
  <2> SUFFICES ASSUME NEW k \in p + 1 .. T
               PROVE  u[k].sep # "space"
    OBVIOUS
  <2>1. k \in p .. T /\ k > p
    BY <1>2
  <2> QED
    BY <1>3, <1>4, <2>1
<1>6. /\ F \in p .. Len(u)
      /\ \A k \in p + 1 .. F : u[k].sep # "space"
      /\ \A j \in p .. Len(u) : (\A k \in p + 1 .. j : u[k].sep # "space") => j <= F
  BY TokenEndIsLast
<1>7. u[T + 1].sep = "space" \/ T = Len(u)
  BY <1>1, <1>2
<1> HIDE DEF T, F
<1>8. T <= F
  BY <1>2, <1>5, <1>6
<1>9. F <= T
  <2> SUFFICES ASSUME ~(F <= T) PROVE FALSE
    OBVIOUS
  <2>1. T + 1 \in p + 1 .. F /\ T # Len(u)
    BY <1>1, <1>2, <1>6
  <2> QED
    BY <1>6, <1>7, <2>1
<1>10. F = T
  BY <1>2, <1>6, <1>8, <1>9
<1>11. ASSUME Intact(u, p, T) PROVE Intact(t, i, e)
  <2> SUFFICES ASSUME NEW k \in i .. e
               PROVE  /\ t[k].kind \notin Placeholders \cup {"cut"}
                      /\ k > i => t[k].sep = "glue"
    BY DEF Intact
  <2>1. p + (k - i) \in p .. T /\ k - i \in 0 .. e - i /\ i + (k - i) = k
    BY <1>2 DEF T
  <2>2. k > i => p + (k - i) > p
    BY <1>2
  <2>3. u[p + (k - i)] = t[k]
    BY <2>1
  <2> QED
    BY <1>11, <2>1, <2>2, <2>3 DEF Intact
<1>12. u[p] = t[i] /\ u[T] = t[e]
  <2>1. 0 \in 0 .. e - i /\ e - i \in 0 .. e - i
    BY <1>2
  <2>2. p + 0 = p /\ i + 0 = i /\ i + (e - i) = e
    BY <1>2
  <2>3. u[p + 0] = t[i + 0] /\ u[p + (e - i)] = t[i + (e - i)]
    BY <2>1
  <2> QED
    BY <2>2, <2>3 DEF T
<1>13. Bracketed(t, i, e) => Bracketed(u, p, T)
  BY <1>12 DEF Bracketed
<1> QED
  BY <1>10, <1>11, <1>13 DEF T, F

\* The entropy pass leaves no other.
LEMMA SpacedGone ==
  ASSUME NEW t \in Seq(Word), NEW dense, NEW p \in 1 .. Len(EntropyPass(t, dense))
  PROVE  SpacedGoneAt(EntropyPass(t, dense), p)
<1> DEFINE end == TokenTo(t)
           new == TokenNew(t, dense)
           u == EntropyPass(t, dense)
           L == Len(t)
<1>1. Pieces(t, end, new) /\ u = Rewrite(t, end, new)
  BY EntropyPieces
<1>2. L \in Nat /\ DOMAIN t = 1 .. L /\ \A i \in 1 .. L : t[i] \in Word
  BY LenProperties
<1>3. \A i \in 1 .. L : end[i] = TokenEnd(t, i)
  BY <1>2 DEF TokenTo
<1>4. ASSUME NEW i \in 1 .. L, Intact(t, i, end[i]), t[i].high, ~Bracketed(t, i, end[i])
      PROVE  Len(new[i]) = 1 /\ Dull(new[i][1])
  <2>1. IsSecret(t, dense, i)
    BY <1>4 DEF IsSecret
  <2>2. new[i] = <<Put(t[i], "[SECRET]")>>
    BY <1>2, <2>1 DEF TokenNew
  <2>3. Dull(Put(t[i], "[SECRET]"))
    BY <1>2, PutIsDull DEF Placeholders
  <2> QED
    BY <2>2, <2>3
<1>5. ASSUME NEW i \in 1 .. L
      PROVE  new[i][1].sep = t[i].sep
  <2>1. CASE IsSecret(t, dense, i)
    <3>1. new[i] = <<Put(t[i], "[SECRET]")>>
      BY <1>2, <2>1 DEF TokenNew
    <3> QED
      BY <3>1 DEF Put
  <2>2. CASE ~IsSecret(t, dense, i)
    <3>1. new[i] = SubSeq(t, i, end[i])
      BY <1>2, <2>2 DEF TokenNew
    <3>2. end[i] \in i .. L
      BY <1>3, TokenEndIsLast
    <3>3. 1 \in 1 .. end[i] - i + 1 /\ i + 1 - 1 = i
      BY <1>2, <3>2
    <3>4. SubSeq(t, i, end[i])[1] = t[i + 1 - 1]
      BY <3>2, <3>3, Stretch
    <3> QED
      BY <3>1, <3>3, <3>4
  <2> QED
    BY <2>1, <2>2
<1> HIDE DEF end, new, u
<1>6. PICK f : Unfolds(t, end, new, f) /\ u = f[1]
  BY <1>1, RewriteUnfolds
<1>7. u \in Seq(Word) /\ p \in 1 .. Len(u)
  BY <1>1, RewritingClean DEF u
<1>8. PICK i \in 1 .. L, c \in Nat : At(new, f, 1, p, i, c)
  BY <1>1, <1>6, <1>7, Located, Zenon
<1>9. Texts(t, f) /\ Piece(t, end, new, f, i)
  BY <1>1, <1>6, PieceFacts, Zenon
<1> DEFINE n == Len(new[i])
           q == p - c
           e == end[i]
           m == Len(f[e + 1])
<1>10. n \in Nat \ {0} /\ e \in i .. L /\ Len(f[i]) = n + m
  BY <1>9 DEF Piece
<1>11. m \in Nat /\ Len(f[i]) \in Nat /\ Len(u) \in Nat /\ (e = L => m = 0)
  <2>1. i \in 1 .. L + 1 /\ e + 1 \in 1 .. L + 1 /\ 1 \in 1 .. L + 1
    BY <1>2, <1>10
  <2> QED
    BY <1>6, <1>9, <2>1 DEF Texts
<1>12. q \in 1 .. n /\ Len(u) = c + Len(f[i])
  BY <1>6, <1>8 DEF At
<1>13. \A k \in 1 .. Len(f[i]) : u[c + k] = f[i][k]
  BY <1>6, <1>8 DEF At
<1>14. \A k \in 1 .. n : f[i][k] = new[i][k]
  BY <1>9 DEF Piece
<1>15. \A k \in 1 .. m : f[i][n + k] = f[e + 1][k]
  BY <1>9 DEF Piece
<1>16. \/ n = e - i + 1 /\ \A k \in 1 .. n : new[i][k] = t[i + k - 1]
       \/ n = 1 /\ Dull(new[i][1])
  BY <1>9 DEF Piece
<1>17. e = TokenEnd(t, i) /\ \A k \in i + 1 .. e : t[k].sep # "space"
  BY <1>3, TokenEndIsLast
<1>18. e < L => m >= 1 /\ f[e + 1][1] = new[e + 1][1] /\ t[e + 1].sep = "space"
  <2> SUFFICES ASSUME e < L
               PROVE  m >= 1 /\ f[e + 1][1] = new[e + 1][1] /\ t[e + 1].sep = "space"
    OBVIOUS
  <2>1. e + 1 \in 1 .. L /\ e + 1 \in i .. L
    BY <1>2, <1>10
  <2>2. Piece(t, end, new, f, e + 1)
    BY <1>1, <1>6, <2>1, PieceFacts, Zenon
  <2>3. Len(new[e + 1]) \in Nat \ {0} /\ f[e + 1][1] = new[e + 1][1]
        /\ m = Len(new[e + 1]) + Len(f[end[e + 1] + 1]) /\ end[e + 1] \in e + 1 .. L
    BY <2>2 DEF Piece
  <2>4. Len(f[end[e + 1] + 1]) \in Nat
    <3>1. end[e + 1] + 1 \in 1 .. L + 1
      BY <1>2, <1>10, <2>3
    <3> QED
      BY <1>9, <3>1 DEF Texts
  <2>5. m >= 1
    <3> DEFINE x == Len(new[e + 1])
               y == Len(f[end[e + 1] + 1])
    <3>1. x \in Nat \ {0} /\ y \in Nat /\ m = x + y
      BY <2>3, <2>4
    <3> HIDE DEF x, y, m
    <3> QED
      BY <3>1
  <2>6. t[e + 1].sep = "space"
    <3> SUFFICES ASSUME t[e + 1].sep # "space" PROVE FALSE
      OBVIOUS
    <3>1. ASSUME NEW k \in i + 1 .. e + 1
          PROVE  t[k].sep # "space"
      <4>1. k \in i + 1 .. e \/ k = e + 1
        BY <1>2, <1>10
      <4> QED
        BY <1>17, <4>1
    <3>2. e + 1 <= e
      BY <1>17, <2>1, <3>1, TokenEndIsLast
    <3> QED
      BY <1>10, <3>2
  <2> QED
    BY <2>3, <2>5, <2>6
<1>19. e < L => new[e + 1][1].sep = "space"
  <2> SUFFICES ASSUME e < L PROVE new[e + 1][1].sep = "space"
    OBVIOUS
  <2>1. e + 1 \in 1 .. L
    BY <1>2, <1>10
  <2> QED
    BY <1>5, <1>18, <2>1
<1> HIDE DEF n, q, m, e
<1>a. \A k \in 1 .. n : k \in 1 .. Len(f[i]) /\ u[c + k] = new[i][k]
  <2>1. \A k \in 1 .. n : k \in 1 .. Len(f[i])
    BY <1>10, <1>11
  <2> QED
    BY <1>13, <1>14, <2>1
<1>20. SUFFICES ASSUME u[p].high, p = 1 \/ u[p].sep = "space", Intact(u, p, TokenEnd(u, p))
                PROVE  Bracketed(u, p, TokenEnd(u, p))
  BY DEF SpacedGoneAt, u
<1>21. p = c + q /\ p \in Int /\ c \in Int
  BY <1>7, <1>11 DEF q
<1>22. u[p] = new[i][q]
  BY <1>a, <1>12, <1>21
<1>23. ~(n = 1 /\ Dull(new[i][1]))
  <2> SUFFICES ASSUME n = 1, Dull(new[i][1]) PROVE FALSE
    OBVIOUS
  <2>1. q = 1
    BY <1>12
  <2> QED
    BY <1>20, <1>22, <2>1, DullIsHarmless
<1>24. n = e - i + 1 /\ \A k \in 1 .. n : new[i][k] = t[i + k - 1]
  BY <1>16, <1>23
<1>25. q = 1
  <2> SUFFICES ASSUME q # 1 PROVE FALSE
    OBVIOUS
  <2>1. p # 1 /\ i + q - 1 \in i + 1 .. e
    BY <1>10, <1>12, <1>21, <1>24
  <2>2. u[p] = t[i + q - 1]
    BY <1>12, <1>22, <1>24
  <2> QED
    BY <1>17, <1>20, <2>1, <2>2
<1>26. ASSUME NEW k \in 0 .. e - i
       PROVE  u[p + k] = t[i + k]
  <2>1. k + 1 \in 1 .. n /\ c + (k + 1) = p + k /\ i + (k + 1) - 1 = i + k
    BY <1>10, <1>21, <1>24, <1>25
  <2>2. u[c + (k + 1)] = t[i + (k + 1) - 1]
    BY <1>a, <1>24, <2>1
  <2> QED
    BY <2>1, <2>2
<1>27. p + (e - i) <= Len(u) /\ p + (e - i) + 1 = c + (n + 1)
  BY <1>10, <1>11, <1>12, <1>21, <1>24, <1>25
<1>28. p + (e - i) < Len(u) => u[p + (e - i) + 1].sep = "space"
  <2> SUFFICES ASSUME p + (e - i) < Len(u) PROVE u[p + (e - i) + 1].sep = "space"
    OBVIOUS
  <2>1. m >= 1
    <3> DEFINE x == Len(f[i])
               z == Len(u)
    <3>1. x = n + m /\ z = c + x /\ p + (e - i) < z /\ p = c + 1 /\ n = e - i + 1
      BY <1>10, <1>12, <1>21, <1>24, <1>25
    <3>2. c \in Int /\ n \in Int /\ m \in Int /\ e \in Int /\ i \in Int
      BY <1>10, <1>11, <1>21
    <3> HIDE DEF x, z
    <3> QED
      BY <3>1, <3>2
  <2>2. e < L
    <3>1. e # L
      BY <1>11, <2>1
    <3>2. e \in Int /\ e <= L
      BY <1>2, <1>10
    <3> HIDE DEF L
    <3> QED
      BY <1>2, <3>1, <3>2
  <2>3. n + 1 \in 1 .. Len(f[i]) /\ 1 \in 1 .. m
    BY <1>10, <1>11, <2>1
  <2>4. u[c + (n + 1)] = new[e + 1][1]
    BY <1>13, <1>15, <1>18, <2>2, <2>3
  <2> QED
    BY <1>19, <1>27, <2>2, <2>4
<1>29. /\ TokenEnd(u, p) = p + (e - i)
       /\ Intact(u, p, p + (e - i)) => Intact(t, i, e)
       /\ Bracketed(t, i, e) => Bracketed(u, p, p + (e - i))
  BY <1>7, <1>10, <1>17, <1>26, <1>27, <1>28, SameToken DEF L
<1>30. t[i].high
  <2>1. u[p] = t[i]
    <3>1. 1 \in 1 .. n /\ i + 1 - 1 = i
      BY <1>10
    <3> QED
      BY <1>22, <1>24, <1>25, <3>1
  <2> QED
    BY <1>20, <2>1
<1>31. Bracketed(t, i, e)
  BY <1>4, <1>20, <1>23, <1>29, <1>30 DEF n, e
<1> QED
  BY <1>29, <1>31

\* A run of digit groups that stands in two texts is a candidate in both.
LEMMA SameRun ==
  ASSUME NEW t \in Seq(Word), NEW u \in Seq(Word), NEW a \in 1 .. Len(u), NEW b \in CardEnds(u, a),
         NEW i \in 1 .. Len(t), i + (b - a) <= Len(t),
         \A k \in 0 .. b - a : u[a + k] = t[i + k]
  PROVE  i + (b - a) \in CardEnds(t, i) /\ DigitsOf(t, i, i + (b - a)) = DigitsOf(u, a, b)
<1> DEFINE j == i + (b - a)
           du == [k \in 1 .. b - a + 1 |-> u[a + k - 1].digits]
           dt == [k \in 1 .. j - i + 1 |-> t[i + k - 1].digits]
<1>1. Len(t) \in Nat /\ Len(u) \in Nat
  BY LenProperties
<1>2. b \in a .. Len(u) /\ j \in i .. Len(t) /\ j - i + 1 = b - a + 1
  BY <1>1 DEF CardEnds
<1>3. \A k \in a .. b : u[k].kind = "digits" /\ (k > a => u[k].sep = "space")
  BY DEF CardEnds
<1>4. dt = du
  <2>1. ASSUME NEW k \in 1 .. b - a + 1
        PROVE  t[i + k - 1] = u[a + k - 1]
    <3>1. k - 1 \in 0 .. b - a /\ a + k - 1 = a + (k - 1) /\ i + k - 1 = i + (k - 1)
      BY <1>1, <1>2
    <3>2. u[a + (k - 1)] = t[i + (k - 1)]
      BY <3>1
    <3> QED
      BY <3>1, <3>2
  <2> QED
    BY <1>2, <2>1
<1>5. DigitsOf(t, i, j) = DigitsOf(u, a, b)
  BY <1>4, Zenon DEF DigitsOf
<1>6. ASSUME NEW k \in i .. j
      PROVE  t[k].kind = "digits" /\ (k > i => t[k].sep = "space")
  <2>1. k - i \in 0 .. b - a /\ i + (k - i) = k /\ a + (k - i) \in a .. b
        /\ (k > i => a + (k - i) > a)
    <3>1. a \in Int /\ b \in Int /\ i \in Int /\ k \in Int /\ i <= k /\ k <= i + (b - a)
      BY <1>1, <1>2
    <3>2. k - i \in 0 .. b - a
      BY <3>1
    <3>3. i + (k - i) = k /\ a + (k - i) \in a .. b
      BY <3>1
    <3>4. k > i => a + (k - i) > a
      BY <3>1
    <3> QED
      BY <3>2, <3>3, <3>4
  <2>2. t[k] = u[a + (k - i)]
    BY <2>1
  <2> QED
    BY <1>3, <2>1, <2>2
<1>7. Len(DigitsOf(u, a, b)) \in MinDigits .. MaxDigits
  BY DEF CardEnds
<1>8. j \in CardEnds(t, i)
  <2> HIDE DEF j
  <2>1. Len(DigitsOf(t, i, j)) \in MinDigits .. MaxDigits
    BY <1>5, <1>7
  <2> QED
    BY <1>2, <1>6, <2>1 DEF CardEnds
<1> QED
  BY <1>5, <1>8

\* Further digits stand next to the groups a to b.
Beside(t, a, b) ==
    \/ a > 1 /\ t[a - 1].kind = "digits" /\ t[a].sep = "space"
    \/ b < Len(t) /\ t[b + 1].kind = "digits" /\ t[b + 1].sep = "space"

\* Words of a candidate are digits, and a space stands before all but the first.
LEMMA CardEndsFacts ==
  ASSUME NEW t, NEW i, NEW j \in CardEnds(t, i)
  PROVE  /\ j \in i .. Len(t)
         /\ \A k \in i .. j : t[k].kind = "digits" /\ ~Dull(t[k]) /\ (k > i => t[k].sep = "space")
<1>1. \A k \in i .. j : t[k].kind = "digits" /\ (k > i => t[k].sep = "space")
  BY DEF CardEnds
<1>2. \A w : w.kind = "digits" => ~Dull(w)
  BY DEF Dull, Placeholders
<1> QED
  BY <1>1, <1>2 DEF CardEnds

\* A run of digits that starts a piece stands in the text before the pass.
LEMMA RunOfPiece ==
  ASSUME NEW t, NEW end, NEW new, NEW f, Pieces(t, end, new), Unfolds(t, end, new, f),
         NEW i \in 1 .. Len(t), NEW c \in Nat, At(new, f, 1, c + 1, i, c),
         NEW b \in CardEnds(f[1], c + 1)
  PROVE  /\ i + (b - (c + 1)) \in CardEnds(t, i)
         /\ DigitsOf(t, i, i + (b - (c + 1))) = DigitsOf(f[1], c + 1, b)
         /\ b - c \in 1 .. Len(f[i])
<1> DEFINE u == f[1]
           a == c + 1
           m == b - c
           L == Len(t)
<1>1. Texts(t, f)
  BY PieceFacts, Zenon
<1>2. L \in Nat /\ t \in Seq(Word)
  BY <1>1 DEF Texts, Pieces
<1>3. u \in Seq(Word) /\ Len(f[i]) \in Nat /\ Len(u) \in Nat /\ i \in 1 .. L + 1
  <2>1. 1 \in 1 .. L + 1 /\ i \in 1 .. L + 1
    BY <1>2
  <2> QED
    BY <1>1, <2>1 DEF Texts
<1>4. Len(u) = c + Len(f[i])
  BY DEF At
<1>5. \A k \in 1 .. Len(f[i]) : u[c + k] = f[i][k]
  BY DEF At
<1>6. b \in a .. Len(u) /\ \A k \in a .. b : ~Dull(u[k])
  BY CardEndsFacts
<1> HIDE DEF u
<1>7. b \in Int /\ m \in 1 .. Len(f[i]) /\ a \in 1 .. Len(u)
  BY <1>3, <1>4, <1>6
<1>8. ASSUME NEW k \in 1 .. m
      PROVE  k \in 1 .. Len(f[i]) /\ f[i][k] = u[c + k] /\ ~Dull(f[i][k])
  <2>1. k \in 1 .. Len(f[i]) /\ c + k \in a .. b
    BY <1>3, <1>7
  <2> QED
    BY <1>5, <1>6, <2>1
<1>9. i + m - 1 <= L /\ \A k \in 1 .. m : f[i][k] = t[i + k - 1]
  <2>1. Bright(f, i, m) /\ m \in 1 .. Len(f[i]) /\ i \in 1 .. Len(t) + 1
    BY <1>3, <1>7, <1>8 DEF Bright
  <2> HIDE DEF m
  <2>2. Untouched(t, f, i, m)
    BY <2>1, Lead, Zenon
  <2> QED
    BY <2>2 DEF Untouched
<1>10. i + (b - a) <= L
  BY <1>7, <1>9
<1>11. ASSUME NEW k \in 0 .. b - a
       PROVE  u[a + k] = t[i + k]
  <2>1. k + 1 \in 1 .. m /\ c + (k + 1) = a + k /\ i + (k + 1) - 1 = i + k
    BY <1>7
  <2>2. u[c + (k + 1)] = t[i + (k + 1) - 1]
    BY <1>8, <1>9, <2>1
  <2> QED
    BY <2>1, <2>2
<1>12. b \in CardEnds(u, a)
  BY DEF u
<1> HIDE DEF a, m, L
<1>13. i + (b - a) \in CardEnds(t, i) /\ DigitsOf(t, i, i + (b - a)) = DigitsOf(u, a, b)
  BY <1>2, <1>3, <1>7, <1>10, <1>11, <1>12, SameRun DEF L
<1> QED
  BY <1>7, <1>13 DEF a, m, u

\* A number that the card pass leaves although it passes the check is part of
\* a longer run of digits.
LEMMA LoneCards ==
  ASSUME NEW t \in Seq(Word), NEW a \in 1 .. Len(CardPass(t)), NEW b \in CardEnds(CardPass(t), a),
         LuhnCheck(DigitsOf(CardPass(t), a, b))
  PROVE  Beside(CardPass(t), a, b)
<1> DEFINE u == CardPass(t)
           end == CardTo(t)
           new == CardNew(t)
           L == Len(t)
<1>1. Pieces(t, end, new) /\ u = Rewrite(t, end, new)
  BY CardPieces
<1>2. L \in Nat /\ DOMAIN t = 1 .. L /\ \A i \in 1 .. L : t[i] \in Word
  BY LenProperties
<1>3. ASSUME NEW i \in 1 .. L, CardEnds(t, i) # {}
      PROVE  end[i] \in CardEnds(t, i) /\ \A j \in CardEnds(t, i) : j <= end[i]
  BY <1>2, <1>3, CardEndIsLongest DEF CardTo
<1>4. ASSUME NEW i \in 1 .. L, CardEnds(t, i) = {}
      PROVE  end[i] = i
  BY <1>2, <1>4 DEF CardTo
<1>5. ASSUME NEW i \in 1 .. L, CardEnds(t, i) # {}, LuhnCheck(DigitsOf(t, i, end[i]))
      PROVE  Dull(new[i][1])
  <2>1. IsCard(t, i)
    BY <1>5 DEF IsCard
  <2>2. new[i] = <<Put(t[i], "[CARD]")>>
    BY <1>2, <2>1 DEF CardNew
  <2>3. Dull(Put(t[i], "[CARD]"))
    BY <1>2, PutIsDull DEF Placeholders
  <2> QED
    BY <2>2, <2>3
<1> HIDE DEF end, new, u
<1>6. PICK f : Unfolds(t, end, new, f) /\ u = f[1]
  BY <1>1, RewriteUnfolds
<1>7. a \in 1 .. Len(u) /\ b \in CardEnds(u, a) /\ LuhnCheck(DigitsOf(u, a, b))
  BY DEF u
<1>8. b \in a .. Len(u) /\ \A k \in a .. b : u[k].kind = "digits" /\ ~Dull(u[k])
  BY <1>7, CardEndsFacts
<1>9. PICK i \in 1 .. L, c \in Nat : At(new, f, 1, a, i, c)
  BY <1>1, <1>6, <1>7, Located, Zenon
<1>10. Texts(t, f) /\ Piece(t, end, new, f, i)
  BY <1>1, <1>6, <1>9, PieceFacts, Zenon
<1> DEFINE n == Len(new[i])
           q == a - c
<1>11. n \in Nat \ {0} /\ end[i] \in i .. L /\ Len(f[i]) = n + Len(f[end[i] + 1])
  BY <1>10 DEF Piece
<1>12. q \in 1 .. n /\ Len(u) = c + Len(f[i])
  BY <1>6, <1>9 DEF At
<1>13. Len(f[i]) \in Nat /\ Len(f[end[i] + 1]) \in Nat /\ Len(u) \in Nat
  <2>1. i \in 1 .. L + 1 /\ end[i] + 1 \in 1 .. L + 1 /\ 1 \in 1 .. L + 1
    BY <1>2, <1>11
  <2> QED
    BY <1>6, <1>10, <2>1 DEF Texts
<1>14. \A k \in 1 .. n : k \in 1 .. Len(f[i]) /\ u[c + k] = new[i][k]
  <2>1. \A k \in 1 .. n : k \in 1 .. Len(f[i])
    <3> DEFINE x == Len(f[i])
               y == Len(f[end[i] + 1])
    <3>1. x = n + y /\ y \in Nat /\ n \in Nat
      BY <1>11, <1>13
    <3> HIDE DEF n, x, y
    <3>2. \A k \in 1 .. n : k \in 1 .. x
      BY <3>1
    <3> QED
      BY <3>2 DEF x
  <2>2. \A k \in 1 .. n : f[i][k] = new[i][k]
    BY <1>10 DEF Piece
  <2>3. \A k \in 1 .. Len(f[i]) : u[c + k] = f[i][k]
    BY <1>6, <1>9 DEF At
  <2> QED
    BY <2>1, <2>2, <2>3
<1>15. a = c + q /\ a \in Int /\ b \in Int /\ a <= b /\ b <= Len(u)
  BY <1>7, <1>8, <1>13
<1>16. ~Dull(new[i][q])
  <2>1. a \in a .. b
    BY <1>15
  <2> HIDE DEF n, q
  <2> QED
    BY <1>8, <1>12, <1>14, <1>15, <2>1
<1>17. n = end[i] - i + 1
  <2>1. n = 1 => q = 1
    BY <1>12
  <2> QED
    BY <1>10, <1>16, <2>1 DEF Piece
<1>18. \A k \in 1 .. n : new[i][k] = t[i + k - 1]
  <2>1. n = 1 => q = 1
    BY <1>12
  <2> QED
    BY <1>10, <1>16, <2>1 DEF Piece
<1> HIDE DEF n, q
<1>19. \A k \in 1 .. n : u[c + k] = t[i + k - 1]
  BY <1>14, <1>18
<1>20. CASE q > 1
  <2>1. CardEnds(t, i) # {}
    <3>1. ASSUME CardEnds(t, i) = {}
          PROVE  FALSE
      <4>1. end[i] = i
        BY <1>4, <3>1
      <4> QED
        BY <1>12, <1>17, <1>20, <4>1
    <3> QED
      BY <3>1
  <2>2. \A k \in i .. end[i] : t[k].kind = "digits" /\ (k > i => t[k].sep = "space")
    BY <1>3, <2>1, CardEndsFacts
  <2>3. q \in 1 .. n /\ q - 1 \in 1 .. n /\ c + (q - 1) = a - 1 /\ a > 1
    BY <1>11, <1>12, <1>15, <1>20
  <2>4. i + (q - 1) - 1 \in i .. end[i] /\ i + q - 1 \in i .. end[i] /\ i + q - 1 > i
    <3>1. i \in Int /\ end[i] \in Int /\ n \in Int /\ n = end[i] - i + 1 /\ q \in 1 .. n
      BY <1>11, <1>12, <1>17
    <3> QED
      BY <1>20, <3>1, Inside, Zenon
  <2>5. u[a - 1] = t[i + (q - 1) - 1] /\ u[a] = t[i + q - 1]
    BY <1>15, <1>19, <2>3
  <2>6. u[a - 1].kind = "digits" /\ u[a].sep = "space"
    BY <2>2, <2>4, <2>5
  <2> QED
    BY <2>3, <2>6 DEF Beside, u
<1>21. CASE q = 1
  <2> DEFINE j == i + (b - (c + 1))
  <2>1. a = c + 1
    BY <1>15, <1>21
  <2>2. At(new, f, 1, c + 1, i, c) /\ b \in CardEnds(f[1], c + 1)
    BY <1>6, <1>7, <1>9, <2>1
  <2>3. /\ j \in CardEnds(t, i)
        /\ DigitsOf(t, i, j) = DigitsOf(f[1], c + 1, b)
        /\ b - c \in 1 .. Len(f[i])
    BY <1>1, <1>6, <2>2, RunOfPiece
  <2>4. end[i] \in CardEnds(t, i) /\ j <= end[i]
    BY <1>3, <2>3
  <2>5. j # end[i]
    <3>1. LuhnCheck(DigitsOf(t, i, j))
      BY <1>6, <1>7, <2>1, <2>3
    <3> QED
      BY <1>5, <1>16, <1>21, <2>3, <3>1
  <2>6. b - c + 1 \in 1 .. n /\ c + (b - c + 1) = b + 1 /\ b < Len(u) /\ j \in Int
    <3> DEFINE x == Len(f[i])
               y == Len(f[end[i] + 1])
               z == Len(u)
               e == end[i]
    <3>1. x = n + y /\ y \in Nat /\ n \in Nat /\ z = c + x
      BY <1>11, <1>12, <1>13
    <3>2. e \in Int /\ i \in Int /\ n = e - i + 1 /\ b \in Int /\ c + 1 <= b
      BY <1>11, <1>15, <1>17, <2>1
    <3>3. i + (b - (c + 1)) <= e /\ i + (b - (c + 1)) # e
      BY <2>4, <2>5
    <3> HIDE DEF x, y, z, e
    <3>4. b - c + 1 \in 1 .. n /\ c + (b - c + 1) = b + 1 /\ b < z /\ j \in Int
      BY <3>1, <3>2, <3>3
    <3> QED
      BY <3>4 DEF z
  <2>7. i + (b - c + 1) - 1 \in i .. end[i] /\ i + (b - c + 1) - 1 > i
    <3> DEFINE e == end[i]
    <3>1. e \in Int /\ i \in Int /\ b \in Int /\ c \in Int /\ c + 1 <= b
      BY <1>11, <1>15, <1>17, <2>1
    <3>2. i + (b - (c + 1)) <= e /\ i + (b - (c + 1)) # e
      BY <2>4, <2>5
    <3> HIDE DEF e
    <3>3. i + (b - c + 1) - 1 \in i .. e /\ i + (b - c + 1) - 1 > i
      BY <3>1, <3>2
    <3> QED
      BY <3>3 DEF e
  <2>8. u[b + 1] = t[i + (b - c + 1) - 1]
    BY <1>19, <2>6
  <2>9. u[b + 1].kind = "digits" /\ u[b + 1].sep = "space"
    BY <2>4, <2>7, <2>8, CardEndsFacts
  <2> QED
    BY <2>6, <2>9 DEF Beside, u
<1> QED
  BY <1>11, <1>12, <1>20, <1>21

\* Where the original has no candidate, the passes before the card pass do not
\* bring one about.
LEMMA NoNewRuns ==
  ASSUME NEW t \in Seq(Word), ~CardMatches(t), NEW a \in 1 .. Len(AfterEmails(t)),
         NEW b \in CardEnds(AfterEmails(t), a)
  PROVE  FALSE
<1> DEFINE e == AfterEmails(t)
           u == AfterBearer(t)
           end == BearerEnd(t)
           new == BearerNew(t)
<1>1. /\ u \in Seq(Word) /\ e \in Seq(Word) /\ Len(e) = Len(u)
      /\ \A p \in 1 .. Len(e) : e[p] = u[p] \/ Dull(e[p])
  BY CleanEmails
<1>2. a \in 1 .. Len(e) /\ b \in CardEnds(e, a)
  OBVIOUS
<1>3. Len(t) \in Nat /\ DOMAIN t = 1 .. Len(t) /\ \A i \in 1 .. Len(t) : CardEnds(t, i) = {}
  BY LenProperties DEF CardMatches
<1>4. Pieces(t, end, new) /\ BearerPass(t) = Rewrite(t, end, new)
  BY BearerPieces
<1>5. \A i \in 1 .. Len(t) : Len(new[i]) = 1
  BY <1>3 DEF BearerNew
<1>6. u = IF BearerMatches(t) THEN BearerPass(t) ELSE t
  BY DEF AfterBearer
<1> HIDE DEF e, u, end, new
<1>7. b \in a .. Len(e) /\ \A k \in a .. b : ~Dull(e[k])
  BY <1>2, CardEndsFacts
<1>8. Len(e) \in Nat
  BY <1>1, LenProperties
<1>9. b \in CardEnds(u, a)
  <2>1. a + (b - a) <= Len(u) /\ a + (b - a) = b /\ a \in 1 .. Len(u)
    BY <1>1, <1>2, <1>7, <1>8
  <2>2. ASSUME NEW k \in 0 .. b - a
        PROVE  e[a + k] = u[a + k]
    <3>1. a + k \in a .. b /\ a + k \in 1 .. Len(e)
      BY <1>2, <1>7, <1>8
    <3> QED
      BY <1>1, <1>7, <3>1
  <2>3. a + (b - a) \in CardEnds(u, a)
    BY <1>1, <1>2, <2>1, <2>2, SameRun
  <2> QED
    BY <2>1, <2>3
<1>10. a \in 1 .. Len(u)
  BY <1>1, <1>2
<1>11. CASE ~BearerMatches(t)
  BY <1>3, <1>6, <1>9, <1>10, <1>11
<1>12. CASE BearerMatches(t)
  <2>1. PICK f : Unfolds(t, end, new, f) /\ u = f[1]
    BY <1>4, <1>6, <1>12, RewriteUnfolds
  <2>2. PICK i \in 1 .. Len(t), c \in Nat : At(new, f, 1, a, i, c)
    BY <1>4, <1>10, <2>1, Located, Zenon
  <2>3. a - c \in 1 .. Len(new[i]) /\ Len(new[i]) = 1
    BY <1>5, <2>2 DEF At
  <2>4. a = c + 1
    BY <1>2, <1>8, <2>2, <2>3
  <2>5. At(new, f, 1, c + 1, i, c) /\ b \in CardEnds(f[1], c + 1)
    BY <1>9, <2>1, <2>2, <2>4
  <2>6. i + (b - (c + 1)) \in CardEnds(t, i)
    BY <1>4, <2>1, <2>5, RunOfPiece
  <2> QED
    BY <1>3, <2>6
<1> QED
  BY <1>11, <1>12

\* No number that passes the check stands alone in a sanitised string.
LEMMA SanitizedCards ==
  ASSUME NEW t \in Seq(Word), NEW dense, ~EntropyHit(t)
  PROVE  LET u == SanitizeStr(t, dense)
         IN  \A a \in 1 .. Len(u) : \A b \in CardEnds(u, a) :
                LuhnCheck(DigitsOf(u, a, b)) => Beside(u, a, b)
<1> DEFINE u == SanitizeStr(t, dense)
           e == AfterEmails(t)
<1>1. u = IF CardMatches(t) THEN CardPass(e) ELSE e
  BY Stages DEF AfterCards
<1>2. e \in Seq(Word)
  BY CleanEmails
<1> HIDE DEF u
<1> SUFFICES ASSUME NEW a \in 1 .. Len(u), NEW b \in CardEnds(u, a), LuhnCheck(DigitsOf(u, a, b))
             PROVE  Beside(u, a, b)
  BY DEF u
<1>3. CASE CardMatches(t)
  <2> HIDE DEF e
  <2>1. u = CardPass(e)
    BY <1>1, <1>3
  <2>2. a \in 1 .. Len(CardPass(e)) /\ b \in CardEnds(CardPass(e), a)
        /\ LuhnCheck(DigitsOf(CardPass(e), a, b))
    BY <2>1
  <2>3. Beside(CardPass(e), a, b)
    BY <1>2, <2>2, LoneCards
  <2> QED
    BY <2>1, <2>3
<1>4. CASE ~CardMatches(t)
  <2>1. u = AfterEmails(t)
    BY <1>1, <1>4
  <2> QED
    BY <1>4, <2>1, NoNewRuns
<1> QED
  BY <1>3, <1>4

\* No other is left in a sanitised string.
LEMMA SanitizedSpaced ==
  ASSUME NEW t \in Seq(Word), NEW dense, NEW p \in 1 .. Len(SanitizeStr(t, dense))
  PROVE  SpacedGoneAt(SanitizeStr(t, dense), p)
<1> DEFINE u == SanitizeStr(t, dense)
           c == AfterCards(t)
<1>1. u = IF EntropyHit(t) THEN EntropyPass(c, dense) ELSE c
  BY Stages
<1>2. c \in Seq(Word) /\ (~EntropyHit(t) => ~EntropyHit(c))
  BY CleanCards
<1>3. p \in 1 .. Len(u)
  OBVIOUS
<1> HIDE DEF c, u
<1>4. CASE EntropyHit(t)
  <2>1. u = EntropyPass(c, dense)
    BY <1>1, <1>4
  <2> QED
    BY <1>2, <1>3, <2>1, SpacedGone DEF u
<1>5. CASE ~EntropyHit(t)
  <2>1. DOMAIN c = 1 .. Len(c) /\ u = c /\ ~EntropyHit(c)
    BY <1>1, <1>2, <1>5, LenProperties
  <2>2. ~u[p].high
    BY <1>3, <2>1 DEF EntropyHit
  <2> QED
    BY <2>2 DEF SpacedGoneAt, u
<1> QED
  BY <1>4, <1>5

\* Words of low entropy and numbers that fail the check.
Harmless(t) ==
    /\ \A i \in DOMAIN t :
          t[i].kind \in {"plain", "digits", "opening", "closing", "quoted"} /\ ~t[i].high
    /\ \A i \in DOMAIN t : \A j \in CardEnds(t, i) : LuhnSum(DigitsOf(t, i, j)) % 10 # 0

\* No pass changes harmless text.
LEMMA HarmlessKept ==
  ASSUME NEW t \in Seq(Word), NEW dense, Harmless(t)
  PROVE  SanitizeStr(t, dense) = t
<1> DEFINE end == CardTo(t)
           new == CardNew(t)
<1>1. Len(t) \in Nat /\ DOMAIN t = 1 .. Len(t)
  BY LenProperties
<1>2. \A i \in 1 .. Len(t) :
        t[i].kind \in {"plain", "digits", "opening", "closing", "quoted"} /\ ~t[i].high
  BY <1>1 DEF Harmless
<1>3. ~BearerMatches(t) /\ ~Has(t, "key") /\ ~Has(t, "email") /\ ~EntropyHit(t)
  BY <1>1, <1>2 DEF BearerMatches, BearerAt, Has, EntropyHit
<1>4. AfterEmails(t) = t
  BY <1>3 DEF AfterBearer, AfterKeys, AfterEmails
<1>5. Pieces(t, end, new) /\ CardPass(t) = Rewrite(t, end, new)
  BY CardPieces
<1>6. ASSUME NEW i \in 1 .. Len(t)
      PROVE  new[i] = SubSeq(t, i, end[i])
  <2>1. ~IsCard(t, i)
    <3>1. ASSUME CardEnds(t, i) # {}
          PROVE  end[i] \in CardEnds(t, i)
      BY <1>1, <3>1, CardEndIsLongest DEF CardTo
    <3>2. ASSUME CardEnds(t, i) # {}
          PROVE  LuhnSum(DigitsOf(t, i, end[i])) % 10 # 0
      BY <1>1, <3>1, <3>2 DEF Harmless
    <3> QED
      BY <3>2 DEF IsCard, LuhnCheck
  <2> QED
    BY <1>1, <2>1 DEF CardNew
<1> HIDE DEF end, new
<1>7. CardPass(t) = t
  BY <1>5, <1>6, AllKept
<1>8. AfterCards(t) = t
  BY <1>4, <1>7 DEF AfterCards
<1> QED
  BY <1>3, <1>8, Stages

-----------------------------------------------------------------------------
(* The check. *)

\* f[i] is the sum of the first i numbers.
Sums(s, f) ==
    /\ f \in [0 .. Len(s) -> Int]
    /\ f[0] = 0
    /\ \A i \in 1 .. Len(s) : f[i] = f[i - 1] + s[i]

\* The recursion of Total has a solution.
LEMMA TotalExists ==
  ASSUME NEW s \in Seq(Int)
  PROVE  \E g : Sums(s, g)
<1> DEFINE L == Len(s)
           G == [0 .. L -> Int]
           S == {n \in 0 .. L : \E g \in G : g[0] = 0 /\ \A j \in 1 .. n : g[j] = g[j - 1] + s[j]}
<1>1. L \in Nat /\ \A i \in 1 .. L : s[i] \in Int
  BY LenProperties
<1>2. 0 \in S
  <2> DEFINE g == [k \in 0 .. L |-> 0]
  <2>1. g \in G /\ g[0] = 0 /\ 0 \in 0 .. L /\ 1 .. 0 = {}
    BY <1>1
  <2> HIDE DEF g, G
  <2> QED
    BY <2>1
<1>3. ASSUME NEW i \in 1 .. L, i - 1 \in S
      PROVE  i \in S
  <2>1. PICK g \in G : g[0] = 0 /\ \A j \in 1 .. i - 1 : g[j] = g[j - 1] + s[j]
    BY <1>3
  <2> DEFINE x == g[i - 1] + s[i]
             h == [g EXCEPT ![i] = x]
  <2>2. x \in Int
    <3>1. i - 1 \in 0 .. L
      BY <1>1
    <3>2. g[i - 1] \in Int
      BY <2>1, <3>1
    <3>3. s[i] \in Int
      BY <1>1
    <3> QED
      BY <3>2, <3>3
  <2> HIDE DEF x
  <2>3. h \in G /\ h[i] = x /\ \A j \in 0 .. L : j # i => h[j] = g[j]
    BY <2>1, <2>2
  <2> HIDE DEF h, G
  <2>4. 0 \in 0 .. L /\ 0 # i /\ i - 1 \in 0 .. L /\ i - 1 # i
    BY <1>1
  <2>5. h[0] = 0 /\ h[i] = h[i - 1] + s[i]
    BY <2>1, <2>3, <2>4 DEF x
  <2>6. \A j \in 1 .. i : j = i \/ (j \in 1 .. i - 1 /\ j \in 0 .. L /\ j # i
                                      /\ j - 1 \in 0 .. L /\ j - 1 # i)
    BY <1>1
  <2>7. \A j \in 1 .. i : h[j] = h[j - 1] + s[j]
    BY <2>1, <2>3, <2>5, <2>6
  <2>8. i \in 0 .. L
    BY <1>1
  <2> QED
    BY <2>3, <2>5, <2>7, <2>8
<1>4. L \in 0 .. L
  BY <1>1
<1> HIDE DEF S, L
<1>5. L \in S
  BY <1>1, <1>2, <1>3, <1>4, Upward
<1> QED
  BY <1>5 DEF S, L, Sums

\* Total is the last of the sums.
LEMMA TotalSums ==
  ASSUME NEW s \in Seq(Int)
  PROVE  \E f : Sums(s, f) /\ Total(s) = f[Len(s)]
<1> DEFINE L == Len(s)
           f == CHOOSE g : g = [i \in 0 .. L |-> IF i = 0 THEN 0 ELSE g[i - 1] + s[i]]
           S == {i \in 0 .. L : f[i] \in Int}
<1>1. L \in Nat /\ \A i \in 1 .. L : s[i] \in Int
  BY LenProperties
<1>2. f = [i \in 0 .. L |-> IF i = 0 THEN 0 ELSE f[i - 1] + s[i]]
  <2>1. PICK g : Sums(s, g)
    BY TotalExists
  <2>2. g \in [0 .. L -> Int] /\ \A i \in 0 .. L : i # 0 => i \in 1 .. L
    BY <1>1, <2>1 DEF Sums
  <2>3. \A i \in 0 .. L : g[i] = IF i = 0 THEN 0 ELSE g[i - 1] + s[i]
    BY <2>1, <2>2 DEF Sums
  <2>4. g = [i \in 0 .. L |-> IF i = 0 THEN 0 ELSE g[i - 1] + s[i]]
    BY <2>2, <2>3
  <2> QED
    BY <2>4
<1>3. Total(s) = f[L]
  BY DEF Total
<1> HIDE DEF f
<1>4. f[0] = 0 /\ \A i \in 1 .. L : f[i] = f[i - 1] + s[i]
  <2>1. \A i \in 0 .. L : f[i] = IF i = 0 THEN 0 ELSE f[i - 1] + s[i]
    BY <1>2
  <2>2. 0 \in 0 .. L /\ \A i \in 1 .. L : i \in 0 .. L /\ i # 0
    BY <1>1
  <2> QED
    BY <2>1, <2>2
<1>5. 0 \in S
  BY <1>1, <1>4
<1>6. ASSUME NEW i \in 1 .. L, i - 1 \in S
      PROVE  i \in S
  BY <1>1, <1>4, <1>6
<1> HIDE DEF S, L
<1>7. \A i \in 0 .. L : i \in S
  BY <1>1, <1>5, <1>6, Upward
<1>8. f \in [0 .. L -> Int]
  <2>1. \A i \in 0 .. L : f[i] \in Int
    BY <1>7 DEF S
  <2>2. f = [i \in 0 .. L |-> f[i]]
    <3> DEFINE g == [i \in 0 .. L |-> IF i = 0 THEN 0 ELSE f[i - 1] + s[i]]
    <3>1. g = [i \in 0 .. L |-> g[i]]
      OBVIOUS
    <3> HIDE DEF g
    <3> QED
      BY <1>2, <3>1 DEF g
  <2> QED
    BY <2>1, <2>2
<1> QED
  BY <1>3, <1>4, <1>8 DEF Sums, L

\* Changing one number changes the sum by as much.
LEMMA TotalChange ==
  ASSUME NEW s \in Seq(Int), NEW r \in Seq(Int), Len(r) = Len(s), NEW k \in 1 .. Len(s),
         \A i \in 1 .. Len(s) : i # k => r[i] = s[i]
  PROVE  Total(s) \in Int /\ Total(r) = Total(s) + (r[k] - s[k])
<1> DEFINE L == Len(s)
<1>1. L \in Nat /\ \A i \in 1 .. L : s[i] \in Int /\ r[i] \in Int
  BY LenProperties
<1>2. PICK f : Sums(s, f) /\ Total(s) = f[L]
  BY TotalSums
<1>3. PICK g : Sums(r, g) /\ Total(r) = g[L]
  BY TotalSums
<1> DEFINE S == {n \in 0 .. L : g[n] = IF n < k THEN f[n] ELSE f[n] + (r[k] - s[k])}
<1>4. /\ f \in [0 .. L -> Int] /\ f[0] = 0 /\ \A i \in 1 .. L : f[i] = f[i - 1] + s[i]
      /\ g \in [0 .. L -> Int] /\ g[0] = 0 /\ \A i \in 1 .. L : g[i] = g[i - 1] + r[i]
  BY <1>2, <1>3 DEF Sums
<1> HIDE DEF L
<1>5. k \in 1 .. L /\ \A i \in 1 .. L : i # k => r[i] = s[i]
  BY DEF L
<1>6. 0 \in S
  BY <1>1, <1>4, <1>5
<1>7. ASSUME NEW i \in 1 .. L, i - 1 \in S
      PROVE  i \in S
  <2>1. /\ f[i] = f[i - 1] + s[i] /\ g[i] = g[i - 1] + r[i]
        /\ f[i - 1] \in Int /\ s[i] \in Int /\ r[i] \in Int /\ r[k] \in Int /\ s[k] \in Int
        /\ g[i - 1] = IF i - 1 < k THEN f[i - 1] ELSE f[i - 1] + (r[k] - s[k])
    BY <1>1, <1>4, <1>5, <1>7
  <2>2. i # k => r[i] = s[i]
    BY <1>5
  <2> DEFINE x == f[i - 1]
             y == s[i]
             a == r[k]
             b == s[k]
  <2>3. /\ f[i] = x + y /\ x \in Int /\ y \in Int /\ a \in Int /\ b \in Int
        /\ i < k => g[i] = x + y
        /\ i = k => g[i] = x + a /\ y = b
        /\ i > k => g[i] = (x + (a - b)) + y
    <3>1. (i - 1 < k <=> i <= k) /\ (i < k => i <= k /\ i # k) /\ (i = k => i <= k)
          /\ (i > k => ~ (i <= k) /\ i # k)
      BY <1>1, <1>5
    <3> QED
      BY <2>1, <2>2, <3>1
  <2> HIDE DEF x, y, a, b
  <2>4. g[i] = IF i < k THEN f[i] ELSE f[i] + (a - b)
    <3>1. i \in Int /\ k \in Int
      BY <1>1, <1>5
    <3>2. CASE i < k
      BY <2>3, <3>2
    <3>3. CASE i = k
      <4>1. x + a = (x + b) + (a - b)
        BY <2>3
      <4> QED
        BY <2>3, <3>1, <3>3, <4>1
    <3>4. CASE i > k
      <4>1. (x + (a - b)) + y = (x + y) + (a - b)
        BY <2>3
      <4> QED
        BY <2>3, <3>1, <3>4, <4>1
    <3> QED
      BY <3>1, <3>2, <3>3, <3>4
  <2>5. i \in 0 .. L
    BY <1>1
  <2> QED
    BY <2>4, <2>5 DEF a, b
<1>8. L \in 0 .. L /\ ~ (L < k)
  BY <1>1, <1>5
<1> HIDE DEF S
<1>9. L \in S
  BY <1>1, <1>6, <1>7, <1>8, Upward
<1> QED
  BY <1>2, <1>3, <1>4, <1>8, <1>9 DEF S

\* What luhn_check adds up.
Terms(ds) == [i \in DOMAIN ds |-> IF (Len(ds) - i) % 2 = 1 THEN Doubled(ds[i]) ELSE ds[i]]

\* A function on the positions up to n is a sequence of that length.
LEMMA IsSequence ==
  ASSUME NEW n \in Nat, NEW S, NEW f \in [1 .. n -> S]
  PROVE  f \in Seq(S) /\ Len(f) = n
<1>1. f \in UNION {[1 .. m -> S] : m \in Nat}
  OBVIOUS
<1>2. f \in Seq(S)
  BY <1>1, SeqDef
<1>3. Len(f) \in Nat /\ DOMAIN f = 1 .. Len(f) /\ DOMAIN f = 1 .. n
  BY <1>2, LenProperties
<1> QED
  BY <1>2, <1>3

\* The terms are digits, one for each digit.
LEMMA TermsOf ==
  ASSUME NEW ds \in Seq(0 .. 9)
  PROVE  /\ Terms(ds) \in Seq(Int) /\ Len(Terms(ds)) = Len(ds)
         /\ \A i \in 1 .. Len(ds) :
               Terms(ds)[i] = IF (Len(ds) - i) % 2 = 1 THEN Doubled(ds[i]) ELSE ds[i]
<1> DEFINE f == Terms(ds)
<1>1. Len(ds) \in Nat /\ DOMAIN ds = 1 .. Len(ds) /\ \A i \in 1 .. Len(ds) : ds[i] \in 0 .. 9
  BY LenProperties
<1>2. \A i \in 1 .. Len(ds) : f[i] = IF (Len(ds) - i) % 2 = 1 THEN Doubled(ds[i]) ELSE ds[i]
  BY <1>1 DEF Terms
<1>3. \A d \in 0 .. 9 : d \in Int /\ Doubled(d) \in Int
  BY DEF Doubled
<1>4. f \in [1 .. Len(ds) -> Int]
  BY <1>1, <1>3 DEF Terms
<1> HIDE DEF f
<1>5. f \in Seq(Int) /\ Len(f) = Len(ds)
  BY <1>1, <1>4, IsSequence
<1> QED
  BY <1>2, <1>5 DEF f

\* No digit can be mistaken for another: doubled or not, they stay distinct.
LEMMA DigitsDistinct ==
  ASSUME NEW c \in 0 .. 9, NEW d \in 0 .. 9, c # d
  PROVE  /\ d - c # 0 /\ d - c \in -9 .. 9
         /\ Doubled(d) - Doubled(c) # 0 /\ Doubled(d) - Doubled(c) \in -9 .. 9
BY DEF Doubled

\* A number that passes the check fails it once one digit is another.
LEMMA LuhnTypo ==
  ASSUME NEW ds \in Seq(0 .. 9), LuhnCheck(ds), NEW k \in 1 .. Len(ds),
         NEW d \in 0 .. 9, d # ds[k]
  PROVE  ~LuhnCheck([ds EXCEPT ![k] = d])
<1> DEFINE es == [ds EXCEPT ![k] = d]
           s == Terms(ds)
           r == Terms(es)
<1>1. /\ Len(ds) \in Nat /\ DOMAIN ds = 1 .. Len(ds) /\ ds \in [1 .. Len(ds) -> 0 .. 9]
  BY LenProperties
<1>2. /\ es \in [1 .. Len(ds) -> 0 .. 9] /\ es[k] = d
      /\ \A i \in 1 .. Len(ds) : i # k => es[i] = ds[i]
  BY <1>1
<1> HIDE DEF es
<1>3. es \in Seq(0 .. 9) /\ Len(es) = Len(ds)
  BY <1>1, <1>2, IsSequence
<1>4. s \in Seq(Int) /\ Len(s) = Len(ds) /\ \A i \in 1 .. Len(ds) :
         s[i] = IF (Len(ds) - i) % 2 = 1 THEN Doubled(ds[i]) ELSE ds[i]
  BY TermsOf
<1>5. r \in Seq(Int) /\ Len(r) = Len(ds) /\ \A i \in 1 .. Len(ds) :
         r[i] = IF (Len(ds) - i) % 2 = 1 THEN Doubled(es[i]) ELSE es[i]
  BY <1>3, TermsOf
<1>6. LuhnSum(ds) = Total(s) /\ LuhnSum(es) = Total(r)
  BY DEF LuhnSum, Terms
<1> HIDE DEF s, r
<1>7. \A i \in 1 .. Len(ds) : i # k => r[i] = s[i]
  BY <1>2, <1>4, <1>5
<1>8. Total(s) \in Int /\ Total(r) = Total(s) + (r[k] - s[k])
  BY <1>4, <1>5, <1>7, TotalChange
<1>9. r[k] - s[k] # 0 /\ r[k] - s[k] \in -9 .. 9
  <2>1. ds[k] \in 0 .. 9 /\ es[k] = d
    BY <1>1, <1>2
  <2> QED
    BY <1>4, <1>5, <2>1, DigitsDistinct
<1>10. \A a \in Int : \A b \in -9 .. 9 : a % 10 = 0 /\ b # 0 => (a + b) % 10 # 0
  OBVIOUS
<1>11. Total(s) % 10 = 0
  BY <1>6 DEF LuhnCheck
<1>12. LuhnSum(es) % 10 # 0
  BY <1>6, <1>8, <1>9, <1>10, <1>11
<1> QED
  BY <1>12 DEF LuhnCheck, es

-----------------------------------------------------------------------------
(* The digits of a run. *)

\* f[i] is the first i sequences put together.
Flattens(ss, f) ==
    \A i \in 1 .. Len(ss) : f[i] = IF i = 1 THEN ss[i] ELSE f[i - 1] \o ss[i]

\* The recursion of FlattenSeq has a solution.
LEMMA FlattenExists ==
  ASSUME NEW ss \in Seq(Seq(0 .. 9))
  PROVE  \E g \in [1 .. Len(ss) -> Seq(0 .. 9)] : Flattens(ss, g)
<1> DEFINE L == Len(ss)
           D == Seq(0 .. 9)
           G == [1 .. L -> D]
           Solved(g, j) == g[j] = IF j = 1 THEN ss[j] ELSE g[j - 1] \o ss[j]
           S == {n \in 0 .. L : \E g \in G : \A j \in 1 .. n : Solved(g, j)}
<1>1. L \in Nat /\ \A i \in 1 .. L : ss[i] \in D
  BY LenProperties
<1>2. 0 \in S
  <2> DEFINE g == [k \in 1 .. L |-> <<>>]
  <2>1. <<>> \in D
    OBVIOUS
  <2> HIDE DEF D
  <2>2. g \in G /\ 0 \in 0 .. L /\ 1 .. 0 = {}
    BY <1>1, <2>1
  <2> HIDE DEF g, G
  <2> QED
    BY <2>2
<1>3. ASSUME NEW i \in 1 .. L, i - 1 \in S
      PROVE  i \in S
  <2>1. PICK g \in G : \A j \in 1 .. i - 1 : Solved(g, j)
    BY <1>3
  <2> DEFINE x == IF i = 1 THEN ss[i] ELSE g[i - 1] \o ss[i]
             h == [g EXCEPT ![i] = x]
  <2>2. x \in D
    <3>1. CASE i = 1
      BY <1>1, <3>1
    <3>2. CASE i # 1
      <4>1. i - 1 \in 1 .. L
        BY <1>1, <3>2
      <4>2. g[i - 1] \in D /\ ss[i] \in D
        BY <1>1, <2>1, <4>1
      <4> QED
        BY <3>2, <4>2, ConcatProperties
    <3> QED
      BY <3>1, <3>2
  <2> HIDE DEF x, D
  <2>3. h \in G /\ h[i] = x /\ \A j \in 1 .. L : j # i => h[j] = g[j]
    BY <2>1, <2>2
  <2> HIDE DEF h, G
  <2>4. i # 1 => i - 1 \in 1 .. L /\ i - 1 # i
    BY <1>1
  <2>5. Solved(h, i)
    BY <2>3, <2>4 DEF x
  <2>6. \A j \in 1 .. i : j = i \/ (j \in 1 .. i - 1 /\ j \in 1 .. L /\ j # i
                                      /\ (j # 1 => j - 1 \in 1 .. L /\ j - 1 # i))
    BY <1>1
  <2>7. \A j \in 1 .. i : Solved(h, j)
    BY <2>1, <2>3, <2>5, <2>6
  <2>8. i \in 0 .. L
    BY <1>1
  <2> QED
    BY <2>3, <2>7, <2>8
<1>4. L \in 0 .. L
  BY <1>1
<1> HIDE DEF S, L
<1>5. L \in S
  BY <1>1, <1>2, <1>3, <1>4, Upward
<1> QED
  BY <1>5 DEF S, L, Flattens

\* Digit sequences put together are a digit sequence.
LEMMA FlattenDigits ==
  ASSUME NEW ss \in Seq(Seq(0 .. 9))
  PROVE  FlattenSeq(ss) \in Seq(0 .. 9)
<1> DEFINE L == Len(ss)
           D == Seq(0 .. 9)
           f == CHOOSE g : g = [i \in 1 .. L |-> IF i = 1 THEN ss[i] ELSE g[i - 1] \o ss[i]]
           S == {i \in 0 .. L : i # 0 => f[i] \in D}
<1>1. L \in Nat /\ \A i \in 1 .. L : ss[i] \in D
  BY LenProperties
<1>2. f = [i \in 1 .. L |-> IF i = 1 THEN ss[i] ELSE f[i - 1] \o ss[i]]
  <2>1. PICK g \in [1 .. L -> D] : Flattens(ss, g)
    BY FlattenExists
  <2> HIDE DEF D
  <2>2. \A i \in 1 .. L : g[i] = IF i = 1 THEN ss[i] ELSE g[i - 1] \o ss[i]
    BY <2>1 DEF Flattens
  <2>3. g = [i \in 1 .. L |-> IF i = 1 THEN ss[i] ELSE g[i - 1] \o ss[i]]
    BY <2>1, <2>2
  <2> QED
    BY <2>3
<1>3. FlattenSeq(ss) = IF L = 0 THEN ss ELSE f[L]
  BY DEF FlattenSeq
<1> HIDE DEF f
<1>4. \A i \in 1 .. L : f[i] = IF i = 1 THEN ss[i] ELSE f[i - 1] \o ss[i]
  BY <1>2
<1>5. 0 \in S
  BY <1>1
<1>6. ASSUME NEW i \in 1 .. L, i - 1 \in S
      PROVE  i \in S
  <2>1. CASE i = 1
    <3>1. f[i] = ss[i] /\ ss[i] \in D /\ i \in 0 .. L
      BY <1>1, <1>4, <2>1
    <3> HIDE DEF D
    <3> QED
      BY <3>1
  <2>2. CASE i # 1
    <3>1. i - 1 # 0 /\ i \in 0 .. L
      BY <1>1, <2>2
    <3>2. f[i - 1] \in D /\ ss[i] \in D /\ f[i] = f[i - 1] \o ss[i]
      BY <1>1, <1>4, <1>6, <2>2, <3>1
    <3>3. f[i] \in D
      BY <3>2, ConcatProperties
    <3> QED
      BY <3>1, <3>3
  <2> QED
    BY <2>1, <2>2
<1>7. L \in 0 .. L
  BY <1>1
<1>8. CASE L = 0
  <2>1. ss = <<>>
    BY <1>8, EmptySeq
  <2> QED
    BY <1>3, <1>8, <2>1
<1>9. CASE L # 0
  <2> HIDE DEF S, L
  <2>1. L \in S
    BY <1>1, <1>5, <1>6, <1>7, Upward
  <2> QED
    BY <1>3, <1>9, <2>1 DEF S
<1> QED
  BY <1>8, <1>9

\* The digits of a run of groups are digits.
LEMMA DigitsType ==
  ASSUME NEW t \in Seq(Word), NEW i \in 1 .. Len(t), NEW j \in i .. Len(t)
  PROVE  DigitsOf(t, i, j) \in Seq(0 .. 9)
<1> DEFINE n == j - i + 1
           ss == [k \in 1 .. n |-> t[i + k - 1].digits]
           D == Seq(0 .. 9)
<1>1. Len(t) \in Nat /\ \A k \in 1 .. Len(t) : t[k] \in Word
  BY LenProperties
<1>2. n \in Nat /\ \A k \in 1 .. n : i + k - 1 \in 1 .. Len(t)
  BY <1>1
<1>3. \A w \in Word : w.digits \in D
  BY DEF Word
<1>4. DigitsOf(t, i, j) = FlattenSeq(ss)
  BY DEF DigitsOf
<1> HIDE DEF n, D
<1>5. ss \in [1 .. n -> D]
  BY <1>1, <1>2, <1>3
<1> HIDE DEF ss
<1>6. ss \in Seq(D)
  BY <1>2, <1>5, IsSequence
<1> QED
  BY <1>4, <1>6, FlattenDigits DEF D

-----------------------------------------------------------------------------
(* The inductive invariant. *)

\* The document keeps its shape: as many leaves, of the same types.
ShapeInv ==
    /\ original \in Seq(Leaf)
    /\ doc = [i \in 1 .. Len(original) |->
                 [string |-> original[i].string, text |-> doc[i].text]]
    /\ visited \in 0 .. Len(original)
    /\ any \in BOOLEAN

\* Nothing is touched before it is visited.
AheadInv == \A i \in visited + 1 .. Len(original) : doc[i] = original[i]

WalkInv == ShapeInv /\ AheadInv /\ ChangeReported

-----------------------------------------------------------------------------
\* The leaves of a document keep their number and their types.
LEMMA Shape ==
  ASSUME ShapeInv
  PROVE  /\ Len(original) \in Nat /\ DOMAIN original = 1 .. Len(original)
         /\ DOMAIN doc = 1 .. Len(original) /\ Len(doc) = Len(original)
         /\ \A i \in 1 .. Len(original) :
               /\ original[i] = [string |-> original[i].string, text |-> original[i].text]
               /\ doc[i] = [string |-> original[i].string, text |-> doc[i].text]
               /\ original[i].string \in BOOLEAN
<1> DEFINE L == Len(original)
           S == {[string |-> original[i].string, text |-> doc[i].text] : i \in 1 .. L}
           F == [i \in 1 .. L |-> [string |-> original[i].string, text |-> doc[i].text]]
<1>1. L \in Nat /\ DOMAIN original = 1 .. L /\ \A i \in 1 .. L : original[i] \in Leaf
  BY LenProperties DEF ShapeInv
<1>2. doc = F
  BY DEF ShapeInv
<1> HIDE DEF L
<1>3. F \in [1 .. L -> S]
  OBVIOUS
<1>4. DOMAIN F = 1 .. L /\ \A i \in 1 .. L : F[i] = [string |-> original[i].string, text |-> doc[i].text]
  OBVIOUS
<1> HIDE DEF F, S
<1>5. doc \in Seq(S) /\ DOMAIN doc = 1 .. L
  <2>1. F \in UNION {[1 .. n -> S] : n \in Nat}
    BY <1>1, <1>3
  <2>2. F \in Seq(S)
    BY <2>1, SeqDef
  <2> QED
    BY <1>2, <1>4, <2>2
<1>6. Len(doc) \in Nat /\ DOMAIN doc = 1 .. Len(doc)
  BY <1>5, LenProperties
<1>7. Len(doc) = L
  BY <1>1, <1>5, <1>6
<1>8. \A i \in 1 .. L : doc[i] = [string |-> original[i].string, text |-> doc[i].text]
  BY <1>2, <1>4
<1>9. \A i \in 1 .. L :
         /\ original[i] = [string |-> original[i].string, text |-> original[i].text]
         /\ original[i].string \in BOOLEAN
  BY <1>1 DEF Leaf
<1> QED
  BY <1>1, <1>5, <1>7, <1>8, <1>9 DEF L

\* Nothing was visited yet.
LEMMA WalkInit == Init => WalkInv
<1> SUFFICES ASSUME Init PROVE WalkInv
  OBVIOUS
<1>1. /\ original \in Seq(Leaf) /\ doc = original /\ visited = 0 /\ any = FALSE
      /\ Len(original) \in Nat /\ DOMAIN original = 1 .. Len(original)
      /\ original \in [1 .. Len(original) -> Leaf]
  BY DocumentsAssumption, LenProperties DEF Init
<1>2. \A i \in 1 .. Len(original) :
         original[i] = [string |-> original[i].string, text |-> original[i].text]
  BY <1>1 DEF Leaf
<1>3. original = [i \in 1 .. Len(original) |->
                     [string |-> original[i].string, text |-> original[i].text]]
  BY <1>1, <1>2
<1>4. ShapeInv
  <2>1. visited \in 0 .. Len(original) /\ any \in BOOLEAN
    <3>1. Len(original) \in Nat /\ visited = 0
      BY <1>1
    <3>2. any \in BOOLEAN
      BY <1>1, Zenon
    <3> QED
      BY <3>1, <3>2
  <2>2. doc = [i \in 1 .. Len(original) |->
                 [string |-> original[i].string, text |-> doc[i].text]]
    BY <1>1, <1>3, Zenon
  <2> QED
    BY <1>1, <2>1, <2>2 DEF ShapeInv
<1>5. AheadInv /\ ChangeReported
  BY <1>1 DEF AheadInv, ChangeReported
<1> QED
  BY <1>4, <1>5 DEF WalkInv

\* The next leaf becomes [x |-> text]; the others stay.
LEMMA VisitStep ==
  ASSUME WalkInv, visited < Len(doc), doc[visited + 1].string,
         NEW dense \in SUBSET DOMAIN doc[visited + 1].text, VisitString(dense)
  PROVE  WalkInv'
<1> DEFINE v == visited + 1
           L == Len(original)
           x == SanitizeStr(doc[v].text, dense)
<1>1. /\ v \in 1 .. L /\ v = visited + 1 /\ visited \in 0 .. L /\ L \in Nat /\ DOMAIN doc = 1 .. L
      /\ \A i \in 1 .. L :
            /\ original[i] = [string |-> original[i].string, text |-> original[i].text]
            /\ doc[i] = [string |-> original[i].string, text |-> doc[i].text]
  BY Shape DEF WalkInv, ShapeInv
<1>2. doc[v] = original[v]
  BY <1>1 DEF WalkInv, AheadInv
<1>3. /\ doc' = [doc EXCEPT ![v].text = x]
      /\ any' = (any \/ x # doc[v].text)
      /\ visited' = v /\ original' = original
  BY DEF VisitString, Visit
<1>4. dense \in SUBSET DOMAIN original[v].text /\ original[v].string
  BY <1>2
<1>5. x = SanitizeStr(original[v].text, dense)
  BY <1>2
<1>6. any \in BOOLEAN /\ original \in Seq(Leaf)
  BY DEF WalkInv, ShapeInv
<1> HIDE DEF v, L, x
<1>7. /\ DOMAIN doc' = 1 .. L
      /\ doc'[v] = [doc[v] EXCEPT !.text = x]
      /\ \A i \in 1 .. L : i # v => doc'[i] = doc[i]
  BY <1>1, <1>3
<1>8. doc'[v] = [string |-> original[v].string, text |-> x] /\ doc'[v].text = x
  <2>1. \A a, b : [[string |-> a, text |-> b] EXCEPT !.text = x] = [string |-> a, text |-> x]
    OBVIOUS
  <2>2. doc[v] = [string |-> original[v].string, text |-> doc[v].text]
    BY <1>1
  <2>3. doc'[v] = [[string |-> original[v].string, text |-> doc[v].text] EXCEPT !.text = x]
    BY <1>7, <2>2, Zenon
  <2>4. doc'[v] = [string |-> original[v].string, text |-> x]
    BY <2>1, <2>3, Zenon
  <2> QED
    BY <2>4
<1>9. \A i \in 1 .. L : doc'[i] = [string |-> original[i].string, text |-> doc'[i].text]
  BY <1>1, <1>7, <1>8
<1>10. ShapeInv'
  <2>1. doc' = [i \in 1 .. L |-> doc'[i]]
    BY <1>3, <1>1, <1>7
  <2>2. doc' = [i \in 1 .. L |-> [string |-> original[i].string, text |-> doc'[i].text]]
    BY <2>1, <1>9
  <2> QED
    BY <2>2, <1>1, <1>3, <1>6 DEF ShapeInv, L
<1>11. AheadInv'
  <2>1. \A i \in v + 1 .. L : i \in visited + 1 .. L /\ i \in 1 .. L /\ i # v
    BY <1>1
  <2>2. \A i \in visited + 1 .. L : doc[i] = original[i]
    BY DEF WalkInv, AheadInv, L
  <2> QED
    BY <2>1, <2>2, <1>3, <1>7 DEF AheadInv, L
<1>12. /\ any <=> \E i \in 1 .. visited : doc[i] # original[i]
       /\ \A i \in 1 .. L : doc[i] # original[i] => i <= visited /\ original[i].string
       /\ \A i \in 1 .. visited : original[i].string =>
             \E d \in SUBSET DOMAIN original[i].text :
                 doc[i].text = SanitizeStr(original[i].text, d)
  BY <1>1 DEF WalkInv, ChangeReported
<1>13. \A i \in 1 .. v : i = v \/ (i \in 1 .. visited /\ i \in 1 .. L /\ i # v)
  BY <1>1
<1>14. \A i \in 1 .. visited : i \in 1 .. v
  BY <1>1
<1>15. doc'[v] # original[v] <=> x # doc[v].text
  BY <1>1, <1>2, <1>8
<1>16. any' <=> \E i \in 1 .. v : doc'[i] # original[i]
  <2>1. v \in 1 .. v
    BY <1>1
  <2>2. \A i \in 1 .. visited : i \in 1 .. v /\ doc'[i] = doc[i]
    BY <1>7, <1>13, <1>14, <1>1
  <2>3. any' => any \/ doc'[v] # original[v]
    BY <1>3, <1>15
  <2>4. any \/ doc'[v] # original[v] => any'
    BY <1>3, <1>15
  <2>5. any => \E i \in 1 .. v : doc'[i] # original[i]
    BY <2>2, <1>12
  <2>6. ASSUME NEW i \in 1 .. v, doc'[i] # original[i]
        PROVE  any'
    BY <2>2, <2>4, <2>6, <1>12, <1>13
  <2>7. any' \in BOOLEAN
    BY <1>3
  <2> QED
    BY <2>1, <2>3, <2>5, <2>6, <2>7
<1>17. \A i \in 1 .. L : doc'[i] # original[i] => i <= v /\ original[i].string
  BY <1>1, <1>4, <1>7, <1>12
<1>18. \A i \in 1 .. v : original[i].string =>
          \E d \in SUBSET DOMAIN original[i].text :
              doc'[i].text = SanitizeStr(original[i].text, d)
  BY <1>4, <1>5, <1>7, <1>8, <1>12, <1>13
<1>19. ChangeReported'
  BY <1>3, <1>7, <1>16, <1>17, <1>18 DEF ChangeReported
<1> QED
  BY <1>10, <1>11, <1>19 DEF WalkInv

\* Every visit keeps the invariant.
LEMMA WalkStep == WalkInv /\ [Next]_vars => WalkInv'
<1> SUFFICES ASSUME WalkInv, [Next]_vars PROVE WalkInv'
  OBVIOUS
<1>1. CASE VisitOther
  <2> DEFINE v == visited + 1
             L == Len(original)
  <2>1. /\ v \in 1 .. L /\ visited \in 0 .. L /\ L \in Nat /\ DOMAIN doc = 1 .. L
        /\ visited' = v /\ original' = original /\ doc' = doc /\ any' = any
        /\ ~doc[v].string
    BY <1>1, Shape DEF WalkInv, ShapeInv, VisitOther
  <2>2. doc[v] = original[v]
    BY <2>1 DEF WalkInv, AheadInv
  <2>3. ShapeInv' /\ AheadInv'
    <3>1. visited' \in 0 .. Len(original) /\ \A i \in v + 1 .. L : i \in visited + 1 .. L
      BY <2>1
    <3>2. ShapeInv'
      BY <3>1, <2>1 DEF WalkInv, ShapeInv
    <3> QED
      BY <3>1, <3>2, <2>1 DEF WalkInv, AheadInv
  <2>4. \A i \in 1 .. v : i = v \/ i \in 1 .. visited
    BY <2>1
  <2>5. \A i \in 1 .. visited : i \in 1 .. v
    BY <2>1
  <2> HIDE DEF v, L
  <2>6. any' <=> \E i \in 1 .. v : doc[i] # original[i]
    BY <2>1, <2>2, <2>4, <2>5 DEF WalkInv, ChangeReported
  <2>7. \A i \in DOMAIN doc : doc[i] # original[i] => i <= v /\ original[i].string
    BY <2>1 DEF WalkInv, ChangeReported, v
  <2>8. \A i \in 1 .. v : original[i].string =>
           \E d \in SUBSET DOMAIN original[i].text :
               doc[i].text = SanitizeStr(original[i].text, d)
    BY <2>1, <2>2, <2>4 DEF WalkInv, ChangeReported
  <2>9. ChangeReported'
    BY <2>1, <2>6, <2>7, <2>8 DEF ChangeReported
  <2> QED
    BY <2>3, <2>9 DEF WalkInv
<1>2. ASSUME visited < Len(doc), NEW dense \in SUBSET DOMAIN doc[visited + 1].text,
             VisitString(dense)
      PROVE  WalkInv'
  <2>1. doc[visited + 1].string
    BY <1>2 DEF VisitString
  <2> QED
    BY <1>2, <2>1, VisitStep
<1>3. CASE UNCHANGED vars
  BY <1>3 DEF vars, WalkInv, ShapeInv, AheadInv, ChangeReported
<1> QED
  BY <1>1, <1>2, <1>3 DEF Next

\* sanitize_json visits every leaf, says true if and only if it changed one,
\* and sanitises the strings after the first that changed as well.
THEOREM WalkReported == Spec => []ChangeReported
<1>1. WalkInv => ChangeReported
  BY DEF WalkInv
<1> QED
  BY <1>1, WalkInit, WalkStep, PTL DEF Spec

-----------------------------------------------------------------------------
(* What the walk leaves behind. *)

\* A visited string is its original, sanitised.
LEMMA Visited ==
  ASSUME WalkInv, NEW n \in 1 .. visited
  PROVE  /\ n \in 1 .. Len(original) /\ original[n].text \in Seq(Word)
         /\ doc[n].string = original[n].string
         /\ ~original[n].string => doc[n] = original[n]
         /\ original[n].string => \E dense : doc[n].text = SanitizeStr(original[n].text, dense)
         /\ doc[n].text = original[n].text => doc[n] = original[n]
<1>1. /\ Len(original) \in Nat /\ visited \in 0 .. Len(original) /\ original \in Seq(Leaf)
      /\ DOMAIN doc = 1 .. Len(original)
      /\ \A i \in 1 .. Len(original) :
            /\ original[i] = [string |-> original[i].string, text |-> original[i].text]
            /\ doc[i] = [string |-> original[i].string, text |-> doc[i].text]
  BY Shape DEF WalkInv, ShapeInv
<1>2. n \in 1 .. Len(original)
  BY <1>1
<1>3. original[n] \in Leaf
  BY <1>1, <1>2, LenProperties
<1>4. original[n].text \in Seq(Word)
  BY <1>3 DEF Leaf
<1>5. doc[n].string = original[n].string
  <2>1. \A a, b : [string |-> a, text |-> b].string = a
    OBVIOUS
  <2>2. doc[n] = [string |-> original[n].string, text |-> doc[n].text]
    BY <1>1, <1>2
  <2>3. [string |-> original[n].string, text |-> doc[n].text].string = original[n].string
    BY <2>1, Zenon
  <2> QED
    BY <2>2, <2>3, Zenon
<1>6. ~original[n].string => doc[n] = original[n]
  BY <1>1, <1>2 DEF WalkInv, ChangeReported
<1>7. original[n].string => \E dense : doc[n].text = SanitizeStr(original[n].text, dense)
  BY DEF WalkInv, ChangeReported
<1>8. doc[n].text = original[n].text => doc[n] = original[n]
  BY <1>1, <1>2
<1> QED
  BY <1>2, <1>4, <1>5, <1>6, <1>7, <1>8

\* So nothing that a detector recognises is left in it.
LEMMA WalkDetected == WalkInv => DetectedGone
<1> SUFFICES ASSUME WalkInv PROVE DetectedGone
  OBVIOUS
<1>1. ASSUME NEW u \in Sanitised
      PROVE  /\ u \in Seq(Word) /\ Clean(u)
             /\ \A p \in 1 .. Len(u) : SpacedGoneAt(u, p)
  <2>1. PICK n \in 1 .. visited : doc[n].string /\ u = doc[n].text
    BY <1>1 DEF Sanitised
  <2>2. original[n].text \in Seq(Word)
        /\ \E dense : u = SanitizeStr(original[n].text, dense)
    BY <2>1, Visited
  <2> QED
    BY <2>2, SanitizedClean, SanitizedSpaced
<1>2. PatternsGone
  <2> SUFFICES ASSUME NEW u \in Sanitised, NEW i \in DOMAIN u
               PROVE  u[i].kind \notin {"key", "email"} /\ ~BearerAt(u, i)
    BY DEF PatternsGone
  <2>1. u \in Seq(Word) /\ NoBearer(u) /\ ~Has(u, "key") /\ ~Has(u, "email")
    BY <1>1 DEF Clean
  <2>2. i \in 1 .. Len(u)
    BY <2>1, LenProperties
  <2>3. ~BearerAt(u, i)
    BY <2>1, <2>2 DEF NoBearer
  <2> QED
    BY <2>1, <2>3 DEF Has
<1>3. SpacedSecretsGone
  <2>1. \A u \in Sanitised : DOMAIN u = 1 .. Len(u)
    BY <1>1, LenProperties
  <2> QED
    BY <1>1, <2>1 DEF SpacedSecretsGone, SpacedGoneAt
<1>4. LoneCardsGone
  <2> SUFFICES ASSUME NEW n \in 1 .. visited, original[n].string, ~EntropyHit(original[n].text)
               PROVE  LET t == doc[n].text
                      IN  \A i \in DOMAIN t : \A j \in CardEnds(t, i) :
                             LuhnCheck(DigitsOf(t, i, j)) => Beside(t, i, j)
    BY DEF LoneCardsGone, Beside
  <2>1. PICK dense : doc[n].text = SanitizeStr(original[n].text, dense)
    BY Visited
  <2>2. original[n].text \in Seq(Word)
    BY Visited
  <2>3. doc[n].text \in Seq(Word)
    BY <2>1, <2>2, SanitizedClean
  <2>4. DOMAIN doc[n].text = 1 .. Len(doc[n].text)
    BY <2>3, LenProperties
  <2> QED
    BY <2>1, <2>2, <2>4, SanitizedCards
<1> QED
  BY <1>2, <1>3, <1>4 DEF DetectedGone

\* And harmless text is as it was.
LEMMA WalkHarmless == WalkInv => HarmlessUntouched
<1> SUFFICES ASSUME WalkInv, NEW n \in 1 .. visited, Harmless(original[n].text)
             PROVE  doc[n] = original[n]
  BY DEF HarmlessUntouched, Harmless
<1>1. CASE ~original[n].string
  BY <1>1, Visited
<1>2. CASE original[n].string
  <2>1. PICK dense : doc[n].text = SanitizeStr(original[n].text, dense)
    BY <1>2, Visited
  <2>2. original[n].text \in Seq(Word)
    BY Visited
  <2>3. doc[n].text = original[n].text
    BY <2>1, <2>2, HarmlessKept
  <2> QED
    BY <2>3, Visited
<1>3. original[n].string \in BOOLEAN
  <2>1. n \in 1 .. Len(original)
    BY Visited
  <2> QED
    BY <2>1, Shape DEF WalkInv
<1> QED
  BY <1>1, <1>2

\* The card numbers of the document are ones the check protects.
LEMMA WalkTypos == WalkInv => LuhnDetectsTypos
<1> SUFFICES ASSUME WalkInv, NEW n \in DOMAIN original, NEW i \in DOMAIN original[n].text,
                    NEW j \in CardEnds(original[n].text, i),
                    LuhnCheck(DigitsOf(original[n].text, i, j)),
                    NEW k \in DOMAIN DigitsOf(original[n].text, i, j),
                    NEW d \in 0 .. 9 \ {DigitsOf(original[n].text, i, j)[k]}
             PROVE  ~LuhnCheck([DigitsOf(original[n].text, i, j) EXCEPT ![k] = d])
  BY DEF LuhnDetectsTypos
<1> DEFINE t == original[n].text
           ds == DigitsOf(t, i, j)
<1>1. t \in Seq(Word)
  <2>1. original[n] \in Leaf
    BY LenProperties DEF WalkInv, ShapeInv
  <2> QED
    BY <2>1 DEF Leaf
<1>2. i \in 1 .. Len(t)
  BY <1>1, LenProperties
<1>3. j \in i .. Len(t)
  BY DEF CardEnds
<1> HIDE DEF t
<1>4. ds \in Seq(0 .. 9)
  BY <1>1, <1>2, <1>3, DigitsType
<1>5. LuhnCheck(ds) /\ k \in DOMAIN ds /\ d \in 0 .. 9 /\ d # ds[k]
  BY DEF t
<1> HIDE DEF ds
<1>6. k \in 1 .. Len(ds)
  BY <1>4, <1>5, LenProperties
<1>7. ~LuhnCheck([ds EXCEPT ![k] = d])
  BY <1>4, <1>5, <1>6, LuhnTypo
<1> QED
  BY <1>7 DEF ds, t

\* sanitize_str leaves nothing behind that one of its detectors recognises: no
\* key, address or bearer token and no card number that stands alone, and no
\* high-entropy token between spaces but those a pattern replaced a part of or
\* the text has in brackets, in any text of any length, glued in any way.
THEOREM NothingDetectedLeft == Spec => []DetectedGone
BY WalkInit, WalkStep, WalkDetected, PTL DEF Spec

\* sanitize_str leaves harmless text as it is, however long it is and however
\* it is broken into lines.
THEOREM HarmlessTextKept == Spec => []HarmlessUntouched
BY WalkInit, WalkStep, WalkHarmless, PTL DEF Spec

\* luhn_check tells every card number from one with a single digit mistyped.
THEOREM TyposDetected == Spec => []LuhnDetectsTypos
BY WalkInit, WalkStep, WalkTypos, PTL DEF Spec

=============================================================================
