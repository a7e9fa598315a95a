------------------------------- MODULE Redactor -------------------------------
(***************************************************************************)
(* PiiRedactor (safegate-core/src/redactor.rs): the detectors and the      *)
(* order sanitize_str runs them in, and the walk of sanitize_json over the *)
(* string leaves of a document.                                            *)
(*                                                                         *)
(* A text is a sequence of words.  A word is a stretch that a pattern may  *)
(* match (or none does), with what stands before it: a space, other        *)
(* whitespace (a line break), or a character that no pattern takes, like a *)
(* comma or an equals sign, which glues it to the word before: the words   *)
(* "key=" and "sk-.." are one token.  Digit groups are joined by spaces    *)
(* here, as by hyphens.  A document is the sequence of its leaves in the   *)
(* order they are visited; object keys are not visited.                    *)
(***************************************************************************)
EXTENDS Integers, Sequences, FiniteSetsExt, SequencesExt

CONSTANTS
    Documents,             \* the documents that may be sanitised
    MinDigits, MaxDigits   \* the lengths of a card number (13 and 19)

\* REDACTED_SECRET, REDACTED_EMAIL, REDACTED_CARD
Placeholders == {"[SECRET]", "[EMAIL]", "[CARD]"}

\* "bearer" is the keyword; a word that no pattern matches may start with "["
\* ("opening"), end with "]" ("closing") or both ("quoted"); "cut" is an e-mail
\* address whose local part was taken for a bearer token.
Kinds ==
    {"plain", "bearer", "key", "email", "digits", "opening", "closing", "quoted", "cut"}
        \cup Placeholders

(***************************************************************************)
(* high, on the first word of a token of split_whitespace: the token is    *)
(* long and of high entropy.  A placeholder that starts a token was put    *)
(* there, and nothing is known of the entropy of what it now begins.       *)
(***************************************************************************)
Word ==
    {w \in [kind : Kinds, high : BOOLEAN, digits : Seq(0 .. 9),
            sep : {"space", "line", "glue"}] :
        w.high => w.kind \notin Placeholders /\ w.sep # "glue"}

\* A leaf that is no string (a number, null) carries text all the same.
Leaf == [string : BOOLEAN, text : Seq(Word)]

ASSUME DocumentsAssumption ==
    /\ Documents \subseteq Seq(Leaf)
    /\ MinDigits \in Nat \ {0} /\ MaxDigits \in Nat

VARIABLES
    original,  \* the document that was passed in
    doc,       \* the document, sanitised in place
    visited,   \* the number of leaves visited
    any        \* whether a leaf was changed so far

vars == <<original, doc, visited, any>>

-----------------------------------------------------------------------------
(* luhn_check *)

Doubled(d) == IF 2 * d > 9 THEN 2 * d - 9 ELSE 2 * d

\* The sum of a sequence of numbers.
Total(s) ==
    LET Sum[i \in 0 .. Len(s)] == IF i = 0 THEN 0 ELSE Sum[i - 1] + s[i]
    IN  Sum[Len(s)]

\* Mutant of LuhnSum: doubled digits are not reduced.
LuhnSumUnreduced(ds) ==
    Total([i \in DOMAIN ds |-> IF (Len(ds) - i) % 2 = 1 THEN 2 * ds[i] ELSE ds[i]])

\* Every second digit from the right is doubled.
LuhnSum(ds) ==
    Total([i \in DOMAIN ds |-> IF (Len(ds) - i) % 2 = 1 THEN Doubled(ds[i]) ELSE ds[i]])

\* Mutant of LuhnCheck: only the length is checked.
LuhnLength(ds) == Len(ds) \in MinDigits .. MaxDigits

LuhnCheck(ds) == Len(ds) \in MinDigits .. MaxDigits /\ LuhnSum(ds) % 10 = 0

-----------------------------------------------------------------------------
(* The passes of sanitize_str. *)

\* A word replaced in place.
Put(w, k) == [kind |-> k, high |-> FALSE, digits |-> <<>>, sep |-> w.sep]

(***************************************************************************)
(* A text with its matches replaced, from left to right: what starts at i  *)
(* ends at end[i] and becomes new[i].                                      *)
(***************************************************************************)
Rewrite(t, end, new) ==
    LET From[i \in 1 .. Len(t) + 1] ==
            IF i > Len(t) THEN <<>> ELSE new[i] \o From[end[i] + 1]
    IN  From[1]

Has(t, k) == \E i \in DOMAIN t : t[i].kind = k

\* What may follow "bearer" as its token: anything that starts without "[".
IsToken(w) == w.kind \notin Placeholders \cup {"opening", "quoted", "cut"}

BearerAt(t, i) ==
    /\ i < Len(t) /\ t[i].kind = "bearer"
    /\ IsToken(t[i + 1]) /\ t[i + 1].sep # "glue"

\* bearer_re.replace_all: keyword, whitespace and token become one word; of
\* an e-mail address only the local part is taken, and a "]" stays behind that
\* of the placeholder.
BearerPass(t) ==
    LET Secret(i) == Put(t[i], IF t[i + 1].kind = "email" THEN "cut" ELSE "[SECRET]")
    IN  Rewrite(t, [i \in DOMAIN t |-> IF BearerAt(t, i) THEN i + 1 ELSE i],
                   [i \in DOMAIN t |-> <<IF BearerAt(t, i) THEN Secret(i) ELSE t[i]>>])

\* api_key_re.replace_all, email_re.replace_all
PatternPass(t, k, placeholder) ==
    [i \in DOMAIN t |-> IF t[i].kind = k THEN Put(t[i], placeholder) ELSE t[i]]

\* Groups i to j, each after a single space, as one digit sequence.
DigitsOf(t, i, j) == FlattenSeq([k \in 1 .. j - i + 1 |-> t[i + k - 1].digits])

\* Where a match of card_candidate_re that starts at i may end.
CardEnds(t, i) ==
    {j \in i .. Len(t) :
        /\ \A k \in i .. j : t[k].kind = "digits" /\ (k > i => t[k].sep = "space")
        /\ Len(DigitsOf(t, i, j)) \in MinDigits .. MaxDigits}

\* Mutant of CardEnd: the first candidate is taken.
CardEndFirst(t, i) == Min(CardEnds(t, i))

\* The repetition is greedy: the longest candidate is taken.
CardEnd(t, i) == Max(CardEnds(t, i))

\* redact_cards: replace_all over the candidates, if they pass the check.
CardPass(t) ==
    LET end == [i \in DOMAIN t |-> IF CardEnds(t, i) = {} THEN i ELSE CardEnd(t, i)]
        Card(i) == CardEnds(t, i) # {} /\ LuhnCheck(DigitsOf(t, i, end[i]))
    IN  Rewrite(t, end, [i \in DOMAIN t |->
            IF Card(i) THEN <<Put(t[i], "[CARD]")>> ELSE SubSeq(t, i, end[i])])

\* contains_high_entropy_token, on the tokens of split_whitespace.
EntropyHit(t) == \E i \in DOMAIN t : t[i].high

\* The last word of the token of split(' ') that starts with word i.
TokenEnd(t, i) == Max({j \in i .. Len(t) : \A k \in i + 1 .. j : t[k].sep # "space"})

\* starts_with('[') and ends_with(']')
Bracketed(t, i, j) ==
    /\ t[i].kind \in Placeholders \cup {"opening", "quoted", "cut"}
    /\ t[j].kind \in Placeholders \cup {"closing", "quoted"}

\* Words i to j are one token of the original, which no pattern changed.
Intact(t, i, j) ==
    \A k \in i .. j :
        t[k].kind \notin Placeholders \cup {"cut"} /\ (k > i => t[k].sep = "glue")

(***************************************************************************)
(* redact_high_entropy_tokens.  Its tokens are those of split(' '), after  *)
(* the other passes: whether the entropy of one that a pattern changed, or *)
(* that line breaks are part of, is high does not follow from that of the  *)
(* tokens of the original (`dense`).                                       *)
(***************************************************************************)
EntropyPass(t, dense) ==
    LET end == [i \in DOMAIN t |-> TokenEnd(t, i)]
        High(i) == IF Intact(t, i, end[i]) THEN t[i].high ELSE i \in dense
    IN  Rewrite(t, end, [i \in DOMAIN t |->
            IF ~Bracketed(t, i, end[i]) /\ High(i)
            THEN <<Put(t[i], "[SECRET]")>>
            ELSE SubSeq(t, i, end[i])])

\* quick_matches.matched(1), matched(3)
BearerMatches(t) == \E i \in DOMAIN t : BearerAt(t, i)
CardMatches(t)   == \E i \in DOMAIN t : CardEnds(t, i) # {}

\* The passes in their order; what has to run is decided on the original.
SanitizeStr(t, dense) ==
    LET bearer == IF BearerMatches(t) THEN BearerPass(t) ELSE t
        keys   == IF Has(t, "key") THEN PatternPass(bearer, "key", "[SECRET]") ELSE bearer
        emails == IF Has(t, "email") THEN PatternPass(keys, "email", "[EMAIL]") ELSE keys
        cards  == IF CardMatches(t) THEN CardPass(emails) ELSE emails
    IN  IF EntropyHit(t) THEN EntropyPass(cards, dense) ELSE cards

-----------------------------------------------------------------------------
(* sanitize_json *)

Init ==
    /\ original \in Documents
    /\ doc = original
    /\ visited = 0
    /\ any = FALSE

\* The next leaf is a string and becomes text.
Visit(text) ==
    /\ doc' = [doc EXCEPT ![visited + 1].text = text]
    /\ any' = (any \/ text # doc[visited + 1].text)
    /\ visited' = visited + 1
    /\ UNCHANGED original

\* Mutant of VisitString: `any || ..`, which skips the call once any is set.
VisitStringShort(dense) ==
    /\ visited < Len(doc) /\ doc[visited + 1].string
    /\ Visit(IF any THEN doc[visited + 1].text ELSE SanitizeStr(doc[visited + 1].text, dense))

\* A Value::String, reached through objects and arrays.
VisitString(dense) ==
    /\ visited < Len(doc) /\ doc[visited + 1].string
    /\ Visit(SanitizeStr(doc[visited + 1].text, dense))

\* Any other leaf.
VisitOther ==
    /\ visited < Len(doc) /\ ~doc[visited + 1].string
    /\ visited' = visited + 1
    /\ UNCHANGED <<original, doc, any>>

\* dense: the changed or line-broken tokens whose entropy happens to be high.
Next ==
    \/ VisitOther
    \/ /\ visited < Len(doc)
       /\ \E dense \in SUBSET DOMAIN doc[visited + 1].text : VisitString(dense)

Spec == Init /\ [][Next]_vars

-----------------------------------------------------------------------------
(* Properties. *)

\* The strings that were sanitised.
Sanitised == {doc[i].text : i \in {j \in 1 .. visited : doc[j].string}}

(***************************************************************************)
(* The passes do not get in each other's way: whatever an earlier pass     *)
(* replaced, no API key, no e-mail address and no bearer token that its    *)
(* pattern recognises is left, although which passes run is decided on the *)
(* original text.                                                          *)
(***************************************************************************)
PatternsGone ==
    \A t \in Sanitised : \A i \in DOMAIN t :
        t[i].kind \notin {"key", "email"} /\ ~BearerAt(t, i)

(***************************************************************************)
(* A high-entropy token between two spaces in which no pattern replaced a  *)
(* part is gone, whatever was replaced beside it and whether or not any    *)
(* pattern matched, unless the text itself has it in square brackets.  (A  *)
(* token that starts with a replacement may stay: it starts with "[".)     *)
(***************************************************************************)
SpacedSecretsGone ==
    \A t \in Sanitised : \A i \in DOMAIN t :
        /\ t[i].high /\ (i = 1 \/ t[i].sep = "space")
        /\ Intact(t, i, TokenEnd(t, i))
        => Bracketed(t, i, TokenEnd(t, i))

(***************************************************************************)
(* No card number stays that stands alone: where a run of digit groups of  *)
(* the right length still passes the check there are further digits beside *)
(* it, which the longest match took in.  (Texts with a high-entropy word   *)
(* are left out: its replacement may take such digits away afterwards.)    *)
(***************************************************************************)
LoneCardsGone ==
    \A n \in 1 .. visited : original[n].string /\ ~EntropyHit(original[n].text) =>
        LET t == doc[n].text
        IN  \A i \in DOMAIN t : \A j \in CardEnds(t, i) :
                LuhnCheck(DigitsOf(t, i, j)) =>
                    \/ i > 1 /\ t[i - 1].kind = "digits" /\ t[i].sep = "space"
                    \/ j < Len(t) /\ t[j + 1].kind = "digits" /\ t[j + 1].sep = "space"

(***************************************************************************)
(* What a detector recognises is gone, whatever the other passes did to    *)
(* the text before and after it ran.                                       *)
(***************************************************************************)
DetectedGone == PatternsGone /\ SpacedSecretsGone /\ LoneCardsGone

(***************************************************************************)
(* The check does what it is there for: a number that passes it no longer  *)
(* does once one of its digits is mistyped.                                *)
(***************************************************************************)
LuhnDetectsTypos ==
    \A n \in DOMAIN original :
        LET t == original[n].text
        IN  \A i \in DOMAIN t : \A j \in CardEnds(t, i) :
                LET ds == DigitsOf(t, i, j)
                IN  LuhnCheck(ds) =>
                        \A k \in DOMAIN ds : \A d \in 0 .. 9 \ {ds[k]} :
                            ~LuhnCheck([ds EXCEPT ![k] = d])

(***************************************************************************)
(* Harmless text is left alone: low-entropy words, in brackets or not, and *)
(* digit groups no run of which passes the check come out as they went in, *)
(* however they are glued together or broken into lines.                   *)
(***************************************************************************)
HarmlessUntouched ==
    \A n \in 1 .. visited :
        LET t == original[n].text
        IN  /\ \A i \in DOMAIN t :
                  t[i].kind \in {"plain", "digits", "opening", "closing", "quoted"} /\ ~t[i].high
            /\ \A i \in DOMAIN t : \A j \in CardEnds(t, i) :
                  LuhnSum(DigitsOf(t, i, j)) % 10 # 0
            => doc[n] = original[n]

(***************************************************************************)
(* The walk is complete and its answer exact: sanitize_json says true if   *)
(* and only if some leaf it visited differs, and each such string was      *)
(* sanitised, also those after the first that changed.  The proxy rebuilds *)
(* the body on this answer.                                                *)
(***************************************************************************)
ChangeReported ==
    /\ any <=> \E i \in 1 .. visited : doc[i] # original[i]
    /\ \A i \in DOMAIN doc :
          doc[i] # original[i] => i <= visited /\ original[i].string
    /\ \A i \in 1 .. visited : original[i].string =>
          \E dense \in SUBSET DOMAIN original[i].text :
              doc[i].text = SanitizeStr(original[i].text, dense)

=============================================================================
