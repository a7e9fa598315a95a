------------------------------ MODULE MCRedactor ------------------------------
(***************************************************************************)
(* Model-checking instance of Redactor: card numbers of two or three       *)
(* digits, so that a text of few words can hold several candidates.        *)
(***************************************************************************)
EXTENDS Redactor

W(k, h, ds, s) == [kind |-> k, high |-> h, digits |-> ds, sep |-> s]

Groups == {<<0>>, <<5>>, <<9>>, <<1, 8>>, <<3, 5>>}

Numbers == {W("digits", FALSE, ds, s) : ds \in Groups, s \in {"space", "line", "glue"}}

\* Words that start a token, and words in the middle of one.
Heads ==
    {W(kh[1], kh[2], <<>>, s) : s \in {"space", "line"},
        kh \in {<<"plain", FALSE>>, <<"plain", TRUE>>, <<"bearer", FALSE>>, <<"key", TRUE>>,
                <<"email", FALSE>>, <<"email", TRUE>>, <<"opening", TRUE>>, <<"quoted", TRUE>>}}

Tails ==
    {W(k, FALSE, <<>>, "glue") : k \in {"plain", "bearer", "key", "email", "closing"}}

Words == Numbers \cup Heads \cup Tails

First(S) == {w \in S : w.sep = "line"}

String(t) == [string |-> TRUE, text |-> t]

\* Texts of up to three words, and of four groups of digits.
Texts ==
    {<<a>> : a \in First(Words)}
      \cup {<<a, b>> : a \in First(Words), b \in Words}
      \cup {<<a, b, c>> : a \in First(Words), b \in Words, c \in Words}
      \cup {<<a, b, c, d>> : a \in First(Numbers), b \in Numbers, c \in Numbers, d \in Numbers}

Leaves == {[string |-> s, text |-> <<a>>] : s \in BOOLEAN, a \in First(Words)}

EveryDocument ==
    {<<String(t)>> : t \in Texts} \cup {<<a, b, c>> : a \in Leaves, b \in Leaves, c \in Leaves}

=============================================================================
