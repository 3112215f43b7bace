------------------------------- MODULE LineEdit -------------------------------
(***************************************************************************)
(* What a terminal's command line promises: a text of limited length that  *)
(* is overwritten at a position, and whose first two words are what is     *)
(* run.  Who has typed an argument gets that argument.                     *)
(***************************************************************************)
EXTENDS Naturals, Sequences

CONSTANTS Chars, SPACE, MaxText

VARIABLES text, pos, ran

lineVars == <<text, pos, ran>>

Init == text = <<>> /\ pos = 0 /\ ran = [cmd |-> <<>>, arg |-> <<>>]

\* A full line takes nothing, not even in place of something else.
Type(c) ==
    /\ Len(text) < MaxText
    /\ text' = IF pos = Len(text) THEN Append(text, c) ELSE [text EXCEPT ![pos + 1] = c]
    /\ pos' = pos + 1
    /\ UNCHANGED ran

\* Only the last character is erased, from behind it.
Backspace ==
    /\ pos = Len(text) /\ pos > 0
    /\ text' = SubSeq(text, 1, pos - 1)
    /\ pos' = pos - 1
    /\ UNCHANGED ran

Left == pos > 0 /\ pos' = pos - 1 /\ UNCHANGED <<text, ran>>

Right == pos < Len(text) /\ pos' = pos + 1 /\ UNCHANGED <<text, ran>>

Spaces == {i \in 1 .. Len(text) : text[i] = SPACE}

\* The last position of the word that begins at `from'.
WordEnd(from) ==
    IF \E i \in Spaces : i >= from
    THEN (CHOOSE i \in Spaces : i >= from /\ \A j \in Spaces : j >= from => i <= j) - 1
    ELSE Len(text)

Word1 == SubSeq(text, 1, WordEnd(1))

Word2 == SubSeq(text, WordEnd(1) + 2, WordEnd(WordEnd(1) + 2))

Enter ==
    /\ ran'.cmd = Word1
    /\ Spaces # {} => ran'.arg = Word2
    /\ text' = <<>> /\ pos' = 0

Next == (\E c \in Chars : Type(c)) \/ Backspace \/ Left \/ Right \/ Enter

Spec == Init /\ [][Next]_lineVars
=============================================================================
