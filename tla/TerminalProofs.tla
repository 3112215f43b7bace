---------------------------- MODULE TerminalProofs ----------------------------
(***************************************************************************)
(* Proofs about the first terminal: its ring of characters, with head and  *)
(* count, is a line that is edited, and what is on the screen is that line. *)
(*                                                                         *)
(* For the screen, the statements that the terminal and OUTPUT have yet to *)
(* do are part of the invariant: a prompt is to come, or a key's echo is,  *)
(* or the picture is complete.                                             *)
(***************************************************************************)
EXTENDS Terminal, WellFoundedInduction, TLAPS

Keys == UNION {KeysAt[n] : n \in 1 .. MaxKeys}

Early == {"hello", "key", "blank", "pause", "init"}

\* Nothing comes from the keyboard but keys, and the ENTER for a program.
KeyInv == /\ input.n \in Nat
          /\ {"key", "present", "n"} \subseteq DOMAIN input
          /\ input.key \in Keys \cup {NL, NoKey}
          /\ tty.last \in Keys \cup {NL, NoKey}

TtyFields ==
    {"pc", "todo", "buf", "head", "count", "child", "timer", "last", "ran", "fresh"}

\* The cursor is somewhere in the line or behind it, and the line leaves room
\* for the 0 behind it, which is there when the command is read.
IsLine(t) ==
    /\ DOMAIN t = TtyFields
    /\ DOMAIN t.buf = 0 .. TTY_BUFFER_NUM - 1
    /\ t.head \in Nat /\ t.count \in Nat
    /\ t.head <= t.count /\ t.count <= TTY_BUFFER_NUM - MARGIN
    /\ t.pc \in Early => t.count = 0
    /\ NUL \notin Keys => \A i \in 0 .. t.count - 1 : t.buf[i] # NUL
    /\ t.pc = "command" => t.buf[t.count] = NUL

Inv == KeyInv /\ IsLine(tty)

\* The line in tty.buf.
Line(t) == [i \in 1 .. t.count |-> t.buf[i - 1]]

-----------------------------------------------------------------------------
(* Where words end.                                                        *)

\* Every set of natural numbers that is not empty has a least element.
LEMMA LeastNumber ==
    ASSUME NEW T \in SUBSET Nat, T # {}
    PROVE  \E x \in T : \A y \in T : x <= y
<1> DEFINE R == {ss \in Nat \X Nat : ss[1] < ss[2]}
<1>1. IsWellFoundedOn(R, Nat)
  BY NatLessThanWellFounded, Zenon DEF OpToRel
<1>2. PICK x \in T : \A y \in T : ~ (<<y, x>> \in R)
  <2> HIDE DEF R
  <2> QED  BY <1>1, WFMin, Zenon
<1>3. \A y \in T : ~ (y < x)
  BY <1>2
<1> QED  BY <1>3

LEMMA MinIs ==
    ASSUME NEW T \in SUBSET Nat, NEW m \in T, \A y \in T : m <= y
    PROVE  Min(T) = m
<1>1. \A x \in T : (\A y \in T : x <= y) => x = m
  OBVIOUS
<1>2. Min(T) \in T /\ \A y \in T : Min(T) <= y
  BY Zenon DEF Min
<1> QED  BY <1>1, <1>2

\* n ends the word of buf that begins at i: buf[n] is the first end in the
\* memory from i on.
Ends(buf, i) == {j \in i .. TTY_BUFFER_NUM - 1 : buf[j] = NUL}

LEMMA StringIs ==
    ASSUME NEW buf, NEW i \in Nat, NEW e \in Nat,
           e \in Ends(buf, i), \A j \in Ends(buf, i) : e <= j
    PROVE  StringAt(buf, i) = [k \in 1 .. e - i |-> buf[i + k - 1]]
<1>1. Ends(buf, i) \in SUBSET Nat /\ Ends(buf, i) # {}
  BY TerminalAssumption DEF Ends
<1>2. Min(Ends(buf, i)) = e
  BY <1>1, MinIs
<1> QED  BY <1>1, <1>2 DEF StringAt, Ends

\* A word of the line that begins at a has its space, or the end of the line,
\* at e.
WordAt(a, e) ==
    /\ e \in a .. tty.count
    /\ e = tty.count \/ tty.buf[e] = SPACE
    /\ \A j \in a .. e - 1 : tty.buf[j] # SPACE

LEMMA WordEnds ==
    ASSUME IsLine(tty), NEW a \in 0 .. tty.count
    PROVE  \E e \in Nat : WordAt(a, e)
<1> DEFINE T == {j \in a .. tty.count : j = tty.count \/ tty.buf[j] = SPACE}
<1>1. T \in SUBSET Nat /\ tty.count \in T
  BY DEF IsLine
<1>2. PICK e \in T : \A y \in T : e <= y
  BY <1>1, LeastNumber
<1>3. WordAt(a, e)
  BY <1>2 DEF WordAt, IsLine
<1> QED  BY <1>1, <1>3

LEMMA SplitIs ==
    ASSUME IsLine(tty), NUL \notin Keys, tty.pc = "command"
    PROVE  Split = [i \in 0 .. TTY_BUFFER_NUM - 1 |->
                      IF i < tty.count /\ tty.buf[i] = SPACE THEN NUL ELSE tty.buf[i]]
<1> DEFINE T == {j \in DOMAIN tty.buf : tty.buf[j] = NUL}
<1>1. T \in SUBSET Nat /\ tty.count \in T /\ \A j \in T : tty.count <= j
  BY TerminalAssumption DEF IsLine
<1>2. Min(T) = tty.count
  <2> HIDE DEF T
  <2> QED  BY <1>1, MinIs
<1> QED  BY <1>2 DEF Split, IsLine

\* What str_replace() makes of the line is read word by word.
LEMMA WordRead ==
    ASSUME IsLine(tty), NUL \notin Keys, tty.pc = "command", NEW a \in Nat, NEW e \in Nat, WordAt(a, e)
    PROVE  StringAt(Split, a) = [k \in 1 .. e - a |-> tty.buf[a + k - 1]]
<1>1. e \in Ends(Split, a)
  BY SplitIs, TerminalAssumption DEF Ends, WordAt, IsLine
<1>2. \A j \in Ends(Split, a) : e <= j
  BY SplitIs, TerminalAssumption DEF Ends, WordAt, IsLine
<1>3. StringAt(Split, a) = [k \in 1 .. e - a |-> Split[a + k - 1]]
  BY <1>1, <1>2, StringIs
<1>4. \A k \in 1 .. e - a : Split[a + k - 1] = tty.buf[a + k - 1]
  BY SplitIs, TerminalAssumption DEF WordAt, IsLine
<1> QED  BY <1>3, <1>4

LEMMA WordPromised ==
    ASSUME IsLine(tty), NUL \notin Keys, tty.pc = "command", NEW a \in Nat, NEW e \in Nat, WordAt(a, e)
    PROVE  LE!WordEnd(a + 1) = e
<1> DEFINE S == {i \in 1 .. tty.count : tty.buf[i - 1] = SPACE}
<1>a. (IF tty.pc \in {"hello", "key", "blank", "pause", "init"} THEN <<>>
       ELSE [i \in 1 .. tty.count |-> tty.buf[i - 1]]) = Line(tty)
  BY DEF Line
<1>b. Len(Line(tty)) = tty.count
  BY DEF Line, IsLine
<1>c. LE!Spaces = S
  <2>1. \A i \in 1 .. tty.count : Line(tty)[i] = tty.buf[i - 1]
    BY DEF Line
  <2> QED  BY <1>a, <1>b, <2>1, Zenon DEF LE!Spaces
<1>1. LE!WordEnd(a + 1) =
        IF \E i \in S : i >= a + 1
        THEN (CHOOSE i \in S : i >= a + 1 /\ \A j \in S : j >= a + 1 => i <= j) - 1
        ELSE tty.count
  <2> HIDE DEF S
  <2>1. LE!WordEnd(a + 1) =
          IF \E i \in LE!Spaces : i >= a + 1
          THEN (CHOOSE i \in LE!Spaces : i >= a + 1
                                        /\ \A j \in LE!Spaces : j >= a + 1 => i <= j) - 1
          ELSE Len(IF tty.pc \in {"hello", "key", "blank", "pause", "init"} THEN <<>>
                   ELSE [i \in 1 .. tty.count |-> tty.buf[i - 1]])
    BY Zenon DEF LE!WordEnd
  <2>2. Len(IF tty.pc \in {"hello", "key", "blank", "pause", "init"} THEN <<>>
            ELSE [i \in 1 .. tty.count |-> tty.buf[i - 1]]) = tty.count
    BY <1>a, <1>b, Zenon
  <2> QED  BY <2>1, <2>2, <1>c, Zenon
<1>2. CASE e = tty.count
  <2>1. ~ \E i \in S : i >= a + 1
    BY <1>2 DEF WordAt, IsLine
  <2> QED  BY <1>1, <1>2, <2>1
<1>3. CASE e # tty.count
  <2>1. /\ e + 1 \in S /\ e + 1 >= a + 1
        /\ \A j \in S : j >= a + 1 => e + 1 <= j
    BY <1>3 DEF WordAt, IsLine
  <2>2. \A i \in S : i >= a + 1 /\ (\A j \in S : j >= a + 1 => i <= j) => i = e + 1
    BY <2>1
  <2>3. (CHOOSE i \in S : i >= a + 1 /\ \A j \in S : j >= a + 1 => i <= j) = e + 1
    <3> HIDE DEF S
    <3> QED  BY <2>1, <2>2, Zenon
  <2> QED  BY <1>1, <2>1, <2>3
<1> QED  BY <1>2, <1>3

LEMMA LineIs ==
    ASSUME IsLine(tty)
    PROVE  /\ Line(tty) \in Seq({tty.buf[i] : i \in 0 .. TTY_BUFFER_NUM - 1})
           /\ Len(Line(tty)) = tty.count
           /\ \A i \in 1 .. tty.count : Line(tty)[i] = tty.buf[i - 1]
<1> DEFINE S == {tty.buf[i] : i \in 0 .. TTY_BUFFER_NUM - 1}
           c == tty.count
<1>1. c \in Nat /\ c <= TTY_BUFFER_NUM
  BY TerminalAssumption DEF IsLine
<1>2. \A i \in 1 .. c : tty.buf[i - 1] \in S
  BY <1>1, TerminalAssumption
<1>3. Line(tty) = [i \in 1 .. c |-> tty.buf[i - 1]]
  BY DEF Line
<1> HIDE DEF S, c
<1>4. Line(tty) \in Seq(S) /\ Len(Line(tty)) = c
  BY <1>1, <1>2, <1>3
<1> QED  BY <1>3, <1>4 DEF S, c

\* The part of a sequence behind its first a elements, up to the e-th.
LEMMA SubSeqIs ==
    ASSUME NEW S, NEW s \in Seq(S), NEW a \in Nat, NEW e \in Nat, a < e, e <= Len(s)
    PROVE  /\ SubSeq(s, a + 1, e) \in Seq(S)
           /\ Len(SubSeq(s, a + 1, e)) = e - a
           /\ \A k \in 1 .. e - a : SubSeq(s, a + 1, e)[k] = s[a + k]
OBVIOUS

\* The part of the line from a on, up to before e.
LEMMA CutIs ==
    ASSUME IsLine(tty), NEW a \in Nat, NEW e \in Nat, a <= tty.count + 1, e <= tty.count
    PROVE  SubSeq(Line(tty), a + 1, e) = [k \in 1 .. e - a |-> tty.buf[a + k - 1]]
<1>1. CASE a < e
  <2> DEFINE S == {tty.buf[i] : i \in 0 .. TTY_BUFFER_NUM - 1}
  <2>1. /\ SubSeq(Line(tty), a + 1, e) \in Seq(S)
        /\ Len(SubSeq(Line(tty), a + 1, e)) = e - a
        /\ \A k \in 1 .. e - a : SubSeq(Line(tty), a + 1, e)[k] = Line(tty)[a + k]
    <3>1. Line(tty) \in Seq(S) /\ e <= Len(Line(tty))
      BY LineIs
    <3> HIDE DEF S
    <3> QED  BY <1>1, <3>1, SubSeqIs
  <2>2. \A k \in 1 .. e - a : Line(tty)[a + k] = tty.buf[a + k - 1]
    <3>1. \A k \in 1 .. e - a : a + k \in 1 .. tty.count
      BY <1>1 DEF IsLine
    <3> QED  BY <3>1, LineIs
  <2> DEFINE cut == SubSeq(Line(tty), a + 1, e)
             d   == e - a
  <2> HIDE DEF S, cut, d
  <2>3. cut \in Seq(S) /\ Len(cut) = d /\ \A k \in 1 .. d : cut[k] = tty.buf[a + k - 1]
    BY <2>1, <2>2 DEF cut, d
  <2>4. cut = [k \in 1 .. d |-> tty.buf[a + k - 1]]
    BY <2>3
  <2> QED  BY <2>4 DEF cut, d
<1>2. CASE ~(a < e)
  <2>1. SubSeq(Line(tty), a + 1, e) = <<>>
    BY <1>2, LineIs
  <2> QED  BY <2>1, <1>2
<1> QED  BY <1>1, <1>2

\* The command and its argument are the two words that were typed.
LEMMA WordsMatch ==
    ASSUME IsLine(tty), NUL \notin Keys, tty.pc = "command", NEW cmd, NEW arg,
           cmd = StringAt(Split, 0), arg = StringAt(Split, Len(cmd) + 1)
    PROVE  cmd = LE!Word1 /\ (LE!Spaces # {} => arg = LE!Word2)
<1>0. PICK f \in Nat : WordAt(0, f)
  BY WordEnds DEF IsLine
<1>a. /\ f <= tty.count /\ tty.count \in Nat
      /\ (IF tty.pc \in {"hello", "key", "blank", "pause", "init"} THEN <<>>
          ELSE [i \in 1 .. tty.count |-> tty.buf[i - 1]]) = Line(tty)
  BY <1>0 DEF WordAt, IsLine, Line
<1>1. /\ cmd = [k \in 1 .. f |-> tty.buf[k - 1]] /\ Len(cmd) = f
  <2>1. cmd = [k \in 1 .. f - 0 |-> tty.buf[0 + k - 1]]
    BY <1>0, WordRead
  <2> QED  BY <2>1
<1>2. LE!WordEnd(1) = f
  <2>1. LE!WordEnd(0 + 1) = f
    BY <1>0, WordPromised, Zenon
  <2> QED  BY <2>1
<1>3. LE!Word1 = SubSeq(Line(tty), 1, f)
  BY <1>a, <1>2, Zenon DEF LE!Word1
<1>4. cmd = LE!Word1
  <2>1. SubSeq(Line(tty), 0 + 1, f) = [k \in 1 .. f - 0 |-> tty.buf[0 + k - 1]]
    BY <1>a, CutIs
  <2> QED  BY <1>1, <1>3, <2>1
<1>5. ASSUME LE!Spaces # {} PROVE arg = LE!Word2
  <2>1. f < tty.count
    <3>1. PICK i \in 1 .. Len(Line(tty)) : Line(tty)[i] = SPACE
      BY <1>5, <1>a, Zenon DEF LE!Spaces
    <3>2. i \in 1 .. tty.count /\ tty.buf[i - 1] = SPACE
      BY <3>1, LineIs
    <3> QED  BY <1>0, <1>a, <3>2 DEF WordAt
  <2>2. PICK g \in Nat : WordAt(f + 1, g)
    BY WordEnds, <2>1, <1>a
  <2>3. LE!WordEnd(f + 2) = g
    <3>1. LE!WordEnd((f + 1) + 1) = g
      BY <2>2, <1>a, WordPromised
    <3> QED  BY <3>1
  <2>4. LE!Word2 = SubSeq(Line(tty), f + 2, g)
    BY <1>a, <1>2, <2>3, Zenon DEF LE!Word2
  <2>5. arg = [k \in 1 .. g - (f + 1) |-> tty.buf[(f + 1) + k - 1]]
    <3>1. arg = StringAt(Split, f + 1)
      BY <1>1, Zenon
    <3>2. f + 1 \in Nat
      BY <1>a
    <3> QED  BY <3>1, <3>2, <2>2, WordRead
  <2>6. SubSeq(Line(tty), (f + 1) + 1, g) = [k \in 1 .. g - (f + 1) |-> tty.buf[(f + 1) + k - 1]]
    BY <1>a, <2>1, <2>2, CutIs DEF WordAt
  <2>7. SubSeq(Line(tty), f + 2, g) = SubSeq(Line(tty), (f + 1) + 1, g)
    BY <1>a
  <2> QED  BY <2>4, <2>5, <2>6, <2>7, Zenon
<1> QED  BY <1>4, <1>5

-----------------------------------------------------------------------------
(* The invariant.                                                          *)

LEMMA InitInv == Init => Inv
BY TerminalAssumption
   DEF Init, Inv, KeyInv, IsLine, TtyFields, Early, Blanks

\* The line of u is that of t, edited by one key at most.
SameLine(t, u) == /\ u.count = t.count
                  /\ \A i \in 0 .. t.count - 1 : u.buf[i] = t.buf[i]
                  /\ \/ u.head = t.head
                     \/ t.head > 0 /\ u.head = t.head - 1
                     \/ t.head < t.count /\ u.head = t.head + 1

Typed(t, u) == /\ t.count < TTY_BUFFER_NUM - MARGIN
               /\ u.head = t.head + 1
               /\ u.count = IF t.head = t.count THEN t.count + 1 ELSE t.count
               /\ \E c \in Keys : \A i \in 0 .. u.count - 1 :
                     u.buf[i] = IF i = t.head THEN c ELSE t.buf[i]

Erased(t, u) == /\ t.head = t.count /\ t.head > 0
                /\ u.head = t.head - 1 /\ u.count = t.count - 1
                /\ \A i \in 0 .. u.count - 1 : u.buf[i] = t.buf[i]

Edited(t, u) == /\ u.ran = t.ran /\ u.pc \notin Early /\ t.pc \notin Early
                /\ SameLine(t, u) \/ Typed(t, u) \/ Erased(t, u)

\* Remainders of numbers below the size of the ring.
LEMMA NoWrap ==
    ASSUME IsLine(tty)
    PROVE  /\ tty.head % TTY_BUFFER_NUM = tty.head
           /\ tty.count % TTY_BUFFER_NUM = tty.count
           /\ tty.head > 0 => ((tty.head - 1) % TTY_BUFFER_NUM) = tty.head - 1
           /\ tty.head + 1 < TTY_BUFFER_NUM => ((tty.head + 1) % TTY_BUFFER_NUM) = tty.head + 1
<1>1. \A x \in 0 .. TTY_BUFFER_NUM - 1 : x % TTY_BUFFER_NUM = x
  BY TerminalAssumption
<1>2. /\ tty.head \in Nat /\ tty.count \in Nat
      /\ tty.head <= tty.count /\ tty.count + 1 <= TTY_BUFFER_NUM
      /\ TTY_BUFFER_NUM \in Nat
  BY TerminalAssumption DEF IsLine
<1>3. tty.head \in 0 .. TTY_BUFFER_NUM - 1 /\ tty.count \in 0 .. TTY_BUFFER_NUM - 1
  BY <1>2
<1>4. tty.head > 0 => tty.head - 1 \in 0 .. TTY_BUFFER_NUM - 1
  BY <1>2
<1>5. tty.head + 1 < TTY_BUFFER_NUM => tty.head + 1 \in 0 .. TTY_BUFFER_NUM - 1
  BY <1>2
<1> QED  BY <1>1, <1>3, <1>4, <1>5

LEMMA EnterEdits ==
    ASSUME IsLine(tty), tty.pc = "main", NEW t, t = Enter
    PROVE  IsLine(t) /\ Edited(tty, t)
<1>1. /\ DOMAIN t = TtyFields /\ t.pc = "command" /\ t.ran = tty.ran
      /\ t.head = tty.head /\ t.count = tty.count
      /\ t.buf = [tty.buf EXCEPT ![tty.count] = NUL]
  BY NoWrap DEF Enter, IsLine, TtyFields
<1> QED  BY <1>1, TerminalAssumption DEF IsLine, Edited, SameLine, Early

LEMMA TypeEdits ==
    ASSUME IsLine(tty), tty.pc = "main", NEW c \in Keys, NEW t, t = TypeChar(c)
    PROVE  IsLine(t) /\ Edited(tty, t)
<1>1. CASE tty.count < TTY_BUFFER_NUM - MARGIN
  <2>0. tty.head + 1 < TTY_BUFFER_NUM
    BY <1>1, TerminalAssumption DEF IsLine
  <2>1. /\ DOMAIN t = TtyFields /\ t.pc = "main" /\ t.ran = tty.ran
        /\ t.head = tty.head + 1
        /\ t.count = IF tty.head = tty.count THEN tty.count + 1 ELSE tty.count
        /\ t.buf = [tty.buf EXCEPT ![tty.head] = c]
    BY <1>1, <2>0, NoWrap DEF TypeChar, AtEnd, IsLine, TtyFields
  <2> QED  BY <1>1, <2>1, TerminalAssumption DEF IsLine, Edited, Typed, Early
<1>2. CASE ~(tty.count < TTY_BUFFER_NUM - MARGIN)
  BY <1>2 DEF TypeChar, Ignore, Edited, SameLine, Early
<1> QED  BY <1>1, <1>2

LEMMA BackspaceEdits ==
    ASSUME IsLine(tty), tty.pc = "main", NEW t, t = Backspace
    PROVE  IsLine(t) /\ Edited(tty, t)
<1>1. CASE Erasable
  <2>1. /\ DOMAIN t = TtyFields /\ t.pc = "main" /\ t.ran = tty.ran /\ t.buf = tty.buf
        /\ tty.head = tty.count /\ tty.head > 0
        /\ t.head = tty.head - 1 /\ t.count = tty.count - 1
    BY <1>1, NoWrap DEF Backspace, Erasable, AtEnd, IsLine, TtyFields
  <2> QED  BY <2>1, TerminalAssumption DEF IsLine, Edited, Erased, Early
<1>2. CASE ~Erasable
  <2>1. /\ DOMAIN t = TtyFields /\ t.pc = "main" /\ t.ran = tty.ran /\ t.buf = tty.buf
        /\ t.head = tty.head /\ t.count = tty.count
    BY <1>2 DEF Backspace, IsLine, TtyFields
  <2> QED  BY <2>1 DEF IsLine, Edited, SameLine, Early
<1> QED  BY <1>1, <1>2

LEMMA CursorEdits ==
    ASSUME IsLine(tty), tty.pc = "main", NEW t, t = CursorLeft \/ t = CursorRight
    PROVE  IsLine(t) /\ Edited(tty, t)
<1>1. CASE t = tty
  BY <1>1 DEF Edited, SameLine, Early
<1>2. CASE t = CursorLeft /\ t # tty
  <2>1. /\ DOMAIN t = TtyFields /\ t.pc = "main" /\ t.ran = tty.ran /\ t.buf = tty.buf
        /\ t.count = tty.count /\ tty.head > 0 /\ t.head = tty.head - 1
    BY <1>2, NoWrap DEF CursorLeft, Ignore, IsLine, TtyFields
  <2> QED  BY <2>1, TerminalAssumption DEF IsLine, Edited, SameLine, Early
<1>3. CASE t = CursorRight /\ t # tty
  <2>1. tty.head < tty.count /\ tty.head + 1 < TTY_BUFFER_NUM
    <3>1. tty.head < tty.count
      <4>1. tty.head % TTY_BUFFER_NUM < tty.count
        BY <1>3, Zenon DEF CursorRight, Ignore
      <4> QED  BY <4>1, NoWrap
    <3> QED  BY <3>1, TerminalAssumption DEF IsLine
  <2>2. /\ DOMAIN t = TtyFields /\ t.pc = "main" /\ t.ran = tty.ran /\ t.buf = tty.buf
        /\ t.count = tty.count /\ t.head = tty.head + 1
    BY <1>3, <2>1, NoWrap DEF CursorRight, Ignore, IsLine, TtyFields
  <2> QED  BY <2>1, <2>2, TerminalAssumption DEF IsLine, Edited, SameLine, Early
<1> QED  BY <1>1, <1>2, <1>3

LEMMA HandledIs ==
    ASSUME NEW key \in Keys \cup {NL, NoKey}
    PROVE  \/ Handled(key) \in {Enter, Backspace, CursorLeft, CursorRight, tty}
           \/ key \in Keys /\ key # NL /\ Handled(key) = TypeChar(key)
           \/ \E do \in {<<Step("screen")>>, <<Step("up"), Step("screen")>>,
                        <<Step("scroll"), Step("screen")>>} :
                 Handled(key) = [tty EXCEPT !.todo = do]
<1> DEFINE screen == <<Step("screen")>>
           up == <<Step("up"), Step("screen")>>
           scroll == <<Step("scroll"), Step("screen")>>
           t == Handled(key)
<1>1. \/ t \in {Enter, Backspace, CursorLeft, CursorRight, tty}
      \/ key \in Keys /\ key # NL /\ t = TypeChar(key)
      \/ t = [tty EXCEPT !.todo = screen]
      \/ t = [tty EXCEPT !.todo = up]
      \/ t = [tty EXCEPT !.todo = scroll]
  BY SMT DEF Handled, Ignore, Screen
<1> HIDE DEF screen, up, scroll, t
<1>2. \/ t \in {Enter, Backspace, CursorLeft, CursorRight, tty}
      \/ key \in Keys /\ key # NL /\ t = TypeChar(key)
      \/ \E do \in {screen, up, scroll} : t = [tty EXCEPT !.todo = do]
  BY <1>1, Zenon
<1> QED  BY <1>2 DEF screen, up, scroll, t

LEMMA KeyEdits ==
    ASSUME IsLine(tty), tty.pc = "main",
           NEW key \in Keys \cup {NL, NoKey}, NEW t, t = Handled(key)
    PROVE  IsLine(t) /\ Edited(tty, t)
<1>1. ASSUME NEW do, t = [tty EXCEPT !.todo = do]
      PROVE  IsLine(t) /\ Edited(tty, t)
  <2>1. /\ DOMAIN t = TtyFields /\ t.pc = "main" /\ t.ran = tty.ran /\ t.buf = tty.buf
        /\ t.head = tty.head /\ t.count = tty.count
    BY <1>1 DEF IsLine, TtyFields
  <2> QED  BY <2>1 DEF IsLine, Edited, SameLine, Early
<1>2. CASE t = tty
  BY <1>2 DEF Edited, SameLine, Early
<1>3. \/ t \in {Enter, Backspace, CursorLeft, CursorRight, tty}
      \/ key \in Keys /\ t = TypeChar(key)
      \/ \E do \in {<<Step("screen")>>, <<Step("up"), Step("screen")>>,
                   <<Step("scroll"), Step("screen")>>} : t = [tty EXCEPT !.todo = do]
  BY HandledIs, Zenon
<1> QED  BY <1>1, <1>2, <1>3, EnterEdits, BackspaceEdits, CursorEdits, TypeEdits

-----------------------------------------------------------------------------
(* Steps of the terminal as steps of the line.                             *)

\* What LineEdit's text stands for.
Text(t) == IF t.pc \in {"hello", "key", "blank", "pause", "init"} THEN <<>>
           ELSE [i \in 1 .. t.count |-> t.buf[i - 1]]

LEMMA TextIs ==
    ASSUME IsLine(tty)
    PROVE  Text(tty) = Line(tty)
BY DEF Text, Line, IsLine, Early

LEMMA EditMaps ==
    ASSUME IsLine(tty), IsLine(tty'), Edited(tty, tty')
    PROVE  [LE!Next]_(LE!lineVars)
<1>1. Text(tty) = Line(tty) /\ Text(tty') = Line(tty') /\ tty'.ran = tty.ran
  BY DEF Text, Line, Edited, Early
<1>2. CASE SameLine(tty, tty')
  <2>1. Text(tty') = Text(tty)
    BY <1>1, <1>2 DEF SameLine, Line, IsLine
  <2>2. Len(Text(tty)) = tty.count
    BY <1>1, LineIs
  <2>3. CASE tty'.head = tty.head
    BY <1>1, <2>1, <2>3 DEF LE!lineVars, Text
  <2>4. CASE tty.head > 0 /\ tty'.head = tty.head - 1
    <3>1. LE!Left
      BY <1>1, <2>1, <2>4 DEF LE!Left, Text
    <3> QED  BY <3>1 DEF LE!Next
  <2>5. CASE tty.head < tty.count /\ tty'.head = tty.head + 1
    <3>1. LE!Right
      BY <1>1, <2>1, <2>2, <2>5 DEF LE!Right, Text
    <3> QED  BY <3>1 DEF LE!Next
  <2> QED  BY <1>2, <2>3, <2>4, <2>5 DEF SameLine
<1>3. CASE Typed(tty, tty')
  <2>1. PICK c \in Keys : \A i \in 0 .. tty'.count - 1 :
           tty'.buf[i] = IF i = tty.head THEN c ELSE tty.buf[i]
    BY <1>3 DEF Typed
  <2>2. /\ Len(Text(tty)) = tty.count
        /\ Text(tty') = IF tty.head = tty.count THEN Append(Text(tty), c)
                        ELSE [Text(tty) EXCEPT ![tty.head + 1] = c]
    <3> DEFINE n == tty.count
               old == Line(tty)
               new == Line(tty')
    <3>1. n \in Nat /\ tty.head \in Nat /\ tty.head <= n /\ Len(old) = n
      BY LineIs DEF IsLine
    <3>2. PICK S : old \in Seq(S) /\ c \in S
      <4> DEFINE T == {tty.buf[i] : i \in 0 .. TTY_BUFFER_NUM - 1}
      <4>1. old \in Seq(T)
        BY LineIs
      <4>2. old \in Seq(T \cup {c})
        <5> HIDE DEF T, old
        <5> QED  BY <4>1
      <4> QED  BY <4>2, Zenon
    <3>3. \A i \in 1 .. n : old[i] = tty.buf[i - 1]
      BY LineIs
    <3>4. new = [i \in 1 .. tty'.count |-> IF i - 1 = tty.head THEN c ELSE tty.buf[i - 1]]
      BY <2>1, <1>3, <3>1 DEF Line, Typed
    <3>5. CASE tty.head = n
      <4>1. new = [i \in 1 .. n + 1 |-> IF i = n + 1 THEN c ELSE old[i]]
        BY <3>1, <3>3, <3>4, <3>5, <1>3 DEF Typed
      <4> HIDE DEF n, old, new
      <4> DEFINE longer == Append(old, c)
      <4>a. /\ longer \in Seq(S) /\ Len(longer) = n + 1
            /\ \A i \in 1 .. n + 1 : longer[i] = IF i = n + 1 THEN c ELSE old[i]
        BY <3>1, <3>2
      <4>b. longer = [i \in 1 .. n + 1 |-> longer[i]]
        <5> HIDE DEF longer
        <5> QED  BY <4>a
      <4>2. new = Append(old, c)
        BY <4>1, <4>a, <4>b
      <4> QED  BY <1>1, <3>1, <3>5, <4>2 DEF n, old, new
    <3>6. CASE tty.head # n
      <4>1. new = [i \in 1 .. n |-> IF i = tty.head + 1 THEN c ELSE old[i]]
        BY <3>1, <3>3, <3>4, <3>6, <1>3 DEF Typed
      <4>2. DOMAIN old = 1 .. n
        BY DEF Line
      <4>3. new = [old EXCEPT ![tty.head + 1] = c]
        <5> HIDE DEF n, old, new
        <5> QED  BY <3>1, <4>1, <4>2
      <4> QED  BY <1>1, <3>1, <3>6, <4>3
    <3> QED  BY <3>5, <3>6
  <2>3. LE!Type(c)
    BY <1>1, <1>3, <2>2 DEF LE!Type, Text, Typed
  <2>4. c \in UNION {KeysAt[n] : n \in 1 .. MaxKeys}
    BY DEF Keys
  <2> QED  BY <2>3, <2>4 DEF LE!Next
<1>4. CASE Erased(tty, tty')
  <2>1. /\ Len(Text(tty)) = tty.count
        /\ Text(tty') = SubSeq(Text(tty), 1, tty.head - 1)
    <3>1. SubSeq(Line(tty), 0 + 1, tty.head - 1)
             = [k \in 1 .. (tty.head - 1) - 0 |-> tty.buf[0 + k - 1]]
      <4>1. /\ tty.head - 1 \in Nat /\ tty.head - 1 <= tty.count /\ 0 \in Nat
            /\ 0 <= tty.count + 1
        BY <1>4 DEF Erased, IsLine
      <4> QED  BY <4>1, CutIs
    <3>2. Line(tty') = [k \in 1 .. tty.head - 1 |-> tty.buf[k - 1]]
      BY <1>4 DEF Line, Erased, IsLine
    <3> QED  BY <1>1, <3>1, <3>2, LineIs DEF Erased, IsLine
  <2>2. LE!Backspace
    BY <1>1, <1>4, <2>1 DEF LE!Backspace, Text, Erased
  <2> QED  BY <2>2 DEF LE!Next
<1> QED  BY <1>2, <1>3, <1>4 DEF Edited

\* A step that leaves the line alone.
Kept(t, u) == /\ u.head = t.head /\ u.count = t.count /\ u.buf = t.buf
              /\ u.ran = t.ran /\ DOMAIN u = TtyFields
              /\ u.pc \in Early <=> t.pc \in Early
              /\ u.pc = "command" => t.pc = "command"

LEMMA KeptMaps ==
    ASSUME IsLine(tty), Kept(tty, tty')
    PROVE  IsLine(tty') /\ UNCHANGED (LE!lineVars)
<1>1. IsLine(tty')
  BY DEF Kept, IsLine
<1>2. Text(tty') = Text(tty)
  BY DEF Kept, Text, Early
<1> QED  BY <1>1, <1>2 DEF Kept, LE!lineVars, Text

\* The terminal when a command has been read.
Ran == LET cmd == StringAt(Split, 0)
       IN  [tty EXCEPT !.buf = Split, !.head = 0, !.count = 0, !.pc = "main",
                       !.ran = [cmd |-> cmd, arg |-> StringAt(Split, Len(cmd) + 1)]]

LEMMA RanIs ==
    ASSUME IsLine(tty)
    PROVE  /\ DOMAIN Ran = TtyFields /\ Ran.buf = Split /\ Ran.head = 0 /\ Ran.count = 0
           /\ Ran.ran.cmd = StringAt(Split, 0)
           /\ Ran.ran.arg = StringAt(Split, Len(StringAt(Split, 0)) + 1)
           /\ Ran.pc = "main" /\ Ran.last = tty.last /\ Ran.todo = tty.todo
           /\ Ran.child = tty.child /\ Ran.fresh = tty.fresh /\ Ran.timer = tty.timer
BY DEF Ran, IsLine, TtyFields

LEMMA CommandIs ==
    ASSUME Command
    PROVE  /\ tty.pc = "command" /\ tty.todo = <<>> /\ UNCHANGED <<input, child, consoleVars>>
           /\ \/ tty' = [Ran EXCEPT !.pc = "answer"]
              \/ tty.timer = "off" /\ tty' = [Ran EXCEPT !.pc = "load"]
              \/ \E s \in {Prompt, Listing \o Prompt} : tty' = Shows(Ran, s)
              \/ tty' = Shows([Ran EXCEPT !.todo = Clear], Prompt)
BY Zenon DEF Command, Ran

LEMMA CommandMaps ==
    ASSUME IsLine(tty), Command
    PROVE  IsLine(tty') /\ tty'.last = tty.last /\ (NUL \notin Keys => LE!Enter)
<1> DEFINE cmd == StringAt(Split, 0)
           arg == StringAt(Split, Len(cmd) + 1)
<1>1. /\ tty.pc = "command" /\ DOMAIN tty' = TtyFields
      /\ tty'.buf = Split /\ tty'.head = 0 /\ tty'.count = 0
      /\ tty'.ran.cmd = cmd /\ tty'.ran.arg = arg
      /\ tty'.pc \in {"main", "answer", "load"} /\ tty'.last = tty.last
  <2> HIDE DEF cmd, arg
  <2> QED  BY CommandIs, RanIs DEF Shows, TtyFields, cmd, arg
<1>2. IsLine(tty')
  <2>1. DOMAIN tty'.buf = DOMAIN tty.buf
    BY <1>1 DEF Split
  <2> QED  BY <1>1, <2>1, TerminalAssumption DEF IsLine, Early
<1>3. NUL \notin Keys => cmd = LE!Word1 /\ (LE!Spaces # {} => arg = LE!Word2)
  BY <1>1, WordsMatch DEF cmd, arg
<1>4. Text(tty') = <<>> /\ tty'.head = 0
  BY <1>1 DEF Text
<1> QED  BY <1>1, <1>2, <1>3, <1>4 DEF LE!Enter, Text

\* The late timer has a key handled once more, or is not noticed.
LEMMA LateIs ==
    ASSUME Inv, LateTimer
    PROVE  /\ tty.timer = "armed" /\ UNCHANGED <<input, child, consoleVars>>
           /\ \/ /\ Receives
                 /\ \E key \in Keys \cup {NL, NoKey} :
                       tty' = [Handled(key) EXCEPT !.timer = "off", !.last = NoKey]
              \/ /\ tty.pc \in {"init", "main", "command", "answer"} /\ ~Receives
                 /\ tty' = [tty EXCEPT !.timer = "off", !.last = NoKey]
<1>1. (IF tty.last = NoKey THEN KeysAt[1] \union {NoKey} ELSE {tty.last})
         \subseteq Keys \cup {NL, NoKey}
  BY TerminalAssumption DEF Inv, KeyInv, Keys
<1> QED  BY <1>1, Zenon DEF LateTimer

\* Every step keeps the invariant, and is a step of the line or none.
LEMMA StepMaps ==
    ASSUME Inv, [Next]_vars
    PROVE  IsLine(tty') /\ (NUL \notin Keys => [LE!Next]_(LE!lineVars))
<1> USE DEF Inv
<1>1. CASE Kept(tty, tty')
  BY <1>1, KeptMaps
<1>2. CASE UNCHANGED vars \/ UNCHANGED tty
  BY <1>2, <1>1 DEF vars, ttyVars, Kept, IsLine
<1>3. CASE Welcome
  <2>1. CASE Draws("hello", "key") \/ Draws("blank", "pause") \/ AnyKey \/ Pause
    <3>1. Kept(tty, tty')
      BY <2>1 DEF Draws, AnyKey, Pause, Kept, IsLine, TtyFields, Early
    <3> QED  BY <3>1, <1>1
  <2>2. CASE terminal_init
    <3>1. /\ DOMAIN tty' = TtyFields /\ tty.pc = "init" /\ tty'.pc = "main"
          /\ tty'.head = 0 /\ tty'.count = 0 /\ tty'.buf = tty.buf /\ tty'.ran = tty.ran
      BY <2>2 DEF terminal_init, Shows, IsLine, TtyFields
    <3>2. IsLine(tty') /\ tty.head = 0
      BY <3>1, TerminalAssumption DEF IsLine, Early
    <3>3. Text(tty) = <<>> /\ Text(tty') = <<>>
      BY <3>1 DEF Text
    <3> QED  BY <3>1, <3>2, <3>3 DEF LE!lineVars, Text
  <2> QED  BY <1>3, <2>1, <2>2 DEF Welcome
<1>4. CASE Show
  BY <1>1, <1>4 DEF Show, Kept, IsLine, TtyFields
<1>5. ASSUME NEW key \in Keys \cup {NL, NoKey}, tty.pc = "main", NEW t, t = Handled(key),
             NEW timer, NEW last,
             \/ tty' = [t EXCEPT !.last = last]
             \/ tty' = [t EXCEPT !.timer = timer, !.last = last]
      PROVE  IsLine(tty') /\ [LE!Next]_(LE!lineVars)
  <2>1. IsLine(t) /\ Edited(tty, t)
    BY <1>5, KeyEdits
  <2>2. /\ tty'.head = t.head /\ tty'.count = t.count /\ tty'.buf = t.buf
        /\ tty'.pc = t.pc /\ tty'.ran = t.ran /\ DOMAIN tty' = TtyFields
    BY <1>5, <2>1 DEF IsLine, TtyFields
  <2>3. IsLine(tty')
    BY <2>1, <2>2 DEF IsLine
  <2>4. Edited(tty, tty')
    BY <2>1, <2>2 DEF Edited, SameLine, Typed, Erased
  <2> QED  BY <2>3, <2>4, EditMaps
<1>6. CASE ReceiveKey
  <2>1. CASE tty.child
    <3>1. Kept(tty, tty')
      BY <1>6, <2>1 DEF ReceiveKey, Receives, Kept, IsLine, TtyFields, Early
    <3> QED  BY <3>1, <1>1
  <2>2. CASE ~tty.child
    <3> DEFINE last == IF tty.timer = "armed" THEN input.key ELSE NoKey
    <3>1. tty' = [Handled(input.key) EXCEPT !.last = last] /\ tty.pc = "main"
      BY <1>6, <2>2, Zenon DEF ReceiveKey, Receives
    <3>2. input.key \in Keys \cup {NL, NoKey}
      BY DEF KeyInv
    <3> HIDE DEF last
    <3> QED  BY <3>1, <3>2, <1>5
  <2> QED  BY <2>1, <2>2
<1>7. CASE LateTimer
  <2>1. ASSUME Receives, NEW key \in Keys \cup {NL, NoKey},
               tty' = [Handled(key) EXCEPT !.timer = "off", !.last = NoKey]
        PROVE  IsLine(tty') /\ (NUL \notin Keys => [LE!Next]_(LE!lineVars))
    BY <1>5, <2>1 DEF Receives
  <2>2. CASE /\ tty.pc \in {"init", "main", "command", "answer"}
             /\ tty' = [tty EXCEPT !.timer = "off", !.last = NoKey]
    <3>1. Kept(tty, tty')
      BY <2>2 DEF Kept, IsLine, TtyFields, Early
    <3> QED  BY <3>1, <1>1
  <2> QED  BY <1>7, <2>1, <2>2, LateIs
<1>8. CASE Command
  BY <1>8, CommandMaps DEF LE!Next
<1>9. CASE Servers \/ ProgramStep
  <2>1. CASE UNCHANGED tty
    BY <2>1, <1>2
  <2>2. CASE tty' # tty
    <3>1. Kept(tty, tty')
      BY <1>9, <2>2
         DEF Servers, Answer, Load, Loaded, ProgramStep, ProgramSends, ProgramReceives,
             ProgramExits, Receives, Shows, Kept, IsLine, TtyFields, Early
    <3> QED  BY <3>1, <1>1
  <2> QED  BY <2>1, <2>2
<1>10. CASE Output \/ \E key \in (IF tty.child THEN {NL} ELSE KeysAt[input.n + 1]) : Press(key)
  BY <1>10, <1>2 DEF Output, Press, ttyVars
<1> QED  BY <1>2, <1>3, <1>4, <1>6, <1>7, <1>8, <1>9, <1>10 DEF Next, TerminalStep

LEMMA KeysKept ==
    ASSUME Inv, [Next]_vars
    PROVE  KeyInv'
<1> DEFINE Known == Keys \cup {NL, NoKey}
<1> USE DEF Inv
<1>1. ASSUME tty'.last \in Known, UNCHANGED input PROVE KeyInv'
  BY <1>1 DEF KeyInv
<1>2. CASE UNCHANGED vars \/ Output
  BY <1>1, <1>2 DEF vars, ttyVars, Output, KeyInv
<1>3. ASSUME NEW key \in (IF tty.child THEN {NL} ELSE KeysAt[input.n + 1]), Press(key)
      PROVE  KeyInv'
  <2>1. key \in Known
    BY <1>3, TerminalAssumption DEF Press, Keys, KeyInv
  <2> QED  BY <1>3, <2>1 DEF Press, KeyInv
<1>4. ASSUME Taken, tty'.last \in Known PROVE KeyInv'
  BY <1>4 DEF Taken, KeyInv
<1>5. CASE Welcome \/ Show \/ Command \/ Servers \/ ProgramStep
  <2>1. tty'.last = tty.last
    <3>1. CASE Welcome
      BY <3>1 DEF Welcome, Draws, AnyKey, Pause, terminal_init, Shows, IsLine, TtyFields
    <3>2. CASE Command
      BY <3>2, CommandMaps
    <3>3. CASE Show \/ Servers
      BY <3>3 DEF Show, Servers, Answer, Load, Loaded, Shows, IsLine, TtyFields
    <3>4. CASE ProgramStep
      BY <3>4 DEF ProgramStep, ProgramSends, ProgramReceives, ProgramExits, Shows,
                  IsLine, TtyFields
    <3> QED  BY <1>5, <3>1, <3>2, <3>3, <3>4
  <2>2. Taken \/ UNCHANGED input
    BY <1>5 DEF Welcome, Draws, AnyKey, Pause, terminal_init, Show, Command, Servers, Answer,
                Load, Loaded, ProgramStep, ProgramSends, ProgramReceives, ProgramExits
  <2> QED  BY <1>1, <1>4, <2>1, <2>2 DEF KeyInv
<1>6. CASE ReceiveKey \/ LateTimer
  <2>1. tty'.last \in Known
    <3>1. CASE ReceiveKey /\ tty.child
      BY <3>1 DEF ReceiveKey, KeyInv, IsLine, TtyFields
    <3>2. CASE ReceiveKey /\ ~tty.child
      <4>1. PICK last \in Known : tty' = [Handled(input.key) EXCEPT !.last = last]
        BY <3>2 DEF ReceiveKey, KeyInv
      <4>2. DOMAIN Handled(input.key) = TtyFields
        BY <3>2, KeyEdits DEF ReceiveKey, Receives, KeyInv, IsLine
      <4> QED  BY <4>1, <4>2 DEF TtyFields
    <3>3. CASE LateTimer
      <4>1. CASE tty' = [tty EXCEPT !.timer = "off", !.last = NoKey]
        BY <4>1 DEF IsLine, TtyFields
      <4>2. ASSUME Receives, NEW key \in Keys \cup {NL, NoKey},
                   tty' = [Handled(key) EXCEPT !.timer = "off", !.last = NoKey]
            PROVE  tty'.last \in Known
        <5>1. DOMAIN Handled(key) = TtyFields
          BY <4>2, KeyEdits DEF IsLine, Receives
        <5> QED  BY <4>2, <5>1 DEF TtyFields
      <4> QED  BY <3>3, <4>1, <4>2, LateIs
    <3> QED  BY <1>6, <3>1, <3>2, <3>3
  <2> QED  BY <1>1, <1>4, <1>6, <2>1 DEF ReceiveKey, LateTimer
<1> QED  BY <1>2, <1>3, <1>5, <1>6 DEF Next, TerminalStep

\* The terminal's ring, with head and count, is a line that is edited, and a
\* command is run with the words that were typed, for any size of the ring, any
\* keys that stand for characters, and whatever comes late: a key without a
\* character types the 0 that ends a string.
THEOREM LineIsEdited ==
    ASSUME NUL \notin Keys PROVE Spec => ImplementsLineEdit
<1>1. Inv /\ [Next]_vars => Inv' /\ [LE!Next]_(LE!lineVars)
  <2> SUFFICES ASSUME Inv, [Next]_vars PROVE Inv' /\ [LE!Next]_(LE!lineVars)
    OBVIOUS
  <2> QED  BY StepMaps, KeysKept DEF Inv
<1>2. Init => LE!Init
  BY DEF Init, LE!Init
<1> QED  BY <1>1, <1>2, InitInv, PTL DEF Spec, ImplementsLineEdit, LE!Spec

-----------------------------------------------------------------------------
(* The screen: what is on it, with the statements still to come.           *)

\* The cursor is in the memory that is followed: nothing in the code keeps it
\* from running out of it.
InMemory == console.cursor \in 0 .. CELLS - 1

IsSeq(s) == s \in Seq(Range(s))

\* A cell for the cursor, and one where the screen begins.
IsPlace(x) == x = [cursor |-> x.cursor, start |-> x.start]

ScreenFields ==
    /\ IsPlace(console) /\ IsPlace(crt)
    /\ DOMAIN video = 0 .. 2 * CELLS - 1
    /\ DOMAIN out = {"todo", "owner", "pos"}
    /\ DOMAIN child = {"pc", "at"} /\ child.at \in Nat
    /\ IsSeq(tty.todo) /\ IsSeq(out.todo)

\* The screen begins where the record says, or will.
Pending(todo) == \E i \in DOMAIN todo : todo[i].do = "screen"

Balanced(todo) ==
    \A i \in DOMAIN todo :
       todo[i].do \in {"top", "up", "scroll"} => \E j \in DOMAIN todo : j > i /\ todo[j].do = "screen"

StartInv == /\ Balanced(tty.todo) /\ Balanced(out.todo)
            /\ console.start = crt.start \/ Pending(tty.todo) \/ Pending(out.todo)

\* The line is empty while a program runs or is asked for, and the timer of
\* the welcome screen is over before one is.
ChildInv ==
    /\ tty.child \/ tty.pc \in {"answer", "load", "loaded", "forward"} =>
          tty.head = 0 /\ tty.count = 0
    /\ tty.child \/ tty.pc \in {"load", "loaded", "forward"} => tty.timer = "off"
    /\ tty.pc = "forward" => tty.child
    /\ tty.pc \in Early => ~tty.child /\ ~tty.fresh

Char(ch) == [Step("char") EXCEPT !.ch = ch]

Shown(v, cell, ch) ==
    cell \in 0 .. CELLS - 1 /\ v[2 * cell] = ch /\ v[2 * cell + 1] = DEFAULT

\* In v there is a prompt, and the line of t behind it; c is the cursor.
LineShown(t, v, c) ==
    LET l == c - t.head
    IN  /\ Shown(v, l - 2, ">") /\ Shown(v, l - 1, " ")
        /\ \A i \in 0 .. t.count - 1 : Shown(v, l + i, t.buf[i])

\* What t has to do ends with a prompt.
PromptToCome(t, v, c) ==
    /\ t.head = 0 /\ t.count = 0
    /\ \/ /\ Len(t.todo) >= 2
          /\ t.todo[Len(t.todo) - 1] = Char(">") /\ t.todo[Len(t.todo)] = Char(" ")
       \/ /\ t.todo \in {<<Step("cursor"), Char(" ")>>, <<Char(" ")>>}
          /\ Shown(v, c - 1, ">")

\* The last statement but one makes the picture true, the last one moves the
\* screen's cursor.
EchoToCome(t, v, c) ==
    \/ /\ t.todo \in {<<Step("cursor")>>, <<Step("screen")>>, <<Step("up"), Step("screen")>>,
                      <<Step("scroll"), Step("screen")>>}
       /\ LineShown(t, v, c)
    \/ \E ch \in {t.todo[1].ch} :
          /\ t.todo = <<[Step("put") EXCEPT !.ch = ch], Step("cursor")>>
          /\ LineShown(t, [v EXCEPT ![2 * c] = ch, ![2 * c + 1] = DEFAULT], c + 1)
    \/ t.todo = <<Step("left"), Step("cursor")>> /\ LineShown(t, v, c - 1)
    \/ t.todo = <<Step("right"), Step("cursor")>> /\ LineShown(t, v, c + 1)
    \/ /\ t.todo = <<Step("erase"), Step("cursor")>>
       /\ LineShown(t, [v EXCEPT ![2 * c - 1] = BLANK], c - 1)

\* c is the record's cursor and r the screen's.
LinePicture(t, v, c, r) ==
    \/ t.todo = <<>> /\ LineShown(t, v, c) /\ r = c
    \/ PromptToCome(t, v, c)
    \/ EchoToCome(t, v, c)

PictureInv == tty.fresh /\ tty.pc = "main" /\ ~tty.child =>
                 OutputIdle /\ LinePicture(tty, video, console.cursor, crt.cursor)

ScreenInv == ScreenFields /\ StartInv /\ ChildInv /\ PictureInv

-----------------------------------------------------------------------------
(* Sequences of statements.                                                *)

LEMMA SeqIs ==
    ASSUME NEW t, NEW S, t \in Seq(S)
    PROVE  IsSeq(t)
BY DEF IsSeq, Range

LEMMA TailIs ==
    ASSUME NEW t, IsSeq(t), t # <<>>
    PROVE  /\ IsSeq(Tail(t)) /\ Head(t) = t[1]
           /\ Len(t) \in Nat /\ Len(t) >= 1 /\ DOMAIN t = 1 .. Len(t)
           /\ Len(Tail(t)) = Len(t) - 1 /\ DOMAIN Tail(t) = 1 .. Len(t) - 1
           /\ \A i \in 1 .. Len(t) - 1 : Tail(t)[i] = t[i + 1]
<1> DEFINE S == Range(t)
<1>1. t \in Seq(S)
  BY DEF IsSeq
<1> HIDE DEF S
<1>2. Tail(t) \in Seq(S)
  BY <1>1
<1>3. IsSeq(Tail(t))
  BY <1>2, SeqIs, Zenon
<1> QED  BY <1>1, <1>3

LEMMA JoinIs ==
    ASSUME NEW t, IsSeq(t), NEW u, IsSeq(u)
    PROVE  /\ IsSeq(t \o u) /\ Len(t) \in Nat /\ Len(u) \in Nat
           /\ Len(t \o u) = Len(t) + Len(u) /\ DOMAIN (t \o u) = 1 .. Len(t) + Len(u)
           /\ \A i \in 1 .. Len(t) : (t \o u)[i] = t[i]
           /\ \A i \in 1 .. Len(u) : (t \o u)[Len(t) + i] = u[i]
<1> DEFINE S == Range(t) \cup Range(u)
<1>1. t \in Seq(S) /\ u \in Seq(S)
  <2>1. \A i \in DOMAIN t : t[i] \in S
    BY DEF Range
  <2>2. \A i \in DOMAIN u : u[i] \in S
    BY DEF Range
  <2> HIDE DEF S
  <2>3. t \in Seq(S)
    BY <2>1 DEF IsSeq
  <2>4. u \in Seq(S)
    BY <2>2 DEF IsSeq
  <2> QED  BY <2>3, <2>4
<1> HIDE DEF S
<1>2. t \o u \in Seq(S)
  BY <1>1
<1>3. IsSeq(t \o u)
  BY <1>2, SeqIs, Zenon
<1> QED  BY <1>1, <1>3

LEMMA ShortSeqs ==
    ASSUME NEW a, NEW b, NEW c
    PROVE  IsSeq(<<>>) /\ IsSeq(<<a>>) /\ IsSeq(<<a, b>>) /\ IsSeq(<<a, b, c>>)
<1> DEFINE S == {a, b, c}
<1>1. <<>> \in Seq(S) /\ <<a>> \in Seq(S) /\ <<a, b>> \in Seq(S) /\ <<a, b, c>> \in Seq(S)
  OBVIOUS
<1> HIDE DEF S
<1>2. IsSeq(<<>>) /\ IsSeq(<<a>>)
  BY <1>1, SeqIs, Zenon
<1>3. IsSeq(<<a, b>>) /\ IsSeq(<<a, b, c>>)
  BY <1>1, SeqIs, Zenon
<1> QED  BY <1>2, <1>3

\* The first statement of <<a>> \o b \o t is a, and the rest is left.
LEMMA Popped ==
    ASSUME NEW a, NEW b, NEW t, IsSeq(b), IsSeq(t)
    PROVE  Head((<<a>> \o b) \o t) = a /\ Tail((<<a>> \o b) \o t) = b \o t
<1> DEFINE S == Range(t) \cup Range(b) \cup {a}
<1>1. <<a>> \in Seq(S) /\ b \in Seq(S) /\ t \in Seq(S)
  <2>1. (\A i \in DOMAIN t : t[i] \in S) /\ (\A i \in DOMAIN b : b[i] \in S) /\ a \in S
    BY DEF Range
  <2> HIDE DEF S
  <2>2. t \in Seq(S)
    BY <2>1 DEF IsSeq
  <2>3. b \in Seq(S)
    BY <2>1 DEF IsSeq
  <2> QED  BY <2>1, <2>2, <2>3
<1> HIDE DEF S
<1> QED  BY <1>1

\* The first statement of todo, and what is left.
Pops(todo, first, rest) ==
    /\ IsSeq(rest)
    /\ \/ todo[1].do # "char" /\ first = todo[1] /\ rest = Tail(todo)
       \/ /\ todo[1].do = "char" /\ todo[1].ch = NL /\ first = Step("down")
          /\ rest = <<Step("home"), Step("cursor")>> \o Tail(todo)
       \/ /\ todo[1].do = "char" /\ todo[1].ch # NL
          /\ first = [Step("put") EXCEPT !.ch = todo[1].ch]
          /\ rest = <<Step("cursor")>> \o Tail(todo)

LEMMA StatementsAre ==
    ASSUME NEW todo, IsSeq(todo), todo # <<>>
    PROVE  Pops(todo, Head(Statements(todo)), Tail(Statements(todo)))
<1> DEFINE first == Head(Statements(todo))
           rest == Tail(Statements(todo))
           ch == todo[1].ch
           tail == Tail(todo)
<1>1. IsSeq(tail) /\ Head(todo) = todo[1]
  BY TailIs
<1>2. CASE todo[1].do # "char"
  BY <1>1, <1>2, TailIs DEF Statements, Pops
<1>3. CASE todo[1].do = "char" /\ ch = NL
  <2>1. Statements(todo) = <<Step("down"), Step("home"), Step("cursor")>> \o tail
    BY <1>1, <1>3 DEF Statements, DispChar, NewLine
  <2>2. /\ IsSeq(<<Step("home"), Step("cursor")>>)
        /\ IsSeq(<<Step("down"), Step("home"), Step("cursor")>>)
    BY ShortSeqs
  <2> HIDE DEF tail
  <2>3. /\ IsSeq(<<Step("home"), Step("cursor")>> \o tail)
        /\ IsSeq(<<Step("down"), Step("home"), Step("cursor")>> \o tail)
    BY <1>1, <2>2, JoinIs
  <2>4. <<Step("down"), Step("home"), Step("cursor")>>
           = <<Step("down")>> \o <<Step("home"), Step("cursor")>>
    OBVIOUS
  <2>5. first = Step("down") /\ rest = <<Step("home"), Step("cursor")>> \o tail
    <3> DEFINE b == <<Step("home"), Step("cursor")>>
               a == Step("down")
    <3>1. IsSeq(b) /\ Statements(todo) = (<<a>> \o b) \o tail
      BY <2>1, <2>2, <2>4
    <3> HIDE DEF a, b
    <3>2. Head((<<a>> \o b) \o tail) = a /\ Tail((<<a>> \o b) \o tail) = b \o tail
      BY <1>1, <3>1, Popped
    <3>3. first = a /\ rest = b \o tail
      BY <3>1, <3>2
    <3> QED  BY <3>3 DEF a, b
  <2> QED  BY <1>3, <2>3, <2>5 DEF tail, Pops
<1>4. CASE todo[1].do = "char" /\ ch # NL
  <2> DEFINE put == [Step("put") EXCEPT !.ch = ch]
  <2>1. Statements(todo) = (<<put>> \o <<Step("cursor")>>) \o tail
    BY <1>1, <1>4 DEF Statements, DispChar
  <2>2. IsSeq(<<Step("cursor")>>)
    BY ShortSeqs
  <2> HIDE DEF tail, put
  <2>3. IsSeq(<<Step("cursor")>> \o tail)
    BY <1>1, <2>2, JoinIs
  <2>4. first = put /\ rest = <<Step("cursor")>> \o tail
    <3> DEFINE b == <<Step("cursor")>>
    <3>1. IsSeq(b) /\ Statements(todo) = (<<put>> \o b) \o tail
      BY <2>1, <2>2
    <3> HIDE DEF b
    <3>2. Head((<<put>> \o b) \o tail) = put /\ Tail((<<put>> \o b) \o tail) = b \o tail
      BY <1>1, <3>1, Popped
    <3>3. first = put /\ rest = b \o tail
      BY <3>1, <3>2
    <3> QED  BY <3>3 DEF b
  <2> QED  BY <1>4, <2>3, <2>4 DEF tail, put, Pops
<1> QED  BY <1>2, <1>3, <1>4

LEMMA DispStrIs ==
    ASSUME NEW s, IsSeq(s)
    PROVE  /\ IsSeq(DispStr(s)) /\ Len(DispStr(s)) = Len(s) /\ Len(s) \in Nat
           /\ DOMAIN DispStr(s) = 1 .. Len(s)
           /\ \A i \in 1 .. Len(s) : DispStr(s)[i] = Char(s[i])
<1> DEFINE S == {Char(s[i]) : i \in 1 .. Len(s)}
<1>1. Len(s) \in Nat
  BY DEF IsSeq
<1>2. DispStr(s) = [i \in 1 .. Len(s) |-> Char(s[i])]
  BY DEF DispStr, Char
<1>3. \A i \in 1 .. Len(s) : Char(s[i]) \in S
  OBVIOUS
<1> HIDE DEF S
<1>4. DispStr(s) \in Seq(S)
  BY <1>1, <1>2, <1>3
<1>5. IsSeq(DispStr(s))
  BY <1>4, SeqIs, Zenon
<1> QED  BY <1>1, <1>2, <1>4, <1>5

LEMMA CharIs ==
    ASSUME NEW ch
    PROVE  Char(ch).do = "char" /\ Char(ch).ch = ch
BY DEF Char, Step

-----------------------------------------------------------------------------
(* The beginning of the screen.                                            *)

LEMMA BalancedTail ==
    ASSUME NEW todo, IsSeq(todo), todo # <<>>, Balanced(todo)
    PROVE  /\ Balanced(Tail(todo))
           /\ Pending(todo) => todo[1].do = "screen" \/ Pending(Tail(todo))
           /\ todo[1].do \in {"top", "up", "scroll"} => Pending(Tail(todo))
<1> DEFINE n == Len(todo)
           tail == Tail(todo)
<1>1. /\ DOMAIN todo = 1 .. n /\ n \in Nat /\ n >= 1 /\ DOMAIN tail = 1 .. n - 1
      /\ \A i \in 1 .. n - 1 : tail[i] = todo[i + 1]
  BY TailIs
<1>2. \A j \in DOMAIN todo : j > 1 => j - 1 \in DOMAIN tail /\ tail[j - 1] = todo[j]
  BY <1>1
<1> HIDE DEF tail, n
<1>3. Balanced(tail)
  <2> SUFFICES ASSUME NEW i \in DOMAIN tail, tail[i].do \in {"top", "up", "scroll"}
               PROVE  \E j \in DOMAIN tail : j > i /\ tail[j].do = "screen"
    BY DEF Balanced
  <2>1. i + 1 \in DOMAIN todo /\ todo[i + 1].do \in {"top", "up", "scroll"}
    BY <1>1
  <2>2. PICK j \in DOMAIN todo : j > i + 1 /\ todo[j].do = "screen"
    BY <2>1 DEF Balanced
  <2>3. j - 1 \in DOMAIN tail /\ tail[j - 1].do = "screen" /\ j - 1 > i
    BY <1>1, <1>2, <2>2
  <2> QED  BY <2>3
<1>4. Pending(todo) => todo[1].do = "screen" \/ Pending(tail)
  BY <1>1, <1>2 DEF Pending
<1>5. todo[1].do \in {"top", "up", "scroll"} => Pending(tail)
  BY <1>1, <1>2 DEF Pending, Balanced
<1> QED  BY <1>3, <1>4, <1>5 DEF tail

LEMMA BalancedJoin ==
    ASSUME NEW t, IsSeq(t), NEW u, IsSeq(u), Balanced(t), Balanced(u)
    PROVE  /\ Balanced(t \o u)
           /\ Pending(t) \/ Pending(u) => Pending(t \o u)
<1> DEFINE m == Len(t)
           n == Len(u)
           s == t \o u
<1>1. /\ m \in Nat /\ n \in Nat /\ DOMAIN s = 1 .. m + n
      /\ \A i \in 1 .. m : s[i] = t[i]
      /\ \A i \in 1 .. n : s[m + i] = u[i]
  BY JoinIs
<1>2. DOMAIN t = 1 .. m /\ DOMAIN u = 1 .. n
  BY DEF IsSeq
<1> HIDE DEF m, n, s
<1>3. Balanced(s)
  <2> SUFFICES ASSUME NEW i \in DOMAIN s, s[i].do \in {"top", "up", "scroll"}
               PROVE  \E j \in DOMAIN s : j > i /\ s[j].do = "screen"
    BY DEF Balanced
  <2>1. CASE i \in 1 .. m
    <3>1. PICK j \in DOMAIN t : j > i /\ t[j].do = "screen"
      BY <1>1, <1>2, <2>1 DEF Balanced
    <3> QED  BY <1>1, <1>2, <3>1
  <2>2. CASE i \notin 1 .. m
    <3>1. i - m \in 1 .. n /\ s[m + (i - m)] = u[i - m] /\ i = m + (i - m)
      BY <1>1, <1>2, <2>2
    <3>2. PICK j \in DOMAIN u : j > i - m /\ u[j].do = "screen"
      BY <1>2, <3>1 DEF Balanced
    <3>3. j \in 1 .. n
      BY <1>2, <3>2, Zenon
    <3>4. m + j \in 1 .. m + n /\ m + j > i
      <4>1. m \in Nat /\ n \in Nat /\ i \in Int
        BY <1>1
      <4> QED  BY <3>2, <3>3, <4>1
    <3>5. s[m + j] = u[j] /\ u[j].do = "screen"
      BY <1>1, <3>2, <3>3, Zenon
    <3>6. m + j \in DOMAIN s /\ s[m + j].do = "screen"
      BY <1>1, <3>4, <3>5, Zenon
    <3> QED  BY <3>4, <3>6, Zenon
  <2> QED  BY <2>1, <2>2
<1>4. ASSUME Pending(t) PROVE Pending(s)
  <2>1. PICK i \in DOMAIN t : t[i].do = "screen"
    BY <1>4 DEF Pending
  <2>2. i \in DOMAIN s /\ s[i].do = "screen"
    BY <1>1, <1>2, <2>1
  <2> QED  BY <2>2 DEF Pending
<1>5. ASSUME Pending(u) PROVE Pending(s)
  <2>1. PICK i \in DOMAIN u : u[i].do = "screen"
    BY <1>5 DEF Pending
  <2>2. m + i \in DOMAIN s /\ s[m + i].do = "screen"
    BY <1>1, <1>2, <2>1
  <2> QED  BY <2>2 DEF Pending
<1> QED  BY <1>3, <1>4, <1>5 DEF s

LEMMA PlaceMoves ==
    ASSUME NEW x, IsPlace(x)
    PROVE  /\ DOMAIN x = {"cursor", "start"}
           /\ \A y : /\ IsPlace([x EXCEPT !.cursor = y]) /\ IsPlace([x EXCEPT !.start = y])
                    /\ [x EXCEPT !.cursor = y].start = x.start
                    /\ [x EXCEPT !.start = y].start = y
                    /\ [x EXCEPT !.cursor = y].cursor = y
                    /\ [x EXCEPT !.start = y].cursor = x.cursor
<1> DEFINE a == x.cursor
           b == x.start
<1>1. x = [cursor |-> a, start |-> b]
  BY DEF IsPlace
<1> HIDE DEF a, b
<1>2. DOMAIN x = {"cursor", "start"}
  BY <1>1
<1>3. ASSUME NEW y
      PROVE  /\ [x EXCEPT !.cursor = y] = [cursor |-> y, start |-> b]
             /\ [x EXCEPT !.start = y] = [cursor |-> a, start |-> y]
             /\ x.start = b /\ x.cursor = a
  BY <1>1
<1>4. \A y, z : IsPlace([cursor |-> y, start |-> z])
  BY DEF IsPlace
<1> QED  BY <1>2, <1>3, <1>4

\* What a statement does to the beginning of the screen.
LEMMA PerformIs ==
    ASSUME ScreenFields, NEW s, Perform(s)
    PROVE  /\ IsPlace(console') /\ IsPlace(crt')
           /\ DOMAIN video' = DOMAIN video
           /\ s.do \notin {"top", "up", "scroll"} => console'.start = console.start
           /\ s.do = "screen" => crt' = console /\ console' = console
           /\ s.do # "screen" => crt'.start = crt.start
<1>1. IsPlace(console) /\ IsPlace(crt)
  BY DEF ScreenFields
<1>2. DOMAIN video' = DOMAIN video
  BY DEF Perform, Put, Erase, Moves
<1>3. \/ /\ s.do \in {"put", "erase", "down", "home", "left", "right"} /\ crt' = crt
         /\ \E y : console' = [console EXCEPT !.cursor = y]
      \/ /\ s.do \in {"top", "up", "scroll"} /\ crt' = crt
         /\ console' = console \/ \E y : console' = [console EXCEPT !.start = y]
      \/ /\ s.do = "cursor" /\ console' = console /\ \E y : crt' = [crt EXCEPT !.cursor = y]
      \/ /\ s.do = "screen" /\ console' = console /\ crt' = console
  <2>1. CASE s.do \in {"put", "erase"}
    BY <2>1, Zenon DEF Perform, Put, Erase
  <2>2. CASE s.do \in {"down", "home", "left", "right"}
    BY <2>2, Zenon DEF Perform, Moves
  <2>3. CASE s.do \in {"top", "up", "scroll"}
    BY <2>3, Zenon DEF Perform, Moves
  <2>4. CASE s.do \in {"cursor", "screen"}
    BY <2>4, Zenon DEF Perform
  <2> QED  BY <2>1, <2>2, <2>3, <2>4 DEF Perform
<1>4. \A y : /\ IsPlace([console EXCEPT !.cursor = y]) /\ IsPlace([console EXCEPT !.start = y])
             /\ IsPlace([crt EXCEPT !.cursor = y])
             /\ [console EXCEPT !.cursor = y].start = console.start
             /\ [crt EXCEPT !.cursor = y].start = crt.start
  BY <1>1, PlaceMoves
<1> QED  BY <1>1, <1>2, <1>3, <1>4, Zenon

LEMMA PreBalanced ==
    LET a == <<Step("home"), Step("cursor")>>
        b == <<Step("cursor")>>
        c == <<Step("home")>>
    IN  /\ IsSeq(a) /\ IsSeq(b) /\ IsSeq(c)
        /\ Balanced(a) /\ Balanced(b) /\ Balanced(c)
<1> DEFINE a == <<Step("home"), Step("cursor")>>
           b == <<Step("cursor")>>
           c == <<Step("home")>>
<1>1. IsSeq(a) /\ IsSeq(b) /\ IsSeq(c)
  BY ShortSeqs
<1>2. Step("home").do = "home" /\ Step("cursor").do = "cursor"
  BY DEF Step
<1>3. /\ \A i \in DOMAIN a : a[i].do \notin {"top", "up", "scroll"}
      /\ \A i \in DOMAIN b : b[i].do \notin {"top", "up", "scroll"}
      /\ \A i \in DOMAIN c : c[i].do \notin {"top", "up", "scroll"}
  BY <1>2
<1>4. Balanced(a) /\ Balanced(b) /\ Balanced(c)
  <2> HIDE DEF a, b, c
  <2> QED  BY <1>3 DEF Balanced
<1> QED  BY <1>1, <1>4

\* A statement of the terminal, or of OUTPUT, is done; `other' is whether the
\* other one will set the beginning of the screen.
LEMMA DoneStart ==
    ASSUME ScreenFields, NEW s, Perform(s), NEW todo, IsSeq(todo), todo # <<>>,
           Balanced(todo), todo[1] = s, NEW other \in BOOLEAN,
           console.start = crt.start \/ Pending(todo) \/ other
    PROVE  /\ Balanced(Tail(todo))
           /\ console'.start = crt'.start \/ Pending(Tail(todo)) \/ other
<1>1. /\ Balanced(Tail(todo))
      /\ Pending(todo) => s.do = "screen" \/ Pending(Tail(todo))
      /\ s.do \in {"top", "up", "scroll"} => Pending(Tail(todo))
  BY BalancedTail
<1> QED  BY <1>1, PerformIs

LEMMA ShowStart ==
    ASSUME IsLine(tty), ScreenFields, StartInv, Show
    PROVE  ScreenFields' /\ StartInv'
<1> DEFINE todo == tty.todo
           tail == Tail(todo)
<1>1. PICK first, rest :
         /\ first = Head(Statements(todo)) /\ rest = Tail(Statements(todo))
         /\ todo # <<>> /\ Perform(first) /\ tty' = [tty EXCEPT !.todo = rest]
         /\ UNCHANGED <<input, child, out>>
  BY DEF Show
<1>2. IsSeq(todo) /\ Balanced(todo) /\ IsSeq(tail)
  BY <1>1, TailIs DEF ScreenFields, StartInv
<1>3. Pops(todo, first, rest)
  <2>1. Pops(todo, Head(Statements(todo)), Tail(Statements(todo)))
    BY <1>1, <1>2, StatementsAre
  <2> QED  BY <1>1, <2>1
<1>4. /\ IsPlace(console') /\ IsPlace(crt')
      /\ DOMAIN video' = DOMAIN video
      /\ first.do \notin {"top", "up", "scroll"} => console'.start = console.start
      /\ first.do # "screen" => crt'.start = crt.start
  BY <1>1, PerformIs
<1>5. tty'.todo = rest
  BY <1>1 DEF IsLine, TtyFields
<1>6. ScreenFields'
  BY <1>1, <1>3, <1>4, <1>5 DEF ScreenFields, Pops
<1>7. CASE todo[1].do # "char"
  <2>1. /\ Balanced(tail)
        /\ console'.start = crt'.start \/ Pending(tail) \/ Pending(out.todo)
    BY <1>1, <1>2, <1>3, <1>7, DoneStart DEF StartInv, Pending, Pops
  <2> QED  BY <1>1, <1>3, <1>5, <1>6, <1>7, <2>1 DEF StartInv, Pops
<1>8. CASE todo[1].do = "char"
  <2>1. PICK pre \in {<<Step("home"), Step("cursor")>>, <<Step("cursor")>>} :
           rest = pre \o tail
    BY <1>3, <1>8 DEF Pops
  <2>2. IsSeq(pre) /\ Balanced(pre) /\ Balanced(tail) /\ (Pending(todo) => Pending(tail))
    BY <1>1, <1>2, <1>8, <2>1, PreBalanced, BalancedTail
  <2>3. Balanced(rest) /\ (Pending(todo) => Pending(rest))
    BY <1>2, <2>1, <2>2, BalancedJoin
  <2>4. first.do \in {"down", "put"}
    BY <1>3, <1>8 DEF Step, Pops
  <2> QED  BY <1>1, <1>4, <1>5, <1>6, <2>3, <2>4 DEF StartInv
<1> QED  BY <1>7, <1>8

LEMMA OutputStart ==
    ASSUME ScreenFields, StartInv, Output
    PROVE  ScreenFields' /\ StartInv'
<1> DEFINE todo == out.todo
           s == Head(todo)
<1>1. /\ todo # <<>> /\ UNCHANGED <<tty, input, child>>
      /\ \/ s.do = "row" /\ DrawRow(s.row, Picture) /\ UNCHANGED crt
         \/ s.do = "disp" /\ Disp(s.ch) /\ UNCHANGED crt
         \/ /\ s.do \notin {"row", "disp"} /\ Perform(s)
            /\ out' = [out EXCEPT !.todo = Tail(@)]
  BY DEF Output, OutputStep, OutputIdle, ttyVars
<1>2. IsSeq(todo) /\ Balanced(todo) /\ s = todo[1] /\ IsSeq(Tail(todo))
  BY <1>1, TailIs DEF ScreenFields, StartInv
<1>3. CASE s.do \in {"row", "disp"}
  <2>1. /\ DOMAIN video' = DOMAIN video /\ crt' = crt
        /\ IsPlace(console') /\ console'.start = console.start
        /\ DOMAIN out' = {"todo", "owner", "pos"}
        /\ out'.todo = Tail(todo) \/ out'.todo = <<Step("home")>> \o Tail(todo)
    <3>1. IsPlace(console) /\ DOMAIN out = {"todo", "owner", "pos"}
      BY DEF ScreenFields
    <3>2. CASE s.do = "row"
      BY <1>1, <3>1, <3>2 DEF DrawRow
    <3>3. CASE s.do = "disp"
      <4>1. /\ \E y : console' = [console EXCEPT !.cursor = y]
            /\ DOMAIN video' = DOMAIN video /\ crt' = crt
            /\ DOMAIN out' = {"todo", "owner", "pos"}
            /\ out'.todo = Tail(todo) \/ out'.todo = <<Step("home")>> \o Tail(todo)
        <5>1. Disp(s.ch) /\ crt' = crt
          BY <1>1, <3>3
        <5>2. CASE s.ch = NL
          BY <3>1, <5>1, <5>2 DEF Disp
        <5>3. CASE s.ch # NL
          BY <3>1, <5>1, <5>3 DEF Disp
        <5> QED  BY <5>2, <5>3
      <4>2. \A y : /\ IsPlace([console EXCEPT !.cursor = y])
                   /\ [console EXCEPT !.cursor = y].start = console.start
        BY <3>1, PlaceMoves
      <4> QED  BY <4>1, <4>2, Zenon
    <3> QED  BY <1>3, <3>2, <3>3
  <2>2. Balanced(Tail(todo)) /\ (Pending(todo) => Pending(Tail(todo)))
    BY <1>1, <1>2, <1>3, BalancedTail
  <2>3. LET h == <<Step("home")>> \o Tail(todo)
        IN  IsSeq(h) /\ Balanced(h) /\ (Pending(Tail(todo)) => Pending(h))
    <3>1. IsSeq(<<Step("home")>>) /\ Balanced(<<Step("home")>>)
      BY PreBalanced
    <3>2. IsSeq(Tail(todo))
      BY <1>2
    <3> DEFINE h == <<Step("home")>>
               u == Tail(todo)
    <3> HIDE DEF h, u
    <3>3. IsSeq(h) /\ IsSeq(u) /\ Balanced(h) /\ Balanced(u)
      BY <2>2, <3>1, <3>2 DEF h, u
    <3>4. IsSeq(h \o u) /\ Balanced(h \o u) /\ (Pending(u) => Pending(h \o u))
      BY <3>3, BalancedJoin, JoinIs
    <3> QED  BY <3>4 DEF h, u
  <2> QED  BY <1>1, <1>2, <2>1, <2>2, <2>3 DEF ScreenFields, StartInv
<1>4. CASE s.do \notin {"row", "disp"}
  <2>1. Perform(s) /\ out' = [out EXCEPT !.todo = Tail(todo)]
    BY <1>1, <1>4
  <2>2. /\ DOMAIN video' = DOMAIN video
        /\ IsPlace(console') /\ IsPlace(crt')
        /\ DOMAIN out' = {"todo", "owner", "pos"} /\ out'.todo = Tail(todo)
    BY <2>1, PerformIs DEF ScreenFields
  <2>3. /\ Balanced(Tail(todo))
        /\ console'.start = crt'.start \/ Pending(Tail(todo)) \/ Pending(tty.todo)
    <3>1. /\ todo # <<>> /\ IsSeq(todo) /\ Balanced(todo) /\ todo[1] = s /\ Perform(s)
          /\ Pending(tty.todo) \in BOOLEAN
          /\ console.start = crt.start \/ Pending(todo) \/ Pending(tty.todo)
      BY <1>1, <1>2, <2>1 DEF StartInv, Pending
    <3> HIDE DEF todo, s
    <3> QED  BY <3>1, DoneStart
  <2> QED  BY <1>1, <1>2, <2>2, <2>3 DEF ScreenFields, StartInv
<1> QED  BY <1>3, <1>4

\* Statements that leave the beginning of the screen alone.
Plain(todo) == \A i \in DOMAIN todo : todo[i].do \notin {"top", "up", "scroll"}

LEMMA PlainIs ==
    ASSUME NEW todo, Plain(todo)
    PROVE  Balanced(todo)
BY DEF Plain, Balanced

LEMMA ClearIs == IsSeq(Clear) /\ Balanced(Clear) /\ Pending(Clear)
<1>1. Clear = <<Step("down"), Step("home"), Step("top"), Step("screen")>>
  <2> DEFINE a == Step("down")
             b == Step("home")
             c == Step("top")
             d == Step("screen")
  <2>1. Clear = <<a, b>> \o <<c, d>>
    BY DEF Clear, NewLine
  <2> HIDE DEF a, b, c, d
  <2>2. <<a, b>> \o <<c, d>> = <<a, b, c, d>>
    <3> DEFINE s == <<a, b>> \o <<c, d>>
               t == <<a, b, c, d>>
               S == {a, b, c, d}
    <3>1. s \in Seq(S) /\ Len(s) = 4 /\ s[1] = a /\ s[2] = b /\ s[3] = c /\ s[4] = d
      OBVIOUS
    <3>2. t \in Seq(S) /\ Len(t) = 4 /\ t[1] = a /\ t[2] = b /\ t[3] = c /\ t[4] = d
      OBVIOUS
    <3> HIDE DEF s, t, S
    <3>3. \A i \in 1 .. 4 : s[i] = t[i]
      BY <3>1, <3>2
    <3>4. s = [i \in 1 .. 4 |-> s[i]] /\ t = [i \in 1 .. 4 |-> t[i]]
      BY <3>1, <3>2
    <3>5. s = t
      BY <3>3, <3>4
    <3> QED  BY <3>5 DEF s, t
  <2> QED  BY <2>1, <2>2 DEF a, b, c, d
<1> DEFINE S == {Step("down"), Step("home"), Step("top"), Step("screen")}
<1>2. Clear \in Seq(S)
  BY <1>1
<1>3. IsSeq(Clear)
  BY <1>2, SeqIs, Zenon
<1>4. DOMAIN Clear = 1 .. 4 /\ Clear[1].do = "down" /\ Clear[2].do = "home"
      /\ Clear[3].do = "top" /\ Clear[4].do = "screen"
  BY <1>1 DEF Step
<1>5. Balanced(Clear)
  BY <1>4 DEF Balanced
<1> QED  BY <1>3, <1>4, <1>5 DEF Pending

LEMMA OutputStepsIs ==
    ASSUME NEW m, m.fn = "disp" => m.text \in Seq(Range(m.text))
    PROVE  IsSeq(OutputSteps(m)) /\ Balanced(OutputSteps(m))
<1>1. CASE m.fn = "disp"
  <2> DEFINE k == Min({Len(m.text), DISP_LIMIT})
             f(i) == [Step("disp") EXCEPT !.ch = m.text[i]]
             t == [i \in 1 .. k |-> f(i)]
  <2>1. k \in Nat
    <3>1. Len(m.text) \in Nat /\ DISP_LIMIT \in Nat
      BY <1>1, ConsoleAssumption
    <3>2. \E x \in {Len(m.text), DISP_LIMIT} : \A y \in {Len(m.text), DISP_LIMIT} : x <= y
      BY <3>1
    <3>3. k \in {Len(m.text), DISP_LIMIT}
      BY <3>2, Zenon DEF Min
    <3> QED  BY <3>1, <3>3
  <2>2. OutputSteps(m) = t \o <<Step("cursor")>>
    BY <1>1 DEF OutputSteps
  <2>3. \A i \in 1 .. k : f(i).do = "disp"
    BY DEF Step
  <2>4. IsSeq(t) /\ Plain(t)
    <3> DEFINE S == {f(i) : i \in 1 .. k}
    <3>1. t \in Seq(S)
      <4>1. \A i \in 1 .. k : f(i) \in S
        OBVIOUS
      <4> HIDE DEF k, f, S
      <4> QED  BY <2>1, <4>1
    <3>2. IsSeq(t)
      BY <3>1, SeqIs, Zenon
    <3>3. Plain(t)
      <4> HIDE DEF k, f
      <4> QED  BY <2>1, <2>3 DEF Plain
    <3> QED  BY <3>2, <3>3
  <2> HIDE DEF t
  <2> QED  BY <2>2, <2>4, PlainIs, PreBalanced, BalancedJoin, JoinIs
<1>2. CASE m.fn = "clear"
  <2>1. OutputSteps(m) = Clear
    BY <1>2 DEF OutputSteps
  <2> QED  BY <2>1, ClearIs
<1>3. CASE m.fn = "draw"
  <2> DEFINE f(r) == [Step("row") EXCEPT !.row = r - 1]
             t == [r \in 1 .. HEIGHT |-> f(r)]
  <2>1. OutputSteps(m) = t \o <<Step("screen")>>
    BY <1>3 DEF OutputSteps
  <2>2. \A i \in 1 .. HEIGHT : f(i).do = "row"
    BY DEF Step
  <2>3. IsSeq(t) /\ Plain(t)
    <3> DEFINE S == {f(i) : i \in 1 .. HEIGHT}
    <3>1. t \in Seq(S)
      <4> HIDE DEF f
      <4> QED  BY ConsoleAssumption
    <3>2. IsSeq(t)
      BY <3>1, SeqIs, Zenon
    <3>3. Plain(t)
      <4> HIDE DEF f
      <4> QED  BY <2>2 DEF Plain
    <3> QED  BY <3>2, <3>3
  <2>4. IsSeq(<<Step("screen")>>) /\ Balanced(<<Step("screen")>>)
    <3>1. Step("screen").do = "screen"
      BY DEF Step
    <3> DEFINE a == Step("screen")
    <3> HIDE DEF a
    <3>a. IsSeq(<<a>>)
      BY ShortSeqs
    <3>b. DOMAIN <<a>> = 1 .. 1 /\ <<a>>[1] = a
      OBVIOUS
    <3>2. IsSeq(<<a>>) /\ DOMAIN <<a>> = 1 .. 1 /\ <<a>>[1] = a
      BY <3>a, <3>b
    <3>3. Plain(<<a>>)
      BY <3>1, <3>2 DEF Plain, a
    <3> QED  BY <3>2, <3>3, PlainIs DEF a
  <2> HIDE DEF t
  <2> QED  BY <2>1, <2>3, <2>4, PlainIs, BalancedJoin, JoinIs
<1>4. CASE m.fn \notin {"disp", "clear", "draw"}
  <2>1. OutputSteps(m) = <<Step(m.fn), Step("screen")>>
    BY <1>4 DEF OutputSteps
  <2>2. IsSeq(OutputSteps(m)) /\ DOMAIN OutputSteps(m) = 1 .. 2 /\ OutputSteps(m)[2].do = "screen"
    <3>1. Step("screen").do = "screen"
      BY DEF Step
    <3> DEFINE a == Step(m.fn)
               b == Step("screen")
    <3> HIDE DEF a, b
    <3>a. IsSeq(<<a, b>>)
      BY ShortSeqs
    <3>b. DOMAIN <<a, b>> = 1 .. 2 /\ <<a, b>>[2] = b
      OBVIOUS
    <3>2. IsSeq(<<a, b>>) /\ DOMAIN <<a, b>> = 1 .. 2 /\ <<a, b>>[2] = b
      BY <3>a, <3>b
    <3> QED  BY <2>1, <3>1, <3>2 DEF a, b
  <2>3. Balanced(OutputSteps(m))
    <3> SUFFICES ASSUME NEW i \in 1 .. 2, OutputSteps(m)[i].do \in {"top", "up", "scroll"}
                 PROVE  2 > i
      BY <2>2 DEF Balanced
    <3> QED  BY <2>2
  <2> QED  BY <2>2, <2>3
<1> QED  BY <1>1, <1>2, <1>3, <1>4

LEMMA PairBalanced ==
    ASSUME NEW a, NEW b, a.do \in {"top", "up", "scroll"} => b.do = "screen",
           b.do \notin {"top", "up", "scroll"}
    PROVE  IsSeq(<<a, b>>) /\ Balanced(<<a, b>>)
<1>1. IsSeq(<<a, b>>)
  BY ShortSeqs
<1> DEFINE t == <<a, b>>
<1>2. DOMAIN t = 1 .. 2 /\ t[1] = a /\ t[2] = b
  OBVIOUS
<1> HIDE DEF t
<1>3. Balanced(t)
  <2> SUFFICES ASSUME NEW i \in 1 .. 2, t[i].do \in {"top", "up", "scroll"}
               PROVE  2 > i /\ t[2].do = "screen"
    BY <1>2 DEF Balanced
  <2> QED  BY <1>2
<1> QED  BY <1>1, <1>3 DEF t

LEMMA OneBalanced ==
    ASSUME NEW a, a.do \notin {"top", "up", "scroll"}
    PROVE  IsSeq(<<a>>) /\ Balanced(<<a>>) /\ IsSeq(<<>>) /\ Balanced(<<>>)
<1>1. IsSeq(<<a>>) /\ IsSeq(<<>>)
  BY ShortSeqs
<1> DEFINE t == <<a>>
<1>2. DOMAIN t = 1 .. 1 /\ t[1] = a
  OBVIOUS
<1>3. Balanced(<<>>)
  BY DEF Balanced
<1> HIDE DEF t
<1>4. Plain(t)
  BY <1>2 DEF Plain
<1> QED  BY <1>1, <1>3, <1>4, PlainIs DEF t

LEMMA StepIs == \A do : Step(do).do = do
BY DEF Step

\* The statements that a key leaves to do.
Echo(todo) ==
    \/ todo \in {<<>>, <<Step("cursor")>>, <<Step("screen")>>}
    \/ todo \in {<<Step("up"), Step("screen")>>, <<Step("scroll"), Step("screen")>>}
    \/ todo \in {<<Step("left"), Step("cursor")>>, <<Step("right"), Step("cursor")>>,
                 <<Step("erase"), Step("cursor")>>}
    \/ \E ch : todo = <<[Step("put") EXCEPT !.ch = ch], Step("cursor")>>
    \/ todo = <<Step("down"), Step("home"), Step("cursor")>>

LEMMA EchoBalanced ==
    ASSUME NEW todo, Echo(todo)
    PROVE  IsSeq(todo) /\ Balanced(todo)
<1>1. CASE todo \in {<<>>, <<Step("cursor")>>, <<Step("screen")>>}
  <2>1. ASSUME NEW do \in {"cursor", "screen"} PROVE IsSeq(<<Step(do)>>) /\ Balanced(<<Step(do)>>)
    <3>1. Step(do).do \notin {"top", "up", "scroll"}
      BY StepIs
    <3> QED  BY <3>1, OneBalanced
  <2>2. IsSeq(<<>>) /\ Balanced(<<>>)
    <3>1. Step("cursor").do \notin {"top", "up", "scroll"}
      BY StepIs
    <3> QED  BY <3>1, OneBalanced
  <2> QED  BY <1>1, <2>1, <2>2
<1>2. CASE todo \in {<<Step("up"), Step("screen")>>, <<Step("scroll"), Step("screen")>>}
  BY <1>2, StepIs, PairBalanced
<1>3. CASE todo \in {<<Step("left"), Step("cursor")>>, <<Step("right"), Step("cursor")>>,
                     <<Step("erase"), Step("cursor")>>}
  <2>1. ASSUME NEW do \in {"left", "right", "erase"}, todo = <<Step(do), Step("cursor")>>
        PROVE  IsSeq(todo) /\ Balanced(todo)
    <3>1. Step(do).do \notin {"top", "up", "scroll"} /\ Step("cursor").do = "cursor"
      BY StepIs
    <3> QED  BY <2>1, <3>1, PairBalanced
  <2> QED  BY <1>3, <2>1
<1>4. ASSUME NEW ch, todo = <<[Step("put") EXCEPT !.ch = ch], Step("cursor")>>
      PROVE  IsSeq(todo) /\ Balanced(todo)
  <2>1. [Step("put") EXCEPT !.ch = ch].do = "put"
    BY DEF Step
  <2> QED  BY <1>4, <2>1, StepIs, PairBalanced
<1>5. CASE todo = <<Step("down"), Step("home"), Step("cursor")>>
  <2>1. IsSeq(todo)
    BY <1>5, ShortSeqs
  <2>2. Plain(todo)
    <3> DEFINE a == Step("down")
               b == Step("home")
               c == Step("cursor")
    <3>1. a.do = "down" /\ b.do = "home" /\ c.do = "cursor"
      BY StepIs
    <3>2. todo = <<a, b, c>>
      BY <1>5
    <3> HIDE DEF a, b, c
    <3>3. DOMAIN todo = 1 .. 3 /\ todo[1] = a /\ todo[2] = b /\ todo[3] = c
      BY <3>2
    <3> QED  BY <3>1, <3>3 DEF Plain
  <2> QED  BY <2>1, <2>2, PlainIs
<1> QED  BY <1>1, <1>2, <1>3, <1>4, <1>5 DEF Echo

LEMMA ShortJoins ==
    ASSUME NEW a, NEW b, NEW c
    PROVE  <<a>> \o <<b>> = <<a, b>> /\ <<a, b>> \o <<c>> = <<a, b, c>>
<1>1. <<a>> \o <<b>> = <<a, b>>
  <2> DEFINE s == <<a>> \o <<b>>
             t == <<a, b>>
             S == {a, b}
  <2>1. s \in Seq(S) /\ Len(s) = 2 /\ s[1] = a /\ s[2] = b
    OBVIOUS
  <2>2. t \in Seq(S) /\ Len(t) = 2 /\ t[1] = a /\ t[2] = b
    OBVIOUS
  <2> HIDE DEF s, t, S
  <2>3. s = [i \in 1 .. 2 |-> s[i]] /\ t = [i \in 1 .. 2 |-> t[i]]
    BY <2>1, <2>2
  <2>4. s = t
    BY <2>1, <2>2, <2>3
  <2> QED  BY <2>4 DEF s, t
<1>2. <<a, b>> \o <<c>> = <<a, b, c>>
  <2> DEFINE s == <<a, b>> \o <<c>>
             t == <<a, b, c>>
             S == {a, b, c}
  <2>1. s \in Seq(S) /\ Len(s) = 3 /\ s[1] = a /\ s[2] = b /\ s[3] = c
    OBVIOUS
  <2>2. t \in Seq(S) /\ Len(t) = 3 /\ t[1] = a /\ t[2] = b /\ t[3] = c
    OBVIOUS
  <2> HIDE DEF s, t, S
  <2>3. s = [i \in 1 .. 3 |-> s[i]] /\ t = [i \in 1 .. 3 |-> t[i]]
    BY <2>1, <2>2
  <2>4. s = t
    BY <2>1, <2>2, <2>3
  <2> QED  BY <2>4 DEF s, t
<1> QED  BY <1>1, <1>2

\* The statements of one character.
LEMMA DispCharIs ==
    /\ DispChar(NL) = <<Step("down"), Step("home"), Step("cursor")>>
    /\ \A ch : ch # NL => DispChar(ch) = <<[Step("put") EXCEPT !.ch = ch], Step("cursor")>>
<1>1. DispChar(NL) = <<Step("down"), Step("home")>> \o <<Step("cursor")>>
  BY DEF DispChar, NewLine
<1>2. ASSUME NEW ch, ch # NL
      PROVE  DispChar(ch) = <<[Step("put") EXCEPT !.ch = ch]>> \o <<Step("cursor")>>
  BY <1>2 DEF DispChar
<1> QED  BY <1>1, <1>2, ShortJoins

LEMMA KeyTodo ==
    ASSUME IsLine(tty), tty.todo = <<>>, NEW key \in Keys \cup {NL, NoKey},
           NEW t, t = Handled(key)
    PROVE  /\ Echo(t.todo) /\ t.child = tty.child /\ t.fresh = tty.fresh
           /\ t.timer = tty.timer /\ t.pc \in {tty.pc, "command"}
<1> USE DEF IsLine, TtyFields, Echo
<1>1. CASE t = Enter
  <2>1. DispChar(NL) = <<Step("down"), Step("home"), Step("cursor")>>
    BY DispCharIs
  <2> QED  BY <1>1, <2>1 DEF Enter
<1>2. CASE t = Backspace
  BY <1>2 DEF Backspace
<1>3. CASE t = CursorLeft \/ t = CursorRight
  BY <1>3 DEF CursorLeft, CursorRight, Ignore
<1>4. CASE t = tty
  BY <1>4
<1>5. CASE key # NL /\ t = TypeChar(key)
  <2>1. DispChar(key) = <<[Step("put") EXCEPT !.ch = key], Step("cursor")>>
    BY <1>5, DispCharIs
  <2> QED  BY <1>5, <2>1 DEF TypeChar, Ignore
<1>6. ASSUME NEW do \in {<<Step("screen")>>, <<Step("up"), Step("screen")>>,
                         <<Step("scroll"), Step("screen")>>}, t = [tty EXCEPT !.todo = do]
      PROVE  /\ Echo(t.todo) /\ t.child = tty.child /\ t.fresh = tty.fresh
             /\ t.timer = tty.timer /\ t.pc \in {tty.pc, "command"}
  BY <1>6
<1> QED  BY <1>1, <1>2, <1>3, <1>4, <1>5, <1>6, HandledIs DEF Ignore

-----------------------------------------------------------------------------
(* Every step keeps the fields and the beginning of the screen.            *)

LEMMA TextsAre ==
    IsSeq(Prompt) /\ IsSeq(Title \o Prompt) /\ IsSeq(Listing \o Prompt)
<1>1. IsSeq(Prompt)
  BY ShortSeqs DEF Prompt
<1>2. IsSeq(Title) /\ IsSeq(Listing)
  BY TextAssumption DEF IsSeq
<1> QED  BY <1>1, <1>2, JoinIs

LEMMA DispStrBalanced ==
    ASSUME NEW s, IsSeq(s)
    PROVE  Balanced(DispStr(s))
BY DispStrIs, CharIs, PlainIs DEF Plain

\* A text is added to what is to be done.
LEMMA ShowsAdds ==
    ASSUME NEW t, DOMAIN t = TtyFields, NEW s, IsSeq(s), IsSeq(t.todo), Balanced(t.todo),
           NEW u, u = Shows(t, s)
    PROVE  /\ u.todo = t.todo \o DispStr(s) /\ IsSeq(u.todo) /\ Balanced(u.todo)
           /\ Pending(t.todo) => Pending(u.todo)
<1>1. u.todo = t.todo \o DispStr(s)
  BY DEF Shows, TtyFields
<1>2. IsSeq(DispStr(s)) /\ Balanced(DispStr(s))
  BY DispStrIs, DispStrBalanced
<1> QED  BY <1>1, <1>2, JoinIs, BalancedJoin

\* A message is sent to OUTPUT.
LEMMA SendStart ==
    ASSUME ScreenFields, StartInv, NEW owner, NEW m, Send(owner, m),
           m.fn = "disp" => m.text \in Seq(Range(m.text)),
           UNCHANGED <<console, video, crt>>, tty'.todo = tty.todo,
           DOMAIN child' = {"pc", "at"}, child'.at \in Nat
    PROVE  ScreenFields' /\ StartInv'
<1>1. /\ out.todo = <<>> /\ out'.todo = OutputSteps(m)
      /\ DOMAIN out' = {"todo", "owner", "pos"}
  BY DEF Send, OutputIdle
<1>2. IsSeq(OutputSteps(m)) /\ Balanced(OutputSteps(m))
  BY OutputStepsIs
<1>3. ~Pending(out.todo)
  BY <1>1 DEF Pending
<1> QED  BY <1>1, <1>2, <1>3 DEF ScreenFields, StartInv

\* The terminal has new things to do.
LEMMA TodoStart ==
    ASSUME ScreenFields, StartInv, UNCHANGED <<console, video, crt, out>>,
           IsSeq(tty'.todo), Balanced(tty'.todo), Pending(tty.todo) => Pending(tty'.todo),
           DOMAIN child' = {"pc", "at"}, child'.at \in Nat
    PROVE  ScreenFields' /\ StartInv'
BY DEF ScreenFields, StartInv

LEMMA StartStep ==
    ASSUME Inv, ScreenFields, StartInv, [Next]_vars
    PROVE  ScreenFields' /\ StartInv'
<1> USE DEF Inv
<1>0. /\ DOMAIN tty = TtyFields /\ IsSeq(tty.todo) /\ Balanced(tty.todo)
      /\ DOMAIN child = {"pc", "at"} /\ child.at \in Nat
      /\ tty.todo = <<>> => ~Pending(tty.todo)
  BY DEF IsLine, ScreenFields, StartInv, Pending
<1>1. CASE UNCHANGED consoleVars /\ UNCHANGED child /\ tty'.todo = tty.todo
  BY <1>0, <1>1, TodoStart DEF consoleVars
<1>2. CASE UNCHANGED vars \/ \E key \in (IF tty.child THEN {NL} ELSE KeysAt[input.n + 1]) : Press(key)
  BY <1>1, <1>2 DEF vars, ttyVars, consoleVars, Press
<1>3. CASE Welcome
  <2>1. CASE AnyKey \/ Pause
    BY <1>0, <1>1, <2>1 DEF AnyKey, Pause, TtyFields
  <2>2. CASE Draws("hello", "key") \/ Draws("blank", "pause")
    <3>1. /\ Send("tty", [fn |-> "draw"]) /\ UNCHANGED <<console, video, crt, child>>
          /\ tty'.todo = tty.todo
      BY <1>0, <2>2 DEF Draws, TtyFields
    <3> QED  BY <1>0, <3>1, SendStart
  <2>3. CASE terminal_init
    <3> DEFINE t == [tty EXCEPT !.pc = "main", !.head = 0, !.count = 0,
                                !.child = FALSE, !.todo = <<Step("screen")>>]
    <3>1. /\ tty' = Shows(t, Title \o Prompt) /\ console' = [cursor |-> 0, start |-> 0]
          /\ UNCHANGED <<input, child, video, crt, out>>
      BY <2>3 DEF terminal_init
    <3>2. DOMAIN t = TtyFields /\ t.todo = <<Step("screen")>>
      BY <1>0 DEF TtyFields
    <3>3. IsSeq(<<Step("screen")>>) /\ Balanced(<<Step("screen")>>)
      <4>1. Step("screen").do \notin {"top", "up", "scroll"}
        BY StepIs
      <4> QED  BY <4>1, OneBalanced
    <3>4. Pending(<<Step("screen")>>)
      <4> DEFINE a == Step("screen")
      <4>1. a.do = "screen"
        BY StepIs
      <4> HIDE DEF a
      <4>2. DOMAIN <<a>> = 1 .. 1 /\ <<a>>[1] = a
        OBVIOUS
      <4>3. Pending(<<a>>)
        BY <4>1, <4>2 DEF Pending
      <4> QED  BY <4>3 DEF a
    <3> HIDE DEF t
    <3>5. IsSeq(tty'.todo) /\ Balanced(tty'.todo) /\ Pending(tty'.todo)
      BY <3>1, <3>2, <3>3, <3>4, TextsAre, ShowsAdds
    <3>6. IsPlace(console')
      BY <3>1 DEF IsPlace
    <3> QED  BY <3>1, <3>5, <3>6 DEF ScreenFields, StartInv
  <2> QED  BY <1>3, <2>1, <2>2, <2>3 DEF Welcome
<1>4. CASE Show
  BY <1>4, ShowStart
<1>5. ASSUME UNCHANGED consoleVars, UNCHANGED child, tty.todo = <<>>, Echo(tty'.todo)
      PROVE  ScreenFields' /\ StartInv'
  <2>1. IsSeq(tty'.todo) /\ Balanced(tty'.todo)
    BY <1>5, EchoBalanced
  <2> QED  BY <1>0, <1>5, <2>1, TodoStart DEF consoleVars
<1>6. CASE ReceiveKey
  <2>1. tty.todo = <<>> /\ UNCHANGED consoleVars /\ UNCHANGED child
    BY <1>6 DEF ReceiveKey, Receives
  <2>2. CASE tty.child
    BY <1>0, <1>1, <1>6, <2>1, <2>2 DEF ReceiveKey, TtyFields
  <2>3. CASE ~tty.child
    <3> DEFINE t == Handled(input.key)
    <3>1. PICK last : tty' = [t EXCEPT !.last = last]
      BY <1>6, <2>3, Zenon DEF ReceiveKey
    <3>2. Echo(t.todo) /\ DOMAIN t = TtyFields
      BY <1>6, <2>1, KeyTodo, KeyEdits DEF KeyInv, ReceiveKey, Receives, IsLine
    <3>3. Echo(tty'.todo)
      BY <3>1, <3>2 DEF TtyFields
    <3> QED  BY <1>5, <2>1, <3>3
  <2> QED  BY <2>2, <2>3
<1>7. CASE LateTimer
  <2>1. UNCHANGED consoleVars /\ UNCHANGED child
    BY <1>7, LateIs
  <2>2. ASSUME Receives, NEW key \in Keys \cup {NL, NoKey},
               tty' = [Handled(key) EXCEPT !.timer = "off", !.last = NoKey]
        PROVE  ScreenFields' /\ StartInv'
    <3>1. Echo(Handled(key).todo) /\ DOMAIN Handled(key) = TtyFields
      BY <2>2, KeyTodo, KeyEdits DEF Receives, IsLine
    <3>2. Echo(tty'.todo) /\ tty.todo = <<>>
      BY <2>2, <3>1 DEF TtyFields, Receives
    <3> QED  BY <1>5, <2>1, <3>2
  <2>3. CASE tty' = [tty EXCEPT !.timer = "off", !.last = NoKey]
    BY <1>0, <1>1, <2>1, <2>3 DEF TtyFields
  <2> QED  BY <1>7, <2>2, <2>3, LateIs
<1>8. CASE Command
  <2>1. /\ tty.todo = <<>> /\ UNCHANGED consoleVars /\ UNCHANGED child
        /\ DOMAIN Ran = TtyFields /\ Ran.todo = <<>>
    BY <1>8, CommandIs, RanIs
  <2>2. CASE tty'.todo = <<>>
    BY <1>1, <2>1, <2>2
  <2>3. ASSUME NEW s, IsSeq(s), tty' = Shows(Ran, s) PROVE ScreenFields' /\ StartInv'
    <3>1. IsSeq(tty'.todo) /\ Balanced(tty'.todo)
      BY <1>0, <2>1, <2>3, ShowsAdds
    <3> QED  BY <1>0, <2>1, <3>1, TodoStart DEF consoleVars
  <2>4. CASE tty' = Shows([Ran EXCEPT !.todo = Clear], Prompt)
    <3> DEFINE t == [Ran EXCEPT !.todo = Clear]
    <3>1. DOMAIN t = TtyFields /\ t.todo = Clear
      BY <2>1 DEF TtyFields
    <3> HIDE DEF t
    <3>2. IsSeq(tty'.todo) /\ Balanced(tty'.todo)
      BY <2>4, <3>1, ClearIs, TextsAre, ShowsAdds DEF t
    <3> QED  BY <1>0, <2>1, <3>2, TodoStart DEF consoleVars
  <2>5. tty' = [Ran EXCEPT !.pc = "answer"] \/ tty' = [Ran EXCEPT !.pc = "load"] => tty'.todo = <<>>
    BY <2>1 DEF TtyFields
  <2> QED  BY <1>8, <2>2, <2>3, <2>4, <2>5, CommandIs, TextsAre
<1>12. ASSUME NEW t, DOMAIN t = TtyFields, t.todo = tty.todo, tty' = Shows(t, Prompt),
              UNCHANGED consoleVars, DOMAIN child' = {"pc", "at"}, child'.at \in Nat
       PROVE  ScreenFields' /\ StartInv'
  <2>1. IsSeq(tty'.todo) /\ Balanced(tty'.todo) /\ (Pending(tty.todo) => Pending(tty'.todo))
    BY <1>0, <1>12, TextsAre, ShowsAdds
  <2> QED  BY <1>12, <2>1, TodoStart DEF consoleVars
<1>9. CASE Servers
  <2>1. CASE Load
    <3>1. /\ tty'.todo = tty.todo /\ UNCHANGED consoleVars
          /\ DOMAIN child' = {"pc", "at"} /\ child'.at \in Nat
      BY <1>0, <2>1 DEF Load, TtyFields
    <3> QED  BY <1>0, <3>1, TodoStart DEF consoleVars
  <2>2. CASE Answer \/ Loaded
    <3>1. PICK t \in {[tty EXCEPT !.pc = "main"], [tty EXCEPT !.pc = "main", !.child = TRUE]} :
             tty' = Shows(t, Prompt)
      BY <2>2 DEF Answer, Loaded
    <3>2. DOMAIN t = TtyFields /\ t.todo = tty.todo
      BY <1>0, <3>1 DEF TtyFields
    <3>3. UNCHANGED consoleVars /\ DOMAIN child' = {"pc", "at"} /\ child'.at \in Nat
      BY <1>0, <2>2 DEF Answer, Loaded
    <3> QED  BY <1>12, <3>1, <3>2, <3>3
  <2> QED  BY <1>9, <2>1, <2>2 DEF Servers
<1>10. CASE ProgramStep
  <2>1. CASE ProgramSends
    <3> DEFINE m == Program[child.at + 1]
    <3>1. m.fn = "disp" => m.text \in Seq(Range(m.text))
      <4>1. child.at + 1 \in DOMAIN Program
        BY <1>0, <2>1, TextAssumption DEF ProgramSends
      <4> QED  BY <4>1, TextAssumption DEF Range
    <3>2. /\ Send("program", m) /\ UNCHANGED <<console, video, crt>>
          /\ tty'.todo = tty.todo /\ DOMAIN child' = {"pc", "at"} /\ child'.at \in Nat
      BY <1>0, <2>1 DEF ProgramSends, TtyFields
    <3> HIDE DEF m
    <3> QED  BY <3>1, <3>2, SendStart
  <2>2. CASE ProgramReceives
    BY <1>0, <1>1, <2>2 DEF ProgramReceives, TtyFields
  <2>3. CASE ProgramExits
    <3>1. UNCHANGED consoleVars /\ DOMAIN child' = {"pc", "at"} /\ child'.at \in Nat
      BY <1>0, <2>3 DEF ProgramExits
    <3>2. CASE tty' = tty
      BY <1>0, <3>1, <3>2, TodoStart DEF consoleVars
    <3>3. CASE tty' = Shows([tty EXCEPT !.child = FALSE], Prompt)
      <4> DEFINE t == [tty EXCEPT !.child = FALSE]
      <4>1. DOMAIN t = TtyFields /\ t.todo = tty.todo
        BY <1>0 DEF TtyFields
      <4> QED  BY <1>12, <3>1, <3>3, <4>1
    <3> QED  BY <2>3, <3>2, <3>3 DEF ProgramExits
  <2> QED  BY <1>10, <2>1, <2>2, <2>3 DEF ProgramStep
<1>11. CASE Output
  BY <1>11, OutputStart
<1> QED  BY <1>2, <1>3, <1>4, <1>6, <1>7, <1>8, <1>9, <1>10, <1>11 DEF Next, TerminalStep

-----------------------------------------------------------------------------
(* The program and the timer.                                              *)

LEMMA ChildStep ==
    ASSUME Inv, ChildInv, [Next]_vars
    PROVE  ChildInv'
<1> USE DEF Inv, TtyFields
<1>0. DOMAIN tty = TtyFields /\ (tty.pc \in Early => tty.head = 0 /\ tty.count = 0)
  BY DEF IsLine
<1>1. CASE UNCHANGED tty
  BY <1>1 DEF ChildInv
<1>2. CASE UNCHANGED vars \/ Output
           \/ \E key \in (IF tty.child THEN {NL} ELSE KeysAt[input.n + 1]) : Press(key)
  BY <1>1, <1>2 DEF vars, ttyVars, Press, Output
<1>3. CASE Welcome
  BY <1>0, <1>3 DEF Welcome, Draws, AnyKey, Pause, terminal_init, Shows, ChildInv, Early
<1>4. CASE Show
  BY <1>0, <1>4 DEF Show, ChildInv
<1>5. ASSUME Receives, ~tty.child, NEW key \in Keys \cup {NL, NoKey}, NEW timer, NEW last,
             \/ tty' = [Handled(key) EXCEPT !.last = last]
             \/ tty' = [Handled(key) EXCEPT !.timer = timer, !.last = last]
      PROVE  ChildInv'
  <2> DEFINE t == Handled(key)
  <2>1. t.child = tty.child /\ t.pc \in {"main", "command"} /\ DOMAIN t = TtyFields
    BY <1>5, KeyTodo, KeyEdits DEF IsLine, Receives
  <2> HIDE DEF t
  <2>2. ~tty'.child /\ tty'.pc \in {"main", "command"}
    BY <1>5, <2>1 DEF t
  <2> QED  BY <2>2 DEF ChildInv, Early
<1>6. CASE ReceiveKey
  <2>1. CASE tty.child
    BY <1>0, <1>6, <2>1 DEF ReceiveKey, ChildInv, Early
  <2>2. CASE ~tty.child
    BY <1>5, <1>6, <2>2 DEF ReceiveKey, KeyInv
  <2> QED  BY <2>1, <2>2
<1>7. CASE LateTimer
  <2>1. ~tty.child
    BY <1>7, LateIs DEF ChildInv
  <2>2. CASE /\ tty.pc \in {"init", "main", "command", "answer"}
             /\ tty' = [tty EXCEPT !.timer = "off", !.last = NoKey]
    BY <1>0, <2>2 DEF ChildInv
  <2> QED  BY <1>5, <1>7, <2>1, <2>2, LateIs
<1>8. CASE Command
  <2>1. /\ DOMAIN Ran = TtyFields /\ Ran.head = 0 /\ Ran.count = 0
        /\ Ran.child = tty.child /\ Ran.timer = tty.timer
    BY RanIs
  <2>2. /\ tty'.head = 0 /\ tty'.count = 0 /\ tty'.child = tty.child /\ tty'.timer = tty.timer
        /\ tty'.pc \in {"main", "answer", "load"}
        /\ tty'.pc = "load" => tty.timer = "off"
    BY <1>8, <2>1, CommandIs, RanIs DEF Shows
  <2> QED  BY <2>2 DEF ChildInv, Early
<1>9. CASE Servers
  BY <1>0, <1>9 DEF Servers, Answer, Load, Loaded, Shows, ChildInv, Early
<1>10. CASE ProgramStep
  BY <1>0, <1>10 DEF ProgramStep, ProgramSends, ProgramReceives, ProgramExits, Receives,
                     Shows, ChildInv, Early
<1> QED  BY <1>2, <1>3, <1>4, <1>6, <1>7, <1>8, <1>9, <1>10 DEF Next, TerminalStep

-----------------------------------------------------------------------------
(* The line on the screen.                                                 *)

\* Where the terminal stands in a step that concerns nobody else.
Echoes(t) == LinePicture(t, video, console.cursor, crt.cursor)

\* w and v are the same at a cell.
Same(v, w, x) == x \in 0 .. CELLS - 1 => w[2 * x] = v[2 * x] /\ w[2 * x + 1] = v[2 * x + 1]

\* The line of u in w begins where that of t in v does, with no more than that
\* one has but what is written there.
Follows(t, u, v, w, c, d) ==
    /\ c \in Int /\ d \in Int /\ c - t.head = d - u.head
    /\ t.head \in Nat /\ t.count \in Nat /\ u.head \in Nat /\ u.count \in Nat
    /\ \A x \in {c - t.head - 2, c - t.head - 1} : Same(v, w, x)
    /\ \A i \in 0 .. u.count - 1 :
          \/ Shown(w, c - t.head + i, u.buf[i])
          \/ i < t.count /\ u.buf[i] = t.buf[i] /\ Same(v, w, c - t.head + i)

LEMMA LineFollows ==
    ASSUME NEW t, NEW u, NEW v, NEW w, NEW c, NEW d,
           Follows(t, u, v, w, c, d), LineShown(t, v, c)
    PROVE  LineShown(u, w, d)
<1> DEFINE l == c - t.head
<1>1. /\ Shown(v, l - 2, ">") /\ Shown(v, l - 1, " ")
      /\ \A i \in 0 .. t.count - 1 : Shown(v, l + i, t.buf[i])
  BY DEF LineShown
<1>2. Shown(w, l - 2, ">") /\ Shown(w, l - 1, " ")
  <2>1. l - 2 \in {l - 2, l - 1} /\ l - 1 \in {l - 2, l - 1}
    OBVIOUS
  <2>2. \A x \in {l - 2, l - 1} : Same(v, w, x)
    BY Zenon DEF Follows
  <2> HIDE DEF l
  <2> QED  BY <1>1, <2>1, <2>2, Zenon DEF Shown, Same
<1>3. ASSUME NEW i \in 0 .. u.count - 1 PROVE Shown(w, l + i, u.buf[i])
  <2>0. t.count \in Nat /\ u.count \in Nat
    BY Zenon DEF Follows
  <2>1. \/ Shown(w, l + i, u.buf[i])
        \/ i < t.count /\ u.buf[i] = t.buf[i] /\ Same(v, w, l + i)
    BY Zenon DEF Follows
  <2>2. i < t.count => i \in 0 .. t.count - 1
    BY <2>0
  <2> HIDE DEF l
  <2> QED  BY <1>1, <2>1, <2>2, Zenon DEF Shown, Same
<1>4. d - u.head = l
  BY Zenon DEF Follows
<1> HIDE DEF l
<1> QED  BY <1>2, <1>3, <1>4 DEF LineShown

LEMMA KeyPicture ==
    ASSUME IsLine(tty), ScreenFields, InMemory, Receives, Echoes(tty),
           NEW key \in Keys \cup {NL, NoKey}, NEW t, t = Handled(key), t.pc = "main"
    PROVE  Echoes(t)
<1> DEFINE c == console.cursor
           h == tty.head
           n == tty.count
<1> USE DEF TtyFields
<1>1. /\ DOMAIN tty = TtyFields /\ tty.pc = "main" /\ tty.todo = <<>>
      /\ c \in Int /\ h \in Nat /\ n \in Nat /\ h <= n
      /\ c \in 0 .. CELLS - 1 /\ CELLS \in Nat /\ DOMAIN video = 0 .. 2 * CELLS - 1
  BY ConsoleAssumption DEF IsLine, Receives, InMemory, ScreenFields
<1>2. LineShown(tty, video, c) /\ crt.cursor = c
  <2>1. Len(tty.todo) = 0 /\ \A a : <<a>> # <<>> /\ \A b : <<a, b>> # <<>>
    BY <1>1
  <2>2. ~PromptToCome(tty, video, c)
    BY <1>1, <2>1 DEF PromptToCome
  <2>3. ~EchoToCome(tty, video, c)
    BY <1>1, <2>1 DEF EchoToCome
  <2> QED  BY <2>2, <2>3 DEF Echoes, LinePicture
<1>3. CASE t = tty
  BY <1>3
<1>4. ASSUME NEW do \in {<<Step("screen")>>, <<Step("up"), Step("screen")>>,
                         <<Step("scroll"), Step("screen")>>, <<Step("cursor")>>},
             t = [tty EXCEPT !.todo = do]
      PROVE  Echoes(t)
  <2>1. t.todo = do /\ t.head = h /\ t.count = n /\ t.buf = tty.buf
    BY <1>1, <1>4
  <2>2. LineShown(t, video, c)
    BY <1>2, <2>1 DEF LineShown
  <2> QED  BY <2>1, <2>2 DEF Echoes, LinePicture, EchoToCome
<1>5. CASE t = Enter
  BY <1>1, <1>5 DEF Enter
<1>6. CASE t = Backspace
  <2>1. CASE ~Erasable
    BY <1>4, <1>6, <2>1 DEF Backspace
  <2>2. CASE Erasable
    <3>1. /\ h = n /\ h > 0 /\ t.head = h - 1 /\ t.count = n - 1 /\ t.buf = tty.buf
          /\ t.todo = <<Step("erase"), Step("cursor")>>
      BY <1>1, <1>6, <2>2, NoWrap DEF Backspace, Erasable, AtEnd
    <3>2. LineShown(t, [video EXCEPT ![2 * c - 1] = BLANK], c - 1)
      <4> DEFINE w == [video EXCEPT ![2 * c - 1] = BLANK]
      <4>1. \A x \in Int : x < c - 1 => Same(video, w, x)
        BY <1>1 DEF Same
      <4>2. c - h = (c - 1) - t.head
        BY <1>1, <3>1
      <4>3. \A i \in 0 .. t.count - 1 :
               /\ i < tty.count /\ t.buf[i] = tty.buf[i] /\ c - h + i \in Int /\ c - h + i < c - 1
        BY <1>1, <3>1
      <4>4. \A x \in {c - h - 2, c - h - 1} : x \in Int /\ x < c - 1
        BY <1>1, <3>1
      <4> HIDE DEF w
      <4>5. /\ \A x \in {c - h - 2, c - h - 1} : Same(video, w, x)
            /\ \A i \in 0 .. t.count - 1 :
                  i < tty.count /\ t.buf[i] = tty.buf[i] /\ Same(video, w, c - h + i)
        BY <4>1, <4>3, <4>4
      <4>6. c - 1 \in Int /\ t.head \in Nat /\ t.count \in Nat
        BY <1>1, <3>1
      <4>7. LineShown(t, w, c - 1)
        <5>1. Follows(tty, t, video, w, c, c - 1)
          BY <1>1, <4>2, <4>5, <4>6 DEF Follows
        <5> QED  BY <1>2, <5>1, LineFollows
      <4> QED  BY <4>7 DEF w
    <3> QED  BY <3>1, <3>2 DEF Echoes, LinePicture, EchoToCome
  <2> QED  BY <2>1, <2>2
<1>7. CASE t = CursorLeft /\ t # tty
  <2>1. /\ h > 0 /\ t.head = h - 1 /\ t.count = n /\ t.buf = tty.buf
        /\ t.todo = <<Step("left"), Step("cursor")>>
    BY <1>1, <1>7, NoWrap DEF CursorLeft, Ignore
  <2>2. LineShown(t, video, c - 1)
    <3>1. c - h = (c - 1) - t.head /\ t.head \in Nat /\ t.count \in Nat /\ c - 1 \in Int
      BY <1>1, <2>1
    <3>2. Follows(tty, t, video, video, c, c - 1)
      BY <1>1, <2>1, <3>1 DEF Follows, Same
    <3> QED  BY <1>2, <3>2, LineFollows
  <2> QED  BY <2>1, <2>2 DEF Echoes, LinePicture, EchoToCome
<1>8. CASE t = CursorRight /\ t # tty
  <2>1. h < n /\ h + 1 < TTY_BUFFER_NUM
    <3>1. tty.head % TTY_BUFFER_NUM < tty.count
      BY <1>8, Zenon DEF CursorRight, Ignore
    <3>2. h < n
      BY <3>1, NoWrap
    <3> QED  BY <3>2, TerminalAssumption DEF IsLine
  <2>2. /\ t.head = h + 1 /\ t.count = n /\ t.buf = tty.buf
        /\ t.todo = <<Step("right"), Step("cursor")>>
    BY <1>1, <1>8, <2>1, NoWrap DEF CursorRight, Ignore
  <2>3. LineShown(t, video, c + 1)
    <3>1. c - h = (c + 1) - t.head /\ t.head \in Nat /\ t.count \in Nat /\ c + 1 \in Int
      BY <1>1, <2>2
    <3>2. Follows(tty, t, video, video, c, c + 1)
      BY <1>1, <2>2, <3>1 DEF Follows, Same
    <3> QED  BY <1>2, <3>2, LineFollows
  <2> QED  BY <2>2, <2>3 DEF Echoes, LinePicture, EchoToCome
<1>9. CASE key # NL /\ t = TypeChar(key) /\ t # tty
  <2> DEFINE v == [video EXCEPT ![2 * c] = key, ![2 * c + 1] = DEFAULT]
             put == [Step("put") EXCEPT !.ch = key]
  <2>0. tty.count < TTY_BUFFER_NUM - MARGIN /\ h + 1 < TTY_BUFFER_NUM
    <3>1. tty.count < TTY_BUFFER_NUM - MARGIN
      BY <1>9, Zenon DEF TypeChar, Ignore
    <3> QED  BY <3>1, TerminalAssumption DEF IsLine
  <2>1. /\ t.head = h + 1 /\ t.count = (IF h = n THEN n + 1 ELSE n)
        /\ t.buf = [tty.buf EXCEPT ![h] = key]
        /\ h \in DOMAIN tty.buf
    BY <1>1, <1>9, <2>0, NoWrap, TerminalAssumption DEF TypeChar, AtEnd, IsLine
  <2>2. t.todo = <<put, Step("cursor")>>
    <3>1. t.todo = DispChar(key)
      BY <1>1, <1>9, <2>0 DEF TypeChar
    <3> QED  BY <1>9, <3>1, DispCharIs, Zenon
  <2>3. t.todo[1].ch = key
    <3>1. put.ch = key
      BY DEF Step
    <3> HIDE DEF put
    <3> QED  BY <2>2, <3>1
  <2>4. LineShown(t, v, c + 1)
    <3>1. /\ \A x \in Int : x # c => Same(video, v, x)
          /\ v[2 * c] = key /\ v[2 * c + 1] = DEFAULT
      <4>1. \A x \in 0 .. CELLS - 1 : x # c => /\ 2 * x # 2 * c /\ 2 * x # 2 * c + 1
                                             /\ 2 * x + 1 # 2 * c /\ 2 * x + 1 # 2 * c + 1
        BY <1>1
      <4>2. /\ 2 * c \in DOMAIN video /\ 2 * c + 1 \in DOMAIN video /\ 2 * c # 2 * c + 1
            /\ \A x \in 0 .. CELLS - 1 : 2 * x \in DOMAIN video /\ 2 * x + 1 \in DOMAIN video
        BY <1>1
      <4>3. \A y \in DOMAIN video : y # 2 * c /\ y # 2 * c + 1 => v[y] = video[y]
        OBVIOUS
      <4>4. v[2 * c] = key /\ v[2 * c + 1] = DEFAULT
        BY <4>2
      <4> HIDE DEF v
      <4>5. ASSUME NEW x \in 0 .. CELLS - 1, x # c
            PROVE  v[2 * x] = video[2 * x] /\ v[2 * x + 1] = video[2 * x + 1]
        BY <4>1, <4>2, <4>3, <4>5, Zenon
      <4> QED  BY <4>4, <4>5 DEF Same
    <3>2. /\ c - h = (c + 1) - t.head /\ c + 1 \in Int /\ t.head \in Nat /\ t.count \in Nat
      BY <1>1, <2>1
    <3>3. \A x \in {c - h - 2, c - h - 1} : x \in Int /\ x # c
      BY <1>1
    <3>4. \A i \in 0 .. t.count - 1 :
             \/ i = h /\ c - h + i = c /\ t.buf[i] = key
             \/ /\ i < tty.count /\ t.buf[i] = tty.buf[i] /\ c - h + i \in Int /\ c - h + i # c
      <4>1. t.buf[h] = key
        BY <2>1, Zenon
      <4>2. \A i : i \in DOMAIN tty.buf /\ i # h => t.buf[i] = tty.buf[i]
        BY <2>1, Zenon
      <4>3. 0 .. t.count - 1 \subseteq 0 .. n
        BY <1>1, <2>1
      <4>4. \A i \in 0 .. n : i \in DOMAIN tty.buf
        <5>1. n < TTY_BUFFER_NUM /\ DOMAIN tty.buf = 0 .. TTY_BUFFER_NUM - 1
          BY <2>0, TerminalAssumption DEF IsLine
        <5> QED  BY <1>1, <5>1, TerminalAssumption
      <4> SUFFICES ASSUME NEW i \in 0 .. t.count - 1
                   PROVE  \/ i = h /\ c - h + i = c /\ t.buf[i] = key
                          \/ /\ i < tty.count /\ t.buf[i] = tty.buf[i]
                             /\ c - h + i \in Int /\ c - h + i # c
        OBVIOUS
      <4>5. CASE i = h
        <5>1. c - h + i = c
          BY <1>1, <4>5
        <5> QED  BY <4>1, <4>5, <5>1, Zenon
      <4>6. CASE i # h
        <5>1. t.buf[i] = tty.buf[i]
          BY <4>2, <4>3, <4>4, <4>6, Zenon
        <5>2. i < tty.count /\ c - h + i \in Int /\ c - h + i # c
          <6>1. t.count = (IF h = n THEN n + 1 ELSE n)
            BY <2>1, Zenon
          <6> QED  BY <1>1, <4>6, <6>1
        <5> QED  BY <5>1, <5>2, Zenon
      <4> QED  BY <4>5, <4>6, Zenon
    <3> HIDE DEF v
    <3>5. \A i \in 0 .. t.count - 1 :
             \/ Shown(v, c - h + i, t.buf[i])
             \/ i < tty.count /\ t.buf[i] = tty.buf[i] /\ Same(video, v, c - h + i)
      BY <1>1, <3>1, <3>4 DEF Shown
    <3>6. \A x \in {c - h - 2, c - h - 1} : Same(video, v, x)
      BY <3>1, <3>3
    <3>7. Follows(tty, t, video, v, c, c + 1)
      BY <1>1, <3>2, <3>5, <3>6 DEF Follows
    <3> QED  BY <1>2, <3>7, LineFollows
  <2> HIDE DEF put, v
  <2>5. t.todo = <<[Step("put") EXCEPT !.ch = key], Step("cursor")>>
        /\ LineShown(t, [video EXCEPT ![2 * c] = key, ![2 * c + 1] = DEFAULT], c + 1)
    BY <2>2, <2>4 DEF put, v
  <2> QED  BY <2>3, <2>5, Zenon DEF Echoes, LinePicture, EchoToCome
<1> QED  BY <1>3, <1>4, <1>5, <1>6, <1>7, <1>8, <1>9, HandledIs

LEMMA TuplesAre ==
    ASSUME NEW a, NEW b
    PROVE  /\ <<a, b>> # <<>> /\ <<a, b>>[1] = a /\ <<a, b>>[2] = b /\ Tail(<<a, b>>) = <<b>>
           /\ <<a>> # <<>> /\ <<a>>[1] = a /\ Tail(<<a>>) = <<>>
           /\ <<a>> \o <<>> = <<a>>
OBVIOUS

\* What the statements of an echo, and of a prompt, do.
LEMMA StatementDoes ==
    ASSUME ScreenFields, NEW s, Perform(s)
    PROVE  /\ s.do = "put" => /\ console'.cursor = console.cursor + 1 /\ crt' = crt
                              /\ video' = [video EXCEPT ![2 * console.cursor] = s.ch,
                                                        ![2 * console.cursor + 1] = DEFAULT]
           /\ s.do = "erase" => /\ console'.cursor = console.cursor - 1
                                /\ video' = [video EXCEPT ![2 * console.cursor - 1] = BLANK]
           /\ s.do = "left" => console'.cursor = console.cursor - 1 /\ video' = video
           /\ s.do = "right" => console'.cursor = console.cursor + 1 /\ video' = video
           /\ s.do \in {"up", "scroll"} => console'.cursor = console.cursor /\ video' = video
           /\ s.do \in {"cursor", "screen"} =>
                 console' = console /\ video' = video /\ crt'.cursor = console.cursor
<1>1. IsPlace(console) /\ IsPlace(crt)
  BY DEF ScreenFields
<1>2. CASE s.do \in {"put", "erase"}
  BY <1>1, <1>2, PlaceMoves DEF Perform, Put, Erase, At
<1>3. CASE s.do \in {"left", "right", "up", "scroll"}
  BY <1>1, <1>3, PlaceMoves DEF Perform, Moves
<1>4. CASE s.do \in {"cursor", "screen"}
  BY <1>1, <1>4, PlaceMoves DEF Perform
<1> QED  BY <1>2, <1>3, <1>4

\* A statement that is not the first of a character.
LEMMA ShowsStep ==
    ASSUME Show, ScreenFields, DOMAIN tty = TtyFields, tty.todo[1].do # "char"
    PROVE  /\ Perform(tty.todo[1]) /\ tty' = [tty EXCEPT !.todo = Tail(tty.todo)]
           /\ tty'.todo = Tail(tty.todo)
<1>1. tty.todo # <<>> /\ IsSeq(tty.todo)
  BY DEF Show, ScreenFields
<1>2. Head(tty.todo) = tty.todo[1]
  BY <1>1, TailIs
<1>3. Statements(tty.todo) = tty.todo
  BY <1>2, Zenon DEF Statements
<1>4. Perform(tty.todo[1]) /\ tty' = [tty EXCEPT !.todo = Tail(tty.todo)]
  BY <1>2, <1>3 DEF Show
<1> QED  BY <1>4 DEF TtyFields

LEMMA SameLineShown ==
    ASSUME NEW t, NEW u, NEW v, NEW c, LineShown(t, v, c),
           u.head = t.head, u.count = t.count, u.buf = t.buf
    PROVE  LineShown(u, v, c)
BY DEF LineShown

LEMMA EchoShows ==
    ASSUME Show, ScreenFields, DOMAIN tty = TtyFields,
           EchoToCome(tty, video, console.cursor)
    PROVE  LinePicture(tty', video', console'.cursor, crt'.cursor)
<1> DEFINE c == console.cursor
           todo == tty.todo
<1>0. ASSUME todo[1].do # "char"
      PROVE  /\ tty'.head = tty.head /\ tty'.count = tty.count /\ tty'.buf = tty.buf
             /\ tty'.todo = Tail(todo) /\ Perform(todo[1])
             /\ \A v, d : LineShown(tty, v, d) => LineShown(tty', v, d)
  <2>1. /\ tty' = [tty EXCEPT !.todo = Tail(todo)]
        /\ tty'.todo = Tail(todo) /\ Perform(todo[1])
    BY <1>0, ShowsStep
  <2>2. tty'.head = tty.head /\ tty'.count = tty.count /\ tty'.buf = tty.buf
    BY <2>1 DEF TtyFields
  <2> QED  BY <2>1, <2>2, SameLineShown
<1>1. ASSUME todo = <<Step("cursor")>> \/ todo = <<Step("screen")>>, LineShown(tty, video, c)
      PROVE  LinePicture(tty', video', console'.cursor, crt'.cursor)
  <2>1. PICK do \in {"cursor", "screen"} : todo = <<Step(do)>>
    BY <1>1
  <2>2. todo[1] = Step(do) /\ Step(do).do = do /\ Tail(todo) = <<>>
    BY <2>1, StepIs, TuplesAre
  <2>3. console' = console /\ video' = video /\ crt'.cursor = c /\ tty'.todo = <<>>
        /\ LineShown(tty', video, c)
    BY <1>0, <1>1, <2>2, StatementDoes
  <2> QED  BY <2>3 DEF LinePicture
<1>2. ASSUME NEW s, NEW last \in {"cursor", "screen"}, todo = <<s, Step(last)>>,
             s.do # "char", Perform(s) => LineShown(tty, video', console'.cursor)
      PROVE  LinePicture(tty', video', console'.cursor, crt'.cursor)
  <2>1. todo[1] = s /\ Tail(todo) = <<Step(last)>>
    BY <1>2, TuplesAre
  <2>2. tty'.todo = <<Step(last)>> /\ LineShown(tty', video', console'.cursor)
    BY <1>0, <1>2, <2>1
  <2>3. tty'.todo \in {<<Step("cursor")>>, <<Step("screen")>>}
    BY <2>2
  <2> QED  BY <2>2, <2>3 DEF LinePicture, EchoToCome
<1>3. ASSUME NEW do \in {"up", "scroll"}, todo = <<Step(do), Step("screen")>>,
             LineShown(tty, video, c)
      PROVE  LinePicture(tty', video', console'.cursor, crt'.cursor)
  <2>1. Step(do).do = do
    BY StepIs
  <2>2. Perform(Step(do)) => LineShown(tty, video', console'.cursor)
    BY <1>3, <2>1, StatementDoes
  <2> QED  BY <1>2, <1>3, <2>1, <2>2
<1>4. ASSUME NEW ch, todo = <<[Step("put") EXCEPT !.ch = ch], Step("cursor")>>,
             LineShown(tty, [video EXCEPT ![2 * c] = ch, ![2 * c + 1] = DEFAULT], c + 1)
      PROVE  LinePicture(tty', video', console'.cursor, crt'.cursor)
  <2> DEFINE s == [Step("put") EXCEPT !.ch = ch]
  <2>1. s.do = "put" /\ s.ch = ch
    BY DEF Step
  <2> HIDE DEF s
  <2>2. Perform(s) => LineShown(tty, video', console'.cursor)
    BY <1>4, <2>1, StatementDoes
  <2> QED  BY <1>2, <1>4, <2>1, <2>2 DEF s
<1>5. ASSUME todo = <<Step("left"), Step("cursor")>>, LineShown(tty, video, c - 1)
      PROVE  LinePicture(tty', video', console'.cursor, crt'.cursor)
  <2>1. Step("left").do = "left"
    BY StepIs
  <2>2. Perform(Step("left")) => LineShown(tty, video', console'.cursor)
    BY <1>5, <2>1, StatementDoes
  <2> QED  BY <1>2, <1>5, <2>1, <2>2
<1>6. ASSUME todo = <<Step("right"), Step("cursor")>>, LineShown(tty, video, c + 1)
      PROVE  LinePicture(tty', video', console'.cursor, crt'.cursor)
  <2>1. Step("right").do = "right"
    BY StepIs
  <2>2. Perform(Step("right")) => LineShown(tty, video', console'.cursor)
    BY <1>6, <2>1, StatementDoes
  <2> QED  BY <1>2, <1>6, <2>1, <2>2
<1>7. ASSUME todo = <<Step("erase"), Step("cursor")>>,
             LineShown(tty, [video EXCEPT ![2 * c - 1] = BLANK], c - 1)
      PROVE  LinePicture(tty', video', console'.cursor, crt'.cursor)
  <2>1. Step("erase").do = "erase"
    BY StepIs
  <2>2. Perform(Step("erase")) => LineShown(tty, video', console'.cursor)
    BY <1>7, <2>1, StatementDoes
  <2> QED  BY <1>2, <1>7, <2>1, <2>2
<1> QED  BY <1>1, <1>3, <1>4, <1>5, <1>6, <1>7, Zenon DEF EchoToCome

LEMMA PromptShows ==
    ASSUME Show, ScreenFields, InMemory, DOMAIN tty = TtyFields,
           PromptToCome(tty, video, console.cursor)
    PROVE  LinePicture(tty', video', console'.cursor, crt'.cursor)
<1> DEFINE c == console.cursor
           todo == tty.todo
           rest == tty'.todo
           tail == Tail(todo)
           n == Len(todo)
           gt == Char(">")
           sp == Char(" ")
<1>1. /\ todo # <<>> /\ IsSeq(todo) /\ n \in Nat /\ n >= 1
      /\ IsSeq(tail) /\ Len(tail) = n - 1
      /\ \A i \in 1 .. n - 1 : tail[i] = todo[i + 1]
  <2>1. todo # <<>> /\ IsSeq(todo)
    BY DEF Show, ScreenFields
  <2> QED  BY <2>1, TailIs
<1>2. PICK first : Pops(todo, first, rest) /\ Perform(first)
  <2>1. Pops(todo, Head(Statements(todo)), Tail(Statements(todo)))
    BY <1>1, StatementsAre
  <2>2. Perform(Head(Statements(todo))) /\ rest = Tail(Statements(todo))
    BY DEF Show, TtyFields
  <2> QED  BY <2>1, <2>2
<1>3. /\ tty'.head = 0 /\ tty'.count = 0 /\ tty.head = 0 /\ tty.count = 0 /\ tty'.buf = tty.buf
  BY DEF Show, PromptToCome, TtyFields
<1>4. /\ c \in 0 .. CELLS - 1 /\ CELLS \in Nat /\ DOMAIN video = 0 .. 2 * CELLS - 1
  BY ConsoleAssumption DEF InMemory, ScreenFields
<1>9. \/ n >= 2 /\ todo[n - 1] = gt /\ todo[n] = sp
      \/ todo \in {<<Step("cursor"), sp>>, <<sp>>} /\ Shown(video, c - 1, ">")
  BY DEF PromptToCome
<1>12. /\ todo[1].do # "char" => first = todo[1] /\ rest = tail
       /\ todo[1].do = "char" /\ todo[1].ch # NL =>
             first = [Step("put") EXCEPT !.ch = todo[1].ch] /\ rest = <<Step("cursor")>> \o tail
       /\ \/ rest = tail
          \/ rest = <<Step("home"), Step("cursor")>> \o tail
          \/ rest = <<Step("cursor")>> \o tail
  BY <1>2 DEF Pops
<1>13. tail = Tail(todo) /\ rest = tty'.todo /\ todo = tty.todo /\ n = Len(todo)
  OBVIOUS
<1>14. gt.do = "char" /\ gt.ch = ">" /\ sp.do = "char" /\ sp.ch = " "
  BY CharIs
<1>15. n \in Nat /\ n >= 1
  BY <1>1
<1> HIDE DEF n, rest, tail, todo, gt, sp
<1>5. ASSUME n >= 2, todo[n - 1] = gt, todo[n] = sp, n > 2
      PROVE  PromptToCome(tty', video', console'.cursor)
  <2>1. tail[n - 2] = gt /\ tail[n - 1] = sp
    <3>1. n - 2 \in 1 .. n - 1 /\ n - 1 \in 1 .. n - 1 /\ n - 2 + 1 = n - 1 /\ n - 1 + 1 = n
      BY <1>1, <1>5
    <3> QED  BY <1>1, <1>5, <3>1
  <2>2. Len(rest) >= 2 /\ rest[Len(rest) - 1] = gt /\ rest[Len(rest)] = sp
    <3>1. CASE rest = tail
      BY <1>1, <1>5, <2>1, <3>1
    <3>2. ASSUME NEW pre, IsSeq(pre), rest = pre \o tail
          PROVE  Len(rest) >= 2 /\ rest[Len(rest) - 1] = gt /\ rest[Len(rest)] = sp
      <4>1. /\ Len(pre) \in Nat /\ Len(rest) = Len(pre) + (n - 1)
            /\ \A i \in 1 .. n - 1 : rest[Len(pre) + i] = tail[i]
        <5>1. /\ Len(pre) \in Nat /\ Len(pre \o tail) = Len(pre) + Len(tail)
              /\ \A i \in 1 .. Len(tail) : (pre \o tail)[Len(pre) + i] = tail[i]
          <6>1. IsSeq(pre) /\ IsSeq(tail)
            BY <1>1, <3>2
          <6> QED  BY <6>1, JoinIs
        <5> QED  BY <1>1, <3>2, <5>1
      <4>2. n - 2 \in 1 .. n - 1 /\ n - 1 \in 1 .. n - 1
        BY <1>1, <1>5
      <4>3. rest[Len(pre) + (n - 2)] = gt /\ rest[Len(pre) + (n - 1)] = sp
        BY <2>1, <4>1, <4>2
      <4>4. Len(rest) - 1 = Len(pre) + (n - 2) /\ Len(rest) >= 2
        BY <1>1, <1>5, <4>1
      <4> QED  BY <4>1, <4>3, <4>4
    <3> QED  BY <1>12, <3>1, <3>2, PreBalanced
  <2> QED  BY <1>3, <1>13, <2>2 DEF PromptToCome, gt, sp
<1>6. ASSUME n = 2, todo[1] = gt, todo[2] = sp
      PROVE  PromptToCome(tty', video', console'.cursor)
  <2>1. first = [Step("put") EXCEPT !.ch = ">"] /\ rest = <<Step("cursor")>> \o tail
    <3>1. todo[1].do = "char" /\ todo[1].ch = ">" /\ ">" # NL
      BY <1>6, <1>14 DEF NL
    <3> QED  BY <1>12, <3>1
  <2>2. tail = <<sp>>
    <3> DEFINE S == Range(tail)
    <3>1. tail \in Seq(S) /\ Len(tail) = 1 /\ tail[1] = sp
      <4>1. 1 \in 1 .. n - 1 /\ n - 1 = 1 /\ 1 + 1 = 2
        BY <1>6
      <4> QED  BY <1>1, <1>6, <4>1 DEF IsSeq
    <3> HIDE DEF S
    <3> QED  BY <3>1
  <2>3. rest = <<Step("cursor"), sp>>
    BY <2>1, <2>2, ShortJoins
  <2>4. Shown(video', console'.cursor - 1, ">")
    <3>1. first.do = "put" /\ first.ch = ">"
      BY <2>1 DEF Step
    <3>2. /\ console'.cursor = c + 1
          /\ video' = [video EXCEPT ![2 * c] = ">", ![2 * c + 1] = DEFAULT]
      BY <1>2, <3>1, StatementDoes
    <3>3. 2 * c \in DOMAIN video /\ 2 * c + 1 \in DOMAIN video /\ 2 * c # 2 * c + 1
      BY <1>4
    <3>4. video'[2 * c] = ">" /\ video'[2 * c + 1] = DEFAULT
      BY <3>2, <3>3, Zenon
    <3>5. console'.cursor - 1 = c
      BY <1>4, <3>2
    <3> QED  BY <1>4, <3>4, <3>5, Zenon DEF Shown
  <2> QED  BY <1>3, <1>13, <2>3, <2>4 DEF PromptToCome, gt, sp
<1>7. ASSUME todo = <<Step("cursor"), sp>>, Shown(video, c - 1, ">")
      PROVE  PromptToCome(tty', video', console'.cursor)
  <2>1. todo[1].do = "cursor" /\ todo[1] = Step("cursor") /\ tail = <<sp>>
    <3>1. Step("cursor").do = "cursor"
      BY StepIs
    <3> DEFINE a == Step("cursor")
    <3>2. todo = <<a, sp>>
      BY <1>7
    <3> HIDE DEF a
    <3>3. todo[1] = a /\ tail = <<sp>>
      BY <1>13, <3>2, TuplesAre
    <3> QED  BY <3>1, <3>3 DEF a
  <2>2. first = todo[1] /\ rest = <<sp>>
    BY <1>12, <2>1
  <2>3. console' = console /\ video' = video
    BY <1>2, <2>1, <2>2, StatementDoes
  <2> QED  BY <1>3, <1>7, <1>13, <2>2, <2>3 DEF PromptToCome, gt, sp
<1>8. ASSUME todo = <<sp>>, Shown(video, c - 1, ">")
      PROVE  LinePicture(tty', video', console'.cursor, crt'.cursor)
  <2>1. todo[1].do = "char" /\ todo[1].ch = " " /\ tail = <<>> /\ " " # NL
    <3>1. todo[1] = sp /\ tail = <<>>
      BY <1>8, <1>13, TuplesAre
    <3> QED  BY <1>14, <3>1 DEF NL
  <2>2. first = [Step("put") EXCEPT !.ch = " "] /\ rest = <<Step("cursor")>>
    BY <1>12, <2>1, TuplesAre
  <2>3. first.do = "put" /\ first.ch = " "
    BY <2>2 DEF Step
  <2>4. /\ console'.cursor = c + 1
        /\ video' = [video EXCEPT ![2 * c] = " ", ![2 * c + 1] = DEFAULT]
    BY <1>2, <2>3, StatementDoes
  <2>5. Shown(video', c, " ") /\ Shown(video', c - 1, ">")
    <3>1. /\ 2 * c \in DOMAIN video /\ 2 * c + 1 \in DOMAIN video /\ 2 * c # 2 * c + 1
          /\ 2 * (c - 1) \in DOMAIN video /\ 2 * (c - 1) + 1 \in DOMAIN video
          /\ 2 * (c - 1) # 2 * c /\ 2 * (c - 1) # 2 * c + 1
          /\ 2 * (c - 1) + 1 # 2 * c /\ 2 * (c - 1) + 1 # 2 * c + 1
      <4>1. c \in 0 .. CELLS - 1 /\ c - 1 \in 0 .. CELLS - 1
        BY <1>4, <1>8 DEF Shown
      <4> HIDE DEF c
      <4> QED  BY <1>4, <4>1
    <3>2. /\ video'[2 * c] = " " /\ video'[2 * c + 1] = DEFAULT
          /\ video'[2 * (c - 1)] = video[2 * (c - 1)]
          /\ video'[2 * (c - 1) + 1] = video[2 * (c - 1) + 1]
      BY <2>4, <3>1, Zenon
    <3> QED  BY <1>4, <1>8, <3>2 DEF Shown
  <2>6. LineShown(tty', video', console'.cursor)
    <3>1. c + 1 - 0 - 2 = c - 1 /\ c + 1 - 0 - 1 = c /\ \A i \in 0 .. 0 - 1 : FALSE
      BY <1>4
    <3>2. /\ console'.cursor - tty'.head - 2 = c - 1 /\ console'.cursor - tty'.head - 1 = c
          /\ tty'.count = 0
      <4> DEFINE d == console'.cursor
                 h == tty'.head
      <4>1. c \in Int
        BY <1>4
      <4>2. d = c + 1 /\ h = 0 /\ tty'.count = 0
        BY <1>3, <2>4
      <4> HIDE DEF c, d, h
      <4>3. d - h - 2 = c - 1 /\ d - h - 1 = c
        BY <4>1, <4>2
      <4> QED  BY <4>2, <4>3 DEF d, h
    <3> HIDE DEF c
    <3> QED  BY <2>5, <3>1, <3>2, Zenon DEF LineShown
  <2> QED  BY <1>13, <2>2, <2>6 DEF LinePicture, EchoToCome
<1>10. n >= 2 => n > 2 \/ (n = 2 /\ n - 1 = 1)
  BY <1>1
<1>11. PromptToCome(tty', video', console'.cursor)
          => LinePicture(tty', video', console'.cursor, crt'.cursor)
  BY DEF LinePicture
<1> QED  BY <1>5, <1>6, <1>7, <1>8, <1>9, <1>10, <1>11

EndsInPrompt(s) ==
    IsSeq(s) /\ Len(s) >= 2 /\ s[Len(s) - 1] = ">" /\ s[Len(s)] = " "

LEMMA TextsEnd ==
    /\ EndsInPrompt(Prompt)
    /\ EndsInPrompt(Title \o Prompt) /\ EndsInPrompt(Listing \o Prompt)
<1>1. Len(Prompt) = 3 /\ Prompt[2] = ">" /\ Prompt[3] = " "
  BY DEF Prompt
<1>2. ASSUME NEW s, IsSeq(s), IsSeq(s \o Prompt) PROVE EndsInPrompt(s \o Prompt)
  <2> DEFINE p == Prompt
             j == s \o p
  <2>1. IsSeq(p) /\ Len(p) = 3 /\ p[2] = ">" /\ p[3] = " "
    BY <1>1, TextsAre
  <2> HIDE DEF p
  <2>2. /\ Len(s) \in Nat /\ Len(j) = Len(s) + 3
        /\ \A i \in 1 .. 3 : j[Len(s) + i] = p[i]
    <3>1. /\ Len(s) \in Nat /\ Len(j) = Len(s) + Len(p)
          /\ \A i \in 1 .. Len(p) : j[Len(s) + i] = p[i]
      <4>1. IsSeq(s) /\ IsSeq(p)
        BY <1>2, <2>1
      <4> QED  BY <4>1, JoinIs
    <3> HIDE DEF j
    <3> QED  BY <2>1, <3>1
  <2> HIDE DEF j
  <2>3. j[Len(s) + 2] = ">" /\ j[Len(s) + 3] = " "
    <3>1. 2 \in 1 .. 3 /\ 3 \in 1 .. 3
      OBVIOUS
    <3> QED  BY <2>1, <2>2, <3>1, Zenon
  <2>4. Len(j) >= 2 /\ Len(j) - 1 = Len(s) + 2
    BY <2>2
  <2>5. IsSeq(j)
    BY <1>2 DEF j, p
  <2>6. EndsInPrompt(j)
    BY <2>2, <2>3, <2>4, <2>5 DEF EndsInPrompt
  <2> QED  BY <2>6 DEF j, p
<1>3. EndsInPrompt(Prompt)
  <2>1. Len(Prompt) >= 2 /\ Len(Prompt) - 1 = 2
    <3>1. Len(Prompt) = 3
      BY <1>1
    <3> QED  BY <3>1
  <2> QED  BY <1>1, <2>1, TextsAre, Zenon DEF EndsInPrompt
<1>4. IsSeq(Title) /\ IsSeq(Listing)
  BY TextAssumption DEF IsSeq
<1> QED  BY <1>2, <1>3, <1>4, TextsAre

\* The terminal begins to show a prompt.
LEMMA PromptBegins ==
    ASSUME NEW t, DOMAIN t = TtyFields, t.head = 0, t.count = 0, IsSeq(t.todo),
           NEW s, EndsInPrompt(s), tty' = Shows(t, s), UNCHANGED out
    PROVE  PictureInv'
<1> DEFINE todo == t.todo
           d == DispStr(s)
           j == todo \o d
           gt == Char(">")
           sp == Char(" ")
           m == Len(todo)
           n == Len(s)
<1>1. tty'.todo = j /\ tty'.head = 0 /\ tty'.count = 0 /\ tty'.fresh = (out.todo = <<>>)
  BY DEF Shows, TtyFields, OutputIdle
<1>2. IsSeq(s) /\ n >= 2 /\ s[n - 1] = ">" /\ s[n] = " "
  BY DEF EndsInPrompt
<1>3. IsSeq(d) /\ Len(d) = n /\ n \in Nat /\ \A i \in 1 .. n : d[i] = Char(s[i])
  BY <1>2, DispStrIs
<1>4. n - 1 \in 1 .. n /\ n \in 1 .. n /\ n \in Nat /\ n >= 2
  <2>1. n \in Nat /\ n >= 2
    BY <1>2, <1>3
  <2> HIDE DEF n
  <2> QED  BY <2>1
<1>5. d[n - 1] = gt /\ d[n] = sp
  BY <1>2, <1>3, <1>4, Zenon
<1> HIDE DEF d, gt, sp
<1>6. m \in Nat /\ Len(j) = m + n /\ \A i \in 1 .. n : j[m + i] = d[i]
  <2>1. IsSeq(todo) /\ IsSeq(d) /\ Len(d) = n
    BY <1>3
  <2>2. /\ m \in Nat /\ Len(j) = m + Len(d)
        /\ \A i \in 1 .. Len(d) : j[m + i] = d[i]
    <3>1. IsSeq(todo) /\ IsSeq(d)
      BY <2>1
    <3> HIDE DEF todo
    <3> QED  BY <3>1, JoinIs
  <2> HIDE DEF todo, n, m, j
  <2> QED  BY <2>1, <2>2
<1> HIDE DEF j, m, n, todo
<1>7. j[m + (n - 1)] = gt /\ j[m + n] = sp
  BY <1>4, <1>5, <1>6, Zenon
<1>8. Len(j) >= 2 /\ Len(j) - 1 = m + (n - 1)
  BY <1>4, <1>6
<1>9. Len(j) >= 2 /\ j[Len(j) - 1] = gt /\ j[Len(j)] = sp
  BY <1>6, <1>7, <1>8
<1>10. PromptToCome(tty', video', console'.cursor)
  BY <1>1, <1>9 DEF PromptToCome, gt, sp
<1>11. tty'.fresh => out'.todo = <<>>
  BY <1>1
<1> QED  BY <1>10, <1>11, Zenon DEF PictureInv, LinePicture, OutputIdle

LEMMA SamePicture ==
    ASSUME NEW t, NEW u, NEW v, NEW c, NEW r, LinePicture(t, v, c, r),
           u.todo = t.todo, u.head = t.head, u.count = t.count, u.buf = t.buf
    PROVE  LinePicture(u, v, c, r)
<1>1. \A w, d : LineShown(t, w, d) => LineShown(u, w, d)
  BY SameLineShown
<1>2. PromptToCome(t, v, c) => PromptToCome(u, v, c)
  BY DEF PromptToCome
<1>3. EchoToCome(t, v, c) => EchoToCome(u, v, c)
  <2>1. EchoToCome(t, v, c) => EchoToCome(u, v, c)
    BY <1>1, Zenon DEF EchoToCome
  <2> QED  BY <2>1
<1> QED  BY <1>1, <1>2, <1>3, Zenon DEF LinePicture

LEMMA PictureStep ==
    ASSUME Inv, ScreenFields, ChildInv, PictureInv, InMemory, [Next]_vars
    PROVE  PictureInv'
<1> USE DEF Inv
<1>0. DOMAIN tty = TtyFields /\ IsSeq(tty.todo)
  BY DEF IsLine, ScreenFields
<1>1. ASSUME ~(tty'.fresh /\ tty'.pc = "main" /\ ~tty'.child) PROVE PictureInv'
  BY <1>1 DEF PictureInv
<1>2. ASSUME tty'.todo = tty.todo, tty'.head = tty.head, tty'.count = tty.count,
             tty'.buf = tty.buf, tty'.fresh = tty.fresh, tty'.pc = tty.pc,
             tty'.child = tty.child, UNCHANGED consoleVars
      PROVE  PictureInv'
  BY <1>2, SamePicture DEF PictureInv, consoleVars, OutputIdle
<1>3. CASE UNCHANGED vars \/ \E key \in (IF tty.child THEN {NL} ELSE KeysAt[input.n + 1]) : Press(key)
  BY <1>2, <1>3 DEF vars, ttyVars, Press
<1>4. CASE Welcome
  <2>1. CASE AnyKey \/ Pause \/ Draws("hello", "key") \/ Draws("blank", "pause")
    <3>1. tty'.pc # "main"
      BY <1>0, <2>1 DEF AnyKey, Pause, Draws, TtyFields
    <3> QED  BY <1>1, <3>1
  <2>2. CASE terminal_init
    <3> DEFINE t == [tty EXCEPT !.pc = "main", !.head = 0, !.count = 0,
                                !.child = FALSE, !.todo = <<Step("screen")>>]
    <3>1. tty' = Shows(t, Title \o Prompt) /\ UNCHANGED out
      BY <2>2 DEF terminal_init
    <3>2. DOMAIN t = TtyFields /\ t.head = 0 /\ t.count = 0 /\ t.todo = <<Step("screen")>>
      BY <1>0 DEF TtyFields
    <3>3. IsSeq(<<Step("screen")>>)
      BY ShortSeqs
    <3> HIDE DEF t
    <3> QED  BY <3>1, <3>2, <3>3, TextsEnd, PromptBegins
  <2> QED  BY <1>4, <2>1, <2>2 DEF Welcome
<1>5. CASE Show
  <2>1. SUFFICES ASSUME tty'.fresh, tty'.pc = "main", ~tty'.child PROVE PictureInv'
    BY <1>1
  <2>2. tty.fresh /\ tty.pc = "main" /\ ~tty.child /\ UNCHANGED out /\ tty.todo # <<>>
    BY <1>0, <1>5, <2>1 DEF Show, TtyFields
  <2>3. OutputIdle /\ LinePicture(tty, video, console.cursor, crt.cursor)
    BY <2>2 DEF PictureInv
  <2>4. \/ PromptToCome(tty, video, console.cursor)
        \/ EchoToCome(tty, video, console.cursor)
    BY <2>2, <2>3 DEF LinePicture
  <2>5. LinePicture(tty', video', console'.cursor, crt'.cursor)
    BY <1>0, <1>5, <2>4, PromptShows, EchoShows
  <2> QED  BY <2>2, <2>3, <2>5 DEF PictureInv, OutputIdle
<1>6. ASSUME Receives, ~tty.child, NEW key \in Keys \cup {NL, NoKey},
             NEW u, u = Handled(key), UNCHANGED consoleVars,
             tty'.todo = u.todo, tty'.head = u.head, tty'.count = u.count,
             tty'.buf = u.buf, tty'.fresh = u.fresh, tty'.pc = u.pc, tty'.child = u.child
      PROVE  PictureInv'
  <2>1. u.fresh = tty.fresh /\ u.child = tty.child
    BY <1>6, KeyTodo DEF Receives
  <2>2. SUFFICES ASSUME tty'.fresh, tty'.pc = "main" PROVE PictureInv'
    BY <1>1
  <2>3. OutputIdle /\ Echoes(tty)
    BY <1>6, <2>1, <2>2 DEF PictureInv, Receives, Echoes
  <2>4. Echoes(u)
    BY <1>6, <2>2, <2>3, KeyPicture
  <2>5. LinePicture(tty', video, console.cursor, crt.cursor)
    BY <1>6, <2>4, SamePicture DEF Echoes
  <2> QED  BY <1>6, <2>3, <2>5 DEF PictureInv, OutputIdle, consoleVars
<1>7. CASE ReceiveKey
  <2>1. CASE tty.child
    <3>1. tty'.pc = "forward"
      BY <1>0, <1>7, <2>1 DEF ReceiveKey, TtyFields
    <3> QED  BY <1>1, <3>1
  <2>2. CASE ~tty.child
    <3> DEFINE u == Handled(input.key)
    <3>1. /\ Receives /\ UNCHANGED consoleVars /\ input.key \in Keys \cup {NL, NoKey}
          /\ \E last : tty' = [u EXCEPT !.last = last]
      BY <1>7, <2>2, Zenon DEF ReceiveKey, KeyInv
    <3>2. DOMAIN u = TtyFields
      BY <3>1, KeyEdits DEF Receives, IsLine
    <3> HIDE DEF u
    <3>3. /\ tty'.todo = u.todo /\ tty'.head = u.head /\ tty'.count = u.count
          /\ tty'.buf = u.buf /\ tty'.fresh = u.fresh /\ tty'.pc = u.pc /\ tty'.child = u.child
      BY <3>1, <3>2 DEF TtyFields
    <3> QED  BY <1>6, <2>2, <3>1, <3>3 DEF u
  <2> QED  BY <2>1, <2>2
<1>8. CASE LateTimer
  <2>1. UNCHANGED consoleVars /\ ~tty.child
    BY <1>8, LateIs DEF ChildInv
  <2>2. ASSUME Receives, NEW key \in Keys \cup {NL, NoKey},
               tty' = [Handled(key) EXCEPT !.timer = "off", !.last = NoKey]
        PROVE  PictureInv'
    <3> DEFINE u == Handled(key)
    <3>1. DOMAIN u = TtyFields /\ tty' = [u EXCEPT !.timer = "off", !.last = NoKey]
      BY <2>2, KeyEdits DEF Receives, IsLine
    <3> HIDE DEF u
    <3>2. /\ tty'.todo = u.todo /\ tty'.head = u.head /\ tty'.count = u.count
          /\ tty'.buf = u.buf /\ tty'.fresh = u.fresh /\ tty'.pc = u.pc /\ tty'.child = u.child
      BY <3>1 DEF TtyFields
    <3> QED  BY <1>6, <2>1, <2>2, <3>2 DEF u
  <2>3. CASE tty' = [tty EXCEPT !.timer = "off", !.last = NoKey]
    BY <1>0, <1>2, <2>1, <2>3 DEF TtyFields
  <2> QED  BY <1>8, <2>2, <2>3, LateIs
<1>9. CASE Command
  <2>1. UNCHANGED out /\ DOMAIN Ran = TtyFields /\ Ran.head = 0 /\ Ran.count = 0 /\ Ran.todo = tty.todo
    BY <1>9, CommandIs, RanIs DEF consoleVars
  <2>2. CASE tty' = [Ran EXCEPT !.pc = "answer"] \/ tty' = [Ran EXCEPT !.pc = "load"]
    <3>1. tty'.pc # "main"
      BY <2>1, <2>2 DEF TtyFields
    <3> QED  BY <1>1, <3>1
  <2>3. ASSUME NEW s, EndsInPrompt(s), tty' = Shows(Ran, s) PROVE PictureInv'
    BY <1>0, <2>1, <2>3, PromptBegins
  <2>4. CASE tty' = Shows([Ran EXCEPT !.todo = Clear], Prompt)
    <3> DEFINE t == [Ran EXCEPT !.todo = Clear]
    <3>1. DOMAIN t = TtyFields /\ t.todo = Clear /\ t.head = 0 /\ t.count = 0
      BY <2>1 DEF TtyFields
    <3> HIDE DEF t
    <3> QED  BY <2>1, <2>4, <3>1, ClearIs, TextsEnd, PromptBegins DEF t
  <2> QED  BY <1>9, <2>2, <2>3, <2>4, CommandIs, TextsEnd
<1>10. ASSUME NEW t, DOMAIN t = TtyFields, t.todo = tty.todo, t.head = tty.head,
              t.count = tty.count, tty.head = 0, tty.count = 0,
              tty' = Shows(t, Prompt), UNCHANGED out
       PROVE  PictureInv'
  BY <1>0, <1>10, TextsEnd, PromptBegins
<1>11. CASE Servers
  <2>1. CASE Load
    <3>1. tty'.pc # "main"
      BY <1>0, <2>1 DEF Load, TtyFields
    <3> QED  BY <1>1, <3>1
  <2>2. CASE Loaded
    <3>1. tty'.child
      BY <1>0, <2>2 DEF Loaded, Shows, TtyFields
    <3> QED  BY <1>1, <3>1
  <2>3. CASE Answer
    <3> DEFINE t == [tty EXCEPT !.pc = "main"]
    <3>1. tty' = Shows(t, Prompt) /\ UNCHANGED out /\ tty.head = 0 /\ tty.count = 0
      BY <2>3 DEF Answer, ChildInv, consoleVars
    <3>2. DOMAIN t = TtyFields /\ t.todo = tty.todo /\ t.head = tty.head /\ t.count = tty.count
      BY <1>0 DEF TtyFields
    <3> HIDE DEF t
    <3> QED  BY <1>10, <3>1, <3>2
  <2> QED  BY <1>11, <2>1, <2>2, <2>3 DEF Servers
<1>12. CASE ProgramStep
  <2>1. CASE ProgramSends
    <3>1. ~tty'.fresh
      BY <1>0, <2>1 DEF ProgramSends, TtyFields
    <3> QED  BY <1>1, <3>1
  <2>2. CASE ProgramReceives
    <3>1. tty'.child
      BY <1>0, <2>2 DEF ProgramReceives, ChildInv, TtyFields
    <3> QED  BY <1>1, <3>1
  <2>3. CASE ProgramExits
    <3>1. CASE tty' = tty /\ tty.pc = "forward"
      BY <1>1, <3>1
    <3>2. CASE tty.child /\ tty' = Shows([tty EXCEPT !.child = FALSE], Prompt)
      <4> DEFINE t == [tty EXCEPT !.child = FALSE]
      <4>1. tty' = Shows(t, Prompt) /\ UNCHANGED out /\ tty.head = 0 /\ tty.count = 0
        BY <2>3, <3>2 DEF ProgramExits, ChildInv, consoleVars
      <4>2. DOMAIN t = TtyFields /\ t.todo = tty.todo /\ t.head = tty.head /\ t.count = tty.count
        BY <1>0 DEF TtyFields
      <4> HIDE DEF t
      <4> QED  BY <1>10, <4>1, <4>2
    <3> QED  BY <2>3, <3>1, <3>2 DEF ProgramExits
  <2> QED  BY <1>12, <2>1, <2>2, <2>3 DEF ProgramStep
<1>13. CASE Output
  <2>1. UNCHANGED tty /\ out.todo # <<>>
    BY <1>13 DEF Output, OutputStep, OutputIdle, ttyVars
  <2>2. ~(tty'.fresh /\ tty'.pc = "main" /\ ~tty'.child)
    BY <2>1 DEF PictureInv, OutputIdle
  <2> QED  BY <1>1, <2>2
<1> QED  BY <1>3, <1>4, <1>5, <1>7, <1>8, <1>9, <1>11, <1>12, <1>13 DEF Next, TerminalStep

LEMMA InitScreen == Init => ScreenInv
<1> SUFFICES ASSUME Init PROVE ScreenInv
  OBVIOUS
<1>1. ScreenFields
  <2>1. IsSeq(<<>>)
    BY ShortSeqs
  <2>2. /\ tty.todo = <<>> /\ out.todo = <<>> /\ child.at = 0 /\ DOMAIN child = {"pc", "at"}
        /\ DOMAIN video = 0 .. 2 * CELLS - 1 /\ DOMAIN out = {"todo", "owner", "pos"}
        /\ IsPlace(console) /\ IsPlace(crt)
    BY DEF Init, ConsoleInit, IsPlace
  <2> QED  BY <2>1, <2>2 DEF ScreenFields
<1>2. StartInv
  <2>1. Balanced(<<>>)
    BY DEF Balanced
  <2> QED  BY <2>1 DEF StartInv, Init, ConsoleInit
<1>3. ChildInv /\ PictureInv
  BY DEF Init, ChildInv, PictureInv, Early
<1> QED  BY <1>1, <1>2, <1>3 DEF ScreenInv

\* What the invariant says when the terminal waits.
LEMMA InvShows ==
    ASSUME Inv, ScreenInv
    PROVE  ShowsLine
<1> SUFFICES ASSUME Receives, tty.fresh, ~tty.child
             PROVE  /\ Seen(LineStart - 2) = ">" /\ Seen(LineStart - 1) = " "
                    /\ \A i \in 0 .. tty.count - 1 : Seen(LineStart + i) = tty.buf[i]
                    /\ crt = console
  BY DEF ShowsLine
<1>1. tty.todo = <<>> /\ out.todo = <<>> /\ LinePicture(tty, video, console.cursor, crt.cursor)
  BY DEF ScreenInv, PictureInv, Receives, OutputIdle
<1>2. ~PromptToCome(tty, video, console.cursor) /\ ~EchoToCome(tty, video, console.cursor)
  <2>1. Len(tty.todo) = 0 /\ \A a : <<a>> # <<>> /\ \A b : <<a, b>> # <<>>
    BY <1>1
  <2>2. ~PromptToCome(tty, video, console.cursor)
    BY <1>1, <2>1 DEF PromptToCome
  <2>3. ~EchoToCome(tty, video, console.cursor)
    BY <1>1, <2>1 DEF EchoToCome
  <2> QED  BY <2>2, <2>3
<1>3. LineShown(tty, video, console.cursor) /\ crt.cursor = console.cursor
  BY <1>1, <1>2 DEF LinePicture
<1>4. ASSUME NEW x, NEW ch, Shown(video, x, ch) PROVE Seen(x) = ch
  BY <1>4 DEF Shown, Seen, At, DEFAULT, BLANK
<1>5. crt = console
  <2>1. ~Pending(tty.todo) /\ ~Pending(out.todo)
    BY <1>1 DEF Pending
  <2>2. /\ crt.start = console.start
        /\ IsPlace(console) /\ IsPlace(crt)
    BY <2>1 DEF ScreenInv, StartInv, ScreenFields
  <2> QED  BY <1>3, <2>2, Zenon DEF IsPlace
<1> QED  BY <1>3, <1>4, <1>5, Zenon DEF LineShown, LineStart

\* While the terminal waits for a key, the user sees the prompt and the line as
\* it will be run: what terminal_handler() echoes key by key adds up to in_buf,
\* unless OUTPUT has been at work, as long as the cursor stays within the memory
\* that is followed.
THEOREM LineIsShown == Spec /\ []InMemory => []ShowsLine
<1>1. Init => Inv /\ ScreenInv
  BY InitInv, InitScreen
<1>2. Inv /\ ScreenInv /\ InMemory /\ [Next]_vars => Inv' /\ ScreenInv'
  <2> SUFFICES ASSUME Inv, ScreenInv, InMemory, [Next]_vars PROVE Inv' /\ ScreenInv'
    OBVIOUS
  <2>1. Inv'
    BY StepMaps, KeysKept DEF Inv
  <2>2. ScreenFields' /\ StartInv'
    BY StartStep DEF ScreenInv
  <2>3. ChildInv'
    BY ChildStep DEF ScreenInv
  <2>4. PictureInv'
    BY PictureStep DEF ScreenInv
  <2> QED  BY <2>1, <2>2, <2>3, <2>4 DEF ScreenInv
<1>3. Inv /\ ScreenInv => ShowsLine
  BY InvShows
<1> QED  BY <1>1, <1>2, <1>3, PTL DEF Spec
===============================================================================
