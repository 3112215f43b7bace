------------------------------- MODULE Console -------------------------------
(***************************************************************************)
(* The first console: its record in console_table, the video memory, the   *)
(* registers of the CRT controller, and the OUTPUT server (output.c).      *)
(*                                                                         *)
(* The record is shared without a lock: the terminal's display functions   *)
(* and OUTPUT each change it one statement after the other.  A statement   *)
(* is a step here; what the terminal and OUTPUT have yet to do is a        *)
(* sequence of steps.  original_addr is 0.                                 *)
(***************************************************************************)
EXTENDS Integers, Sequences, SequencesExt

CONSTANTS WIDTH, HEIGHT,   \* of the screen, in cells (80 and 25)
          MEM_LIMIT,       \* cells of the first console's part of the memory
          CELLS,           \* cells of the memory that are followed
          DISP_LIMIT       \* characters one message may display (100)

ASSUME ConsoleAssumption ==
    /\ WIDTH \in Nat \ {0} /\ HEIGHT \in Nat \ {0}
    /\ MEM_LIMIT \in Nat /\ CELLS \in Nat /\ DISP_LIMIT \in Nat

VARIABLES console,   \* cursor and current_start_addr, in cells
          video,     \* the bytes of the memory: character, color, ...
          crt,       \* the registers: where the screen and the cursor are
          out        \* OUTPUT: steps left of its request, whose, and its pointer

consoleVars == <<console, video, crt, out>>

NL == "nl"
BS == "bs"
DEFAULT == "white"
BLANK == "black"

ConsoleInit == /\ console = [cursor |-> 0, start |-> 0]
               /\ video = [b \in 0 .. 2 * CELLS - 1 |-> "?"]
               /\ crt = [cursor |-> 0, start |-> 0]
               /\ out = [todo |-> <<>>, owner |-> "none", pos |-> 0]

-----------------------------------------------------------------------------
(* Steps.                                                                  *)

Step(do) == [do |-> do, ch |-> NL, row |-> 0]

\* '\n' down a row and to its first column, then set_cursor().
NewLine == <<Step("down"), Step("home")>>

\* "cls" and OUTPUT_DISP_FUNC_CLEAR: the screen begins in the next row.
Clear == NewLine \o <<Step("top"), Step("screen")>>

\* terminal_disp_char() of anything but a backspace.
DispChar(ch) == (IF ch = NL THEN NewLine ELSE <<[Step("put") EXCEPT !.ch = ch]>>)
                \o <<Step("cursor")>>

\* terminal_disp_str(): a character after the other.
DispStr(s) == [i \in 1 .. Len(s) |-> [Step("char") EXCEPT !.ch = s[i]]]

\* The statements to come, where the first is not one but a character.
Statements(todo) ==
    IF Head(todo).do = "char" THEN DispChar(Head(todo).ch) \o Tail(todo) ELSE todo

Moves(c) == console' = c /\ UNCHANGED <<video, crt>>

At(cell) == 2 * cell

\* A character and its color at the cursor.
Put(ch) ==
    /\ video' = [video EXCEPT ![At(console.cursor)] = ch, ![At(console.cursor) + 1] = DEFAULT]
    /\ console' = [console EXCEPT !.cursor = @ + 1]
    /\ UNCHANGED crt

\* The character before the cursor gets the color of the background.
Erase == /\ video' = [video EXCEPT ![At(console.cursor) - 1] = BLANK]
         /\ console' = [console EXCEPT !.cursor = @ - 1]
         /\ UNCHANGED crt

\* What the terminal and OUTPUT both do.
Perform(s) ==
    \/ s.do = "put" /\ Put(s.ch)
    \/ s.do = "erase" /\ Erase
    \/ s.do = "down" /\ Moves([console EXCEPT !.cursor = @ + WIDTH])
    \/ s.do = "home" /\ Moves([console EXCEPT !.cursor = @ - (@ % WIDTH)])
    \/ s.do = "top" /\ Moves([console EXCEPT !.start = console.cursor])
    \/ s.do = "left" /\ Moves([console EXCEPT !.cursor = @ - 1])
    \/ s.do = "right" /\ Moves([console EXCEPT !.cursor = @ + 1])
    \/ s.do = "up" /\ Moves(IF console.start > 0
                            THEN [console EXCEPT !.start = @ - WIDTH] ELSE console)
    \/ s.do = "scroll" /\ Moves(IF console.start < MEM_LIMIT
                                THEN [console EXCEPT !.start = @ + WIDTH] ELSE console)
    \/ /\ s.do = "cursor" /\ crt' = [crt EXCEPT !.cursor = console.cursor]
       /\ UNCHANGED <<console, video>>
    \/ /\ s.do = "screen" /\ crt' = console
       /\ UNCHANGED <<console, video>>

-----------------------------------------------------------------------------
(* OUTPUT.                                                                 *)

OutputIdle == out.todo = <<>>

\* output_handler(): the statements that follow a message.
OutputSteps(m) ==
    CASE m.fn = "disp" ->
           [i \in 1 .. Min({Len(m.text), DISP_LIMIT}) |-> [Step("disp") EXCEPT !.ch = m.text[i]]]
               \o <<Step("cursor")>>
      [] m.fn = "clear" -> Clear
      [] m.fn = "draw" ->
           [r \in 1 .. HEIGHT |-> [Step("row") EXCEPT !.row = r - 1]] \o <<Step("screen")>>
      [] OTHER -> <<Step(m.fn), Step("screen")>>

\* A SEND to OUTPUT ends when OUTPUT receives it.
Send(owner, m) ==
    /\ OutputIdle
    /\ out' = [todo |-> OutputSteps(m), owner |-> owner,
               pos |-> IF m.fn = "draw" THEN At(console.start) ELSE At(console.cursor)]

\* One character of output_disp_str().  '\n' goes down a row and then to its
\* first column, but the pointer stays where it is; '\b' moves it by one byte.
Disp(ch) ==
    CASE ch = NL -> /\ console' = [console EXCEPT !.cursor = @ + WIDTH] /\ UNCHANGED video
                    /\ out' = [out EXCEPT !.todo = <<Step("home")>> \o Tail(@)]
      [] ch = BS -> /\ console' = [console EXCEPT !.cursor = @ - 1]
                    /\ video' = [video EXCEPT ![out.pos - 1] = BLANK]
                    /\ out' = [out EXCEPT !.todo = Tail(@), !.pos = @ - 1]
      [] OTHER -> /\ console' = [console EXCEPT !.cursor = @ + 1]
                  /\ video' = [video EXCEPT ![out.pos] = ch, ![out.pos + 1] = DEFAULT]
                  /\ out' = [out EXCEPT !.todo = Tail(@), !.pos = @ + 2]

\* One row of a DRAW, from the sender's picture as it is now.
DrawRow(r, picture) ==
    /\ video' = [b \in DOMAIN video |->
                   LET i == b - out.pos - 2 * r * WIDTH
                   IN  IF i \notin 0 .. 2 * WIDTH - 1 THEN video[b]
                       ELSE IF i % 2 = 0 THEN picture[r * WIDTH + i \div 2] ELSE DEFAULT]
    /\ out' = [out EXCEPT !.todo = Tail(@)]
    /\ UNCHANGED console

\* OUTPUT goes on; `picture' is the block of memory its request points to.
OutputStep(picture) ==
    /\ ~OutputIdle
    /\ LET s == Head(out.todo)
       IN  \/ s.do = "row" /\ DrawRow(s.row, picture) /\ UNCHANGED crt
           \/ s.do = "disp" /\ Disp(s.ch) /\ UNCHANGED crt
           \/ /\ s.do \notin {"row", "disp"} /\ Perform(s)
              /\ out' = [out EXCEPT !.todo = Tail(@)]

-----------------------------------------------------------------------------
\* What can be seen at a cell.
Seen(cell) == IF video[At(cell) + 1] = BLANK THEN " " ELSE video[At(cell)]
=============================================================================
