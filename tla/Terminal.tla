------------------------------- MODULE Terminal -------------------------------
(***************************************************************************)
(* The first terminal (terminal.c, terminallib.c) over the console, with   *)
(* what talks to it: the INPUT server, the file system and memory servers, *)
(* a timer and a running program.                                          *)
(*                                                                         *)
(* Between two messages the terminal works off `todo', its display steps,  *)
(* into which OUTPUT's may come.  in_tail is 0 whenever a key is handled:  *)
(* cd and open move it, and the end of the command moves it back.          *)
(*                                                                         *)
(* Bounds: MaxKeys keys, the n-th from KeysAt[n].  The first Hasty keys may *)
(* come at any time, the others after the timer of the welcome screen and  *)
(* while OUTPUT is idle.  The 100 ms of the timer are enough for OUTPUT to *)
(* draw, and over before a program is started.  For a program one key      *)
(* stands for all.                                                         *)
(***************************************************************************)
EXTENDS Console

CONSTANTS TTY_BUFFER_NUM, MARGIN,  \* size of in_buf, and what is left free (8)
          SPACE, NUL,
          Word,                    \* what is typed for each command
          Title, Listing,          \* what the terminal, and ls, display
          Program,                 \* the messages a program sends to OUTPUT
          MaxKeys, KeysAt, Hasty,
          NoKey

FuncKeys == {"UP", "DOWN", "LEFT", "RIGHT", "ALT", "SHIFT"}

ASSUME TerminalAssumption ==
    /\ MARGIN \in Nat \ {0} /\ TTY_BUFFER_NUM \in Nat /\ MARGIN < TTY_BUFFER_NUM
    /\ NUL # SPACE
    /\ MaxKeys \in Nat \ {0}

\* What is displayed are texts.
ASSUME TextAssumption ==
    /\ Title \in Seq(Range(Title)) /\ Listing \in Seq(Range(Listing))
    /\ Program \in Seq(Range(Program))
    /\ \A m \in Range(Program) : m.fn = "disp" => m.text \in Seq(Range(m.text))

VARIABLES tty,     \* tty_0() and its TERMINAL
          input,   \* the INPUT server: the key it sends, and t_present_terminal
          child    \* the program

ttyVars == <<tty, input, child>>
vars == <<ttyVars, consoleVars>>

Blanks == [i \in 0 .. TTY_BUFFER_NUM - 1 |-> NUL]

Init ==
    /\ ConsoleInit
    /\ tty = [pc |-> "hello", todo |-> <<>>, buf |-> Blanks, head |-> 0, count |-> 0,
              child |-> FALSE, timer |-> "off", last |-> NoKey,
              ran |-> [cmd |-> <<>>, arg |-> <<>>], fresh |-> FALSE]
    /\ input = [key |-> NoKey, present |-> 0, n |-> 0]
    /\ child = [pc |-> "none", at |-> 0]

-----------------------------------------------------------------------------
(* The command line.                                                       *)

\* The cursor is behind the last character.
AtEnd == tty.head % TTY_BUFFER_NUM = tty.count

Erasable == tty.head # 0 /\ AtEnd

(* Mutants.                                                                *)

\* The cursor may go right beyond the text.
RightAnywhere == [tty EXCEPT !.head = (@ + 1) % TTY_BUFFER_NUM,
                             !.todo = <<Step("right"), Step("cursor")>>]

\* The echo of a backspace looks at head after it has moved.
EchoAfter ==
    IF Erasable
    THEN [tty EXCEPT !.head = (@ - 1) % TTY_BUFFER_NUM, !.count = @ - 1,
                     !.todo = (IF tty.head = 1 THEN <<>> ELSE <<Step("erase")>>)
                              \o <<Step("cursor")>>]
    ELSE [tty EXCEPT !.todo = <<Step("cursor")>>]

\* terminal_run() does not look at the result.
AnyResult ==
    /\ tty.pc \in {"answer", "load"}
    /\ tty' = [tty EXCEPT !.pc = "main", !.child = tty.pc = "load"]
    /\ UNCHANGED <<input, child, consoleVars>>

(* The line.                                                               *)

Prompt == <<NL, ">", " ">>

\* The display of s is about to begin; fresh says that OUTPUT is not at work.
Shows(t, s) == [t EXCEPT !.todo = @ \o DispStr(s), !.fresh = OutputIdle]

Ignore == tty

TypeChar(ch) ==
    IF tty.count < TTY_BUFFER_NUM - MARGIN
    THEN [tty EXCEPT !.count = IF AtEnd THEN @ + 1 ELSE @,
                     !.buf[tty.head] = ch,
                     !.head = (@ + 1) % TTY_BUFFER_NUM,
                     !.todo = DispChar(ch)]
    ELSE Ignore

\* The echo comes first: it looks at head and count as well.
Backspace ==
    IF Erasable
    THEN [tty EXCEPT !.head = (@ - 1) % TTY_BUFFER_NUM, !.count = @ - 1,
                     !.todo = <<Step("erase"), Step("cursor")>>]
    ELSE [tty EXCEPT !.todo = <<Step("cursor")>>]

Enter == [tty EXCEPT !.pc = "command", !.todo = DispChar(NL),
                     !.buf[tty.count % TTY_BUFFER_NUM] = NUL]

Screen(do) == [tty EXCEPT !.todo = <<Step(do), Step("screen")>>]

CursorLeft == IF tty.head # 0
              THEN [tty EXCEPT !.head = (@ - 1) % TTY_BUFFER_NUM,
                               !.todo = <<Step("left"), Step("cursor")>>]
              ELSE Ignore

CursorRight == IF tty.head % TTY_BUFFER_NUM < tty.count
               THEN [tty EXCEPT !.head = (@ + 1) % TTY_BUFFER_NUM,
                                !.todo = <<Step("right"), Step("cursor")>>]
               ELSE Ignore

\* terminal_handler(): the terminal after a key.
Handled(key) ==
    CASE key = NL -> Enter
      [] key = BS -> Backspace
      [] key = "ALT" -> [tty EXCEPT !.todo = <<Step("screen")>>]
      [] key = "UP" -> IF console.start > 0 THEN Screen("up") ELSE Ignore
      [] key = "DOWN" -> IF console.start < MEM_LIMIT THEN Screen("scroll") ELSE Ignore
      [] key = "LEFT" -> CursorLeft
      [] key = "RIGHT" -> CursorRight
      [] key \in {"SHIFT", NoKey} -> Ignore
      [] OTHER -> TypeChar(key)

-----------------------------------------------------------------------------
(* INPUT.                                                                  *)

\* A make code is decoded and sent to the present terminal; ALT first makes
\* the other one present.
Press(key) ==
    /\ input.key = NoKey /\ input.n < MaxKeys
    /\ input.n >= Hasty => tty.timer = "off" /\ OutputIdle
    /\ input' = [key |-> key, n |-> input.n + 1,
                 present |-> IF key = "ALT" THEN 1 - input.present ELSE input.present]
    /\ UNCHANGED <<tty, child, consoleVars>>

\* The second terminal never receives: tty_1() loops before its first RECEIVE.
TakesKey == input.key # NoKey /\ input.present = 0

Taken == input' = [input EXCEPT !.key = NoKey]

-----------------------------------------------------------------------------
(* Wellocome_to_YishiOS() and terminal_init().                             *)

\* YishiOS_hello_world: filled, and blank once a key has come.
Picture == [i \in 0 .. WIDTH * HEIGHT - 1 |->
              IF out.owner = "tty" THEN IF tty.pc \in {"hello", "key"} THEN "#" ELSE " "
              ELSE IF child.at < Len(Program) THEN "@" ELSE " "]

Draws(pc, next) == /\ tty.pc = pc /\ Send("tty", [fn |-> "draw"])
                   /\ tty' = [tty EXCEPT !.pc = next,
                                         !.timer = IF next = "pause" THEN "armed" ELSE @]
                   /\ UNCHANGED <<input, child, console, video, crt>>

AnyKey == /\ tty.pc = "key" /\ TakesKey /\ Taken
          /\ tty' = [tty EXCEPT !.pc = "blank"]
          /\ UNCHANGED <<child, consoleVars>>

\* RECEIVE ANY after sys_set_timer(): a key ends it as well.
Pause == /\ tty.pc = "pause"
         /\ \/ TakesKey /\ Taken /\ tty' = [tty EXCEPT !.pc = "init"]
            \/ /\ tty.timer = "armed" /\ OutputIdle /\ UNCHANGED input
               /\ tty' = [tty EXCEPT !.pc = "init", !.timer = "off"]
         /\ UNCHANGED <<child, consoleVars>>

terminal_init ==
    /\ tty.pc = "init"
    /\ console' = [cursor |-> 0, start |-> 0]
    /\ tty' = Shows([tty EXCEPT !.pc = "main", !.head = 0, !.count = 0,
                                !.child = FALSE, !.todo = <<Step("screen")>>],
                    Title \o Prompt)
    /\ UNCHANGED <<input, child, video, crt, out>>

Welcome == \/ Draws("hello", "key") \/ AnyKey \/ Draws("blank", "pause") \/ Pause
           \/ terminal_init

-----------------------------------------------------------------------------
(* terminal_main()                                                         *)

Show == /\ tty.todo # <<>>
        /\ Perform(Head(Statements(tty.todo)))
        /\ tty' = [tty EXCEPT !.todo = Tail(Statements(@))]
        /\ UNCHANGED <<input, child, out>>

Receives == tty.pc = "main" /\ tty.todo = <<>>

\* Without a program the key is the terminal's; it stays in `message', which
\* matters as long as the timer may come.
ReceiveKey ==
    /\ Receives /\ TakesKey /\ Taken
    /\ LET t == IF tty.child THEN [tty EXCEPT !.pc = "forward"] ELSE Handled(input.key)
       IN  tty' = [t EXCEPT !.last = IF tty.timer = "armed" THEN input.key ELSE NoKey]
    /\ UNCHANGED <<child, consoleVars>>

\* The timer of the welcome screen when a key has ended the wait.  A terminal
\* that waits handles the key of the message before once more, or what is on
\* its stack; one that does not gets a message without a key.
LateTimer ==
    /\ tty.timer = "armed"
    /\ \/ /\ Receives
          /\ \E key \in IF tty.last = NoKey THEN KeysAt[1] \union {NoKey} ELSE {tty.last} :
                tty' = [Handled(key) EXCEPT !.timer = "off", !.last = NoKey]
       \/ /\ tty.pc \in {"init", "main", "command", "answer"} /\ ~Receives
          /\ tty' = [tty EXCEPT !.timer = "off", !.last = NoKey]
    /\ UNCHANGED <<input, child, consoleVars>>

\* What is in memory from i on, up to the first 0.
StringAt(buf, i) ==
    LET Ends == {j \in i .. TTY_BUFFER_NUM - 1 : buf[j] = NUL}
    IN  IF Ends = {} THEN <<>> ELSE [k \in 1 .. Min(Ends) - i |-> buf[i + k - 1]]

\* str_replace(): the spaces of the line, up to the 0 behind it, become 0.
Split == LET end == Min({j \in DOMAIN tty.buf : tty.buf[j] = NUL})
         IN  [i \in DOMAIN tty.buf |-> IF i < end /\ tty.buf[i] = SPACE THEN NUL
                                       ELSE tty.buf[i]]

\* terminal_command_handler().  The argument is whatever follows the 0 behind
\* the name, be it of an earlier line.
Command ==
    /\ tty.pc = "command" /\ tty.todo = <<>>
    /\ LET cmd == StringAt(Split, 0)
           arg == StringAt(Split, Len(cmd) + 1)
           t == [tty EXCEPT !.buf = Split, !.head = 0, !.count = 0, !.pc = "main",
                            !.ran = [cmd |-> cmd, arg |-> arg]]
       IN  IF cmd \in {Word["root"], Word["cd"], Word["open"]}
           THEN tty' = [t EXCEPT !.pc = "answer"]
           ELSE IF cmd = Word["run"]
           THEN tty.timer = "off" /\ tty' = [t EXCEPT !.pc = "load"]
           ELSE IF cmd = Word["ls"] THEN tty' = Shows(t, Listing \o Prompt)
           ELSE IF cmd = Word["cls"] THEN tty' = Shows([t EXCEPT !.todo = Clear], Prompt)
           ELSE tty' = Shows(t, Prompt)
    /\ UNCHANGED <<input, child, consoleVars>>

\* The file system's answer, or the memory server's that there is no memory.
Answer ==
    /\ tty.pc \in {"answer", "load"}
    /\ tty' = Shows([tty EXCEPT !.pc = "main"], Prompt)
    /\ UNCHANGED <<input, child, consoleVars>>

\* The memory server starts a program and then answers.
Load ==
    /\ tty.pc = "load" /\ child.pc = "none"
    /\ child' = [pc |-> "run", at |-> 0]
    /\ tty' = [tty EXCEPT !.pc = "loaded"]
    /\ UNCHANGED <<input, consoleVars>>

Loaded ==
    /\ tty.pc = "loaded"
    /\ tty' = Shows([tty EXCEPT !.pc = "main", !.child = TRUE], Prompt)
    /\ UNCHANGED <<input, child, consoleVars>>

-----------------------------------------------------------------------------
(* The program.                                                            *)

\* Its next message to OUTPUT; the picture changes with it.
ProgramSends ==
    /\ child.pc = "run" /\ child.at < Len(Program)
    /\ Send("program", Program[child.at + 1])
    /\ child' = [child EXCEPT !.at = @ + 1]
    /\ tty' = [tty EXCEPT !.fresh = FALSE]
    /\ UNCHANGED <<input, console, video, crt>>

\* It receives a key that the terminal forwards.
ProgramReceives ==
    /\ child.pc = "run" /\ tty.pc = "forward"
    /\ tty' = [tty EXCEPT !.pc = "main"]
    /\ UNCHANGED <<input, child, consoleVars>>

\* Its message of type 0 that it ends.  When the terminal is sending to it at
\* that moment, the kernel stops.
ProgramExits ==
    /\ child.pc = "run" /\ child.at = Len(Program)
    /\ \/ /\ Receives /\ tty.child
          /\ tty' = Shows([tty EXCEPT !.child = FALSE], Prompt)
          /\ child' = [pc |-> "none", at |-> 0]
       \/ /\ tty.pc = "forward"
          /\ child' = [child EXCEPT !.pc = "hang"]
          /\ UNCHANGED tty
    /\ UNCHANGED <<input, consoleVars>>

-----------------------------------------------------------------------------
Output == OutputStep(Picture) /\ UNCHANGED ttyVars

TerminalStep == Welcome \/ Show \/ ReceiveKey \/ Command

Servers == Answer \/ Load \/ Loaded

ProgramStep == ProgramSends \/ ProgramReceives \/ ProgramExits

Next == /\ child.pc # "hang"
        /\ \/ \E key \in (IF tty.child THEN {NL} ELSE KeysAt[input.n + 1]) : Press(key)
           \/ TerminalStep \/ LateTimer \/ Servers \/ ProgramStep \/ Output

\* The terminal, the servers and OUTPUT run whenever they can, and a program
\* goes on receiving.
Spec == /\ Init /\ [][Next]_vars
        /\ WF_vars(TerminalStep) /\ WF_vars(Servers) /\ WF_vars(Output)
        /\ WF_vars(ProgramReceives)

-----------------------------------------------------------------------------
(* Properties.                                                             *)

LE == INSTANCE LineEdit WITH
        Chars <- UNION {KeysAt[n] : n \in 1 .. MaxKeys},
        MaxText <- TTY_BUFFER_NUM - MARGIN,
        text <- IF tty.pc \in {"hello", "key", "blank", "pause", "init"} THEN <<>>
                ELSE [i \in 1 .. tty.count |-> tty.buf[i - 1]],
        pos <- tty.head,
        ran <- tty.ran

\* The ring arithmetic on head and count is the editing of a line of limited
\* length, and a command gets the argument that was typed for it.
ImplementsLineEdit == LE!Spec

LineStart == console.cursor - tty.head

\* While the terminal waits for a key, the user sees a prompt, the line as it
\* will be run behind it, and the cursor where the next character goes, unless
\* OUTPUT has been at work since the prompt was shown: what is echoed key by
\* key, erased and overwritten adds up to the buffer.
ShowsLine ==
    Receives /\ tty.fresh /\ ~tty.child =>
        /\ Seen(LineStart - 2) = ">" /\ Seen(LineStart - 1) = " "
        /\ \A i \in 0 .. tty.count - 1 : Seen(LineStart + i) = tty.buf[i]
        /\ crt = console

\* A key is taken in the end, whatever the terminal was doing when it came,
\* unless ALT has made the second terminal present or the kernel has stopped.
KeysTaken ==
    input.key # NoKey ~> (input.key = NoKey \/ input.present = 1 \/ child.pc = "hang")

\* "Move the cursor to the beginning of the next row; the screen begins there":
\* the screen begins with a row.
ScreenOnRow == out.todo = <<>> => console.start % WIDTH = 0
=============================================================================
