-------------------------------- MODULE Snake --------------------------------
(***************************************************************************)
(* The game (snake.c) over the console, with the timers of the kernel and  *)
(* the terminal's part in it: the prompt after it has started the game,    *)
(* forwarding keys, hearing of the exit and the prompt after that.         *)
(*                                                                         *)
(* A step of the game lies between two of its system calls.  OUTPUT copies *)
(* video_mem row by row while the game goes on.  A timer may fire at any   *)
(* time: SNAKE_SPEED is long, but so may be what delays a process.         *)
(*                                                                         *)
(* Bounds: MaxMoves moves and MaxKeys keys.  Once a position is negative   *)
(* video_mem is written before its start, and what the game does then is   *)
(* not followed.                                                           *)
(***************************************************************************)
EXTENDS Console, FiniteSets

CONSTANTS VALID,            \* cells in which a ball may appear (24 rows)
          NTimers,          \* slots of timers[] (7)
          MaxMoves, MaxKeys

LENGTH == WIDTH * HEIGHT

\* The picture lies in the memory, wherever two prompts and the clearing of the
\* screen may have put its beginning.
ASSUME SnakeAssumption == /\ VALID \in 1 .. LENGTH /\ LENGTH > 1
                          /\ CELLS >= 3 * WIDTH + 4 + LENGTH
                          /\ NTimers \in Nat \ {0}
                          /\ MaxMoves \in Nat /\ MaxKeys \in Nat

HEAD == "@"
BODY == "*"
BALL == "O"
EMPTY == " "

VARIABLES snake,       \* pc and the snake_... variables
          video_mem,   \* the characters of the picture
          timers,      \* how many slots are armed for the game
          int,         \* has_int_msg of the game
          key,         \* the key the terminal is sending to it
          count,       \* moves made and keys sent
          tty,         \* what the terminal has yet to display of its prompt
          fresh        \* history: the terminal has displayed nothing since the
                       \* game sent its last DRAW

gameVars == <<snake, video_mem, timers, int, key, count>>
screenVars == <<consoleVars, tty, fresh>>
vars == <<gameVars, screenVars>>

NoKey == "none"
Keys == {"UP", "DOWN", "LEFT", "RIGHT", "SHIFT", "p"}

\* terminal_disp_str(terminal, "\n> ").
Prompt == <<NL, ">", " ">>

Init ==
    /\ ConsoleInit
    /\ snake = [pc |-> "clear", head |-> 1, tail |-> 0, now |-> 0, ball |-> 0,
                pos |-> [i \in 0 .. LENGTH - 1 |-> 0], dire |-> "DOWN"]
    /\ video_mem = [i \in 0 .. LENGTH - 1 |-> EMPTY]
    /\ timers = 0 /\ int = FALSE /\ key = NoKey
    /\ count = [moves |-> 0, keys |-> 0, eaten |-> 0]
    /\ tty = DispStr(Prompt) /\ fresh = FALSE

-----------------------------------------------------------------------------
(* System calls.                                                           *)

\* sys_set_timer(): without a free slot nothing happens.
SetTimer == timers' = IF timers < NTimers THEN timers + 1 ELSE timers

\* RECEIVE ANY takes an interrupt first, then the terminal's message.
TakesInterrupt(pc) == snake.pc = pc /\ int /\ int' = FALSE /\ UNCHANGED key
TakesKey(pc, k) == snake.pc = pc /\ ~int /\ key = k /\ key' = NoKey /\ UNCHANGED int

\* A SEND to OUTPUT that is received.
Sends(pc, next, m) ==
    /\ snake.pc = pc /\ Send("snake", m)
    /\ snake' = [snake EXCEPT !.pc = next]
    /\ UNCHANGED <<console, video, crt>>

-----------------------------------------------------------------------------
(* snake_init()                                                            *)

ClearScreen == /\ Sends("clear", "init", [fn |-> "clear"])
               /\ UNCHANGED <<video_mem, timers, int, key, count, tty, fresh>>

\* The ball may be where the snake is.
InitGame ==
    /\ snake.pc = "init"
    /\ \E ball \in 0 .. VALID - 1 :
          /\ snake' = [snake EXCEPT !.pc = "refresh", !.ball = ball]
          /\ video_mem' = [video_mem EXCEPT ![0] = HEAD, ![ball] = BALL]
    /\ SetTimer
    /\ UNCHANGED <<int, key, count, screenVars>>

-----------------------------------------------------------------------------
(* snake_move()                                                            *)

\* direction[snake_dire]
Direction(d) == CASE d = "UP" -> -WIDTH [] d = "DOWN" -> WIDTH
                  [] d = "LEFT" -> -1   [] d = "RIGHT" -> 1

\* C's remainder has the sign of the dividend.
Remainder(a, b) == IF a >= 0 THEN a % b ELSE -((-a) % b)

NextPos == Remainder(snake.pos[snake.now] + Direction(snake.dire), LENGTH)

\* Mutant: an index of the ring runs off its end.
SuccUnwrapped(i) == i + 1

Succ(i) == (i + 1) % LENGTH

\* Mutant: the tail is taken away before it is looked at.
BlankNext(pos, tail) == pos[Succ(tail)]

\* The cell that the end of the snake leaves.
LastCell(pos, tail) == pos[tail]

\* A move to cell p: the picture and the ring of positions.
MoveTo(p) ==
    LET pos == [snake.pos EXCEPT ![snake.head] = p]
        moved == [video_mem EXCEPT ![snake.pos[snake.now]] = BODY, ![p] = HEAD]
        s == [snake EXCEPT !.pos = pos, !.now = snake.head, !.head = Succ(snake.head),
                           !.pc = "moved"]
    IN  IF p # snake.ball
        THEN /\ video_mem' = [moved EXCEPT ![LastCell(pos, snake.tail)] = EMPTY]
             /\ snake' = [s EXCEPT !.tail = Succ(snake.tail)]
             /\ count' = [count EXCEPT !.moves = @ + 1]
        ELSE \E ball \in 0 .. VALID - 1 :
             /\ video_mem' = [moved EXCEPT ![ball] = BALL]
             /\ snake' = [s EXCEPT !.ball = ball]
             /\ count' = [count EXCEPT !.moves = @ + 1, !.eaten = @ + 1]

\* An interrupt, whatever it was for.
Move ==
    /\ count.moves < MaxMoves
    /\ TakesInterrupt("receive")
    /\ IF NextPos >= 0 THEN MoveTo(NextPos)
       ELSE snake' = [snake EXCEPT !.pc = "astray"] /\ UNCHANGED <<video_mem, count>>
    /\ UNCHANGED <<timers, screenVars>>

\* snake_refresh() and then a new timer.
Refresh ==
    /\ \/ Sends("moved", "timer", [fn |-> "draw"]) \/ Sends("refresh", "receive", [fn |-> "draw"])
       \/ Sends("bye", "exit", [fn |-> "draw"])
    /\ fresh' = TRUE
    /\ UNCHANGED <<video_mem, timers, int, key, count, tty>>

Rearm == /\ snake.pc = "timer"
         /\ snake' = [snake EXCEPT !.pc = "receive"]
         /\ SetTimer
         /\ UNCHANGED <<video_mem, int, key, count, screenVars>>

-----------------------------------------------------------------------------
(* snake_control()                                                         *)

Steer == \E k \in {"UP", "DOWN", "LEFT", "RIGHT"} :
            /\ TakesKey("receive", k)
            /\ snake' = [snake EXCEPT !.dire = k]
            /\ UNCHANGED <<video_mem, timers, count, screenVars>>

Pause == /\ TakesKey("receive", "p")
         /\ snake' = [snake EXCEPT !.pc = "paused"]
         /\ UNCHANGED <<video_mem, timers, count, screenVars>>

\* The loop of the pause drops interrupts and other keys.
PausedDrops ==
    /\ \/ TakesInterrupt("paused")
       \/ \E k \in Keys \ {"p"} : TakesKey("paused", k)
    /\ UNCHANGED <<snake, video_mem, timers, count, screenVars>>

\* Mutant: the game goes on without a timer of its own.
ResumeNoTimer == /\ TakesKey("paused", "p")
                 /\ snake' = [snake EXCEPT !.pc = "receive"]
                 /\ UNCHANGED <<video_mem, timers, count, screenVars>>

\* A timer of before the pause may still be armed.
Resume == /\ TakesKey("paused", "p")
          /\ snake' = [snake EXCEPT !.pc = "receive"]
          /\ SetTimer
          /\ UNCHANGED <<video_mem, count, screenVars>>

\* Mutant: the blank picture is not drawn.
ExitUndrawn == /\ TakesKey("receive", "SHIFT")
               /\ snake' = [snake EXCEPT !.pc = "exit"]
               /\ video_mem' = [i \in DOMAIN video_mem |-> EMPTY]
               /\ UNCHANGED <<timers, count, screenVars>>

\* snake_exit(): a blank picture, the terminal, the memory server.
Exit == /\ TakesKey("receive", "SHIFT")
        /\ snake' = [snake EXCEPT !.pc = "bye"]
        /\ video_mem' = [i \in DOMAIN video_mem |-> EMPTY]
        /\ UNCHANGED <<timers, count, screenVars>>

\* The terminal hears of it when it has nothing else to do: neither a key to
\* send nor a prompt to display.
Leave == /\ snake.pc = "exit" /\ key = NoKey /\ tty = <<>>
         /\ snake' = [snake EXCEPT !.pc = "gone"]
         /\ tty' = DispStr(Prompt)
         /\ UNCHANGED <<video_mem, timers, int, key, count, consoleVars, fresh>>

-----------------------------------------------------------------------------
(* The others.                                                             *)

\* A timer runs out: inform_int() adds to what is pending.
TimerFires == /\ timers > 0 /\ snake.pc # "gone"
              /\ timers' = timers - 1
              /\ int' = TRUE
              /\ UNCHANGED <<snake, video_mem, key, count, screenVars>>

\* The terminal displays a statement's worth of its prompt.
Show == /\ tty # <<>>
        /\ Perform(Head(Statements(tty)))
        /\ tty' = Tail(Statements(tty))
        /\ fresh' = FALSE
        /\ UNCHANGED <<gameVars, out>>

\* The terminal forwards a key of the user, once its prompt is displayed.
Forward == /\ snake.pc # "gone" /\ key = NoKey /\ count.keys < MaxKeys
           /\ tty = <<>>
           /\ key' \in Keys
           /\ count' = [count EXCEPT !.keys = @ + 1]
           /\ UNCHANGED <<snake, video_mem, timers, int, screenVars>>

Output == OutputStep(video_mem) /\ UNCHANGED <<gameVars, tty, fresh>>

Game == \/ ClearScreen \/ InitGame \/ Move \/ Refresh \/ Rearm \/ Steer \/ Pause
        \/ PausedDrops \/ Resume \/ Exit \/ Leave

Next == Game \/ TimerFires \/ Show \/ Forward \/ Output

Spec == Init /\ [][Next]_vars

-----------------------------------------------------------------------------
(* Properties.                                                             *)

Occupied == LET n == (snake.head - snake.tail) % LENGTH
            IN  {snake.pos[(snake.tail + i) % LENGTH] : i \in 0 .. n - 1}

Playing == snake.pc \in {"refresh", "receive", "moved", "timer", "paused"}

TypeOK ==
    /\ snake \in [pc : {"clear", "init", "refresh", "receive", "moved", "timer", "paused",
                        "bye", "exit", "gone", "astray"},
                  head : 0 .. LENGTH - 1, tail : 0 .. LENGTH - 1, now : 0 .. LENGTH - 1,
                  ball : 0 .. VALID - 1, pos : [0 .. LENGTH - 1 -> 0 .. LENGTH - 1],
                  dire : {"UP", "DOWN", "LEFT", "RIGHT"}]
    /\ timers \in 0 .. NTimers /\ int \in BOOLEAN /\ key \in Keys \union {NoKey}

\* The ring of positions holds the snake.
Fits == count.eaten < LENGTH - 1

\* What the picture shows is a part of the snake or the ball: nothing is left
\* behind by a snake that has crossed itself, eaten, or gone over the edge.
NoTrace ==
    Playing /\ Fits =>
      \A i \in DOMAIN video_mem :
        video_mem[i] # EMPTY => i \in Occupied \union {snake.ball}

\* The game goes on: unless it is paused, a timer is armed for it, an interrupt
\* is pending, or it has not come to arm the next one, however pauses, keys and
\* late interrupts fall together.
StaysTicking == snake.pc = "receive" => timers > 0 \/ int

\* When OUTPUT has come to rest and the game waits, the screen shows the game's
\* picture, although it may have changed under OUTPUT's hands and the prompt
\* have moved the cursor under the clearing; unless the prompt is being written
\* over the picture.
ScreenIsPicture ==
    /\ snake.pc \in {"receive", "paused", "exit", "gone"} /\ OutputIdle /\ fresh
    => /\ crt = console
       /\ \A i \in 0 .. LENGTH - 1 : Seen(console.start + i) = video_mem[i]

\* "The time between moves": the timer is set once for the next move.
OneTimer == timers <= 1
=============================================================================
