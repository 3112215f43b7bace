----------------------------- MODULE SnakeProofs -----------------------------
(***************************************************************************)
(* The game of Snake never stops ticking, leaves no trace, and is what the *)
(* screen shows, for every size of the screen and every number of timers.  *)
(***************************************************************************)
EXTENDS Snake, SequenceTheorems, TLAPS

\* What keeps the game going, as far as its timers are concerned: a game that
\* waits, or draws its first picture, has a timer armed or an interrupt
\* pending.
TickingInv ==
    /\ "pc" \in DOMAIN snake
    /\ timers \in 0 .. NTimers
    /\ int \in BOOLEAN
    /\ snake.pc \in {"receive", "refresh"} => timers > 0 \/ int

\* After sys_set_timer() a timer is armed, be it an old one.
LEMMA TimerSet ==
    ASSUME TickingInv, SetTimer
    PROVE  timers' \in 0 .. NTimers /\ timers' > 0
BY SnakeAssumption DEF TickingInv, SetTimer

LEMMA TickingInit == Init => TickingInv
<1> SUFFICES ASSUME Init
             PROVE  TickingInv
    OBVIOUS
<1>1. timers = 0 /\ int = FALSE
    BY DEF Init
<1>2. PICK pos, dire :
          snake = [pc |-> "clear", head |-> 1, tail |-> 0, now |-> 0, ball |-> 0,
                   pos |-> pos, dire |-> dire]
    BY DEF Init
<1>3. "pc" \in DOMAIN snake /\ snake.pc = "clear"
    BY <1>2
<1>4. timers \in 0 .. NTimers
    BY <1>1, SnakeAssumption
<1>5. int \in BOOLEAN
    BY <1>1
<1> QED BY <1>3, <1>4, <1>5 DEF TickingInv

\* A message to OUTPUT moves the game on and touches no timer.
LEMMA SendsKeeps ==
    ASSUME TickingInv, NEW pc, NEW next, NEW m, Sends(pc, next, m),
           UNCHANGED <<timers, int>>, next = "receive" => pc = "refresh",
           next # "refresh"
    PROVE  TickingInv'
BY DEF TickingInv, Sends

\* A move, wherever it leads, ends in a redrawing and not in a wait.
LEMMA MoveKeeps == TickingInv /\ Move => TickingInv'
<1> SUFFICES ASSUME TickingInv, Move
             PROVE  TickingInv'
    OBVIOUS
<1>1. int' = FALSE /\ timers' = timers
    BY DEF Move, TakesInterrupt
<1>2. "pc" \in DOMAIN snake' /\ snake'.pc \in {"moved", "astray"}
    <2>1. CASE NextPos >= 0
        BY <2>1 DEF Move, MoveTo, TickingInv
    <2>2. CASE ~(NextPos >= 0)
        BY <2>2 DEF Move, TickingInv
    <2> QED BY <2>1, <2>2
<1> QED BY <1>1, <1>2 DEF TickingInv

LEMMA TickingStep == TickingInv /\ [Next]_vars => TickingInv'
<1> SUFFICES ASSUME TickingInv, [Next]_vars
             PROVE  TickingInv'
    OBVIOUS
<1>1. CASE ClearScreen
    BY <1>1, SendsKeeps DEF ClearScreen
<1>2. CASE InitGame
    BY <1>2, TimerSet DEF InitGame, TickingInv
<1>3. CASE Move
    BY <1>3, MoveKeeps
<1>4. CASE Refresh
    BY <1>4, SendsKeeps DEF Refresh
<1>5. CASE Rearm
    BY <1>5, TimerSet DEF Rearm, TickingInv
<1>6. CASE Steer
    BY <1>6 DEF Steer, TakesKey, TickingInv
<1>7. CASE Pause
    BY <1>7 DEF Pause, TakesKey, TickingInv
<1>8. CASE PausedDrops
    BY <1>8 DEF PausedDrops, TakesInterrupt, TakesKey, TickingInv
<1>9. CASE Resume
    BY <1>9, TimerSet DEF Resume, TakesKey, TickingInv
<1>10. CASE Exit
    BY <1>10 DEF Exit, TakesKey, TickingInv
<1>11. CASE Leave
    BY <1>11 DEF Leave, TickingInv
<1>12. CASE TimerFires
    BY <1>12, SnakeAssumption DEF TimerFires, TickingInv
<1>13. CASE Forward
    BY <1>13 DEF Forward, TickingInv
<1>14. CASE Output
    BY <1>14 DEF Output, gameVars, TickingInv
<1>15. CASE Show \/ UNCHANGED vars
    BY <1>15 DEF Show, vars, gameVars, TickingInv
<1> QED
    BY <1>1, <1>2, <1>3, <1>4, <1>5, <1>6, <1>7, <1>8, <1>9, <1>10, <1>11,
       <1>12, <1>13, <1>14, <1>15 DEF Next, Game

\* The game goes on: whenever it waits for a message in snake.c's main loop, a
\* timer is armed for it or an interrupt is already pending.
THEOREM Ticking == Spec => []StaysTicking
<1>1. TickingInv => StaysTicking
    BY DEF TickingInv, StaysTicking
<1> QED BY <1>1, TickingInit, TickingStep, PTL DEF Spec

-----------------------------------------------------------------------------
(* Types.                                                                  *)

Pcs == {"clear", "init", "refresh", "receive", "moved", "timer", "paused",
        "bye", "exit", "gone", "astray"}

Ring == 0 .. LENGTH - 1

SnakeType == [pc : Pcs, head : Ring, tail : Ring, now : Ring, ball : 0 .. VALID - 1,
              pos : [Ring -> Ring], dire : {"UP", "DOWN", "LEFT", "RIGHT"}]

LEMMA Sizes ==
    /\ LENGTH \in Nat /\ LENGTH > 1 /\ WIDTH \in Nat /\ VALID \in 1 .. LENGTH
    /\ 0 \in Ring /\ 1 \in Ring /\ \A b \in 0 .. VALID - 1 : b \in Ring
<1>1. WIDTH \in Nat /\ LENGTH \in Nat
    BY ConsoleAssumption DEF LENGTH
<1> QED BY <1>1, SnakeAssumption DEF Ring

\* Arithmetic modulo the length of the ring.
LEMMA Wrapped ==
    ASSUME NEW n \in Nat
    PROVE  /\ n % LENGTH \in Ring
           /\ n < LENGTH => n % LENGTH = n
           /\ n >= LENGTH /\ n < 2 * LENGTH => n % LENGTH = n - LENGTH
<1>1. n % LENGTH \in Ring
    BY Sizes DEF Ring
<1>2. n < LENGTH => n % LENGTH = n
    BY Sizes
<1>3. n >= LENGTH /\ n < 2 * LENGTH => n % LENGTH = n - LENGTH
    BY Sizes
<1> QED BY <1>1, <1>2, <1>3

\* The game's variables as they are typed, with the history of the balls eaten.
GameType ==
    /\ TypeOK
    /\ DOMAIN video_mem = Ring
    /\ count \in [moves : Nat, keys : Nat, eaten : Nat]

LEMMA PcType ==
    ASSUME snake \in SnakeType, NEW pc \in Pcs
    PROVE  /\ [snake EXCEPT !.pc = pc] \in SnakeType
           /\ [snake EXCEPT !.pc = pc].pc = pc
           /\ \A f \in {"head", "tail", "now", "ball", "pos", "dire"} :
                 [snake EXCEPT !.pc = pc][f] = snake[f]
BY DEF SnakeType

\* A new position that is not negative is one of the picture.
LEMMA NextPosType ==
    ASSUME snake \in SnakeType, NextPos >= 0
    PROVE  NextPos \in Ring
<1>1. snake.pos[snake.now] \in Ring /\ Direction(snake.dire) \in Int
    BY Sizes DEF SnakeType, Direction
<1> DEFINE a == snake.pos[snake.now] + Direction(snake.dire)
<1>2. a \in Int
    BY <1>1, Sizes DEF Ring
<1>3. NextPos = IF a >= 0 THEN a % LENGTH ELSE -((-a) % LENGTH)
    BY DEF NextPos, Remainder
<1> HIDE DEF a
<1>4. CASE a >= 0
    BY <1>2, <1>3, <1>4, Wrapped
<1>5. CASE ~(a >= 0)
    <2>1. (-a) % LENGTH \in Ring
        BY <1>2, <1>5, Wrapped
    <2>2. NextPos = -((-a) % LENGTH)
        BY <1>3, <1>5
    <2> HIDE DEF NextPos
    <2> QED BY <2>1, <2>2, Sizes DEF Ring
<1> QED BY <1>4, <1>5

\* What a move makes of the snake, the picture and the history; e says whether
\* the ball was eaten.
Moved(p, e) ==
    LET pos == [snake.pos EXCEPT ![snake.head] = p]
        moved == [video_mem EXCEPT ![snake.pos[snake.now]] = BODY, ![p] = HEAD]
    IN  /\ snake'.pc = "moved" /\ snake'.pos = pos
        /\ snake'.now = snake.head /\ snake'.head = Succ(snake.head)
        /\ IF e
           THEN /\ p = snake.ball /\ snake'.tail = snake.tail
                /\ video_mem' = [moved EXCEPT ![snake'.ball] = BALL]
                /\ count'.eaten = count.eaten + 1
           ELSE /\ snake'.ball = snake.ball /\ snake'.tail = Succ(snake.tail)
                /\ video_mem' = [moved EXCEPT ![pos[snake.tail]] = EMPTY]
                /\ count'.eaten = count.eaten

LEMMA MoveToType ==
    ASSUME GameType, NEW p \in Ring, MoveTo(p)
    PROVE  /\ snake' \in SnakeType /\ DOMAIN video_mem' = Ring
           /\ count' \in [moves : Nat, keys : Nat, eaten : Nat]
           /\ \E e \in BOOLEAN : Moved(p, e)
<1>1. snake \in SnakeType /\ Succ(snake.head) \in Ring /\ Succ(snake.tail) \in Ring
    <2>1. snake \in SnakeType
        BY DEF GameType, TypeOK, SnakeType, Pcs, Ring
    <2>2. \A i \in Ring : Succ(i) \in Ring
        BY Wrapped, Sizes DEF Succ, Ring
    <2> QED BY <2>1, <2>2 DEF SnakeType
<1>2. [snake.pos EXCEPT ![snake.head] = p] \in [Ring -> Ring]
    BY <1>1 DEF SnakeType
<1>3. CASE p # snake.ball
    <2>1. /\ snake' = [snake EXCEPT !.pos = [snake.pos EXCEPT ![snake.head] = p],
                        !.now = snake.head, !.head = Succ(snake.head),
                        !.pc = "moved", !.tail = Succ(snake.tail)]
          /\ count' = [count EXCEPT !.moves = @ + 1]
          /\ video_mem' = [[video_mem EXCEPT ![snake.pos[snake.now]] = BODY, ![p] = HEAD]
                             EXCEPT ![[snake.pos EXCEPT ![snake.head] = p][snake.tail]] = EMPTY]
        BY <1>1, <1>3 DEF MoveTo, LastCell, SnakeType
    <2>2. snake' \in SnakeType
        BY <1>1, <1>2, <2>1 DEF SnakeType, Pcs
    <2>3. /\ DOMAIN video_mem' = Ring /\ count'.eaten = count.eaten
          /\ count' \in [moves : Nat, keys : Nat, eaten : Nat]
        BY <2>1 DEF GameType
    <2>4. Moved(p, FALSE)
        BY <1>1, <2>1, <2>3 DEF Moved, SnakeType
    <2> QED BY <2>2, <2>3, <2>4
<1>4. CASE p = snake.ball
    <2>1. PICK ball \in 0 .. VALID - 1 :
             /\ snake' = [snake EXCEPT !.pos = [snake.pos EXCEPT ![snake.head] = p],
                           !.now = snake.head, !.head = Succ(snake.head),
                           !.pc = "moved", !.ball = ball]
             /\ count' = [count EXCEPT !.moves = @ + 1, !.eaten = @ + 1]
             /\ video_mem' = [[video_mem EXCEPT ![snake.pos[snake.now]] = BODY, ![p] = HEAD]
                                EXCEPT ![ball] = BALL]
        BY <1>1, <1>4 DEF MoveTo, SnakeType
    <2>2. snake' \in SnakeType
        BY <1>1, <1>2, <2>1 DEF SnakeType, Pcs
    <2>3. /\ DOMAIN video_mem' = Ring /\ count'.eaten = count.eaten + 1
          /\ count' \in [moves : Nat, keys : Nat, eaten : Nat]
        <3>1. DOMAIN video_mem' = Ring
            BY <2>1 DEF GameType
        <3>2. count \in [moves : Nat, keys : Nat, eaten : Nat]
            BY DEF GameType
        <3>3. count' = [moves |-> count.moves + 1, keys |-> count.keys,
                        eaten |-> count.eaten + 1]
            BY <2>1, <3>2
        <3>4. count.moves + 1 \in Nat /\ count.keys \in Nat /\ count.eaten + 1 \in Nat
            BY <3>2
        <3> QED BY <3>1, <3>3, <3>4
    <2>4. Moved(p, TRUE)
        BY <1>1, <1>4, <2>1, <2>3 DEF Moved, SnakeType
    <2> QED BY <2>2, <2>3, <2>4
<1> QED BY <1>3, <1>4

\* The steps other than a move only change pc, ball and dire of the snake.
LEMMA TypeStep == GameType /\ [Next]_vars => GameType'
<1> SUFFICES ASSUME GameType, [Next]_vars
             PROVE  GameType'
    OBVIOUS
<1>t. /\ snake \in SnakeType /\ timers \in 0 .. NTimers /\ int \in BOOLEAN
      /\ key \in Keys \cup {NoKey} /\ DOMAIN video_mem = Ring
      /\ count \in [moves : Nat, keys : Nat, eaten : Nat]
    BY DEF GameType, TypeOK, SnakeType, Pcs, Ring
<1>g. ASSUME snake' \in SnakeType, timers' \in 0 .. NTimers, int' \in BOOLEAN,
             key' \in Keys \cup {NoKey}, DOMAIN video_mem' = Ring,
             count' \in [moves : Nat, keys : Nat, eaten : Nat]
      PROVE  GameType'
    BY <1>g DEF GameType, TypeOK, SnakeType, Pcs, Ring
<1>s. SetTimer => timers' \in 0 .. NTimers
    BY <1>t, SnakeAssumption DEF SetTimer
<1>1. CASE ClearScreen
    BY <1>1, <1>t, <1>g, PcType DEF ClearScreen, Sends, Pcs
<1>2. CASE InitGame
    <2>1. PICK ball \in 0 .. VALID - 1 :
             /\ snake' = [snake EXCEPT !.pc = "refresh", !.ball = ball]
             /\ video_mem' = [video_mem EXCEPT ![0] = HEAD, ![ball] = BALL]
        BY <1>2 DEF InitGame
    <2>2. snake' \in SnakeType /\ DOMAIN video_mem' = Ring
        BY <1>t, <2>1 DEF SnakeType, Pcs
    <2> QED BY <1>2, <1>t, <1>g, <1>s, <2>2 DEF InitGame
<1>3. CASE Move
    <2>1. snake' \in SnakeType /\ DOMAIN video_mem' = Ring
          /\ count' \in [moves : Nat, keys : Nat, eaten : Nat]
        <3>1. CASE NextPos >= 0
            BY <1>3, <1>t, <3>1, NextPosType, MoveToType DEF Move
        <3>2. CASE ~(NextPos >= 0)
            BY <1>3, <1>t, <3>2, PcType DEF Move, Pcs
        <3> QED BY <3>1, <3>2
    <2>2. int' = FALSE /\ UNCHANGED <<timers, key>>
        BY <1>3 DEF Move, TakesInterrupt
    <2> QED BY <1>t, <1>g, <2>1, <2>2
<1>4. CASE Refresh
    BY <1>4, <1>t, <1>g, PcType DEF Refresh, Sends, Pcs
<1>5. CASE Rearm
    BY <1>5, <1>t, <1>g, <1>s, PcType DEF Rearm, Pcs
<1>6. CASE Steer
    <2>1. PICK k \in {"UP", "DOWN", "LEFT", "RIGHT"} : snake' = [snake EXCEPT !.dire = k]
        BY <1>6 DEF Steer
    <2>2. snake' \in SnakeType
        BY <1>t, <2>1 DEF SnakeType
    <2> QED BY <1>6, <1>t, <1>g, <2>2 DEF Steer, TakesKey
<1>7. CASE Pause
    BY <1>7, <1>t, <1>g, PcType DEF Pause, TakesKey, Pcs
<1>8. CASE PausedDrops
    BY <1>8, <1>t, <1>g DEF PausedDrops, TakesKey, TakesInterrupt
<1>9. CASE Resume
    BY <1>9, <1>t, <1>g, <1>s, PcType DEF Resume, TakesKey, Pcs
<1>10. CASE Exit
    <2>1. DOMAIN video_mem' = Ring
        BY <1>10, <1>t DEF Exit
    <2> QED BY <1>10, <1>t, <1>g, <2>1, PcType DEF Exit, TakesKey, Pcs
<1>11. CASE Leave
    BY <1>11, <1>t, <1>g, PcType DEF Leave, Pcs
<1>12. CASE TimerFires
    BY <1>12, <1>t, <1>g, SnakeAssumption DEF TimerFires
<1>13. CASE Forward
    <2>1. count' \in [moves : Nat, keys : Nat, eaten : Nat]
        BY <1>13, <1>t DEF Forward
    <2> QED BY <1>13, <1>t, <1>g, <2>1 DEF Forward
<1>14. CASE Output
    BY <1>14, <1>t, <1>g DEF Output, gameVars
<1>15. CASE Show \/ UNCHANGED vars
    BY <1>15, <1>t, <1>g DEF Show, vars, gameVars
<1> QED
    BY <1>1, <1>2, <1>3, <1>4, <1>5, <1>6, <1>7, <1>8, <1>9, <1>10, <1>11,
       <1>12, <1>13, <1>14, <1>15 DEF Next, Game

LEMMA GameTypeInit == Init => GameType
<1> SUFFICES ASSUME Init
             PROVE  GameType
    OBVIOUS
<1> DEFINE zeros == [i \in 0 .. LENGTH - 1 |-> 0]
<1>1. zeros \in [Ring -> Ring] /\ 0 \in 0 .. VALID - 1
    BY Sizes DEF Ring
<1>2. snake = [pc |-> "clear", head |-> 1, tail |-> 0, now |-> 0, ball |-> 0,
               pos |-> zeros, dire |-> "DOWN"]
    BY DEF Init
<1> HIDE DEF zeros
<1>3. snake \in SnakeType
    BY <1>1, <1>2, Sizes DEF SnakeType, Pcs
<1>4. timers \in 0 .. NTimers
    BY SnakeAssumption DEF Init
<1>5. int \in BOOLEAN /\ key \in Keys \cup {NoKey}
    BY DEF Init
<1>6. DOMAIN video_mem = Ring /\ count \in [moves : Nat, keys : Nat, eaten : Nat]
    BY DEF Init, Ring
<1> QED BY <1>3, <1>4, <1>5, <1>6 DEF GameType, TypeOK, SnakeType, Pcs, Ring

LEMMA GameTyped == Spec => []GameType
BY GameTypeInit, TypeStep, PTL DEF Spec

\* The ring's indices and positions stay in their ranges as long as the game
\* does not go over the upper edge.
THEOREM Types == Spec => []TypeOK
<1>1. GameType => TypeOK
    BY DEF GameType
<1> QED BY <1>1, GameTyped, PTL

-----------------------------------------------------------------------------
(* The picture: from the tail on the ring holds the cells of the snake, one *)
(* more than it has eaten balls, and what is drawn is among them.           *)

NthIndex(i) == (snake.tail + i) % LENGTH

Cells(n) == {snake.pos[NthIndex(i)] : i \in 0 .. n}

PictureAt(e) ==
    /\ snake.now = NthIndex(e) /\ snake.head = NthIndex(e + 1)
    /\ \A c \in Ring : video_mem[c] # EMPTY => c \in Cells(e) \cup {snake.ball}

PictureInv ==
    /\ Playing /\ Fits => PictureAt(count.eaten)
    /\ snake.pc \in {"clear", "init"} =>
          /\ snake.head = 1 /\ snake.tail = 0 /\ snake.now = 0 /\ snake.pos[0] = 0
          /\ count.eaten = 0 /\ \A c \in Ring : video_mem[c] = EMPTY

LEMMA Added ==
    ASSUME NEW a \in Ring, NEW b \in Ring
    PROVE  /\ (a + b) % LENGTH = IF a + b < LENGTH THEN a + b ELSE a + b - LENGTH
           /\ (a + b) % LENGTH \in Ring
<1>1. a \in Nat /\ b \in Nat /\ a + b \in Nat /\ a + b < 2 * LENGTH
    BY Sizes DEF Ring
<1> DEFINE n == a + b
<1>2. /\ n % LENGTH \in Ring
      /\ n < LENGTH => n % LENGTH = n
      /\ n >= LENGTH /\ n < 2 * LENGTH => n % LENGTH = n - LENGTH
    <2>1. n \in Nat
        BY <1>1
    <2> HIDE DEF n
    <2> QED BY <2>1, Wrapped
<1> QED BY <1>1, <1>2, Sizes

\* Positions of the ring that are less than a lap apart are different.
LEMMA Distinct ==
    ASSUME NEW a \in Ring, NEW i \in Ring, NEW j \in Ring,
           (a + i) % LENGTH = (a + j) % LENGTH
    PROVE  i = j
<1>1. /\ (a + i) % LENGTH = IF a + i < LENGTH THEN a + i ELSE a + i - LENGTH
      /\ (a + j) % LENGTH = IF a + j < LENGTH THEN a + j ELSE a + j - LENGTH
    BY Added
<1> QED BY <1>1, Sizes DEF Ring

\* One further along the ring, from this position or from the next.
LEMMA Further ==
    ASSUME NEW a \in Ring, NEW i \in Ring, i + 1 \in Ring
    PROVE  /\ Succ((a + i) % LENGTH) = (a + (i + 1)) % LENGTH
           /\ (Succ(a) + i) % LENGTH = (a + (i + 1)) % LENGTH
           /\ Succ(a) \in Ring /\ (a + 0) % LENGTH = a
<1>1. \A n \in Ring : Succ(n) = IF n + 1 < LENGTH THEN n + 1 ELSE 0
    <2>1. ASSUME NEW n \in Ring PROVE Succ(n) = IF n + 1 < LENGTH THEN n + 1 ELSE 0
        <3>1. n + 1 < LENGTH => (n + 1) % LENGTH = n + 1
            BY Wrapped, Sizes DEF Ring
        <3>2. ~(n + 1 < LENGTH) => (n + 1) % LENGTH = 0
            BY Added, Sizes DEF Ring
        <3> QED BY <3>1, <3>2 DEF Succ
    <2> QED BY <2>1
<1>2. /\ (a + i) % LENGTH = IF a + i < LENGTH THEN a + i ELSE a + i - LENGTH
      /\ (a + (i + 1)) % LENGTH = IF a + (i + 1) < LENGTH THEN a + (i + 1)
                                 ELSE a + (i + 1) - LENGTH
      /\ (a + i) % LENGTH \in Ring
    BY Added
<1>3. Succ((a + i) % LENGTH) = (a + (i + 1)) % LENGTH
    <2>1. Succ((a + i) % LENGTH) = IF ((a + i) % LENGTH) + 1 < LENGTH
                                   THEN ((a + i) % LENGTH) + 1 ELSE 0
        BY <1>1, <1>2
    <2> QED BY <1>2, <2>1, Sizes DEF Ring
<1>4. Succ(a) \in Ring /\ (a + 0) % LENGTH = a
    <2>1. a + 0 = a /\ (a + 0 < LENGTH)
        BY Sizes DEF Ring
    <2>2. a % LENGTH = a
        BY <2>1, Wrapped DEF Ring
    <2>3. Succ(a) \in Ring
        BY <1>1, Sizes DEF Ring
    <2> QED BY <2>1, <2>2, <2>3
<1>5. (Succ(a) + i) % LENGTH = (a + (i + 1)) % LENGTH
    <2>1. (Succ(a) + i) % LENGTH = IF Succ(a) + i < LENGTH THEN Succ(a) + i
                                   ELSE Succ(a) + i - LENGTH
        BY <1>4, Added
    <2> QED BY <1>1, <1>2, <2>1, Sizes DEF Ring
<1> QED BY <1>3, <1>4, <1>5

\* How far the head is ahead of the tail.
LEMMA Ahead ==
    ASSUME NEW a \in Ring, NEW n \in Ring
    PROVE  (((a + n) % LENGTH) - a) % LENGTH = n
<1>1. (a + n) % LENGTH = IF a + n < LENGTH THEN a + n ELSE a + n - LENGTH
    BY Added
<1>2. CASE a + n < LENGTH
    <2>1. ((a + n) % LENGTH) - a = n
        BY <1>1, <1>2 DEF Ring
    <2> QED BY <2>1, Wrapped, Sizes DEF Ring
<1>3. CASE ~(a + n < LENGTH)
    <2>1. ((a + n) % LENGTH) - a = n - LENGTH
        BY <1>1, <1>3, Sizes DEF Ring
    <2>2. (n - LENGTH) % LENGTH = n
        BY Sizes DEF Ring
    <2> QED BY <2>1, <2>2
<1> QED BY <1>2, <1>3

\* A move that eats nothing: the tail's cell is blanked and the head's drawn.
LEMMA MoveKeepsPicture ==
    ASSUME GameType, NEW n \in Nat, n < LENGTH - 1, PictureAt(n),
           NEW p \in Ring, Moved(p, FALSE), snake' \in SnakeType
    PROVE  PictureAt(n)'
<1>1. /\ snake \in SnakeType /\ snake.tail \in Ring /\ n \in Ring /\ n + 1 \in Ring
      /\ 0 \in Ring /\ DOMAIN video_mem = Ring /\ \A i \in 0 .. n : i \in Ring /\ i + 1 \in Ring
    <2>1. snake \in SnakeType
        BY DEF GameType, TypeOK, SnakeType, Pcs, Ring
    <2>2. n \in Ring /\ n + 1 \in Ring /\ \A i \in 0 .. n : i \in Ring /\ i + 1 \in Ring
        BY Sizes DEF Ring
    <2> QED BY <2>1, <2>2, Sizes DEF GameType, SnakeType
<1>2. /\ snake'.pos = [snake.pos EXCEPT ![snake.head] = p]
      /\ snake'.now = snake.head /\ snake'.head = Succ(snake.head)
      /\ snake'.ball = snake.ball /\ snake'.tail = Succ(snake.tail)
      /\ video_mem' = [[video_mem EXCEPT ![snake.pos[snake.now]] = BODY, ![p] = HEAD]
                        EXCEPT ![snake'.pos[snake.tail]] = EMPTY]
    BY DEF Moved
<1>3. snake.now = NthIndex(n) /\ snake.head = NthIndex(n + 1) /\ NthIndex(0) = snake.tail
    BY <1>1, Further DEF PictureAt, NthIndex
<1>4. \A i \in 0 .. n : NthIndex(i)' = NthIndex(i + 1)
    <2>1. ASSUME NEW i \in 0 .. n PROVE NthIndex(i)' = NthIndex(i + 1)
        <3>1. i \in Ring /\ i + 1 \in Ring /\ snake.tail \in Ring
            BY <1>1
        <3>2. (Succ(snake.tail) + i) % LENGTH = (snake.tail + (i + 1)) % LENGTH
            BY <3>1, Further
        <3> QED BY <1>2, <3>2 DEF NthIndex
    <2> QED BY <2>1
<1>5. \A i \in 0 .. n : NthIndex(i) \in Ring /\ NthIndex(i) # snake.head
    <2>1. ASSUME NEW i \in 0 .. n PROVE NthIndex(i) \in Ring /\ NthIndex(i) # snake.head
        <3>1. i \in Ring /\ n + 1 \in Ring /\ i # n + 1 /\ snake.tail \in Ring
            BY <1>1
        <3>2. (snake.tail + i) % LENGTH \in Ring
            BY <3>1, Added
        <3>3. (snake.tail + i) % LENGTH # (snake.tail + (n + 1)) % LENGTH
            BY <3>1, Distinct
        <3> QED BY <1>3, <3>2, <3>3 DEF NthIndex
    <2> QED BY <2>1
<1>6. \A i \in 0 .. n : snake'.pos[NthIndex(i)] = snake.pos[NthIndex(i)]
    BY <1>1, <1>2, <1>5 DEF SnakeType
<1>7. snake'.now = NthIndex(n)' /\ snake'.head = NthIndex(n + 1)'
    <2>1. NthIndex(n)' = NthIndex(n + 1)
        BY <1>4
    <2>2. Succ(snake.tail) \in Ring
        BY <1>1, Further
    <2>3. Succ((Succ(snake.tail) + n) % LENGTH) = (Succ(snake.tail) + (n + 1)) % LENGTH
        BY <1>1, <2>2, Further
    <2> QED BY <1>2, <1>3, <2>1, <2>3 DEF NthIndex
<1>8. ASSUME NEW c \in Ring, video_mem'[c] # EMPTY
      PROVE  c \in (Cells(n) \cup {snake.ball})'
    <2>1. c # snake'.pos[snake.tail]
        BY <1>1, <1>2, <1>8
    <2>2. c = p \/ c = snake.pos[snake.now] \/ video_mem[c] # EMPTY
        BY <1>1, <1>2, <1>8, <2>1
    <2>3. CASE c = p
        <3>1. snake'.pos[NthIndex(n)'] = p
            BY <1>1, <1>2, <1>3, <1>4 DEF SnakeType, NthIndex
        <3> QED BY <2>3, <3>1 DEF Cells
    <2>4. CASE c # p
        <3>1. c \in Cells(n) \/ c = snake.ball
            BY <1>3, <2>2, <2>4 DEF PictureAt, Cells
        <3>2. ASSUME c \in Cells(n) PROVE c \in Cells(n)'
            <4>1. PICK i \in 0 .. n : c = snake.pos[NthIndex(i)]
                BY <3>2 DEF Cells
            <4>2. i # 0
                BY <1>3, <1>6, <2>1, <4>1
            <4>3. i - 1 \in 0 .. n /\ (i - 1) + 1 = i
                BY <4>2
            <4>4. NthIndex(i - 1)' = NthIndex(i) /\ c = snake'.pos[NthIndex(i)]
                BY <1>4, <1>6, <4>1, <4>3
            <4> QED BY <4>3, <4>4 DEF Cells
        <3> QED BY <1>2, <3>1, <3>2
    <2> QED BY <2>3, <2>4
<1> QED BY <1>7, <1>8 DEF PictureAt

\* A move onto the ball: the tail stays and a new ball is drawn.
LEMMA EatKeepsPicture ==
    ASSUME GameType, NEW n \in Nat, n + 1 < LENGTH - 1, PictureAt(n),
           NEW p \in Ring, Moved(p, TRUE), snake' \in SnakeType
    PROVE  PictureAt(n + 1)'
<1>1. /\ snake \in SnakeType /\ snake.tail \in Ring /\ n \in Ring /\ n + 1 \in Ring
      /\ (n + 1) + 1 \in Ring
      /\ DOMAIN video_mem = Ring /\ \A i \in 0 .. n : i \in Ring
    <2>1. snake \in SnakeType
        BY DEF GameType, TypeOK, SnakeType, Pcs, Ring
    <2>2. n \in Ring /\ n + 1 \in Ring /\ (n + 1) + 1 \in Ring /\ \A i \in 0 .. n : i \in Ring
        BY Sizes DEF Ring
    <2> QED BY <2>1, <2>2 DEF GameType, SnakeType
<1>2. /\ snake'.pos = [snake.pos EXCEPT ![snake.head] = p]
      /\ snake'.now = snake.head /\ snake'.head = Succ(snake.head)
      /\ p = snake.ball /\ snake'.tail = snake.tail
      /\ video_mem' = [[video_mem EXCEPT ![snake.pos[snake.now]] = BODY, ![p] = HEAD]
                        EXCEPT ![snake'.ball] = BALL]
    BY DEF Moved
<1>3. snake.now = NthIndex(n) /\ snake.head = NthIndex(n + 1)
    BY DEF PictureAt
<1>4. \A i : NthIndex(i)' = NthIndex(i)
    BY <1>2 DEF NthIndex
<1>5. \A i \in 0 .. n : NthIndex(i) \in Ring /\ NthIndex(i) # snake.head
    <2>1. ASSUME NEW i \in 0 .. n PROVE NthIndex(i) \in Ring /\ NthIndex(i) # snake.head
        <3>1. i \in Ring /\ n + 1 \in Ring /\ i # n + 1 /\ snake.tail \in Ring
            BY <1>1
        <3>2. (snake.tail + i) % LENGTH \in Ring
            BY <3>1, Added
        <3>3. (snake.tail + i) % LENGTH # (snake.tail + (n + 1)) % LENGTH
            BY <3>1, Distinct
        <3> QED BY <1>3, <3>2, <3>3 DEF NthIndex
    <2> QED BY <2>1
<1>6. \A i \in 0 .. n : snake'.pos[NthIndex(i)] = snake.pos[NthIndex(i)]
    BY <1>1, <1>2, <1>5 DEF SnakeType
<1>7. snake'.now = NthIndex(n + 1)' /\ snake'.head = NthIndex((n + 1) + 1)'
    BY <1>1, <1>2, <1>3, <1>4, Further DEF NthIndex
<1>8. ASSUME NEW c \in Ring, video_mem'[c] # EMPTY
      PROVE  c \in (Cells(n + 1) \cup {snake.ball})'
    <2>1. \/ c = p \/ c = snake'.ball \/ c = snake.pos[snake.now] \/ video_mem[c] # EMPTY
        BY <1>1, <1>2, <1>8
    <2>2. CASE c = p
        <3>1. snake'.pos[NthIndex(n + 1)'] = p
            BY <1>1, <1>2, <1>3, <1>4 DEF SnakeType
        <3> QED BY <2>2, <3>1 DEF Cells
    <2>3. CASE c # p /\ c # snake'.ball
        <3>1. PICK i \in 0 .. n : c = snake.pos[NthIndex(i)]
            BY <1>2, <1>3, <2>1, <2>3 DEF PictureAt, Cells
        <3>2. i \in 0 .. n + 1 /\ c = snake'.pos[NthIndex(i)']
            BY <1>4, <1>6, <3>1
        <3> QED BY <3>2 DEF Cells
    <2> QED BY <2>2, <2>3
<1> QED BY <1>7, <1>8 DEF PictureAt

\* Steps that move nothing: the picture, the ring and the ball stay, and the
\* game is played as before or not played.
LEMMA PictureKept ==
    ASSUME PictureInv, snake.pc \notin {"clear", "init"},
           \A f \in {"head", "tail", "now", "ball", "pos"} : snake'[f] = snake[f],
           count'.eaten = count.eaten,
           snake'.pc \notin {"clear", "init"},
           Playing' => Playing /\ video_mem' = video_mem
    PROVE  PictureInv'
<1>1. /\ snake'.head = snake.head /\ snake'.tail = snake.tail /\ snake'.now = snake.now
      /\ snake'.ball = snake.ball /\ snake'.pos = snake.pos
    OBVIOUS
<1>2. SUFFICES ASSUME Playing', Fits' PROVE PictureAt(count.eaten)'
    BY DEF PictureInv
<1>3. PictureAt(count.eaten) /\ video_mem' = video_mem
    BY <1>2 DEF PictureInv, Fits
<1> QED BY <1>1, <1>3 DEF PictureAt, Cells, NthIndex

LEMMA PictureStep == GameType /\ PictureInv /\ [Next]_vars => PictureInv'
<1> SUFFICES ASSUME GameType, PictureInv, [Next]_vars
             PROVE  PictureInv'
    OBVIOUS
<1>t. /\ snake \in SnakeType /\ DOMAIN video_mem = Ring
      /\ count \in [moves : Nat, keys : Nat, eaten : Nat]
    BY DEF GameType, TypeOK, SnakeType, Pcs, Ring
<1>p. Playing => snake.pc \notin {"clear", "init"}
    BY DEF Playing
<1>1. CASE ClearScreen
    <2>1. /\ snake.pc = "clear" /\ snake' = [snake EXCEPT !.pc = "init"]
          /\ UNCHANGED <<video_mem, count>>
        BY <1>1 DEF ClearScreen, Sends
    <2>2. /\ snake'.pc = "init" /\ snake'.head = snake.head /\ snake'.tail = snake.tail
          /\ snake'.now = snake.now /\ snake'.pos = snake.pos
        BY <1>t, <2>1 DEF SnakeType
    <2> QED BY <2>1, <2>2 DEF PictureInv, Playing
<1>2. CASE InitGame
    <2>1. PICK ball \in 0 .. VALID - 1 :
             /\ snake' = [snake EXCEPT !.pc = "refresh", !.ball = ball]
             /\ video_mem' = [video_mem EXCEPT ![0] = HEAD, ![ball] = BALL]
        BY <1>2 DEF InitGame
    <2>2. /\ snake'.pc = "refresh" /\ snake'.ball = ball /\ snake'.head = 1
          /\ snake'.tail = 0 /\ snake'.now = 0 /\ snake'.pos[0] = 0
          /\ count.eaten = 0 /\ count' = count /\ \A c \in Ring : video_mem[c] = EMPTY
        BY <1>2, <1>t, <2>1 DEF InitGame, PictureInv, SnakeType
    <2>3. (0 + 0) % LENGTH = 0 /\ (0 + 1) % LENGTH = 1
        BY Wrapped, Sizes DEF Ring
    <2>4. snake'.now = NthIndex(0)' /\ snake'.head = NthIndex(0 + 1)' /\ snake'.pos[NthIndex(0)'] = 0
        BY <2>2, <2>3 DEF NthIndex
    <2>5. ASSUME NEW c \in Ring, video_mem'[c] # EMPTY
          PROVE  c \in (Cells(0) \cup {snake.ball})'
        <3>1. c = 0 \/ c = ball
            BY <1>t, <2>1, <2>2, <2>5
        <3> QED BY <2>2, <2>4, <3>1 DEF Cells
    <2>6. PictureAt(0)'
        BY <2>4, <2>5 DEF PictureAt
    <2> QED BY <2>2, <2>6 DEF PictureInv
<1>3. CASE Move
    <2>1. snake.pc = "receive" /\ Playing
        BY <1>3 DEF Move, TakesInterrupt, Playing
    <2>2. CASE NextPos >= 0
        <3>1. NextPos \in Ring /\ MoveTo(NextPos)
            BY <1>3, <1>t, <2>2, NextPosType DEF Move
        <3>2. PICK e \in BOOLEAN : Moved(NextPos, e)
            BY <3>1, MoveToType
        <3>3. snake' \in SnakeType
            BY <3>1, MoveToType
        <3>4. PICK n \in Nat : n = count.eaten /\ (Fits <=> n < LENGTH - 1)
            BY <1>t DEF Fits
        <3>5. CASE e
            <4>1. count'.eaten = n + 1 /\ Moved(NextPos, TRUE) /\ snake'.pc = "moved"
                BY <3>2, <3>4, <3>5 DEF Moved
            <4>2. Fits' => PictureAt(n + 1)'
                <5> SUFFICES ASSUME Fits'
                             PROVE  PictureAt(n + 1)'
                    OBVIOUS
                <5>1. n + 1 < LENGTH - 1 /\ Fits
                    BY <3>4, <4>1, Sizes DEF Fits
                <5>2. PictureAt(n)
                    BY <2>1, <3>4, <5>1 DEF PictureInv
                <5> QED BY <3>1, <3>3, <3>4, <4>1, <5>1, <5>2, EatKeepsPicture
            <4> QED BY <4>1, <4>2 DEF PictureInv
        <3>6. CASE ~e
            <4>1. count'.eaten = n /\ Moved(NextPos, FALSE) /\ snake'.pc = "moved"
                BY <3>2, <3>4, <3>6 DEF Moved
            <4>2. Fits' => PictureAt(n)'
                <5> SUFFICES ASSUME Fits'
                             PROVE  PictureAt(n)'
                    OBVIOUS
                <5>1. n < LENGTH - 1 /\ Fits
                    BY <3>4, <4>1, Sizes DEF Fits
                <5>2. PictureAt(n)
                    BY <2>1, <3>4, <5>1 DEF PictureInv
                <5> QED BY <3>1, <3>3, <3>4, <4>1, <5>1, <5>2, MoveKeepsPicture
            <4> QED BY <4>1, <4>2 DEF PictureInv
        <3> QED BY <3>5, <3>6
    <2>3. CASE ~(NextPos >= 0)
        <3>1. snake'.pc = "astray"
            BY <1>3, <1>t, <2>3 DEF Move, SnakeType
        <3> QED BY <3>1 DEF PictureInv, Playing
    <2> QED BY <2>2, <2>3
<1>4. CASE Refresh
    BY <1>4, <1>t, PictureKept DEF Refresh, Sends, Playing, SnakeType
<1>5. CASE Rearm
    BY <1>5, <1>t, PictureKept DEF Rearm, Playing, SnakeType
<1>6. CASE Steer
    BY <1>6, <1>t, PictureKept DEF Steer, TakesKey, Playing, SnakeType
<1>7. CASE Pause
    BY <1>7, <1>t, PictureKept DEF Pause, TakesKey, Playing, SnakeType
<1>8. CASE PausedDrops
    BY <1>8, PictureKept DEF PausedDrops, TakesKey, TakesInterrupt, Playing
<1>9. CASE Resume
    BY <1>9, <1>t, PictureKept DEF Resume, TakesKey, Playing, SnakeType
<1>10. CASE Exit
    BY <1>10, <1>t, PictureKept DEF Exit, TakesKey, Playing, SnakeType
<1>11. CASE Leave
    BY <1>11, <1>t, PictureKept DEF Leave, Playing, SnakeType
<1>12. CASE TimerFires \/ Show \/ Output \/ UNCHANGED vars
    <2>1. UNCHANGED <<snake, video_mem, count>>
        BY <1>12 DEF TimerFires, Show, Output, vars, gameVars
    <2> QED BY <2>1 DEF PictureInv, PictureAt, Playing, Fits, Cells, NthIndex
<1>13. CASE Forward
    <2>1. UNCHANGED <<snake, video_mem>> /\ count'.eaten = count.eaten
        BY <1>13, <1>t DEF Forward
    <2> QED BY <2>1 DEF PictureInv, PictureAt, Playing, Fits, Cells, NthIndex
<1> QED
    BY <1>1, <1>2, <1>3, <1>4, <1>5, <1>6, <1>7, <1>8, <1>9, <1>10, <1>11,
       <1>12, <1>13 DEF Next, Game

LEMMA PictureInit == Init => PictureInv
<1> SUFFICES ASSUME Init
             PROVE  PictureInv
    OBVIOUS
<1> DEFINE zeros == [i \in 0 .. LENGTH - 1 |-> 0]
<1>1. zeros[0] = 0
    BY Sizes DEF Ring
<1>2. /\ snake = [pc |-> "clear", head |-> 1, tail |-> 0, now |-> 0, ball |-> 0,
                  pos |-> zeros, dire |-> "DOWN"]
      /\ count.eaten = 0
    BY DEF Init
<1>3. \A c \in Ring : video_mem[c] = EMPTY
    BY DEF Init, Ring
<1> HIDE DEF zeros
<1> QED BY <1>1, <1>2, <1>3 DEF PictureInv, Playing

\* Nothing that is drawn is left behind: as long as the ring of positions holds
\* the snake, the picture shows only parts of the snake and the ball.
THEOREM NothingLeftBehind == Spec => []NoTrace
<1>1. GameType /\ PictureInv => NoTrace
    <2> SUFFICES ASSUME GameType, PictureInv, Playing, Fits
                 PROVE  \A i \in DOMAIN video_mem :
                           video_mem[i] # EMPTY => i \in Occupied \cup {snake.ball}
        BY DEF NoTrace
    <2> DEFINE n == count.eaten
    <2>1. /\ snake.tail \in Ring /\ DOMAIN video_mem = Ring
          /\ n \in Nat /\ n + 1 \in Ring /\ PictureAt(n)
        <3>1. snake \in SnakeType
            BY DEF GameType, TypeOK, SnakeType, Pcs, Ring
        <3>2. n \in Nat /\ n < LENGTH - 1 /\ DOMAIN video_mem = Ring
            BY DEF GameType, Fits
        <3>3. PictureAt(n)
            BY DEF PictureInv
        <3>4. n + 1 \in Ring
            BY <3>2, Sizes DEF Ring
        <3> QED BY <3>1, <3>2, <3>3, <3>4 DEF SnakeType
    <2>2. (snake.head - snake.tail) % LENGTH = n + 1
        BY <2>1, Ahead DEF PictureAt, NthIndex
    <2>3. Occupied = Cells(n)
        <3>1. Occupied = {snake.pos[(snake.tail + i) % LENGTH] : i \in 0 .. (n + 1) - 1}
            BY <2>2 DEF Occupied
        <3>2. (n + 1) - 1 = n
            BY <2>1
        <3> QED BY <3>1, <3>2 DEF Cells, NthIndex
    <2> QED BY <2>1, <2>3 DEF PictureAt
<1>2. Spec => []PictureInv
    BY PictureInit, PictureStep, GameTyped, PTL DEF Spec
<1> QED BY <1>1, <1>2, GameTyped, PTL

-----------------------------------------------------------------------------
(* The screen: OUTPUT has cleared it before the first picture is sent, and *)
(* the picture cannot change after a DRAW without another one to follow,   *)
(* so that every row drawn of the last one is the game's row.  Where the   *)
(* clearing has put the beginning of the screen depends on the prompt the  *)
(* terminal writes at the same time; it is never far.                      *)

ConsoleType == [cursor : Nat, start : Nat]

\* Two lines and a prompt.
Furthest == 2 * WIDTH + 2

\* The characters of the prompt.
Char(ch) == [Step("char") EXCEPT !.ch = ch]
Newline == Char(NL)
Angle == Char(">")
Space == Char(" ")

Putting(ch) == [Step("put") EXCEPT !.ch = ch]
PutAngle == Putting(">")
PutSpace == Putting(" ")

\* The terminal's prompt may yet move the cursor by n cells.
PromptLeft(n) ==
    \/ tty = <<Newline, Angle, Space>> /\ n = WIDTH + 2
    \/ /\ \/ tty = <<Step("home"), Step("cursor"), Angle, Space>>
          \/ tty = <<Step("cursor"), Angle, Space>>
          \/ tty = <<Angle, Space>>
       /\ n = 2
    \/ (tty = <<Step("cursor"), Space>> \/ tty = <<Space>>) /\ n = 1
    \/ (tty = <<Step("cursor")>> \/ tty = <<>>) /\ n = 0

\* The cursor stays near if something else moves it by m cells.
Within(m) == \E n \in Nat : PromptLeft(n) /\ console.cursor + n + m <= Furthest

Clearing ==
    \/ /\ out.todo = <<Step("down"), Step("home"), Step("top"), Step("screen")>>
       /\ Within(WIDTH)
    \/ /\ \/ out.todo = <<Step("home"), Step("top"), Step("screen")>>
          \/ out.todo = <<Step("top"), Step("screen")>>
          \/ out.todo = <<Step("screen")>>
          \/ out.todo = <<>>
       /\ Within(0)

\* What is left of a DRAW after n of its steps.
DrawRest(n) == [k \in 1 .. HEIGHT + 1 - n |->
                   IF k + n <= HEIGHT THEN [Step("row") EXCEPT !.row = k + n - 1]
                   ELSE Step("screen")]

\* What n steps of a DRAW have brought to the screen.
Shown(n) ==
    /\ \A j \in Ring : j < n * WIDTH => Seen(console.start + j) = video_mem[j]
    /\ n = HEIGHT + 1 => crt = console

Settled == {"timer", "receive", "paused", "exit", "gone"}

Drawing == \E n \in 0 .. HEIGHT + 1 :
              out.todo = DrawRest(n) /\ (snake.pc \in Settled /\ fresh => Shown(n))

ConsoleInv ==
    /\ DOMAIN video = 0 .. 2 * CELLS - 1 /\ {"todo", "pos"} \subseteq DOMAIN out
    /\ console \in ConsoleType /\ console.start <= Furthest
    /\ \E n \in Nat : PromptLeft(n)

ScreenInv ==
    /\ ConsoleInv
    /\ snake.pc = "clear" => OutputIdle /\ Within(WIDTH)
    /\ snake.pc \in {"init", "refresh"} => Clearing
    /\ snake.pc \notin {"clear", "init", "refresh"} =>
          out.pos = At(console.start) /\ Drawing

\* Short sequences put together: the statements of the display functions are.
LEMMA Joined ==
    /\ \A a, b : <<a>> \o <<b>> = <<a, b>>
    /\ \A a, b : <<a, b>> \o <<>> = <<a, b>>
    /\ \A a, b, c : <<a, b>> \o <<c>> = <<a, b, c>>
    /\ \A a, b, c, d : <<a, b>> \o <<c, d>> = <<a, b, c, d>>
    /\ \A a, b, c, d, e : <<a, b, c>> \o <<d, e>> = <<a, b, c, d, e>>
<1>1. ASSUME NEW a, NEW b
      PROVE  <<a>> \o <<b>> = <<a, b>>
    <2> DEFINE S == {a, b}
               s == <<a>> \o <<b>>
               t == <<a, b>>
    <2>1. s \in Seq(S) /\ Len(s) = 2 /\ s[1] = a /\ s[2] = b
        OBVIOUS
    <2>2. t \in Seq(S) /\ Len(t) = 2 /\ t[1] = a /\ t[2] = b
        OBVIOUS
    <2> HIDE DEF S, s, t
    <2>3. \A i \in 1 .. Len(s) : s[i] = t[i]
        BY <2>1, <2>2
    <2>4. s = t
        BY <2>1, <2>2, <2>3, SeqEqual
    <2> QED BY <2>4 DEF s, t
<1>2. ASSUME NEW a, NEW b
      PROVE  <<a, b>> \o <<>> = <<a, b>>
    <2> DEFINE S == {a, b}
    <2>1. <<a, b>> \in Seq(S)
        OBVIOUS
    <2> HIDE DEF S
    <2> QED BY <2>1
<1>3. ASSUME NEW a, NEW b, NEW c
      PROVE  <<a, b>> \o <<c>> = <<a, b, c>>
    <2> DEFINE S == {a, b, c}
               s == <<a, b>> \o <<c>>
               t == <<a, b, c>>
    <2>1. s \in Seq(S) /\ Len(s) = 3 /\ s[1] = a /\ s[2] = b /\ s[3] = c
        OBVIOUS
    <2>2. t \in Seq(S) /\ Len(t) = 3 /\ t[1] = a /\ t[2] = b /\ t[3] = c
        OBVIOUS
    <2> HIDE DEF S, s, t
    <2>3. \A i \in 1 .. Len(s) : s[i] = t[i]
        BY <2>1, <2>2
    <2>4. s = t
        BY <2>1, <2>2, <2>3, SeqEqual
    <2> QED BY <2>4 DEF s, t
<1>4. ASSUME NEW a, NEW b, NEW c, NEW d
      PROVE  <<a, b>> \o <<c, d>> = <<a, b, c, d>>
    <2> DEFINE S == {a, b, c, d}
               s == <<a, b>> \o <<c, d>>
               t == <<a, b, c, d>>
    <2>1. s \in Seq(S) /\ Len(s) = 4 /\ s[1] = a /\ s[2] = b /\ s[3] = c /\ s[4] = d
        OBVIOUS
    <2>2. t \in Seq(S) /\ Len(t) = 4 /\ t[1] = a /\ t[2] = b /\ t[3] = c /\ t[4] = d
        OBVIOUS
    <2> HIDE DEF S, s, t
    <2>3. \A i \in 1 .. Len(s) : s[i] = t[i]
        BY <2>1, <2>2
    <2>4. s = t
        BY <2>1, <2>2, <2>3, SeqEqual
    <2> QED BY <2>4 DEF s, t
<1>5. ASSUME NEW a, NEW b, NEW c, NEW d, NEW e
      PROVE  <<a, b, c>> \o <<d, e>> = <<a, b, c, d, e>>
    <2> DEFINE S == {a, b, c, d, e}
               s == <<a, b, c>> \o <<d, e>>
               t == <<a, b, c, d, e>>
    <2>1. s \in Seq(S) /\ Len(s) = 5 /\ s[1] = a /\ s[2] = b /\ s[3] = c /\ s[4] = d /\ s[5] = e
        OBVIOUS
    <2>2. t \in Seq(S) /\ Len(t) = 5 /\ t[1] = a /\ t[2] = b /\ t[3] = c /\ t[4] = d /\ t[5] = e
        OBVIOUS
    <2> HIDE DEF S, s, t
    <2>3. \A i \in 1 .. Len(s) : s[i] = t[i]
        BY <2>1, <2>2
    <2>4. s = t
        BY <2>1, <2>2, <2>3, SeqEqual
    <2> QED BY <2>4 DEF s, t
<1> QED BY <1>1, <1>2, <1>3, <1>4, <1>5

\* The statements of the prompt.
LEMMA PromptSteps ==
    /\ DispStr(Prompt) = <<Newline, Angle, Space>>
    /\ DispChar(NL) = <<Step("down"), Step("home"), Step("cursor")>>
    /\ DispChar(">") = <<PutAngle, Step("cursor")>>
    /\ DispChar(" ") = <<PutSpace, Step("cursor")>>
<1>1. DispStr(Prompt) = <<Newline, Angle, Space>>
    <2> DEFINE p == <<Newline, Angle, Space>>
               f == [i \in 1 .. 3 |-> Char(Prompt[i])]
               S == {Char(Prompt[i]) : i \in 1 .. 3}
    <2>1. Len(Prompt) = 3 /\ Prompt[1] = NL /\ Prompt[2] = ">" /\ Prompt[3] = " "
        BY DEF Prompt
    <2>2. DispStr(Prompt) = f
        BY <2>1 DEF DispStr, Char
    <2>3. /\ Char(Prompt[1]) = Newline /\ Char(Prompt[2]) = Angle /\ Char(Prompt[3]) = Space
        BY <2>1 DEF Newline, Angle, Space
    <2>4. f \in [1 .. 3 -> S]
        OBVIOUS
    <2>5. f[1] = Char(Prompt[1]) /\ f[2] = Char(Prompt[2]) /\ f[3] = Char(Prompt[3])
        OBVIOUS
    <2> HIDE DEF f, S
    <2>6. f \in Seq(S) /\ Len(f) = 3
        <3>1. \A k \in Nat : \A g \in [1 .. k -> S] : g \in Seq(S) /\ Len(g) = k
            OBVIOUS
        <3> QED BY <2>4, <3>1
    <2>7. f[1] = Newline /\ f[2] = Angle /\ f[3] = Space
        BY <2>3, <2>5
    <2>8. p \in Seq({Newline, Angle, Space}) /\ Len(p) = 3
          /\ p[1] = Newline /\ p[2] = Angle /\ p[3] = Space
        OBVIOUS
    <2> HIDE DEF p
    <2>9. \A i \in 1 .. Len(f) : f[i] = p[i]
        BY <2>6, <2>7, <2>8
    <2>10. f = p
        BY <2>6, <2>8, <2>9, SeqEqual
    <2> QED BY <2>2, <2>10 DEF p
<1>2. DispChar(NL) = <<Step("down"), Step("home"), Step("cursor")>>
    BY Joined DEF DispChar, NewLine
<1>3. ASSUME NEW ch, ch # NL
      PROVE  DispChar(ch) = <<Putting(ch), Step("cursor")>>
    <2>1. DispChar(ch) = <<Putting(ch)>> \o <<Step("cursor")>>
        BY <1>3 DEF DispChar, Putting
    <2> QED BY <2>1, Joined
<1>4. NL # ">" /\ NL # " "
    BY DEF NL
<1> QED BY <1>1, <1>2, <1>3, <1>4 DEF PutAngle, PutSpace

\* The beginning of a row is not after the cursor.
LEMMA HomeBack == ASSUME NEW c \in Nat
                  PROVE  c - (c % WIDTH) \in Nat /\ c - (c % WIDTH) <= c
<1>1. WIDTH \in Nat \ {0}
    BY ConsoleAssumption
<1>2. c = (c \div WIDTH) * WIDTH + (c % WIDTH) /\ c \div WIDTH \in Nat /\ c % WIDTH \in Nat
    BY <1>1
<1>3. (c \div WIDTH) * WIDTH \in Nat
    BY <1>1, <1>2
<1> QED BY <1>2, <1>3

\* What a statement does to the console.
LEMMA Performs ==
    ASSUME console \in ConsoleType, NEW s, Perform(s)
    PROVE  /\ s.do \in {"put", "down", "home", "top", "cursor", "screen"} =>
                 console' \in ConsoleType /\ DOMAIN video' = DOMAIN video
           /\ s.do = "put" => console'.cursor = console.cursor + 1
           /\ s.do = "down" => console'.cursor = console.cursor + WIDTH
           /\ s.do \in {"home", "top", "cursor", "screen"} =>
                 console'.cursor <= console.cursor /\ video' = video
           /\ s.do \in {"put", "down", "home", "cursor", "screen"} =>
                 console'.start = console.start
           /\ s.do = "top" => console'.start = console.cursor
           /\ s.do = "screen" => crt' = console /\ console' = console
<1>1. WIDTH \in Nat /\ console.cursor \in Nat /\ console.start \in Nat
    BY ConsoleAssumption DEF ConsoleType
<1>2. CASE s.do = "put"
    BY <1>1, <1>2 DEF Perform, Put, ConsoleType
<1>3. CASE s.do = "down"
    BY <1>1, <1>3 DEF Perform, Moves, ConsoleType
<1>4. CASE s.do = "home"
    <2> DEFINE h == console.cursor - (console.cursor % WIDTH)
    <2>1. h \in Nat /\ h <= console.cursor
        BY <1>1, HomeBack
    <2>2. console' = [console EXCEPT !.cursor = h] /\ video' = video
        BY <1>4 DEF Perform, Moves
    <2> HIDE DEF h
    <2> QED BY <1>1, <1>4, <2>1, <2>2 DEF ConsoleType
<1>5. CASE s.do = "top"
    BY <1>1, <1>5 DEF Perform, Moves, ConsoleType
<1>6. CASE s.do = "cursor"
    BY <1>1, <1>6 DEF Perform
<1>7. CASE s.do = "screen"
    BY <1>1, <1>7 DEF Perform
<1> QED BY <1>2, <1>3, <1>4, <1>5, <1>6, <1>7

\* The prompt moves the cursor no further than its statements say.
LEMMA ShowMoves ==
    ASSUME console \in ConsoleType, Show, NEW n \in Nat, PromptLeft(n)
    PROVE  /\ console' \in ConsoleType /\ console'.start = console.start
           /\ DOMAIN video' = DOMAIN video
           /\ \E m \in Nat : PromptLeft(m)' /\ console'.cursor + m <= console.cursor + n
<1>1. WIDTH \in Nat /\ console.cursor \in Nat
    BY ConsoleAssumption DEF ConsoleType
<1> DEFINE st == Statements(tty)
<1>2. tty # <<>> /\ Perform(Head(st)) /\ tty' = Tail(st)
    BY DEF Show
<1> DEFINE Stated(m) ==
               \/ Head(st).do = "down" /\ n = m + WIDTH
               \/ Head(st).do = "put" /\ n = m + 1
               \/ Head(st).do \in {"home", "cursor"} /\ n = m
<1>3. PICK m \in Nat : PromptLeft(m)' /\ Stated(m)
    <2>1. /\ Newline.do = "char" /\ Newline.ch = NL
          /\ Angle.do = "char" /\ Angle.ch = ">"
          /\ Space.do = "char" /\ Space.ch = " "
        BY DEF Newline, Angle, Space, Char, Step
    <2>2. PutAngle.do = "put" /\ PutSpace.do = "put"
        BY DEF PutAngle, PutSpace, Putting, Step
    <2>3. /\ Step("home").do = "home" /\ Step("cursor").do = "cursor" /\ Step("down").do = "down"
        BY DEF Step
    <2> DEFINE H == Step("home")
               C == Step("cursor")
    <2>4. CASE tty = <<Newline, Angle, Space>> /\ n = WIDTH + 2
        <3>1. Head(tty) = Newline /\ Tail(tty) = <<Angle, Space>>
            BY <2>4
        <3>2. st = <<Step("down"), H, C>> \o <<Angle, Space>>
            BY <2>1, <3>1, PromptSteps DEF Statements
        <3>3. st = <<Step("down"), H, C, Angle, Space>>
            BY <3>2, Joined
        <3>4. Head(st) = Step("down") /\ Tail(st) = <<H, C, Angle, Space>>
            BY <3>3
        <3>5. PromptLeft(2)'
            BY <1>2, <3>4 DEF PromptLeft
        <3> QED BY <1>1, <1>2, <2>3, <2>4, <3>4, <3>5
    <2>5. CASE tty = <<H, C, Angle, Space>> /\ n = 2
        <3>1. Head(tty) = H /\ Tail(tty) = <<C, Angle, Space>>
            BY <2>5
        <3>2. st = tty
            BY <2>3, <3>1 DEF Statements
        <3>3. PromptLeft(2)'
            BY <1>2, <3>1, <3>2 DEF PromptLeft
        <3> QED BY <1>2, <2>3, <2>5, <3>1, <3>2, <3>3
    <2>6. CASE tty = <<C, Angle, Space>> /\ n = 2
        <3>1. Head(tty) = C /\ Tail(tty) = <<Angle, Space>>
            BY <2>6
        <3>2. st = tty
            BY <2>3, <3>1 DEF Statements
        <3>3. PromptLeft(2)'
            BY <1>2, <3>1, <3>2 DEF PromptLeft
        <3> QED BY <1>2, <2>3, <2>6, <3>1, <3>2, <3>3
    <2>7. CASE tty = <<Angle, Space>> /\ n = 2
        <3>1. Head(tty) = Angle /\ Tail(tty) = <<Space>>
            BY <2>7
        <3>2. st = <<PutAngle, C>> \o <<Space>>
            BY <2>1, <3>1, PromptSteps DEF Statements
        <3>3. st = <<PutAngle, C, Space>>
            BY <3>2, Joined
        <3>4. Head(st) = PutAngle /\ Tail(st) = <<C, Space>>
            BY <3>3
        <3>5. PromptLeft(1)'
            BY <1>2, <3>4 DEF PromptLeft
        <3> QED BY <1>2, <2>2, <2>7, <3>4, <3>5
    <2>8. CASE tty = <<C, Space>> /\ n = 1
        <3>1. Head(tty) = C /\ Tail(tty) = <<Space>>
            BY <2>8
        <3>2. st = tty
            BY <2>3, <3>1 DEF Statements
        <3>3. PromptLeft(1)'
            BY <1>2, <3>1, <3>2 DEF PromptLeft
        <3> QED BY <1>2, <2>3, <2>8, <3>1, <3>2, <3>3
    <2>9. CASE tty = <<Space>> /\ n = 1
        <3>1. Head(tty) = Space /\ Tail(tty) = <<>>
            BY <2>9
        <3>2. st = <<PutSpace, C>> \o <<>>
            BY <2>1, <3>1, PromptSteps DEF Statements
        <3>3. st = <<PutSpace, C>>
            BY <3>2, Joined
        <3>4. Head(st) = PutSpace /\ Tail(st) = <<C>>
            BY <3>3
        <3>5. PromptLeft(0)'
            BY <1>2, <3>4 DEF PromptLeft
        <3> QED BY <1>2, <2>2, <2>9, <3>4, <3>5
    <2>10. CASE tty = <<C>> /\ n = 0
        <3>1. Head(tty) = C /\ Tail(tty) = <<>>
            BY <2>10
        <3>2. st = tty
            BY <2>3, <3>1 DEF Statements
        <3>3. PromptLeft(0)'
            BY <1>2, <3>1, <3>2 DEF PromptLeft
        <3> QED BY <1>2, <2>3, <2>10, <3>1, <3>2, <3>3
    <2> QED BY <1>2, <2>4, <2>5, <2>6, <2>7, <2>8, <2>9, <2>10 DEF PromptLeft
<1>4. /\ console' \in ConsoleType /\ console'.start = console.start
      /\ DOMAIN video' = DOMAIN video /\ console'.cursor + m <= console.cursor + n
    BY <1>1, <1>2, <1>3, Performs DEF ConsoleType
<1> QED BY <1>3, <1>4

\* OUTPUT's steps for the two messages the game sends.
LEMMA ClearSteps ==
    OutputSteps([fn |-> "clear"])
       = <<Step("down"), Step("home"), Step("top"), Step("screen")>>
<1>1. OutputSteps([fn |-> "clear"]) = Clear
    BY DEF OutputSteps
<1> QED BY <1>1, Joined DEF Clear, NewLine

LEMMA DrawSteps == OutputSteps([fn |-> "draw"]) = DrawRest(0)
<1> DEFINE row == [r \in 1 .. HEIGHT |-> [Step("row") EXCEPT !.row = r - 1]]
           S == {[Step("row") EXCEPT !.row = r - 1] : r \in 1 .. HEIGHT} \cup {Step("screen")}
<1>1. OutputSteps([fn |-> "draw"]) = row \o <<Step("screen")>>
    BY DEF OutputSteps
<1>2. row \in [1 .. HEIGHT -> S] /\ HEIGHT \in Nat
    BY ConsoleAssumption
<1>3. \A r \in 1 .. HEIGHT : row[r] = [Step("row") EXCEPT !.row = r - 1]
    OBVIOUS
<1>4. Step("screen") \in S
    OBVIOUS
<1> HIDE DEF row, S
<1>5. row \in Seq(S) /\ Len(row) = HEIGHT
    BY <1>2
<1>6. row \o <<Step("screen")>> \in Seq(S) /\ Len(row \o <<Step("screen")>>) = HEIGHT + 1
    BY <1>2, <1>4, <1>5
<1>7. ASSUME NEW k \in 1 .. HEIGHT + 1
      PROVE  (row \o <<Step("screen")>>)[k] = DrawRest(0)[k]
    <2>1. DrawRest(0)[k] = IF k + 0 <= HEIGHT
                           THEN [Step("row") EXCEPT !.row = k + 0 - 1] ELSE Step("screen")
        BY <1>2 DEF DrawRest
    <2>2. k + 0 = k /\ k + 0 - 1 = k - 1
        BY <1>2
    <2>3. CASE k <= HEIGHT
        <3>1. (row \o <<Step("screen")>>)[k] = row[k] /\ k \in 1 .. HEIGHT
            BY <1>2, <1>4, <1>5, <2>3
        <3> QED BY <1>3, <2>1, <2>2, <2>3, <3>1
    <2>4. CASE k = HEIGHT + 1
        <3>1. (row \o <<Step("screen")>>)[k] = Step("screen")
            BY <1>2, <1>4, <1>5, <2>4
        <3> QED BY <1>2, <2>1, <2>2, <2>4, <3>1
    <2> QED BY <1>2, <2>3, <2>4
<1>8. DrawRest(0) \in Seq(S) /\ Len(DrawRest(0)) = HEIGHT + 1
    <2>1. DOMAIN DrawRest(0) = 1 .. HEIGHT + 1 /\ HEIGHT + 1 \in Nat
        BY <1>2 DEF DrawRest
    <2>2. \A k \in 1 .. HEIGHT + 1 : DrawRest(0)[k] \in S
        BY <1>6, <1>7, ElementOfSeq
    <2>3. DrawRest(0) \in [1 .. HEIGHT + 1 -> S]
        BY <2>1, <2>2 DEF DrawRest
    <2> QED BY <2>1, <2>3
<1>9. row \o <<Step("screen")>> = DrawRest(0)
    BY <1>6, <1>7, <1>8, SeqEqual
<1> QED BY <1>1, <1>9

LEMMA RestTail ==
    ASSUME NEW n \in 0 .. HEIGHT
    PROVE  /\ DrawRest(n) # <<>>
           /\ Head(DrawRest(n)) = IF n < HEIGHT THEN [Step("row") EXCEPT !.row = n]
                                  ELSE Step("screen")
           /\ Tail(DrawRest(n)) = DrawRest(n + 1)
<1> DEFINE S == {[Step("row") EXCEPT !.row = r] : r \in Int} \cup {Step("screen")}
<1>1. HEIGHT \in Nat
    BY ConsoleAssumption
<1>2. DrawRest(n) \in [1 .. HEIGHT + 1 - n -> S]
    BY <1>1 DEF DrawRest
<1>3. DrawRest(n)[1] = IF n < HEIGHT THEN [Step("row") EXCEPT !.row = n] ELSE Step("screen")
    BY <1>1 DEF DrawRest
<1>4. ASSUME NEW k \in 1 .. HEIGHT + 1 - (n + 1)
      PROVE  DrawRest(n)[k + 1] = DrawRest(n + 1)[k]
    <2>1. (k + 1) + n = k + (n + 1) /\ k + 1 \in 1 .. HEIGHT + 1 - n
        BY <1>1
    <2> DEFINE m == (k + 1) + n
    <2>2. DrawRest(n)[k + 1] = IF m <= HEIGHT THEN [Step("row") EXCEPT !.row = m - 1]
                               ELSE Step("screen")
        BY <2>1 DEF DrawRest
    <2>3. DrawRest(n + 1)[k] = IF k + (n + 1) <= HEIGHT
                               THEN [Step("row") EXCEPT !.row = k + (n + 1) - 1]
                               ELSE Step("screen")
        BY DEF DrawRest
    <2> QED BY <2>1, <2>2, <2>3
<1>5. DrawRest(n + 1) \in [1 .. HEIGHT + 1 - (n + 1) -> S]
    BY <1>1 DEF DrawRest
<1> HIDE DEF S
<1>6. /\ DrawRest(n) \in Seq(S) /\ Len(DrawRest(n)) = HEIGHT + 1 - n
      /\ HEIGHT + 1 - n \in Nat /\ HEIGHT + 1 - n > 0
    BY <1>1, <1>2
<1>7. DrawRest(n + 1) \in Seq(S) /\ Len(DrawRest(n + 1)) = HEIGHT + 1 - (n + 1)
    BY <1>1, <1>5
<1>8. DrawRest(n) # <<>> /\ Head(DrawRest(n)) = DrawRest(n)[1]
    BY <1>6
<1>9. /\ Tail(DrawRest(n)) \in Seq(S) /\ Len(Tail(DrawRest(n))) = HEIGHT + 1 - (n + 1)
      /\ \A k \in 1 .. HEIGHT + 1 - (n + 1) : Tail(DrawRest(n))[k] = DrawRest(n)[k + 1]
    BY <1>1, <1>6, <1>8, HeadTailProperties
<1>10. Tail(DrawRest(n)) = DrawRest(n + 1)
    BY <1>4, <1>7, <1>9, SeqEqual
<1> QED BY <1>3, <1>8, <1>10

LEMMA RestEmpty == ASSUME NEW n \in 0 .. HEIGHT + 1, DrawRest(n) = <<>>
                   PROVE  n = HEIGHT + 1
<1>1. HEIGHT \in Nat /\ n \notin 0 .. HEIGHT
    BY RestTail, ConsoleAssumption
<1> QED BY <1>1

\* One row more of the picture is on the screen.
LEMMA RowShown ==
    ASSUME NEW n \in 0 .. HEIGHT - 1, DOMAIN video = 0 .. 2 * CELLS - 1,
           NEW start \in Nat, start + LENGTH <= CELLS,
           console.start = start, out.pos = At(start),
           DrawRow(n, video_mem), UNCHANGED video_mem
    PROVE  /\ DOMAIN video' = DOMAIN video
           /\ Shown(n) => Shown(n + 1)'
<1> DEFINE row == n * WIDTH
           from == out.pos + 2 * n * WIDTH
<1>1. /\ WIDTH \in Nat /\ HEIGHT \in Nat /\ n \in Nat /\ n < HEIGHT /\ row \in Nat
      /\ LENGTH \in Nat /\ CELLS \in Nat
    BY Sizes, ConsoleAssumption, SnakeAssumption
<1>2. 2 * n * WIDTH = 2 * row /\ (n + 1) * WIDTH = row + WIDTH
    BY <1>1
<1>3. video' = [b \in DOMAIN video |->
                   LET i == b - out.pos - 2 * n * WIDTH
                   IN  IF i \notin 0 .. 2 * WIDTH - 1 THEN video[b]
                       ELSE IF i % 2 = 0 THEN video_mem[row + i \div 2] ELSE DEFAULT]
      /\ console' = console
    BY DEF DrawRow
<1>4. \A b \in DOMAIN video : LET i == b - 2 * start - 2 * row
                              IN  video'[b] = IF i \notin 0 .. 2 * WIDTH - 1 THEN video[b]
                                              ELSE IF i % 2 = 0
                                                   THEN video_mem[row + i \div 2]
                                                   ELSE DEFAULT
    BY <1>1, <1>2, <1>3 DEF At
<1> HIDE DEF row
<1>5. DOMAIN video' = DOMAIN video
    BY <1>3
<1>6. ASSUME Shown(n)
      PROVE  Shown(n + 1)'
    <2>1. ASSUME NEW j \in Ring, j < row + WIDTH
          PROVE  Seen(start + j)' = video_mem[j]
        <3> DEFINE b == 2 * (start + j)
                   c == b + 1
        <3>1. j \in Nat /\ j < LENGTH
            BY <1>1 DEF Ring
        <3>2. b \in DOMAIN video /\ c \in DOMAIN video /\ b = At(start + j) /\ c = At(start + j) + 1
            BY <1>1, <3>1 DEF At
        <3>3. CASE j < row
            <4>1. /\ b - 2 * start - 2 * row \notin 0 .. 2 * WIDTH - 1
                  /\ c - 2 * start - 2 * row \notin 0 .. 2 * WIDTH - 1
                BY <1>1, <3>1, <3>3
            <4> HIDE DEF b, c
            <4>2. video'[b] = video[b] /\ video'[c] = video[c]
                BY <1>4, <3>2, <4>1
            <4>3. Seen(start + j) = video_mem[j]
                BY <1>6, <3>3 DEF Shown, row
            <4> QED BY <3>2, <4>2, <4>3 DEF Seen
        <3>4. CASE j >= row
            <4> DEFINE k == j - row
            <4>1. /\ b - 2 * start - 2 * row = 2 * k
                  /\ c - 2 * start - 2 * row = 2 * k + 1
                  /\ k \in Nat /\ k < WIDTH /\ row + k = j
                BY <1>1, <2>1, <3>1, <3>4
            <4> HIDE DEF b, c, k
            <4>2. /\ 2 * k \in 0 .. 2 * WIDTH - 1 /\ 2 * k + 1 \in 0 .. 2 * WIDTH - 1
                  /\ (2 * k) % 2 = 0 /\ (2 * k) \div 2 = k /\ (2 * k + 1) % 2 = 1
                BY <1>1, <4>1
            <4>3. video'[b] = video_mem[row + (2 * k) \div 2]
                BY <1>4, <3>2, <4>1, <4>2
            <4>4. video'[c] = DEFAULT
                <5>1. /\ c - 2 * start - 2 * row \in 0 .. 2 * WIDTH - 1
                      /\ (c - 2 * start - 2 * row) % 2 # 0
                    BY <4>1, <4>2
                <5> QED BY <1>4, <3>2, <5>1
            <4> QED BY <3>2, <4>1, <4>2, <4>3, <4>4 DEF Seen, DEFAULT, BLANK
        <3> QED BY <1>1, <3>1, <3>3, <3>4
    <2>2. n + 1 # HEIGHT + 1
        BY <1>1
    <2> QED BY <1>2, <1>3, <2>1, <2>2 DEF Shown
<1> QED BY <1>5, <1>6

LEMMA ScreenInit == Init => ScreenInv
<1> SUFFICES ASSUME Init
             PROVE  ScreenInv
    OBVIOUS
<1>1. /\ out.todo = <<>> /\ {"todo", "pos"} \subseteq DOMAIN out
      /\ console = [cursor |-> 0, start |-> 0] /\ DOMAIN video = 0 .. 2 * CELLS - 1
    BY DEF Init, ConsoleInit
<1>2. snake.pc = "clear"
    BY DEF Init
<1>3. PromptLeft(WIDTH + 2)
    BY PromptSteps DEF Init, PromptLeft
<1>4. WIDTH \in Nat /\ WIDTH + 2 \in Nat /\ 0 + (WIDTH + 2) + WIDTH <= Furthest
    BY ConsoleAssumption DEF Furthest
<1>5. Within(WIDTH)
    BY <1>1, <1>3, <1>4 DEF Within
<1>6. ConsoleInv
    BY <1>1, <1>3, <1>4 DEF ConsoleInv, ConsoleType, Furthest
<1> QED BY <1>1, <1>2, <1>5, <1>6 DEF ScreenInv, OutputIdle

\* The bound on the cursor, where neither it nor the prompt moves, or both do.
LEMMA WithinKept ==
    ASSUME NEW m \in Nat, NEW m2 \in Nat, Within(m), UNCHANGED tty,
           console \in ConsoleType, console' \in ConsoleType,
           console'.cursor + m2 <= console.cursor + m
    PROVE  Within(m2)' /\ \E n \in Nat : PromptLeft(n)'
<1>1. PICK n \in Nat : PromptLeft(n) /\ console.cursor + n + m <= Furthest
    BY DEF Within
<1>2. PromptLeft(n)'
    BY <1>1 DEF PromptLeft
<1>3. console.cursor \in Nat /\ console'.cursor \in Nat /\ WIDTH \in Nat
    BY ConsoleAssumption DEF ConsoleType
<1>4. console'.cursor + n + m2 <= Furthest
    BY <1>1, <1>3 DEF Furthest
<1> QED BY <1>2, <1>4 DEF Within, Furthest

LEMMA ShowScreen ==
    ASSUME GameType, ScreenInv, Show
    PROVE  ScreenInv'
<1>1. UNCHANGED <<snake, video_mem, out>> /\ fresh' = FALSE
    BY DEF Show, gameVars
<1>2. ConsoleInv
    BY DEF ScreenInv
<1>3. PICK k \in Nat : PromptLeft(k)
    BY <1>2 DEF ConsoleInv
<1>4. /\ console' \in ConsoleType /\ console'.start = console.start
      /\ DOMAIN video' = DOMAIN video /\ \E m \in Nat : PromptLeft(m)'
    BY <1>2, <1>3, ShowMoves DEF ConsoleInv
<1>5. ConsoleInv'
    BY <1>1, <1>2, <1>4 DEF ConsoleInv, Furthest
<1>6. ASSUME NEW i \in Nat, Within(i)
      PROVE  Within(i)'
    <2>1. PICK n \in Nat : PromptLeft(n) /\ console.cursor + n + i <= Furthest
        BY <1>6 DEF Within
    <2>2. PICK m \in Nat : PromptLeft(m)' /\ console'.cursor + m <= console.cursor + n
        BY <1>2, <2>1, ShowMoves DEF ConsoleInv
    <2>3. console.cursor \in Nat /\ console'.cursor \in Nat /\ WIDTH \in Nat
        BY <1>2, <1>4, ConsoleAssumption DEF ConsoleInv, ConsoleType
    <2>4. console'.cursor + m + i <= Furthest
        BY <2>1, <2>2, <2>3 DEF Furthest
    <2> QED BY <2>2, <2>4 DEF Within, Furthest
<1>7. Within(WIDTH) => Within(WIDTH)'
    BY <1>6, ConsoleAssumption
<1>8. Within(0) => Within(0)'
    BY <1>6
<1>9. Clearing => Clearing'
    BY <1>1, <1>7, <1>8 DEF Clearing
<1>10. Drawing => Drawing'
    BY <1>1 DEF Drawing
<1>11. At(console.start)' = At(console.start)
    BY <1>4 DEF At
<1> QED BY <1>1, <1>5, <1>7, <1>9, <1>10, <1>11 DEF ScreenInv, OutputIdle

\* A message to OUTPUT, which has come to rest.
LEMMA SendsScreen ==
    ASSUME GameType, ScreenInv, NEW pc \in Pcs, NEW next \in Pcs, NEW m, Sends(pc, next, m)
    PROVE  /\ snake.pc = pc /\ snake'.pc = next /\ out.todo = <<>>
           /\ UNCHANGED <<console, video, crt>>
           /\ out'.todo = OutputSteps(m) /\ {"todo", "pos"} \subseteq DOMAIN out'
           /\ m.fn = "draw" => out'.pos = At(console.start)
<1>1. snake \in SnakeType
    BY DEF GameType, TypeOK, SnakeType, Pcs, Ring
<1>2. snake'.pc = next
    BY <1>1, PcType DEF Sends
<1> QED BY <1>2 DEF Sends, Send, OutputIdle

LEMMA RefreshScreen ==
    ASSUME GameType, ScreenInv, Refresh
    PROVE  ScreenInv'
<1>1. PICK pc \in {"moved", "refresh", "bye"}, next \in {"timer", "receive", "exit"} :
          Sends(pc, next, [fn |-> "draw"])
    BY DEF Refresh
<1>2. /\ snake.pc = pc /\ snake'.pc = next /\ out.todo = <<>>
      /\ UNCHANGED <<console, video, crt>>
      /\ out'.todo = DrawRest(0) /\ {"todo", "pos"} \subseteq DOMAIN out'
      /\ out'.pos = At(console.start)
    BY <1>1, SendsScreen, DrawSteps DEF Pcs
<1>3. ConsoleInv /\ UNCHANGED tty
    BY DEF ScreenInv, Refresh
<1>4. WIDTH \in Nat /\ HEIGHT \in Nat
    BY ConsoleAssumption
<1>5. Shown(0)'
    <2>1. 0 * WIDTH = 0 /\ 0 # HEIGHT + 1
        BY <1>4
    <2>2. \A j \in Ring : ~(j < 0)
        BY Sizes DEF Ring
    <2> QED BY <2>1, <2>2 DEF Shown
<1>6. Drawing'
    BY <1>2, <1>4, <1>5 DEF Drawing
<1>7. snake'.pc \notin {"clear", "init", "refresh"}
    BY <1>2
<1>8. ConsoleInv'
    BY <1>2, <1>3 DEF ConsoleInv, PromptLeft, Furthest
<1> QED BY <1>2, <1>6, <1>7, <1>8 DEF ScreenInv, At

\* OUTPUT's next statement.
LEMMA OutputScreen ==
    ASSUME GameType, ScreenInv, Output
    PROVE  ScreenInv'
<1>1. /\ OutputStep(video_mem) /\ UNCHANGED <<snake, video_mem, tty, fresh>>
      /\ out.todo # <<>> /\ {"todo", "pos"} \subseteq DOMAIN out
    BY DEF Output, gameVars, OutputStep, OutputIdle, ScreenInv, ConsoleInv
<1> DEFINE s == Head(out.todo)
<1>2. ASSUME s.do \notin {"row", "disp"}
      PROVE  Perform(s) /\ out' = [out EXCEPT !.todo = Tail(@)]
    BY <1>1, <1>2 DEF OutputStep
<1>3. snake.pc # "clear"
    BY <1>1 DEF ScreenInv, OutputIdle
<1>4. ASSUME out' = [out EXCEPT !.todo = Tail(@)]
      PROVE  /\ out'.todo = Tail(out.todo) /\ out'.pos = out.pos
             /\ {"todo", "pos"} \subseteq DOMAIN out'
    BY <1>1, <1>4
<1>c. ConsoleInv /\ console \in ConsoleType /\ WIDTH \in Nat
    BY ConsoleAssumption DEF ScreenInv, ConsoleInv
<1>5. CASE snake.pc \in {"init", "refresh"}
    <2>1. Clearing
        BY <1>5 DEF ScreenInv
    <2>2. ASSUME NEW m \in Nat, NEW m2 \in Nat, Within(m), s.do \notin {"row", "disp"},
                 console' \in ConsoleType, DOMAIN video' = DOMAIN video,
                 console'.start <= Furthest, console'.cursor + m2 <= console.cursor + m
          PROVE  ConsoleInv' /\ Within(m2)'
        <3>1. Within(m2)' /\ \E n \in Nat : PromptLeft(n)'
            BY <1>1, <1>c, <2>2, WithinKept
        <3> QED BY <1>2, <1>4, <1>c, <2>2, <3>1 DEF ConsoleInv, Furthest
    <2>3. ASSUME Clearing', ConsoleInv'
          PROVE  ScreenInv'
        BY <1>1, <1>3, <1>5, <2>3 DEF ScreenInv
    <2>4. console.cursor \in Nat /\ console.start \in Nat /\ console.start <= Furthest
        BY <1>c DEF ConsoleInv, ConsoleType
    <2>5. CASE out.todo = <<Step("down"), Step("home"), Step("top"), Step("screen")>>
               /\ Within(WIDTH)
        <3>1. s = Step("down") /\ Tail(out.todo) = <<Step("home"), Step("top"), Step("screen")>>
            BY <2>5
        <3>2. s.do = "down"
            BY <3>1 DEF Step
        <3>3. /\ console' \in ConsoleType /\ DOMAIN video' = DOMAIN video
              /\ console'.cursor = console.cursor + WIDTH /\ console'.start = console.start
            BY <1>2, <1>c, <3>2, Performs
        <3>4. ConsoleInv' /\ Within(0)'
            BY <1>c, <2>2, <2>4, <2>5, <3>2, <3>3
        <3> QED BY <1>2, <1>4, <2>3, <3>1, <3>2, <3>4 DEF Clearing
    <2>6. CASE out.todo = <<Step("home"), Step("top"), Step("screen")>> /\ Within(0)
        <3>1. s = Step("home") /\ Tail(out.todo) = <<Step("top"), Step("screen")>>
            BY <2>6
        <3>2. s.do = "home"
            BY <3>1 DEF Step
        <3>3. /\ console' \in ConsoleType /\ DOMAIN video' = DOMAIN video
              /\ console'.cursor <= console.cursor /\ console'.start = console.start
            BY <1>2, <1>c, <3>2, Performs
        <3>4. ConsoleInv' /\ Within(0)'
            <4>1. console'.cursor \in Nat /\ console'.cursor + 0 <= console.cursor + 0
                BY <2>4, <3>3 DEF ConsoleType
            <4> QED BY <2>2, <2>4, <2>6, <3>2, <3>3, <4>1
        <3> QED BY <1>2, <1>4, <2>3, <3>1, <3>2, <3>4 DEF Clearing
    <2>7. CASE out.todo = <<Step("top"), Step("screen")>> /\ Within(0)
        <3>1. s = Step("top") /\ Tail(out.todo) = <<Step("screen")>>
            BY <2>7
        <3>2. s.do = "top"
            BY <3>1 DEF Step
        <3>3. /\ console' \in ConsoleType /\ DOMAIN video' = DOMAIN video
              /\ console'.cursor <= console.cursor /\ console'.start = console.cursor
            BY <1>2, <1>c, <3>2, Performs
        <3>4. console.cursor <= Furthest
            <4>1. PICK n \in Nat : console.cursor + n + 0 <= Furthest
                BY <2>7 DEF Within
            <4> QED BY <1>c, <2>4, <4>1 DEF Furthest
        <3>5. ConsoleInv' /\ Within(0)'
            <4>1. console'.cursor \in Nat /\ console'.cursor + 0 <= console.cursor + 0
                BY <2>4, <3>3 DEF ConsoleType
            <4> QED BY <2>2, <2>7, <3>2, <3>3, <3>4, <4>1
        <3> QED BY <1>2, <1>4, <2>3, <3>1, <3>2, <3>5 DEF Clearing
    <2>8. CASE out.todo = <<Step("screen")>> /\ Within(0)
        <3>1. s = Step("screen") /\ Tail(out.todo) = <<>>
            BY <2>8
        <3>2. s.do = "screen"
            BY <3>1 DEF Step
        <3>3. console' = console /\ DOMAIN video' = DOMAIN video
            BY <1>2, <1>c, <3>2, Performs
        <3>4. ConsoleInv' /\ Within(0)'
            BY <1>c, <2>2, <2>4, <2>8, <3>2, <3>3
        <3> QED BY <1>2, <1>4, <2>3, <3>1, <3>2, <3>4 DEF Clearing
    <2> QED BY <1>1, <2>1, <2>5, <2>6, <2>7, <2>8 DEF Clearing
<1>6. CASE snake.pc \notin {"init", "refresh"}
    <2>1. /\ out.pos = At(console.start) /\ DOMAIN video = 0 .. 2 * CELLS - 1
          /\ HEIGHT \in Nat
        BY <1>3, <1>6, <1>c, ConsoleAssumption DEF ScreenInv, ConsoleInv
    <2>s. console.start \in Nat /\ console.start + LENGTH <= CELLS
        BY <1>c, Sizes, ConsoleAssumption, SnakeAssumption DEF ConsoleInv, ConsoleType, Furthest
    <2>2. PICK n \in 0 .. HEIGHT + 1 :
              out.todo = DrawRest(n) /\ (snake.pc \in Settled /\ fresh => Shown(n))
        BY <1>3, <1>6 DEF ScreenInv, Drawing
    <2>3. n \in 0 .. HEIGHT
        <3>1. n # HEIGHT + 1
            <4> SUFFICES ASSUME n = HEIGHT + 1
                         PROVE  FALSE
                OBVIOUS
            <4>1. HEIGHT + 1 - n = 0
                BY <2>1
            <4>2. DrawRest(n) = <<>>
                BY <4>1 DEF DrawRest
            <4> QED BY <1>1, <2>2, <4>2
        <3> QED BY <2>1, <3>1
    <2>4. /\ s = (IF n < HEIGHT THEN [Step("row") EXCEPT !.row = n] ELSE Step("screen"))
          /\ Tail(out.todo) = DrawRest(n + 1)
        BY <2>2, <2>3, RestTail
    <2>5. n + 1 \in 0 .. HEIGHT + 1
        BY <2>1, <2>3
    <2>6. CASE n < HEIGHT
        <3>1. s.do = "row" /\ s.row = n
            BY <2>4, <2>6 DEF Step
        <3>2. DrawRow(n, video_mem) /\ crt' = crt
            BY <1>1, <3>1 DEF OutputStep
        <3>3. n \in 0 .. HEIGHT - 1
            BY <2>1, <2>3, <2>6
        <3>4. DOMAIN video' = DOMAIN video /\ (Shown(n) => Shown(n + 1)')
            BY <1>1, <2>1, <2>s, <3>2, <3>3, RowShown
        <3>5. out'.todo = DrawRest(n + 1) /\ console' = console
              /\ out'.pos = out.pos /\ {"todo", "pos"} \subseteq DOMAIN out'
            BY <1>4, <2>4, <3>2 DEF DrawRow
        <3>6. Drawing'
            BY <1>1, <2>2, <2>5, <3>4, <3>5 DEF Drawing
        <3>7. ConsoleInv'
            BY <1>1, <1>c, <3>4, <3>5 DEF ConsoleInv, PromptLeft, Furthest
        <3> QED BY <1>1, <1>3, <1>6, <2>1, <3>5, <3>6, <3>7 DEF ScreenInv, At
    <2>7. CASE n = HEIGHT
        <3>1. s.do = "screen"
            BY <2>1, <2>4, <2>7 DEF Step
        <3>2. crt' = console /\ UNCHANGED <<console, video>>
            BY <1>2, <3>1 DEF Perform
        <3>3. out'.todo = DrawRest(n + 1)
              /\ out'.pos = out.pos /\ {"todo", "pos"} \subseteq DOMAIN out'
            BY <1>2, <1>4, <2>4, <3>1
        <3>4. Shown(n) => Shown(n + 1)'
            <4> SUFFICES ASSUME Shown(n), NEW j \in Ring
                         PROVE  Seen(console.start + j)' = video_mem'[j]
                BY <3>2 DEF Shown
            <4>1. j < n * WIDTH
                BY <2>7, Sizes, ConsoleAssumption DEF Ring, LENGTH
            <4> QED BY <1>1, <3>2, <4>1 DEF Shown, Seen
        <3>5. Drawing'
            BY <1>1, <2>2, <2>5, <3>3, <3>4 DEF Drawing
        <3>6. ConsoleInv'
            BY <1>1, <1>c, <3>2, <3>3 DEF ConsoleInv, PromptLeft, Furthest
        <3> QED BY <1>1, <1>3, <1>6, <2>1, <3>2, <3>3, <3>5, <3>6 DEF ScreenInv, At
    <2> QED BY <2>1, <2>3, <2>6, <2>7
<1> QED BY <1>5, <1>6

\* A step of the game that leaves OUTPUT alone, and the picture too once the
\* last DRAW has been sent.
LEMMA GameScreen ==
    ASSUME GameType, ScreenInv, UNCHANGED <<consoleVars, fresh>>, (\E n \in Nat : PromptLeft(n)'),
           snake'.pc # "clear",
           snake.pc \in {"clear", "init", "refresh"}
              <=> snake'.pc \in {"clear", "init", "refresh"},
           snake.pc # "clear",
           snake'.pc \in Settled => snake.pc \in Settled /\ video_mem' = video_mem,
           snake'.pc \in {"init", "refresh"} => UNCHANGED tty
    PROVE  ScreenInv'
<1>1. Drawing => Drawing'
    <2> SUFFICES ASSUME Drawing
                 PROVE  Drawing'
        OBVIOUS
    <2>1. PICK n \in 0 .. HEIGHT + 1 :
              out.todo = DrawRest(n) /\ (snake.pc \in Settled /\ fresh => Shown(n))
        BY DEF Drawing
    <2>2. snake'.pc \in Settled /\ fresh' => Shown(n)'
        BY <2>1 DEF Shown, Seen, consoleVars
    <2>3. out' = out
        BY DEF consoleVars
    <2> QED BY <2>1, <2>2, <2>3 DEF Drawing
<1>2. ConsoleInv'
    BY DEF ScreenInv, ConsoleInv, consoleVars, Furthest
<1>3. snake'.pc \in {"init", "refresh"} => Clearing'
    <2>1. SUFFICES ASSUME snake'.pc \in {"init", "refresh"}
                   PROVE  Clearing'
        OBVIOUS
    <2>2. Clearing /\ UNCHANGED tty
        BY <2>1 DEF ScreenInv
    <2> QED BY <2>2 DEF Clearing, Within, PromptLeft, Furthest, consoleVars
<1> QED BY <1>1, <1>2, <1>3 DEF ScreenInv, consoleVars, At

LEMMA ScreenStep == GameType /\ ScreenInv /\ [Next]_vars => ScreenInv'
<1> SUFFICES ASSUME GameType, ScreenInv, [Next]_vars
             PROVE  ScreenInv'
    OBVIOUS
<1>t. snake \in SnakeType
    BY DEF GameType, TypeOK, SnakeType, Pcs, Ring
<1>p. UNCHANGED tty => \E n \in Nat : PromptLeft(n)'
    BY DEF ScreenInv, ConsoleInv, PromptLeft
<1>1. CASE ClearScreen
    <2>1. /\ snake'.pc = "init" /\ snake.pc = "clear" /\ UNCHANGED <<console, video, crt, tty>>
          /\ out'.todo = <<Step("down"), Step("home"), Step("top"), Step("screen")>>
          /\ {"todo", "pos"} \subseteq DOMAIN out'
        BY <1>1, SendsScreen, ClearSteps DEF ClearScreen, Pcs
    <2>2. Within(WIDTH) /\ ConsoleInv
        BY <2>1 DEF ScreenInv
    <2>3. Within(WIDTH)' /\ ConsoleInv'
        BY <1>p, <2>1, <2>2 DEF Within, ConsoleInv, PromptLeft, Furthest
    <2> QED BY <2>1, <2>3 DEF ScreenInv, Clearing
<1>2. CASE InitGame
    <2>1. snake.pc = "init" /\ snake'.pc = "refresh" /\ UNCHANGED <<consoleVars, tty, fresh>>
        BY <1>2, <1>t DEF InitGame, SnakeType, screenVars
    <2> QED BY <1>p, <2>1, GameScreen DEF Settled
<1>3. CASE Move
    <2>1. snake'.pc \in {"moved", "astray"}
        <3>1. CASE NextPos >= 0
            BY <1>3, <1>t, <3>1, NextPosType, MoveToType DEF Move, Moved
        <3>2. CASE ~(NextPos >= 0)
            BY <1>3, <1>t, <3>2 DEF Move, SnakeType
        <3> QED BY <3>1, <3>2
    <2>2. snake.pc = "receive" /\ UNCHANGED <<consoleVars, tty, fresh>>
        BY <1>3 DEF Move, TakesInterrupt, screenVars
    <2> QED BY <1>p, <2>1, <2>2, GameScreen DEF Settled
<1>4. CASE Refresh
    BY <1>4, RefreshScreen
<1>5. CASE Rearm
    <2>1. /\ snake.pc = "timer" /\ snake'.pc = "receive"
          /\ UNCHANGED <<video_mem, consoleVars, tty, fresh>>
        BY <1>5, <1>t DEF Rearm, SnakeType, screenVars
    <2> QED BY <1>p, <2>1, GameScreen DEF Settled
<1>6. CASE Steer \/ Pause \/ Resume
    <2>1. /\ snake.pc \in {"receive", "paused"} /\ snake'.pc \in {"receive", "paused"}
          /\ UNCHANGED <<video_mem, consoleVars, tty, fresh>>
        BY <1>6, <1>t DEF Steer, Pause, Resume, TakesKey, SnakeType, screenVars
    <2> QED BY <1>p, <2>1, GameScreen DEF Settled
<1>7. CASE Exit
    <2>1. snake.pc = "receive" /\ snake'.pc = "bye" /\ UNCHANGED <<consoleVars, tty, fresh>>
        BY <1>7, <1>t DEF Exit, TakesKey, SnakeType, screenVars
    <2> QED BY <1>p, <2>1, GameScreen DEF Settled
<1>8. CASE Leave
    <2>1. /\ snake.pc = "exit" /\ snake'.pc = "gone" /\ UNCHANGED <<video_mem, consoleVars, fresh>>
          /\ tty' = DispStr(Prompt)
        BY <1>8, <1>t DEF Leave, SnakeType
    <2>2. \E n \in Nat : PromptLeft(n)'
        <3>1. WIDTH + 2 \in Nat
            BY ConsoleAssumption
        <3>2. PromptLeft(WIDTH + 2)'
            BY <2>1, PromptSteps DEF PromptLeft
        <3> QED BY <3>1, <3>2
    <2> QED BY <2>1, <2>2, GameScreen DEF Settled
<1>9. CASE PausedDrops \/ TimerFires \/ Forward \/ UNCHANGED vars
    <2>1. UNCHANGED <<snake, video_mem, consoleVars, tty, fresh>>
        BY <1>9 DEF PausedDrops, TimerFires, Forward, vars, gameVars, screenVars
    <2>2. CASE snake.pc = "clear"
        <3>1. OutputIdle /\ Within(WIDTH) /\ ConsoleInv
            BY <2>2 DEF ScreenInv
        <3>2. (OutputIdle /\ Within(WIDTH) /\ ConsoleInv)'
            BY <1>p, <2>1, <3>1
               DEF OutputIdle, Within, ConsoleInv, PromptLeft, Furthest, consoleVars
        <3> QED BY <2>1, <2>2, <3>2 DEF ScreenInv
    <2>3. CASE snake.pc # "clear"
        BY <1>p, <2>1, <2>3, GameScreen
    <2> QED BY <2>2, <2>3
<1>10. CASE Show
    BY <1>10, ShowScreen
<1>11. CASE Output
    BY <1>11, OutputScreen
<1> QED
    BY <1>1, <1>2, <1>3, <1>4, <1>5, <1>6, <1>7, <1>8, <1>9, <1>10, <1>11 DEF Next, Game

\* Whatever the game, OUTPUT and the terminal with its prompts do at the same
\* time, wherever they have put the beginning of the screen: when OUTPUT has
\* come to rest, the game waits and no prompt has been written over its last
\* picture, the screen shows that picture.
THEOREM ShowsPicture == Spec => []ScreenIsPicture
<1>1. GameType /\ ScreenInv => ScreenIsPicture
    <2> SUFFICES ASSUME GameType, ScreenInv, OutputIdle, fresh,
                        snake.pc \in {"receive", "paused", "exit", "gone"}
                 PROVE  crt = console
                        /\ \A i \in Ring : Seen(console.start + i) = video_mem[i]
        BY DEF ScreenIsPicture, Ring
    <2>1. PICK n \in 0 .. HEIGHT + 1 : DrawRest(n) = <<>> /\ Shown(n)
        BY DEF ScreenInv, Drawing, OutputIdle, Settled
    <2>2. n = HEIGHT + 1
        BY <2>1, RestEmpty
    <2>3. \A i \in Ring : i < n * WIDTH
        BY <2>2, Sizes, ConsoleAssumption DEF Ring, LENGTH
    <2> QED BY <2>1, <2>2, <2>3 DEF Shown
<1> QED BY <1>1, ScreenInit, ScreenStep, GameTyped, PTL DEF Spec
=============================================================================
