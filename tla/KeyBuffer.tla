------------------------------ MODULE KeyBuffer ------------------------------
(***************************************************************************)
(* The ring of scan codes between keyboard_handler() and the INPUT server. *)
(*                                                                         *)
(* The server is a process: the handler may come between any two of its    *)
(* statements, and the compiler (no -O in C_FLAGS) makes key_count-- a     *)
(* load and a store.  The handler masks its own line, so it is one step.   *)
(* RECEIVE too runs with interrupts enabled: between its look at           *)
(* has_int_msg and the setting of recv_from an interrupt is recorded and   *)
(* wakes nobody.  (Between recv_from and the end of block() it would tear  *)
(* the lists: IpcIrq.)                                                     *)
(*                                                                         *)
(* Indices are reduced with C's %, whose result is -1 for -1: an access to *)
(* key_flag[-1] is one to the last byte of key_buf, which lies before it.  *)
(***************************************************************************)
EXTENDS Integers, Sequences

CONSTANTS KEY_BUF_SIZE,
          MaxCodes        \* bound: scan codes that the keyboard sends

ASSUME KeyAssumption ==
    KEY_BUF_SIZE \in Nat /\ KEY_BUF_SIZE > 1 /\ MaxCodes \in Nat

Indices == 0 .. KEY_BUF_SIZE - 1

Last == KEY_BUF_SIZE - 1

\* "break" stands for every code that input_keyboard_decode() turns into an
\* empty result, 0xE1 among them.
Kinds == {"make", "break", "E0"}

Codes == [kind : Kinds, nr : 0 .. MaxCodes]

\* A flag value stored into key_buf reads as a make code nobody typed.
Byte == [kind |-> "make", nr |-> 0]

\* What get_code() returns for "no code" (0xff).
Empty == [kind |-> "empty", nr |-> 0]

VARIABLES key_buf, key_flag, key_head, key_tail, key_count,
          pc,        \* the INPUT server's next statement
          scancode,  \* the last value get_code() returned
          after_E0,  \* the call of get_code() is the one after 0xE0
          loaded,    \* key_count in a register, between load and store
          pending,   \* has_int_msg of the INPUT server
          typed,     \* codes the keyboard sent so far
          half,      \* the last of them was 0xE0
          unread,    \* history: codes put into the ring and not taken
          missed     \* history: the server sleeps, or goes to sleep, over an
                     \* interrupt recorded since RECEIVE looked for one

ring == <<key_buf, key_flag, key_head, key_tail, key_count>>
server == <<scancode, after_E0, loaded>>
keyboard == <<typed, half>>
keyVars == <<ring, pc, server, pending, keyboard, unread, missed>>

\* Only key_flag[0] is initialised before the server runs.
KeyInit == /\ key_buf = [i \in Indices |-> Byte]
        /\ key_flag \in {f \in [Indices -> {0, 1}] : f[0] = 0}
        /\ key_head = 0 /\ key_tail = 0 /\ key_count = 0
        /\ pc = "init"
        /\ scancode = Empty /\ after_E0 = FALSE /\ loaded = 0
        /\ pending = FALSE
        /\ typed = 0 /\ half = FALSE
        /\ unread = <<>> /\ missed = FALSE

\* input_server_init(); codes typed before it are forgotten.
ServerInit == /\ pc = "init"
              /\ key_flag' = [i \in Indices |-> 0]
              /\ key_head' = 0 /\ key_tail' = 0 /\ key_count' = 0
              /\ unread' = <<>>
              /\ pc' = "receive"
              /\ UNCHANGED <<key_buf, server, pending, keyboard, missed>>

-----------------------------------------------------------------------------
(* The handler.                                                            *)

\* inform_int(PID_INPUT_SERVER, HARD_INT_KEYBOARD)
Inform == IF pc = "asleep"
          THEN pc' = "test" /\ pending' = FALSE /\ missed' = FALSE
          ELSE pending' = TRUE /\ missed' = (pc = "sleeping") /\ UNCHANGED pc

\* Mutant: 0xE0 is made readable at once.
FlagsAtOnce(kind) ==
    IF key_count > 0 /\ key_head > 0
    THEN [key_flag EXCEPT ![key_head] = 1, ![key_head - 1] = 1]
    ELSE [key_flag EXCEPT ![key_head] = 1]

\* The flags after a code of this kind: 0xE0 only becomes readable with the
\* code behind it.
Flags(kind) ==
    IF kind = "E0" THEN [key_flag EXCEPT ![key_head] = 0]
    ELSE IF key_count > 0 /\ key_head > 0
    THEN [key_flag EXCEPT ![key_head] = 1, ![key_head - 1] = 1]
    ELSE [key_flag EXCEPT ![key_head] = 1]

\* With key_head = 0 the flag of the code before is key_flag[-1].
KeyIrq(kind) ==
    LET code == [kind |-> kind, nr |-> typed + 1]
        spill == kind # "E0" /\ key_count > 0 /\ key_head = 0
    IN  /\ typed < MaxCodes
        /\ half => kind # "E0"
        /\ typed' = typed + 1
        /\ half' = (kind = "E0")
        /\ \/ /\ key_count < KEY_BUF_SIZE
              /\ key_buf' = [i \in Indices |->
                                IF i = key_head THEN code
                                ELSE IF spill /\ i = Last THEN Byte
                                ELSE key_buf[i]]
              /\ key_flag' = Flags(kind)
              /\ key_head' = (key_head + 1) % KEY_BUF_SIZE
              /\ key_count' = key_count + 1
              /\ unread' = Append(unread, code)
              /\ Inform
           \/ /\ key_count >= KEY_BUF_SIZE
              /\ UNCHANGED <<key_buf, key_flag, key_head, key_count, unread, pc,
                             pending, missed>>
        /\ UNCHANGED <<key_tail, server>>

-----------------------------------------------------------------------------
(* The INPUT server.                                                       *)

\* Mutant: sleep whether or not an interrupt is pending.
AlwaysSleeps == FALSE

Notified == pending

\* sys_sendrec(RECEIVE, ANY, ...), where only interrupts ever come: the look
\* at has_int_msg, and its first clearing.
Receive == /\ pc = "receive"
           /\ pc' = IF Notified THEN "taken" ELSE "sleeping"
           /\ pending' = FALSE
           /\ UNCHANGED <<ring, server, keyboard, unread, missed>>

\* has_int_msg is cleared again, with what has come since.
ClearAgain == /\ pc = "taken"
              /\ pc' = "test"
              /\ pending' = FALSE
              /\ UNCHANGED <<ring, server, keyboard, unread, missed>>

\* RECEIVING and recv_from are set and block() takes the server off: from here
\* on an interrupt wakes it, but one recorded before does not.
Sleep == /\ pc = "sleeping"
         /\ pc' = "asleep"
         /\ UNCHANGED <<ring, server, pending, keyboard, unread, missed>>

\* input_keyboard_get_code()
Test == /\ pc = "test"
        /\ IF key_flag[key_tail] = 0
           THEN scancode' = Empty /\ pc' = "decode"
           ELSE UNCHANGED scancode /\ pc' = "take"
        /\ UNCHANGED <<ring, after_E0, loaded, pending, keyboard, unread, missed>>

\* Mutant: the tail moves too far.
AdvanceTwice == (key_tail + 2) % KEY_BUF_SIZE

Advance == (key_tail + 1) % KEY_BUF_SIZE

Take == /\ pc = "take"
        /\ scancode' = key_buf[key_tail]
        /\ key_tail' = Advance
        /\ unread' = IF unread = <<>> THEN unread ELSE Tail(unread)
        /\ pc' = "load"
        /\ UNCHANGED <<key_buf, key_flag, key_head, key_count, after_E0, loaded,
                       pending, keyboard, missed>>

Load == /\ pc = "load"
        /\ loaded' = key_count
        /\ pc' = "store"
        /\ UNCHANGED <<ring, scancode, after_E0, pending, keyboard, unread, missed>>

\* Mutant: the count is left as it is.
NotLess == loaded

OneLess == loaded - 1

Store == /\ pc = "store"
         /\ key_count' = OneLess
         /\ pc' = "clear"
         /\ UNCHANGED <<key_buf, key_flag, key_head, key_tail, server, pending,
                        keyboard, unread, missed>>

\* key_flag[(key_tail - 1) % KEY_BUF_SIZE] = 0, key_flag[-1] again the last
\* byte of key_buf.
Clear == /\ pc = "clear"
         /\ IF key_tail > 0
            THEN /\ key_flag' = [key_flag EXCEPT ![key_tail - 1] = 0]
                 /\ UNCHANGED key_buf
            ELSE /\ key_buf' = [key_buf EXCEPT ![Last] = Byte]
                 /\ UNCHANGED key_flag
         /\ pc' = "decode"
         /\ UNCHANGED <<key_head, key_tail, key_count, server, pending, keyboard, unread,
                        missed>>

\* input_keyboard_decode() and the end of input_keyboard()'s loop: an empty
\* result, the one of a break code too, ends it.
Decode ==
    /\ pc = "decode"
    /\ \/ /\ scancode.kind = "E0" /\ ~after_E0
          /\ pc' = "test" /\ after_E0' = TRUE
       \/ /\ scancode.kind = "make"
          /\ pc' = "deliver" /\ after_E0' = FALSE
       \/ /\ scancode.kind \in {"break", "empty"} \/ (scancode.kind = "E0" /\ after_E0)
          /\ pc' = "receive" /\ after_E0' = FALSE
    /\ UNCHANGED <<ring, scancode, loaded, pending, keyboard, unread, missed>>

\* input_keyboard_deliver(): blocks until the terminal takes the key.
Deliver == /\ pc = "deliver"
           /\ pc' = "test"
           /\ UNCHANGED <<ring, server, pending, keyboard, unread, missed>>

KeyNext == \/ \E kind \in Kinds : KeyIrq(kind)
        \/ ServerInit \/ Receive \/ ClearAgain \/ Sleep
        \/ Test \/ Take \/ Load \/ Store \/ Clear \/ Decode \/ Deliver

KeySpec == KeyInit /\ [][KeyNext]_keyVars

-----------------------------------------------------------------------------
(* Properties.                                                             *)

\* The ring's indices stay in range, and what the server holds is a code of
\* the keyboard or the value for "no code".
TypeOK ==
    /\ key_buf \in [Indices -> Codes]
    /\ key_flag \in [Indices -> {0, 1}]
    /\ key_head \in Indices /\ key_tail \in Indices /\ key_count \in Int
    /\ pc \in {"init", "receive", "taken", "sleeping", "asleep", "test", "take", "load",
               "store", "clear", "decode", "deliver"}
    /\ scancode \in Codes \cup {Empty}
    /\ after_E0 \in BOOLEAN /\ loaded \in Int /\ pending \in BOOLEAN
    /\ typed \in 0 .. MaxCodes /\ half \in BOOLEAN
    /\ unread \in Seq(Codes) /\ missed \in BOOLEAN

TakesHead == Take => unread # <<>> /\ scancode' = Head(unread)

\* key_tail is "the earliest key typed": get_code() takes exactly the code
\* that has been longest in the ring.
TakesEarliest == [][TakesHead]_keyVars

\* No index has been back at 0 with a code behind it.
FirstLap == typed <= KEY_BUF_SIZE

\* What get_code() leaves behind when it finds no code to take.
Leaves == \/ unread = <<>>
          \/ /\ Head(unread).kind = "E0"
             /\ (half /\ Len(unread) = 1) \/ key_count < Len(unread)

FindsAll == Test /\ pc' = "decode" => Leaves

\* On the first lap the handler and the server, wherever they interleave, take
\* no code out of order or twice, and get_code() finds a code whenever there
\* is one, but for a 0xE0 whose second code is to come, and but for a count
\* that lost an increment to the race: then 0xE0 may never be made readable,
\* and nor are the codes behind it ever taken.
EarliestFirstLap == [][FirstLap => TakesHead /\ FindsAll]_keyVars

\* The server never reads between the two interrupts of an extended key: on
\* the first lap the code behind 0xE0 is there when decode() asks for it.
NoSplit == FirstLap /\ pc = "test" /\ after_E0 => key_flag[key_tail] = 1

\* No interrupt is forgotten between the drain loop and RECEIVE's look at
\* has_int_msg: the server sleeps on a readable code because a break code ended
\* the loop or because the code came after that look, and for no other reason.
EmptyWhenAsleep ==
    pc = "asleep" /\ ~missed /\ key_flag[key_tail] = 1 => scancode.kind # "empty"

AtRest == pc \notin {"init", "load", "store"}

\* The race on key_count only ever loses increments: the handler does not
\* turn a code away while there is room.
CountNotAbove == AtRest => key_count <= Len(unread)
=============================================================================
