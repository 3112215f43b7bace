--------------------------------- MODULE Ipc ---------------------------------
(***************************************************************************)
(* The kernel's message passing (ipc.c), the interrupt notifications that  *)
(* share its state (inform_int, the timers) and the scheduling both cause. *)
(*                                                                         *)
(* A system call is one step of the process at the head of the ready       *)
(* queue; the clock handler takes one step per timer slot, and the         *)
(* keyboard and disk handlers may come between them.  System calls really  *)
(* run with interrupts enabled.  The one place where that shows on these   *)
(* variables is a RECEIVE that has looked at has_int_msg and is on its way *)
(* to sleep: ReceiveLater has the interrupts that come then.  (Those that  *)
(* ReceiveInt's second clearing erases leave no trace, the clock handler   *)
(* does no more inside a system call than ClockNested, and the moments at  *)
(* which a handler finds the queues half changed are IpcIrq's.)            *)
(*                                                                         *)
(* The pointer member `message' is left out: it is set and cleared         *)
(* together with the flag of the same process.                             *)
(*                                                                         *)
(* A kernel that hangs or has followed a null pointer takes no further     *)
(* step here.  (The loader maps page 0, so the null pointer reads the      *)
(* interrupt vectors the BIOS left there: nothing the code defines.)       *)
(***************************************************************************)
EXTENDS ProcQueues, FiniteSets

CONSTANTS Boot,          \* task_table: the processes that start_proc() makes ready
          Bodies,        \* what a message says, apart from its source
          ANY, INTERRUPT, NO_TASK, NoProc,
          CLOCK,         \* HARD_INT_CLOCK
          IrqLines,      \* <<process, bit>>: keyboard and disk handlers
          NTimers,       \* slots of timers[] (TASK_NUM)
          MaxTime,       \* bound: largest time given to sys_set_timer
          MaxOverrun,    \* bound: ticks a process may run beyond its slice
          WildWalk       \* how deadlock()'s reads outside PCB_stack may end;
                         \* "endless" stands for every way of not returning

ASSUME IpcAssumption ==
    /\ IsFiniteSet(Procs)
    /\ Boot \in Seq(Procs) /\ Boot # <<>> /\ IsInjective(Boot)
    /\ {ANY, INTERRUPT, NO_TASK, NoProc} \cap Procs = {}
    /\ ANY # INTERRUPT /\ NO_TASK \notin {ANY, INTERRUPT} /\ Bodies # {}
    /\ \A l \in IrqLines : l[1] \in Procs
    /\ NTimers \in Nat /\ MaxTime \in Nat
    /\ WildWalk \subseteq {"clean", "endless"} /\ WildWalk # {}

VARIABLES q,                \* the process queues
          clk,              \* clock_handler(): 0 outside, else the next slot
          flags,            \* per process: subset of {"SENDING", "RECEIVING"}
          recv_from, send_to,
          sending_to_this,  \* per process: first of the processes sending to it
          next_sending,     \* per process: the next in the list it is on
          has_int_msg,      \* per process: interrupts not yet received
          late,             \* history, per process: the interrupts that came
                            \* too late for the RECEIVE it sleeps in
          buf,              \* per process: its MESSAGE structure
          timers,           \* slot -> [pid, time]
          kernel            \* "run"; "hang": in while(1) or an endless walk;
                            \* "fault": a null pointer was followed

ipcVars == <<flags, recv_from, send_to, sending_to_this, next_sending, late>>
vars == <<q, clk, ipcVars, has_int_msg, buf, timers, kernel>>

IntBits == {l[2] : l \in IrqLines} \cup {CLOCK}

Slots == 1 .. NTimers

\* Mutant: kernel_sendrec() does not fill in the source.
MsgNoSource(p, b) == [source |-> NO_TASK, type |-> b]

Msg(p, b) == [source |-> p, type |-> b]

\* init_pcb() never sets send_to (it sets recv_from twice); nothing reads it
\* before msg_send() has set it.
Init == /\ q = [ready |-> Boot, pause |-> <<>>, wait |-> <<>>, ticks |-> Priority]
        /\ clk = 0
        /\ flags = [p \in Procs |-> {}]
        /\ recv_from = [p \in Procs |-> NO_TASK]
        /\ send_to = [p \in Procs |-> NO_TASK]
        /\ sending_to_this = [p \in Procs |-> NoProc]
        /\ next_sending = [p \in Procs |-> NoProc]
        /\ has_int_msg = [p \in Procs |-> {}]
        /\ late = [p \in Procs |-> {}]
        /\ buf = [p \in Procs |-> Msg(p, CHOOSE b \in Bodies : TRUE)]
        /\ timers = [i \in Slots |-> [pid |-> NO_TASK, time |-> 0]]
        /\ kernel = "run"

-----------------------------------------------------------------------------
(* deadlock(src, dest)                                                     *)

\* Where the first loop stands after n steps: it follows send_to as long as
\* the process it stands on is SENDING.
SendHop(dest) ==
    LET hop[n \in 0 .. Cardinality(Procs)] ==
            IF n = 0 THEN dest
            ELSE IF "SENDING" \in flags[hop[n - 1]] THEN send_to[hop[n - 1]]
            ELSE hop[n - 1]
    IN  hop

\* The second loop follows recv_from; it returns at a process that receives
\* from src, and leaves PCB_stack (value ANY or INTERRUPT) unchecked.
RecvHop(src, from) ==
    LET hop[n \in 0 .. Cardinality(Procs)] ==
            IF n = 0 THEN from
            ELSE IF /\ hop[n - 1] \in Procs
                    /\ "RECEIVING" \in flags[hop[n - 1]]
                    /\ recv_from[hop[n - 1]] # src
                 THEN recv_from[hop[n - 1]]
            ELSE hop[n - 1]
    IN  hop

\* Some process on the way from dest is sending to src.
ClosesCycle(src, dest) ==
    LET hop == SendHop(dest)
    IN  \E n \in DOMAIN hop : "SENDING" \in flags[hop[n]] /\ send_to[hop[n]] = src

\* Mutant: msg_send() without the call of deadlock().
NoDeadlockCheck(src, dest) == {"clean"}

\* The ways the call may end; an endless walk hangs the kernel.
DeadlockOutcomes(src, dest) ==
    LET last == SendHop(dest)[Cardinality(Procs)]
        hop  == RecvHop(src, last)
        stop == hop[Cardinality(Procs)]
    IN  IF ClosesCycle(src, dest) THEN {"send_deadlock"}
        ELSE IF "SENDING" \in flags[last] THEN {"endless"}
        ELSE IF stop \notin Procs THEN WildWalk
        ELSE IF "RECEIVING" \in flags[stop] /\ recv_from[stop] # src THEN {"endless"}
        ELSE {"clean"}

-----------------------------------------------------------------------------
(* Mutants.                                                                *)

\* A receiver that waits for one process takes the message of another.
AwaitsAnyone(d, p) == "RECEIVING" \in flags[d]

\* The sender list keeps a sender whose message was taken.
TakeKeepsHead(p, from) == UNCHANGED <<sending_to_this, next_sending>>

\* msg_receive() does not look at its list when it accepts ANY.
IgnoresAny(p, src) ==
    IF src \in Procs /\ "SENDING" \in flags[src] /\ send_to[src] = p THEN src ELSE NoProc

\* A pending interrupt is only taken by a process that asks for interrupts.
TakesIntOnly(p, src) == has_int_msg[p] # {} /\ src = INTERRUPT

\* inform_int() does not schedule when the empty task runs.
WakeLater(p) == Unblock(q, p)

\* inform_int() clears the flag and forgets the queue.
WakeNobody(p) == q

\* A timer that fired stays armed.
KeepSlot(i) == timers[i]

-----------------------------------------------------------------------------
(* System calls of the running process.                                    *)

Calls(p) == kernel = "run" /\ clk = 0 /\ Running(q, p)

\* d waits for a message of p (ipc.c, case 1 of msg_send).
Awaits(d, p) == "RECEIVING" \in flags[d] /\ recv_from[d] \in {p, ANY}

\* msg_send, case 1: the receiver waits; copy, clear its flag, unblock it.
Deliver(p, d, b) ==
    /\ buf' = [buf EXCEPT ![p] = Msg(p, b), ![d] = Msg(p, b)]
    /\ flags' = [flags EXCEPT ![d] = @ \ {"RECEIVING"}]
    /\ recv_from' = [recv_from EXCEPT ![d] = NO_TASK]
    /\ late' = [late EXCEPT ![d] = {}]
    /\ q' = Unblock(q, d)
    /\ UNCHANGED <<send_to, sending_to_this, next_sending, kernel>>

\* msg_send, case 2: mark p SENDING, hang it on d's list and block it.  If
\* the list is not empty its end is sought from d's own next_sending, and a
\* null one is dereferenced.
EndOfList(first) ==
    LET hop[n \in 0 .. Cardinality(Procs)] ==
            IF n = 0 THEN first
            ELSE IF next_sending[hop[n - 1]] = NoProc THEN hop[n - 1]
            ELSE next_sending[hop[n - 1]]
    IN  hop[Cardinality(Procs)]

\* The list pointers once p is appended to d's list.
Appended(p, d) ==
    IF sending_to_this[d] = NoProc THEN [next_sending EXCEPT ![p] = NoProc]
    ELSE [next_sending EXCEPT ![EndOfList(next_sending[d])] = p, ![p] = NoProc]

Hang(p, d, b) ==
    LET fault == sending_to_this[d] # NoProc /\ next_sending[d] = NoProc
    IN  /\ buf' = [buf EXCEPT ![p] = Msg(p, b)]
        /\ flags' = [flags EXCEPT ![p] = @ \cup {"SENDING"}]
        /\ send_to' = [send_to EXCEPT ![p] = d]
        /\ sending_to_this' =
              [sending_to_this EXCEPT ![d] = IF @ = NoProc THEN p ELSE @]
        /\ next_sending' = IF fault THEN next_sending ELSE Appended(p, d)
        /\ q' = IF fault THEN q ELSE Block(q)
        /\ kernel' = IF fault THEN "fault" ELSE kernel
        /\ UNCHANGED <<recv_from, late>>

Send(p, d, b) ==
    /\ Calls(p) /\ d # p
    /\ \E outcome \in DeadlockOutcomes(p, d) :
          \/ /\ outcome = "clean" /\ Awaits(d, p)
             /\ Deliver(p, d, b)
          \/ /\ outcome = "clean" /\ ~Awaits(d, p)
             /\ Hang(p, d, b)
          \/ /\ outcome # "clean"
             /\ kernel' = "hang"
             /\ UNCHANGED <<q, ipcVars, buf>>
    /\ UNCHANGED <<clk, has_int_msg, timers>>

\* msg_receive, case 1: a pending interrupt is asked for.
ReceiveInt(p, src) ==
    /\ buf' = [buf EXCEPT ![p] = Msg(INTERRUPT, has_int_msg[p])]
    /\ has_int_msg' = [has_int_msg EXCEPT ![p] = {}]
    /\ UNCHANGED <<q, ipcVars>>

\* Cases 2 and 3: the sender whose message is taken, or NoProc.
ChosenSender(p, src) ==
    IF src = ANY THEN sending_to_this[p]
    ELSE IF src \in Procs /\ "SENDING" \in flags[src] /\ send_to[src] = p
    THEN src ELSE NoProc

\* A.1: take the sender out of the list.
TakeSender(p, from) ==
    LET first == from = sending_to_this[p]
    IN  /\ sending_to_this' =
              [sending_to_this EXCEPT ![p] = IF first THEN next_sending[from] ELSE @]
        /\ next_sending' =
              [x \in Procs |->
                  IF x = from THEN NoProc
                  ELSE IF ~first /\ next_sending[x] = from THEN next_sending[from]
                  ELSE next_sending[x]]

\* A: copy the message, clear the sender's state, unblock it.
ReceiveMsg(p, from) ==
    /\ TakeSender(p, from)
    /\ buf' = [buf EXCEPT ![p] = buf[from]]
    /\ send_to' = [send_to EXCEPT ![from] = NO_TASK]
    /\ flags' = [flags EXCEPT ![from] = @ \ {"SENDING"}]
    /\ q' = Unblock(q, from)
    /\ UNCHANGED <<recv_from, has_int_msg, late>>

\* The keyboard's and the disk's interrupts of p.
LinesOf(p) == {l[2] : l \in {m \in IrqLines : m[1] = p}}

\* B: nothing to take.  An interrupt after the look at has_int_msg and before
\* recv_from is set finds a process that is not receiving: it is recorded, and
\* p sleeps all the same.
ReceiveLater(p, src) ==
    /\ buf' = [buf EXCEPT ![p].source = p]
    /\ flags' = [flags EXCEPT ![p] = @ \cup {"RECEIVING"}]
    /\ recv_from' = [recv_from EXCEPT ![p] = src]
    /\ q' = Block(q)
    /\ \E bits \in SUBSET LinesOf(p) :
          /\ has_int_msg' = [has_int_msg EXCEPT ![p] = @ \cup bits]
          /\ late' = [late EXCEPT ![p] = bits]
    /\ UNCHANGED <<send_to, sending_to_this, next_sending>>

TakesInt(p, src) == has_int_msg[p] # {} /\ src \in {ANY, INTERRUPT}

Receive(p, src) ==
    /\ Calls(p) /\ src # p
    /\ \/ TakesInt(p, src) /\ ReceiveInt(p, src)
       \/ /\ ~TakesInt(p, src) /\ ChosenSender(p, src) # NoProc
          /\ ReceiveMsg(p, ChosenSender(p, src))
       \/ /\ ~TakesInt(p, src) /\ ChosenSender(p, src) = NoProc
          /\ ReceiveLater(p, src)
    /\ UNCHANGED <<clk, timers, kernel>>

\* kernel_set_timer() with a positive time; with no free slot it changes
\* nothing.
SetTimer(p, time) ==
    /\ Calls(p)
    /\ \E i \in Slots :
          /\ timers[i].pid = NO_TASK
          /\ \A j \in Slots : j < i => timers[j].pid # NO_TASK
          /\ timers' = [timers EXCEPT ![i] = [pid |-> p, time |-> time]]
    /\ UNCHANGED <<q, clk, ipcVars, has_int_msg, buf, kernel>>

\* kernel_sendrec() with neither SEND nor RECEIVE.
Both(p) == /\ Calls(p)
           /\ kernel' = "hang"
           /\ UNCHANGED <<q, clk, ipcVars, has_int_msg, buf, timers>>

-----------------------------------------------------------------------------
(* Interrupts.                                                             *)

AwaitsInt(p) == "RECEIVING" \in flags[p] /\ recv_from[p] \in {INTERRUPT, ANY}

WakeFor(p) == Wake(q, p)

\* inform_int(p, bit): only source and type of the waiting buffer are written.
InformInt(p, bit) ==
    \/ /\ AwaitsInt(p)
       /\ buf' = [buf EXCEPT ![p] = Msg(INTERRUPT, {bit})]
       /\ has_int_msg' = [has_int_msg EXCEPT ![p] = {}]
       /\ flags' = [flags EXCEPT ![p] = @ \ {"RECEIVING"}]
       /\ recv_from' = [recv_from EXCEPT ![p] = NO_TASK]
       /\ late' = [late EXCEPT ![p] = {}]
       /\ q' = WakeFor(p)
       /\ UNCHANGED <<send_to, sending_to_this, next_sending>>
    \/ /\ ~AwaitsInt(p)
       /\ has_int_msg' = [has_int_msg EXCEPT ![p] = @ \cup {bit}]
       /\ UNCHANGED <<q, ipcVars, buf>>

\* The keyboard or disk handler, which may interrupt the clock handler.  (What
\* interrupts do to a kernel that hangs is not followed.)
Irq == /\ kernel = "run"
       /\ \E l \in IrqLines : InformInt(l[1], l[2])
       /\ UNCHANGED <<clk, timers, kernel>>

ClockBegin == /\ kernel = "run" /\ clk = 0
              /\ q' = Charge(q)
              /\ clk' = 1
              /\ UNCHANGED <<ipcVars, has_int_msg, buf, timers, kernel>>

FreeSlot(i) == [timers[i] EXCEPT !.pid = NO_TASK, !.time = @ - 1]

\* One round of clock_handler()'s loop: an armed slot counts down and fires
\* at one.
ClockTimer ==
    /\ kernel = "run" /\ clk \in Slots
    /\ clk' = clk + 1
    /\ \/ /\ timers[clk].pid = NO_TASK
          /\ UNCHANGED <<q, ipcVars, has_int_msg, buf, timers>>
       \/ /\ timers[clk].pid # NO_TASK /\ timers[clk].time > 2
          /\ timers' = [timers EXCEPT ![clk].time = @ - 1]
          /\ UNCHANGED <<q, ipcVars, has_int_msg, buf>>
       \/ /\ timers[clk].pid # NO_TASK /\ timers[clk].time <= 2
          /\ timers' = [timers EXCEPT ![clk] = FreeSlot(clk)]
          /\ InformInt(timers[clk].pid, CLOCK)
    /\ UNCHANGED kernel

ClockEnd == /\ kernel = "run" /\ clk = NTimers + 1
            /\ q' = Expire(q)
            /\ clk' = 0
            /\ UNCHANGED <<ipcVars, has_int_msg, buf, timers, kernel>>

\* The clock interrupts the kernel: only the running process is charged.
ClockNested == /\ kernel = "run" /\ clk = 0
               /\ ~Idle(q) /\ q.ticks[Current(q)] > 1 - MaxOverrun
               /\ q' = Charge(q)
               /\ UNCHANGED <<clk, ipcVars, has_int_msg, buf, timers, kernel>>

-----------------------------------------------------------------------------

SysCall(p) ==
    \/ \E d \in Procs, b \in Bodies : Send(p, d, b)
    \/ \E src \in Procs \cup {ANY, INTERRUPT} : Receive(p, src)
    \/ \E time \in 1 .. MaxTime : SetTimer(p, time)
    \/ Both(p)

Next == \/ \E p \in Procs : SysCall(p)
        \/ Irq \/ ClockBegin \/ ClockTimer \/ ClockEnd \/ ClockNested

SafeSpec == Init /\ [][Next]_vars

\* The timer chip never stops ticking, and its handler always returns.
Clock == ClockBegin \/ ClockTimer \/ ClockEnd

Spec == SafeSpec /\ WF_vars(Clock)

-----------------------------------------------------------------------------
(* Properties.                                                             *)

\* The PCB fields of message passing keep to the values ipc.c gives them, and
\* the queues are sequences of PCBs.
TypeOK ==
    /\ q \in QueueState
    /\ clk \in 0 .. NTimers + 1
    /\ flags \in [Procs -> SUBSET {"SENDING", "RECEIVING"}]
    /\ recv_from \in [Procs -> Procs \cup {ANY, INTERRUPT, NO_TASK}]
    /\ send_to \in [Procs -> Procs \cup {NO_TASK}]
    /\ sending_to_this \in [Procs -> Procs \cup {NoProc}]
    /\ next_sending \in [Procs -> Procs \cup {NoProc}]
    /\ has_int_msg \in [Procs -> SUBSET IntBits]
    /\ late \in [Procs -> SUBSET IntBits]
    /\ buf \in [Procs -> [source : Procs \cup {INTERRUPT},
                         type : Bodies \cup SUBSET IntBits]]
    /\ timers \in [Slots -> [pid : Procs \cup {NO_TASK}, time : Nat]]
    /\ kernel \in {"run", "hang", "fault"}

\* The queues stay a partition under every interleaving of system calls,
\* wake-ups and preemptions, and nobody idles while a process can run.
QueuesOK == Disjoint(q) /\ NoRepeats(q) /\ WorkConserving(q)

\* A process is in the wait queue exactly while it is blocked in one half of
\* a rendezvous: unblock() relinks without looking where the PCB is.
BlockedAreWaiting ==
    kernel # "fault" =>
        \A p \in Procs :
            /\ p \in Range(q.wait) <=> flags[p] # {}
            /\ flags[p] # {"SENDING", "RECEIVING"}

\* Whoever sends to d is the head of d's list and the only one on it: the
\* list that sending_to_this and next_sending can hold never gets a second
\* member, because appending one faults.
OneSender ==
    kernel # "fault" =>
        \A p, d \in Procs :
            /\ sending_to_this[d] = p <=> "SENDING" \in flags[p] /\ send_to[p] = d
            /\ next_sending[p] = NoProc

\* No two processes both block although one offers what the other asks for.
NoMissedRendezvous ==
    \A p, d \in Procs :
        ~("SENDING" \in flags[p] /\ send_to[p] = d /\ Awaits(d, p))

\* What a process that sleeps until an interrupt still has pending is what
\* came between the look of its RECEIVE at has_int_msg and the setting of
\* recv_from: an interrupt from before the look is taken, and one from after
\* the setting wakes the process.
NoMissedInterrupt ==
    \A p \in Procs : AwaitsInt(p) => has_int_msg[p] = late[p]

\* Blocked senders never wait for each other in a circle: the send that
\* would close it stops the kernel instead.
NoSendCycle ==
    \A p \in Procs : "SENDING" \in flags[p] => ~ClosesCycle(p, send_to[p])

\* The processes on d's list.
SendersOf(d) ==
    LET hop[n \in 0 .. Cardinality(Procs)] ==
            IF n = 0 THEN sending_to_this[d]
            ELSE IF hop[n - 1] = NoProc THEN NoProc ELSE next_sending[hop[n - 1]]
    IN  {hop[n] : n \in DOMAIN hop} \ {NoProc}

\* "The list of the processes that want to send to this process": every
\* process that is SENDING to d is found by following d's list.
SendersListed ==
    \A p, d \in Procs :
        "SENDING" \in flags[p] /\ send_to[p] = d => p \in SendersOf(d)

\* A process that set a timer and sleeps until an interrupt is put back among
\* the runnable ones, unless the kernel stops.
SleepEnds ==
    \A p \in Procs :
        (AwaitsInt(p) /\ \E i \in Slots : timers[i].pid = p)
            ~> (p \in Runnable(q) \/ kernel # "run")

\* A slot in use becomes free again, unless the kernel stops: the seven slots
\* are shared by all processes and set_timer only takes a free one.
TimersFire ==
    \A i \in Slots :
        timers[i].pid # NO_TASK ~> (timers[i].pid = NO_TASK \/ kernel # "run")

\* The lists, flags and queues implement plain rendezvous communication ...
St == [p \in Procs |-> IF "SENDING" \in flags[p] THEN [op |-> "send", peer |-> send_to[p]]
                       ELSE IF "RECEIVING" \in flags[p]
                       THEN [op |-> "recv", peer |-> recv_from[p]]
                       ELSE [op |-> "run"]]

RV == INSTANCE Rendezvous WITH st <- St, buf <- buf, pend <- has_int_msg

ImplementsRendezvous ==
    RV!Init /\ [][kernel' # "fault" => RV!Next \/ UNCHANGED RV!vars]_vars

\* ... and use the process queues only as the scheduler allows.
SchedQueues == INSTANCE Sched WITH q <- q, clk <- clk # 0
ImplementsSched == SchedQueues!SafeSpec
=============================================================================
