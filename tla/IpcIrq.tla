-------------------------------- MODULE IpcIrq --------------------------------
(***************************************************************************)
(* Message passing with interrupts inside: sys_call runs the kernel with   *)
(* interrupts enabled, and the keyboard and disk handlers call             *)
(* inform_int() between any two statements of msg_send(), msg_receive(),   *)
(* block(), unblock() and schedule().                                      *)
(*                                                                         *)
(* What the kernel is about to do to the queues is a sequence of           *)
(* statements, `todo'; a statement is a step, and so is a handler.         *)
(*                                                                         *)
(* Left out: message bodies and the pointer to them, time slices (any tick *)
(* may end one; a tick inside the kernel only counts), timers, a handler   *)
(* inside another, and an update torn within a statement.  The model stops *)
(* at the end of a call that an interrupt has done harm to: what comes of  *)
(* lost interrupts and queues in pieces is not followed.                   *)
(***************************************************************************)
EXTENDS PcbLinks

CONSTANTS TaskTable,     \* task_table
          Notified,      \* the processes that a handler informs
          ANY, INTERRUPT, NO_TASK

ASSUME IpcIrqAssumption ==
    /\ TaskTable \in Seq(Procs) /\ TaskTable # <<>> /\ IsInjective(TaskTable)
    /\ Notified \subseteq Procs
    /\ {ANY, INTERRUPT, NO_TASK} \cap Procs = {}
    /\ ANY # INTERRUPT /\ NO_TASK \notin {ANY, INTERRUPT}

VARIABLES l,                 \* the linked lists
          k,                 \* the kernel: where it is, for whom, and with whom
          todo,              \* statements on the queues still to come
          flags, recv_from,  \* per process, as in ipc.c
          send_to, sending_to_this,
          has_int_msg,       \* per process: one handler each
          due,               \* history: an interrupt has not reached its process
          struck             \* history: a handler came at a bad moment

ipcVars == <<flags, recv_from, send_to, sending_to_this>>
irqVars == <<l, k, todo, ipcVars, has_int_msg, due, struck>>

User == [pc |-> "user", p |-> Null, with |-> Null]

IrqInit ==
    /\ l = BootList(TaskTable)
    /\ k = User /\ todo = <<>>
    /\ flags = [p \in Procs |-> {}]
    /\ recv_from = [p \in Procs |-> NO_TASK]
    /\ send_to = [p \in Procs |-> NO_TASK]
    /\ sending_to_this = [p \in Procs |-> Null]
    /\ has_int_msg = [p \in Procs |-> FALSE]
    /\ due = [p \in Procs |-> FALSE]
    /\ struck = FALSE

-----------------------------------------------------------------------------
(* Mutants.                                                                *)

\* inform_int() looks at recv_from alone.
StaleAwaits(p) == recv_from[p] \in {ANY, INTERRUPT}

-----------------------------------------------------------------------------
(* The statements of block(), unblock() and schedule().                    *)

Do(do, x) == [do |-> do, x |-> x]

\* Where a null pointer leads is not defined.
Follow(x) == IF x \in Nodes THEN l.next[x] ELSE Null

\* Append x to the pause or the wait queue, whatever they are by now.
LinkSteps(step) ==
    CASE step.do = "link pause" /\ PauseEmpty(l) ->
            <<Do("pause head", step.x), Do("pause pre", step.x), Do("pause next", step.x)>>
      [] step.do = "link pause" /\ ~PauseEmpty(l) ->
            <<Do("pause back", step.x), Do("pause next", step.x),
              Do("pause last", step.x), Do("pause pre", step.x)>>
      [] step.do = "link wait" /\ WaitEmpty(l) ->
            <<Do("wait head", step.x), Do("wait next", step.x), Do("wait pre", step.x)>>
      [] step.do = "link wait" /\ ~WaitEmpty(l) ->
            <<Do("wait back", step.x), Do("wait next", step.x),
              Do("wait last", step.x), Do("wait pre", step.x)>>

BlockSteps(x) == <<Do("next ready", x), Do("link wait", x), Do("idle?", x)>>

UnblockSteps(x) ==
    (IF l.wait = x THEN <<Do("next wait", x)>>
                   ELSE <<Do("unlink next", x), Do("unlink pre", x)>>)
    \o <<Do("link pause", x)>>

\* The branch of schedule() that the queues ask for.
ScheduleSteps ==
    IF ReadyEmpty(l) /\ PauseEmpty(l) THEN <<Do("idle", Null), Do("idle pre", Null)>>
    ELSE IF ReadyEmpty(l) THEN <<Do("refill", Null)>>
    ELSE <<Do("next ready", l.ready), Do("link pause", l.ready)>>
         \o (IF ReadyOneLeft(l) THEN <<Do("refill", Null)>> ELSE <<>>)

\* The slices of the pause queue are refilled one by one; then the lists swap.
RefillSteps ==
    <<Do("next pause", l.pause), Do("swap head", l.pause), Do("swap next", Null),
      Do("swap pre", Null)>>

\* A condition of the code: the statements that it leads to.
Branch(step) ==
    CASE step.do \in {"link pause", "link wait"} -> LinkSteps(step)
      [] step.do = "unblock"  -> UnblockSteps(step.x)
      [] step.do = "idle?"    -> IF ReadyEmpty(l) THEN <<Do("schedule", Null)>> ELSE <<>>
      [] step.do = "schedule" -> (IF EmptyRuns(l) THEN <<Do("none ready", Null)>> ELSE <<>>)
                              \o <<Do("choose", Null)>>
      [] step.do = "choose"   -> ScheduleSteps
      [] step.do = "refill"   -> RefillSteps

Branching == {"link pause", "link wait", "unblock", "idle?", "schedule", "choose", "refill"}

\* An assignment of the code.
Assign(step) ==
    CASE step.do = "next ready"  -> [l EXCEPT !.ready = Follow(@)]
      [] step.do = "next wait"   -> [l EXCEPT !.wait = Follow(@)]
      [] step.do = "next pause"  -> [l EXCEPT !.pause = Follow(@)]
      [] step.do = "pause head"  -> [l EXCEPT !.pause = step.x]
      [] step.do = "pause pre"   -> [l EXCEPT !.pre[PauseTail] = step.x]
      [] step.do = "pause next"  -> [l EXCEPT !.next[step.x] = PauseTail]
      [] step.do = "pause back"  -> [l EXCEPT !.pre[step.x] = l.pre[PauseTail]]
      [] step.do = "pause last"  -> [l EXCEPT !.next[l.pre[PauseTail]] = step.x]
      [] step.do = "wait head"   -> [l EXCEPT !.wait = step.x]
      [] step.do = "wait pre"    -> [l EXCEPT !.pre[WaitTail] = step.x]
      [] step.do = "wait next"   -> [l EXCEPT !.next[step.x] = WaitTail]
      [] step.do = "wait back"   -> [l EXCEPT !.pre[step.x] = l.pre[WaitTail]]
      [] step.do = "wait last"   -> [l EXCEPT !.next[l.pre[WaitTail]] = step.x]
      [] step.do = "unlink next" -> [l EXCEPT !.next[l.pre[step.x]] = l.next[step.x]]
      [] step.do = "unlink pre"  -> [l EXCEPT !.pre[l.next[step.x]] = l.pre[step.x]]
      [] step.do = "none ready"  -> [l EXCEPT !.ready = ReadyTail]
      [] step.do = "idle"        -> [l EXCEPT !.ready = EmptyTask]
      [] step.do = "idle pre"    -> [l EXCEPT !.pre[ReadyTail] = EmptyTask]
      [] step.do = "swap head"   -> [l EXCEPT !.ready = step.x]
      [] step.do = "swap next"   -> [l EXCEPT !.next[l.pre[PauseTail]] = ReadyTail]
      [] step.do = "swap pre"    -> [l EXCEPT !.pre[ReadyTail] = l.pre[PauseTail]]

\* The loop over the pause queue is the one statement that is repeated.
Again(step) == step.do = "next pause" /\ l'.pause \in Procs

Statement ==
    /\ todo # <<>>
    /\ LET step == Head(todo)
       IN  \/ /\ step.do \in Branching
              /\ todo' = Branch(step) \o Tail(todo)
              /\ UNCHANGED l
           \/ /\ step.do \notin Branching
              /\ l' = Assign(step)
              /\ todo' = IF Again(step) THEN todo ELSE Tail(todo)
    /\ k' = IF todo' = <<>> THEN User ELSE k
    /\ UNCHANGED <<ipcVars, has_int_msg, due, struck>>

-----------------------------------------------------------------------------
(* msg_send() and msg_receive().                                           *)

\* A process runs, and all is well so far.
InUser == k = User /\ ~struck

At(pc) == k.pc = pc /\ todo = <<>>

Enter(pc, p, with) == k' = [pc |-> pc, p |-> p, with |-> with]

\* The rest of the call is on the queues.
ToQueues(steps) == k' = [k EXCEPT !.pc = "queues"] /\ todo' = steps

Awaits(d, p) == "RECEIVING" \in flags[d] /\ recv_from[d] \in {p, ANY}

\* Some process on the way from d is sending to p: deadlock() hangs the kernel.
ClosesCycle(p, d) ==
    LET hop[n \in 0 .. Cardinality(Procs)] ==
            IF n = 0 THEN d
            ELSE IF "SENDING" \in flags[hop[n - 1]] THEN send_to[hop[n - 1]]
            ELSE hop[n - 1]
    IN  \E n \in DOMAIN hop : "SENDING" \in flags[hop[n]] /\ send_to[hop[n]] = p

\* A circle of senders and a second sender to one process are Ipc's subject.
Send(p, d) ==
    /\ InUser /\ l.ready = p /\ d # p /\ ~ClosesCycle(p, d)
    /\ \/ Awaits(d, p) /\ Enter("copy", p, d)
       \/ ~Awaits(d, p) /\ sending_to_this[d] = Null /\ Enter("mark sender", p, d)
    /\ UNCHANGED <<l, todo, ipcVars, has_int_msg, due, struck>>

\* Case 1: the message is copied, the flag cleared, then recv_from.
SendCopied == /\ At("copy")
              /\ flags' = [flags EXCEPT ![k.with] = @ \ {"RECEIVING"}]
              /\ k' = [k EXCEPT !.pc = "clear"]
              /\ UNCHANGED <<l, todo, recv_from, send_to, sending_to_this>>

SendCleared == /\ At("clear")
               /\ recv_from' = [recv_from EXCEPT ![k.with] = NO_TASK]
               /\ ToQueues(<<Do("unblock", k.with)>>)
               /\ UNCHANGED <<l, flags, send_to, sending_to_this>>

\* Case 2: nothing here is read by a handler.
SendMarked == /\ At("mark sender")
              /\ flags' = [flags EXCEPT ![k.p] = @ \cup {"SENDING"}]
              /\ send_to' = [send_to EXCEPT ![k.p] = k.with]
              /\ sending_to_this' = [sending_to_this EXCEPT ![k.with] = k.p]
              /\ ToQueues(BlockSteps(k.p))
              /\ UNCHANGED <<l, recv_from>>

ChosenSender(p, src) ==
    IF src = ANY THEN sending_to_this[p]
    ELSE IF src \in Procs /\ "SENDING" \in flags[src] /\ send_to[src] = p
    THEN src ELSE Null

Receive(p, src) ==
    /\ InUser /\ l.ready = p /\ src # p
    /\ LET from == ChosenSender(p, src)
       IN  \/ has_int_msg[p] /\ src \in {ANY, INTERRUPT} /\ Enter("take", p, src)
           \/ /\ ~(has_int_msg[p] /\ src \in {ANY, INTERRUPT})
              /\ \/ from # Null /\ Enter("accept", p, from)
                 \/ from = Null /\ Enter("mark receiver", p, src)
    /\ UNCHANGED <<l, todo, ipcVars, has_int_msg, due, struck>>

\* Case 1: has_int_msg is read and cleared, the message copied ...
ReceiveTakes == /\ At("take")
                /\ has_int_msg' = [has_int_msg EXCEPT ![k.p] = FALSE]
                /\ due' = [due EXCEPT ![k.p] = FALSE]
                /\ k' = [k EXCEPT !.pc = "taken"]
                /\ UNCHANGED <<l, todo, ipcVars>>

\* ... and has_int_msg is cleared once more.
ReceiveTaken == /\ At("taken")
                /\ has_int_msg' = [has_int_msg EXCEPT ![k.p] = FALSE]
                /\ k' = User
                /\ UNCHANGED <<l, todo, ipcVars, due>>

\* Cases 2 and 3, with one sender on the list.
ReceiveAccepts ==
    /\ At("accept")
    /\ sending_to_this' = [sending_to_this EXCEPT ![k.p] = Null]
    /\ send_to' = [send_to EXCEPT ![k.with] = NO_TASK]
    /\ flags' = [flags EXCEPT ![k.with] = @ \ {"SENDING"}]
    /\ ToQueues(<<Do("unblock", k.with)>>)
    /\ UNCHANGED <<l, recv_from>>

\* B: the flag, then recv_from, then block().
ReceiveMarked == /\ At("mark receiver")
                 /\ flags' = [flags EXCEPT ![k.p] = @ \cup {"RECEIVING"}]
                 /\ k' = [k EXCEPT !.pc = "from"]
                 /\ UNCHANGED <<l, todo, recv_from, send_to, sending_to_this>>

ReceiveBlocks == /\ At("from")
                 /\ recv_from' = [recv_from EXCEPT ![k.p] = k.with]
                 /\ ToQueues(BlockSteps(k.p))
                 /\ UNCHANGED <<l, flags, send_to, sending_to_this>>

-----------------------------------------------------------------------------
(* Interrupts.                                                             *)

AwaitsInt(p) == "RECEIVING" \in flags[p] /\ recv_from[p] \in {ANY, INTERRUPT}

\* The moments at which a call and a handler for p get in each other's way.
BadMoment(p) ==
    \/ k.pc = "taken" /\ k.p = p
    \/ k.pc \in {"mark receiver", "from"} /\ k.p = p /\ k.with \in {ANY, INTERRUPT}
    \/ k.pc = "copy" /\ k.with = p /\ AwaitsInt(p)
    \/ todo # <<>> /\ AwaitsInt(p)

\* inform_int() in the keyboard's or the disk's handler.
inform_int(p) ==
    /\ ~struck /\ struck' = BadMoment(p)
    /\ \/ /\ AwaitsInt(p)
          /\ has_int_msg' = [has_int_msg EXCEPT ![p] = FALSE]
          /\ due' = [due EXCEPT ![p] = FALSE]
          /\ flags' = [flags EXCEPT ![p] = @ \ {"RECEIVING"}]
          /\ recv_from' = [recv_from EXCEPT ![p] = NO_TASK]
          /\ l' = PWake(l, p)
       \/ /\ ~AwaitsInt(p)
          /\ has_int_msg' = [has_int_msg EXCEPT ![p] = TRUE]
          /\ due' = [due EXCEPT ![p] = TRUE]
          /\ UNCHANGED <<l, flags, recv_from>>
    /\ UNCHANGED <<k, todo, send_to, sending_to_this>>

\* A tick that ends the slice, or finds the empty task running.
ClockTick == /\ InUser
             /\ Enter("tick", Null, Null)
             /\ todo' = <<Do("schedule", Null)>>
             /\ UNCHANGED <<l, ipcVars, has_int_msg, due, struck>>

SendStep == SendCopied \/ SendCleared \/ SendMarked

ReceiveStep == ReceiveAccepts \/ ReceiveMarked \/ ReceiveBlocks

IrqNext ==
    \/ \E p, d \in Procs : Send(p, d)
    \/ \E p \in Procs, src \in Procs \cup {ANY, INTERRUPT} : Receive(p, src)
    \/ (SendStep \/ ReceiveStep) /\ UNCHANGED <<has_int_msg, due, struck>>
    \/ (ReceiveTakes \/ ReceiveTaken) /\ UNCHANGED struck
    \/ \E p \in Notified : inform_int(p)
    \/ Statement \/ ClockTick

IrqSpec == IrqInit /\ [][IrqNext]_irqVars

-----------------------------------------------------------------------------
(* Properties.                                                             *)

\* Nobody sleeps on an interrupt that has happened.
NobodySleepsOn == k = User => \A p \in Procs : ~(AwaitsInt(p) /\ has_int_msg[p])

\* No interrupt is forgotten before its process has heard of it.
NoneErased == k = User => \A p \in Procs : due[p] => has_int_msg[p]

QueuesWhole ==
    k = User =>
        /\ Intact(l)
        /\ EmptyRuns(l) => PauseEmpty(l)
        /\ \A p \in Procs : flags[p] # {} <=> p \in OnChain(l, l.wait, WaitTail)

\* A handler does harm only while a call with which it shares a process is
\* between looking at has_int_msg and sleeping, or taking it, or delivering,
\* or while the kernel relinks the queues that the handler has to relink: at
\* every other point of a system call an interrupt is as good as before or
\* after the call.
HarmlessElsewhere == ~struck => NobodySleepsOn /\ NoneErased /\ QueuesWhole
=============================================================================
