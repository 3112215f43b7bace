------------------------------ MODULE Lifecycle ------------------------------
(***************************************************************************)
(* A program's life: the user starts it from the terminal, the memory      *)
(* server gives it a PCB and a block of memory and links it into the pause *)
(* queue, the terminal passes keys on to it, and a last key makes it       *)
(* exit.  INPUT, the file system server, the memory server, terminal 0 and *)
(* the programs (snake.c) run on the linked lists of PcbLinks and talk     *)
(* through rendezvous; the clock may preempt after any of their steps.     *)
(*                                                                         *)
(* A step of a process is a system call, with the work on its own data     *)
(* before it; work on shared data is a step of its own.                    *)
(* Left out: drawing and the game's timers, which move a program's queue   *)
(* position as a preemption does, and the disk behind the file server.     *)
(* Time slices are not counted: the clock may end any of them.             *)
(***************************************************************************)
EXTENDS PcbLinks

CONSTANTS INPUT, FS, MM, TTY,  \* the servers and terminal 0: PIDs 1, 3, 4, 5
          Slots,               \* the PCBs for programs, in PID order
          Boot,                \* the servers in task_table order
          Script,              \* bound: the lines and keys the user types, in order
          Bytes, PerByte,      \* MM_BITMAP_SIZE and the bits of a byte
          ANY, NO_TASK

Programs == {Slots[i] : i \in DOMAIN Slots}

Servers == {INPUT, FS, MM, TTY}

\* The servers are PCBs of their own, task_table lists each of them once, and a
\* byte has more than one bit.
ASSUME LifecycleAssumption ==
    /\ Procs = Servers \cup Programs /\ Servers \cap Programs = {}
    /\ INPUT \notin {FS, MM, TTY} /\ FS \notin {MM, TTY} /\ MM # TTY
    /\ {ANY, NO_TASK} \cap Procs = {} /\ ANY # NO_TASK
    /\ Slots \in Seq(Procs)
    /\ Boot \in Seq(Servers) /\ IsInjective(Boot) /\ Range(Boot) = Servers
    /\ Script \in Seq({"run", "shift"})
    /\ Bytes \in Nat \ {0, 1, 2} /\ PerByte \in Nat \ {0, 1}

VARIABLES s,       \* the queues
          st,      \* per process: running, sending or receiving
          msg,     \* per process: the message it received last
          kernel,  \* "run", "hang" (while(1)), "fault" (a null or wild pointer
                   \* was followed), "broken" (a queue misses its sentinel),
                   \* "stray" (a freed PCB is in a queue)
          pc,      \* per process: where its program stands
          ring,    \* keys in the key buffer
          pend,    \* has_int_msg of INPUT
          typed,   \* keys pressed so far
          child,   \* terminal->child_pid
          used,    \* PCB_stack_status of the programs' PCBs
          bitmap,  \* MM_mem_bitmap, as the set of blocks in use
          base,    \* per program: the block its segments start at
          job      \* the memory server's locals: src, pid and mem_ptr

ipcVars == <<s, st, msg, kernel>>
memVars == <<used, bitmap, base, job>>
keyVars == <<ring, pend, typed>>
vars == <<ipcVars, pc, keyVars, child, memVars>>

\* The line that starts the opened program, and the key that ends it.
Keys == {"run", "shift"}

Blocks == 0 .. Bytes * PerByte - 1

Reserved == 0 .. 2 * PerByte - 1

Run == [op |-> "run"]
Sending(d, m) == [op |-> "send", peer |-> d, msg |-> m]
Receiving(src) == [op |-> "recv", peer |-> src]

Msg(p, what, pid) == [source |-> p, what |-> what, pid |-> pid]

NoMsg == Msg(NO_TASK, "none", NO_TASK)

Init == /\ s = BootList(Boot)
        /\ st = [p \in Procs |-> Run]
        /\ msg = [p \in Procs |-> NoMsg]
        /\ kernel = "run"
        /\ pc = [p \in Procs |-> "recv"]
        /\ ring = <<>> /\ pend = FALSE /\ typed = 0
        /\ child = NO_TASK
        /\ used = [u \in Programs |-> FALSE]
        /\ bitmap = Reserved
        /\ base = [u \in Programs |-> 0]
        /\ job = [src |-> NO_TASK, pid |-> NO_TASK, block |-> 0]

-----------------------------------------------------------------------------
(* Message passing, as Ipc has it, on the linked lists.                    *)

\* Some PCB that is not in use is in a queue.
Returned(l, use) == \E u \in Programs : ~use[u] /\ InQueue(l, u)

\* The lists and the PCBs in use after a step; once a queue is broken, or a PCB
\* that has been freed is back in one, nothing more is followed.
RelinkedFor(l, use) ==
    /\ s' = l
    /\ kernel' = IF ~Intact(l) THEN "broken"
                 ELSE IF Returned(l, use) THEN "stray" ELSE kernel

Relinked(l) == RelinkedFor(l, used)

SendersTo(d) == {x \in Procs : st[x].op = "send" /\ st[x].peer = d}

\* deadlock(): following the senders from d leads back to p.  Its second walk,
\* on recv_from, changes nothing; it is taken to end (Ipc has its other ends).
ClosesCycle(p, d) ==
    LET awaited == [x \in Procs |-> IF st[x].op = "send" THEN st[x].peer ELSE x]
        hop[n \in 0 .. Cardinality(Procs)] == IF n = 0 THEN d ELSE awaited[hop[n - 1]]
    IN  \E n \in DOMAIN hop : hop[n] \in SendersTo(p)

Awaits(d, p) == st[d] \in {Receiving(p), Receiving(ANY)}

\* A sender that finds the list taken follows a null pointer.
Send(p, d, m) ==
    LET stops == ClosesCycle(p, d) \/ (~Awaits(d, p) /\ SendersTo(d) # {})
    IN  \/ /\ stops
           /\ kernel' = IF ClosesCycle(p, d) THEN "hang" ELSE "fault"
           /\ UNCHANGED <<s, st, msg>>
        \/ /\ ~stops /\ Awaits(d, p)
           /\ st' = [st EXCEPT ![d] = Run]
           /\ msg' = [msg EXCEPT ![d] = m]
           /\ Relinked(PUnblock(s, d))
        \/ /\ ~stops /\ ~Awaits(d, p)
           /\ st' = [st EXCEPT ![p] = Sending(d, m)]
           /\ Relinked(PBlock(s))
           /\ UNCHANGED msg

Receive(p, src) ==
    LET offers == {x \in SendersTo(p) : src \in {x, ANY}}
    IN  \/ \E x \in offers :
              /\ st' = [st EXCEPT ![x] = Run]
              /\ msg' = [msg EXCEPT ![p] = st[x].msg]
              /\ Relinked(PUnblock(s, x))
        \/ /\ offers = {}
           /\ st' = [st EXCEPT ![p] = Receiving(src)]
           /\ Relinked(PBlock(s))
           /\ UNCHANGED msg

-----------------------------------------------------------------------------
(* Steps.  p runs when its PCB heads the ready queue.                      *)

From(p, here) == kernel = "run" /\ s.ready = p /\ pc[p] = here

Goto(p, there) == pc' = [pc EXCEPT ![p] = there]

\* schedule(), at the end of clock_handler().
Preempt == /\ kernel = "run"
           /\ UNCHANGED <<st, msg, pc, keyVars, child, memVars>>
           /\ Relinked(PSchedule(s))

\* Bound: the first line is typed when the servers wait for work, as the prompt
\* of the terminal has it.
Started == \A p \in Servers : st[p] = Receiving(ANY)

\* A key: keyboard_handler() and its inform_int(PID_INPUT_SERVER, ...).
Key ==
    /\ kernel = "run" /\ typed < Len(Script)
    /\ typed = 0 => Started
    /\ typed' = typed + 1
    /\ ring' = Append(ring, Script[typed + 1])
    /\ \/ /\ st[INPUT].op = "recv"
          /\ st' = [st EXCEPT ![INPUT] = Run]
          /\ Relinked(PWake(s, INPUT))
          /\ UNCHANGED pend
       \/ /\ st[INPUT].op # "recv"
          /\ pend' = TRUE
          /\ UNCHANGED <<s, st, kernel>>
    /\ UNCHANGED <<msg, pc, child, memVars>>

\* The INPUT server: sleep until an interrupt, then drain the key buffer.
InputReceive ==
    /\ From(INPUT, "recv") /\ Goto(INPUT, "drain")
    /\ \/ /\ pend
          /\ pend' = FALSE
          /\ UNCHANGED ipcVars
       \/ /\ ~pend
          /\ Receive(INPUT, ANY)
          /\ UNCHANGED pend
    /\ UNCHANGED <<ring, typed, child, memVars>>

InputDrain ==
    /\ From(INPUT, "drain")
    /\ \/ /\ ring = <<>>
          /\ Goto(INPUT, "recv")
          /\ UNCHANGED <<ipcVars, ring>>
       \/ /\ ring # <<>>
          /\ ring' = Tail(ring)
          /\ Send(INPUT, TTY, Msg(INPUT, Head(ring), NO_TASK))
          /\ UNCHANGED pc
    /\ UNCHANGED <<pend, typed, child, memVars>>

\* Mutant: the terminal does not notice that its program exits.
ChildKept(m) == child

\* terminal_main(): what a message does to child_pid.
ChildAfter(m) == IF m.source = child THEN NO_TASK ELSE child

\* terminal_main() and terminal_run().
Forwards == msg[TTY].source = INPUT /\ child # NO_TASK
Starts   == msg[TTY].source = INPUT /\ child = NO_TASK /\ msg[TTY].what = "run"

TtyReceive ==
    /\ \/ From(TTY, "recv") /\ UNCHANGED child
       \/ From(TTY, "handle") /\ ~Forwards /\ ~Starts /\ child' = ChildAfter(msg[TTY])
       \/ From(TTY, "answered")
          /\ child' = IF msg[TTY].pid = NO_TASK THEN child ELSE msg[TTY].pid
    /\ Goto(TTY, "handle")
    /\ Receive(TTY, ANY)
    /\ UNCHANGED <<keyVars, memVars>>

TtyForward == /\ From(TTY, "handle") /\ Forwards /\ Goto(TTY, "recv")
              /\ Send(TTY, child, Msg(TTY, msg[TTY].what, NO_TASK))
              /\ UNCHANGED <<keyVars, child, memVars>>

TtyStart == /\ From(TTY, "handle") /\ Starts /\ Goto(TTY, "started")
            /\ Send(TTY, MM, Msg(TTY, "execute", NO_TASK))
            /\ UNCHANGED <<keyVars, child, memVars>>

TtyStarted == /\ From(TTY, "started") /\ Goto(TTY, "answered")
              /\ Receive(TTY, MM)
              /\ UNCHANGED <<keyVars, child, memVars>>

\* The file system server answers whoever asks.
FsReceive == /\ From(FS, "recv") /\ Goto(FS, "answer")
             /\ Receive(FS, ANY)
             /\ UNCHANGED <<keyVars, child, memVars>>

\* Mutant: a request is served and not answered.
FsKeepsQuiet == /\ From(FS, "answer") /\ Goto(FS, "recv")
                /\ UNCHANGED <<ipcVars, keyVars, child, memVars>>

FsAnswer == /\ From(FS, "answer") /\ Goto(FS, "recv")
            /\ Send(FS, msg[FS].source, Msg(FS, "file", NO_TASK))
            /\ UNCHANGED <<keyVars, child, memVars>>

-----------------------------------------------------------------------------
(* The memory server.                                                      *)

\* get_pcb(): the first PCB that is not in use.
Unused == {i \in DOMAIN Slots : ~used[Slots[i]]}

GetPcb == Slots[CHOOSE i \in Unused : \A j \in Unused : i <= j]

\* get_mem(): the first byte with a clear bit; the test of a single bit,
\* ~((1 << j) & byte), is true of every bit, so the block is that of bit 0.
PartlyFree == {i \in 0 .. Bytes - 1 :
                  \E j \in 0 .. PerByte - 1 : i * PerByte + j \notin bitmap}

GetMem == PerByte * CHOOSE i \in PartlyFree : \A j \in PartlyFree : i <= j

\* Mutant: free_mem() reads a base address that is already cleared.
FreeMemKernel(u) == bitmap \ {0}

\* free_mem(pid), by the base address in the PCB.
FreeMem(u) == bitmap \ {base[u]}

MmReceive == /\ From(MM, "recv") /\ Goto(MM, "serve")
             /\ Receive(MM, ANY)
             /\ UNCHANGED <<keyVars, child, memVars>>

\* execute(), up to read_elf()'s request to the file system.  get_pcb()'s -1
\* becomes an unsigned number: the test for it fails and the PCB pointer is
\* wild.  With no memory the PCB stays taken.
MmExecute ==
    /\ From(MM, "serve") /\ msg[MM].what = "execute"
    /\ LET src == msg[MM].source
           stays == UNCHANGED <<s, st, msg>>
       IN  IF Unused = {}
           THEN kernel' = "fault" /\ stays /\ UNCHANGED <<pc, used, bitmap, job>>
           ELSE /\ used' = [used EXCEPT ![GetPcb] = TRUE]
                /\ IF PartlyFree = {}
                   THEN /\ job' = [src |-> src, pid |-> NO_TASK, block |-> 0]
                        /\ Goto(MM, "answer")
                        /\ stays /\ UNCHANGED <<kernel, bitmap>>
                   ELSE /\ bitmap' = bitmap \cup {GetMem}
                        /\ job' = [src |-> src, pid |-> GetPcb, block |-> GetMem]
                        /\ Goto(MM, "reading")
                        /\ Send(MM, FS, Msg(MM, "read", NO_TASK))
    /\ UNCHANGED <<keyVars, child, base>>

MmReading == /\ From(MM, "reading") /\ Goto(MM, "load")
             /\ Receive(MM, FS)
             /\ UNCHANGED <<keyVars, child, memVars>>

\* set_pcb(), replace_elf() and shedule_pcb()
MmLoad == /\ From(MM, "load")
          /\ pc' = [pc EXCEPT ![MM] = "answer", ![job.pid] = "recv"]
          /\ base' = [base EXCEPT ![job.pid] = job.block]
          /\ st' = [st EXCEPT ![job.pid] = Run]
          /\ Relinked(PEnqueue(s, job.pid))
          /\ UNCHANGED <<msg, keyVars, child, used, bitmap, job>>

\* exit(): free_pcb() and free_mem()
MmExit ==
    LET u == msg[MM].pid
    IN  /\ From(MM, "serve") /\ msg[MM].what = "exit" /\ Goto(MM, "answer")
        /\ used' = [used EXCEPT ![u] = FALSE]
        /\ RelinkedFor(PDequeue(s, u), used')
        /\ bitmap' = FreeMem(u)
        /\ job' = [job EXCEPT !.src = msg[MM].source, !.pid = NO_TASK]
        /\ UNCHANGED <<st, msg, keyVars, child, base>>

MmAnswer == /\ From(MM, "answer") /\ Goto(MM, "recv")
            /\ Send(MM, job.src, Msg(MM, "answer", job.pid))
            /\ UNCHANGED <<keyVars, child, memVars>>

-----------------------------------------------------------------------------
(* A program: the message loop and snake_exit() of snake.c.                *)

Leaves(u) == pc[u] = "handle" /\ msg[u].what = "shift"

ProgReceive(u) ==
    /\ \/ From(u, "recv")
       \/ From(u, "handle") /\ ~Leaves(u)
    /\ Goto(u, "handle")
    /\ Receive(u, ANY)
    /\ UNCHANGED <<keyVars, child, memVars>>

ProgTell(u) == /\ From(u, "handle") /\ Leaves(u) /\ Goto(u, "exit")
               /\ Send(u, TTY, Msg(u, "exit", u))
               /\ UNCHANGED <<keyVars, child, memVars>>

ProgExit(u) == /\ From(u, "exit") /\ Goto(u, "last")
               /\ Send(u, MM, Msg(u, "exit", u))
               /\ UNCHANGED <<keyVars, child, memVars>>

ProgLast(u) == /\ From(u, "last") /\ Goto(u, "spin")
               /\ Receive(u, MM)
               /\ UNCHANGED <<keyVars, child, memVars>>

-----------------------------------------------------------------------------

Step(p) ==
    \/ p = INPUT /\ (InputReceive \/ InputDrain)
    \/ p = TTY /\ (TtyReceive \/ TtyForward \/ TtyStart \/ TtyStarted)
    \/ p = FS /\ (FsReceive \/ FsAnswer)
    \/ p = MM /\ (MmReceive \/ MmExecute \/ MmReading \/ MmLoad \/ MmExit \/ MmAnswer)
    \/ p \in Programs /\ (ProgReceive(p) \/ ProgTell(p) \/ ProgExit(p) \/ ProgLast(p))

Next == Preempt \/ Key \/ (\E p \in Procs : Step(p))

\* Nobody but the process that runs can run.
Alone == PauseEmpty(s) /\ (EmptyRuns(s) \/ ReadyOneLeft(s))

\* The clock goes on ticking, and a slice is long enough for a server that gets
\* the processor again and again to make its next step: WF(Preempt) while
\* there is somebody to switch to and SF(Step(p)), with ENABLED written out.
\* INPUT and the programs may stop.
Ticks == []<>(kernel # "run" \/ Alone) \/ []<><<Preempt>>_vars

Spec == /\ Init /\ [][Next]_vars /\ Ticks
        /\ \A p \in {TTY, FS, MM} :
               []<>(kernel = "run" /\ s.ready = p) => []<><<Step(p)>>_vars

-----------------------------------------------------------------------------
(* Properties.                                                             *)

\* Queues, ring, child_pid and the allocation tables keep to their ranges.
TypeOK ==
    /\ s \in ListState
    /\ kernel \in {"run", "hang", "fault", "broken", "stray"}
    /\ \A p \in Procs : /\ st[p].op \in {"run", "send", "recv"}
                        /\ msg[p].source \in Procs \cup {NO_TASK}
    /\ ring \in Seq(Keys) /\ pend \in BOOLEAN /\ typed \in 0 .. Len(Script)
    /\ child \in Programs \cup {NO_TASK}
    /\ used \in [Programs -> BOOLEAN]
    /\ bitmap \subseteq Blocks /\ base \in [Programs -> Blocks]

\* The programs that execute() has finished loading and exit() not yet ended.
Loaded ==
    {u \in Programs :
        used[u] /\ ~(pc[MM] \in {"reading", "load"} /\ job.pid = u)}

\* The terminal passes keys on to child_pid: a PCB in use, unless the exit
\* message of that very program is the one the terminal is about to handle.
ChildLives ==
    child # NO_TASK =>
        \/ used[child]
        \/ pc[TTY] = "handle" /\ st[TTY] = Run /\ msg[TTY].source = child

\* The lists agree with the rendezvous: a server or a loaded program is in
\* the wait queue exactly while its send or receive is not answered.
BlockedAreWaiting ==
    kernel = "run" =>
        \A p \in Servers \cup Loaded :
            p \in OnChain(s, s.wait, WaitTail) <=> st[p].op # "run"

\* The blocks marked beyond the kernel's own are those of the loaded programs and
\* of the one being loaded.
MemoryAccounted ==
    bitmap \ Reserved =
        {base[u] : u \in Loaded}
        \cup (IF pc[MM] \in {"reading", "load"} THEN {job.block} ELSE {})

\* Two loaded programs never share a block of memory.
BlocksDisjoint == \A u, v \in Loaded : u # v => base[u] # base[v]

\* As long as no two programs share a block, execute() and exit() neither lose
\* a block nor free one that is in use.  (get_mem() does let two share one, and
\* then the exit of either frees it under the other.)
BlocksAccounted ==
    /\ MemoryAccounted
    /\ [][BlocksDisjoint /\ MemoryAccounted => MemoryAccounted']_vars

\* exit() ends the program that asked for it: its PCB, no longer in use, is
\* put into no queue again.
ExitedStaysOut == kernel # "stray"

\* Typing to a program, and its exit, never make the kernel stop at a send
\* that could not end.
NeverHangs == kernel # "hang"

\* The memory server is blocked sending the answer of exit() to the program
\* that exit() has ended, and that will never receive.
AnswersTheDead ==
    st[MM].op = "send" /\ st[MM].peer \in Programs /\ ~used[st[MM].peer]

\* The memory server answers every request to run a program, or is blocked for
\* good in the answer to an exit: nothing else keeps the terminal waiting.
RunAnswered ==
    pc[TTY] = "started"
        ~> (pc[TTY] = "handle" \/ kernel # "run" \/ AnswersTheDead)
=============================================================================
