------------------------------- MODULE PcbList -------------------------------
(***************************************************************************)
(* The scheduler on the linked lists of PcbLinks.  Chain reads a queue     *)
(* back as a sequence, and with it the module implements Sched.            *)
(***************************************************************************)
EXTENDS PcbLinks

CONSTANTS Boot, MaxOverrun,   \* as in Sched
          FreePauseHead       \* may free_pcb() meet the head of the pause queue?

\* task_table names every task once.
ASSUME ListAssumption ==
    /\ Boot \in Seq(Procs) /\ Boot # <<>>
    /\ \A i, j \in DOMAIN Boot : Boot[i] = Boot[j] => i = j
    /\ FreePauseHead \in BOOLEAN

VARIABLES s,      \* head pointers, links and time slices
          clk     \* clock_handler() is running

vars == <<s, clk>>

Init == s = BootList(Boot) /\ clk = FALSE

ClockBegin  == ~clk /\ s' = PCharge(s) /\ clk' = TRUE

ClockEnd    == clk /\ s' = PExpire(s) /\ clk' = FALSE

ClockNested == /\ ~clk /\ ~EmptyRuns(s)
               /\ s.ticks[s.ready] > 1 - MaxOverrun
               /\ s' = PCharge(s)
               /\ UNCHANGED clk

BlockCurrent == ~clk /\ ~EmptyRuns(s) /\ s' = PBlock(s) /\ UNCHANGED clk

WakeUp(p) == /\ p \in OnChain(s, s.wait, WaitTail)
             /\ s' = PWake(s, p)
             /\ UNCHANGED clk

Spawn(p)  == /\ ~clk /\ ~EmptyRuns(s) /\ ~InQueue(s, p)
             /\ s' = PEnqueue(s, p)
             /\ UNCHANGED clk

Exit(p)   == /\ ~clk /\ ~EmptyRuns(s) /\ InQueue(s, p) /\ p # s.ready
             /\ p = s.pause => FreePauseHead
             /\ s' = PDequeue(s, p)
             /\ UNCHANGED clk

Next == \/ ClockBegin \/ ClockEnd \/ ClockNested \/ BlockCurrent
        \/ \E p \in Procs : WakeUp(p) \/ Spawn(p) \/ Exit(p)

Spec == Init /\ [][Next]_vars

-----------------------------------------------------------------------------
(* Properties.                                                             *)

\* Head pointers and links of the queues point at PCBs or sentinels.
TypeOK == s \in ListState /\ clk \in BOOLEAN

\* Read back through next_pcb, the linked lists behave as Sched's sequences:
\* no function loses, repeats or reorders a PCB.
Queues == INSTANCE Sched WITH q <- Abs(s), clk <- clk
ImplementsSched == Queues!SafeSpec

\* Every back link that unblock() or free_pcb() will follow agrees with the
\* forward link, and every nonempty queue's sentinel points at the last node.
BackLinks ==
    \A x, y \in Nodes :
        /\ y = s.next[x]
        /\ InQueue(s, x)
        => s.pre[y] = x

\* free_pcb() takes the PCB out of the three queues, whichever holds it.
FreedIsUnlinked ==
    [][\A p \in Procs : Exit(p) => ~InQueue(s', p)]_vars
=============================================================================
