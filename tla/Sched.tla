-------------------------------- MODULE Sched --------------------------------
(***************************************************************************)
(* What the kernel's scheduler promises: processes move between the three  *)
(* queues of ProcQueues in FIFO order, one round at a time.                *)
(*                                                                         *)
(* The steps are those of the code that touches the queues: the clock      *)
(* handler, block() at the end of a blocking sys_sendrec, the wake-up in   *)
(* inform_int() and msg_send()/msg_receive(), and the memory server's      *)
(* shedule_pcb() and free_pcb().  Who blocks, and when, is left open here; *)
(* Ipc and PcbList refine this module.                                     *)
(***************************************************************************)
EXTENDS ProcQueues

CONSTANTS Boot,         \* task_table: the processes start_proc() makes ready
          MaxOverrun    \* bound: ticks a process may run beyond its slice

ASSUME BootAssumption == Boot \in Seq(Procs) /\ Boot # <<>> /\ IsInjective(Boot)

VARIABLES q,      \* the queues and the time slices
          clk     \* clock_handler() is between its first line and its end

vars == <<q, clk>>

\* start_proc(): every task ready, in table order, with a full slice.  A PCB
\* that is not yet used keeps whatever set_pcb() will give it.
Init == /\ q = [ready |-> Boot, pause |-> <<>>, wait |-> <<>>, ticks |-> Priority]
        /\ clk = FALSE

\* The clock interrupts a process: charge it, then serve the timers.
ClockBegin == /\ ~clk
              /\ q' = Charge(q)
              /\ clk' = TRUE

\* The end of clock_handler().
ClockEnd == /\ clk
            /\ q' = Expire(q)
            /\ clk' = FALSE

\* The clock interrupts the kernel (k_reenter # 0): charge only.
ClockNested == /\ ~clk /\ ~Idle(q)
               /\ q.ticks[Current(q)] > 1 - MaxOverrun
               /\ q' = Charge(q)
               /\ UNCHANGED clk

\* The running process blocks in sys_sendrec.
BlockCurrent == /\ ~clk /\ ~Idle(q)
                /\ q' = Block(q)
                /\ UNCHANGED clk

\* A process or an interrupt handler wakes p; handlers do it inside the
\* clock handler too.
WakeUp(p) == /\ p \in Range(q.wait)
             /\ q' = Wake(q, p)
             /\ UNCHANGED clk

\* The memory server, running, adds a process (PCB slot p was unused) ...
Spawn(p) == /\ ~clk /\ ~Idle(q)
            /\ p \notin Queued(q)
            /\ q' = Enqueue(q, p)
            /\ UNCHANGED clk

\* ... or removes one, never itself.
Exit(p) == /\ ~clk /\ ~Idle(q)
           /\ p \in Queued(q) \ {Current(q)}
           /\ q' = Dequeue(q, p)
           /\ UNCHANGED clk

Next == \/ ClockBegin \/ ClockEnd \/ ClockNested \/ BlockCurrent
        \/ \E p \in Procs : WakeUp(p) \/ Spawn(p) \/ Exit(p)

SafeSpec == Init /\ [][Next]_vars

\* The timer chip never stops ticking, and its handler ends.
Spec == SafeSpec /\ WF_vars(ClockBegin) /\ WF_vars(ClockEnd)

-----------------------------------------------------------------------------
(* Properties.                                                             *)

\* Every queue holds PCBs of PCB_stack.
TypeOK == q \in QueueState /\ clk \in BOOLEAN

\* No PCB is linked twice, in two queues or in one.  Every function above
\* relinks a PCB on the assumption that it is in exactly one list.
Partition == Disjoint(q) /\ NoRepeats(q)

\* The empty task runs only when no process could: block() and inform_int()
\* are the two places that must notice.
NoIdleWhileRunnable == WorkConserving(q)

\* Whoever waits for its turn in the current round still has its full slice:
\* schedule() grants it at the swap and only the running process is charged.
FullSliceAhead == SlicesAhead(q)

Order(qq) == qq.ready \o qq.pause

Before(qq, p, r) ==
    \E i, j \in DOMAIN Order(qq) :
        i < j /\ Order(qq)[i] = p /\ Order(qq)[j] = r

\* Nobody overtakes: two runnable processes keep their order unless the one
\* ahead was running, and a preempted process goes behind everybody.
NoOvertaking ==
    [][ /\ \A p, r \in Runnable(q) \cap Runnable(q)' :
             Before(q, p, r) /\ ~Before(q', p, r) => Running(q, p)
        /\ (~Idle(q) /\ ~Idle(q') /\ Current(q') # Current(q)) =>
             \/ Current(q) \notin Runnable(q)'
             \/ \A r \in Runnable(q) \cap Runnable(q)' :
                    r = Current(q) \/ Before(q', r, Current(q))
      ]_vars

\* Every runnable process gets the processor, whatever the others do, unless
\* the memory server removes it first.
NoStarvation ==
    \A p \in Procs : p \in Runnable(q) ~> (Running(q, p) \/ p \notin Runnable(q))
=============================================================================
