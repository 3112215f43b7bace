------------------------------ MODULE ProcQueues ------------------------------
(***************************************************************************)
(* The three process queues of the kernel as sequences, and the functions  *)
(* of irqhandler.c, ipc.c and memory.c that move a PCB between them:       *)
(*                                                                         *)
(*   ready   the current round; its head is the process that runs, and an  *)
(*           empty sequence means that the empty task runs                 *)
(*   pause   processes that can run but wait for the next round            *)
(*   wait    processes blocked in sys_sendrec                              *)
(*                                                                         *)
(* ticks is the time slice each PCB has left.  A queue state is a record,  *)
(* so that a handler that calls several of the functions composes them.    *)
(* PcbList models the same functions on next_pcb and pre_pcb.              *)
(***************************************************************************)
EXTENDS Integers, Sequences, SequencesExt

CONSTANTS Procs,     \* the slots of PCB_stack (the empty task is not one)
          Priority   \* the priority member: ticks granted per round

ASSUME PriorityAssumption == Priority \in [Procs -> Nat \ {0}]

QueueState == [ready : Seq(Procs), pause : Seq(Procs), wait : Seq(Procs),
               ticks : [Procs -> Int]]

Idle(q) == q.ready = <<>>

Current(q) == Head(q.ready)

Running(q, p) == ~Idle(q) /\ Current(q) = p

Runnable(q) == Range(q.ready) \cup Range(q.pause)

Queued(q) == Runnable(q) \cup Range(q.wait)

-----------------------------------------------------------------------------
(* Mutants: what these functions could have been.                          *)

\* The swap of the two lists forgets to grant new time slices.
RefillNoTicks(q) ==
    [q EXCEPT !.ready = q.pause, !.pause = <<>>]

\* A preempted process goes to the back of the round that is running.
ScheduleSameRound(q) ==
    IF Idle(q) THEN q
    ELSE [q EXCEPT !.ready = Append(Tail(@), Current(q)),
                   !.ticks[Current(q)] = Priority[Current(q)]]

\* block() does not check whether it emptied the ready queue.
BlockNoSchedule(q) ==
    [q EXCEPT !.ready = Tail(@), !.wait = Append(@, Current(q))]

\* unblock() always detaches the head of the wait queue.
UnblockHead(q, p) ==
    [q EXCEPT !.wait = Tail(@), !.pause = Append(@, p)]

\* shedule_pcb()'s caller sets the slice from the wrong variable.
EnqueuePid(q, p) == [q EXCEPT !.pause = Append(@, p), !.ticks[p] = p]

-----------------------------------------------------------------------------
(* The scheduler.                                                          *)

\* "Refill, then swap the two lists": every paused process gets its slice
\* and the pause queue becomes the ready queue.
Refill(q) ==
    [q EXCEPT !.ready = q.pause,
              !.pause = <<>>,
              !.ticks = [p \in Procs |-> IF p \in Range(q.pause)
                                         THEN Priority[p] ELSE q.ticks[p]]]

Park(q) == [q EXCEPT !.ready = Tail(@), !.pause = Append(@, Current(q))]

\* schedule(): the three cases after "both queues empty: run the empty task",
\* which leaves the queues as they are.
Schedule(q) ==
    IF Idle(q) THEN IF q.pause = <<>> THEN q ELSE Refill(q)
    ELSE IF Len(q.ready) = 1 THEN Refill(Park(q)) ELSE Park(q)

\* block(): only ever called for the running process.
Block(q) ==
    LET b == [q EXCEPT !.ready = Tail(@), !.wait = Append(@, Current(q))]
    IN  IF Idle(b) THEN Schedule(b) ELSE b

\* unblock(p), p in the wait queue; it does not schedule.
Unblock(q, p) ==
    [q EXCEPT !.wait = RemoveFirst(@, p), !.pause = Append(@, p)]

\* shedule_pcb(): a new process starts in the pause queue, its slice full.
Enqueue(q, p) ==
    [q EXCEPT !.pause = Append(@, p), !.ticks[p] = Priority[p]]

\* free_pcb(p): the PCB leaves whichever queue it is in.
Dequeue(q, p) ==
    [q EXCEPT !.ready = RemoveFirst(@, p), !.pause = RemoveFirst(@, p),
              !.wait = RemoveFirst(@, p)]

\* The wake-up half of inform_int(): schedule only when nothing was running.
Wake(q, p) ==
    LET u == Unblock(q, p) IN IF Idle(u) THEN Schedule(u) ELSE u

\* clock_handler() charges the running process; the empty task has no slice.
Charge(q) == IF Idle(q) THEN q ELSE [q EXCEPT !.ticks[Current(q)] = @ - 1]

\* The end of clock_handler(): schedule when the slice is used up.
Expire(q) ==
    IF ~Idle(q) /\ q.ticks[Current(q)] > 0 THEN q ELSE Schedule(q)

-----------------------------------------------------------------------------
(* What the queues promise.                                                *)

Disjoint(q) ==
    /\ Range(q.ready) \cap Range(q.pause) = {}
    /\ Range(q.ready) \cap Range(q.wait) = {}
    /\ Range(q.pause) \cap Range(q.wait) = {}

NoRepeats(q) ==
    IsInjective(q.ready) /\ IsInjective(q.pause) /\ IsInjective(q.wait)

\* The processor is left to the empty task only when nobody can run.
WorkConserving(q) == Idle(q) => q.pause = <<>>

FullSlices(q, S) == \A p \in S : q.ticks[p] = Priority[p]

\* Those behind the running process in the round have their slices untouched.
SlicesAhead(q) == ~Idle(q) => FullSlices(q, Range(q.ready) \ {Current(q)})

WellFormed(q) ==
    /\ q \in QueueState
    /\ Disjoint(q)
    /\ NoRepeats(q)
    /\ WorkConserving(q)
=============================================================================
