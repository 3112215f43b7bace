------------------------------- MODULE PcbLinks -------------------------------
(***************************************************************************)
(* The process queues as the kernel keeps them: PCBs linked by next_pcb    *)
(* and pre_pcb, a head pointer per queue, and a sentinel PCB at the end of *)
(* each (p_proc_ready_tail, p_proc_pause_tail, p_proc_wait_tail).          *)
(*                                                                         *)
(* An empty queue has its head pointer at its own sentinel.  The pre_pcb   *)
(* of a first node and of an empty queue's sentinel are stale: the code    *)
(* never resets them, so neither does this module.  A list state is a      *)
(* record and every function of irqhandler.c, ipc.c and memory.c that      *)
(* relinks PCBs an operator on it; PcbList and Lifecycle use them.         *)
(***************************************************************************)
EXTENDS ProcQueues, FiniteSets

CONSTANTS EmptyTask,                           \* PCB_empty_task
          ReadyTail, PauseTail, WaitTail,      \* the sentinels
          Null

Sentinels == {ReadyTail, PauseTail, WaitTail}

\* PCB_stack is an array and the empty task and the sentinels are PCBs of
\* their own; none of them is the null pointer.
ASSUME LinksAssumption ==
    /\ IsFiniteSet(Procs)
    /\ ReadyTail # PauseTail /\ ReadyTail # WaitTail /\ PauseTail # WaitTail
    /\ EmptyTask \notin Sentinels
    /\ Null \notin Procs \cup Sentinels \cup {EmptyTask}
    /\ (Sentinels \cup {EmptyTask}) \cap Procs = {}

Nodes == Procs \cup Sentinels \cup {EmptyTask}

ListState == [ready : Nodes, pause : Nodes, wait : Nodes,
              next : [Nodes -> Nodes \cup {Null}],
              pre  : [Nodes -> Nodes \cup {Null}],
              ticks : [Procs -> Int]]

\* is_ready_empty, is_pause_empty, is_wait_empty, is_ready_one_left and
\* is_empty_process of irqhandler.h.
ReadyEmpty(l)   == l.ready = ReadyTail
PauseEmpty(l)   == l.pause = PauseTail
WaitEmpty(l)    == l.wait = WaitTail
ReadyOneLeft(l) == l.next[l.ready] = ReadyTail
EmptyRuns(l)    == l.ready = EmptyTask

\* The nodes from head to sentinel, in order; a list that does not reach its
\* sentinel is no sequence of PCBs at all.
Chain(l, head, sentinel) ==
    LET after == [x \in Nodes \cup {Null} |-> IF x \in Nodes THEN l.next[x] ELSE Null]
        hop[n \in 0 .. Cardinality(Procs)] ==
            IF n = 0 THEN head ELSE after[hop[n - 1]]
        ends == {n \in DOMAIN hop : hop[n] = sentinel}
    IN  IF ends = {} THEN <<Null>>
        ELSE [i \in 1 .. CHOOSE n \in ends : \A m \in ends : n <= m |-> hop[i - 1]]

OnChain(l, head, sentinel) ==
    LET chain == Chain(l, head, sentinel) IN {chain[i] : i \in DOMAIN chain}

-----------------------------------------------------------------------------
(* Mutants.                                                                *)

\* unblock() forgets the back link of the node behind the one it takes out.
UnlinkNoBack(l, p) == [l EXCEPT !.next[l.pre[p]] = l.next[p]]

\* The swap leaves the old pause list ending at the pause sentinel.
PRefillNoRetarget(l) ==
    [l EXCEPT !.ready = l.pause, !.pause = PauseTail,
              !.pre[ReadyTail] = l.pre[PauseTail],
              !.ticks = [p \in Procs |-> IF p \in OnChain(l, l.pause, PauseTail)
                                         THEN Priority[p] ELSE l.ticks[p]]]

-----------------------------------------------------------------------------
(* Linking and unlinking.                                                  *)

\* Append p to a nonempty queue.
LinkLast(l, p, sentinel) ==
    [l EXCEPT !.pre[p] = l.pre[sentinel], !.next[p] = sentinel,
              !.next[l.pre[sentinel]] = p, !.pre[sentinel] = p]

\* Append p to the pause queue, the code that schedule(), unblock() and
\* shedule_pcb() repeat.
ToPause(l, p) ==
    IF PauseEmpty(l)
    THEN [l EXCEPT !.pause = p, !.pre[PauseTail] = p, !.next[p] = PauseTail]
    ELSE LinkLast(l, p, PauseTail)

ToWait(l, p) ==
    IF WaitEmpty(l)
    THEN [l EXCEPT !.wait = p, !.next[p] = WaitTail, !.pre[WaitTail] = p]
    ELSE LinkLast(l, p, WaitTail)

\* Take a node that is not the first out of its list.
Unlink(l, p) ==
    [l EXCEPT !.next[l.pre[p]] = l.next[p], !.pre[l.next[p]] = l.pre[p]]

-----------------------------------------------------------------------------
(* The functions of irqhandler.c, ipc.c and memory.c.                      *)

\* start_proc(): the PCBs of the table linked in order into the ready queue,
\* the other queues empty; the other links are zero.
BootList(table) ==
    LET n == Len(table)
        inTable(x) == \E i \in 1 .. n : table[i] = x
        pos(x) == CHOOSE i \in 1 .. n : table[i] = x
    IN  [ready |-> table[1], pause |-> PauseTail, wait |-> WaitTail,
         next  |-> [x \in Nodes |-> IF inTable(x) /\ pos(x) < n THEN table[pos(x) + 1]
                                   ELSE IF inTable(x) \/ x = EmptyTask THEN ReadyTail
                                   ELSE Null],
         pre   |-> [x \in Nodes |-> IF x = ReadyTail THEN table[n]
                                   ELSE IF inTable(x) /\ pos(x) > 1
                                   THEN table[pos(x) - 1] ELSE Null],
         ticks |-> Priority]

\* "Refill the slices of the pause queue and swap the two lists."
PRefill(l) ==
    [l EXCEPT !.ready = l.pause, !.pause = PauseTail,
              !.next[l.pre[PauseTail]] = ReadyTail,
              !.pre[ReadyTail] = l.pre[PauseTail],
              !.ticks = [p \in Procs |-> IF p \in OnChain(l, l.pause, PauseTail)
                                         THEN Priority[p] ELSE l.ticks[p]]]

PSchedule(l0) ==
    LET l == IF EmptyRuns(l0) THEN [l0 EXCEPT !.ready = ReadyTail] ELSE l0
        parked == ToPause([l EXCEPT !.ready = l.next[l.ready]], l.ready)
    IN  IF ReadyEmpty(l) /\ PauseEmpty(l)
        THEN [l EXCEPT !.ready = EmptyTask, !.pre[ReadyTail] = EmptyTask]
        ELSE IF ReadyEmpty(l) THEN PRefill(l)
        ELSE IF ReadyOneLeft(l) THEN PRefill(parked)
        ELSE parked

PBlock(l) ==
    LET b == ToWait([l EXCEPT !.ready = l.next[l.ready]], l.ready)
    IN  IF ReadyEmpty(b) THEN PSchedule(b) ELSE b

PUnblock(l, p) ==
    IF l.wait = p THEN ToPause([l EXCEPT !.wait = l.next[p]], p)
                  ELSE ToPause(Unlink(l, p), p)

PWake(l, p) ==
    LET u == PUnblock(l, p) IN IF EmptyRuns(u) THEN PSchedule(u) ELSE u

PEnqueue(l, p) == [ToPause(l, p) EXCEPT !.ticks[p] = Priority[p]]

\* free_pcb(): for the head of the pause queue it is the wait queue's head
\* pointer that moves.
PDequeue(l, p) ==
    IF l.ready = p THEN [l EXCEPT !.ready = l.next[p]]
    ELSE IF l.wait = p THEN [l EXCEPT !.wait = l.next[p]]
    ELSE IF l.pause = p THEN [l EXCEPT !.wait = l.next[p]]
    ELSE Unlink(l, p)

PCharge(l) == IF EmptyRuns(l) THEN l ELSE [l EXCEPT !.ticks[l.ready] = @ - 1]

PExpire(l) ==
    IF ~EmptyRuns(l) /\ l.ticks[l.ready] > 0 THEN l ELSE PSchedule(l)

-----------------------------------------------------------------------------
(* Reading the queues back.                                                *)

\* The queues as ProcQueues has them.
ReadySeq(l) == IF EmptyRuns(l) THEN <<>> ELSE Chain(l, l.ready, ReadyTail)

Abs(l) == [ready |-> ReadySeq(l), pause |-> Chain(l, l.pause, PauseTail),
           wait |-> Chain(l, l.wait, WaitTail), ticks |-> l.ticks]

InQueue(l, p) ==
    \/ ~EmptyRuns(l) /\ p \in OnChain(l, l.ready, ReadyTail)
    \/ p \in OnChain(l, l.pause, PauseTail)
    \/ p \in OnChain(l, l.wait, WaitTail)

\* Every queue leads to its own sentinel, and the queues share no PCB.
Intact(l) ==
    LET ready == IF EmptyRuns(l) THEN {} ELSE OnChain(l, l.ready, ReadyTail)
        pause == OnChain(l, l.pause, PauseTail)
        wait  == OnChain(l, l.wait, WaitTail)
    IN  /\ ready \cup pause \cup wait \subseteq Procs
        /\ ready \cap pause = {} /\ ready \cap wait = {} /\ pause \cap wait = {}
=============================================================================
