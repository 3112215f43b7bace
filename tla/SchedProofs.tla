----------------------------- MODULE SchedProofs -----------------------------
(***************************************************************************)
(* The scheduler's invariants, for any PCB stack, priorities and tasks.    *)
(***************************************************************************)
EXTENDS Sched, QueueProofs

IInv == WellFormed(q) /\ SlicesAhead(q) /\ clk \in BOOLEAN

-----------------------------------------------------------------------------
(* Time slices.                                                            *)

\* After schedule() the whole ready queue has full slices.
LEMMA ScheduleSlices ==
    ASSUME NEW r, Partitioned(r), SlicesAhead(r)
    PROVE  FullSlices(Schedule(r), Range(Schedule(r).ready))
<1>1. r \in QueueState
  BY DEF Partitioned
<1>2. ASSUME NEW x, Partitioned(x) PROVE FullSlices(Refill(x), Range(Refill(x).ready))
  <2> DEFINE f == [p \in Procs |-> IF p \in Range(x.pause) THEN Priority[p] ELSE x.ticks[p]]
  <2>1. x \in QueueState /\ Range(x.pause) \subseteq Procs
    BY <1>2, Fields DEF Partitioned
  <2>2. Refill(x).ready = x.pause /\ Refill(x).ticks = f
    BY <2>1 DEF Refill, QueueState
  <2> QED  BY <2>1, <2>2 DEF FullSlices
<1>3. CASE Idle(r) /\ r.pause = <<>>
  BY <1>1, <1>3, Fields DEF Schedule, FullSlices
<1>4. CASE Idle(r) /\ r.pause # <<>>
  BY <1>2, <1>4 DEF Schedule
<1>5. CASE ~Idle(r) /\ Len(r.ready) = 1
  BY <1>2, <1>5, ParkLemma DEF Schedule
<1>6. CASE ~Idle(r) /\ Len(r.ready) # 1
  <2>1. Schedule(r) = Park(r)
    BY <1>6 DEF Schedule
  <2>2. Range(Tail(r.ready)) = Range(r.ready) \ {Current(r)}
    BY <1>1, <1>6, Fields, TailLemma DEF Partitioned, NoRepeats, Current, Idle
  <2> QED  BY <1>6, <2>1, <2>2, ParkLemma DEF FullSlices, SlicesAhead
<1> QED  BY <1>3, <1>4, <1>5, <1>6

LEMMA ChargeSlices ==
    ASSUME NEW r, WellFormed(r), SlicesAhead(r)
    PROVE  SlicesAhead(Charge(r))
<1>1. r \in QueueState
  BY DEF WellFormed
<1>2. CASE Idle(r)
  BY <1>2 DEF Charge
<1>3. CASE ~Idle(r)
  <2>1. r.ticks \in [Procs -> Int] /\ Range(r.ready) \subseteq Procs
    BY <1>1, Fields
  <2> DEFINE f == [r.ticks EXCEPT ![Current(r)] = @ - 1]
  <2>2. Charge(r).ticks = f /\ Charge(r).ready = r.ready
    BY <1>1, <1>3 DEF Charge, QueueState
  <2>3. \A p \in Range(r.ready) \ {Current(r)} : f[p] = r.ticks[p]
    BY <2>1
  <2> HIDE DEF f
  <2> QED  BY <1>3, <2>2, <2>3 DEF SlicesAhead, FullSlices, Idle, Current
<1> QED  BY <1>2, <1>3

LEMMA ExpireSlices ==
    ASSUME NEW r, WellFormed(r), SlicesAhead(r)
    PROVE  SlicesAhead(Expire(r))
BY ScheduleSlices DEF Expire, WellFormed, Partitioned, SlicesAhead, FullSlices

LEMMA BlockSlices ==
    ASSUME NEW r, WellFormed(r), SlicesAhead(r), ~Idle(r)
    PROVE  SlicesAhead(Block(r))
<1> DEFINE b == [r EXCEPT !.ready = Tail(@), !.wait = Append(@, Current(r))]
<1>1. r \in QueueState
  BY DEF WellFormed
<1>2. Block(r) = IF Idle(b) THEN Schedule(b) ELSE b
  BY DEF Block
<1>3. /\ b.ready = Tail(r.ready) /\ b.ticks = r.ticks /\ b.pause = r.pause
      /\ Range(b.ready) = Range(r.ready) \ {Current(r)}
  BY <1>1, Fields, TailLemma DEF QueueState, WellFormed, NoRepeats, Current, Idle
<1>4. Partitioned(b)
  <2> DEFINE w == Append(r.wait, Current(r))
             t == Tail(r.ready)
  <2>1. /\ t \in Seq(Procs) /\ IsInjective(t) /\ Current(r) \in Procs
        /\ Current(r) \in Range(r.ready)
    BY <1>1, Fields, TailLemma DEF WellFormed, NoRepeats, Current, Idle
  <2>2. w \in Seq(Procs) /\ IsInjective(w) /\ Range(w) = Range(r.wait) \cup {Current(r)}
    BY <1>1, <2>1, Fields, AppendLemma DEF WellFormed, NoRepeats, Disjoint
  <2>3. b.wait = w /\ b \in QueueState
    BY <1>1, <2>1, <2>2 DEF QueueState
  <2> HIDE DEF b, w, t
  <2> QED
    BY <1>3, <2>1, <2>2, <2>3 DEF Partitioned, WellFormed, Disjoint, NoRepeats, t
<1> HIDE DEF b
<1>5. CASE Idle(b)
  BY <1>2, <1>4, <1>5, ScheduleSlices DEF SlicesAhead, FullSlices
<1>6. CASE ~Idle(b)
  BY <1>2, <1>3, <1>6 DEF SlicesAhead, FullSlices
<1> QED  BY <1>5, <1>6

LEMMA WakeSlices ==
    ASSUME NEW r, WellFormed(r), SlicesAhead(r), NEW p \in Range(r.wait)
    PROVE  SlicesAhead(Wake(r, p)) /\ SlicesAhead(Unblock(r, p))
<1> DEFINE u == Unblock(r, p)
<1>1. Partitioned(u) /\ u.ready = r.ready
  BY UnblockLemma DEF WellFormed, Partitioned
<1>2. u.ticks = r.ticks
  BY DEF Unblock, WellFormed, QueueState
<1>3. Wake(r, p) = IF Idle(u) THEN Schedule(u) ELSE u
  BY DEF Wake
<1> HIDE DEF u
<1>4. SlicesAhead(u)
  BY <1>1, <1>2 DEF SlicesAhead, FullSlices, Idle, Current
<1>5. SlicesAhead(Wake(r, p))
  BY <1>1, <1>3, <1>4, ScheduleSlices DEF SlicesAhead, FullSlices
<1> QED  BY <1>4, <1>5 DEF u

LEMMA SpawnExitSlices ==
    ASSUME NEW r, WellFormed(r), SlicesAhead(r), ~Idle(r), NEW p \in Procs
    PROVE  /\ p \notin Queued(r) => SlicesAhead(Enqueue(r, p))
           /\ p # Current(r) => SlicesAhead(Dequeue(r, p))
<1>1. /\ r \in QueueState /\ r.ticks \in [Procs -> Int] /\ r.ready \in Seq(Procs)
      /\ Range(r.ready) \subseteq Procs
  BY Fields DEF WellFormed
<1>2. ASSUME p \notin Queued(r) PROVE SlicesAhead(Enqueue(r, p))
  <2> DEFINE f == [r.ticks EXCEPT ![p] = Priority[p]]
  <2>1. Enqueue(r, p).ready = r.ready /\ Enqueue(r, p).ticks = f
    BY <1>1 DEF Enqueue, QueueState
  <2>2. \A x \in Range(r.ready) : f[x] = r.ticks[x]
    BY <1>1, <1>2 DEF Queued, Runnable
  <2> HIDE DEF f
  <2> QED  BY <2>1, <2>2 DEF SlicesAhead, FullSlices, Idle, Current
<1>3. ASSUME p # Current(r) PROVE SlicesAhead(Dequeue(r, p))
  <2> DEFINE t == RemoveFirst(r.ready, p)
  <2>1. Dequeue(r, p).ready = t /\ Dequeue(r, p).ticks = r.ticks
    BY <1>1 DEF Dequeue, QueueState
  <2>2. Range(t) = Range(r.ready) \ {p} /\ Head(t) = Current(r)
    BY <1>1, <1>3, RemoveLemma DEF WellFormed, NoRepeats, Current, Idle
  <2> HIDE DEF t
  <2> QED  BY <2>1, <2>2 DEF SlicesAhead, FullSlices, Idle, Current
<1> QED  BY <1>2, <1>3

-----------------------------------------------------------------------------
(* The invariant.                                                          *)

LEMMA InitInv == Init => IInv
<1> SUFFICES ASSUME Init PROVE IInv
  OBVIOUS
<1>1. /\ q.ready = Boot /\ q.pause = <<>> /\ q.wait = <<>> /\ q.ticks = Priority
      /\ q \in QueueState
  BY BootAssumption, PriorityAssumption, EmptySeq DEF Init, QueueState
<1>2. Range(<<>>) = {} /\ IsInjective(<<>>)
  BY EmptySeq, LenProperties DEF Range, IsInjective
<1>3. WellFormed(q)
  BY <1>1, <1>2, BootAssumption DEF WellFormed, Disjoint, NoRepeats, WorkConserving
<1>4. SlicesAhead(q)
  BY <1>1 DEF SlicesAhead, FullSlices
<1> QED  BY <1>3, <1>4 DEF Init, IInv

LEMMA StepInv == IInv /\ [Next]_vars => IInv'
<1> SUFFICES ASSUME IInv, [Next]_vars PROVE IInv'
  OBVIOUS
<1> USE DEF IInv
<1>1. CASE ClockBegin
  BY <1>1, ChargeLemma, ChargeSlices DEF ClockBegin
<1>2. CASE ClockEnd
  BY <1>2, ExpireLemma, ExpireSlices DEF ClockEnd
<1>3. CASE ClockNested
  BY <1>3, ChargeLemma, ChargeSlices DEF ClockNested
<1>4. CASE BlockCurrent
  BY <1>4, BlockLemma, BlockSlices DEF BlockCurrent
<1>5. ASSUME NEW p \in Procs, WakeUp(p) PROVE IInv'
  BY <1>5, WakeLemma, WakeSlices DEF WakeUp
<1>6. ASSUME NEW p \in Procs, Spawn(p) PROVE IInv'
  BY <1>6, EnqueueLemma, SpawnExitSlices DEF Spawn
<1>7. ASSUME NEW p \in Procs, Exit(p) PROVE IInv'
  BY <1>7, DequeueLemma, SpawnExitSlices DEF Exit
<1>8. CASE UNCHANGED vars
  BY <1>8 DEF vars
<1> QED
  BY <1>1, <1>2, <1>3, <1>4, <1>5, <1>6, <1>7, <1>8 DEF Next

LEMMA Inductive == Spec => []IInv
BY InitInv, StepInv, PTL DEF Spec, SafeSpec

\* The queues always hold PCBs of the stack.
THEOREM TypeCorrect == Spec => []TypeOK
<1>1. IInv => TypeOK
  BY DEF IInv, WellFormed, TypeOK
<1> QED  BY <1>1, Inductive, PTL

\* No PCB is ever linked twice, whatever blocks, wakes, starts and exits.
THEOREM PartitionHolds == Spec => []Partition
<1>1. IInv => Partition
  BY DEF IInv, WellFormed, Partition
<1> QED  BY <1>1, Inductive, PTL

\* The empty task runs only when no process can.
THEOREM WorkConservation == Spec => []NoIdleWhileRunnable
<1>1. IInv => NoIdleWhileRunnable
  BY DEF IInv, WellFormed, NoIdleWhileRunnable
<1> QED  BY <1>1, Inductive, PTL

\* A round gives every process its whole slice.
THEOREM FullRounds == Spec => []FullSliceAhead
<1>1. IInv => FullSliceAhead
  BY DEF IInv, FullSliceAhead
<1> QED  BY <1>1, Inductive, PTL

-----------------------------------------------------------------------------
(* The order of the runnable processes.                                    *)

\* Somewhere in s comes x, and somewhere behind it y.
Ahead(s, x, y) == \E i, j \in DOMAIN s : i < j /\ s[i] = x /\ s[j] = y

\* The order of a round followed by the next one.
LEMMA AheadConcat ==
    ASSUME NEW s \in Seq(Procs), NEW t \in Seq(Procs), NEW x, NEW y
    PROVE  Ahead(s \o t, x, y) <=>
              \/ Ahead(s, x, y) \/ Ahead(t, x, y)
              \/ x \in Range(s) /\ y \in Range(t)
<1> DEFINE z == s \o t
           m == Len(s)
           n == Len(t)
<1>1. /\ z \in Seq(Procs) /\ Len(z) = m + n
      /\ \A i \in 1 .. m + n : z[i] = IF i <= m THEN s[i] ELSE t[i - m]
  BY ConcatProperties
<1>2. /\ m \in Nat /\ n \in Nat /\ DOMAIN s = 1 .. m /\ DOMAIN t = 1 .. n
      /\ DOMAIN z = 1 .. m + n
  BY <1>1, LenProperties
<1> HIDE DEF z, m, n
<1>3. /\ \A i \in 1 .. m : i \in 1 .. m + n /\ z[i] = s[i]
      /\ \A i \in 1 .. n : m + i \in 1 .. m + n /\ z[m + i] = t[i]
  BY <1>1, <1>2
<1>4. ASSUME Ahead(s, x, y) PROVE Ahead(z, x, y)
  <2>1. PICK i, j \in 1 .. m : i < j /\ s[i] = x /\ s[j] = y
    BY <1>2, <1>4 DEF Ahead
  <2> QED  BY <1>2, <1>3, <2>1 DEF Ahead
<1>5. ASSUME Ahead(t, x, y) PROVE Ahead(z, x, y)
  <2>1. PICK i, j \in 1 .. n : i < j /\ t[i] = x /\ t[j] = y
    BY <1>2, <1>5 DEF Ahead
  <2>2. m + i \in 1 .. m + n /\ m + j \in 1 .. m + n /\ m + i < m + j
    BY <1>2, <2>1
  <2> QED  BY <1>2, <1>3, <2>1, <2>2 DEF Ahead
<1>6. ASSUME x \in Range(s), y \in Range(t) PROVE Ahead(z, x, y)
  <2>1. PICK i \in 1 .. m : s[i] = x
    BY <1>2, <1>6 DEF Range
  <2>2. PICK j \in 1 .. n : t[j] = y
    BY <1>2, <1>6 DEF Range
  <2>3. i \in 1 .. m + n /\ m + j \in 1 .. m + n /\ i < m + j
    BY <1>2, <2>1, <2>2
  <2> QED  BY <1>2, <1>3, <2>1, <2>2, <2>3 DEF Ahead
<1>7. ASSUME Ahead(z, x, y)
      PROVE  Ahead(s, x, y) \/ Ahead(t, x, y) \/ (x \in Range(s) /\ y \in Range(t))
  <2>1. PICK i, j \in 1 .. m + n : i < j /\ z[i] = x /\ z[j] = y
    BY <1>2, <1>7 DEF Ahead
  <2>2. CASE j <= m
    <3>1. i \in 1 .. m /\ j \in 1 .. m /\ s[i] = x /\ s[j] = y
      BY <1>1, <1>2, <2>1, <2>2
    <3> QED  BY <1>2, <2>1, <3>1 DEF Ahead
  <2>3. CASE i <= m /\ ~(j <= m)
    <3>1. i \in 1 .. m /\ s[i] = x /\ j - m \in 1 .. n /\ t[j - m] = y
      BY <1>1, <1>2, <2>1, <2>3
    <3> QED  BY <1>2, <3>1 DEF Range
  <2>4. CASE ~(i <= m) /\ ~(j <= m)
    <3>1. /\ i - m \in 1 .. n /\ t[i - m] = x /\ j - m \in 1 .. n /\ t[j - m] = y
          /\ i - m < j - m
      BY <1>1, <1>2, <2>1, <2>4
    <3> QED  BY <1>2, <3>1 DEF Ahead
  <2> QED  BY <1>2, <2>1, <2>2, <2>3, <2>4
<1> QED  BY <1>4, <1>5, <1>6, <1>7 DEF z

\* Taking the first element, or some other, keeps the order of the rest.
LEMMA AheadTail ==
    ASSUME NEW s \in Seq(Procs), s # <<>>, NEW x, NEW y, x # Head(s), Ahead(s, x, y)
    PROVE  Ahead(Tail(s), x, y)
<1>1. /\ Len(s) \in Nat /\ Head(s) = s[1] /\ DOMAIN s = 1 .. Len(s)
      /\ Tail(s) \in Seq(Procs) /\ Len(Tail(s)) = Len(s) - 1
      /\ \A i \in 1 .. Len(Tail(s)) : Tail(s)[i] = s[i + 1]
  BY HeadTailProperties, LenProperties
<1>2. DOMAIN Tail(s) = 1 .. Len(s) - 1
  BY <1>1, LenProperties
<1>3. PICK i, j \in 1 .. Len(s) : i < j /\ s[i] = x /\ s[j] = y
  BY <1>1 DEF Ahead
<1>4. i # 1
  BY <1>1, <1>3
<1>5. /\ i - 1 \in 1 .. Len(s) - 1 /\ j - 1 \in 1 .. Len(s) - 1 /\ i - 1 < j - 1
      /\ (i - 1) + 1 = i /\ (j - 1) + 1 = j
  BY <1>1, <1>3, <1>4
<1> QED  BY <1>1, <1>2, <1>3, <1>5 DEF Ahead

LEMMA AheadRemove ==
    ASSUME NEW s \in Seq(Procs), IsInjective(s), NEW e, NEW x, NEW y,
           x # e, y # e, Ahead(s, x, y)
    PROVE  Ahead(RemoveFirst(s, e), x, y)
<1>1. Len(s) \in Nat /\ DOMAIN s = 1 .. Len(s)
  BY LenProperties
<1>2. PICK i, j \in 1 .. Len(s) : i < j /\ s[i] = x /\ s[j] = y
  BY <1>1 DEF Ahead
<1>3. CASE ~ \E k \in 1 .. Len(s) : s[k] = e
  BY <1>1, <1>3 DEF RemoveFirst
<1>4. ASSUME NEW k \in 1 .. Len(s), s[k] = e PROVE Ahead(RemoveFirst(s, e), x, y)
  <2> DEFINE t == RemoveFirst(s, e)
             at(n) == IF n < k THEN n ELSE n - 1
  <2>1. /\ DOMAIN t = 1 .. Len(s) - 1
        /\ \A n \in 1 .. Len(s) - 1 : t[n] = IF n < k THEN s[n] ELSE s[n + 1]
    BY <1>4, RemoveAtLemma
  <2> HIDE DEF t
  <2>2. i # k /\ j # k
    BY <1>2, <1>4
  <2>3. ASSUME NEW n \in 1 .. Len(s), n # k
        PROVE  at(n) \in 1 .. Len(s) - 1 /\ t[at(n)] = s[n]
    <3>1. CASE n < k
      BY <1>1, <1>4, <2>1, <3>1
    <3>2. CASE ~(n < k)
      <4>1. n - 1 \in 1 .. Len(s) - 1 /\ ~(n - 1 < k) /\ (n - 1) + 1 = n
        BY <1>1, <1>4, <2>3, <3>2
      <4> QED  BY <2>1, <3>2, <4>1
    <3> QED  BY <3>1, <3>2
  <2>4. at(i) < at(j)
    BY <1>1, <1>2, <1>4, <2>2
  <2> HIDE DEF at
  <2>5. /\ at(i) \in DOMAIN t /\ at(j) \in DOMAIN t /\ t[at(i)] = x /\ t[at(j)] = y
    BY <1>2, <2>1, <2>2, <2>3
  <2> QED  BY <2>4, <2>5 DEF Ahead, t
<1> QED  BY <1>3, <1>4

\* What comes last comes behind everybody.
LEMMA AheadAppend ==
    ASSUME NEW s \in Seq(Procs), NEW e \in Procs, NEW x, NEW y
    PROVE  /\ Ahead(s, x, y) => Ahead(Append(s, e), x, y)
           /\ x \in Range(s) => Ahead(Append(s, e), x, e)
<1>1. /\ Append(s, e) \in Seq(Procs) /\ Len(Append(s, e)) = Len(s) + 1
      /\ \A i \in 1 .. Len(s) : Append(s, e)[i] = s[i]
      /\ Append(s, e)[Len(s) + 1] = e
  BY AppendProperties
<1>2. /\ Len(s) \in Nat /\ DOMAIN s = 1 .. Len(s)
      /\ DOMAIN Append(s, e) = 1 .. Len(s) + 1
  BY <1>1, LenProperties
<1>3. ASSUME Ahead(s, x, y) PROVE Ahead(Append(s, e), x, y)
  <2>1. PICK i, j \in 1 .. Len(s) : i < j /\ s[i] = x /\ s[j] = y
    BY <1>2, <1>3 DEF Ahead
  <2> QED  BY <1>1, <1>2, <2>1 DEF Ahead
<1>4. ASSUME x \in Range(s) PROVE Ahead(Append(s, e), x, e)
  <2>1. PICK i \in 1 .. Len(s) : s[i] = x
    BY <1>2, <1>4 DEF Range
  <2>2. i < Len(s) + 1 /\ i \in 1 .. Len(s) + 1 /\ Len(s) + 1 \in 1 .. Len(s) + 1
    BY <1>2, <2>1
  <2> QED  BY <1>1, <1>2, <2>1, <2>2 DEF Ahead
<1> QED  BY <1>3, <1>4

\* Before, queue by queue.
LEMMA BeforeSplit ==
    ASSUME NEW r \in QueueState, NEW x, NEW y
    PROVE  Before(r, x, y) <=>
              \/ Ahead(r.ready, x, y) \/ Ahead(r.pause, x, y)
              \/ x \in Range(r.ready) /\ y \in Range(r.pause)
<1>1. Before(r, x, y) <=> Ahead(r.ready \o r.pause, x, y)
  BY DEF Before, Order, Ahead
<1>2. r.ready \in Seq(Procs) /\ r.pause \in Seq(Procs)
  BY Fields
<1> QED  BY <1>1, <1>2, AheadConcat

-----------------------------------------------------------------------------
(* Nobody overtakes.                                                       *)

\* Two queue states between which everybody in S keeps the order.
SameOrder(r, t, S) == \A x, y \in S : Before(r, x, y) => Before(t, x, y)

\* An empty queue puts nobody ahead of anybody.
LEMMA EmptyAhead ==
    ASSUME NEW s \in Seq(Procs), s = <<>>, NEW x, NEW y
    PROVE  ~ Ahead(s, x, y) /\ Range(s) = {}
BY EmptySeq, LenProperties DEF Ahead, Range

\* The swap of the two lists moves nobody.
LEMMA RefillOrder ==
    ASSUME NEW r, Partitioned(r), Idle(r)
    PROVE  SameOrder(r, Refill(r), Procs)
<1>1. r \in QueueState /\ Partitioned(Refill(r)) /\ r.ready = <<>>
  BY RefillLemma DEF Partitioned, Idle
<1>2. Refill(r).ready = r.pause /\ Refill(r) \in QueueState
  BY <1>1 DEF Refill, QueueState, Partitioned
<1>3. r.ready \in Seq(Procs)
  BY <1>1, Fields
<1> QED  BY <1>1, <1>2, <1>3, BeforeSplit, EmptyAhead DEF SameOrder

\* A preempted process goes behind everybody.
LEMMA ParkOrder ==
    ASSUME NEW r, Partitioned(r), ~Idle(r)
    PROVE  /\ \A x \in Procs \ {Current(r)}, y \in Procs :
                 Before(r, x, y) => Before(Park(r), x, y)
           /\ \A x \in Runnable(r) \ {Current(r)} : Before(Park(r), x, Current(r))
<1> DEFINE c == Current(r)
           t == Tail(r.ready)
           z == Append(r.pause, c)
<1>1. r \in QueueState /\ r.ready # <<>> /\ r.ready \in Seq(Procs) /\ r.pause \in Seq(Procs)
  BY Fields DEF Partitioned, Idle
<1>2. /\ t \in Seq(Procs) /\ c \in Procs /\ Range(t) = Range(r.ready) \ {c}
      /\ c \in Range(r.ready)
  BY <1>1, TailLemma DEF Partitioned, NoRepeats, Current
<1>3. z \in Seq(Procs) /\ Range(z) = Range(r.pause) \cup {c}
  BY <1>1, <1>2, AppendLemma
<1>4. Park(r).ready = t /\ Park(r).pause = z /\ Park(r) \in QueueState
  <2>1. Partitioned(Park(r))
    BY ParkLemma
  <2> QED  BY <1>1, <2>1 DEF Park, Partitioned, QueueState
<1>5. ASSUME NEW x \in Procs \ {c}, NEW y PROVE Ahead(r.ready, x, y) => Ahead(t, x, y)
  BY <1>1, AheadTail DEF Current
<1>6. ASSUME NEW x, NEW y
      PROVE  /\ Ahead(r.pause, x, y) => Ahead(z, x, y)
             /\ x \in Range(r.pause) => Ahead(z, x, c)
  BY <1>1, <1>2, AheadAppend
<1> HIDE DEF c, t, z
<1>7. ASSUME NEW x \in Procs \ {c}, NEW y \in Procs, Before(r, x, y)
      PROVE  Before(Park(r), x, y)
  BY <1>1, <1>2, <1>3, <1>4, <1>5, <1>6, <1>7, BeforeSplit
<1>8. ASSUME NEW x \in Runnable(r) \ {c} PROVE Before(Park(r), x, c)
  BY <1>1, <1>2, <1>3, <1>4, <1>6, BeforeSplit DEF Runnable
<1> QED  BY <1>7, <1>8 DEF c

LEMMA ScheduleOrder ==
    ASSUME NEW r, Partitioned(r)
    PROVE  /\ Idle(r) => SameOrder(r, Schedule(r), Procs)
           /\ ~Idle(r) =>
                 /\ \A x \in Procs \ {Current(r)}, y \in Procs :
                       Before(r, x, y) => Before(Schedule(r), x, y)
                 /\ \A x \in Runnable(r) \ {Current(r)} :
                       Before(Schedule(r), x, Current(r))
<1>1. CASE Idle(r)
  BY <1>1, RefillOrder DEF Schedule, SameOrder
<1>2. CASE ~Idle(r) /\ Len(r.ready) # 1
  <2>1. Schedule(r) = Park(r)
    BY <1>2 DEF Schedule
  <2> QED  BY <1>2, <2>1, ParkOrder
<1>3. CASE ~Idle(r) /\ Len(r.ready) = 1
  <2>1. Schedule(r) = Refill(Park(r))
    BY <1>3 DEF Schedule
  <2>2. r \in QueueState /\ Range(r.ready) \subseteq Procs /\ Range(r.pause) \subseteq Procs
        /\ r.ready \in Seq(Procs) /\ r.ready # <<>>
    BY <1>3, Fields DEF Partitioned, Idle
  <2>3. Partitioned(Park(r)) /\ Park(r).ready = Tail(r.ready)
    BY <1>3, ParkLemma
  <2>4. Idle(Park(r))
    <3>1. Tail(r.ready) \in Seq(Procs) /\ Len(Tail(r.ready)) = 0
      BY <1>3, <2>2, HeadTailProperties
    <3> QED  BY <2>3, <3>1, EmptySeq DEF Idle
  <2>5. SameOrder(Park(r), Refill(Park(r)), Procs)
    BY <2>3, <2>4, RefillOrder
  <2>6. Current(r) \in Procs /\ Runnable(r) \subseteq Procs
    BY <2>2, HeadTailProperties DEF Current, Runnable
  <2> QED  BY <1>3, <2>1, <2>5, <2>6, ParkOrder DEF SameOrder
<1> QED  BY <1>1, <1>2, <1>3

\* A clock tick moves nobody.
LEMMA ChargeOrder ==
    ASSUME NEW r, WellFormed(r)
    PROVE  SameOrder(r, Charge(r), Procs)
<1>1. Charge(r).ready = r.ready /\ Charge(r).pause = r.pause
  BY DEF Charge, WellFormed, QueueState
<1> QED  BY <1>1 DEF SameOrder, Before, Order

\* block() takes the running process out of the order.
LEMMA BlockOrder ==
    ASSUME NEW r, WellFormed(r), ~Idle(r)
    PROVE  SameOrder(r, Block(r), Procs \ {Current(r)})
<1> DEFINE c == Current(r)
           t == Tail(r.ready)
           w == Append(r.wait, c)
           b == [r EXCEPT !.ready = t, !.wait = w]
<1>1. /\ r \in QueueState /\ r.ready # <<>> /\ r.ready \in Seq(Procs)
      /\ r.pause \in Seq(Procs) /\ r.wait \in Seq(Procs)
  BY Fields DEF WellFormed, Idle
<1>2. /\ t \in Seq(Procs) /\ c \in Procs /\ Range(t) = Range(r.ready) \ {c}
      /\ c \in Range(r.ready) /\ IsInjective(t)
  BY <1>1, TailLemma DEF WellFormed, NoRepeats, Current
<1>3. w \in Seq(Procs) /\ Range(w) = Range(r.wait) \cup {c} /\ IsInjective(w)
  BY <1>1, <1>2, AppendLemma DEF WellFormed, Disjoint, NoRepeats
<1>4. b.ready = t /\ b.pause = r.pause /\ b.wait = w /\ b \in QueueState
  BY <1>1, <1>2, <1>3 DEF QueueState
<1>5. ASSUME NEW x \in Procs \ {c}, NEW y PROVE Ahead(r.ready, x, y) => Ahead(t, x, y)
  BY <1>1, AheadTail DEF Current
<1>6. Block(r) = IF Idle(b) THEN Schedule(b) ELSE b
  BY DEF Block
<1> HIDE DEF c, t, w, b
<1>7. Partitioned(b)
  BY <1>2, <1>3, <1>4 DEF WellFormed, Partitioned, Disjoint, NoRepeats
<1>8. SameOrder(r, b, Procs \ {c})
  BY <1>1, <1>2, <1>4, <1>5, BeforeSplit DEF SameOrder
<1>9. Idle(b) => SameOrder(b, Schedule(b), Procs)
  BY <1>7, ScheduleOrder
<1> QED  BY <1>6, <1>8, <1>9 DEF SameOrder, c

\* Who is woken or starts comes last.
LEMMA UnblockOrder ==
    ASSUME NEW r, Partitioned(r), NEW p \in Range(r.wait)
    PROVE  SameOrder(r, Unblock(r, p), Procs)
<1>1. r \in QueueState /\ p \in Procs /\ r.pause \in Seq(Procs)
  BY Fields DEF Partitioned
<1> DEFINE z == Append(r.pause, p)
<1>2. /\ Unblock(r, p).ready = r.ready /\ Unblock(r, p).pause = z
      /\ Unblock(r, p) \in QueueState
  <2>1. Partitioned(Unblock(r, p))
    BY UnblockLemma
  <2> QED  BY <1>1, <2>1 DEF Unblock, Partitioned, QueueState
<1>3. Range(z) = Range(r.pause) \cup {p}
  BY <1>1, AppendLemma
<1>4. ASSUME NEW x, NEW y PROVE Ahead(r.pause, x, y) => Ahead(z, x, y)
  BY <1>1, AheadAppend
<1> HIDE DEF z
<1> QED  BY <1>1, <1>2, <1>3, <1>4, BeforeSplit DEF SameOrder

LEMMA WakeOrder ==
    ASSUME NEW r, WellFormed(r), NEW p \in Range(r.wait)
    PROVE  /\ SameOrder(r, Wake(r, p), Procs)
           /\ ~Idle(r) => Wake(r, p).ready = r.ready
<1> DEFINE u == Unblock(r, p)
<1>1. Partitioned(r)
  BY DEF Partitioned, WellFormed
<1>2. Partitioned(u) /\ u.ready = r.ready /\ SameOrder(r, u, Procs)
  BY <1>1, UnblockLemma, UnblockOrder
<1>3. Wake(r, p) = IF Idle(u) THEN Schedule(u) ELSE u
  BY DEF Wake
<1> HIDE DEF u
<1>4. Idle(u) => SameOrder(u, Schedule(u), Procs)
  BY <1>2, ScheduleOrder
<1> QED  BY <1>2, <1>3, <1>4 DEF SameOrder, Idle

LEMMA EnqueueOrder ==
    ASSUME NEW r, WellFormed(r), ~Idle(r), NEW p \in Procs, p \notin Queued(r)
    PROVE  SameOrder(r, Enqueue(r, p), Procs) /\ Enqueue(r, p).ready = r.ready
<1>1. r \in QueueState /\ r.pause \in Seq(Procs) /\ Enqueue(r, p) \in QueueState
  BY Fields, EnqueueLemma DEF WellFormed
<1> DEFINE z == Append(r.pause, p)
<1>2. Enqueue(r, p).ready = r.ready /\ Enqueue(r, p).pause = z
  BY <1>1 DEF Enqueue, QueueState
<1>3. Range(z) = Range(r.pause) \cup {p}
  BY <1>1, AppendLemma
<1>4. ASSUME NEW x, NEW y PROVE Ahead(r.pause, x, y) => Ahead(z, x, y)
  BY <1>1, AheadAppend
<1> HIDE DEF z
<1> QED  BY <1>1, <1>2, <1>3, <1>4, BeforeSplit DEF SameOrder

\* Who exits leaves the order of the others alone.
LEMMA DequeueOrder ==
    ASSUME NEW r, WellFormed(r), ~Idle(r), NEW p, p # Current(r)
    PROVE  /\ SameOrder(r, Dequeue(r, p), Procs \ {p})
           /\ Current(Dequeue(r, p)) = Current(r)
<1> DEFINE s == RemoveFirst(r.ready, p)
           z == RemoveFirst(r.pause, p)
<1>1. /\ r \in QueueState /\ r.ready \in Seq(Procs) /\ r.pause \in Seq(Procs)
      /\ r.ready # <<>> /\ IsInjective(r.ready) /\ IsInjective(r.pause)
  BY Fields DEF WellFormed, NoRepeats, Idle
<1>2. /\ Range(s) = Range(r.ready) \ {p} /\ Range(z) = Range(r.pause) \ {p}
      /\ Head(s) = Head(r.ready)
  BY <1>1, RemoveLemma DEF Current
<1>3. ASSUME NEW x, NEW y, x # p, y # p
      PROVE  /\ Ahead(r.ready, x, y) => Ahead(s, x, y)
             /\ Ahead(r.pause, x, y) => Ahead(z, x, y)
  BY <1>1, <1>3, AheadRemove
<1>4. /\ Dequeue(r, p).ready = s /\ Dequeue(r, p).pause = z
      /\ Dequeue(r, p) \in QueueState
  <2>1. Dequeue(r, p) \in QueueState
    BY DequeueLemma DEF WellFormed
  <2> QED  BY <1>1, <2>1 DEF Dequeue, QueueState
<1> HIDE DEF s, z
<1>5. SameOrder(r, Dequeue(r, p), Procs \ {p})
  BY <1>1, <1>2, <1>3, <1>4, BeforeSplit DEF SameOrder
<1> QED  BY <1>2, <1>4, <1>5 DEF Current

\* What NoOvertaking says of a step from r to t.
Orderly(r, t) ==
    /\ \A x, y \in Runnable(r) \cap Runnable(t) :
          Before(r, x, y) /\ ~Before(t, x, y) => Running(r, x)
    /\ (~Idle(r) /\ ~Idle(t) /\ Current(t) # Current(r)) =>
          \/ Current(r) \notin Runnable(t)
          \/ \A x \in Runnable(r) \cap Runnable(t) :
                x = Current(r) \/ Before(t, x, Current(r))

LEMMA OrderlyStep ==
    ASSUME IInv, [Next]_vars
    PROVE  Orderly(q, q')
<1>1. /\ WellFormed(q) /\ Partitioned(q) /\ Runnable(q) \subseteq Procs
  BY Fields DEF IInv, WellFormed, Partitioned, Runnable
\* A step that moves nobody among S, and keeps the running process if it is
\* in S.
<1>2. ASSUME NEW S, SameOrder(q, q', S), Runnable(q) \cap Runnable(q') \subseteq S,
             ~Idle(q) => Current(q) \notin Runnable(q') \/ Current(q') = Current(q)
      PROVE  Orderly(q, q')
  BY <1>2 DEF SameOrder, Orderly
<1>3. CASE ClockBegin \/ ClockNested
  BY <1>1, <1>2, <1>3, ChargeOrder, ChargeLemma DEF ClockBegin, ClockNested, Current
<1>4. CASE ClockEnd
  <2>1. CASE q' = q
    BY <1>1, <1>2, <2>1 DEF SameOrder
  <2>2. CASE q' = Schedule(q)
    BY <1>1, <2>2, ScheduleOrder DEF Orderly, SameOrder, Running
  <2> QED  BY <1>4, <2>1, <2>2 DEF ClockEnd, Expire
<1>5. CASE BlockCurrent
  <2>1. /\ SameOrder(q, q', Procs \ {Current(q)}) /\ ~Idle(q)
        /\ Runnable(q') = Runnable(q) \ {Current(q)}
    BY <1>1, <1>5, BlockOrder, BlockLemma DEF BlockCurrent
  <2> QED  BY <1>1, <1>2, <2>1
<1>6. ASSUME NEW p \in Procs, WakeUp(p) PROVE Orderly(q, q')
  BY <1>1, <1>2, <1>6, WakeOrder DEF WakeUp, Current
<1>7. ASSUME NEW p \in Procs, Spawn(p) PROVE Orderly(q, q')
  BY <1>1, <1>2, <1>7, EnqueueOrder DEF Spawn, Current
<1>8. ASSUME NEW p \in Procs, Exit(p) PROVE Orderly(q, q')
  <2>1. /\ SameOrder(q, q', Procs \ {p}) /\ Current(q') = Current(q)
        /\ Runnable(q') \subseteq Queued(q) \ {p}
    BY <1>1, <1>8, DequeueOrder, DequeueLemma DEF Exit, Queued
  <2> QED  BY <1>1, <1>2, <2>1
<1>9. CASE UNCHANGED vars
  BY <1>1, <1>2, <1>9 DEF SameOrder, vars
<1> QED
  BY <1>3, <1>4, <1>5, <1>6, <1>7, <1>8, <1>9 DEF Next

\* Two runnable processes keep their order until the one ahead runs, and a
\* process that loses the processor goes behind everybody.
THEOREM FifoRounds == Spec => NoOvertaking
<1>1. IInv /\ [Next]_vars =>
         [ /\ \A p, r \in Runnable(q) \cap Runnable(q)' :
                Before(q, p, r) /\ ~Before(q', p, r) => Running(q, p)
           /\ (~Idle(q) /\ ~Idle(q') /\ Current(q') # Current(q)) =>
                \/ Current(q) \notin Runnable(q)'
                \/ \A r \in Runnable(q) \cap Runnable(q)' :
                       r = Current(q) \/ Before(q', r, Current(q)) ]_vars
  BY OrderlyStep DEF Orderly, Runnable
<1> QED  BY <1>1, Inductive, PTL DEF Spec, SafeSpec, NoOvertaking
=============================================================================
