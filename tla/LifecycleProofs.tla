--------------------------- MODULE LifecycleProofs ---------------------------
(***************************************************************************)
(* The life of a program, on the linked lists: the queues agree with the   *)
(* rendezvous, the terminal never passes a key on to a PCB that is not in  *)
(* use, and no block of memory is lost.                                    *)
(***************************************************************************)
EXTENDS Lifecycle, QueueProofs

-----------------------------------------------------------------------------
(* A relinking leaves the links of the PCBs that are in no queue alone.    *)

Untouched(l, l1, Q) == \A x \in Procs \ Q : l1.next[x] = l.next[x]

LEMMA ToPauseTouches ==
    ASSUME NEW l, NEW r, NEW z, NEW w, Lists(l, r, z, w), NEW e \in Procs
    PROVE  Untouched(l, ToPause(l, e), Range(z) \cup {e})
<1>1. l \in ListState /\ l.next \in [Nodes -> Nodes \cup {Null}] /\ Procs \subseteq Nodes
  BY ListFacts, NodeFacts DEF Lists
<1>2. CASE PauseEmpty(l)
  <2>1. ToPause(l, e).next = [l.next EXCEPT ![e] = PauseTail]
    BY <1>1, <1>2 DEF ToPause, ListState
  <2> QED  BY <1>1, <2>1 DEF Untouched
<1>3. CASE ~PauseEmpty(l)
  <2>1. l.pre[PauseTail] \in Range(z)
    BY <1>3, ListFacts
  <2>2. ToPause(l, e).next = [l.next EXCEPT ![e] = PauseTail, ![l.pre[PauseTail]] = e]
    BY <1>1, <1>3 DEF ToPause, LinkLast, ListState
  <2> QED  BY <1>1, <2>1, <2>2 DEF Untouched
<1> QED  BY <1>2, <1>3

LEMMA ToWaitTouches ==
    ASSUME NEW l, NEW r, NEW z, NEW w, Lists(l, r, z, w), NEW e \in Procs
    PROVE  Untouched(l, ToWait(l, e), Range(w) \cup {e})
<1>1. l \in ListState /\ l.next \in [Nodes -> Nodes \cup {Null}] /\ Procs \subseteq Nodes
  BY ListFacts, NodeFacts DEF Lists
<1>2. CASE WaitEmpty(l)
  <2>1. ToWait(l, e).next = [l.next EXCEPT ![e] = WaitTail]
    BY <1>1, <1>2 DEF ToWait, ListState
  <2> QED  BY <1>1, <2>1 DEF Untouched
<1>3. CASE ~WaitEmpty(l)
  <2>1. l.pre[WaitTail] \in Range(w)
    BY <1>3, ListFacts
  <2>2. ToWait(l, e).next = [l.next EXCEPT ![e] = WaitTail, ![l.pre[WaitTail]] = e]
    BY <1>1, <1>3 DEF ToWait, LinkLast, ListState
  <2> QED  BY <1>1, <2>1, <2>2 DEF Untouched
<1> QED  BY <1>2, <1>3

LEMMA RefillTouches ==
    ASSUME NEW l, NEW z, NEW w, Lists(l, <<>>, z, w), z # <<>>
    PROVE  Untouched(l, PRefill(l), Range(z))
<1>1. l \in ListState /\ l.next \in [Nodes -> Nodes \cup {Null}] /\ Procs \subseteq Nodes
  BY ListFacts, NodeFacts DEF Lists
<1>2. l.pre[PauseTail] \in Range(z)
  BY ListFacts
<1>3. PRefill(l).next = [l.next EXCEPT ![l.pre[PauseTail]] = ReadyTail]
  BY <1>1 DEF PRefill, ListState
<1> QED  BY <1>1, <1>2, <1>3 DEF Untouched

\* Unlink() writes one link forward; the node that is taken out keeps its own.
LEMMA UnlinkNext ==
    ASSUME NEW l \in ListState, NEW e \in Procs, NEW x \in Procs
    PROVE  Unlink(l, e).next[x] = IF x = l.pre[e] THEN l.next[e] ELSE l.next[x]
<1>1. l.next \in [Nodes -> Nodes \cup {Null}] /\ Procs \subseteq Nodes
  BY NodeFacts DEF ListState
<1>2. Unlink(l, e).next = [l.next EXCEPT ![l.pre[e]] = l.next[e]]
  BY DEF Unlink, ListState
<1> QED  BY <1>1, <1>2

LEMMA UnlinkTouches ==
    ASSUME NEW l, NEW r, NEW z, NEW w, Lists(l, r, z, w),
           NEW e \in Range(r) \cup Range(z) \cup Range(w),
           e \in Range(r) => e # Head(r), e \in Range(z) => e # Head(z),
           e \in Range(w) => e # Head(w)
    PROVE  Untouched(l, Unlink(l, e), Range(r) \cup Range(z) \cup Range(w))
<1>1. l \in ListState /\ Apart(r, z, w) /\ r \in Seq(Procs) /\ z \in Seq(Procs) /\ w \in Seq(Procs)
  BY DEF Lists, Apart
<1>2. e \in Procs
  BY <1>1, SeqFacts
<1>3. /\ e \in Range(r) => l.pre[e] \in Range(r)
      /\ e \in Range(z) => l.pre[e] \in Range(z)
      /\ e \in Range(w) => l.pre[e] \in Range(w)
  BY <1>1, Neighbours DEF Lists
<1> QED  BY <1>1, <1>2, <1>3, UnlinkNext DEF Untouched

-----------------------------------------------------------------------------
(* The same for the functions of the kernel.                               *)

LEMMA QueuedLists ==
    ASSUME NEW l, NEW q, Spells(l, q)
    PROVE  /\ Lists(l, q.ready, q.pause, q.wait) /\ l \in ListState
           /\ Queued(q) = Range(q.ready) \cup Range(q.pause) \cup Range(q.wait)
           /\ Queued(q) \subseteq Procs
           /\ Idle(q) => Range(q.ready) = {}
BY SpellsFacts, SeqFacts DEF Queued, Runnable, Idle, Range

\* The running process goes to the back of another queue.
LEMMA HeadLeaves ==
    ASSUME NEW l, NEW q, Spells(l, q), ~Idle(q)
    PROVE  LET l0 == [l EXCEPT !.ready = l.next[l.ready]]
           IN  /\ Lists(l0, Tail(q.ready), q.pause, q.wait) /\ l0.next = l.next
               /\ l.ready \in Procs /\ l.ready \in Range(q.ready)
<1>1. Lists(l, q.ready, q.pause, q.wait) /\ q.ready # <<>> /\ l \in ListState
      /\ q.ready \in Seq(Procs)
  BY SpellsFacts DEF Idle
<1>2. l.ready = Head(q.ready) /\ Head(q.ready) \in Procs
  BY <1>1, ListFacts
<1>3. Head(q.ready) \in Range(q.ready)
  <2>1. IsInjective(q.ready)
    BY <1>1 DEF Lists, Apart
  <2> QED  BY <1>1, <2>1, TailLemma
<1> QED  BY <1>1, <1>2, <1>3, DropReady DEF ListState

LEMMA ScheduleTouches ==
    ASSUME NEW l, NEW q, Spells(l, q)
    PROVE  Untouched(l, PSchedule(l), Queued(q))
<1>1. CASE Idle(q)
  <2> DEFINE m == IF EmptyRuns(l) THEN [l EXCEPT !.ready = ReadyTail] ELSE l
             k == [m EXCEPT !.ready = EmptyTask, !.pre[ReadyTail] = EmptyTask]
  <2>1. l.ready \in {EmptyTask, ReadyTail} /\ l \in ListState
    BY <1>1, SpellsFacts
  <2>2. /\ m \in ListState /\ m.ready = ReadyTail /\ m.pause = l.pause /\ m.wait = l.wait
        /\ m.next = l.next /\ m.pre = l.pre /\ m.ticks = l.ticks
    BY <2>1, NodeFacts DEF EmptyRuns, ListState
  <2>3. PSchedule(l) = IF PauseEmpty(m) THEN k ELSE PRefill(m)
    BY <2>2 DEF PSchedule, ReadyEmpty
  <2>4. k.next = l.next
    BY <2>2 DEF ListState
  <2> HIDE DEF m, k
  <2>5. CASE PauseEmpty(m)
    BY <2>3, <2>4, <2>5 DEF Untouched
  <2>6. CASE ~PauseEmpty(m)
    <3>1. FirstReady(l) = ReadyTail /\ FirstReady(m) = ReadyTail
      BY <2>1, <2>2, NodeFacts DEF FirstReady, EmptyRuns
    <3>2. Lists(m, <<>>, q.pause, q.wait)
      BY <1>1, <2>2, <3>1, LinkedSame, QueuedLists DEF Lists, Idle
    <3>3. q.pause # <<>>
      BY <2>6, <3>2, ListFacts
    <3>4. Untouched(m, PRefill(m), Range(q.pause))
      BY <3>2, <3>3, RefillTouches
    <3> QED  BY <2>2, <2>3, <2>6, <3>4, QueuedLists DEF Untouched
  <2> QED  BY <2>5, <2>6
<1>2. CASE ~Idle(q)
  <2> DEFINE l0 == [l EXCEPT !.ready = l.next[l.ready]]
             parked == ToPause(l0, l.ready)
  <2>1. /\ Lists(l0, Tail(q.ready), q.pause, q.wait) /\ l0.next = l.next
        /\ l.ready \in Procs /\ l.ready \in Range(q.ready)
    BY <1>2, HeadLeaves
  <2>2. Spells(parked, Park(q)) /\ (ReadyOneLeft(l) <=> Len(q.ready) = 1)
    BY <1>2, ParkSpells
  <2>3. PSchedule(l) = IF ReadyOneLeft(l) THEN PRefill(parked) ELSE parked
    BY <1>2, SpellsFacts, NodeFacts DEF PSchedule, EmptyRuns, ReadyEmpty
  <2> HIDE DEF l0
  <2>4. Untouched(l, parked, Queued(q))
    BY <2>1, ToPauseTouches, QueuedLists DEF Untouched
  <2> HIDE DEF parked
  <2>5. CASE ReadyOneLeft(l)
    <3>1. q.ready \in Seq(Procs) /\ q.ready # <<>> /\ Len(q.ready) = 1
      BY <1>2, <2>2, <2>5, SpellsFacts DEF Idle
    <3>2. Tail(q.ready) = <<>>
      <4>1. Tail(q.ready) \in Seq(Procs) /\ Len(Tail(q.ready)) = Len(q.ready) - 1
        BY <3>1, HeadTailProperties
      <4> QED  BY <3>1, <4>1, SeqFacts
    <3>3. /\ Park(q).ready = <<>> /\ Park(q).pause = Append(q.pause, Current(q))
          /\ Park(q).wait = q.wait /\ Partitioned(q)
      BY <3>2, SpellsFacts DEF Park, QueueState
    <3>4. Range(Park(q).pause) \subseteq Queued(q) /\ Park(q).pause # <<>>
      <4>1. q.pause \in Seq(Procs) /\ Current(q) \in Procs /\ Current(q) = l.ready
        BY <1>2, SpellsFacts
      <4> QED  BY <2>1, <3>3, <4>1, AppendLemma, QueuedLists
    <3>5. Lists(parked, <<>>, Park(q).pause, Park(q).wait)
      BY <2>2, <3>3, SpellsFacts
    <3>6. Untouched(parked, PRefill(parked), Range(Park(q).pause))
      BY <3>4, <3>5, RefillTouches
    <3> QED  BY <2>3, <2>4, <2>5, <3>4, <3>6 DEF Untouched
  <2>6. CASE ~ReadyOneLeft(l)
    BY <2>3, <2>4, <2>6
  <2> QED  BY <2>5, <2>6
<1> QED  BY <1>1, <1>2

LEMMA BlockTouches ==
    ASSUME NEW l, NEW q, Settled(l, q), ~Idle(q)
    PROVE  Untouched(l, PBlock(l), Queued(q))
<1> DEFINE l0 == [l EXCEPT !.ready = l.next[l.ready]]
           b == ToWait(l0, l.ready)
           t == Tail(q.ready)
           k == [q EXCEPT !.ready = t, !.wait = Append(@, Current(q))]
<1>1. /\ Spells(l, q) /\ l.ready = Current(q) /\ q.ready \in Seq(Procs) /\ q.ready # <<>>
      /\ IsInjective(q.ready) /\ q \in QueueState /\ q.wait \in Seq(Procs) /\ Partitioned(q)
      /\ q.pause \in Seq(Procs) /\ l.ticks = q.ticks
  BY SettledFacts, SpellsFacts DEF Idle, Partitioned, NoRepeats
<1>2. /\ Lists(l0, t, q.pause, q.wait) /\ l0.next = l.next
      /\ l.ready \in Procs /\ l.ready \in Range(q.ready)
  BY <1>1, HeadLeaves
<1>3. /\ l.ready \notin Range(t) /\ l.ready \notin Range(q.pause) /\ l.ready \notin Range(q.wait)
      /\ t \in Seq(Procs) /\ Range(t) \subseteq Range(q.ready)
  BY <1>1, <1>2, TailLemma DEF Current, Partitioned, Disjoint
<1>4. l0.ticks = q.ticks
  BY <1>1, QueuedLists DEF ListState
<1> HIDE DEF l0
<1>5. Lists(b, t, q.pause, Append(q.wait, l.ready)) /\ b.ticks = q.ticks
  BY <1>2, <1>3, <1>4, ToWaitLists
<1>6. Untouched(l, b, Queued(q))
  BY <1>1, <1>2, ToWaitTouches, QueuedLists DEF Untouched
<1>7. /\ Append(q.wait, l.ready) \in Seq(Procs)
      /\ Range(Append(q.wait, l.ready)) = Range(q.wait) \cup {l.ready}
  BY <1>1, <1>2, AppendLemma
<1>8. /\ k.ready = t /\ k.pause = q.pause /\ k.wait = Append(q.wait, l.ready)
      /\ k.ticks = q.ticks /\ k \in QueueState
  BY <1>1, <1>3, <1>7 DEF QueueState
<1> HIDE DEF b, k, t
<1>9. Spells(b, k)
  BY <1>5, <1>8 DEF Spells
<1>10. Queued(k) \subseteq Queued(q)
  BY <1>1, <1>2, <1>3, <1>7, <1>8, QueuedLists DEF Queued, Runnable
<1>11. PBlock(l) = IF ReadyEmpty(b) THEN PSchedule(b) ELSE b
  BY DEF PBlock, b, l0
<1>12. Untouched(b, PSchedule(b), Queued(k))
  BY <1>9, ScheduleTouches
<1> QED  BY <1>6, <1>10, <1>11, <1>12 DEF Untouched

LEMMA UnblockTouches ==
    ASSUME NEW l, NEW q, Spells(l, q), NEW p \in Range(q.wait)
    PROVE  Untouched(l, PUnblock(l, p), Queued(q))
<1> DEFINE w == RemoveFirst(q.wait, p)
           l0 == IF l.wait = p THEN [l EXCEPT !.wait = l.next[p]] ELSE Unlink(l, p)
<1>1. /\ Lists(l, q.ready, q.pause, q.wait) /\ Partitioned(q) /\ l \in ListState
      /\ q.wait \in Seq(Procs) /\ q.ready \in Seq(Procs) /\ q.pause \in Seq(Procs)
      /\ p \in Procs /\ IsInjective(q.wait)
      /\ p \notin Range(q.ready) /\ p \notin Range(q.pause) /\ q.wait # <<>>
  <2>1. /\ Lists(l, q.ready, q.pause, q.wait) /\ Partitioned(q) /\ l \in ListState
        /\ q.wait \in Seq(Procs) /\ q.ready \in Seq(Procs) /\ q.pause \in Seq(Procs)
    BY SpellsFacts
  <2>2. p \in Procs /\ q.wait # <<>>
    BY <2>1, SeqFacts DEF Range
  <2> QED  BY <2>1, <2>2 DEF Partitioned, Disjoint, NoRepeats
<1>2. l.wait = Head(q.wait)
  BY <1>1, ListFacts
<1>3. Lists(l0, q.ready, q.pause, w) /\ Untouched(l, l0, Queued(q))
  <2>1. CASE l.wait = p
    <3>1. RemoveFirst(q.wait, p) = Tail(q.wait)
      BY <1>1, <1>2, <2>1, RemoveHead
    <3>2. l0 = [l EXCEPT !.wait = l.next[l.wait]] /\ l0.next = l.next
      BY <1>1, <2>1 DEF ListState
    <3>3. Lists(l0, q.ready, q.pause, w)
      BY <1>1, <2>1, <3>1, DropWait
    <3> QED  BY <3>2, <3>3 DEF Untouched
  <2>2. CASE l.wait # p
    <3>1. Untouched(l, Unlink(l, p), Range(q.ready) \cup Range(q.pause) \cup Range(q.wait))
      BY <1>1, <1>2, <2>2, UnlinkTouches
    <3>2. Lists(l0, q.ready, q.pause, w)
      BY <1>1, <1>2, <2>2, UnlinkLists, RemoveNone
    <3>3. l0 = Unlink(l, p)
      BY <2>2
    <3> HIDE DEF l0, w
    <3> QED  BY <1>1, <3>1, <3>2, <3>3, QueuedLists
  <2> QED  BY <2>1, <2>2
<1>4. PUnblock(l, p) = ToPause(l0, p)
  BY DEF PUnblock
<1> HIDE DEF l0, w
<1>5. Untouched(l0, PUnblock(l, p), Range(q.pause) \cup {p})
  BY <1>1, <1>3, <1>4, ToPauseTouches
<1> QED  BY <1>3, <1>5, QueuedLists DEF Untouched

LEMMA WakeTouches ==
    ASSUME NEW l, NEW q, Settled(l, q), NEW p \in Range(q.wait)
    PROVE  Untouched(l, PWake(l, p), Queued(q))
<1>1. Spells(l, q)
  BY SettledFacts
<1>2. Untouched(l, PUnblock(l, p), Queued(q)) /\ Spells(PUnblock(l, p), Unblock(q, p))
  BY <1>1, UnblockTouches, UnblockSpells
<1>3. Queued(Unblock(q, p)) = Queued(q)
  <2>1. /\ Range(Unblock(q, p).wait) = Range(q.wait) \ {p}
        /\ Runnable(Unblock(q, p)) = Runnable(q) \cup {p}
    BY <1>1, SpellsFacts, UnblockLemma
  <2> QED  BY <2>1, Zenon DEF Queued
<1>4. Untouched(PUnblock(l, p), PSchedule(PUnblock(l, p)), Queued(q))
  BY <1>2, <1>3, ScheduleTouches
<1> QED  BY <1>2, <1>4 DEF PWake, Untouched

LEMMA EnqueueTouches ==
    ASSUME NEW l, NEW q, Spells(l, q), NEW p \in Procs
    PROVE  Untouched(l, PEnqueue(l, p), Queued(q) \cup {p})
<1>1. Untouched(l, ToPause(l, p), Range(q.pause) \cup {p})
  BY QueuedLists, ToPauseTouches
<1>2. PEnqueue(l, p).next = ToPause(l, p).next
  BY QueuedLists DEF PEnqueue, ToPause, LinkLast, ListState
<1> QED  BY <1>1, <1>2, QueuedLists DEF Untouched

\* free_pcb() of neither the running process nor the head of the pause queue;
\* the PCB that leaves keeps its own link.
LEMMA DequeueTouches ==
    ASSUME NEW l, NEW q, Settled(l, q), ~Idle(q), NEW p \in Queued(q),
           p # l.ready, p # l.pause
    PROVE  Untouched(l, PDequeue(l, p), Queued(q) \ {p})
<1>1. /\ Lists(l, q.ready, q.pause, q.wait) /\ l \in ListState /\ Spells(l, q)
      /\ q.ready \in Seq(Procs) /\ q.pause \in Seq(Procs) /\ q.wait \in Seq(Procs)
      /\ q.ready # <<>> /\ p \in Procs
      /\ Queued(q) = Range(q.ready) \cup Range(q.pause) \cup Range(q.wait)
  BY SettledFacts, SpellsFacts, QueuedLists DEF Idle
<1>2. CASE l.wait = p
  <2>1. PDequeue(l, p).next = l.next
    BY <1>1, <1>2 DEF PDequeue, ListState
  <2> QED  BY <2>1 DEF Untouched
<1>3. CASE l.wait # p
  <2>1. PDequeue(l, p) = Unlink(l, p)
    BY <1>3 DEF PDequeue
  <2>2. /\ p \in Range(q.ready) => p # Head(q.ready)
        /\ p \in Range(q.pause) => p # Head(q.pause)
        /\ p \in Range(q.wait) => p # Head(q.wait)
    <3>1. /\ p \in Range(q.pause) => q.pause # <<>>
          /\ p \in Range(q.wait) => q.wait # <<>>
      BY <1>1, SeqFacts DEF Range
    <3> QED  BY <1>1, <1>3, <3>1, ListFacts
  <2>3. Untouched(l, Unlink(l, p), Queued(q))
    BY <1>1, <2>2, UnlinkTouches
  <2>4. Unlink(l, p).next[p] = l.next[p]
    BY <1>1, UnlinkNext
  <2> QED  BY <2>1, <2>3, <2>4 DEF Untouched
<1> QED  BY <1>2, <1>3

-----------------------------------------------------------------------------
(* The queues and the rendezvous.  L are the processes in the queues, f is *)
(* what each process is doing, and j the one that has exited, if any.      *)

\* The processes in the queues are L, the blocked ones in the wait queue.
Agree(l, f, L) ==
    /\ Settled(l, Abs(l)) /\ Queued(Abs(l)) = L
    /\ \A p \in L : p \in Range(Abs(l).wait) <=> f[p].op # "run"

\* Those in no queue are not blocked and do not point to the sentinel of the
\* pause queue, but for j, for which the two do not come together.
Outside(l, f, L, j) ==
    \A x \in Procs \ L :
       /\ l.next[x] # PauseTail \/ f[x].op = "run"
       /\ x # j => l.next[x] # PauseTail /\ f[x].op = "run"

Order(l, f, L, j) == Agree(l, f, L) /\ Outside(l, f, L, j)

Called(f, p, c) == [f EXCEPT ![p] = c]

LEMMA AgreeIs ==
    ASSUME NEW l, NEW q, NEW f, NEW L, Settled(l, q), Queued(q) = L,
           \A p \in L : p \in Range(q.wait) <=> f[p].op # "run"
    PROVE  Agree(l, f, L)
BY ReadBack DEF Agree

LEMMA AgreeFacts ==
    ASSUME NEW l, NEW f, NEW L, Agree(l, f, L)
    PROVE  LET q == Abs(l)
           IN  /\ Settled(l, q) /\ Spells(l, q) /\ WellFormed(q) /\ Partitioned(q)
               /\ Queued(q) = L /\ L \subseteq Procs
               /\ L = Runnable(q) \cup Range(q.wait)
               /\ Runnable(q) \cap Range(q.wait) = {}
               /\ \A p \in L : p \in Range(q.wait) <=> f[p].op # "run"
               /\ \A p \in L : p \in Runnable(q) <=> f[p].op = "run"
               /\ l.ready \in Procs => ~Idle(q) /\ l.ready = Current(q) /\ l.ready \in Runnable(q)
               /\ ~Idle(q) => l.ready \in Procs
<1> DEFINE q == Abs(l)
<1>1. /\ Settled(l, q) /\ Queued(q) = L
      /\ \A p \in L : p \in Range(q.wait) <=> f[p].op # "run"
  BY DEF Agree
<1> HIDE DEF q
<1>2. Spells(l, q) /\ WellFormed(q) /\ Partitioned(q)
  BY <1>1, SettledFacts, SpellsFacts
<1>3. L \subseteq Procs
  BY <1>1, <1>2, QueuedLists
<1>4. L = Runnable(q) \cup Range(q.wait)
  BY <1>1 DEF Queued
<1>5. Runnable(q) \cap Range(q.wait) = {}
  BY <1>2 DEF Partitioned, Disjoint, Runnable
<1>6. l.ready \in Procs => ~Idle(q) /\ l.ready = Current(q)
  BY <1>2, SpellsFacts, NodeFacts
<1>7. ~Idle(q) => l.ready \in Procs /\ l.ready \in Runnable(q)
  BY <1>2, HeadLeaves DEF Runnable
<1> QED  BY <1>1, <1>2, <1>3, <1>4, <1>5, <1>6, <1>7 DEF q

\* The process that runs is not blocked.
LEMMA RunningRuns ==
    ASSUME NEW l, NEW f, NEW L, Agree(l, f, L), l.ready \in Procs
    PROVE  l.ready \in L /\ f[l.ready].op = "run"
BY AgreeFacts

LEMMA OrderSchedule ==
    ASSUME NEW l, NEW f, NEW L, NEW j, Order(l, f, L, j)
    PROVE  Order(PSchedule(l), f, L, j)
<1> DEFINE q == Abs(l)
<1>1. /\ Settled(l, q) /\ Spells(l, q) /\ Partitioned(q) /\ Queued(q) = L
      /\ \A p \in L : p \in Range(q.wait) <=> f[p].op # "run"
  BY AgreeFacts DEF Order
<1> HIDE DEF q
<1>2. Settled(PSchedule(l), Schedule(q)) /\ SameMembers(q, Schedule(q))
  BY <1>1, ScheduleSettles, ScheduleLemma
<1>3. Agree(PSchedule(l), f, L)
  <2>1. Queued(Schedule(q)) = L /\ Range(Schedule(q).wait) = Range(q.wait)
    BY <1>1, <1>2 DEF SameMembers, Queued
  <2> QED  BY <1>1, <1>2, <2>1, AgreeIs
<1>4. Untouched(l, PSchedule(l), L)
  BY <1>1, ScheduleTouches
<1> QED  BY <1>3, <1>4 DEF Order, Outside, Untouched

\* block(): the process that runs starts to send or to receive.
LEMMA OrderBlock ==
    ASSUME NEW l, NEW f, NEW L, NEW j, Order(l, f, L, j), l.ready \in Procs,
           NEW c, c.op # "run", DOMAIN f = Procs
    PROVE  Order(PBlock(l), Called(f, l.ready, c), L, j)
<1> DEFINE q == Abs(l)
           p == l.ready
<1>1. /\ Settled(l, q) /\ WellFormed(q) /\ Queued(q) = L
      /\ L = Runnable(q) \cup Range(q.wait) /\ Runnable(q) \cap Range(q.wait) = {}
      /\ \A x \in L : x \in Range(q.wait) <=> f[x].op # "run"
      /\ ~Idle(q) /\ p = Current(q) /\ p \in Runnable(q)
  BY AgreeFacts DEF Order
<1> HIDE DEF q
<1>2. /\ Settled(PBlock(l), Block(q))
      /\ Range(Block(q).wait) = Range(q.wait) \cup {p}
      /\ Runnable(Block(q)) = Runnable(q) \ {p}
  BY <1>1, BlockSettles, BlockLemma
<1>3. /\ Called(f, p, c)[p] = c
      /\ \A x \in Procs : x # p => Called(f, p, c)[x] = f[x]
  BY DEF Called
<1> HIDE DEF p
<1>4. L \subseteq Procs
  BY AgreeFacts DEF Order
<1>5. Agree(PBlock(l), Called(f, p, c), L)
  <2>1. Queued(Block(q)) = L
    BY <1>1, <1>2 DEF Queued
  <2>2. \A x \in L : x \in Range(Block(q).wait) <=> Called(f, p, c)[x].op # "run"
    BY <1>1, <1>2, <1>3, <1>4
  <2> QED  BY <1>2, <2>1, <2>2, AgreeIs
<1>6. Untouched(l, PBlock(l), L)
  BY <1>1, BlockTouches
<1>7. Outside(PBlock(l), Called(f, p, c), L, j)
  BY <1>1, <1>3, <1>6 DEF Order, Outside, Untouched
<1> QED  BY <1>5, <1>7 DEF Order, p

\* unblock() while a process runs: the rendezvous of d ends.
LEMMA OrderUnblock ==
    ASSUME NEW l, NEW f, NEW L, NEW j, Order(l, f, L, j), l.ready \in Procs,
           NEW d \in L, f[d].op # "run", DOMAIN f = Procs
    PROVE  Order(PUnblock(l, d), Called(f, d, Run), L, j)
<1> DEFINE q == Abs(l)
<1>1. /\ Spells(l, q) /\ Partitioned(q) /\ Queued(q) = L /\ L \subseteq Procs
      /\ L = Runnable(q) \cup Range(q.wait) /\ Runnable(q) \cap Range(q.wait) = {}
      /\ \A x \in L : x \in Range(q.wait) <=> f[x].op # "run"
      /\ ~Idle(q)
  BY AgreeFacts DEF Order
<1> HIDE DEF q
<1>2. d \in Range(q.wait)
  BY <1>1
<1>3. /\ Spells(PUnblock(l, d), Unblock(q, d))
      /\ Range(Unblock(q, d).wait) = Range(q.wait) \ {d}
      /\ Runnable(Unblock(q, d)) = Runnable(q) \cup {d}
      /\ Unblock(q, d).ready = q.ready
  BY <1>1, <1>2, UnblockSpells, UnblockLemma
<1>4. Settled(PUnblock(l, d), Unblock(q, d))
  BY <1>1, <1>3 DEF Settled, WorkConserving, Idle
<1>5. /\ Called(f, d, Run)[d].op = "run"
      /\ \A x \in Procs : x # d => Called(f, d, Run)[x] = f[x]
  BY <1>1 DEF Called, Run
<1>6. Agree(PUnblock(l, d), Called(f, d, Run), L)
  <2>1. Queued(Unblock(q, d)) = L
    BY <1>1, <1>2, <1>3 DEF Queued
  <2>2. \A x \in L : x \in Range(Unblock(q, d).wait) <=> Called(f, d, Run)[x].op # "run"
    BY <1>1, <1>3, <1>5
  <2> QED  BY <1>4, <2>1, <2>2, AgreeIs
<1>7. Untouched(l, PUnblock(l, d), L)
  BY <1>1, <1>2, UnblockTouches
<1>8. Outside(PUnblock(l, d), Called(f, d, Run), L, j)
  BY <1>5, <1>7 DEF Order, Outside, Untouched
<1> QED  BY <1>6, <1>8 DEF Order

\* unblock() and, if nothing ran, schedule(): the wake-up by an interrupt.
LEMMA OrderWake ==
    ASSUME NEW l, NEW f, NEW L, NEW j, Order(l, f, L, j),
           NEW d \in L, f[d].op # "run", DOMAIN f = Procs
    PROVE  Order(PWake(l, d), Called(f, d, Run), L, j)
<1> DEFINE q == Abs(l)
<1>1. /\ Settled(l, q) /\ WellFormed(q) /\ Queued(q) = L /\ L \subseteq Procs
      /\ L = Runnable(q) \cup Range(q.wait) /\ Runnable(q) \cap Range(q.wait) = {}
      /\ \A x \in L : x \in Range(q.wait) <=> f[x].op # "run"
  BY AgreeFacts DEF Order
<1> HIDE DEF q
<1>2. d \in Range(q.wait)
  BY <1>1
<1>3. /\ Settled(PWake(l, d), Wake(q, d))
      /\ Range(Wake(q, d).wait) = Range(q.wait) \ {d}
      /\ Runnable(Wake(q, d)) = Runnable(q) \cup {d}
  BY <1>1, <1>2, WakeSettles, WakeLemma
<1>4. /\ Called(f, d, Run)[d].op = "run"
      /\ \A x \in Procs : x # d => Called(f, d, Run)[x] = f[x]
  BY <1>1 DEF Called, Run
<1>5. Agree(PWake(l, d), Called(f, d, Run), L)
  <2>1. Queued(Wake(q, d)) = L
    BY <1>1, <1>2, <1>3 DEF Queued
  <2>2. \A x \in L : x \in Range(Wake(q, d).wait) <=> Called(f, d, Run)[x].op # "run"
    BY <1>1, <1>3, <1>4
  <2> QED  BY <1>3, <2>1, <2>2, AgreeIs
<1>6. Untouched(l, PWake(l, d), L)
  BY <1>1, <1>2, WakeTouches
<1>7. Outside(PWake(l, d), Called(f, d, Run), L, j)
  BY <1>4, <1>6 DEF Order, Outside, Untouched
<1> QED  BY <1>5, <1>7 DEF Order

\* shedule_pcb(): a loaded program enters the queues.
LEMMA OrderEnqueue ==
    ASSUME NEW l, NEW f, NEW L, NEW j, Order(l, f, L, j), l.ready \in Procs,
           NEW p \in Procs, p \notin L, DOMAIN f = Procs
    PROVE  Order(PEnqueue(l, p), Called(f, p, Run), L \cup {p}, j)
<1> DEFINE q == Abs(l)
<1>1. /\ Settled(l, q) /\ Spells(l, q) /\ WellFormed(q) /\ Queued(q) = L /\ L \subseteq Procs
      /\ L = Runnable(q) \cup Range(q.wait)
      /\ \A x \in L : x \in Range(q.wait) <=> f[x].op # "run"
      /\ ~Idle(q)
  BY AgreeFacts DEF Order
<1> HIDE DEF q
<1>2. /\ Settled(PEnqueue(l, p), Enqueue(q, p)) /\ Enqueue(q, p).wait = q.wait
      /\ Runnable(Enqueue(q, p)) = Runnable(q) \cup {p}
  BY <1>1, EnqueueSettles, EnqueueLemma
<1>3. /\ Called(f, p, Run)[p].op = "run"
      /\ \A x \in Procs : x # p => Called(f, p, Run)[x] = f[x]
  BY DEF Called, Run
<1>4. Agree(PEnqueue(l, p), Called(f, p, Run), L \cup {p})
  <2>1. Queued(Enqueue(q, p)) = L \cup {p}
    BY <1>1, <1>2 DEF Queued
  <2>2. \A x \in L \cup {p} : x \in Range(Enqueue(q, p).wait) <=> Called(f, p, Run)[x].op # "run"
    BY <1>1, <1>2, <1>3
  <2> QED  BY <1>2, <2>1, <2>2, AgreeIs
<1>5. Untouched(l, PEnqueue(l, p), L \cup {p})
  BY <1>1, EnqueueTouches
<1>6. Outside(PEnqueue(l, p), Called(f, p, Run), L \cup {p}, j)
  BY <1>3, <1>5 DEF Order, Outside, Untouched
<1> QED  BY <1>4, <1>6 DEF Order

\* A link in the wait queue does not lead to the pause queue's sentinel, and in
\* the whole only the last node of the pause queue's does.
LEMMA LinksTo ==
    ASSUME NEW l, NEW r, NEW z, NEW w, Lists(l, r, z, w)
    PROVE  /\ \A x \in Range(w) \cup Range(r) : l.next[x] # PauseTail
           /\ \A x \in Range(z) : l.next[x] = PauseTail => x = l.pre[PauseTail]
<1>1. /\ r \in Seq(Procs) /\ z \in Seq(Procs) /\ w \in Seq(Procs)
      /\ Linked(l, r, FirstReady(l), ReadyTail)
      /\ Linked(l, z, l.pause, PauseTail)
      /\ Linked(l, w, l.wait, WaitTail)
  BY DEF Lists, Apart
<1>2. ASSUME NEW c \in Seq(Procs), NEW first, NEW sent, Linked(l, c, first, sent),
             NEW x \in Range(c)
      PROVE  /\ l.next[x] \in Procs \cup {sent}
             /\ sent \notin Procs /\ l.next[x] = sent => x = l.pre[sent]
  <2>1. PICK i \in 1 .. Len(c) : c[i] = x
    BY <1>2, SeqFacts DEF Range
  <2>2. Len(c) \in Nat /\ c # <<>> /\ \A k \in 1 .. Len(c) : c[k] \in Procs
    BY <1>2, <2>1, SeqFacts
  <2>3. l.next[x] = Nth(c, i + 1, sent) /\ l.pre[sent] = c[Len(c)]
    BY <1>2, <2>1, <2>2 DEF Linked
  <2>4. CASE i = Len(c)
    BY <2>1, <2>2, <2>3, <2>4 DEF Nth
  <2>5. CASE i # Len(c)
    <3>1. i + 1 \in 1 .. Len(c)
      BY <2>1, <2>2, <2>5
    <3> QED  BY <2>2, <2>3, <3>1 DEF Nth
  <2> QED  BY <2>4, <2>5
<1>3. \A x \in Range(w) : l.next[x] \in Procs \cup {WaitTail}
  BY <1>1, <1>2
<1>4. \A x \in Range(r) : l.next[x] \in Procs \cup {ReadyTail}
  BY <1>1, <1>2
<1>5. \A x \in Range(z) : l.next[x] = PauseTail => x = l.pre[PauseTail]
  BY <1>1, <1>2, NodeFacts
<1> QED  BY <1>3, <1>4, <1>5, NodeFacts

\* free_pcb(), of neither the running process nor the head of the pause queue.
LEMMA OrderDequeue ==
    ASSUME NEW l, NEW f, NEW L, NEW j, Order(l, f, L, j), l.ready \in Procs,
           NEW u \in L, u # l.ready, u # l.pause, j \notin Procs \ L
    PROVE  Order(PDequeue(l, u), f, L \ {u}, u)
<1> DEFINE q == Abs(l)
<1>1. /\ Settled(l, q) /\ Spells(l, q) /\ WellFormed(q) /\ Queued(q) = L /\ L \subseteq Procs
      /\ L = Runnable(q) \cup Range(q.wait)
      /\ \A x \in L : x \in Range(q.wait) <=> f[x].op # "run"
      /\ ~Idle(q) /\ l.ready = Current(q)
  BY AgreeFacts DEF Order
<1> HIDE DEF q
<1>2. /\ Settled(PDequeue(l, u), Dequeue(q, u))
      /\ Queued(Dequeue(q, u)) = L \ {u}
  BY <1>1, DequeueSettles, DequeueLemma
<1>3. Range(Dequeue(q, u).wait) = Range(q.wait) \ {u}
  <2>1. /\ q \in QueueState /\ q.wait \in Seq(Procs) /\ IsInjective(q.wait)
    BY <1>1, SpellsFacts DEF WellFormed, NoRepeats
  <2>2. Dequeue(q, u).wait = RemoveFirst(q.wait, u)
    BY <2>1 DEF Dequeue, QueueState
  <2> QED  BY <2>1, <2>2, RemoveLemma
<1>4. Agree(PDequeue(l, u), f, L \ {u})
  BY <1>1, <1>2, <1>3, AgreeIs
<1>5. Untouched(l, PDequeue(l, u), L \ {u})
  BY <1>1, DequeueTouches
<1>6. l.next[u] # PauseTail \/ f[u].op = "run"
  BY <1>1, SpellsFacts, LinksTo
<1>7. Outside(PDequeue(l, u), f, L \ {u}, u)
  BY <1>1, <1>5, <1>6 DEF Order, Outside, Untouched
<1> QED  BY <1>4, <1>7 DEF Order

\* free_pcb() of the head of the pause queue leaves it there.
LEMMA HeadStays ==
    ASSUME NEW l, NEW f, NEW L, Agree(l, f, L), l.ready \in Procs,
           NEW u \in L, u # l.ready, u = l.pause
    PROVE  InQueue(PDequeue(l, u), u)
<1> DEFINE q == Abs(l)
           m == PDequeue(l, u)
<1>1. /\ Spells(l, q) /\ Queued(q) = L /\ u \in Procs
  BY AgreeFacts
<1> HIDE DEF q
<1>2. /\ Lists(l, q.ready, q.pause, q.wait) /\ l \in ListState
      /\ q.pause \in Seq(Procs) /\ IsInjective(q.pause) /\ Partitioned(q)
      /\ q.wait \in Seq(Procs) /\ IsInjective(q.wait)
  BY <1>1, SpellsFacts DEF Lists, Apart
<1>3. q.pause # <<>> /\ u = Head(q.pause)
  BY <1>1, <1>2, ListFacts, NodeFacts DEF PauseEmpty
<1>4. u \in Range(q.pause)
  BY <1>2, <1>3, TailLemma
<1>5. l.wait # u
  <2>1. SUFFICES ASSUME l.wait = u PROVE FALSE
    OBVIOUS
  <2>2. q.wait # <<>> /\ u = Head(q.wait)
    BY <1>1, <1>2, <2>1, ListFacts, NodeFacts DEF WaitEmpty
  <2>3. u \in Range(q.wait)
    BY <1>2, <2>2, TailLemma
  <2> QED  BY <1>2, <1>4, <2>3 DEF Partitioned, Disjoint
<1>6. m = [l EXCEPT !.wait = l.next[u]]
  BY <1>5 DEF PDequeue
<1>7. l.next[u] \in Nodes
  <2>1. Linked(l, q.pause, l.pause, PauseTail) /\ l.pause = u
    BY <1>2 DEF Lists
  <2>2. Linked(l, Tail(q.pause), l.next[u], PauseTail) /\ Tail(q.pause) \in Seq(Procs)
    BY <1>2, <1>3, <2>1, LinkedTail, TailLemma
  <2> DEFINE t == Tail(q.pause)
  <2>3. t \in Seq(Procs) /\ l.next[u] = Nth(t, 1, PauseTail)
    BY <2>2 DEF Linked
  <2> HIDE DEF t
  <2>4. l.next[u] \in Procs \cup {PauseTail}
    BY <2>3, NthFacts
  <2> QED  BY <2>4, NodeFacts
<1>8. m \in ListState /\ m.next = l.next /\ m.pre = l.pre /\ m.pause = l.pause
  BY <1>2, <1>6, <1>7 DEF ListState
<1> HIDE DEF m
<1>9. Linked(m, q.pause, m.pause, PauseTail)
  BY <1>2, <1>8, LinkedSame DEF Lists
<1>10. OnChain(m, m.pause, PauseTail) = Range(q.pause)
  BY <1>2, <1>8, <1>9, ChainIs, NodeFacts
<1> QED  BY <1>4, <1>10 DEF InQueue, m

\* Whatever a chain of PCBs that reaches its sentinel looks like, one of them
\* points to the sentinel.
LEMMA ChainEnds ==
    ASSUME NEW l, l.next \in [Nodes -> Nodes \cup {Null}], NEW first \in Procs,
           NEW sent \in Sentinels, OnChain(l, first, sent) \subseteq Procs
    PROVE  \E y \in OnChain(l, first, sent) : l.next[y] = sent
<1> DEFINE N == Cardinality(Procs)
           S == Nodes \cup {Null}
           after == [x \in S |-> IF x \in Nodes THEN l.next[x] ELSE Null]
           Hops(g) == [n \in 0 .. N |-> IF n = 0 THEN first ELSE after[g[n - 1]]]
           hop == CHOOSE g : g = Hops(g)
<1>1. N \in Nat
  BY LinksAssumption, FS_CardinalityType
<1>2. after \in [S -> S] /\ first \in S
  BY NodeFacts
<1>3. PICK g : IsOrbit(g, S, after, first, N)
  <2> HIDE DEF after, S, N
  <2> QED  BY <1>1, <1>2, Orbit
<1>4. g = Hops(g)
  <2> HIDE DEF after, S, N
  <2>1. \A n \in 0 .. N : g[n] = IF n = 0 THEN first ELSE after[g[n - 1]]
    BY <1>1, <1>3 DEF IsOrbit
  <2> QED  BY <1>3, <2>1 DEF IsOrbit
<1>5. hop = Hops(hop)
  <2> HIDE DEF Hops
  <2> QED  BY <1>4
<1>6. /\ DOMAIN hop = 0 .. N /\ hop[0] = first
      /\ \A n \in 1 .. N : hop[n] = after[hop[n - 1]]
  <2> HIDE DEF hop, after, N
  <2>1. DOMAIN hop = 0 .. N
    BY <1>5
  <2>2. \A n \in 0 .. N : hop[n] = Hops(hop)[n]
    BY <1>5
  <2> QED  BY <1>1, <2>1, <2>2
<1> DEFINE ends == {n \in DOMAIN hop : hop[n] = sent}
           end == CHOOSE n \in ends : \A m \in ends : n <= m
<1>7. Chain(l, first, sent) = IF ends = {} THEN <<Null>> ELSE [i \in 1 .. end |-> hop[i - 1]]
  BY DEF Chain
<1> HIDE DEF hop, Hops
<1>8. ends # {}
  <2>1. SUFFICES ASSUME ends = {} PROVE FALSE
    OBVIOUS
  <2> HIDE DEF ends, end
  <2>2. Chain(l, first, sent) = <<Null>>
    BY <1>7, <2>1
  <2>3. Null \in OnChain(l, first, sent)
    BY <2>2 DEF OnChain
  <2> QED  BY <2>3, LinksAssumption
<1>9. end \in ends
  <2>1. ends \in SUBSET Nat
    <3> HIDE DEF N
    <3> QED  BY <1>1, <1>6
  <2> HIDE DEF ends
  <2> QED  BY <1>8, <2>1, LeastNumber
<1>10. end \in 0 .. N /\ hop[end] = sent
  BY <1>6, <1>9
<1>11. end \in 1 .. N /\ end - 1 \in 0 .. N /\ (end - 1) + 1 = end
  <2>1. first # sent
    BY LinksAssumption
  <2> HIDE DEF end, N
  <2> QED  BY <1>1, <1>6, <1>10, <2>1
<1>12. Chain(l, first, sent) = [i \in 1 .. end |-> hop[i - 1]]
  <2> HIDE DEF ends, end
  <2> QED  BY <1>7, <1>8
<1> HIDE DEF end
<1>13. hop[end - 1] \in OnChain(l, first, sent)
  <2>1. end \in 1 .. end
    <3> HIDE DEF N
    <3> QED  BY <1>1, <1>11
  <2>2. [i \in 1 .. end |-> hop[i - 1]][end] = hop[end - 1]
    BY <2>1
  <2> QED  BY <1>12, <2>1, <2>2 DEF OnChain
<1>14. hop[end - 1] \in Nodes
  BY <1>13, NodeFacts
<1>15. l.next[hop[end - 1]] = sent
  <2> HIDE DEF N
  <2> QED  BY <1>6, <1>10, <1>11, <1>14
<1> QED  BY <1>13, <1>15

\* unblock() of a PCB that has left the queues puts it back, or breaks a queue.
LEMMA UnblockStrays ==
    ASSUME NEW l, NEW f, NEW L, Agree(l, f, L), NEW d \in Procs \ L,
           \A x \in Procs \ L : l.next[x] # PauseTail
    PROVE  ~Intact(PUnblock(l, d)) \/ InQueue(PUnblock(l, d), d)
<1> DEFINE q == Abs(l)
           u == Unlink(l, d)
           m == PUnblock(l, d)
<1>1. /\ Spells(l, q) /\ Queued(q) = L /\ L \subseteq Procs
  BY AgreeFacts
<1> HIDE DEF q
<1>2. /\ Lists(l, q.ready, q.pause, q.wait) /\ l \in ListState
      /\ q.pause \in Seq(Procs) /\ q.wait \in Seq(Procs) /\ IsInjective(q.wait)
      /\ L = Range(q.ready) \cup Range(q.pause) \cup Range(q.wait)
  BY <1>1, SpellsFacts, QueuedLists DEF Lists, Apart
<1>3. l.wait # d
  <2>1. SUFFICES ASSUME l.wait = d PROVE FALSE
    OBVIOUS
  <2>2. q.wait # <<>> /\ d = Head(q.wait)
    BY <1>2, <2>1, ListFacts, NodeFacts DEF WaitEmpty
  <2> QED  BY <1>2, <2>2, TailLemma
<1>4. m = ToPause(u, d)
  BY <1>3 DEF PUnblock
<1>5. /\ l.next \in [Nodes -> Nodes \cup {Null}] /\ l.pre \in [Nodes -> Nodes \cup {Null}]
      /\ Procs \subseteq Nodes /\ PauseTail \in Nodes /\ PauseTail \notin Procs
      /\ PauseTail \in Sentinels /\ l.next[d] # PauseTail
  BY <1>2, NodeFacts DEF ListState
<1>6. /\ u.next = [l.next EXCEPT ![l.pre[d]] = l.next[d]]
      /\ u.pre = [l.pre EXCEPT ![l.next[d]] = l.pre[d]] /\ u.pause = l.pause
      /\ u \in ListState
  <2> DEFINE n1 == [l.next EXCEPT ![l.pre[d]] = l.next[d]]
             p1 == [l.pre EXCEPT ![l.next[d]] = l.pre[d]]
  <2>1. u = [l EXCEPT !.next = n1, !.pre = p1]
    BY <1>2 DEF Unlink, ListState
  <2>2. n1 \in [Nodes -> Nodes \cup {Null}] /\ p1 \in [Nodes -> Nodes \cup {Null}]
    BY <1>5
  <2> HIDE DEF n1, p1
  <2>3. u.next = n1 /\ u.pre = p1 /\ u.pause = l.pause /\ u \in ListState
    BY <1>2, <2>1, <2>2 DEF ListState
  <2> QED  BY <2>3 DEF n1, p1
<1> HIDE DEF u, m
<1>7. CASE PauseEmpty(l)
  <2>1. m = [u EXCEPT !.pause = d, !.pre[PauseTail] = d, !.next[d] = PauseTail]
    BY <1>4, <1>6, <1>7 DEF ToPause, PauseEmpty
  <2>2. m.pause = d /\ m.next = [u.next EXCEPT ![d] = PauseTail]
        /\ m.pre = [u.pre EXCEPT ![PauseTail] = d] /\ m \in ListState
    <3> DEFINE n1 == [u.next EXCEPT ![d] = PauseTail]
               p1 == [u.pre EXCEPT ![PauseTail] = d]
    <3>1. m = [u EXCEPT !.pause = d, !.next = n1, !.pre = p1]
      BY <1>6, <2>1 DEF ListState
    <3>2. n1 \in [Nodes -> Nodes \cup {Null}] /\ p1 \in [Nodes -> Nodes \cup {Null}]
      BY <1>5, <1>6 DEF ListState
    <3> HIDE DEF n1, p1
    <3>3. m.pause = d /\ m.next = n1 /\ m.pre = p1 /\ m \in ListState
      BY <1>5, <1>6, <3>1, <3>2 DEF ListState
    <3> QED  BY <3>3 DEF n1, p1
  <2>3. m.next[d] = PauseTail /\ m.pre[PauseTail] = d
    BY <1>5, <1>6, <2>2 DEF ListState
  <2> DEFINE c == Append(<<>>, d)
  <2>4. Linked(m, c, m.pause, PauseTail)
    BY <2>2, <2>3, LinkedSingle
  <2>5. c \in Seq(Procs) /\ Range(c) = {d} /\ IsInjective(c)
    <3>1. <<>> \in Seq(Procs) /\ Range(<<>>) = {} /\ IsInjective(<<>>)
      BY DEF Range, IsInjective
    <3> DEFINE none == <<>>
    <3>2. d \in Procs /\ none \in Seq(Procs) /\ Range(none) = {} /\ IsInjective(none)
      BY <3>1
    <3> HIDE DEF none
    <3>3. LET a == Append(none, d)
          IN  a \in Seq(Procs) /\ Range(a) = {d} /\ IsInjective(a)
      BY <3>2, AppendLemma
    <3> QED  BY <3>3 DEF none
  <2> HIDE DEF c
  <2>6. OnChain(m, m.pause, PauseTail) = {d}
    BY <1>5, <2>2, <2>4, <2>5, ChainIs
  <2> QED  BY <2>6 DEF InQueue, m
<1>8. CASE ~PauseEmpty(l)
  <2>1. /\ l.pre[PauseTail] \in Range(q.pause) /\ l.pre[PauseTail] \in L
        /\ l.pause = Head(q.pause) /\ Head(q.pause) \in Procs
    BY <1>2, <1>8, ListFacts, HeadTailProperties
  <2>2. u.pre[PauseTail] = l.pre[PauseTail]
    BY <1>5, <1>6
  <2>3. m = LinkLast(u, d, PauseTail)
    BY <1>4, <1>6, <1>8 DEF ToPause, PauseEmpty
  <2>4. /\ m \in ListState /\ m.pause = l.pause
        /\ \A x \in Nodes : m.next[x] = IF x = l.pre[PauseTail] THEN d
                                        ELSE IF x = d THEN PauseTail ELSE u.next[x]
    <3>1. LET k == LinkLast(u, d, PauseTail)
          IN  /\ k \in ListState /\ k.pause = u.pause
              /\ \A x \in Nodes : k.next[x] = IF x = u.pre[PauseTail] THEN d
                                              ELSE IF x = d THEN PauseTail ELSE u.next[x]
      BY <1>1, <1>5, <1>6, <2>1, <2>2, LinkLastFields
    <3> QED  BY <1>6, <2>2, <2>3, <3>1
  <2>5. \A x \in Procs : m.next[x] = PauseTail => x = d
    <3> SUFFICES ASSUME NEW x \in Procs, m.next[x] = PauseTail, x # d PROVE FALSE
      OBVIOUS
    <3>1. x # l.pre[PauseTail]
      BY <1>5, <2>4
    <3>2. u.next[x] = PauseTail
      BY <1>5, <2>4, <3>1
    <3>3. l.next[x] = PauseTail
      BY <1>5, <1>6, <3>2
    <3>4. x \in L
      BY <3>3
    <3> QED  BY <1>2, <3>1, <3>3, <3>4, LinksTo
  <2>6. CASE OnChain(m, m.pause, PauseTail) \subseteq Procs
    <3>1. m.next \in [Nodes -> Nodes \cup {Null}] /\ m.pause \in Procs
      BY <2>1, <2>4 DEF ListState
    <3>2. PICK y \in OnChain(m, m.pause, PauseTail) : m.next[y] = PauseTail
      BY <1>5, <2>6, <3>1, ChainEnds
    <3> QED  BY <2>5, <2>6, <3>2 DEF InQueue, m
  <2>7. CASE ~ (OnChain(m, m.pause, PauseTail) \subseteq Procs)
    BY <2>7 DEF Intact, m
  <2> QED  BY <2>6, <2>7
<1> QED  BY <1>7, <1>8

-----------------------------------------------------------------------------
(* The inductive invariant.  Busy are the processes in the queues, and     *)
(* what each of them may be blocked in follows from where its program      *)
(* stands; the rest follows a request and its answer from one to the other. *)

Loading == pc[MM] \in {"reading", "load"}

Gone == job.src \in Programs

Busy == Servers \cup Loaded

\* The block that get_mem() finds, whatever is in use behind it.
First == 2 * PerByte

Ranges ==
    /\ DOMAIN st = Procs /\ DOMAIN msg = Procs /\ DOMAIN pc = Procs
    /\ pc[INPUT] \in {"recv", "drain"}
    /\ pc[TTY] \in {"recv", "handle", "started", "answered"}
    /\ pc[FS] \in {"recv", "answer"}
    /\ pc[MM] \in {"recv", "serve", "reading", "load", "answer"}
    /\ \A u \in Programs : pc[u] \in {"recv", "handle", "exit", "last", "spin"}
    /\ child \in Programs \cup {NO_TASK}
    /\ used \in [Programs -> BOOLEAN]
    /\ job \in [src : {TTY, NO_TASK} \cup Programs, pid : Programs \cup {NO_TASK}, block : Nat]

\* What each process may be blocked in, by where its program stands.
Receives(x, src) == st[x].op = "recv" /\ st[x].peer = src

Sends(x, d) == st[x].op = "send" /\ st[x].peer = d /\ st[x].msg.source = x

InputCall == pc[INPUT] = "drain" /\ (Receives(INPUT, ANY) \/ Sends(INPUT, TTY))

TtyCall ==
    \/ pc[TTY] = "recv" /\ child \in Programs /\ Sends(TTY, child)
    \/ pc[TTY] = "handle" /\ Receives(TTY, ANY)
    \/ pc[TTY] = "started" /\ Sends(TTY, MM) /\ st[TTY].msg.what = "execute"
    \/ pc[TTY] = "answered" /\ Receives(TTY, MM)

FsCall ==
    \/ pc[FS] = "recv" /\ Sends(FS, MM) /\ st[FS].msg.what = "file"
    \/ pc[FS] = "answer" /\ Receives(FS, ANY)

MmCall ==
    \/ pc[MM] = "recv" /\ Sends(MM, job.src) /\ st[MM].msg.pid = job.pid
    \/ pc[MM] = "serve" /\ Receives(MM, ANY)
    \/ pc[MM] = "reading" /\ Sends(MM, FS)
    \/ pc[MM] = "load" /\ Receives(MM, FS)

ProgCall(u) ==
    \/ pc[u] = "handle" /\ Receives(u, ANY)
    \/ pc[u] = "exit" /\ Sends(u, TTY)
    \/ pc[u] = "last" /\ Sends(u, MM) /\ st[u].msg.what = "exit" /\ st[u].msg.pid = u
    \/ pc[u] = "spin" /\ Receives(u, MM)

Blocked ==
    /\ st[INPUT] = Run \/ InputCall
    /\ st[TTY] = Run \/ TtyCall
    /\ st[FS] = Run \/ FsCall
    /\ st[MM] = Run \/ MmCall
    /\ \A u \in Programs : st[u] = Run \/ ProgCall(u)

\* Only the memory server asks the file server.
Served == pc[FS] = "answer" /\ st[FS] = Run => msg[FS].source = MM

\* The terminal has been told that u exits: child_pid is another program's, or
\* the terminal is about to handle the message.
Told(u) == child = u => pc[TTY] = "handle" /\ st[TTY] = Run /\ msg[TTY].source = u

Leaving(u) == pc[u] \in {"last", "spin"} \/ (pc[u] = "exit" /\ st[u] = Run)

ToldInv == \A u \in Programs : Leaving(u) => Told(u)

\* The request that the memory server is about to serve.
Serving(what) == pc[MM] = "serve" /\ st[MM] = Run /\ msg[MM].what = what

Requested ==
    /\ Serving("exit") => /\ msg[MM].pid \in Loaded /\ msg[MM].source = msg[MM].pid
                          /\ pc[msg[MM].pid] \in {"last", "spin"}
    /\ Serving("execute") => msg[MM].source = TTY

\* The memory server never gets past its answer to a program that has exited.
JobInv ==
    /\ pc[MM] \in {"reading", "load", "answer"} => job.src # NO_TASK
    /\ Loading => job.src = TTY /\ job.pid \in Programs /\ used[job.pid]
    /\ Gone => /\ job.pid = NO_TASK /\ ~used[job.src]
               /\ pc[MM] = "answer" \/ (pc[MM] = "recv" /\ st[MM] # Run)

\* While the memory server deals with a request of the terminal, the terminal
\* waits for the answer and has no program.
ForTty ==
    \/ Serving("execute")
    \/ Loading
    \/ pc[MM] = "answer" /\ job.src = TTY
    \/ st[MM].op = "send" /\ st[MM].peer = TTY

AwaitsMm == pc[TTY] = "started" \/ (pc[TTY] = "answered" /\ st[TTY] # Run)

TtyWaits ==
    /\ ForTty => AwaitsMm
    /\ pc[TTY] \in {"started", "answered"} => child = NO_TASK

\* The answer that names u is on its way to the terminal.
Answering(u) ==
    \/ pc[MM] = "answer" /\ job.src = TTY /\ job.pid = u
    \/ st[MM].op = "send" /\ st[MM].peer = TTY /\ st[MM].msg.pid = u
    \/ pc[TTY] = "answered" /\ st[TTY] = Run /\ msg[TTY].pid = u

AnswerInv ==
    /\ \A u \in Programs : Answering(u) =>
          u \in Loaded /\ (pc[u] = "recv" \/ (pc[u] = "handle" /\ st[u] # Run))
    /\ pc[TTY] = "answered" /\ st[TTY] = Run => msg[TTY].pid \in Programs \cup {NO_TASK}

ChildInv ==
    child # NO_TASK =>
       \/ child \in Loaded
       \/ pc[TTY] = "handle" /\ st[TTY] = Run /\ msg[TTY].source = child

MemInv ==
    /\ Reserved \subseteq bitmap /\ bitmap \subseteq Reserved \cup {First}
    /\ DOMAIN base = Programs
    /\ \A u \in Loaded : base[u] = First
    /\ Loading => job.block = First
    /\ First \in bitmap => Loading \/ Loaded # {}

\* While the kernel runs ...
RunInv ==
    /\ Order(s, st, Busy, job.src)
    /\ Blocked /\ Served /\ ToldInv /\ Requested /\ JobInv /\ TtyWaits /\ AnswerInv

\* ... and for good.
LifeInv == Ranges /\ ChildInv /\ MemInv /\ (kernel = "run" => RunInv)

-----------------------------------------------------------------------------
(* A rendezvous, in a state of the invariant.                              *)

LEMMA Pids ==
    /\ Servers \subseteq Procs /\ Programs \subseteq Procs
    /\ INPUT \in Servers /\ FS \in Servers /\ MM \in Servers /\ TTY \in Servers
    /\ INPUT \notin Programs /\ FS \notin Programs /\ MM \notin Programs /\ TTY \notin Programs
    /\ INPUT # FS /\ INPUT # MM /\ INPUT # TTY /\ FS # MM /\ FS # TTY /\ MM # TTY
    /\ ANY \notin Procs /\ NO_TASK \notin Procs /\ ANY # NO_TASK
    /\ Servers \subseteq Busy /\ Busy \subseteq Procs /\ Procs \ Busy \subseteq Programs
    /\ Loaded \subseteq Programs /\ Busy \cap Programs = Loaded
    /\ \A p \in Procs : p \in {INPUT, FS, MM, TTY} \/ p \in Programs
BY LifecycleAssumption DEF Servers, Busy, Loaded

LEMMA CallFacts ==
    /\ Run.op = "run"
    /\ \A d, m : /\ Sending(d, m).op = "send" /\ Sending(d, m).peer = d
                 /\ Sending(d, m).msg = m /\ Sending(d, m) # Run
    /\ \A src : Receiving(src).op = "recv" /\ Receiving(src).peer = src /\ Receiving(src) # Run
    /\ \A p, what, pid : /\ Msg(p, what, pid).source = p /\ Msg(p, what, pid).what = what
                         /\ Msg(p, what, pid).pid = pid
<1>1. /\ Run.op = "run"
      /\ \A d, m : /\ Sending(d, m).op = "send" /\ Sending(d, m).peer = d
                   /\ Sending(d, m).msg = m
      /\ \A src : Receiving(src).op = "recv" /\ Receiving(src).peer = src
      /\ \A p, what, pid : /\ Msg(p, what, pid).source = p /\ Msg(p, what, pid).what = what
                           /\ Msg(p, what, pid).pid = pid
  BY DEF Run, Sending, Receiving, Msg
<1>2. ASSUME NEW d, NEW m PROVE Sending(d, m) # Run
  <2>1. Sending(d, m).op # Run.op
    BY <1>1
  <2> QED  BY <2>1
<1>3. ASSUME NEW src PROVE Receiving(src) # Run
  <2>1. Receiving(src).op # Run.op
    BY <1>1
  <2> QED  BY <2>1
<1> QED  BY <1>1, <1>2, <1>3

\* The process that runs is in the queues and is not blocked.
LEMMA Runs ==
    ASSUME Ranges, RunInv, NEW p \in Procs, s.ready = p
    PROVE  p \in Busy /\ st[p] = Run
<1>1. p \in Busy /\ st[p].op = "run"
  BY RunningRuns DEF RunInv, Order
<1>2. /\ st[INPUT].op = "run" => st[INPUT] = Run
      /\ st[TTY].op = "run" => st[TTY] = Run
      /\ st[FS].op = "run" => st[FS] = Run
      /\ st[MM].op = "run" => st[MM] = Run
      /\ \A u \in Programs : st[u].op = "run" => st[u] = Run
  BY DEF RunInv, Blocked, InputCall, TtyCall, FsCall, MmCall, ProgCall, Receives, Sends
<1>3. p \in {INPUT, FS, MM, TTY} \cup Programs
  BY LifecycleAssumption DEF Servers
<1> QED  BY <1>1, <1>2, <1>3

\* unblock() of a blocked process: the queues stay in order, or the kernel stops
\* at a PCB that has been freed.
LEMMA Unblocks ==
    ASSUME Ranges, RunInv, kernel = "run", s.ready \in Procs,
           NEW d \in Procs, st[d].op # "run", Relinked(PUnblock(s, d)), kernel' = "run"
    PROVE  d \in Busy /\ Order(s', Called(st, d, Run), Busy, job.src)
<1>1. Order(s, st, Busy, job.src) /\ DOMAIN st = Procs
  BY DEF RunInv, Ranges
<1>2. /\ s' = PUnblock(s, d) /\ Intact(PUnblock(s, d)) /\ ~Returned(PUnblock(s, d), used)
  BY DEF Relinked, RelinkedFor
<1>3. d \in Busy
  <2>1. SUFFICES ASSUME d \notin Busy PROVE FALSE
    OBVIOUS
  <2>2. d = job.src /\ s.next[d] # PauseTail
    BY <1>1, <2>1 DEF Order, Outside
  <2>3. \A x \in Procs \ Busy : s.next[x] # PauseTail
    BY <1>1, <2>2 DEF Order, Outside
  <2>4. InQueue(PUnblock(s, d), d)
    BY <1>1, <1>2, <2>1, <2>3, UnblockStrays DEF Order
  <2>5. d \in Programs /\ ~used[d]
    BY <2>1, <2>2, Pids DEF RunInv, JobInv, Gone
  <2> QED  BY <1>2, <2>4, <2>5 DEF Returned
<1> QED  BY <1>1, <1>2, <1>3, OrderUnblock

\* What Send and Receive come to.
Sent(p, d, m) ==
    \/ kernel' # "run" /\ st' = st /\ msg' = msg
    \/ /\ d # p /\ Awaits(d, p) /\ (kernel' = "run" => d \in Busy)
       /\ st' = Called(st, d, Run) /\ msg' = Called(msg, d, m)
    \/ st' = Called(st, p, Sending(d, m)) /\ msg' = msg

Received(p, src) ==
    \/ \E x \in SendersTo(p) :
          /\ x # p /\ src \in {x, ANY} /\ (kernel' = "run" => x \in Busy)
          /\ st' = Called(st, x, Run) /\ msg' = Called(msg, p, st[x].msg)
    \/ st' = Called(st, p, Receiving(src)) /\ msg' = msg

LEMMA SendCases ==
    ASSUME Ranges, RunInv, kernel = "run", NEW p \in Procs, s.ready = p,
           NEW d \in Procs, NEW m, Send(p, d, m)
    PROVE  /\ Sent(p, d, m)
           /\ kernel' = "run" => Order(s', st', Busy, job.src)
<1>1. st[p] = Run /\ Order(s, st, Busy, job.src) /\ DOMAIN st = Procs
  BY Runs DEF RunInv, Ranges
<1>2. CASE kernel' # "run" /\ st' = st /\ msg' = msg
  BY <1>2 DEF Sent
<1>3. CASE /\ Awaits(d, p) /\ st' = [st EXCEPT ![d] = Run] /\ msg' = [msg EXCEPT ![d] = m]
           /\ Relinked(PUnblock(s, d))
  <2>1. st[d].op # "run"
    BY <1>3, CallFacts DEF Awaits
  <2>2. d # p
    BY <1>1, <2>1, CallFacts
  <2>3. st' = Called(st, d, Run) /\ msg' = Called(msg, d, m)
    BY <1>3 DEF Called
  <2> QED  BY <1>3, <2>1, <2>2, <2>3, Unblocks DEF Sent
<1>4. CASE st' = [st EXCEPT ![p] = Sending(d, m)] /\ Relinked(PBlock(s)) /\ msg' = msg
  <2>1. st' = Called(st, p, Sending(d, m)) /\ s' = PBlock(s)
    BY <1>4 DEF Called, Relinked, RelinkedFor
  <2>2. Sending(d, m).op # "run"
    BY CallFacts
  <2>3. Order(PBlock(s), Called(st, p, Sending(d, m)), Busy, job.src)
    BY <1>1, <2>2, OrderBlock
  <2> QED  BY <1>4, <2>1, <2>3 DEF Sent
<1> QED  BY <1>2, <1>3, <1>4 DEF Send

LEMMA ReceiveCases ==
    ASSUME Ranges, RunInv, kernel = "run", NEW p \in Procs, s.ready = p,
           NEW src, Receive(p, src)
    PROVE  /\ Received(p, src)
           /\ kernel' = "run" => Order(s', st', Busy, job.src)
<1>1. st[p] = Run /\ Order(s, st, Busy, job.src) /\ DOMAIN st = Procs
  BY Runs DEF RunInv, Ranges
<1>2. ASSUME NEW x \in SendersTo(p), src \in {x, ANY}, st' = [st EXCEPT ![x] = Run],
             msg' = [msg EXCEPT ![p] = st[x].msg], Relinked(PUnblock(s, x))
      PROVE  /\ Received(p, src)
             /\ kernel' = "run" => Order(s', st', Busy, job.src)
  <2>1. x \in Procs /\ st[x].op = "send"
    BY <1>2 DEF SendersTo
  <2>2. st[x].op # "run" /\ x # p
    BY <1>1, <2>1, CallFacts
  <2>3. st' = Called(st, x, Run) /\ msg' = Called(msg, p, st[x].msg)
    BY <1>2 DEF Called
  <2> QED  BY <1>2, <2>1, <2>2, <2>3, Unblocks DEF Received
<1>3. CASE st' = [st EXCEPT ![p] = Receiving(src)] /\ Relinked(PBlock(s)) /\ msg' = msg
  <2>1. st' = Called(st, p, Receiving(src)) /\ s' = PBlock(s)
    BY <1>3 DEF Called, Relinked, RelinkedFor
  <2>2. Receiving(src).op # "run"
    BY CallFacts
  <2>3. Order(PBlock(s), Called(st, p, Receiving(src)), Busy, job.src)
    BY <1>1, <2>2, OrderBlock
  <2> QED  BY <1>3, <2>1, <2>3 DEF Received
<1> QED  BY <1>2, <1>3 DEF Receive

-----------------------------------------------------------------------------
(* What execute() finds free.                                              *)

\* get_mem() finds the first block behind the kernel's own, taken or not: the bit
\* after it is always clear.
LEMMA MemoryIsLeft ==
    ASSUME Reserved \subseteq bitmap, bitmap \subseteq Reserved \cup {First}
    PROVE  PartlyFree # {} /\ GetMem = First
<1>1. /\ PerByte \in Nat /\ PerByte >= 2 /\ Bytes \in Nat /\ Bytes >= 3
  BY LifecycleAssumption
<1> DEFINE in(i, j) == i * PerByte + j
<1>2. ASSUME NEW i \in Nat, i < 2, NEW j \in 0 .. PerByte - 1 PROVE in(i, j) \in bitmap
  <2>1. i = 0 \/ i = 1
    BY <1>2
  <2>2. in(0, j) = j /\ in(1, j) = PerByte + j
    BY <1>1, <1>2
  <2>3. in(i, j) \in 0 .. 2 * PerByte - 1
    BY <1>1, <1>2, <2>1, <2>2
  <2> QED  BY <2>3 DEF Reserved
<1>3. in(2, 1) \notin bitmap /\ 1 \in 0 .. PerByte - 1
  <2>1. in(2, 1) = 2 * PerByte + 1 /\ in(2, 1) \notin Reserved /\ in(2, 1) # First
    BY <1>1 DEF Reserved, First
  <2> QED  BY <1>1, <2>1
<1>4. 2 \in PartlyFree
  BY <1>1, <1>3 DEF PartlyFree
<1>5. \A i \in PartlyFree : i \in Nat /\ 2 <= i
  <2> SUFFICES ASSUME NEW i \in PartlyFree PROVE i \in Nat /\ 2 <= i
    OBVIOUS
  <2>1. i \in Nat /\ \E j \in 0 .. PerByte - 1 : in(i, j) \notin bitmap
    BY <1>1 DEF PartlyFree
  <2>2. ~(i < 2)
    BY <1>2, <2>1
  <2> QED  BY <2>1, <2>2
<1> HIDE DEF in
<1>6. (CHOOSE i \in PartlyFree : \A j \in PartlyFree : i <= j) = 2
  BY <1>4, <1>5
<1>7. GetMem = PerByte * 2
  BY <1>6, Zenon DEF GetMem
<1> QED  BY <1>1, <1>4, <1>7 DEF First

\* get_pcb() finds a PCB that is not in use, if there is one.
LEMMA PcbIsUnused ==
    ASSUME Unused # {}
    PROVE  GetPcb \in Programs /\ ~used[GetPcb]
<1>1. Unused \in SUBSET Nat
  BY LifecycleAssumption DEF Unused
<1>2. (CHOOSE i \in Unused : \A j \in Unused : i <= j) \in Unused
  BY <1>1, LeastNumber
<1> QED  BY <1>2 DEF GetPcb, Unused, Programs

LEMMA FirstInNat == First \in Nat /\ First \notin Reserved
BY LifecycleAssumption DEF First, Reserved

-----------------------------------------------------------------------------
(* One step of each kind keeps the invariant.                              *)

\* The clock ends a time slice.
LEMMA PreemptKeeps ==
    ASSUME LifeInv, Preempt
    PROVE  LifeInv'
<1>1. /\ Ranges /\ RunInv /\ kernel = "run" /\ ChildInv /\ MemInv
      /\ UNCHANGED <<st, msg, pc, child, used, bitmap, base, job>> /\ Relinked(PSchedule(s))
  BY DEF LifeInv, Preempt, memVars
<1>2. Loaded' = Loaded /\ Busy' = Busy /\ s' = PSchedule(s)
  BY <1>1 DEF Loaded, Busy, Relinked, RelinkedFor
<1>3. Ranges'
  BY <1>1, <1>2, Pids DEF Ranges
<1>4. ChildInv'
  BY <1>1, <1>2, Pids DEF Ranges, ChildInv
<1>5. MemInv'
  BY <1>1, <1>2 DEF MemInv, Loading, First
<1> SUFFICES ASSUME kernel' = "run" PROVE RunInv'
  BY <1>3, <1>4, <1>5 DEF LifeInv
<1>6. Order(s, st, Busy, job.src)'
  BY <1>1, <1>2, OrderSchedule DEF RunInv
<1>7. Blocked'
  BY <1>1, <1>2, Pids, CallFacts DEF Ranges, RunInv, Blocked, InputCall, TtyCall,
     FsCall, MmCall, ProgCall, Receives, Sends
<1>8. Served'
  BY <1>1, <1>2, Pids DEF Ranges, RunInv, Served
<1>9. ToldInv'
  BY <1>1, <1>2, Pids DEF Ranges, RunInv, ToldInv, Told, Leaving
<1>10. Requested'
  BY <1>1, <1>2, Pids DEF Ranges, RunInv, Requested, Serving
<1>11. JobInv'
  BY <1>1, <1>2, Pids DEF Ranges, RunInv, JobInv, Loading, Gone
<1>12. TtyWaits'
  BY <1>1, <1>2, Pids DEF Ranges, RunInv, TtyWaits, ForTty, Serving, Loading,
     AwaitsMm
<1>13. AnswerInv'
  BY <1>1, <1>2, Pids DEF Ranges, RunInv, AnswerInv, Answering
<1> QED  BY <1>6, <1>7, <1>8, <1>9, <1>10, <1>11, <1>12, <1>13 DEF RunInv

\* A key is pressed.
LEMMA KeyKeeps ==
    ASSUME LifeInv, Key
    PROVE  LifeInv'
<1>1. /\ Ranges /\ RunInv /\ kernel = "run" /\ ChildInv /\ MemInv
      /\ UNCHANGED <<msg, pc, child, used, bitmap, base, job>>
      /\ \/ st[INPUT].op = "recv" /\ st' = [st EXCEPT ![INPUT] = Run] /\ s' = PWake(s, INPUT)
         \/ UNCHANGED <<s, st, kernel>>
  BY DEF LifeInv, Key, memVars, Relinked, RelinkedFor
<1>2. Loaded' = Loaded /\ Busy' = Busy
  BY <1>1 DEF Loaded, Busy
<1>3. Order(s', st', Busy, job.src)
  <2>1. ASSUME st[INPUT].op = "recv", st' = [st EXCEPT ![INPUT] = Run], s' = PWake(s, INPUT)
        PROVE  Order(s', st', Busy, job.src)
    <3>1. /\ st[INPUT].op # "run" /\ INPUT \in Busy /\ DOMAIN st = Procs
          /\ Order(s, st, Busy, job.src) /\ st' = Called(st, INPUT, Run)
      BY <1>1, <2>1, Pids DEF Ranges, RunInv, Called
    <3>2. Order(PWake(s, INPUT), Called(st, INPUT, Run), Busy, job.src)
      BY <3>1, OrderWake
    <3> QED  BY <2>1, <3>1, <3>2
  <2> QED  BY <1>1, <2>1 DEF RunInv
<1>4. Ranges'
  BY <1>1, <1>2, Pids DEF Ranges
<1>5. ChildInv'
  BY <1>1, <1>2, Pids DEF Ranges, ChildInv
<1>6. MemInv'
  BY <1>1, <1>2 DEF MemInv, Loading, First
<1> SUFFICES ASSUME kernel' = "run" PROVE RunInv'
  BY <1>4, <1>5, <1>6 DEF LifeInv
<1>7. Order(s, st, Busy, job.src)'
  BY <1>1, <1>2, <1>3
<1>8. Blocked'
  BY <1>1, <1>2, Pids, CallFacts DEF Ranges, RunInv, Blocked, InputCall, TtyCall,
     FsCall, MmCall, ProgCall, Receives, Sends
<1>9. Served'
  BY <1>1, <1>2, Pids DEF Ranges, RunInv, Served
<1>10. ToldInv'
  BY <1>1, <1>2, Pids DEF Ranges, RunInv, ToldInv, Told, Leaving
<1>11. Requested'
  BY <1>1, <1>2, Pids DEF Ranges, RunInv, Requested, Serving
<1>12. JobInv'
  BY <1>1, <1>2, Pids DEF Ranges, RunInv, JobInv, Loading, Gone
<1>13. TtyWaits'
  BY <1>1, <1>2, Pids DEF Ranges, RunInv, TtyWaits, ForTty, Serving, Loading,
     AwaitsMm
<1>14. AnswerInv'
  BY <1>1, <1>2, Pids DEF Ranges, RunInv, AnswerInv, Answering
<1> QED  BY <1>7, <1>8, <1>9, <1>10, <1>11, <1>12, <1>13, <1>14 DEF RunInv

\* The INPUT server waits for an interrupt.
LEMMA InputReceiveKeeps ==
    ASSUME LifeInv, InputReceive
    PROVE  LifeInv'
<1>1. /\ Ranges /\ RunInv /\ kernel = "run" /\ ChildInv /\ MemInv
      /\ s.ready = INPUT /\ pc[INPUT] = "recv" /\ INPUT \in Procs
      /\ UNCHANGED <<child, used, bitmap, base, job>>
  BY Pids DEF LifeInv, InputReceive, From, memVars
<1>2. st[INPUT] = Run
  BY <1>1, Runs
<1>3. ASSUME UNCHANGED ipcVars, pc' = [pc EXCEPT ![INPUT] = "drain"] PROVE LifeInv'
  <2>1. Loaded' = Loaded /\ Busy' = Busy /\ UNCHANGED <<s, st, msg, kernel>>
    BY <1>1, <1>3, Pids DEF Loaded, Busy, Ranges, ipcVars
  <2>2. Ranges'
    BY <1>1, <1>2, <1>3, <2>1, Pids DEF Ranges
  <2>3. ChildInv'
    BY <1>1, <1>2, <1>3, <2>1, Pids DEF Ranges, ChildInv
  <2>4. MemInv'
    BY <1>1, <1>3, <2>1, Pids DEF MemInv, Loading, First
  <2> SUFFICES ASSUME kernel' = "run" PROVE RunInv'
    BY <2>2, <2>3, <2>4 DEF LifeInv
  <2>5. Order(s, st, Busy, job.src)'
    BY <1>1, <2>1 DEF RunInv
  <2>6. Blocked'
    BY <1>1, <1>2, <1>3, <2>1, Pids, CallFacts DEF Ranges, RunInv, Blocked,
       InputCall, TtyCall, FsCall, MmCall, ProgCall, Receives, Sends
  <2>7. Served'
    BY <1>1, <1>2, <1>3, <2>1, Pids DEF Ranges, RunInv, Served
  <2>8. ToldInv'
    BY <1>1, <1>2, <1>3, <2>1, Pids DEF Ranges, RunInv, ToldInv, Told, Leaving
  <2>9. Requested'
    BY <1>1, <1>2, <1>3, <2>1, Pids DEF Ranges, RunInv, Requested, Serving
  <2>10. JobInv'
    BY <1>1, <1>2, <1>3, <2>1, Pids DEF Ranges, RunInv, JobInv, Loading, Gone
  <2>11. TtyWaits'
    BY <1>1, <1>2, <1>3, <2>1, Pids DEF Ranges, RunInv, TtyWaits, ForTty,
       Serving, Loading, AwaitsMm
  <2>12. AnswerInv'
    BY <1>1, <1>2, <1>3, <2>1, Pids DEF Ranges, RunInv, AnswerInv, Answering
  <2> QED  BY <2>5, <2>6, <2>7, <2>8, <2>9, <2>10, <2>11, <2>12 DEF RunInv
<1>4. ASSUME Receive(INPUT, ANY), pc' = [pc EXCEPT ![INPUT] = "drain"] PROVE LifeInv'
  <2>1. Loaded' = Loaded /\ Busy' = Busy
    BY <1>1, <1>4, Pids DEF Loaded, Busy, Ranges
  <2>2. Received(INPUT, ANY) /\ (kernel' = "run" => Order(s', st', Busy, job.src))
    BY <1>1, <1>4, Pids, ReceiveCases
  <2>3. Ranges'
    BY <1>1, <1>2, <1>4, <2>1, <2>2, Pids DEF Ranges, Received, Called,
       SendersTo
  <2>4. ChildInv'
    BY <1>1, <1>2, <1>4, <2>1, <2>2, Pids DEF Ranges, Received, Called,
       SendersTo, ChildInv
  <2>5. MemInv'
    BY <1>1, <1>4, <2>1, Pids DEF MemInv, Loading, First
  <2> SUFFICES ASSUME kernel' = "run" PROVE RunInv'
    BY <2>3, <2>4, <2>5 DEF LifeInv
  <2>6. Order(s, st, Busy, job.src)'
    BY <1>1, <2>1, <2>2
  <2>7. Blocked'
    BY <1>1, <1>2, <1>4, <2>1, <2>2, Pids, CallFacts DEF Received, Called,
       SendersTo, Ranges, RunInv, Blocked, InputCall, TtyCall, FsCall, MmCall,
       ProgCall, Receives, Sends
  <2>8. Served'
    BY <1>1, <1>2, <1>4, <2>1, <2>2, Pids, CallFacts DEF Received, Called,
       SendersTo, Ranges, RunInv, Blocked, InputCall, TtyCall, FsCall, MmCall,
       ProgCall, Receives, Sends, Served
  <2>9. ToldInv'
    BY <1>1, <1>2, <1>4, <2>1, <2>2, Pids, CallFacts DEF Received, Called,
       SendersTo, Ranges, RunInv, Blocked, InputCall, TtyCall, FsCall, MmCall,
       ProgCall, Receives, Sends, ToldInv, Told, Leaving
  <2>10. Requested'
    BY <1>1, <1>2, <1>4, <2>1, <2>2, Pids, CallFacts DEF Ranges, Received,
       Called, SendersTo, RunInv, Blocked, TtyCall, MmCall, Receives, Sends,
       Requested, Serving
  <2>11. JobInv'
    BY <1>1, <1>2, <1>4, <2>1, <2>2, Pids, CallFacts DEF Ranges, Received,
       Called, SendersTo, RunInv, Blocked, TtyCall, MmCall, Receives, Sends,
       JobInv, Loading, Gone
  <2>12. TtyWaits'
    BY <1>1, <1>2, <1>4, <2>1, <2>2, Pids, CallFacts DEF Ranges, Received,
       Called, SendersTo, RunInv, Blocked, TtyCall, MmCall, Receives, Sends,
       TtyWaits, ForTty, Serving, Loading, AwaitsMm
  <2>13. AnswerInv'
    BY <1>1, <1>2, <1>4, <2>1, <2>2, Pids, CallFacts DEF Received, Called,
       SendersTo, Ranges, RunInv, Blocked, InputCall, TtyCall, FsCall, MmCall,
       ProgCall, Receives, Sends, AnswerInv, Answering
  <2> QED  BY <2>6, <2>7, <2>8, <2>9, <2>10, <2>11, <2>12, <2>13 DEF RunInv
<1> QED  BY <1>3, <1>4, CallFacts DEF InputReceive, Goto

\* It sends a key to the terminal.
LEMMA InputDrainKeeps ==
    ASSUME LifeInv, InputDrain
    PROVE  LifeInv'
<1>1. /\ Ranges /\ RunInv /\ kernel = "run" /\ ChildInv /\ MemInv
      /\ s.ready = INPUT /\ pc[INPUT] = "drain" /\ INPUT \in Procs
      /\ UNCHANGED <<child, used, bitmap, base, job>>
  BY Pids DEF LifeInv, InputDrain, From, memVars
<1>2. st[INPUT] = Run
  BY <1>1, Runs
<1>3. ASSUME UNCHANGED ipcVars, pc' = [pc EXCEPT ![INPUT] = "recv"] PROVE LifeInv'
  <2>1. Loaded' = Loaded /\ Busy' = Busy /\ UNCHANGED <<s, st, msg, kernel>>
    BY <1>1, <1>3, Pids DEF Loaded, Busy, Ranges, ipcVars
  <2>2. Ranges'
    BY <1>1, <1>2, <1>3, <2>1, Pids DEF Ranges
  <2>3. ChildInv'
    BY <1>1, <1>2, <1>3, <2>1, Pids DEF Ranges, ChildInv
  <2>4. MemInv'
    BY <1>1, <1>3, <2>1, Pids DEF MemInv, Loading, First
  <2> SUFFICES ASSUME kernel' = "run" PROVE RunInv'
    BY <2>2, <2>3, <2>4 DEF LifeInv
  <2>5. Order(s, st, Busy, job.src)'
    BY <1>1, <2>1 DEF RunInv
  <2>6. Blocked'
    BY <1>1, <1>2, <1>3, <2>1, Pids, CallFacts DEF Ranges, RunInv, Blocked,
       InputCall, TtyCall, FsCall, MmCall, ProgCall, Receives, Sends
  <2>7. Served'
    BY <1>1, <1>2, <1>3, <2>1, Pids DEF Ranges, RunInv, Served
  <2>8. ToldInv'
    BY <1>1, <1>2, <1>3, <2>1, Pids DEF Ranges, RunInv, ToldInv, Told, Leaving
  <2>9. Requested'
    BY <1>1, <1>2, <1>3, <2>1, Pids DEF Ranges, RunInv, Requested, Serving
  <2>10. JobInv'
    BY <1>1, <1>2, <1>3, <2>1, Pids DEF Ranges, RunInv, JobInv, Loading, Gone
  <2>11. TtyWaits'
    BY <1>1, <1>2, <1>3, <2>1, Pids DEF Ranges, RunInv, TtyWaits, ForTty,
       Serving, Loading, AwaitsMm
  <2>12. AnswerInv'
    BY <1>1, <1>2, <1>3, <2>1, Pids DEF Ranges, RunInv, AnswerInv, Answering
  <2> QED  BY <2>5, <2>6, <2>7, <2>8, <2>9, <2>10, <2>11, <2>12 DEF RunInv
<1>4. ASSUME NEW m, m.source = INPUT, Send(INPUT, TTY, m), pc' = pc PROVE LifeInv'
  <2>1. Loaded' = Loaded /\ Busy' = Busy
    BY <1>1, <1>4, Pids DEF Loaded, Busy, Ranges
  <2>2. Sent(INPUT, TTY, m) /\ (kernel' = "run" => Order(s', st', Busy, job.src))
    BY <1>1, <1>4, Pids, SendCases
  <2>3. Ranges'
    BY <1>1, <1>2, <1>4, <2>1, <2>2, Pids DEF Ranges, Sent, Called, Awaits
  <2>4. ChildInv'
    BY <1>1, <1>2, <1>4, <2>1, <2>2, Pids, CallFacts DEF Ranges, Sent, Called,
       Awaits, RunInv, ChildInv
  <2>5. MemInv'
    BY <1>1, <1>4, <2>1, Pids DEF MemInv, Loading, First
  <2> SUFFICES ASSUME kernel' = "run" PROVE RunInv'
    BY <2>3, <2>4, <2>5 DEF LifeInv
  <2>6. Order(s, st, Busy, job.src)'
    BY <1>1, <2>1, <2>2
  <2>7. Blocked'
    BY <1>1, <1>2, <1>4, <2>1, <2>2, Pids, CallFacts DEF Sent, Called, Awaits,
       Ranges, RunInv, Blocked, InputCall, TtyCall, FsCall, MmCall, ProgCall,
       Receives, Sends
  <2>8. Served'
    BY <1>1, <1>2, <1>4, <2>1, <2>2, Pids DEF Ranges, Sent, Called, Awaits,
       RunInv, Served
  <2>9. ToldInv'
    BY <1>1, <1>2, <1>4, <2>1, <2>2, Pids, CallFacts DEF Ranges, Sent, Called,
       Awaits, RunInv, ToldInv, Told, Leaving
  <2>10. Requested'
    BY <1>1, <1>2, <1>4, <2>1, <2>2, Pids DEF Ranges, Sent, Called, Awaits,
       RunInv, Requested, Serving
  <2>11. JobInv'
    BY <1>1, <1>2, <1>4, <2>1, <2>2, Pids DEF Ranges, Sent, Called, Awaits,
       RunInv, JobInv, Loading, Gone
  <2>12. TtyWaits'
    BY <1>1, <1>2, <1>4, <2>1, <2>2, Pids, CallFacts DEF Ranges, Sent, Called,
       Awaits, RunInv, Blocked, TtyCall, MmCall, Receives, Sends, TtyWaits,
       ForTty, Serving, Loading, AwaitsMm
  <2>13. AnswerInv'
    BY <1>1, <1>2, <1>4, <2>1, <2>2, Pids, CallFacts DEF Ranges, Sent, Called,
       Awaits, RunInv, Blocked, TtyCall, MmCall, Receives, Sends, AnswerInv,
       Answering
  <2> QED  BY <2>6, <2>7, <2>8, <2>9, <2>10, <2>11, <2>12, <2>13 DEF RunInv
<1> QED  BY <1>3, <1>4, CallFacts DEF InputDrain, Goto

\* terminal_main() waits for a message, having handled the last one.
LEMMA TtyReceiveKeeps ==
    ASSUME LifeInv, TtyReceive
    PROVE  LifeInv'
<1>1. /\ Ranges /\ RunInv /\ kernel = "run" /\ ChildInv /\ MemInv
      /\ s.ready = TTY /\ pc' = [pc EXCEPT ![TTY] = "handle"]
      /\ \/ pc[TTY] = "recv" /\ child' = child
         \/ pc[TTY] = "handle" /\ child' = (IF msg[TTY].source = child THEN NO_TASK ELSE child)
         \/ /\ pc[TTY] = "answered"
            /\ child' = IF msg[TTY].pid = NO_TASK THEN child ELSE msg[TTY].pid
      /\ UNCHANGED <<used, bitmap, base, job>>
      /\ Receive(TTY, ANY)
  BY DEF LifeInv, TtyReceive, From, Goto, memVars, ChildAfter
<1>2. TTY \in Procs /\ TTY \in Busy /\ st[TTY] = Run
  BY <1>1, Pids, Runs
<1>3. /\ Received(TTY, ANY)
      /\ kernel' = "run" => Order(s', st', Busy, job.src)
  BY <1>1, <1>2, Pids, ReceiveCases
<1>4. Loaded' = Loaded /\ Busy' = Busy
  BY <1>1, Pids DEF Loaded, Busy, Ranges
<1>5. Ranges'
  BY <1>1, <1>2, <1>3, <1>4, Pids, CallFacts DEF Ranges, Received, Called,
     SendersTo, RunInv, AnswerInv
<1>6. ChildInv'
  BY <1>1, <1>2, <1>3, <1>4, Pids, CallFacts DEF Ranges, Received, Called,
     SendersTo, RunInv, ChildInv, AnswerInv, Answering
<1>7. MemInv'
  BY <1>1, <1>4, Pids DEF MemInv, Loading, First
<1> SUFFICES ASSUME kernel' = "run" PROVE RunInv'
  BY <1>5, <1>6, <1>7 DEF LifeInv
<1>8. Order(s, st, Busy, job.src)'
  BY <1>1, <1>3, <1>4
<1>9. Blocked'
  BY <1>1, <1>2, <1>3, <1>4, Pids, CallFacts DEF Received, Called, SendersTo,
     Ranges, RunInv, Blocked, InputCall, TtyCall, FsCall, MmCall, ProgCall,
     Receives, Sends
<1>10. Served'
  BY <1>1, <1>2, <1>3, <1>4, Pids, CallFacts DEF Received, Called, SendersTo,
     Ranges, RunInv, Blocked, InputCall, TtyCall, FsCall, MmCall, ProgCall,
     Receives, Sends, Served
<1>11. ToldInv'
  BY <1>1, <1>2, <1>3, <1>4, Pids, CallFacts DEF Received, Called, SendersTo,
     Ranges, RunInv, Blocked, InputCall, TtyCall, FsCall, MmCall, ProgCall,
     Receives, Sends, ToldInv, Told, Leaving, AnswerInv, Answering
<1>12. Requested'
  BY <1>1, <1>2, <1>3, <1>4, Pids, CallFacts DEF Ranges, Received, Called,
     SendersTo, RunInv, Blocked, TtyCall, MmCall, Receives, Sends, Requested,
     Serving
<1>13. JobInv'
  BY <1>1, <1>2, <1>3, <1>4, Pids, CallFacts DEF Ranges, Received, Called,
     SendersTo, RunInv, Blocked, TtyCall, MmCall, Receives, Sends, JobInv,
     Loading, Gone
<1>14. TtyWaits'
  BY <1>1, <1>2, <1>3, <1>4, Pids DEF Ranges, Received, Called, SendersTo, RunInv,
     TtyWaits, ForTty, Serving, Loading, AwaitsMm
<1>15. AnswerInv'
  BY <1>1, <1>2, <1>3, <1>4, Pids, CallFacts DEF Ranges, Received, Called,
     SendersTo, RunInv, AnswerInv, Answering, TtyWaits, ForTty, Serving, Loading,
     AwaitsMm, JobInv, Gone
<1> QED  BY <1>8, <1>9, <1>10, <1>11, <1>12, <1>13, <1>14, <1>15 DEF RunInv

\* terminal_main() passes a key on to its program.
LEMMA TtyForwardKeeps ==
    ASSUME LifeInv, TtyForward
    PROVE  LifeInv'
<1>1. /\ Ranges /\ RunInv /\ kernel = "run" /\ ChildInv /\ MemInv
      /\ s.ready = TTY /\ pc[TTY] = "handle" /\ pc' = [pc EXCEPT ![TTY] = "recv"]
      /\ UNCHANGED <<child, used, bitmap, base, job>>
      /\ child \in Programs /\ msg[TTY].source = INPUT
      /\ Send(TTY, child, Msg(TTY, msg[TTY].what, NO_TASK))
  BY DEF LifeInv, TtyForward, From, Goto, memVars, Forwards, Ranges
<1>2. TTY \in Procs /\ TTY \in Busy /\ st[TTY] = Run
  BY <1>1, Pids, Runs
<1>3. /\ Sent(TTY, child, Msg(TTY, msg[TTY].what, NO_TASK))
      /\ kernel' = "run" => Order(s', st', Busy, job.src)
  BY <1>1, <1>2, Pids, SendCases
<1>4. Loaded' = Loaded /\ Busy' = Busy
  BY <1>1, Pids DEF Loaded, Busy, Ranges
<1>5. Ranges'
  BY <1>1, <1>2, <1>3, <1>4, Pids DEF Ranges, Sent, Called, Awaits
<1>6. ChildInv'
  BY <1>1, <1>2, <1>3, <1>4, Pids DEF Ranges, Sent, Called, Awaits, ChildInv
<1>7. MemInv'
  BY <1>1, <1>4, Pids DEF MemInv, Loading, First
<1> SUFFICES ASSUME kernel' = "run" PROVE RunInv'
  BY <1>5, <1>6, <1>7 DEF LifeInv
<1>8. Order(s, st, Busy, job.src)'
  BY <1>1, <1>3, <1>4
<1>9. Blocked'
  BY <1>1, <1>2, <1>3, <1>4, Pids, CallFacts DEF Sent, Called, Awaits, Ranges,
     RunInv, Blocked, InputCall, TtyCall, FsCall, MmCall, ProgCall, Receives,
     Sends
<1>10. Served'
  BY <1>1, <1>2, <1>3, <1>4, Pids DEF Ranges, Sent, Called, Awaits, RunInv, Served
<1>11. ToldInv'
  BY <1>1, <1>2, <1>3, <1>4, Pids, CallFacts DEF Sent, Called, Awaits, Ranges,
     RunInv, Blocked, InputCall, TtyCall, FsCall, MmCall, ProgCall, Receives,
     Sends, ToldInv, Told, Leaving
<1>12. Requested'
  BY <1>1, <1>2, <1>3, <1>4, Pids DEF Ranges, Sent, Called, Awaits, RunInv,
     Requested, Serving
<1>13. JobInv'
  BY <1>1, <1>2, <1>3, <1>4, Pids DEF Ranges, Sent, Called, Awaits, RunInv,
     JobInv, Loading, Gone
<1>14. TtyWaits'
  BY <1>1, <1>2, <1>3, <1>4, Pids DEF Ranges, Sent, Called, Awaits, RunInv,
     TtyWaits, ForTty, Serving, Loading, AwaitsMm
<1>15. AnswerInv'
  BY <1>1, <1>2, <1>3, <1>4, Pids, CallFacts DEF Ranges, Sent, Called, Awaits,
     RunInv, AnswerInv, Answering, TtyWaits, ForTty, Serving, Loading, AwaitsMm
<1> QED  BY <1>8, <1>9, <1>10, <1>11, <1>12, <1>13, <1>14, <1>15 DEF RunInv

\* terminal_run() asks the memory server for the program.
LEMMA TtyStartKeeps ==
    ASSUME LifeInv, TtyStart
    PROVE  LifeInv'
<1>1. /\ Ranges /\ RunInv /\ kernel = "run" /\ ChildInv /\ MemInv
      /\ s.ready = TTY /\ pc[TTY] = "handle" /\ pc' = [pc EXCEPT ![TTY] = "started"]
      /\ UNCHANGED <<child, used, bitmap, base, job>>
      /\ child = NO_TASK
      /\ Send(TTY, MM, Msg(TTY, "execute", NO_TASK))
  BY DEF LifeInv, TtyStart, From, Goto, memVars, Starts
<1>2. TTY \in Procs /\ TTY \in Busy /\ st[TTY] = Run
  BY <1>1, Pids, Runs
<1>3. /\ Sent(TTY, MM, Msg(TTY, "execute", NO_TASK))
      /\ kernel' = "run" => Order(s', st', Busy, job.src)
  BY <1>1, <1>2, Pids, SendCases
<1>4. Loaded' = Loaded /\ Busy' = Busy
  BY <1>1, Pids DEF Loaded, Busy, Ranges
<1>5. Ranges'
  BY <1>1, <1>2, <1>3, <1>4, Pids DEF Ranges, Sent, Called, Awaits
<1>6. ChildInv'
  BY <1>1, <1>2, <1>3, <1>4, Pids DEF Ranges, Sent, Called, Awaits, ChildInv
<1>7. MemInv'
  BY <1>1, <1>4, Pids DEF MemInv, Loading, First
<1> SUFFICES ASSUME kernel' = "run" PROVE RunInv'
  BY <1>5, <1>6, <1>7 DEF LifeInv
<1>8. Order(s, st, Busy, job.src)'
  BY <1>1, <1>3, <1>4
<1>9. Blocked'
  BY <1>1, <1>2, <1>3, <1>4, Pids, CallFacts DEF Sent, Called, Awaits, Ranges,
     RunInv, Blocked, InputCall, TtyCall, FsCall, MmCall, ProgCall, Receives,
     Sends
<1>10. Served'
  BY <1>1, <1>2, <1>3, <1>4, Pids DEF Ranges, Sent, Called, Awaits, RunInv, Served
<1>11. ToldInv'
  BY <1>1, <1>2, <1>3, <1>4, Pids DEF Ranges, Sent, Called, Awaits, RunInv,
     ToldInv, Told, Leaving
<1>12. Requested'
  BY <1>1, <1>2, <1>3, <1>4, Pids, CallFacts DEF Ranges, Sent, Called, Awaits,
     RunInv, Requested, Serving
<1>13. JobInv'
  BY <1>1, <1>2, <1>3, <1>4, Pids, CallFacts DEF Ranges, Sent, Called, Awaits,
     RunInv, Blocked, TtyCall, MmCall, Receives, Sends, JobInv, Loading, Gone
<1>14. TtyWaits'
  BY <1>1, <1>2, <1>3, <1>4, Pids DEF Ranges, Sent, Called, Awaits, RunInv,
     TtyWaits, ForTty, Serving, Loading, AwaitsMm
<1>15. AnswerInv'
  BY <1>1, <1>2, <1>3, <1>4, Pids, CallFacts DEF Ranges, Sent, Called, Awaits,
     RunInv, AnswerInv, Answering
<1> QED  BY <1>8, <1>9, <1>10, <1>11, <1>12, <1>13, <1>14, <1>15 DEF RunInv

\* terminal_run() waits for the answer.
LEMMA TtyStartedKeeps ==
    ASSUME LifeInv, TtyStarted
    PROVE  LifeInv'
<1>1. /\ Ranges /\ RunInv /\ kernel = "run" /\ ChildInv /\ MemInv
      /\ s.ready = TTY /\ pc[TTY] = "started" /\ pc' = [pc EXCEPT ![TTY] = "answered"]
      /\ UNCHANGED <<child, used, bitmap, base, job>>
      /\ Receive(TTY, MM)
  BY DEF LifeInv, TtyStarted, From, Goto, memVars
<1>2. TTY \in Procs /\ TTY \in Busy /\ st[TTY] = Run
  BY <1>1, Pids, Runs
<1>3. /\ Received(TTY, MM)
      /\ kernel' = "run" => Order(s', st', Busy, job.src)
  BY <1>1, <1>2, Pids, ReceiveCases
<1>4. Loaded' = Loaded /\ Busy' = Busy
  BY <1>1, Pids DEF Loaded, Busy, Ranges
<1>5. Ranges'
  BY <1>1, <1>2, <1>3, <1>4, Pids DEF Ranges, Received, Called, SendersTo
<1>6. ChildInv'
  BY <1>1, <1>2, <1>3, <1>4, Pids DEF Ranges, Received, Called, SendersTo,
     ChildInv
<1>7. MemInv'
  BY <1>1, <1>4, Pids DEF MemInv, Loading, First
<1> SUFFICES ASSUME kernel' = "run" PROVE RunInv'
  BY <1>5, <1>6, <1>7 DEF LifeInv
<1>8. Order(s, st, Busy, job.src)'
  BY <1>1, <1>3, <1>4
<1>9. Blocked'
  BY <1>1, <1>2, <1>3, <1>4, Pids, CallFacts DEF Received, Called, SendersTo,
     Ranges, RunInv, Blocked, InputCall, TtyCall, FsCall, MmCall, ProgCall,
     Receives, Sends
<1>10. Served'
  BY <1>1, <1>2, <1>3, <1>4, Pids DEF Ranges, Received, Called, SendersTo, RunInv,
     Served
<1>11. ToldInv'
  BY <1>1, <1>2, <1>3, <1>4, Pids DEF Ranges, Received, Called, SendersTo, RunInv,
     ToldInv, Told, Leaving
<1>12. Requested'
  BY <1>1, <1>2, <1>3, <1>4, Pids, CallFacts DEF Ranges, Received, Called,
     SendersTo, RunInv, Blocked, TtyCall, MmCall, Receives, Sends, Requested,
     Serving
<1>13. JobInv'
  BY <1>1, <1>2, <1>3, <1>4, Pids, CallFacts DEF Ranges, Received, Called,
     SendersTo, RunInv, Blocked, TtyCall, MmCall, Receives, Sends, JobInv,
     Loading, Gone
<1>14. TtyWaits'
  BY <1>1, <1>2, <1>3, <1>4, Pids, CallFacts DEF Ranges, Received, Called,
     SendersTo, RunInv, Blocked, TtyCall, MmCall, Receives, Sends, TtyWaits,
     ForTty, Serving, Loading, AwaitsMm
<1>15. AnswerInv'
  BY <1>1, <1>2, <1>3, <1>4, Pids, CallFacts DEF Ranges, Received, Called,
     SendersTo, RunInv, Blocked, TtyCall, MmCall, Receives, Sends, AnswerInv,
     Answering
<1> QED  BY <1>8, <1>9, <1>10, <1>11, <1>12, <1>13, <1>14, <1>15 DEF RunInv

\* The file system server waits for a request.
LEMMA FsReceiveKeeps ==
    ASSUME LifeInv, FsReceive
    PROVE  LifeInv'
<1>1. /\ Ranges /\ RunInv /\ kernel = "run" /\ ChildInv /\ MemInv
      /\ s.ready = FS /\ pc[FS] = "recv" /\ pc' = [pc EXCEPT ![FS] = "answer"]
      /\ UNCHANGED <<child, used, bitmap, base, job>>
      /\ Receive(FS, ANY)
  BY DEF LifeInv, FsReceive, From, Goto, memVars
<1>2. FS \in Procs /\ FS \in Busy /\ st[FS] = Run
  BY <1>1, Pids, Runs
<1>3. /\ Received(FS, ANY)
      /\ kernel' = "run" => Order(s', st', Busy, job.src)
  BY <1>1, <1>2, Pids, ReceiveCases
<1>4. Loaded' = Loaded /\ Busy' = Busy
  BY <1>1, Pids DEF Loaded, Busy, Ranges
<1>5. Ranges'
  BY <1>1, <1>2, <1>3, <1>4, Pids DEF Ranges, Received, Called, SendersTo
<1>6. ChildInv'
  BY <1>1, <1>2, <1>3, <1>4, Pids DEF Ranges, Received, Called, SendersTo,
     ChildInv
<1>7. MemInv'
  BY <1>1, <1>4, Pids DEF MemInv, Loading, First
<1> SUFFICES ASSUME kernel' = "run" PROVE RunInv'
  BY <1>5, <1>6, <1>7 DEF LifeInv
<1>8. Order(s, st, Busy, job.src)'
  BY <1>1, <1>3, <1>4
<1>9. Blocked'
  BY <1>1, <1>2, <1>3, <1>4, Pids, CallFacts DEF Received, Called, SendersTo,
     Ranges, RunInv, Blocked, InputCall, TtyCall, FsCall, MmCall, ProgCall,
     Receives, Sends
<1>10. Served'
  BY <1>1, <1>2, <1>3, <1>4, Pids, CallFacts DEF Received, Called, SendersTo,
     Ranges, RunInv, Blocked, InputCall, TtyCall, FsCall, MmCall, ProgCall,
     Receives, Sends, Served
<1>11. ToldInv'
  BY <1>1, <1>2, <1>3, <1>4, Pids, CallFacts DEF Received, Called, SendersTo,
     Ranges, RunInv, Blocked, InputCall, TtyCall, FsCall, MmCall, ProgCall,
     Receives, Sends, ToldInv, Told, Leaving
<1>12. Requested'
  BY <1>1, <1>2, <1>3, <1>4, Pids, CallFacts DEF Ranges, Received, Called,
     SendersTo, RunInv, Blocked, TtyCall, MmCall, Receives, Sends, Requested,
     Serving
<1>13. JobInv'
  BY <1>1, <1>2, <1>3, <1>4, Pids, CallFacts DEF Ranges, Received, Called,
     SendersTo, RunInv, Blocked, TtyCall, MmCall, Receives, Sends, JobInv,
     Loading, Gone
<1>14. TtyWaits'
  BY <1>1, <1>2, <1>3, <1>4, Pids, CallFacts DEF Ranges, Received, Called,
     SendersTo, RunInv, Blocked, TtyCall, MmCall, Receives, Sends, TtyWaits,
     ForTty, Serving, Loading, AwaitsMm
<1>15. AnswerInv'
  BY <1>1, <1>2, <1>3, <1>4, Pids, CallFacts DEF Received, Called, SendersTo,
     Ranges, RunInv, Blocked, InputCall, TtyCall, FsCall, MmCall, ProgCall,
     Receives, Sends, AnswerInv, Answering
<1> QED  BY <1>8, <1>9, <1>10, <1>11, <1>12, <1>13, <1>14, <1>15 DEF RunInv

\* ... and answers it.
LEMMA FsAnswerKeeps ==
    ASSUME LifeInv, FsAnswer
    PROVE  LifeInv'
<1>1. /\ Ranges /\ RunInv /\ kernel = "run" /\ ChildInv /\ MemInv
      /\ s.ready = FS /\ pc[FS] = "answer" /\ pc' = [pc EXCEPT ![FS] = "recv"]
      /\ UNCHANGED <<child, used, bitmap, base, job>>
      /\ Send(FS, msg[FS].source, Msg(FS, "file", NO_TASK))
  BY DEF LifeInv, FsAnswer, From, Goto, memVars
<1>2. FS \in Procs /\ FS \in Busy /\ st[FS] = Run
  BY <1>1, Pids, Runs
<1>3. msg[FS].source = MM
  BY <1>1, <1>2 DEF RunInv, Served
<1>4. /\ Sent(FS, MM, Msg(FS, "file", NO_TASK))
      /\ kernel' = "run" => Order(s', st', Busy, job.src)
  BY <1>1, <1>2, <1>3, Pids, SendCases
<1>5. Loaded' = Loaded /\ Busy' = Busy
  BY <1>1, Pids DEF Loaded, Busy, Ranges
<1>6. Ranges'
  BY <1>1, <1>2, <1>3, <1>4, <1>5, Pids DEF Ranges, Sent, Called, Awaits
<1>7. ChildInv'
  BY <1>1, <1>2, <1>3, <1>4, <1>5, Pids DEF Ranges, Sent, Called, Awaits, ChildInv
<1>8. MemInv'
  BY <1>1, <1>5, Pids DEF MemInv, Loading, First
<1> SUFFICES ASSUME kernel' = "run" PROVE RunInv'
  BY <1>6, <1>7, <1>8 DEF LifeInv
<1>9. Order(s, st, Busy, job.src)'
  BY <1>1, <1>4, <1>5
<1>10. Blocked'
  BY <1>1, <1>2, <1>3, <1>4, <1>5, Pids, CallFacts DEF Sent, Called, Awaits,
     Ranges, RunInv, Blocked, InputCall, TtyCall, FsCall, MmCall, ProgCall,
     Receives, Sends
<1>11. Served'
  BY <1>1, <1>2, <1>3, <1>4, <1>5, Pids DEF Ranges, Sent, Called, Awaits, RunInv,
     Served
<1>12. ToldInv'
  BY <1>1, <1>2, <1>3, <1>4, <1>5, Pids DEF Ranges, Sent, Called, Awaits, RunInv,
     ToldInv, Told, Leaving
<1>13. Requested'
  BY <1>1, <1>2, <1>3, <1>4, <1>5, Pids, CallFacts DEF Ranges, Sent, Called,
     Awaits, RunInv, Requested, Serving
<1>14. JobInv'
  BY <1>1, <1>2, <1>3, <1>4, <1>5, Pids, CallFacts DEF Ranges, Sent, Called,
     Awaits, RunInv, Blocked, TtyCall, MmCall, Receives, Sends, JobInv, Loading,
     Gone
<1>15. TtyWaits'
  BY <1>1, <1>2, <1>3, <1>4, <1>5, Pids, CallFacts DEF Ranges, Sent, Called,
     Awaits, RunInv, TtyWaits, ForTty, Serving, Loading, AwaitsMm
<1>16. AnswerInv'
  BY <1>1, <1>2, <1>3, <1>4, <1>5, Pids, CallFacts DEF Ranges, Sent, Called,
     Awaits, RunInv, AnswerInv, Answering
<1> QED  BY <1>9, <1>10, <1>11, <1>12, <1>13, <1>14, <1>15, <1>16 DEF RunInv

\* The memory server waits for a request.
LEMMA MmReceiveKeeps ==
    ASSUME LifeInv, MmReceive
    PROVE  LifeInv'
<1>1. /\ Ranges /\ RunInv /\ kernel = "run" /\ ChildInv /\ MemInv
      /\ s.ready = MM /\ pc[MM] = "recv" /\ pc' = [pc EXCEPT ![MM] = "serve"]
      /\ UNCHANGED <<child, used, bitmap, base, job>>
      /\ Receive(MM, ANY)
  BY DEF LifeInv, MmReceive, From, Goto, memVars
<1>2. MM \in Procs /\ MM \in Busy /\ st[MM] = Run
  BY <1>1, Pids, Runs
<1>3. /\ Received(MM, ANY)
      /\ kernel' = "run" => Order(s', st', Busy, job.src)
  BY <1>1, <1>2, Pids, ReceiveCases
<1>4. Loaded' = Loaded /\ Busy' = Busy
  BY <1>1, Pids DEF Loaded, Busy, Ranges
<1>5. \A u \in Programs : st[u].op # "run" => u \in Loaded
  BY <1>1, <1>2, Pids, CallFacts
     DEF RunInv, JobInv, Gone, Order, Outside
<1>6. Ranges'
  BY <1>1, <1>2, <1>3, <1>4, <1>5, Pids DEF Ranges, Received, Called, SendersTo
<1>7. ChildInv'
  BY <1>1, <1>2, <1>3, <1>4, <1>5, Pids DEF Ranges, Received, Called, SendersTo,
     ChildInv
<1>8. MemInv'
  BY <1>1, <1>4, Pids DEF MemInv, Loading, First
<1> SUFFICES ASSUME kernel' = "run" PROVE RunInv'
  BY <1>6, <1>7, <1>8 DEF LifeInv
<1>9. Order(s, st, Busy, job.src)'
  BY <1>1, <1>3, <1>4
<1>10. Blocked'
  BY <1>1, <1>2, <1>3, <1>4, <1>5, Pids, CallFacts DEF Received, Called,
     SendersTo, Ranges, RunInv, Blocked, InputCall, TtyCall, FsCall, MmCall,
     ProgCall, Receives, Sends
<1>11. Served'
  BY <1>1, <1>2, <1>3, <1>4, <1>5, Pids, CallFacts DEF Received, Called,
     SendersTo, Ranges, RunInv, Blocked, InputCall, TtyCall, FsCall, MmCall,
     ProgCall, Receives, Sends, Served
<1>12. ToldInv'
  BY <1>1, <1>2, <1>3, <1>4, <1>5, Pids, CallFacts DEF Received, Called,
     SendersTo, Ranges, RunInv, Blocked, InputCall, TtyCall, FsCall, MmCall,
     ProgCall, Receives, Sends, ToldInv, Told, Leaving
<1>13. Requested'
  BY <1>1, <1>2, <1>3, <1>4, <1>5, Pids, CallFacts DEF Received, Called,
     SendersTo, Ranges, RunInv, Blocked, InputCall, TtyCall, FsCall, MmCall,
     ProgCall, Receives, Sends, Requested, Serving, JobInv, Gone
<1>14. JobInv'
  BY <1>1, <1>2, <1>3, <1>4, <1>5, Pids DEF Ranges, Received, Called, SendersTo,
     RunInv, JobInv, Loading, Gone
<1>15. TtyWaits'
  BY <1>1, <1>2, <1>3, <1>4, <1>5, Pids, CallFacts DEF Received, Called,
     SendersTo, Ranges, RunInv, Blocked, InputCall, TtyCall, FsCall, MmCall,
     ProgCall, Receives, Sends, TtyWaits, ForTty, Serving, Loading, AwaitsMm,
     Requested
<1>16. AnswerInv'
  BY <1>1, <1>2, <1>3, <1>4, <1>5, Pids, CallFacts DEF Received, Called,
     SendersTo, Ranges, RunInv, Blocked, InputCall, TtyCall, FsCall, MmCall,
     ProgCall, Receives, Sends, AnswerInv, Answering
<1> QED  BY <1>9, <1>10, <1>11, <1>12, <1>13, <1>14, <1>15, <1>16 DEF RunInv

\* execute() takes a PCB and a block of memory.
LEMMA MmExecuteKeeps ==
    ASSUME LifeInv, MmExecute
    PROVE  LifeInv'
<1>1. /\ Ranges /\ RunInv /\ kernel = "run" /\ ChildInv /\ MemInv
      /\ s.ready = MM /\ pc[MM] = "serve" /\ msg[MM].what = "execute"
      /\ UNCHANGED <<child, base>>
  BY DEF LifeInv, MmExecute, From
<1>2. MM \in Procs /\ FS \in Procs /\ MM \in Busy /\ st[MM] = Run
  BY <1>1, Pids, Runs
<1>3. msg[MM].source = TTY /\ job.src \notin Procs \ Busy
  BY <1>1, <1>2, Pids DEF RunInv, Requested, Serving, JobInv, Gone
<1>4. CASE kernel' = "fault" /\ UNCHANGED <<s, st, msg, pc, used, bitmap, job>>
  BY <1>1, <1>4 DEF LifeInv, Ranges, ChildInv, MemInv, Loaded, Loading
<1>5. SUFFICES ASSUME Unused # {},
                      used' = [used EXCEPT ![GetPcb] = TRUE],
                      bitmap' = bitmap \cup {GetMem},
                      job' = [src |-> TTY, pid |-> GetPcb, block |-> GetMem],
                      pc' = [pc EXCEPT ![MM] = "reading"],
                      Send(MM, FS, Msg(MM, "read", NO_TASK))
               PROVE  LifeInv'
  <2>1. PartlyFree # {}
    BY <1>1, MemoryIsLeft DEF MemInv
  <2> QED  BY <1>1, <1>3, <1>4, <2>1 DEF MmExecute, Goto
<1>6. GetPcb \in Programs /\ ~used[GetPcb]
  BY <1>5, PcbIsUnused
<1>7. GetMem = First
  BY <1>1, MemoryIsLeft DEF MemInv
<1>8. /\ Sent(MM, FS, Msg(MM, "read", NO_TASK))
      /\ kernel' = "run" => Order(s', st', Busy, job.src)
  BY <1>1, <1>2, <1>5, SendCases
<1>9. /\ job'.src = TTY /\ job'.pid = GetPcb /\ job'.block = First
      /\ pc'[MM] = "reading" /\ \A x \in Procs \ {MM} : pc'[x] = pc[x]
  BY <1>1, <1>2, <1>5, <1>7 DEF Ranges
<1>10. Loaded' = Loaded /\ Busy' = Busy
  <2>1. \A u \in Programs : u \in Loaded' <=> u \in Loaded
    BY <1>1, <1>5, <1>6, <1>9, Pids DEF Loaded, Ranges
  <2> QED  BY <2>1 DEF Loaded, Busy
<1>11. ASSUME kernel' = "run" PROVE Order(s', st', Busy, TTY)
  BY <1>3, <1>8, <1>11 DEF Order, Outside
<1>12. Ranges'
  BY <1>1, <1>2, <1>3, <1>5, <1>6, <1>8, <1>9, <1>10, <1>7, FirstInNat, Pids,
     CallFacts DEF Ranges, Sent, Called, Awaits, RunInv
<1>13. ChildInv'
  BY <1>1, <1>2, <1>3, <1>5, <1>6, <1>8, <1>9, <1>10, Pids DEF Ranges, Sent,
     Called, Awaits, ChildInv
<1>14. MemInv'
  BY <1>1, <1>10, Pids, <1>5, <1>6, <1>7, <1>9 DEF MemInv, Loading, First
<1> SUFFICES ASSUME kernel' = "run" PROVE RunInv'
  BY <1>12, <1>13, <1>14 DEF LifeInv
<1>15. Order(s, st, Busy, job.src)'
  BY <1>9, <1>10, <1>11
<1>16. Blocked'
  BY <1>1, <1>2, <1>3, <1>5, <1>6, <1>8, <1>9, <1>10, Pids, CallFacts DEF Sent,
     Called, Awaits, Ranges, RunInv, Blocked, InputCall, TtyCall, FsCall, MmCall,
     ProgCall, Receives, Sends
<1>17. Served'
  BY <1>1, <1>2, <1>3, <1>5, <1>6, <1>8, <1>9, <1>10, Pids, CallFacts DEF Ranges,
     Sent, Called, Awaits, RunInv, Served
<1>18. ToldInv'
  BY <1>1, <1>2, <1>3, <1>5, <1>6, <1>8, <1>9, <1>10, Pids DEF Ranges, Sent,
     Called, Awaits, RunInv, ToldInv, Told, Leaving
<1>19. Requested'
  BY <1>1, <1>2, <1>3, <1>5, <1>6, <1>8, <1>9, <1>10, Pids DEF Ranges, Sent,
     Called, Awaits, RunInv, Requested, Serving
<1>20. JobInv'
  BY <1>1, <1>2, <1>3, <1>5, <1>6, <1>8, <1>9, <1>10, Pids DEF Ranges, Sent,
     Called, Awaits, RunInv, JobInv, Loading, Gone
<1>21. TtyWaits'
  BY <1>1, <1>2, <1>3, <1>5, <1>6, <1>8, <1>9, <1>10, Pids DEF Ranges, Sent,
     Called, Awaits, RunInv, TtyWaits, ForTty, Serving, Loading, AwaitsMm
<1>22. AnswerInv'
  BY <1>1, <1>2, <1>3, <1>5, <1>6, <1>8, <1>9, <1>10, Pids, CallFacts DEF Ranges,
     Sent, Called, Awaits, RunInv, AnswerInv, Answering, TtyWaits, ForTty,
     Serving, Loading, AwaitsMm
<1> QED  BY <1>15, <1>16, <1>17, <1>18, <1>19, <1>20, <1>21, <1>22 DEF RunInv

\* read_elf() waits for the file.
LEMMA MmReadingKeeps ==
    ASSUME LifeInv, MmReading
    PROVE  LifeInv'
<1>1. /\ Ranges /\ RunInv /\ kernel = "run" /\ ChildInv /\ MemInv
      /\ s.ready = MM /\ pc[MM] = "reading" /\ pc' = [pc EXCEPT ![MM] = "load"]
      /\ UNCHANGED <<child, used, bitmap, base, job>>
      /\ Receive(MM, FS)
  BY DEF LifeInv, MmReading, From, Goto, memVars
<1>2. MM \in Procs /\ MM \in Busy /\ st[MM] = Run
  BY <1>1, Pids, Runs
<1>3. /\ Received(MM, FS)
      /\ kernel' = "run" => Order(s', st', Busy, job.src)
  BY <1>1, <1>2, Pids, ReceiveCases
<1>4. Loaded' = Loaded /\ Busy' = Busy
  BY <1>1, Pids DEF Loaded, Busy, Ranges
<1>5. Ranges'
  BY <1>1, <1>2, <1>3, <1>4, Pids DEF Ranges, Received, Called, SendersTo
<1>6. ChildInv'
  BY <1>1, <1>2, <1>3, <1>4, Pids DEF Ranges, Received, Called, SendersTo,
     ChildInv
<1>7. MemInv'
  BY <1>1, <1>4, Pids DEF MemInv, Loading, First
<1> SUFFICES ASSUME kernel' = "run" PROVE RunInv'
  BY <1>5, <1>6, <1>7 DEF LifeInv
<1>8. Order(s, st, Busy, job.src)'
  BY <1>1, <1>3, <1>4
<1>9. Blocked'
  BY <1>1, <1>2, <1>3, <1>4, Pids, CallFacts DEF Received, Called, SendersTo,
     Ranges, RunInv, Blocked, InputCall, TtyCall, FsCall, MmCall, ProgCall,
     Receives, Sends
<1>10. Served'
  BY <1>1, <1>2, <1>3, <1>4, Pids, CallFacts DEF Received, Called, SendersTo,
     Ranges, RunInv, Blocked, InputCall, TtyCall, FsCall, MmCall, ProgCall,
     Receives, Sends, Served
<1>11. ToldInv'
  BY <1>1, <1>2, <1>3, <1>4, Pids DEF Ranges, Received, Called, SendersTo, RunInv,
     ToldInv, Told, Leaving
<1>12. Requested'
  BY <1>1, <1>2, <1>3, <1>4, Pids DEF Ranges, Received, Called, SendersTo, RunInv,
     Requested, Serving
<1>13. JobInv'
  BY <1>1, <1>2, <1>3, <1>4, Pids DEF Ranges, Received, Called, SendersTo, RunInv,
     JobInv, Loading, Gone
<1>14. TtyWaits'
  BY <1>1, <1>2, <1>3, <1>4, Pids DEF Ranges, Received, Called, SendersTo, RunInv,
     TtyWaits, ForTty, Serving, Loading, AwaitsMm
<1>15. AnswerInv'
  BY <1>1, <1>2, <1>3, <1>4, Pids, CallFacts DEF Ranges, Received, Called,
     SendersTo, RunInv, AnswerInv, Answering
<1> QED  BY <1>8, <1>9, <1>10, <1>11, <1>12, <1>13, <1>14, <1>15 DEF RunInv

\* execute() puts the loaded program into the pause queue.
LEMMA MmLoadKeeps ==
    ASSUME LifeInv, MmLoad
    PROVE  LifeInv'
<1>1. /\ Ranges /\ RunInv /\ kernel = "run" /\ ChildInv /\ MemInv
      /\ s.ready = MM /\ pc[MM] = "load"
      /\ pc' = [pc EXCEPT ![MM] = "answer", ![job.pid] = "recv"]
      /\ base' = [base EXCEPT ![job.pid] = job.block]
      /\ st' = [st EXCEPT ![job.pid] = Run] /\ s' = PEnqueue(s, job.pid)
      /\ UNCHANGED <<msg, child, used, bitmap, job>>
  BY DEF LifeInv, MmLoad, From, Relinked, RelinkedFor
<1>2. MM \in Procs /\ st[MM] = Run
  BY <1>1, Pids, Runs
<1>3. /\ job.src = TTY /\ job.pid \in Programs /\ used[job.pid]
      /\ job.pid \notin Loaded /\ job.pid \notin Busy
  BY <1>1, Pids DEF RunInv, JobInv, Loading, Loaded
<1>4. Loaded' = Loaded \cup {job.pid} /\ Busy' = Busy \cup {job.pid}
  BY <1>1, <1>3, Pids DEF Loaded, Busy, Ranges
<1>5. Order(s', st', Busy \cup {job.pid}, job.src)
  <2>1. /\ Order(s, st, Busy, job.src) /\ DOMAIN st = Procs /\ job.pid \in Procs
        /\ st' = Called(st, job.pid, Run) /\ s.ready \in Procs
    BY <1>1, <1>2, <1>3, Pids DEF RunInv, Ranges, Called
  <2>2. Order(PEnqueue(s, job.pid), Called(st, job.pid, Run), Busy \cup {job.pid}, job.src)
    BY <1>3, <2>1, OrderEnqueue
  <2> QED  BY <1>1, <2>1, <2>2
<1>6. Ranges'
  BY <1>1, <1>2, <1>3, <1>4, Pids DEF Ranges
<1>7. ChildInv'
  BY <1>1, <1>2, <1>3, <1>4, Pids DEF Ranges, ChildInv
<1>8. MemInv'
  BY <1>1, <1>4, Pids, <1>3 DEF MemInv, Loading, First
<1> SUFFICES ASSUME kernel' = "run" PROVE RunInv'
  BY <1>6, <1>7, <1>8 DEF LifeInv
<1>9. Order(s, st, Busy, job.src)'
  BY <1>1, <1>4, <1>5
<1>10. Blocked'
  BY <1>1, <1>2, <1>3, <1>4, Pids, CallFacts DEF Ranges, RunInv, Blocked,
     InputCall, TtyCall, FsCall, MmCall, ProgCall, Receives, Sends
<1>11. Served'
  BY <1>1, <1>2, <1>3, <1>4, Pids DEF Ranges, RunInv, Served
<1>12. ToldInv'
  BY <1>1, <1>2, <1>3, <1>4, Pids DEF Ranges, RunInv, ToldInv, Told, Leaving
<1>13. Requested'
  BY <1>1, <1>2, <1>3, <1>4, Pids DEF Ranges, RunInv, Requested, Serving
<1>14. JobInv'
  BY <1>1, <1>2, <1>3, <1>4, Pids DEF Ranges, RunInv, JobInv, Loading, Gone
<1>15. TtyWaits'
  BY <1>1, <1>2, <1>3, <1>4, Pids DEF Ranges, RunInv, TtyWaits, ForTty, Serving,
     Loading, AwaitsMm
<1>16. AnswerInv'
  BY <1>1, <1>2, <1>3, <1>4, Pids DEF Ranges, RunInv, AnswerInv, Answering
<1> QED  BY <1>9, <1>10, <1>11, <1>12, <1>13, <1>14, <1>15, <1>16 DEF RunInv

\* exit() frees the PCB and the memory of a program.
LEMMA MmExitKeeps ==
    ASSUME LifeInv, MmExit
    PROVE  LifeInv'
<1> DEFINE u == msg[MM].pid
<1>1. /\ Ranges /\ RunInv /\ kernel = "run" /\ ChildInv /\ MemInv
      /\ s.ready = MM /\ pc[MM] = "serve" /\ msg[MM].what = "exit"
      /\ pc' = [pc EXCEPT ![MM] = "answer"]
      /\ used' = [used EXCEPT ![u] = FALSE]
      /\ RelinkedFor(PDequeue(s, u), used') /\ bitmap' = bitmap \ {base[u]}
      /\ job' = [job EXCEPT !.src = msg[MM].source, !.pid = NO_TASK]
      /\ UNCHANGED <<st, msg, child, base>>
  BY DEF LifeInv, MmExit, From, Goto, FreeMem
<1>2. MM \in Procs /\ MM \in Busy /\ st[MM] = Run
  BY <1>1, Pids, Runs
<1>3. /\ u \in Loaded /\ u \in Programs /\ msg[MM].source = u /\ pc[u] \in {"last", "spin"}
      /\ job.src \notin Procs \ Busy
  BY <1>1, <1>2, Pids DEF RunInv, Requested, Serving, JobInv, Gone
<1> HIDE DEF u
<1>4. job'.src = u /\ job'.pid = NO_TASK
  BY <1>1, <1>3 DEF Ranges
<1>5. Loaded' = Loaded \ {u} /\ Busy' = Busy \ {u}
  <2>1. pc'[MM] = "answer" /\ used' \in [Programs -> BOOLEAN]
        /\ \A v \in Programs : used'[v] <=> used[v] /\ v # u
    BY <1>1, <1>2, <1>3 DEF Ranges
  <2>2. \A v \in Programs : v \in Loaded' <=> v \in Loaded /\ v # u
    BY <1>1, <2>1 DEF Loaded
  <2>3. Loaded' = Loaded \ {u}
    BY <2>2 DEF Loaded
  <2> QED  BY <1>3, <2>3, Pids DEF Busy, Servers
<1>6. ASSUME kernel' = "run" PROVE Order(s', st', Busy \ {u}, u)
  <2>1. s' = PDequeue(s, u) /\ ~Returned(PDequeue(s, u), used')
    BY <1>1, <1>6 DEF RelinkedFor
  <2>2. Order(s, st, Busy, job.src) /\ s.ready \in Procs /\ u \in Busy /\ u # s.ready
    BY <1>1, <1>2, <1>3, Pids DEF RunInv
  <2>3. u # s.pause
    <3>1. SUFFICES ASSUME u = s.pause PROVE FALSE
      OBVIOUS
    <3>2. InQueue(PDequeue(s, u), u)
      BY <2>2, <3>1, HeadStays DEF Order
    <3> QED  BY <1>1, <1>3, <2>1, <3>2 DEF Returned, Ranges
  <2> QED  BY <1>1, <1>3, <2>1, <2>2, <2>3, OrderDequeue
<1>7. Ranges'
  BY <1>1, <1>2, <1>3, <1>4, <1>5, Pids DEF Ranges
<1>8. ChildInv'
  BY <1>1, <1>2, <1>3, <1>4, <1>5, Pids, CallFacts DEF Ranges, RunInv, ChildInv,
     ToldInv, Told, Leaving
<1>9. MemInv'
  BY <1>1, <1>3, <1>4, <1>5, Pids, <1>2, FirstInNat DEF MemInv, Loading, First
<1> SUFFICES ASSUME kernel' = "run" PROVE RunInv'
  BY <1>7, <1>8, <1>9 DEF LifeInv
<1>10. Order(s, st, Busy, job.src)'
  BY <1>1, <1>4, <1>5, <1>6
<1>11. Blocked'
  BY <1>1, <1>2, <1>3, <1>4, <1>5, Pids, CallFacts DEF Ranges, RunInv, Blocked,
     InputCall, TtyCall, FsCall, MmCall, ProgCall, Receives, Sends
<1>12. Served'
  BY <1>1, <1>2, <1>3, <1>4, <1>5, Pids DEF Ranges, RunInv, Served
<1>13. ToldInv'
  BY <1>1, <1>2, <1>3, <1>4, <1>5, Pids DEF Ranges, RunInv, ToldInv, Told, Leaving
<1>14. Requested'
  BY <1>1, <1>2, <1>3, <1>4, <1>5, Pids DEF Ranges, RunInv, Requested, Serving
<1>15. JobInv'
  BY <1>1, <1>2, <1>3, <1>4, <1>5, Pids DEF Ranges, RunInv, JobInv, Loading, Gone
<1>16. TtyWaits'
  BY <1>1, <1>2, <1>3, <1>4, <1>5, Pids DEF Ranges, RunInv, TtyWaits, ForTty,
     Serving, Loading, AwaitsMm
<1>17. AnswerInv'
  BY <1>1, <1>2, <1>3, <1>4, <1>5, Pids DEF Ranges, RunInv, AnswerInv, Answering
<1> QED  BY <1>10, <1>11, <1>12, <1>13, <1>14, <1>15, <1>16, <1>17 DEF RunInv

\* The memory server answers.
LEMMA MmAnswerKeeps ==
    ASSUME LifeInv, MmAnswer
    PROVE  LifeInv'
<1>1. /\ Ranges /\ RunInv /\ kernel = "run" /\ ChildInv /\ MemInv
      /\ s.ready = MM /\ pc[MM] = "answer" /\ pc' = [pc EXCEPT ![MM] = "recv"]
      /\ UNCHANGED <<child, used, bitmap, base, job>>
      /\ Send(MM, job.src, Msg(MM, "answer", job.pid))
  BY DEF LifeInv, MmAnswer, From, Goto, memVars
<1>2. MM \in Procs /\ MM \in Busy /\ st[MM] = Run
  BY <1>1, Pids, Runs
<1>3. job.src \in Procs /\ (job.src \in Programs => job.src \notin Busy)
  BY <1>1, Pids DEF RunInv, JobInv, Ranges, Gone, Loaded
<1>4. /\ Sent(MM, job.src, Msg(MM, "answer", job.pid))
      /\ kernel' = "run" => Order(s', st', Busy, job.src)
  BY <1>1, <1>2, <1>3, Pids, SendCases
<1>5. Loaded' = Loaded /\ Busy' = Busy
  BY <1>1, Pids DEF Loaded, Busy, Ranges
<1>6. Ranges'
  BY <1>1, <1>2, <1>3, <1>4, <1>5, Pids DEF Ranges, Sent, Called, Awaits
<1>7. ChildInv'
  BY <1>1, <1>2, <1>3, <1>4, <1>5, Pids, CallFacts DEF Ranges, Sent, Called,
     Awaits, RunInv, ChildInv
<1>8. MemInv'
  BY <1>1, <1>5, Pids DEF MemInv, Loading, First
<1> SUFFICES ASSUME kernel' = "run" PROVE RunInv'
  BY <1>6, <1>7, <1>8 DEF LifeInv
<1>9. Order(s, st, Busy, job.src)'
  BY <1>1, <1>4, <1>5
<1>10. Blocked'
  BY <1>1, <1>2, <1>3, <1>4, <1>5, Pids, CallFacts DEF Sent, Called, Awaits,
     Ranges, RunInv, Blocked, InputCall, TtyCall, FsCall, MmCall, ProgCall,
     Receives, Sends
<1>11. Served'
  BY <1>1, <1>2, <1>3, <1>4, <1>5, Pids DEF Ranges, Sent, Called, Awaits, RunInv,
     Served
<1>12. ToldInv'
  BY <1>1, <1>2, <1>3, <1>4, <1>5, Pids, CallFacts DEF Ranges, Sent, Called,
     Awaits, RunInv, ToldInv, Told, Leaving
<1>13. Requested'
  BY <1>1, <1>2, <1>3, <1>4, <1>5, Pids DEF Ranges, Sent, Called, Awaits, RunInv,
     Requested, Serving
<1>14. JobInv'
  BY <1>1, <1>2, <1>3, <1>4, <1>5, Pids, CallFacts DEF Ranges, Sent, Called,
     Awaits, RunInv, JobInv, Loading, Gone
<1>15. TtyWaits'
  BY <1>1, <1>2, <1>3, <1>4, <1>5, Pids, CallFacts DEF Ranges, Sent, Called,
     Awaits, RunInv, TtyWaits, ForTty, Serving, Loading, AwaitsMm
<1>16. AnswerInv'
  BY <1>1, <1>2, <1>3, <1>4, <1>5, Pids, CallFacts DEF Ranges, Sent, Called,
     Awaits, RunInv, AnswerInv, Answering, TtyWaits, ForTty, Serving, Loading,
     AwaitsMm
<1> QED  BY <1>9, <1>10, <1>11, <1>12, <1>13, <1>14, <1>15, <1>16 DEF RunInv

\* A program waits for a message.
LEMMA ProgReceiveKeeps ==
    ASSUME LifeInv, NEW u \in Programs, ProgReceive(u)
    PROVE  LifeInv'
<1>1. /\ Ranges /\ RunInv /\ kernel = "run" /\ ChildInv /\ MemInv
      /\ s.ready = u /\ pc' = [pc EXCEPT ![u] = "handle"]
      /\ pc[u] \in {"recv", "handle"}
      /\ UNCHANGED <<child, used, bitmap, base, job>>
      /\ Receive(u, ANY)
  BY DEF LifeInv, ProgReceive, From, Goto, memVars
<1>2. u \in Procs /\ u \in Busy /\ st[u] = Run
  BY <1>1, Pids, Runs
<1>3. /\ Received(u, ANY)
      /\ kernel' = "run" => Order(s', st', Busy, job.src)
  BY <1>1, <1>2, Pids, ReceiveCases
<1>4. Loaded' = Loaded /\ Busy' = Busy
  BY <1>1, Pids DEF Loaded, Busy, Ranges
<1>5. job.src # u /\ u \in Loaded
  BY <1>1, <1>2, Pids DEF RunInv, JobInv, Gone, Loaded
<1>6. Ranges'
  BY <1>1, <1>2, <1>3, <1>4, <1>5, Pids DEF Ranges, Received, Called, SendersTo
<1>7. ChildInv'
  BY <1>1, <1>2, <1>3, <1>4, <1>5, Pids DEF Ranges, Received, Called, SendersTo,
     ChildInv
<1>8. MemInv'
  BY <1>1, <1>4, Pids DEF MemInv, Loading, First
<1> SUFFICES ASSUME kernel' = "run" PROVE RunInv'
  BY <1>6, <1>7, <1>8 DEF LifeInv
<1>9. Order(s, st, Busy, job.src)'
  BY <1>1, <1>3, <1>4
<1>10. Blocked'
  BY <1>1, <1>2, <1>3, <1>4, <1>5, Pids, CallFacts DEF Received, Called,
     SendersTo, Ranges, RunInv, Blocked, InputCall, TtyCall, FsCall, MmCall,
     ProgCall, Receives, Sends
<1>11. Served'
  BY <1>1, <1>2, <1>3, <1>4, <1>5, Pids, CallFacts DEF Received, Called,
     SendersTo, Ranges, RunInv, Blocked, InputCall, TtyCall, FsCall, MmCall,
     ProgCall, Receives, Sends, Served
<1>12. ToldInv'
  BY <1>1, <1>2, <1>3, <1>4, <1>5, Pids, CallFacts DEF Received, Called,
     SendersTo, Ranges, RunInv, Blocked, InputCall, TtyCall, FsCall, MmCall,
     ProgCall, Receives, Sends, ToldInv, Told, Leaving
<1>13. Requested'
  BY <1>1, <1>2, <1>3, <1>4, <1>5, Pids, CallFacts DEF Ranges, Received, Called,
     SendersTo, RunInv, Blocked, TtyCall, MmCall, Receives, Sends, Requested,
     Serving
<1>14. JobInv'
  BY <1>1, <1>2, <1>3, <1>4, <1>5, Pids, CallFacts DEF Ranges, Received, Called,
     SendersTo, RunInv, Blocked, TtyCall, MmCall, Receives, Sends, JobInv,
     Loading, Gone
<1>15. TtyWaits'
  BY <1>1, <1>2, <1>3, <1>4, <1>5, Pids, CallFacts DEF Ranges, Received, Called,
     SendersTo, RunInv, Blocked, TtyCall, MmCall, Receives, Sends, TtyWaits,
     ForTty, Serving, Loading, AwaitsMm
<1>16. AnswerInv'
  BY <1>1, <1>2, <1>3, <1>4, <1>5, Pids, CallFacts DEF Received, Called,
     SendersTo, Ranges, RunInv, Blocked, InputCall, TtyCall, FsCall, MmCall,
     ProgCall, Receives, Sends, AnswerInv, Answering, TtyWaits, ForTty, Serving,
     Loading, AwaitsMm
<1> QED  BY <1>9, <1>10, <1>11, <1>12, <1>13, <1>14, <1>15, <1>16 DEF RunInv

\* snake_exit() tells the terminal.
LEMMA ProgTellKeeps ==
    ASSUME LifeInv, NEW u \in Programs, ProgTell(u)
    PROVE  LifeInv'
<1>1. /\ Ranges /\ RunInv /\ kernel = "run" /\ ChildInv /\ MemInv
      /\ s.ready = u /\ pc[u] = "handle" /\ pc' = [pc EXCEPT ![u] = "exit"]
      /\ UNCHANGED <<child, used, bitmap, base, job>>
      /\ Send(u, TTY, Msg(u, "exit", u))
  BY DEF LifeInv, ProgTell, From, Goto, memVars
<1>2. u \in Procs /\ u \in Busy /\ st[u] = Run
  BY <1>1, Pids, Runs
<1>3. /\ Sent(u, TTY, Msg(u, "exit", u))
      /\ kernel' = "run" => Order(s', st', Busy, job.src)
  BY <1>1, <1>2, Pids, SendCases
<1>4. Loaded' = Loaded /\ Busy' = Busy
  BY <1>1, Pids DEF Loaded, Busy, Ranges
<1>5. job.src # u /\ u \in Loaded
  BY <1>1, <1>2, Pids DEF RunInv, JobInv, Gone, Loaded
<1>6. Ranges'
  BY <1>1, <1>2, <1>3, <1>4, <1>5, Pids DEF Ranges, Sent, Called, Awaits
<1>7. ChildInv'
  BY <1>1, <1>2, <1>3, <1>4, <1>5, Pids, CallFacts DEF Ranges, Sent, Called,
     Awaits, RunInv, ChildInv
<1>8. MemInv'
  BY <1>1, <1>4, Pids DEF MemInv, Loading, First
<1> SUFFICES ASSUME kernel' = "run" PROVE RunInv'
  BY <1>6, <1>7, <1>8 DEF LifeInv
<1>9. Order(s, st, Busy, job.src)'
  BY <1>1, <1>3, <1>4
<1>10. Blocked'
  BY <1>1, <1>2, <1>3, <1>4, <1>5, Pids, CallFacts DEF Sent, Called, Awaits,
     Ranges, RunInv, Blocked, InputCall, TtyCall, FsCall, MmCall, ProgCall,
     Receives, Sends
<1>11. Served'
  BY <1>1, <1>2, <1>3, <1>4, <1>5, Pids DEF Ranges, Sent, Called, Awaits, RunInv,
     Served
<1>12. ToldInv'
  BY <1>1, <1>2, <1>3, <1>4, <1>5, Pids, CallFacts DEF Ranges, Sent, Called,
     Awaits, RunInv, Blocked, TtyCall, MmCall, Receives, Sends, ToldInv, Told,
     Leaving
<1>13. Requested'
  BY <1>1, <1>2, <1>3, <1>4, <1>5, Pids DEF Ranges, Sent, Called, Awaits, RunInv,
     Requested, Serving
<1>14. JobInv'
  BY <1>1, <1>2, <1>3, <1>4, <1>5, Pids DEF Ranges, Sent, Called, Awaits, RunInv,
     JobInv, Loading, Gone
<1>15. TtyWaits'
  BY <1>1, <1>2, <1>3, <1>4, <1>5, Pids, CallFacts DEF Ranges, Sent, Called,
     Awaits, RunInv, Blocked, TtyCall, MmCall, Receives, Sends, TtyWaits, ForTty,
     Serving, Loading, AwaitsMm
<1>16. AnswerInv'
  BY <1>1, <1>2, <1>3, <1>4, <1>5, Pids, CallFacts DEF Ranges, Sent, Called,
     Awaits, RunInv, Blocked, TtyCall, MmCall, Receives, Sends, AnswerInv,
     Answering
<1> QED  BY <1>9, <1>10, <1>11, <1>12, <1>13, <1>14, <1>15, <1>16 DEF RunInv

\* ... and asks the memory server to end the program.
LEMMA ProgExitKeeps ==
    ASSUME LifeInv, NEW u \in Programs, ProgExit(u)
    PROVE  LifeInv'
<1>1. /\ Ranges /\ RunInv /\ kernel = "run" /\ ChildInv /\ MemInv
      /\ s.ready = u /\ pc[u] = "exit" /\ pc' = [pc EXCEPT ![u] = "last"]
      /\ UNCHANGED <<child, used, bitmap, base, job>>
      /\ Send(u, MM, Msg(u, "exit", u))
  BY DEF LifeInv, ProgExit, From, Goto, memVars
<1>2. u \in Procs /\ u \in Busy /\ st[u] = Run
  BY <1>1, Pids, Runs
<1>3. /\ Sent(u, MM, Msg(u, "exit", u))
      /\ kernel' = "run" => Order(s', st', Busy, job.src)
  BY <1>1, <1>2, Pids, SendCases
<1>4. Loaded' = Loaded /\ Busy' = Busy
  BY <1>1, Pids DEF Loaded, Busy, Ranges
<1>5. job.src # u /\ u \in Loaded
  BY <1>1, <1>2, Pids DEF RunInv, JobInv, Gone, Loaded
<1>6. Ranges'
  BY <1>1, <1>2, <1>3, <1>4, <1>5, Pids DEF Ranges, Sent, Called, Awaits
<1>7. ChildInv'
  BY <1>1, <1>2, <1>3, <1>4, <1>5, Pids DEF Ranges, Sent, Called, Awaits, ChildInv
<1>8. MemInv'
  BY <1>1, <1>4, Pids DEF MemInv, Loading, First
<1> SUFFICES ASSUME kernel' = "run" PROVE RunInv'
  BY <1>6, <1>7, <1>8 DEF LifeInv
<1>9. Order(s, st, Busy, job.src)'
  BY <1>1, <1>3, <1>4
<1>10. Blocked'
  BY <1>1, <1>2, <1>3, <1>4, <1>5, Pids, CallFacts DEF Sent, Called, Awaits,
     Ranges, RunInv, Blocked, InputCall, TtyCall, FsCall, MmCall, ProgCall,
     Receives, Sends
<1>11. Served'
  BY <1>1, <1>2, <1>3, <1>4, <1>5, Pids DEF Ranges, Sent, Called, Awaits, RunInv,
     Served
<1>12. ToldInv'
  BY <1>1, <1>2, <1>3, <1>4, <1>5, Pids DEF Ranges, Sent, Called, Awaits, RunInv,
     ToldInv, Told, Leaving
<1>13. Requested'
  BY <1>1, <1>2, <1>3, <1>4, <1>5, Pids, CallFacts DEF Ranges, Sent, Called,
     Awaits, RunInv, Requested, Serving
<1>14. JobInv'
  BY <1>1, <1>2, <1>3, <1>4, <1>5, Pids, CallFacts DEF Ranges, Sent, Called,
     Awaits, RunInv, Blocked, TtyCall, MmCall, Receives, Sends, JobInv, Loading,
     Gone
<1>15. TtyWaits'
  BY <1>1, <1>2, <1>3, <1>4, <1>5, Pids, CallFacts DEF Ranges, Sent, Called,
     Awaits, RunInv, TtyWaits, ForTty, Serving, Loading, AwaitsMm
<1>16. AnswerInv'
  BY <1>1, <1>2, <1>3, <1>4, <1>5, Pids, CallFacts DEF Ranges, Sent, Called,
     Awaits, RunInv, AnswerInv, Answering
<1> QED  BY <1>9, <1>10, <1>11, <1>12, <1>13, <1>14, <1>15, <1>16 DEF RunInv

\* ... whose answer it waits for.
LEMMA ProgLastKeeps ==
    ASSUME LifeInv, NEW u \in Programs, ProgLast(u)
    PROVE  LifeInv'
<1>1. /\ Ranges /\ RunInv /\ kernel = "run" /\ ChildInv /\ MemInv
      /\ s.ready = u /\ pc[u] = "last" /\ pc' = [pc EXCEPT ![u] = "spin"]
      /\ UNCHANGED <<child, used, bitmap, base, job>>
      /\ Receive(u, MM)
  BY DEF LifeInv, ProgLast, From, Goto, memVars
<1>2. u \in Procs /\ u \in Busy /\ st[u] = Run
  BY <1>1, Pids, Runs
<1>3. /\ Received(u, MM)
      /\ kernel' = "run" => Order(s', st', Busy, job.src)
  BY <1>1, <1>2, Pids, ReceiveCases
<1>4. Loaded' = Loaded /\ Busy' = Busy
  BY <1>1, Pids DEF Loaded, Busy, Ranges
<1>5. job.src # u /\ u \in Loaded
  BY <1>1, <1>2, Pids DEF RunInv, JobInv, Gone, Loaded
<1>6. Ranges'
  BY <1>1, <1>2, <1>3, <1>4, <1>5, Pids DEF Ranges, Received, Called, SendersTo
<1>7. ChildInv'
  BY <1>1, <1>2, <1>3, <1>4, <1>5, Pids DEF Ranges, Received, Called, SendersTo,
     ChildInv
<1>8. MemInv'
  BY <1>1, <1>4, Pids DEF MemInv, Loading, First
<1> SUFFICES ASSUME kernel' = "run" PROVE RunInv'
  BY <1>6, <1>7, <1>8 DEF LifeInv
<1>9. Order(s, st, Busy, job.src)'
  BY <1>1, <1>3, <1>4
<1>10. Blocked'
  BY <1>1, <1>2, <1>3, <1>4, <1>5, Pids, CallFacts DEF Received, Called,
     SendersTo, Ranges, RunInv, Blocked, InputCall, TtyCall, FsCall, MmCall,
     ProgCall, Receives, Sends
<1>11. Served'
  BY <1>1, <1>2, <1>3, <1>4, <1>5, Pids DEF Ranges, Received, Called, SendersTo,
     RunInv, Served
<1>12. ToldInv'
  BY <1>1, <1>2, <1>3, <1>4, <1>5, Pids DEF Ranges, Received, Called, SendersTo,
     RunInv, ToldInv, Told, Leaving
<1>13. Requested'
  BY <1>1, <1>2, <1>3, <1>4, <1>5, Pids, CallFacts DEF Ranges, Received, Called,
     SendersTo, RunInv, Blocked, TtyCall, MmCall, Receives, Sends, Requested,
     Serving
<1>14. JobInv'
  BY <1>1, <1>2, <1>3, <1>4, <1>5, Pids, CallFacts DEF Ranges, Received, Called,
     SendersTo, RunInv, Blocked, TtyCall, MmCall, Receives, Sends, JobInv,
     Loading, Gone
<1>15. TtyWaits'
  BY <1>1, <1>2, <1>3, <1>4, <1>5, Pids, CallFacts DEF Ranges, Received, Called,
     SendersTo, RunInv, Blocked, TtyCall, MmCall, Receives, Sends, TtyWaits,
     ForTty, Serving, Loading, AwaitsMm
<1>16. AnswerInv'
  BY <1>1, <1>2, <1>3, <1>4, <1>5, Pids, CallFacts DEF Ranges, Received, Called,
     SendersTo, RunInv, AnswerInv, Answering
<1> QED  BY <1>9, <1>10, <1>11, <1>12, <1>13, <1>14, <1>15, <1>16 DEF RunInv

-----------------------------------------------------------------------------
(* It holds when the kernel has started.                                   *)

LEMMA BootHolds == Init => LifeInv
<1> SUFFICES ASSUME Init PROVE LifeInv
  OBVIOUS
<1>1. /\ s = BootList(Boot) /\ st = [p \in Procs |-> Run] /\ msg = [p \in Procs |-> NoMsg]
      /\ kernel = "run" /\ pc = [p \in Procs |-> "recv"] /\ child = NO_TASK
      /\ used = [u \in Programs |-> FALSE] /\ bitmap = Reserved
      /\ base = [u \in Programs |-> 0]
      /\ job = [src |-> NO_TASK, pid |-> NO_TASK, block |-> 0]
  BY DEF Init
<1>2. Loaded = {} /\ Busy = Servers /\ ~Loading /\ job.src = NO_TASK /\ Run.op = "run"
  BY <1>1, Pids, CallFacts DEF Loaded, Busy, Loading
<1>3. \A p \in Procs : st[p] = Run /\ st[p].op = "run" /\ pc[p] = "recv"
  BY <1>1, CallFacts
<1>4. Ranges
  BY <1>1, <1>3, Pids DEF Ranges
<1>5. ChildInv /\ MemInv
  BY <1>1, <1>2, FirstInNat DEF ChildInv, MemInv
<1>6. Order(s, st, Busy, job.src)
  <2>1. /\ Boot \in Seq(Procs) /\ Boot # <<>> /\ IsInjective(Boot) /\ Range(Boot) = Servers
    <3>1. Boot \in Seq(Servers) /\ Range(Boot) = Servers /\ IsInjective(Boot)
      BY LifecycleAssumption
    <3>2. Range(<<>>) = {}
      BY DEF Range
    <3> QED  BY <3>1, <3>2, Pids, SeqFacts
  <2>2. Settled(s, BootQueues(Boot))
    BY <1>1, <2>1, BootSettles
  <2>3. /\ BootQueues(Boot).ready = Boot /\ BootQueues(Boot).pause = <<>>
        /\ BootQueues(Boot).wait = <<>>
    BY DEF BootQueues
  <2>4. Range(<<>>) = {}
    BY DEF Range
  <2>5. Queued(BootQueues(Boot)) = Servers
    BY <2>1, <2>3, <2>4 DEF Queued, Runnable
  <2>6. Agree(s, st, Busy)
    BY <1>2, <1>3, <2>2, <2>3, <2>4, <2>5, AgreeIs, Pids
  <2>7. ASSUME NEW x \in Procs \ Servers PROVE s.next[x] # PauseTail
    <3>1. ~ \E i \in 1 .. Len(Boot) : Boot[i] = x
      BY <2>1, SeqFacts DEF Range
    <3>2. s.next[x] = Null /\ Null # PauseTail
      BY <1>1, <3>1, NodeFacts, LinksAssumption DEF BootList, Sentinels
    <3> QED  BY <3>2
  <2> QED  BY <1>2, <1>3, <2>6, <2>7 DEF Order, Outside
<1>7. RunInv
  BY <1>1, <1>2, <1>3, <1>6, Pids DEF RunInv, Blocked, Served, ToldInv, Leaving, Requested, Serving,
     JobInv, Gone, TtyWaits, ForTty, AnswerInv, Answering
<1> QED  BY <1>4, <1>5, <1>7 DEF LifeInv

-----------------------------------------------------------------------------
(* The theorems.                                                           *)

LEMMA StepKeeps == LifeInv /\ [Next]_vars => LifeInv'
<1> SUFFICES ASSUME LifeInv, [Next]_vars PROVE LifeInv'
  OBVIOUS
<1>1. CASE UNCHANGED vars
  <2>1. UNCHANGED <<s, st, msg, kernel, pc, child, used, bitmap, base, job>>
    BY <1>1 DEF vars, ipcVars, memVars
  <2>2. /\ Loaded' = Loaded /\ Busy' = Busy
        /\ Order(s, st, Busy, job.src)' = Order(s, st, Busy, job.src)
    BY <2>1 DEF Loaded, Busy
  <2> QED  BY <2>1, <2>2 DEF LifeInv, Ranges, ChildInv, MemInv, Loading, RunInv, Blocked,
       InputCall, TtyCall, FsCall, MmCall, ProgCall, Receives, Sends, Served, ToldInv, Told,
       Leaving, Requested, Serving, JobInv, Gone, TtyWaits, ForTty, AwaitsMm, AnswerInv, Answering
<1>2. CASE Preempt \/ Key
  BY <1>2, PreemptKeeps, KeyKeeps
<1>3. ASSUME NEW p \in Procs, Step(p) PROVE LifeInv'
  <2>1. CASE InputReceive \/ InputDrain
    BY <2>1, InputReceiveKeeps, InputDrainKeeps
  <2>2. CASE TtyReceive \/ TtyForward \/ TtyStart \/ TtyStarted
    BY <2>2, TtyReceiveKeeps, TtyForwardKeeps, TtyStartKeeps, TtyStartedKeeps
  <2>3. CASE FsReceive \/ FsAnswer
    BY <2>3, FsReceiveKeeps, FsAnswerKeeps
  <2>4. CASE MmReceive \/ MmExecute \/ MmReading \/ MmLoad \/ MmExit \/ MmAnswer
    BY <2>4, MmReceiveKeeps, MmExecuteKeeps, MmReadingKeeps, MmLoadKeeps, MmExitKeeps,
       MmAnswerKeeps
  <2>5. CASE p \in Programs /\ (ProgReceive(p) \/ ProgTell(p) \/ ProgExit(p) \/ ProgLast(p))
    BY <2>5, ProgReceiveKeeps, ProgTellKeeps, ProgExitKeeps, ProgLastKeeps
  <2> QED  BY <1>3, <2>1, <2>2, <2>3, <2>4, <2>5 DEF Step
<1> QED  BY <1>1, <1>2, <1>3 DEF Next

\* Whatever the user types and whenever the clock preempts, the strengthened
\* invariant holds.
THEOREM LifeAlways == Spec => []LifeInv
<1>1. Spec => Init /\ [][Next]_vars
  BY DEF Spec
<1> QED  BY <1>1, BootHolds, StepKeeps, PTL

\* The linked lists of schedule(), block() and unblock() and the rendezvous of
\* send() and receive() never disagree: a server or a loaded program is in the
\* wait queue exactly while its call is not answered, until the kernel stops.
THEOREM WaitingIffBlocked == Spec => []BlockedAreWaiting
<1>1. ASSUME LifeInv PROVE BlockedAreWaiting
  <2> SUFFICES ASSUME kernel = "run", NEW p \in Servers \cup Loaded
               PROVE  p \in OnChain(s, s.wait, WaitTail) <=> st[p].op # "run"
    BY DEF BlockedAreWaiting
  <2>1. Agree(s, st, Busy) /\ p \in Busy
    BY <1>1 DEF LifeInv, RunInv, Order, Busy
  <2>2. Range(Abs(s).wait) = OnChain(s, s.wait, WaitTail)
    BY DEF Abs, OnChain, Range
  <2> QED  BY <2>1, <2>2 DEF Agree
<1> QED  BY <1>1, LifeAlways, PTL

\* terminal_main() never passes a key on to a PCB that exit() has freed, but for
\* the message it is about to handle.
THEOREM ChildIsAlive == Spec => []ChildLives
<1>1. LifeInv => ChildLives
  BY DEF LifeInv, ChildInv, ChildLives, Loaded
<1> QED  BY <1>1, LifeAlways, PTL

\* execute() and exit() lose no block: one that is marked is in use.
NoBlockLost ==
    bitmap \ Reserved \subseteq
        {base[u] : u \in Loaded} \cup (IF Loading THEN {job.block} ELSE {})

THEOREM NothingLost == Spec => []NoBlockLost
<1>1. LifeInv => NoBlockLost
  <2> SUFFICES ASSUME LifeInv, NEW b \in bitmap \ Reserved
               PROVE  b \in {base[u] : u \in Loaded} \cup (IF Loading THEN {job.block} ELSE {})
    BY DEF NoBlockLost
  <2>1. /\ b = First /\ (Loading \/ Loaded # {}) /\ (Loading => job.block = First)
        /\ \A u \in Loaded : base[u] = First
    BY DEF LifeInv, MemInv
  <2> QED  BY <2>1
<1> QED  BY <1>1, LifeAlways, PTL

\* As long as no two programs share a block (get_mem() may let them), the block of
\* a program is marked.
Marked == Loading \/ Loaded # {} => First \in bitmap

LEMMA MarkedKept ==
    ASSUME LifeInv, BlocksDisjoint, Marked, [Next]_vars
    PROVE  Marked'
<1>1. CASE MmExecute
  <2>1. CASE UNCHANGED <<used, bitmap, job, pc>>
    <3>1. Loaded' = Loaded /\ (Loading' <=> Loading)
      BY <2>1 DEF Loaded, Loading
    <3> QED  BY <2>1, <3>1 DEF Marked, First
  <2>2. CASE bitmap' = bitmap \cup {GetMem}
    BY <2>2, MemoryIsLeft DEF LifeInv, MemInv, Marked, First
  <2>3. PartlyFree # {}
    BY MemoryIsLeft DEF LifeInv, MemInv
  <2> QED  BY <1>1, <2>1, <2>2, <2>3 DEF MmExecute
<1>2. CASE MmLoad
  BY <1>2 DEF MmLoad, From, Marked, Loading, First
<1>3. CASE MmExit
  <2> DEFINE u == msg[MM].pid
  <2>1. /\ Ranges /\ RunInv /\ s.ready = MM /\ pc[MM] = "serve" /\ msg[MM].what = "exit"
        /\ pc' = [pc EXCEPT ![MM] = "answer"] /\ used' = [used EXCEPT ![u] = FALSE]
    BY <1>3 DEF LifeInv, MmExit, From, Goto
  <2>2. st[MM] = Run
    BY <2>1, Pids, Runs
  <2>3. u \in Loaded
    BY <2>1, <2>2 DEF RunInv, Requested, Serving
  <2>4. Loaded \subseteq {u}
    BY <2>3 DEF BlocksDisjoint, LifeInv, MemInv
  <2> HIDE DEF u
  <2>5. pc'[MM] = "answer" /\ \A v \in Programs : used'[v] <=> used[v] /\ v # u
    BY <2>1, <2>3, Pids DEF Ranges
  <2>6. Loaded' = {} /\ ~Loading'
    BY <2>1, <2>4, <2>5 DEF Loaded, Loading
  <2> QED  BY <2>6 DEF Marked
<1>4. ASSUME UNCHANGED memVars, Loading' <=> Loading PROVE Marked'
  <2>1. UNCHANGED <<used, bitmap, base, job>>
    BY <1>4 DEF memVars
  <2>2. Loaded' = Loaded /\ First' = First
    BY <1>4, <2>1 DEF Loaded, Loading, First
  <2> QED  BY <1>4, <2>1, <2>2 DEF Marked
<1>5. CASE UNCHANGED vars \/ Preempt \/ Key
  <2>1. UNCHANGED memVars /\ UNCHANGED pc
    BY <1>5 DEF vars, Preempt, Key
  <2> QED  BY <1>4, <2>1 DEF Loading
<1>6. ASSUME NEW p \in Procs, Step(p), p # MM PROVE Marked'
  <2>1. UNCHANGED memVars /\ pc'[MM] = pc[MM]
    BY <1>6, Pids DEF LifeInv, Ranges, Step, InputReceive, InputDrain, TtyReceive,
       TtyForward, TtyStart, TtyStarted,
       FsReceive, FsAnswer, ProgReceive, ProgTell, ProgExit, ProgLast, Goto
  <2> QED  BY <1>4, <2>1 DEF Loading
<1>7. CASE MmReceive \/ MmReading \/ MmAnswer
  <2>1. UNCHANGED memVars /\ (Loading' <=> Loading)
    BY <1>7, Pids DEF MmReceive, MmReading, MmAnswer, Goto, From, Loading, LifeInv, Ranges
  <2> QED  BY <1>4, <2>1
<1>8. ASSUME Step(MM) PROVE Marked'
  BY <1>1, <1>2, <1>3, <1>7, <1>8, Pids DEF Step
<1> QED  BY <1>5, <1>6, <1>8, Pids DEF Next

\* Marked is what MemoryAccounted adds to the invariant.
LEMMA AccountedIsMarked == LifeInv => (MemoryAccounted <=> Marked)
<1> SUFFICES ASSUME LifeInv PROVE MemoryAccounted <=> Marked
  OBVIOUS
<1>1. /\ bitmap \ Reserved \subseteq {First} /\ First \notin Reserved
      /\ Loading => job.block = First
      /\ \A u \in Loaded : base[u] = First
  BY FirstInNat DEF LifeInv, MemInv
<1> DEFINE blocks == {base[u] : u \in Loaded}
           loading == IF Loading THEN {job.block} ELSE {}
<1>2. blocks \subseteq {First} /\ (First \in blocks <=> Loaded # {})
  BY <1>1
<1>3. MemoryAccounted <=> bitmap \ Reserved = blocks \cup loading
  BY DEF MemoryAccounted, Loading
<1> HIDE DEF blocks
<1>4. First \in blocks \cup loading <=> Loading \/ Loaded # {}
  BY <1>1, <1>2
<1>5. blocks \cup loading \subseteq {First}
  BY <1>1, <1>2
<1>6. First \in bitmap => Loading \/ Loaded # {}
  BY DEF LifeInv, MemInv
<1> QED  BY <1>1, <1>3, <1>4, <1>5, <1>6 DEF Marked

LEMMA MarkedAtFirst == Init => Marked
<1> SUFFICES ASSUME Init PROVE Marked
  OBVIOUS
<1>1. Loaded = {} /\ ~Loading
  BY Pids DEF Init, Loaded, Loading
<1> QED  BY <1>1 DEF Marked

\* A step from a state in which no two programs share a block keeps the account
\* of the blocks: execute() and exit() neither lose one nor free one in use.
THEOREM BlocksAreAccounted == Spec => BlocksAccounted
<1>1. Init => MemoryAccounted
  BY MarkedAtFirst, BootHolds, AccountedIsMarked
<1>2. LifeInv /\ LifeInv' /\ [Next]_vars =>
         [BlocksDisjoint /\ MemoryAccounted => MemoryAccounted']_vars
  <2> SUFFICES ASSUME LifeInv, LifeInv', [Next]_vars, BlocksDisjoint, MemoryAccounted
               PROVE  MemoryAccounted'
    OBVIOUS
  <2>1. Marked
    BY AccountedIsMarked
  <2>2. Marked'
    BY <2>1, MarkedKept
  <2>3. LifeInv' => (MemoryAccounted' <=> Marked')
    BY AccountedIsMarked, PTL
  <2> QED  BY <2>2, <2>3
<1>3. Spec => Init /\ [][Next]_vars
  BY DEF Spec
<1> QED  BY <1>1, <1>2, <1>3, LifeAlways, PTL DEF BlocksAccounted

\* In every behaviour in which no two programs share a block, the blocks marked
\* beyond the kernel's own are exactly those of the loaded programs and of the
\* one being loaded.
THEOREM MemoryIsAccounted == Spec /\ []BlocksDisjoint => []MemoryAccounted
<1>1. MemoryAccounted /\ [][BlocksDisjoint /\ MemoryAccounted => MemoryAccounted']_vars
         /\ []BlocksDisjoint => []MemoryAccounted
  <2>1. BlocksDisjoint /\ MemoryAccounted
           /\ [BlocksDisjoint /\ MemoryAccounted => MemoryAccounted']_vars
              => MemoryAccounted'
    <3>1. CASE UNCHANGED vars
      BY <3>1 DEF MemoryAccounted, Loaded, Reserved, vars, memVars
    <3> QED  BY <3>1
  <2> QED  BY <2>1, PTL
<1> QED  BY <1>1, BlocksAreAccounted, PTL DEF BlocksAccounted

=============================================================================
