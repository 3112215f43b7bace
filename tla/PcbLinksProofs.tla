---------------------------- MODULE PcbLinksProofs ----------------------------
(***************************************************************************)
(* What the two modules that run PcbLinks promise, for any number of       *)
(* processes.  PcbList: the linked lists implement the sequences of Sched, *)
(* and their back links agree with their forward links.  IpcIrq: an        *)
(* interrupt between any two statements of a call is harmless, but for the *)
(* moments that `struck' names.                                            *)
(***************************************************************************)
EXTENDS PcbList, IpcIrq, QueueProofs

(* PcbList: the links spell the queues of Sched.                           *)

ListInv == Settled(s, Abs(s)) /\ clk \in BOOLEAN

\* Sched's instance in PcbList and this module speak of the same functions.
LEMMA SameFunctions ==
    ASSUME NEW r, NEW p
    PROVE  /\ Queues!Idle(r) = Idle(r) /\ Queues!Current(r) = Current(r)
           /\ Queues!Range(r) = Range(r) /\ Queues!Queued(r) = Queued(r)
           /\ Queues!Charge(r) = Charge(r) /\ Queues!Expire(r) = Expire(r)
           /\ Queues!Block(r) = Block(r) /\ Queues!Wake(r, p) = Wake(r, p)
           /\ Queues!Enqueue(r, p) = Enqueue(r, p)
           /\ Queues!Dequeue(r, p) = Dequeue(r, p)
<1>0. ASSUME NEW x PROVE Queues!Range(x) = Range(x)
  BY DEF Queues!Range, Range
<1>1. Queues!Idle(r) = Idle(r) /\ Queues!Current(r) = Current(r)
  BY DEF Queues!Idle, Idle, Queues!Current, Current
<1>2. Queues!Queued(r) = Queued(r)
  BY <1>0, Zenon DEF Queues!Queued, Queued, Queues!Runnable, Runnable
<1>3. ASSUME NEW x PROVE Queues!Schedule(x) = Schedule(x)
  <2>1. ASSUME NEW y PROVE Queues!Refill(y) = Refill(y)
    <3>1. Queues!Range(y.pause) = Range(y.pause)
      BY <1>0
    <3> QED  BY <3>1, Zenon DEF Queues!Refill, Refill
  <2>2. Queues!Park(x) = Park(x)
    BY Zenon DEF Queues!Park, Park, Queues!Current, Current
  <2> QED  BY <2>1, <2>2 DEF Queues!Schedule, Schedule, Queues!Idle, Idle
<1>4. Queues!Charge(r) = Charge(r)
  BY DEF Queues!Charge, Charge, Queues!Idle, Idle, Queues!Current, Current
<1>5. Queues!Expire(r) = Expire(r)
  BY <1>3 DEF Queues!Expire, Expire, Queues!Idle, Idle, Queues!Current, Current
<1>6. Queues!Block(r) = Block(r)
  BY <1>3 DEF Queues!Block, Block, Queues!Idle, Idle, Queues!Current, Current
<1>7. ASSUME NEW c PROVE Queues!RemoveFirst(c, p) = RemoveFirst(c, p)
  <2> DEFINE I == {i \in 1 .. Len(c) : c[i] = p}
             n == IF I # {} THEN Min(I) ELSE 0
  <2>1. Queues!Min(I) = Min(I)
    BY Zenon DEF Queues!Min, Min
  <2>2. SelectInSeq(c, LAMBDA v : v = p) = n
    BY Zenon DEF SelectInSeq
  <2>3. Queues!SelectInSeq(c, LAMBDA v : v = p) = n
    BY <2>1, Zenon DEF Queues!SelectInSeq
  <2> HIDE DEF n, I
  <2> QED
    BY <2>2, <2>3, Zenon
    DEF Queues!RemoveFirst, RemoveFirst, Queues!RemoveAt, RemoveAt
<1>8. Queues!Unblock(r, p) = Unblock(r, p)
  BY <1>7, Zenon DEF Queues!Unblock, Unblock
<1>9. Queues!Wake(r, p) = Wake(r, p)
  BY <1>3, <1>8 DEF Queues!Wake, Wake, Queues!Idle, Idle
<1>10. Queues!Enqueue(r, p) = Enqueue(r, p)
  BY Zenon DEF Queues!Enqueue, Enqueue
<1>11. Queues!Dequeue(r, p) = Dequeue(r, p)
  <2>1. /\ Queues!RemoveFirst(r.ready, p) = RemoveFirst(r.ready, p)
        /\ Queues!RemoveFirst(r.pause, p) = RemoveFirst(r.pause, p)
        /\ Queues!RemoveFirst(r.wait, p) = RemoveFirst(r.wait, p)
    BY <1>7
  <2> QED  BY <2>1, Zenon DEF Queues!Dequeue, Dequeue
<1> QED  BY <1>0, <1>1, <1>2, <1>4, <1>5, <1>6, <1>9, <1>10, <1>11

LEMMA InitInv == Init => ListInv /\ Queues!Init
<1> SUFFICES ASSUME Init PROVE ListInv /\ Queues!Init
  OBVIOUS
<1>1. Settled(s, BootQueues(Boot)) /\ clk = FALSE
  BY BootSettles, ListAssumption DEF Init, IsInjective
<1>2. Abs(s) = BootQueues(Boot)
  BY <1>1, ReadBack
<1> QED  BY <1>1, <1>2 DEF ListInv, Queues!Init, BootQueues

\* A step on the lists is the step of Sched on the queues they spell.
LEMMA StepMaps ==
    ASSUME ListInv, ~FreePauseHead, Next
    PROVE  ListInv' /\ Queues!Next
<1> DEFINE q == Abs(s)
<1>1. /\ Settled(s, q) /\ clk \in BOOLEAN /\ (Idle(q) <=> EmptyRuns(s))
      /\ ~Idle(q) => s.ready = Current(q) /\ s.ticks = q.ticks
  BY SettledFacts, SpellsFacts DEF ListInv
<1>2. /\ OnChain(s, s.wait, WaitTail) = Range(q.wait)
      /\ \A p : InQueue(s, p) <=> p \in Queued(q)
  BY <1>1, ReadBack
<1> HIDE DEF q
<1>3. ASSUME NEW r, Settled(s', r), clk' \in BOOLEAN PROVE ListInv' /\ Abs(s)' = r
  <2>1. Abs(s') = r
    BY <1>3, ReadBack
  <2> QED  BY <1>3, <2>1 DEF ListInv
<1>4. CASE ClockBegin
  <2>1. Settled(s', Charge(q)) /\ clk' \in BOOLEAN /\ ~clk /\ clk' = TRUE
    BY <1>1, <1>4, ChargeSettles DEF ClockBegin
  <2>2. ListInv' /\ Abs(s)' = Charge(q)
    BY <1>3, <2>1
  <2> QED  BY <2>1, <2>2, SameFunctions DEF Queues!Next, Queues!ClockBegin, q
<1>5. CASE ClockEnd
  <2>1. Settled(s', Expire(q)) /\ clk' \in BOOLEAN /\ clk /\ clk' = FALSE
    BY <1>1, <1>5, ExpireSettles DEF ClockEnd
  <2>2. ListInv' /\ Abs(s)' = Expire(q)
    BY <1>3, <2>1
  <2> QED  BY <2>1, <2>2, SameFunctions DEF Queues!Next, Queues!ClockEnd, q
<1>6. CASE ClockNested
  <2>1. Settled(s', Charge(q)) /\ clk' \in BOOLEAN /\ ~clk /\ clk' = clk /\ ~Idle(q)
        /\ q.ticks[Current(q)] > 1 - MaxOverrun
    BY <1>1, <1>6, ChargeSettles DEF ClockNested
  <2>2. ListInv' /\ Abs(s)' = Charge(q)
    BY <1>3, <2>1
  <2> QED  BY <2>1, <2>2, SameFunctions DEF Queues!Next, Queues!ClockNested, q
<1>7. CASE BlockCurrent
  <2>1. Settled(s', Block(q)) /\ clk' \in BOOLEAN /\ ~clk /\ clk' = clk /\ ~Idle(q)
    BY <1>1, <1>7, BlockSettles DEF BlockCurrent
  <2>2. ListInv' /\ Abs(s)' = Block(q)
    BY <1>3, <2>1
  <2> QED  BY <2>1, <2>2, SameFunctions DEF Queues!Next, Queues!BlockCurrent, q
<1>8. ASSUME NEW p \in Procs, WakeUp(p) PROVE ListInv' /\ Queues!Next
  <2>1. Settled(s', Wake(q, p)) /\ clk' \in BOOLEAN /\ clk' = clk /\ p \in Range(q.wait)
    BY <1>1, <1>2, <1>8, WakeSettles DEF WakeUp
  <2>2. ListInv' /\ Abs(s)' = Wake(q, p)
    BY <1>3, <2>1
  <2> QED  BY <2>1, <2>2, SameFunctions DEF Queues!Next, Queues!WakeUp, q
<1>9. ASSUME NEW p \in Procs, Spawn(p) PROVE ListInv' /\ Queues!Next
  <2>1. Settled(s', Enqueue(q, p)) /\ clk' \in BOOLEAN /\ ~clk /\ clk' = clk /\ ~Idle(q)
        /\ p \notin Queued(q)
    BY <1>1, <1>2, <1>9, EnqueueSettles DEF Spawn
  <2>2. ListInv' /\ Abs(s)' = Enqueue(q, p)
    BY <1>3, <2>1
  <2> QED  BY <2>1, <2>2, SameFunctions DEF Queues!Next, Queues!Spawn, q
<1>10. ASSUME NEW p \in Procs, Exit(p) PROVE ListInv' /\ Queues!Next
  <2>1. Settled(s', Dequeue(q, p)) /\ clk' \in BOOLEAN /\ ~clk /\ clk' = clk /\ ~Idle(q)
        /\ p \in Queued(q) \ {Current(q)}
    BY <1>1, <1>2, <1>10, DequeueSettles DEF Exit
  <2>2. ListInv' /\ Abs(s)' = Dequeue(q, p)
    BY <1>3, <2>1
  <2> QED  BY <2>1, <2>2, SameFunctions DEF Queues!Next, Queues!Exit, q
<1> QED  BY <1>4, <1>5, <1>6, <1>7, <1>8, <1>9, <1>10 DEF Next

LEMMA Inductive ==
    ASSUME ~FreePauseHead PROVE Spec => []ListInv
<1>1. ListInv /\ [Next]_vars => ListInv'
  BY StepMaps DEF vars, ListInv
<1> QED  BY <1>1, InitInv, PTL DEF Spec

\* As long as free_pcb() never meets the head of the pause queue, the linked
\* lists are Sched's queues: no function of the kernel loses, repeats or
\* reorders a PCB.
THEOREM ListsAreQueues ==
    ASSUME ~FreePauseHead PROVE Spec => ImplementsSched
<1>1. ListInv /\ [Next]_vars => [Queues!Next]_<<Abs(s), clk>>
  <2>1. ASSUME UNCHANGED vars PROVE UNCHANGED <<Abs(s), clk>>
    BY <2>1 DEF vars
  <2> QED  BY <2>1, StepMaps
<1>2. Init => Queues!Init
  BY InitInv
<1> QED  BY <1>1, <1>2, Inductive, PTL DEF Spec, ImplementsSched, Queues!SafeSpec, Queues!vars

\* The back links that unblock() and free_pcb() follow agree with the forward
\* links, and a nonempty queue's sentinel points at its last node.
THEOREM BackLinksAgree ==
    ASSUME ~FreePauseHead PROVE Spec => []BackLinks
<1>1. ListInv => BackLinks
  <2> SUFFICES ASSUME ListInv, NEW x \in Nodes, NEW y \in Nodes, y = s.next[x], InQueue(s, x)
               PROVE  s.pre[y] = x
    BY DEF BackLinks
  <2> DEFINE q == Abs(s)
  <2>1. Settled(s, q)
    BY DEF ListInv
  <2>2. x \in Queued(q) /\ Lists(s, q.ready, q.pause, q.wait)
    BY <2>1, ReadBack, SettledFacts, SpellsFacts
  <2> HIDE DEF q
  <2>3. ASSUME NEW c \in Seq(Procs), NEW first, NEW sent, Linked(s, c, first, sent),
               x \in Range(c)
        PROVE  s.pre[y] = x
    <3>1. PICK n \in 1 .. Len(c) : c[n] = x
      BY <2>3, SeqFacts DEF Range
    <3>2. Len(c) \in Nat \ {0} /\ c # <<>>
      BY <3>1, SeqFacts
    <3>3. y = Nth(c, n + 1, sent)
      BY <2>3, <3>1 DEF Linked
    <3>4. CASE n = Len(c)
      BY <2>3, <3>1, <3>2, <3>3, <3>4 DEF Linked, Nth
    <3>5. CASE n # Len(c)
      <4>1. n \in 1 .. Len(c) - 1 /\ n + 1 <= Len(c)
        BY <3>2, <3>5
      <4> QED  BY <2>3, <3>1, <3>3, <4>1 DEF Linked, Nth
    <3> QED  BY <3>4, <3>5
  <2> QED  BY <2>2, <2>3 DEF Lists, Apart, Queued, Runnable
<1> QED  BY <1>1, Inductive, PTL

\* That head is the only PCB that free_pcb() fails to take out.
THEOREM FreedOtherwise ==
    ASSUME ~FreePauseHead PROVE Spec => FreedIsUnlinked
<1>1. ListInv /\ [Next]_vars => [\A p \in Procs : Exit(p) => ~InQueue(s', p)]_vars
  <2> SUFFICES ASSUME ListInv, NEW p \in Procs, Exit(p) PROVE ~InQueue(s', p)
    OBVIOUS
  <2> DEFINE q == Abs(s)
  <2>1. /\ Settled(s, q) /\ ~Idle(q) /\ WellFormed(q) /\ p # Current(q) /\ p \in Queued(q)
        /\ p # s.ready /\ p # s.pause /\ s' = PDequeue(s, p)
    BY SettledFacts, SpellsFacts, ReadBack DEF ListInv, Exit
  <2>2. Settled(s', Dequeue(q, p))
    BY <2>1, DequeueSettles
  <2>3. Queued(Dequeue(q, p)) = Queued(q) \ {p}
    BY <2>1, DequeueLemma, LinksAssumption
  <2> HIDE DEF q
  <2> QED  BY <2>2, <2>3, ReadBack
<1> QED  BY <1>1, Inductive, PTL DEF Spec, FreedIsUnlinked
-----------------------------------------------------------------------------
(* IpcIrq: what is left to do.  A form of `todo' goes with what the lists  *)
(* will be once the assignments that it begins with have been done.        *)

\* The statements there are.
Kinds == {"link pause", "link wait", "unblock", "idle?", "schedule", "choose", "refill",
          "next ready", "next wait", "next pause", "pause head", "pause pre", "pause next",
          "pause back", "pause last", "wait head", "wait pre", "wait next", "wait back",
          "wait last", "unlink next", "unlink pre", "none ready", "idle", "idle pre",
          "swap head", "swap next", "swap pre"}

\* A step of a call: a statement, and what it is about.
Steps == [do : Kinds, x : Nodes \cup {Null}]

\* A statement, and then the rest.
First(step, rest) == <<step>> \o rest

\* The lists are whole, and W sleeps.
Spelled(m, W) == \E r, z, w : Lists(m, r, z, w) /\ Range(w) = W

Whole(m, W) == \E q : Settled(m, q) /\ Range(q.wait) = W

\* After a PCB has been linked: nothing, the swap, or the end of block().
Finish == {<<>>, First(Do("refill", Null), <<>>)}
            \cup {First(Do("idle?", x), <<>>) : x \in Procs}

Then(M, m, W) ==
    \/ M = <<>> /\ Whole(m, W)
    \/ /\ M = First(Do("refill", Null), <<>>)
       /\ Spelled(m, W) /\ ReadyEmpty(m) /\ ~PauseEmpty(m)
    \/ /\ \E x \in Procs : M = First(Do("idle?", x), <<>>)
       /\ Spelled(m, W) /\ ~EmptyRuns(m)

\* The end of the swap of the pause list into the ready list.
SwapPre(m) == [m EXCEPT !.pre[ReadyTail] = m.pre[PauseTail]]
SwapNext(m) == SwapPre([m EXCEPT !.next[m.pre[PauseTail]] = ReadyTail])
SwapHead(m, h) == SwapNext([m EXCEPT !.ready = h])

Scheduling(m, t, W) ==
    \/ t = First(Do("schedule", Null), <<>>) /\ Spelled(m, W)
    \/ /\ t = First(Do("none ready", Null), First(Do("choose", Null), <<>>))
       /\ Spelled(m, W) /\ EmptyRuns(m)
    \/ t = First(Do("choose", Null), <<>>) /\ Spelled(m, W) /\ ~EmptyRuns(m)
    \/ /\ t = First(Do("idle", Null), First(Do("idle pre", Null), <<>>))
       /\ Spelled(m, W) /\ ReadyEmpty(m) /\ PauseEmpty(m)
    \/ /\ t = First(Do("idle pre", Null), <<>>)
       /\ Whole([m EXCEPT !.pre[ReadyTail] = EmptyTask], W)

\* The pause head walks down its list, before it becomes the ready list.
Walked(m, h, W) ==
    \E z, w : /\ Lists([m EXCEPT !.pause = h], <<>>, z, w) /\ Range(w) = W
              /\ z # <<>> /\ h = Head(z)
              /\ m.pause \in Range(z) \cup {PauseTail} /\ ReadyEmpty(m)

Refilling(m, t, h, W) ==
    LET swap == First(Do("swap next", Null), First(Do("swap pre", Null), <<>>))
    IN  \/ /\ t = First(Do("next pause", h), First(Do("swap head", h), swap))
           /\ Walked(m, h, W) /\ m.pause # PauseTail
        \/ t = First(Do("swap head", h), swap) /\ Walked(m, h, W) /\ PauseEmpty(m)
        \/ t = swap /\ Whole(SwapNext(m), W)
        \/ t = First(Do("swap pre", Null), <<>>) /\ Whole(SwapPre(m), W)

\* The two ways of appending x to the pause list, from their last statement on.
PauseNext(m, x) == [m EXCEPT !.next[x] = PauseTail]
PausePre(m, x) == [m EXCEPT !.pre[PauseTail] = x]
PauseLast(m, x) == PausePre([m EXCEPT !.next[m.pre[PauseTail]] = x], x)
PauseBack(m, x) == PauseLast(PauseNext([m EXCEPT !.pre[x] = m.pre[PauseTail]], x), x)

Pausing(m, t, x, M, W) ==
    LET next == First(Do("pause next", x), M)
        pre  == First(Do("pause pre", x), M)
        last == First(Do("pause last", x), pre)
        then == First(Do("pause pre", x), next)
        back == First(Do("pause next", x), last)
    IN  \/ t = First(Do("link pause", x), M) /\ Then(M, ToPause(m, x), W)
        \/ /\ t = First(Do("pause head", x), then)
           /\ Then(M, PauseNext(PausePre([m EXCEPT !.pause = x], x), x), W)
        \/ t = then /\ Then(M, PauseNext(PausePre(m, x), x), W)
        \/ t = next /\ Then(M, PauseNext(m, x), W)
        \/ t = First(Do("pause back", x), back) /\ Then(M, PauseBack(m, x), W)
        \/ t = back /\ Then(M, PauseLast(PauseNext(m, x), x), W)
        \/ t = last /\ Then(M, PauseLast(m, x), W)
        \/ t = pre /\ Then(M, PausePre(m, x), W)

\* The same for the wait list.
WaitNext(m, x) == [m EXCEPT !.next[x] = WaitTail]
WaitPre(m, x) == [m EXCEPT !.pre[WaitTail] = x]
WaitLast(m, x) == WaitPre([m EXCEPT !.next[m.pre[WaitTail]] = x], x)
WaitBack(m, x) == WaitLast(WaitNext([m EXCEPT !.pre[x] = m.pre[WaitTail]], x), x)

Waiting(m, t, x, M, W) ==
    LET pre  == First(Do("wait pre", x), M)
        last == First(Do("wait last", x), pre)
        then == First(Do("wait next", x), pre)
        back == First(Do("wait next", x), last)
    IN  \/ t = First(Do("link wait", x), M) /\ Then(M, ToWait(m, x), W)
        \/ /\ t = First(Do("wait head", x), then)
           /\ Then(M, WaitPre(WaitNext([m EXCEPT !.wait = x], x), x), W)
        \/ t = then /\ Then(M, WaitPre(WaitNext(m, x), x), W)
        \/ t = First(Do("wait back", x), back) /\ Then(M, WaitBack(m, x), W)
        \/ t = back /\ Then(M, WaitLast(WaitNext(m, x), x), W)
        \/ t = last /\ Then(M, WaitLast(m, x), W)
        \/ t = pre /\ Then(M, WaitPre(m, x), W)

\* The head of the ready list is taken off, to be linked elsewhere.
ReadyNext(m) == [m EXCEPT !.ready = m.next[m.ready]]
WaitDrop(m) == [m EXCEPT !.wait = m.next[m.wait]]

Moving(m, t, x, M, W) ==
    \/ /\ t = First(Do("next ready", x), First(Do("link pause", x), M))
       /\ m.ready \in Nodes /\ Then(M, ToPause(ReadyNext(m), x), W)
    \/ /\ t = First(Do("next ready", x), First(Do("link wait", x), M))
       /\ m.ready \in Nodes /\ Then(M, ToWait(ReadyNext(m), x), W)

\* x still sleeps, besides W, although its flags say that it does not.
Oversleeps(m, x, W) ==
    x \notin W /\ \E q : Settled(m, q) /\ ~Idle(q) /\ Range(q.wait) = W \cup {x}

UnlinkPre(m, x) == [m EXCEPT !.pre[m.next[x]] = m.pre[x]]

Unblocking(m, t, x, W) ==
    LET link == First(Do("link pause", x), <<>>)
        pre  == First(Do("unlink pre", x), link)
    IN  \/ t = First(Do("unblock", x), <<>>) /\ Oversleeps(m, x, W)
        \/ t = First(Do("next wait", x), link) /\ m.wait \in Nodes /\ Whole(ToPause(WaitDrop(m), x), W)
        \/ /\ t = First(Do("unlink next", x), pre)
           /\ m.pre[x] # x /\ Whole(ToPause(Unlink(m, x), x), W)
        \/ t = pre /\ Whole(ToPause(UnlinkPre(m, x), x), W)

\* What comes of the lists when everything in t is done.
Rest(m, t, W) ==
    \/ Then(t, m, W) \/ Scheduling(m, t, W)
    \/ \E x \in Procs : Refilling(m, t, x, W) \/ Unblocking(m, t, x, W)
    \/ \E x \in Procs, M \in Finish :
          Pausing(m, t, x, M, W) \/ Waiting(m, t, x, M, W) \/ Moving(m, t, x, M, W)

-----------------------------------------------------------------------------
(* The invariant, as long as no handler has done harm.                     *)

Asleep == {p \in Procs : flags[p] # {}}

Pointers == Nodes \cup {Null}

Shape == [ready : Pointers, pause : Pointers, wait : Pointers,
          next : [Nodes -> Pointers], pre : [Nodes -> Pointers], ticks : [Procs -> Int]]

Typed == /\ l \in Shape
          /\ flags \in [Procs -> {{}, {"SENDING"}, {"RECEIVING"}}]
          /\ DOMAIN recv_from = Procs /\ DOMAIN send_to = Procs
          /\ DOMAIN sending_to_this = Procs
          /\ has_int_msg \in [Procs -> BOOLEAN] /\ due \in [Procs -> BOOLEAN]

\* Where the kernel is, and for whom.
Places == {"user", "take", "taken", "copy", "clear", "mark sender", "mark receiver",
           "from", "accept", "queues", "tick"}

Place == /\ k.pc \in Places
         /\ k.pc = "user" => k = User
         /\ k.pc # "user" => DOMAIN k = {"pc", "p", "with"}
         /\ todo # <<>> <=> k.pc \in {"queues", "tick"}
         /\ k.pc \notin {"user", "tick", "queues"} => k.p \in Procs
         /\ k.pc \in {"copy", "clear", "mark sender", "accept"} => k.with \in Procs
         /\ k.pc \in {"mark receiver", "from"} => k.with \in Procs \cup {ANY, INTERRUPT}

\* Between the calls, and in them until they are at the queues.
Calls ==
    /\ k.pc \in {"copy", "clear", "mark sender", "mark receiver", "from", "accept"} =>
          l.ready = k.p
    /\ k.pc = "copy" => flags[k.with] = {"RECEIVING"}
    /\ k.pc = "clear" => flags[k.with] = {}
    /\ k.pc = "from" => flags[k.p] = {"RECEIVING"} /\ recv_from[k.p] = NO_TASK
    /\ k.pc = "accept" => flags[k.with] = {"SENDING"} /\ send_to[k.with] = k.p

\* Whoever sleeps at this moment, by the wait list.
Sleepers == IF k.pc = "clear" THEN Asleep \cup {k.with}
            ELSE IF k.pc = "from" THEN Asleep \ {k.p} ELSE Asleep

Relinked == IF todo = <<>> THEN Whole(l, Sleepers) ELSE Rest(l, todo, Asleep)

SenderListed ==
    \A p \in Procs : sending_to_this[p] # Null =>
        /\ sending_to_this[p] \in Procs
        /\ flags[sending_to_this[p]] = {"SENDING"} /\ send_to[sending_to_this[p]] = p

\* recv_from is only set while its process receives.
ReceivesFrom ==
    \A p \in Procs : "RECEIVING" \notin flags[p] /\ ~ (k.pc = "clear" /\ k.with = p) =>
        recv_from[p] = NO_TASK

Interrupts ==
    /\ \A p \in Procs : (AwaitsInt(p) => ~has_int_msg[p]) /\ (due[p] => has_int_msg[p])
    /\ k.pc = "taken" => ~due[k.p]
    /\ k.pc \in {"mark receiver", "from"} /\ k.with \in {ANY, INTERRUPT} => ~has_int_msg[k.p]

Orderly == /\ Typed /\ Place /\ Calls /\ Relinked
           /\ SenderListed /\ ReceivesFrom /\ Interrupts

IrqInv == ~struck => Orderly
-----------------------------------------------------------------------------
(* Sequences of statements.                                                *)

LEMMA DoFacts ==
    ASSUME NEW d \in Kinds, NEW x \in Nodes \cup {Null}
    PROVE  Do(d, x) \in Steps /\ Do(d, x).do = d /\ Do(d, x).x = x
BY DEF Do, Steps

LEMMA FirstFacts ==
    ASSUME NEW a \in Steps, NEW u \in Seq(Steps)
    PROVE  /\ First(a, u) \in Seq(Steps) /\ First(a, u) # <<>>
           /\ Head(First(a, u)) = a /\ Tail(First(a, u)) = u
<1> DEFINE f == <<a>> \o u
<1>1. <<a>> \in Seq(Steps) /\ Len(<<a>>) = 1 /\ <<a>>[1] = a
  OBVIOUS
<1>2. f \in Seq(Steps) /\ Len(f) = 1 + Len(u) /\ Len(u) \in Nat
  BY <1>1, ConcatProperties
<1>3. f[1] = a /\ f # <<>>
  BY <1>1, <1>2, ConcatProperties
<1>4. \A i \in 1 .. Len(u) : f[i + 1] = u[i]
  BY <1>1, <1>2, ConcatProperties
<1>5. /\ Tail(f) \in Seq(Steps) /\ Len(Tail(f)) = Len(u) /\ Head(f) = f[1]
      /\ \A i \in 1 .. Len(Tail(f)) : Tail(f)[i] = f[i + 1]
  BY <1>2, <1>3, HeadTailProperties
<1> HIDE DEF f
<1>6. Tail(f) = u
  BY <1>4, <1>5, SeqEqual
<1> QED  BY <1>2, <1>3, <1>5, <1>6 DEF First, f

LEMMA TwoPieces ==
    ASSUME NEW a \in Steps, NEW b \in Steps
    PROVE  <<a, b>> = <<a>> \o <<b>>
<1> DEFINE u == <<a>>
<1>1. u \in Seq(Steps) /\ Len(u) = 1 /\ u[1] = a
  OBVIOUS
<1>2. <<a, b>> = u \o <<b>>
  <2> DEFINE v == <<b>>
             t == <<a, b>>
             w == u \o v
  <2>1. v \in Seq(Steps) /\ Len(v) = 1 /\ v[1] = b
    OBVIOUS
  <2>2. t \in Seq(Steps) /\ Len(t) = 2 /\ t[1] = a /\ t[2] = b
    OBVIOUS
  <2> HIDE DEF u, v, t
  <2>3. /\ w \in Seq(Steps) /\ Len(w) = 2
        /\ \A i \in 1 .. 2 : w[i] = IF i <= 1 THEN u[i] ELSE v[i - 1]
    <3>1. /\ w \in Seq(Steps) /\ Len(w) = Len(u) + Len(v)
          /\ \A i \in 1 .. Len(u) + Len(v) :
                w[i] = IF i <= Len(u) THEN u[i] ELSE v[i - Len(u)]
      BY <1>1, <2>1, ConcatProperties
    <3>2. Len(u) = 1 /\ Len(u) + Len(v) = 2
      BY <1>1, <2>1
    <3> HIDE DEF w
    <3> QED  BY <3>1, <3>2
  <2> HIDE DEF w
  <2>4. w[1] = a /\ w[2] = v[1]
    BY <1>1, <2>3
  <2>5. \A i \in 1 .. Len(t) : t[i] = w[i]
    BY <2>1, <2>2, <2>4
  <2>6. t = w
    BY <2>2, <2>3, <2>5, SeqEqual
  <2> QED  BY <2>6 DEF t, w, v
<1> QED  BY <1>2

LEMMA ThreePieces ==
    ASSUME NEW a \in Steps, NEW b \in Steps, NEW c \in Steps
    PROVE  <<a, b, c>> = <<a>> \o <<b, c>>
<1> DEFINE u == <<a>>
<1>1. u \in Seq(Steps) /\ Len(u) = 1 /\ u[1] = a
  OBVIOUS
<1>2. <<a, b, c>> = u \o <<b, c>>
  <2> DEFINE v == <<b, c>>
             t == <<a, b, c>>
             w == u \o v
  <2>1. v \in Seq(Steps) /\ Len(v) = 2 /\ v[1] = b /\ v[2] = c
    OBVIOUS
  <2>2. t \in Seq(Steps) /\ Len(t) = 3 /\ t[1] = a /\ t[2] = b /\ t[3] = c
    OBVIOUS
  <2> HIDE DEF u, v, t
  <2>3. /\ w \in Seq(Steps) /\ Len(w) = 3
        /\ \A i \in 1 .. 3 : w[i] = IF i <= 1 THEN u[i] ELSE v[i - 1]
    <3>1. /\ w \in Seq(Steps) /\ Len(w) = Len(u) + Len(v)
          /\ \A i \in 1 .. Len(u) + Len(v) :
                w[i] = IF i <= Len(u) THEN u[i] ELSE v[i - Len(u)]
      BY <1>1, <2>1, ConcatProperties
    <3>2. Len(u) = 1 /\ Len(u) + Len(v) = 3
      BY <1>1, <2>1
    <3> HIDE DEF w
    <3> QED  BY <3>1, <3>2
  <2> HIDE DEF w
  <2>4. w[1] = a /\ w[2] = v[1] /\ w[3] = v[2]
    BY <1>1, <2>3
  <2>5. \A i \in 1 .. Len(t) : t[i] = w[i]
    BY <2>1, <2>2, <2>4
  <2>6. t = w
    BY <2>2, <2>3, <2>5, SeqEqual
  <2> QED  BY <2>6 DEF t, w, v
<1> QED  BY <1>2

LEMMA OneFirst ==
    ASSUME NEW M \in Seq(Steps), NEW a \in Steps
    PROVE  /\ <<>> \o M = M /\ M \o <<>> = M
           /\ <<a>> \o M = First(a, M) /\ <<a>> = First(a, <<>>)
BY ConcatEmptySeq DEF First

LEMMA TwoFirst ==
    ASSUME NEW M \in Seq(Steps), NEW a \in Steps, NEW b \in Steps
    PROVE  <<a, b>> \o M = First(a, First(b, M))
<1>1. <<a>> \in Seq(Steps) /\ <<b>> \in Seq(Steps)
  OBVIOUS
<1>2. <<a, b>> = <<a>> \o <<b>>
  BY TwoPieces
<1>3. (<<a>> \o <<b>>) \o M = <<a>> \o (<<b>> \o M)
  BY <1>1, ConcatAssociative
<1> QED  BY <1>2, <1>3 DEF First

LEMMA ThreeFirst ==
    ASSUME NEW M \in Seq(Steps), NEW a \in Steps, NEW b \in Steps, NEW c \in Steps
    PROVE  <<a, b, c>> \o M = First(a, First(b, First(c, M)))
<1>1. <<a>> \in Seq(Steps) /\ <<b, c>> \in Seq(Steps)
  OBVIOUS
<1>2. <<a, b, c>> = <<a>> \o <<b, c>>
  BY ThreePieces
<1>3. (<<a>> \o <<b, c>>) \o M = <<a>> \o (<<b, c>> \o M)
  BY <1>1, ConcatAssociative
<1>4. <<b, c>> \o M = First(b, First(c, M))
  BY TwoFirst
<1> QED  BY <1>2, <1>3, <1>4 DEF First

LEMMA FourFirst ==
    ASSUME NEW M \in Seq(Steps), NEW a \in Steps, NEW b \in Steps, NEW c \in Steps,
           NEW d \in Steps
    PROVE  <<a, b, c, d>> \o M = First(a, First(b, First(c, First(d, M))))
<1> DEFINE u == <<a>>
<1>1. u \in Seq(Steps) /\ Len(u) = 1 /\ u[1] = a
  OBVIOUS
<1>2. <<a, b, c, d>> = u \o <<b, c, d>>
  <2> DEFINE v == <<b, c, d>>
             t == <<a, b, c, d>>
             w == u \o v
  <2>1. v \in Seq(Steps) /\ Len(v) = 3 /\ v[1] = b /\ v[2] = c /\ v[3] = d
    OBVIOUS
  <2>2. t \in Seq(Steps) /\ Len(t) = 4 /\ t[1] = a /\ t[2] = b /\ t[3] = c /\ t[4] = d
    OBVIOUS
  <2> HIDE DEF u, v, t
  <2>3. /\ w \in Seq(Steps) /\ Len(w) = 4
        /\ \A i \in 1 .. 4 : w[i] = IF i <= 1 THEN u[i] ELSE v[i - 1]
    <3>1. /\ w \in Seq(Steps) /\ Len(w) = Len(u) + Len(v)
          /\ \A i \in 1 .. Len(u) + Len(v) :
                w[i] = IF i <= Len(u) THEN u[i] ELSE v[i - Len(u)]
      BY <1>1, <2>1, ConcatProperties
    <3>2. Len(u) = 1 /\ Len(u) + Len(v) = 4
      BY <1>1, <2>1
    <3> HIDE DEF w
    <3> QED  BY <3>1, <3>2
  <2> HIDE DEF w
  <2>4. w[1] = a /\ w[2] = v[1] /\ w[3] = v[2] /\ w[4] = v[3]
    BY <1>1, <2>3
  <2>5. \A i \in 1 .. Len(t) : t[i] = w[i]
    BY <2>1, <2>2, <2>4
  <2>6. t = w
    BY <2>2, <2>3, <2>5, SeqEqual
  <2> QED  BY <2>6 DEF t, w, v
<1>3. <<b, c, d>> \in Seq(Steps)
  OBVIOUS
<1>4. (u \o <<b, c, d>>) \o M = u \o (<<b, c, d>> \o M)
  BY <1>1, <1>3, ConcatAssociative
<1>5. <<b, c, d>> \o M = First(b, First(c, First(d, M)))
  BY ThreeFirst
<1> QED  BY <1>2, <1>4, <1>5 DEF First

LEMMA FinishFacts ==
    ASSUME NEW M \in Finish
    PROVE  M \in Seq(Steps)
<1>1. <<>> \in Seq(Steps) /\ Do("refill", Null) \in Steps
  BY DEF Do, Steps, Kinds
<1>2. \A x \in Procs : Do("idle?", x) \in Steps
  BY NodeFacts DEF Do, Steps, Kinds
<1>3. \A a \in Steps : First(a, <<>>) \in Seq(Steps)
  BY <1>1, FirstFacts
<1> QED  BY <1>1, <1>2, <1>3 DEF Finish

-----------------------------------------------------------------------------
(* The lists at the places where the statements lead to.                   *)

LEMMA WholeFacts ==
    ASSUME NEW m, NEW W, Whole(m, W)
    PROVE  /\ Spelled(m, W) /\ m \in ListState /\ ~ReadyEmpty(m)
           /\ EmptyRuns(m) => PauseEmpty(m)
           /\ m.ready \in Procs \/ EmptyRuns(m)
           /\ m.ready \in Procs => m.ready \notin W
           /\ W \subseteq Procs
<1>1. PICK q : Settled(m, q) /\ Range(q.wait) = W
  BY DEF Whole
<1>2. /\ Spells(m, q) /\ WellFormed(q) /\ m.ready # ReadyTail /\ (Idle(q) <=> EmptyRuns(m))
  BY <1>1, SettledFacts
<1>3. /\ Lists(m, q.ready, q.pause, q.wait) /\ m \in ListState
      /\ ~Idle(q) => m.ready = Current(q) /\ Current(q) \in Procs
      /\ q.ready \in Seq(Procs) /\ q.wait \in Seq(Procs)
  BY <1>2, SpellsFacts
<1>4. EmptyRuns(m) => PauseEmpty(m)
  BY <1>2, <1>3, ListFacts DEF WellFormed, WorkConserving
<1>5. m.ready \in Procs => ~Idle(q)
  BY <1>2, NodeFacts DEF EmptyRuns
<1>6. ~Idle(q) => Current(q) \in Range(q.ready)
  BY <1>3, TailLemma, SeqFacts DEF Idle, Current, Range
<1>7. m.ready \in Procs => m.ready \notin W
  BY <1>1, <1>2, <1>3, <1>5, <1>6 DEF WellFormed, Disjoint
<1>8. Spelled(m, W) /\ W \subseteq Procs
  BY <1>1, <1>3, SeqFacts DEF Spelled
<1> QED  BY <1>2, <1>3, <1>4, <1>7, <1>8 DEF ReadyEmpty

LEMMA ListsWhole ==
    ASSUME NEW m, NEW r, NEW z, NEW w, Lists(m, r, z, w), m.ready # ReadyTail,
           EmptyRuns(m) => z = <<>>
    PROVE  Whole(m, Range(w))
<1> DEFINE q == [ready |-> r, pause |-> z, wait |-> w, ticks |-> m.ticks]
<1>1. /\ q.ready = r /\ q.pause = z /\ q.wait = w /\ q.ticks = m.ticks
      /\ m.ticks \in [Procs -> Int]
  BY ListFacts
<1>2. q \in QueueState
  BY <1>1 DEF QueueState, Lists, Apart
<1>3. r = <<>> => EmptyRuns(m)
  BY ListFacts DEF EmptyRuns
<1> HIDE DEF q
<1>4. Settled(m, q)
  BY <1>1, <1>2, <1>3 DEF Settled, Spells, WorkConserving, Idle
<1> QED  BY <1>1, <1>4 DEF Whole

LEMMA SpelledWhole ==
    ASSUME NEW m, NEW W, Spelled(m, W), ~ReadyEmpty(m), EmptyRuns(m) => PauseEmpty(m)
    PROVE  Whole(m, W)
<1>1. PICK r, z, w : Lists(m, r, z, w) /\ Range(w) = W
  BY DEF Spelled
<1>2. EmptyRuns(m) => z = <<>>
  BY <1>1, ListFacts
<1> QED  BY <1>1, <1>2, ListsWhole DEF ReadyEmpty

\* The lists do not depend on the slices.
LEMMA ListsTicks ==
    ASSUME NEW m, NEW m1, NEW r, NEW z, NEW w, Lists(m, r, z, w), m1 \in ListState,
           m1.ready = m.ready, m1.pause = m.pause, m1.wait = m.wait, m1.next = m.next,
           m1.pre = m.pre
    PROVE  Lists(m1, r, z, w)
<1>1. FirstReady(m1) = FirstReady(m)
  BY DEF FirstReady, EmptyRuns
<1> QED  BY <1>1, LinkedSame DEF Lists, Apart

\* The empty task instead of nothing.
LEMMA GoesIdle ==
    ASSUME NEW m, NEW W, Spelled(m, W), ReadyEmpty(m), PauseEmpty(m)
    PROVE  Whole([[m EXCEPT !.ready = EmptyTask] EXCEPT !.pre[ReadyTail] = EmptyTask], W)
<1> DEFINE m1 == [[m EXCEPT !.ready = EmptyTask] EXCEPT !.pre[ReadyTail] = EmptyTask]
<1>1. PICK r, z, w : Lists(m, r, z, w) /\ Range(w) = W
  BY DEF Spelled
<1>2. r = <<>> /\ z = <<>> /\ m \in ListState /\ Apart(r, z, w)
  BY <1>1, ListFacts DEF ReadyEmpty, Lists
<1>3. /\ m1 \in ListState /\ m1.ready = EmptyTask /\ m1.pause = m.pause /\ m1.wait = m.wait
      /\ m1.next = m.next /\ m1.pre = [m.pre EXCEPT ![ReadyTail] = EmptyTask]
      /\ m1.ticks = m.ticks
  BY <1>2, NodeFacts DEF ListState
<1> HIDE DEF m1
<1>4. \A x \in Nodes : x # ReadyTail => m1.pre[x] = m.pre[x]
  BY <1>2, <1>3 DEF ListState
<1>5. FirstReady(m1) = ReadyTail
  BY <1>3 DEF FirstReady, EmptyRuns
<1>6. Linked(m1, r, ReadyTail, ReadyTail)
  BY <1>2, SeqFacts DEF Linked, Nth
<1>7. Linked(m1, z, m1.pause, PauseTail)
  BY <1>1, <1>2, <1>3 DEF Lists, Linked
<1>8. Linked(m1, w, m1.wait, WaitTail)
  <2>1. w \in Seq(Procs) /\ Linked(m, w, m.wait, WaitTail)
    BY <1>1 DEF Lists, Apart
  <2>2. \A x \in Range(w) : m1.next[x] = m.next[x] /\ m1.pre[x] = m.pre[x]
    BY <1>3, <1>4, <2>1, SeqFacts, NodeFacts
  <2>3. m1.pre[WaitTail] = m.pre[WaitTail]
    BY <1>4, NodeFacts
  <2> QED  BY <1>3, <2>1, <2>2, <2>3, LinkedKept
<1>9. Lists(m1, r, z, w)
  BY <1>2, <1>3, <1>5, <1>6, <1>7, <1>8 DEF Lists
<1>10. m1.ready # ReadyTail /\ (EmptyRuns(m1) => z = <<>>)
  BY <1>2, <1>3, NodeFacts
<1>11. Whole(m1, Range(w))
  BY <1>9, <1>10, ListsWhole
<1> QED  BY <1>1, <1>11 DEF m1

\* The running process goes behind the others.
LEMMA Parks ==
    ASSUME NEW m, NEW W, Spelled(m, W), m.ready \in Procs
    PROVE  LET m1 == ToPause(ReadyNext(m), m.ready)
           IN  IF ReadyOneLeft(m)
               THEN Spelled(m1, W) /\ ReadyEmpty(m1) /\ ~PauseEmpty(m1)
               ELSE Whole(m1, W)
<1> DEFINE x == m.ready
           m0 == ReadyNext(m)
           m1 == ToPause(m0, x)
<1>1. PICK r, z, w : Lists(m, r, z, w) /\ Range(w) = W
  BY DEF Spelled
<1>2. r # <<>> /\ x = Head(r) /\ r \in Seq(Procs) /\ Apart(r, z, w) /\ m \in ListState
  BY <1>1, ListFacts, NodeFacts DEF Lists, Apart
<1>3. /\ Lists(m0, Tail(r), z, w) /\ m0.ready # EmptyTask
      /\ m0.ready = ReadyTail <=> Len(r) = 1
  BY <1>1, <1>2, DropReady DEF ReadyNext
<1>4. m0.ready = m.next[x]
  BY <1>2 DEF ReadyNext, ListState
<1>5. x \notin Range(Tail(r)) /\ x \notin Range(z) /\ x \notin Range(w)
  <2>1. Range(Tail(r)) = Range(r) \ {x} /\ x \in Range(r)
    BY <1>2, TailLemma, LinksAssumption DEF Apart
  <2> QED  BY <1>2, <2>1 DEF Apart
<1> HIDE DEF m0, x
<1>6. /\ Lists(m1, Tail(r), Append(z, x), w) /\ m1.ready = m0.ready
  BY <1>3, <1>5, ToPauseLists DEF x
<1>7. Append(z, x) # <<>>
  BY <1>2 DEF Apart, x
<1> HIDE DEF m1
<1>8. ~PauseEmpty(m1) /\ Spelled(m1, W) /\ ~EmptyRuns(m1)
  <2> DEFINE z1 == Append(z, x)
  <2>1. Lists(m1, Tail(r), z1, w) /\ z1 # <<>>
    BY <1>6, <1>7
  <2> HIDE DEF z1
  <2>3. ~PauseEmpty(m1)
    BY <2>1, ListFacts
  <2>2. Spelled(m1, W)
    BY <1>1, <1>6 DEF Spelled
  <2> QED  BY <1>3, <1>6, <2>3, <2>2 DEF EmptyRuns
<1>9. ReadyOneLeft(m) <=> m0.ready = ReadyTail
  BY <1>4 DEF ReadyOneLeft, x
<1>10. ~ReadyOneLeft(m) => Whole(m1, W)
  BY <1>6, <1>8, <1>9, SpelledWhole DEF ReadyEmpty
<1> QED  BY <1>6, <1>8, <1>9, <1>10 DEF ReadyEmpty, m0, m1, x

\* The running process goes to sleep.
LEMMA FallsAsleep ==
    ASSUME NEW m, NEW W, Spelled(m, W), m.ready \in Procs
    PROVE  LET m1 == ToWait(ReadyNext(m), m.ready)
           IN  Spelled(m1, W \cup {m.ready}) /\ ~EmptyRuns(m1)
<1> DEFINE x == m.ready
           m0 == ReadyNext(m)
           m1 == ToWait(m0, x)
<1>1. PICK r, z, w : Lists(m, r, z, w) /\ Range(w) = W
  BY DEF Spelled
<1>2. r # <<>> /\ x = Head(r) /\ r \in Seq(Procs) /\ w \in Seq(Procs) /\ Apart(r, z, w)
  BY <1>1, ListFacts, NodeFacts DEF Lists, Apart
<1>3. Lists(m0, Tail(r), z, w) /\ m0.ready # EmptyTask
  BY <1>1, <1>2, DropReady DEF ReadyNext
<1>4. x \notin Range(Tail(r)) /\ x \notin Range(z) /\ x \notin Range(w)
  <2>1. Range(Tail(r)) = Range(r) \ {x} /\ x \in Range(r)
    BY <1>2, TailLemma, LinksAssumption DEF Apart
  <2> QED  BY <1>2, <2>1 DEF Apart
<1> HIDE DEF m0, x
<1>5. Lists(m1, Tail(r), z, Append(w, x)) /\ m1.ready = m0.ready
  BY <1>3, <1>4, ToWaitLists DEF x
<1>6. Range(Append(w, x)) = W \cup {x}
  BY <1>1, <1>2, <1>4, AppendLemma, LinksAssumption DEF x, Apart
<1> HIDE DEF m1
<1>7. Spelled(m1, W \cup {x}) /\ ~EmptyRuns(m1)
  BY <1>3, <1>5, <1>6 DEF Spelled, EmptyRuns
<1> QED  BY <1>7 DEF m0, m1, x

\* The empty ready list instead of the empty task.
LEMMA NoneReady ==
    ASSUME NEW m, NEW W, Spelled(m, W), EmptyRuns(m)
    PROVE  LET m1 == [m EXCEPT !.ready = ReadyTail]
           IN  Spelled(m1, W) /\ ~EmptyRuns(m1)
<1> DEFINE m1 == [m EXCEPT !.ready = ReadyTail]
<1>1. PICK r, z, w : Lists(m, r, z, w) /\ Range(w) = W
  BY DEF Spelled
<1>2. m \in ListState
  BY <1>1 DEF Lists
<1>3. /\ m1 \in ListState /\ m1.ready = ReadyTail /\ m1.pause = m.pause /\ m1.wait = m.wait
      /\ m1.next = m.next /\ m1.pre = m.pre
  BY <1>2, NodeFacts DEF ListState
<1> HIDE DEF m1
<1>4. FirstReady(m1) = FirstReady(m) /\ ~EmptyRuns(m1)
  BY <1>3, NodeFacts DEF FirstReady, EmptyRuns
<1>5. Lists(m1, r, z, w)
  BY <1>1, <1>3, <1>4, LinkedSame DEF Lists
<1> QED  BY <1>1, <1>4, <1>5 DEF Spelled, m1

LEMMA SpelledReady ==
    ASSUME NEW m, NEW W, Spelled(m, W), ~EmptyRuns(m), ~ReadyEmpty(m)
    PROVE  m.ready \in Procs
BY ListFacts DEF Spelled, EmptyRuns, ReadyEmpty

\* The loop that refills the slices starts at the head of the pause list ...
LEMMA WalkStarts ==
    ASSUME NEW m, NEW W, Spelled(m, W), ReadyEmpty(m), ~PauseEmpty(m)
    PROVE  Walked(m, m.pause, W) /\ m.pause \in Procs
<1>1. PICK r, z, w : Lists(m, r, z, w) /\ Range(w) = W
  BY DEF Spelled
<1>2. r = <<>> /\ z # <<>> /\ m.pause = Head(z) /\ z \in Seq(Procs) /\ m \in ListState
  BY <1>1, ListFacts DEF ReadyEmpty, Lists, Apart
<1>3. [m EXCEPT !.pause = m.pause] = m
  BY <1>2 DEF ListState
<1>4. Head(z) \in Range(z) /\ Head(z) \in Procs
  BY <1>1, <1>2, TailLemma DEF Lists, Apart
<1> QED  BY <1>1, <1>2, <1>3, <1>4 DEF Walked

LEMMA PauseTwice ==
    ASSUME NEW m \in Shape, NEW h \in Pointers, NEW g \in Pointers
    PROVE  [[m EXCEPT !.pause = g] EXCEPT !.pause = h] = [m EXCEPT !.pause = h]
BY DEF Shape

\* ... goes from one to the next ...
LEMMA Walks ==
    ASSUME NEW m \in Shape, NEW h \in Procs, NEW W, Walked(m, h, W), m.pause # PauseTail
    PROVE  LET m1 == [m EXCEPT !.pause = m.next[m.pause]]
           IN  /\ m.pause \in Procs /\ Walked(m1, h, W)
               /\ m1.pause \in Procs \/ PauseEmpty(m1)
<1> DEFINE m0 == [m EXCEPT !.pause = h]
           m1 == [m EXCEPT !.pause = m.next[m.pause]]
<1>1. PICK z, w : /\ Lists(m0, <<>>, z, w) /\ Range(w) = W
                  /\ z # <<>> /\ h = Head(z)
                  /\ m.pause \in Range(z) \cup {PauseTail} /\ ReadyEmpty(m)
  BY DEF Walked
<1>2. m0.next = m.next /\ m0.pause = h /\ m1.ready = m.ready /\ m1.pause = m.next[m.pause]
  BY DEF Shape
<1>3. z \in Seq(Procs) /\ Linked(m0, z, h, PauseTail)
  BY <1>1, <1>2 DEF Lists, Apart
<1>4. PICK i \in 1 .. Len(z) : z[i] = m.pause
  BY <1>1, <1>3, SeqFacts DEF Range
<1>5. m.next[m.pause] = Nth(z, i + 1, PauseTail)
  BY <1>2, <1>3, <1>4 DEF Linked
<1>6. m.next[m.pause] \in Range(z) \cup {PauseTail}
  <2>1. CASE i + 1 <= Len(z)
    <3>1. i + 1 \in 1 .. Len(z)
      BY <1>3, <1>4, <2>1, SeqFacts
    <3> QED  BY <1>3, <1>5, <2>1, <3>1, SeqFacts DEF Nth
  <2>2. CASE ~(i + 1 <= Len(z))
    BY <1>5, <2>2 DEF Nth
  <2> QED  BY <2>1, <2>2
<1>7. Range(z) \subseteq Procs
  BY <1>3, SeqFacts
<1>8. [m1 EXCEPT !.pause = h] = m0
  BY <1>6, <1>7, PauseTwice, NodeFacts DEF Pointers
<1> HIDE DEF m0, m1
<1>9. Walked(m1, h, W)
  BY <1>1, <1>2, <1>6, <1>8 DEF Walked, ReadyEmpty
<1>10. m.pause \in Procs
  BY <1>1, <1>7
<1> QED  BY <1>2, <1>6, <1>7, <1>9, <1>10 DEF PauseEmpty, m1

\* ... and ends with the pause list as the ready list.
LEMMA WalkEnds ==
    ASSUME NEW m \in Shape, NEW h \in Procs, NEW W, Walked(m, h, W), PauseEmpty(m)
    PROVE  Whole(SwapHead(m, h), W)
<1> DEFINE m0 == [m EXCEPT !.pause = h]
           m1 == PRefill(m0)
           m2 == SwapHead(m, h)
<1>1. PICK z, w : /\ Lists(m0, <<>>, z, w) /\ Range(w) = W /\ z # <<>> /\ h = Head(z)
  BY DEF Walked
<1>2. /\ m0.ready = m.ready /\ m0.pause = h /\ m0.wait = m.wait /\ m0.next = m.next
      /\ m0.pre = m.pre /\ m0.ticks = m.ticks
  BY DEF Shape
<1>3. Lists(m1, z, <<>>, w) /\ m1.ready = h
  BY <1>1, RefillLists
<1>4. /\ m0 \in ListState /\ m1 \in ListState
  BY <1>1, <1>3 DEF Lists
<1>5. /\ m1.pause = PauseTail /\ m1.wait = m.wait
      /\ m1.next = [m.next EXCEPT ![m.pre[PauseTail]] = ReadyTail]
      /\ m1.pre = [m.pre EXCEPT ![ReadyTail] = m.pre[PauseTail]]
  BY <1>2, <1>4 DEF PRefill, ListState
<1>6. /\ m2.ready = h /\ m2.pause = m.pause /\ m2.wait = m.wait /\ m2.ticks = m.ticks
      /\ m2.next = [m.next EXCEPT ![m.pre[PauseTail]] = ReadyTail]
      /\ m2.pre = [m.pre EXCEPT ![ReadyTail] = m.pre[PauseTail]]
      /\ m2 = [ready |-> m2.ready, pause |-> m2.pause, wait |-> m2.wait, next |-> m2.next,
               pre |-> m2.pre, ticks |-> m2.ticks]
  <2> DEFINE a == [m EXCEPT !.ready = h]
             b == [a EXCEPT !.next[a.pre[PauseTail]] = ReadyTail]
  <2>1. /\ a.ready = h /\ a.pause = m.pause /\ a.wait = m.wait /\ a.next = m.next
        /\ a.pre = m.pre /\ a.ticks = m.ticks /\ a \in Shape
    BY NodeFacts DEF Shape, Pointers
  <2> HIDE DEF a
  <2>2. /\ b.ready = h /\ b.pause = m.pause /\ b.wait = m.wait
        /\ b.next = [m.next EXCEPT ![m.pre[PauseTail]] = ReadyTail]
        /\ b.pre = m.pre /\ b.ticks = m.ticks /\ b \in Shape
    BY <2>1, NodeFacts DEF Shape, Pointers
  <2>3. m2 = SwapPre(b)
    BY DEF SwapHead, SwapNext, a
  <2> HIDE DEF b, m2
  <2> QED  BY <2>2, <2>3 DEF SwapPre, Shape
<1>7. m2 \in ListState
  BY <1>2, <1>4, <1>5, <1>6, NodeFacts DEF ListState, PauseEmpty
<1> HIDE DEF m0, m1, m2
<1>8. Lists(m2, z, <<>>, w)
  BY <1>3, <1>5, <1>6, <1>7, ListsTicks DEF PauseEmpty
<1>9. m2.ready # ReadyTail /\ ~EmptyRuns(m2)
  BY <1>6, NodeFacts DEF EmptyRuns
<1>10. Whole(m2, Range(w))
  BY <1>8, <1>9, ListsWhole
<1> QED  BY <1>1, <1>10 DEF m2

-----------------------------------------------------------------------------
(* unblock().                                                              *)

LEMMA Unblocks ==
    ASSUME NEW m \in Shape, NEW x \in Procs, NEW W, Oversleeps(m, x, W)
    PROVE  /\ Whole(PUnblock(m, x), W)
           /\ m.wait = x => PUnblock(m, x) = ToPause(WaitDrop(m), x)
           /\ m.wait # x => m.pre[x] # x /\ PUnblock(m, x) = ToPause(Unlink(m, x), x)
<1>1. PICK q : Settled(m, q) /\ ~Idle(q) /\ Range(q.wait) = W \cup {x} /\ x \notin W
  BY DEF Oversleeps
<1>2. Spells(m, q) /\ Partitioned(q) /\ Lists(m, q.ready, q.pause, q.wait)
  BY <1>1, SettledFacts, SpellsFacts
<1> DEFINE u == Unblock(q, x)
           m1 == PUnblock(m, x)
<1>3. Spells(m1, u) /\ m1.ready = m.ready
  BY <1>1, <1>2, UnblockSpells
<1>4. Range(u.wait) = W /\ u.ready = q.ready
  <2>1. x \in Range(q.wait)
    BY <1>1
  <2>2. Range(u.wait) = Range(q.wait) \ {x} /\ u.ready = q.ready
    BY <1>2, <2>1, UnblockLemma
  <2> QED  BY <1>1, <2>2
<1> HIDE DEF u, m1
<1>5. ~Idle(u)
  BY <1>1, <1>4 DEF Idle
<1>6. Whole(m1, W)
  BY <1>3, <1>4, <1>5 DEF Whole, Settled, WorkConserving
<1>7. m.wait = x => m1 = ToPause(WaitDrop(m), x)
  BY DEF m1, PUnblock, WaitDrop
<1>8. ASSUME m.wait # x PROVE m.pre[x] # x /\ m1 = ToPause(Unlink(m, x), x)
  <2> DEFINE c == q.wait
  <2>1. /\ c \in Seq(Procs) /\ IsInjective(c) /\ Linked(m, c, m.wait, WaitTail)
        /\ x \in Range(c)
    BY <1>1, <1>2 DEF Lists, Apart
  <2> HIDE DEF c
  <2>2. PICK i \in 1 .. Len(c) : c[i] = x
    BY <2>1, SeqFacts DEF Range
  <2>3. i # 1
    <3>1. Len(c) \in Nat /\ (i = 1 => 1 <= Len(c))
      BY <2>1, <2>2, SeqFacts
    <3> QED  BY <1>8, <2>1, <2>2, <3>1 DEF Linked, Nth
  <2>4. i - 1 \in 1 .. Len(c) - 1 /\ i - 1 \in 1 .. Len(c) /\ (i - 1) + 1 = i
    BY <2>1, <2>2, <2>3, SeqFacts
  <2>5. m.pre[c[(i - 1) + 1]] = c[i - 1]
    BY <2>1, <2>4 DEF Linked
  <2>6. c[i - 1] # c[i]
    BY <2>1, <2>2, <2>4, SeqFacts DEF IsInjective
  <2>7. m1 = ToPause(Unlink(m, x), x)
    BY <1>8 DEF m1, PUnblock
  <2> QED  BY <2>2, <2>4, <2>5, <2>6, <2>7
<1> QED  BY <1>6, <1>7, <1>8 DEF m1

LEMMA UnlinksInTurn ==
    ASSUME NEW m \in Shape, NEW x \in Procs, m.pre[x] # x
    PROVE  UnlinkPre([m EXCEPT !.next[m.pre[x]] = m.next[x]], x) = Unlink(m, x)
<1> DEFINE m1 == [m EXCEPT !.next[m.pre[x]] = m.next[x]]
<1>1. m1.next[x] = m.next[x] /\ m1.pre = m.pre
  BY NodeFacts DEF Shape
<1> QED  BY <1>1 DEF UnlinkPre, Unlink

\* inform_int(), when the process sleeps and the lists are whole.
LEMMA Wakes ==
    ASSUME NEW m, NEW W, Whole(m, W), NEW x \in W
    PROVE  /\ Whole(PWake(m, x), W \ {x})
           /\ m.ready \in Procs => PWake(m, x).ready = m.ready
<1>1. PICK q : Settled(m, q) /\ Range(q.wait) = W
  BY DEF Whole
<1>2. Spells(m, q) /\ WellFormed(q) /\ (Idle(q) <=> EmptyRuns(m))
  BY <1>1, SettledFacts
<1> DEFINE v == Wake(q, x)
           m1 == PWake(m, x)
<1>3. Settled(m1, v) /\ Range(v.wait) = W \ {x}
  BY <1>1, <1>2, WakeSettles, WakeLemma
<1>4. PUnblock(m, x).ready = m.ready
  BY <1>1, <1>2, UnblockSpells
<1>5. m.ready \in Procs => m1.ready = m.ready
  BY <1>4, NodeFacts DEF PWake, EmptyRuns
<1> HIDE DEF m1, v
<1>6. Whole(m1, W \ {x})
  BY <1>3 DEF Whole
<1> QED  BY <1>5, <1>6 DEF m1

-----------------------------------------------------------------------------
(* One statement.                                                          *)

LEMMA Branches ==
    ASSUME Statement, NEW d \in Branching, NEW x \in Pointers, NEW u \in Seq(Steps),
           todo = First(Do(d, x), u)
    PROVE  l' = l /\ todo' = Branch(Do(d, x)) \o u
<1> DEFINE a == Do(d, x)
<1>0. d \in Kinds
  BY DEF Branching, Kinds
<1>1. a \in Steps /\ a.do = d
  BY <1>0, DoFacts DEF Pointers
<1>2. Head(todo) = a /\ Tail(todo) = u
  BY <1>1, FirstFacts
<1> HIDE DEF a
<1> QED  BY <1>1, <1>2 DEF Statement, a

LEMMA Assigns ==
    ASSUME Statement, NEW d \in Kinds \ Branching, NEW x \in Pointers, NEW u \in Seq(Steps),
           todo = First(Do(d, x), u)
    PROVE  /\ l' = Assign(Do(d, x))
           /\ todo' = IF d = "next pause" /\ l'.pause \in Procs THEN todo ELSE u
<1> DEFINE a == Do(d, x)
<1>1. a \in Steps /\ a.do = d
  BY DoFacts DEF Pointers
<1>2. Head(todo) = a /\ Tail(todo) = u
  BY <1>1, FirstFacts
<1> HIDE DEF a
<1> QED  BY <1>1, <1>2 DEF Statement, Again, a

\* The PCB that a pointer leads to is a pointer again.
LEMMA ShapeKept ==
    ASSUME NEW m \in Shape, NEW p \in Pointers
    PROVE  /\ [m EXCEPT !.ready = p] \in Shape /\ [m EXCEPT !.pause = p] \in Shape
           /\ [m EXCEPT !.wait = p] \in Shape
           /\ \A a : [m EXCEPT !.next[a] = p] \in Shape /\ [m EXCEPT !.pre[a] = p] \in Shape
           /\ m.ready \in Pointers /\ m.pause \in Pointers /\ m.wait \in Pointers
           /\ p \in Nodes => m.next[p] \in Pointers /\ m.pre[p] \in Pointers
BY DEF Shape

LEMMA NodePointers ==
    /\ Procs \subseteq Pointers /\ Procs \subseteq Nodes
    /\ {ReadyTail, PauseTail, WaitTail, EmptyTask} \subseteq Nodes
    /\ {ReadyTail, PauseTail, WaitTail, EmptyTask} \subseteq Pointers /\ Null \in Pointers
BY NodeFacts DEF Pointers

\* Each assignment.
LEMMA PausePasses ==
    ASSUME Statement, NEW x \in Pointers, NEW u \in Seq(Steps),
           todo = First(Do("next pause", x), u), l.pause \in Nodes
    PROVE  /\ l' = [l EXCEPT !.pause = l.next[l.pause]]
           /\ todo' = IF l'.pause \in Procs THEN todo ELSE u
<1> DEFINE d == "next pause"
<1>1. d \in Kinds \ Branching
  BY DEF Kinds, Branching
<1>2. Assign(Do(d, x)) = [l EXCEPT !.pause = l.next[l.pause]]
  BY DEF Assign, Do, Follow
<1> HIDE DEF d
<1>3. l' = Assign(Do(d, x)) /\ todo' = IF d = "next pause" /\ l'.pause \in Procs THEN todo ELSE u
  BY <1>1, Assigns DEF d
<1> QED  BY <1>2, <1>3 DEF d

LEMMA ReadyAssigns ==
    ASSUME Statement, NEW x \in Pointers, NEW u \in Seq(Steps)
    PROVE  /\ todo = First(Do("next ready", x), u) /\ l.ready \in Nodes =>
                 l' = ReadyNext(l) /\ todo' = u
           /\ todo = First(Do("next wait", x), u) /\ l.wait \in Nodes =>
                 l' = WaitDrop(l) /\ todo' = u
           /\ todo = First(Do("none ready", x), u) =>
                 l' = [l EXCEPT !.ready = ReadyTail] /\ todo' = u
           /\ todo = First(Do("idle", x), u) =>
                 l' = [l EXCEPT !.ready = EmptyTask] /\ todo' = u
           /\ todo = First(Do("idle pre", x), u) =>
                 l' = [l EXCEPT !.pre[ReadyTail] = EmptyTask] /\ todo' = u
           /\ todo = First(Do("swap head", x), u) =>
                 l' = [l EXCEPT !.ready = x] /\ todo' = u
           /\ todo = First(Do("swap next", x), u) =>
                 l' = [l EXCEPT !.next[l.pre[PauseTail]] = ReadyTail] /\ todo' = u
           /\ todo = First(Do("swap pre", x), u) =>
                 l' = SwapPre(l) /\ todo' = u
<1>0. ASSUME NEW d \in Kinds \ Branching, d # "next pause", todo = First(Do(d, x), u)
      PROVE  l' = Assign(Do(d, x)) /\ todo' = u
  BY <1>0, Assigns
<1>1. todo = First(Do("next ready", x), u) /\ l.ready \in Nodes =>
      l' = ReadyNext(l) /\ todo' = u
  <2> DEFINE d == "next ready"
  <2>1. d \in Kinds \ Branching /\ d # "next pause"
    BY DEF Kinds, Branching
  <2>2. l.ready \in Nodes => Assign(Do(d, x)) = ReadyNext(l)
    BY DEF Assign, Do, Follow, ReadyNext
  <2> HIDE DEF d
  <2>3. todo = First(Do(d, x), u) => l' = Assign(Do(d, x)) /\ todo' = u
    BY <1>0, <2>1
  <2> QED  BY <2>2, <2>3 DEF d
<1>2. todo = First(Do("next wait", x), u) /\ l.wait \in Nodes =>
      l' = WaitDrop(l) /\ todo' = u
  <2> DEFINE d == "next wait"
  <2>1. d \in Kinds \ Branching /\ d # "next pause"
    BY DEF Kinds, Branching
  <2>2. l.wait \in Nodes => Assign(Do(d, x)) = WaitDrop(l)
    BY DEF Assign, Do, Follow, WaitDrop
  <2> HIDE DEF d
  <2>3. todo = First(Do(d, x), u) => l' = Assign(Do(d, x)) /\ todo' = u
    BY <1>0, <2>1
  <2> QED  BY <2>2, <2>3 DEF d
<1>3. todo = First(Do("none ready", x), u) =>
      l' = [l EXCEPT !.ready = ReadyTail] /\ todo' = u
  <2> DEFINE d == "none ready"
  <2>1. d \in Kinds \ Branching /\ d # "next pause"
    BY DEF Kinds, Branching
  <2>2. Assign(Do(d, x)) = [l EXCEPT !.ready = ReadyTail]
    BY DEF Assign, Do
  <2> HIDE DEF d
  <2>3. todo = First(Do(d, x), u) => l' = Assign(Do(d, x)) /\ todo' = u
    BY <1>0, <2>1
  <2> QED  BY <2>2, <2>3 DEF d
<1>4. todo = First(Do("idle", x), u) =>
      l' = [l EXCEPT !.ready = EmptyTask] /\ todo' = u
  <2> DEFINE d == "idle"
  <2>1. d \in Kinds \ Branching /\ d # "next pause"
    BY DEF Kinds, Branching
  <2>2. Assign(Do(d, x)) = [l EXCEPT !.ready = EmptyTask]
    BY DEF Assign, Do
  <2> HIDE DEF d
  <2>3. todo = First(Do(d, x), u) => l' = Assign(Do(d, x)) /\ todo' = u
    BY <1>0, <2>1
  <2> QED  BY <2>2, <2>3 DEF d
<1>5. todo = First(Do("idle pre", x), u) =>
      l' = [l EXCEPT !.pre[ReadyTail] = EmptyTask] /\ todo' = u
  <2> DEFINE d == "idle pre"
  <2>1. d \in Kinds \ Branching /\ d # "next pause"
    BY DEF Kinds, Branching
  <2>2. Assign(Do(d, x)) = [l EXCEPT !.pre[ReadyTail] = EmptyTask]
    BY DEF Assign, Do
  <2> HIDE DEF d
  <2>3. todo = First(Do(d, x), u) => l' = Assign(Do(d, x)) /\ todo' = u
    BY <1>0, <2>1
  <2> QED  BY <2>2, <2>3 DEF d
<1>6. todo = First(Do("swap head", x), u) =>
      l' = [l EXCEPT !.ready = x] /\ todo' = u
  <2> DEFINE d == "swap head"
  <2>1. d \in Kinds \ Branching /\ d # "next pause"
    BY DEF Kinds, Branching
  <2>2. Assign(Do(d, x)) = [l EXCEPT !.ready = x]
    BY DEF Assign, Do
  <2> HIDE DEF d
  <2>3. todo = First(Do(d, x), u) => l' = Assign(Do(d, x)) /\ todo' = u
    BY <1>0, <2>1
  <2> QED  BY <2>2, <2>3 DEF d
<1>7. todo = First(Do("swap next", x), u) =>
      l' = [l EXCEPT !.next[l.pre[PauseTail]] = ReadyTail] /\ todo' = u
  <2> DEFINE d == "swap next"
  <2>1. d \in Kinds \ Branching /\ d # "next pause"
    BY DEF Kinds, Branching
  <2>2. Assign(Do(d, x)) = [l EXCEPT !.next[l.pre[PauseTail]] = ReadyTail]
    BY DEF Assign, Do
  <2> HIDE DEF d
  <2>3. todo = First(Do(d, x), u) => l' = Assign(Do(d, x)) /\ todo' = u
    BY <1>0, <2>1
  <2> QED  BY <2>2, <2>3 DEF d
<1>8. todo = First(Do("swap pre", x), u) =>
      l' = SwapPre(l) /\ todo' = u
  <2> DEFINE d == "swap pre"
  <2>1. d \in Kinds \ Branching /\ d # "next pause"
    BY DEF Kinds, Branching
  <2>2. Assign(Do(d, x)) = SwapPre(l)
    BY DEF Assign, Do, SwapPre
  <2> HIDE DEF d
  <2>3. todo = First(Do(d, x), u) => l' = Assign(Do(d, x)) /\ todo' = u
    BY <1>0, <2>1
  <2> QED  BY <2>2, <2>3 DEF d
<1> QED  BY <1>1, <1>2, <1>3, <1>4, <1>5, <1>6, <1>7, <1>8

LEMMA LinkAssigns ==
    ASSUME Statement, NEW x \in Pointers, NEW u \in Seq(Steps)
    PROVE  /\ todo = First(Do("pause head", x), u) =>
                 l' = [l EXCEPT !.pause = x] /\ todo' = u
           /\ todo = First(Do("pause pre", x), u) =>
                 l' = PausePre(l, x) /\ todo' = u
           /\ todo = First(Do("pause next", x), u) =>
                 l' = PauseNext(l, x) /\ todo' = u
           /\ todo = First(Do("pause back", x), u) =>
                 l' = [l EXCEPT !.pre[x] = l.pre[PauseTail]] /\ todo' = u
           /\ todo = First(Do("pause last", x), u) =>
                 l' = [l EXCEPT !.next[l.pre[PauseTail]] = x] /\ todo' = u
           /\ todo = First(Do("wait head", x), u) =>
                 l' = [l EXCEPT !.wait = x] /\ todo' = u
           /\ todo = First(Do("wait pre", x), u) =>
                 l' = WaitPre(l, x) /\ todo' = u
           /\ todo = First(Do("wait next", x), u) =>
                 l' = WaitNext(l, x) /\ todo' = u
           /\ todo = First(Do("wait back", x), u) =>
                 l' = [l EXCEPT !.pre[x] = l.pre[WaitTail]] /\ todo' = u
           /\ todo = First(Do("wait last", x), u) =>
                 l' = [l EXCEPT !.next[l.pre[WaitTail]] = x] /\ todo' = u
           /\ todo = First(Do("unlink next", x), u) =>
                 l' = [l EXCEPT !.next[l.pre[x]] = l.next[x]] /\ todo' = u
           /\ todo = First(Do("unlink pre", x), u) =>
                 l' = UnlinkPre(l, x) /\ todo' = u
<1>0. ASSUME NEW d \in Kinds \ Branching, d # "next pause", todo = First(Do(d, x), u)
      PROVE  l' = Assign(Do(d, x)) /\ todo' = u
  BY <1>0, Assigns
<1>1. todo = First(Do("pause head", x), u) =>
      l' = [l EXCEPT !.pause = x] /\ todo' = u
  <2> DEFINE d == "pause head"
  <2>1. d \in Kinds \ Branching /\ d # "next pause"
    BY DEF Kinds, Branching
  <2>2. Assign(Do(d, x)) = [l EXCEPT !.pause = x]
    BY DEF Assign, Do
  <2> HIDE DEF d
  <2>3. todo = First(Do(d, x), u) => l' = Assign(Do(d, x)) /\ todo' = u
    BY <1>0, <2>1
  <2> QED  BY <2>2, <2>3 DEF d
<1>2. todo = First(Do("pause pre", x), u) =>
      l' = PausePre(l, x) /\ todo' = u
  <2> DEFINE d == "pause pre"
  <2>1. d \in Kinds \ Branching /\ d # "next pause"
    BY DEF Kinds, Branching
  <2>2. Assign(Do(d, x)) = PausePre(l, x)
    BY DEF Assign, Do, PausePre
  <2> HIDE DEF d
  <2>3. todo = First(Do(d, x), u) => l' = Assign(Do(d, x)) /\ todo' = u
    BY <1>0, <2>1
  <2> QED  BY <2>2, <2>3 DEF d
<1>3. todo = First(Do("pause next", x), u) =>
      l' = PauseNext(l, x) /\ todo' = u
  <2> DEFINE d == "pause next"
  <2>1. d \in Kinds \ Branching /\ d # "next pause"
    BY DEF Kinds, Branching
  <2>2. Assign(Do(d, x)) = PauseNext(l, x)
    BY DEF Assign, Do, PauseNext
  <2> HIDE DEF d
  <2>3. todo = First(Do(d, x), u) => l' = Assign(Do(d, x)) /\ todo' = u
    BY <1>0, <2>1
  <2> QED  BY <2>2, <2>3 DEF d
<1>4. todo = First(Do("pause back", x), u) =>
      l' = [l EXCEPT !.pre[x] = l.pre[PauseTail]] /\ todo' = u
  <2> DEFINE d == "pause back"
  <2>1. d \in Kinds \ Branching /\ d # "next pause"
    BY DEF Kinds, Branching
  <2>2. Assign(Do(d, x)) = [l EXCEPT !.pre[x] = l.pre[PauseTail]]
    BY DEF Assign, Do
  <2> HIDE DEF d
  <2>3. todo = First(Do(d, x), u) => l' = Assign(Do(d, x)) /\ todo' = u
    BY <1>0, <2>1
  <2> QED  BY <2>2, <2>3 DEF d
<1>5. todo = First(Do("pause last", x), u) =>
      l' = [l EXCEPT !.next[l.pre[PauseTail]] = x] /\ todo' = u
  <2> DEFINE d == "pause last"
  <2>1. d \in Kinds \ Branching /\ d # "next pause"
    BY DEF Kinds, Branching
  <2>2. Assign(Do(d, x)) = [l EXCEPT !.next[l.pre[PauseTail]] = x]
    BY DEF Assign, Do
  <2> HIDE DEF d
  <2>3. todo = First(Do(d, x), u) => l' = Assign(Do(d, x)) /\ todo' = u
    BY <1>0, <2>1
  <2> QED  BY <2>2, <2>3 DEF d
<1>6. todo = First(Do("wait head", x), u) =>
      l' = [l EXCEPT !.wait = x] /\ todo' = u
  <2> DEFINE d == "wait head"
  <2>1. d \in Kinds \ Branching /\ d # "next pause"
    BY DEF Kinds, Branching
  <2>2. Assign(Do(d, x)) = [l EXCEPT !.wait = x]
    BY DEF Assign, Do
  <2> HIDE DEF d
  <2>3. todo = First(Do(d, x), u) => l' = Assign(Do(d, x)) /\ todo' = u
    BY <1>0, <2>1
  <2> QED  BY <2>2, <2>3 DEF d
<1>7. todo = First(Do("wait pre", x), u) =>
      l' = WaitPre(l, x) /\ todo' = u
  <2> DEFINE d == "wait pre"
  <2>1. d \in Kinds \ Branching /\ d # "next pause"
    BY DEF Kinds, Branching
  <2>2. Assign(Do(d, x)) = WaitPre(l, x)
    BY DEF Assign, Do, WaitPre
  <2> HIDE DEF d
  <2>3. todo = First(Do(d, x), u) => l' = Assign(Do(d, x)) /\ todo' = u
    BY <1>0, <2>1
  <2> QED  BY <2>2, <2>3 DEF d
<1>8. todo = First(Do("wait next", x), u) =>
      l' = WaitNext(l, x) /\ todo' = u
  <2> DEFINE d == "wait next"
  <2>1. d \in Kinds \ Branching /\ d # "next pause"
    BY DEF Kinds, Branching
  <2>2. Assign(Do(d, x)) = WaitNext(l, x)
    BY DEF Assign, Do, WaitNext
  <2> HIDE DEF d
  <2>3. todo = First(Do(d, x), u) => l' = Assign(Do(d, x)) /\ todo' = u
    BY <1>0, <2>1
  <2> QED  BY <2>2, <2>3 DEF d
<1>9. todo = First(Do("wait back", x), u) =>
      l' = [l EXCEPT !.pre[x] = l.pre[WaitTail]] /\ todo' = u
  <2> DEFINE d == "wait back"
  <2>1. d \in Kinds \ Branching /\ d # "next pause"
    BY DEF Kinds, Branching
  <2>2. Assign(Do(d, x)) = [l EXCEPT !.pre[x] = l.pre[WaitTail]]
    BY DEF Assign, Do
  <2> HIDE DEF d
  <2>3. todo = First(Do(d, x), u) => l' = Assign(Do(d, x)) /\ todo' = u
    BY <1>0, <2>1
  <2> QED  BY <2>2, <2>3 DEF d
<1>10. todo = First(Do("wait last", x), u) =>
      l' = [l EXCEPT !.next[l.pre[WaitTail]] = x] /\ todo' = u
  <2> DEFINE d == "wait last"
  <2>1. d \in Kinds \ Branching /\ d # "next pause"
    BY DEF Kinds, Branching
  <2>2. Assign(Do(d, x)) = [l EXCEPT !.next[l.pre[WaitTail]] = x]
    BY DEF Assign, Do
  <2> HIDE DEF d
  <2>3. todo = First(Do(d, x), u) => l' = Assign(Do(d, x)) /\ todo' = u
    BY <1>0, <2>1
  <2> QED  BY <2>2, <2>3 DEF d
<1>11. todo = First(Do("unlink next", x), u) =>
      l' = [l EXCEPT !.next[l.pre[x]] = l.next[x]] /\ todo' = u
  <2> DEFINE d == "unlink next"
  <2>1. d \in Kinds \ Branching /\ d # "next pause"
    BY DEF Kinds, Branching
  <2>2. Assign(Do(d, x)) = [l EXCEPT !.next[l.pre[x]] = l.next[x]]
    BY DEF Assign, Do
  <2> HIDE DEF d
  <2>3. todo = First(Do(d, x), u) => l' = Assign(Do(d, x)) /\ todo' = u
    BY <1>0, <2>1
  <2> QED  BY <2>2, <2>3 DEF d
<1>12. todo = First(Do("unlink pre", x), u) =>
      l' = UnlinkPre(l, x) /\ todo' = u
  <2> DEFINE d == "unlink pre"
  <2>1. d \in Kinds \ Branching /\ d # "next pause"
    BY DEF Kinds, Branching
  <2>2. Assign(Do(d, x)) = UnlinkPre(l, x)
    BY DEF Assign, Do, UnlinkPre
  <2> HIDE DEF d
  <2>3. todo = First(Do(d, x), u) => l' = Assign(Do(d, x)) /\ todo' = u
    BY <1>0, <2>1
  <2> QED  BY <2>2, <2>3 DEF d
<1> QED  BY <1>1, <1>2, <1>3, <1>4, <1>5, <1>6, <1>7, <1>8, <1>9, <1>10, <1>11, <1>12

\* Each condition.
LEMMA LinkBranches ==
    ASSUME NEW x \in Procs, NEW M \in Seq(Steps)
    PROVE  /\ Branch(Do("link pause", x)) \o M =
                 IF PauseEmpty(l)
                 THEN First(Do("pause head", x), First(Do("pause pre", x),
                      First(Do("pause next", x), M)))
                 ELSE First(Do("pause back", x), First(Do("pause next", x),
                      First(Do("pause last", x), First(Do("pause pre", x), M))))
           /\ Branch(Do("link wait", x)) \o M =
                 IF WaitEmpty(l)
                 THEN First(Do("wait head", x), First(Do("wait next", x),
                      First(Do("wait pre", x), M)))
                 ELSE First(Do("wait back", x), First(Do("wait next", x),
                      First(Do("wait last", x), First(Do("wait pre", x), M))))
<1> DEFINE ph == Do("pause head", x)  pp == Do("pause pre", x)  pn == Do("pause next", x)
           pb == Do("pause back", x)  pl == Do("pause last", x)
           wh == Do("wait head", x)  wp == Do("wait pre", x)  wn == Do("wait next", x)
           wb == Do("wait back", x)  wl == Do("wait last", x)
<1>1. /\ ph \in Steps /\ pp \in Steps /\ pn \in Steps /\ pb \in Steps /\ pl \in Steps
      /\ wh \in Steps /\ wp \in Steps /\ wn \in Steps /\ wb \in Steps /\ wl \in Steps
  BY NodePointers DEF Pointers, Kinds, Do, Steps
<1>2. /\ PauseEmpty(l) => Branch(Do("link pause", x)) = <<ph, pp, pn>>
      /\ ~PauseEmpty(l) => Branch(Do("link pause", x)) = <<pb, pn, pl, pp>>
  BY DEF Branch, LinkSteps, Do
<1>3. /\ WaitEmpty(l) => Branch(Do("link wait", x)) = <<wh, wn, wp>>
      /\ ~WaitEmpty(l) => Branch(Do("link wait", x)) = <<wb, wn, wl, wp>>
  BY DEF Branch, LinkSteps, Do
<1> HIDE DEF ph, pp, pn, pb, pl, wh, wp, wn, wb, wl
<1>4. /\ <<ph, pp, pn>> \o M = First(ph, First(pp, First(pn, M)))
      /\ <<wh, wn, wp>> \o M = First(wh, First(wn, First(wp, M)))
  BY <1>1, ThreeFirst
<1>5. /\ <<pb, pn, pl, pp>> \o M = First(pb, First(pn, First(pl, First(pp, M))))
      /\ <<wb, wn, wl, wp>> \o M = First(wb, First(wn, First(wl, First(wp, M))))
  BY <1>1, FourFirst
<1>6. Branch(Do("link pause", x)) \o M =
         IF PauseEmpty(l) THEN First(ph, First(pp, First(pn, M)))
                          ELSE First(pb, First(pn, First(pl, First(pp, M))))
  BY <1>2, <1>4, <1>5
<1>7. Branch(Do("link wait", x)) \o M =
         IF WaitEmpty(l) THEN First(wh, First(wn, First(wp, M)))
                         ELSE First(wb, First(wn, First(wl, First(wp, M))))
  BY <1>3, <1>4, <1>5
<1> QED  BY <1>6, <1>7 DEF ph, pp, pn, pb, pl, wh, wp, wn, wb, wl

LEMMA OtherBranches ==
    ASSUME NEW x \in Procs
    PROVE  /\ Branch(Do("unblock", x)) \o <<>> =
                 IF l.wait = x
                 THEN First(Do("next wait", x), First(Do("link pause", x), <<>>))
                 ELSE First(Do("unlink next", x), First(Do("unlink pre", x),
                      First(Do("link pause", x), <<>>)))
           /\ Branch(Do("idle?", x)) \o <<>> =
                 IF ReadyEmpty(l) THEN First(Do("schedule", Null), <<>>) ELSE <<>>
<1> DEFINE nw == Do("next wait", x)  un == Do("unlink next", x)  up == Do("unlink pre", x)
           lp == Do("link pause", x)  sc == Do("schedule", Null)
<1>1. /\ nw \in Steps /\ un \in Steps /\ up \in Steps /\ lp \in Steps /\ sc \in Steps
  BY DoFacts, NodePointers DEF Pointers, Kinds
<1>2. <<>> \in Seq(Steps)
  OBVIOUS
<1>3. Branch(Do("unblock", x)) = IF l.wait = x THEN <<nw>> \o <<lp>> ELSE <<un, up>> \o <<lp>>
  BY DEF Branch, UnblockSteps, Do
<1>4. Branch(Do("idle?", x)) = IF ReadyEmpty(l) THEN <<sc>> ELSE <<>>
  BY DEF Branch, Do
<1> HIDE DEF nw, un, up, lp, sc
<1>6. /\ <<lp>> = First(lp, <<>>) /\ <<sc>> = First(sc, <<>>)
  BY <1>1, <1>2, OneFirst
<1>7. /\ First(lp, <<>>) \in Seq(Steps) /\ First(sc, <<>>) \in Seq(Steps)
  BY <1>1, <1>2, FirstFacts
<1>8. /\ <<nw>> \o <<lp>> = First(nw, First(lp, <<>>))
      /\ <<un, up>> \o <<lp>> = First(un, First(up, First(lp, <<>>)))
  <2>1. \A t \in Seq(Steps), a \in Steps : <<>> \o t = t /\ <<a>> \o t = First(a, t)
    BY OneFirst
  <2>2. <<un, up>> \o First(lp, <<>>) = First(un, First(up, First(lp, <<>>)))
    BY <1>1, <1>7, TwoFirst
  <2> QED  BY <1>1, <1>6, <1>7, <2>1, <2>2
<1>9. /\ First(nw, First(lp, <<>>)) \in Seq(Steps)
      /\ First(un, First(up, First(lp, <<>>))) \in Seq(Steps)
  BY <1>1, <1>7, FirstFacts
<1>10. \A t \in Seq(Steps) : t \o <<>> = t
  BY ConcatEmptySeq
<1>11. Branch(Do("unblock", x)) \o <<>> =
         IF l.wait = x THEN First(nw, First(lp, <<>>)) ELSE First(un, First(up, First(lp, <<>>)))
  BY <1>3, <1>8, <1>9, <1>10
<1>12. Branch(Do("idle?", x)) \o <<>> = IF ReadyEmpty(l) THEN First(sc, <<>>) ELSE <<>>
  BY <1>2, <1>4, <1>6, <1>7, <1>10
<1> QED  BY <1>11, <1>12 DEF nw, un, up, lp, sc

LEMMA ScheduleBranches ==
    Branch(Do("schedule", Null)) \o <<>> =
       IF EmptyRuns(l)
       THEN First(Do("none ready", Null), First(Do("choose", Null), <<>>))
       ELSE First(Do("choose", Null), <<>>)
<1> DEFINE nr == Do("none ready", Null)
           ch == Do("choose", Null)
<1>1. nr \in Steps /\ ch \in Steps /\ <<>> \in Seq(Steps)
  BY DEF Do, Steps, Kinds
<1>2. Branch(Do("schedule", Null)) = IF EmptyRuns(l) THEN <<nr>> \o <<ch>> ELSE <<>> \o <<ch>>
  BY DEF Branch, Do
<1> HIDE DEF nr, ch
<1>3. <<ch>> = First(ch, <<>>) /\ First(ch, <<>>) \in Seq(Steps)
  BY <1>1, OneFirst, FirstFacts
<1>4. <<nr>> \o <<ch>> = First(nr, First(ch, <<>>)) /\ <<>> \o <<ch>> = First(ch, <<>>)
  BY <1>1, <1>3, OneFirst
<1>5. First(nr, First(ch, <<>>)) \in Seq(Steps)
  BY <1>1, <1>3, FirstFacts
<1> QED  BY <1>2, <1>3, <1>4, <1>5, ConcatEmptySeq DEF nr, ch

-----------------------------------------------------------------------------
(* Whatever a statement does, the lists will be whole when all is done.    *)

LEMMA RestIs ==
    ASSUME NEW m, NEW t, NEW W
    PROVE  /\ Then(t, m, W) \/ Scheduling(m, t, W) => Rest(m, t, W)
           /\ \A x \in Procs :
                 Refilling(m, t, x, W) \/ Unblocking(m, t, x, W) => Rest(m, t, W)
           /\ \A x \in Procs, M \in Finish :
                 Pausing(m, t, x, M, W) \/ Waiting(m, t, x, M, W) \/ Moving(m, t, x, M, W)
                    => Rest(m, t, W)
BY DEF Rest

LEMMA AppendsPause ==
    ASSUME NEW m \in Shape, NEW x \in Procs
    PROVE  ToPause(m, x) = IF PauseEmpty(m)
                           THEN PauseNext(PausePre([m EXCEPT !.pause = x], x), x)
                           ELSE PauseBack(m, x)
<1>1. CASE PauseEmpty(m)
  BY <1>1 DEF ToPause, PauseNext, PausePre
<1>2. CASE ~PauseEmpty(m)
  <2> DEFINE a == [m EXCEPT !.pre[x] = m.pre[PauseTail]]
             b == PauseNext(a, x)
  <2>1. b.pre[PauseTail] = m.pre[PauseTail]
    BY NodeFacts DEF Shape, PauseNext
  <2>2. PauseBack(m, x) = PausePre([b EXCEPT !.next[m.pre[PauseTail]] = x], x)
    BY <2>1 DEF PauseBack, PauseLast
  <2> QED  BY <1>2, <2>2 DEF ToPause, LinkLast, PausePre, PauseNext
<1> QED  BY <1>1, <1>2

LEMMA AppendsWait ==
    ASSUME NEW m \in Shape, NEW x \in Procs
    PROVE  ToWait(m, x) = IF WaitEmpty(m)
                          THEN WaitPre(WaitNext([m EXCEPT !.wait = x], x), x)
                          ELSE WaitBack(m, x)
<1>1. CASE WaitEmpty(m)
  BY <1>1 DEF ToWait, WaitNext, WaitPre
<1>2. CASE ~WaitEmpty(m)
  <2> DEFINE a == [m EXCEPT !.pre[x] = m.pre[WaitTail]]
             b == WaitNext(a, x)
  <2>1. b.pre[WaitTail] = m.pre[WaitTail]
    BY NodeFacts DEF Shape, WaitNext
  <2>2. WaitBack(m, x) = WaitPre([b EXCEPT !.next[m.pre[WaitTail]] = x], x)
    BY <2>1 DEF WaitBack, WaitLast
  <2> QED  BY <1>2, <2>2 DEF ToWait, LinkLast, WaitPre, WaitNext
<1> QED  BY <1>1, <1>2

LEMMA PausingStep ==
    ASSUME Statement, l \in Shape, NEW W, NEW x \in Procs, NEW M \in Finish,
           Pausing(l, todo, x, M, W)
    PROVE  l' \in Shape /\ Rest(l', todo', W)
<1> DEFINE next == First(Do("pause next", x), M)
           pre  == First(Do("pause pre", x), M)
           last == First(Do("pause last", x), pre)
           then == First(Do("pause pre", x), next)
           back == First(Do("pause next", x), last)
<1>1. /\ M \in Seq(Steps) /\ next \in Seq(Steps) /\ pre \in Seq(Steps)
      /\ last \in Seq(Steps) /\ then \in Seq(Steps) /\ back \in Seq(Steps)
  <2>1. /\ Do("pause next", x) \in Steps /\ Do("pause pre", x) \in Steps
        /\ Do("pause last", x) \in Steps
    BY NodePointers DEF Do, Steps, Kinds, Pointers
  <2> QED  BY <2>1, FirstFacts, FinishFacts
<1>2. x \in Pointers /\ PauseTail \in Pointers /\ l.pre[PauseTail] \in Pointers
  BY NodePointers DEF Shape
<1>3. ASSUME l' \in Shape, Pausing(l', todo', x, M, W) \/ (Then(M, l', W) /\ todo' = M)
      PROVE  l' \in Shape /\ Rest(l', todo', W)
  BY <1>3, RestIs
<1> USE DEF Kinds, Branching
<1>4. CASE todo = First(Do("link pause", x), M) /\ Then(M, ToPause(l, x), W)
  <2>1. l' = l /\ todo' = Branch(Do("link pause", x)) \o M
    <3>1. "link pause" \in Branching
      OBVIOUS
    <3> QED  BY <1>1, <1>2, <1>4, <3>1, Branches
  <2>2. todo' = IF PauseEmpty(l) THEN First(Do("pause head", x), then)
                                 ELSE First(Do("pause back", x), back)
    BY <1>1, <2>1, LinkBranches
  <2>3. CASE PauseEmpty(l)
    <3>1. Then(M, PauseNext(PausePre([l' EXCEPT !.pause = x], x), x), W)
      BY <1>4, <2>1, <2>3, AppendsPause
    <3>2. Pausing(l', todo', x, M, W)
      BY <2>2, <2>3, <3>1 DEF Pausing
    <3> QED  BY <1>3, <2>1, <3>2
  <2>4. CASE ~PauseEmpty(l)
    <3>1. Then(M, PauseBack(l', x), W)
      BY <1>4, <2>1, <2>4, AppendsPause
    <3>2. Pausing(l', todo', x, M, W)
      BY <2>2, <2>4, <3>1 DEF Pausing
    <3> QED  BY <1>3, <2>1, <3>2
  <2> QED  BY <2>3, <2>4
<1>5. CASE /\ todo = First(Do("pause head", x), then)
           /\ Then(M, PauseNext(PausePre([l EXCEPT !.pause = x], x), x), W)
  <2>1. l' = [l EXCEPT !.pause = x] /\ todo' = then
    BY <1>1, <1>2, <1>5, LinkAssigns
  <2>2. l' \in Shape
    BY <1>2, <2>1, ShapeKept
  <2>3. Pausing(l', todo', x, M, W)
    BY <1>5, <2>1 DEF Pausing
  <2> QED  BY <1>3, <2>2, <2>3
<1>6. CASE todo = then /\ Then(M, PauseNext(PausePre(l, x), x), W)
  <2>1. l' = PausePre(l, x) /\ todo' = next
    BY <1>1, <1>2, <1>6, LinkAssigns
  <2>2. l' \in Shape
    BY <1>2, <2>1, ShapeKept DEF PausePre
  <2>3. Pausing(l', todo', x, M, W)
    BY <1>6, <2>1 DEF Pausing
  <2> QED  BY <1>3, <2>2, <2>3
<1>7. CASE todo = next /\ Then(M, PauseNext(l, x), W)
  <2>1. l' = PauseNext(l, x) /\ todo' = M
    BY <1>1, <1>2, <1>7, LinkAssigns
  <2>2. l' \in Shape
    BY <1>2, <2>1, ShapeKept DEF PauseNext
  <2> QED  BY <1>3, <1>7, <2>1, <2>2
<1>8. CASE todo = First(Do("pause back", x), back) /\ Then(M, PauseBack(l, x), W)
  <2>1. l' = [l EXCEPT !.pre[x] = l.pre[PauseTail]] /\ todo' = back
    BY <1>1, <1>2, <1>8, LinkAssigns
  <2>2. l' \in Shape
    BY <1>2, <2>1, ShapeKept
  <2>3. Then(M, PauseLast(PauseNext(l', x), x), W)
    BY <1>8, <2>1 DEF PauseBack
  <2>4. Pausing(l', todo', x, M, W)
    BY <2>1, <2>3 DEF Pausing
  <2> QED  BY <1>3, <2>2, <2>4
<1>9. CASE todo = back /\ Then(M, PauseLast(PauseNext(l, x), x), W)
  <2>1. l' = PauseNext(l, x) /\ todo' = last
    BY <1>1, <1>2, <1>9, LinkAssigns
  <2>2. l' \in Shape
    BY <1>2, <2>1, ShapeKept DEF PauseNext
  <2>3. Pausing(l', todo', x, M, W)
    BY <1>9, <2>1 DEF Pausing
  <2> QED  BY <1>3, <2>2, <2>3
<1>10. CASE todo = last /\ Then(M, PauseLast(l, x), W)
  <2>1. l' = [l EXCEPT !.next[l.pre[PauseTail]] = x] /\ todo' = pre
    BY <1>1, <1>2, <1>10, LinkAssigns
  <2>2. l' \in Shape
    BY <1>2, <2>1, ShapeKept
  <2>3. Then(M, PausePre(l', x), W)
    BY <1>10, <2>1 DEF PauseLast
  <2>4. Pausing(l', todo', x, M, W)
    BY <2>1, <2>3 DEF Pausing
  <2> QED  BY <1>3, <2>2, <2>4
<1>11. CASE todo = pre /\ Then(M, PausePre(l, x), W)
  <2>1. l' = PausePre(l, x) /\ todo' = M
    BY <1>1, <1>2, <1>11, LinkAssigns
  <2>2. l' \in Shape
    BY <1>2, <2>1, ShapeKept DEF PausePre
  <2> QED  BY <1>3, <1>11, <2>1, <2>2
<1> QED
  BY <1>4, <1>5, <1>6, <1>7, <1>8, <1>9, <1>10, <1>11 DEF Pausing

LEMMA WaitingStep ==
    ASSUME Statement, l \in Shape, NEW W, NEW x \in Procs, NEW M \in Finish,
           Waiting(l, todo, x, M, W)
    PROVE  l' \in Shape /\ Rest(l', todo', W)
<1> DEFINE pre  == First(Do("wait pre", x), M)
           last == First(Do("wait last", x), pre)
           then == First(Do("wait next", x), pre)
           back == First(Do("wait next", x), last)
<1>1. /\ M \in Seq(Steps) /\ pre \in Seq(Steps)
      /\ last \in Seq(Steps) /\ then \in Seq(Steps) /\ back \in Seq(Steps)
  <2>1. /\ Do("wait next", x) \in Steps /\ Do("wait pre", x) \in Steps
        /\ Do("wait last", x) \in Steps
    BY NodePointers DEF Do, Steps, Kinds, Pointers
  <2> QED  BY <2>1, FirstFacts, FinishFacts
<1>2. x \in Pointers /\ WaitTail \in Pointers /\ l.pre[WaitTail] \in Pointers
  BY NodePointers DEF Shape
<1>3. ASSUME l' \in Shape, Waiting(l', todo', x, M, W) \/ (Then(M, l', W) /\ todo' = M)
      PROVE  l' \in Shape /\ Rest(l', todo', W)
  BY <1>3, RestIs
<1> USE DEF Kinds, Branching
<1>4. CASE todo = First(Do("link wait", x), M) /\ Then(M, ToWait(l, x), W)
  <2>1. l' = l /\ todo' = Branch(Do("link wait", x)) \o M
    <3>1. "link wait" \in Branching
      OBVIOUS
    <3> QED  BY <1>1, <1>2, <1>4, <3>1, Branches
  <2>2. todo' = IF WaitEmpty(l) THEN First(Do("wait head", x), then)
                                ELSE First(Do("wait back", x), back)
    BY <1>1, <2>1, LinkBranches
  <2>3. CASE WaitEmpty(l)
    <3>1. Then(M, WaitPre(WaitNext([l' EXCEPT !.wait = x], x), x), W)
      BY <1>4, <2>1, <2>3, AppendsWait
    <3>2. Waiting(l', todo', x, M, W)
      BY <2>2, <2>3, <3>1 DEF Waiting
    <3> QED  BY <1>3, <2>1, <3>2
  <2>4. CASE ~WaitEmpty(l)
    <3>1. Then(M, WaitBack(l', x), W)
      BY <1>4, <2>1, <2>4, AppendsWait
    <3>2. Waiting(l', todo', x, M, W)
      BY <2>2, <2>4, <3>1 DEF Waiting
    <3> QED  BY <1>3, <2>1, <3>2
  <2> QED  BY <2>3, <2>4
<1>5. CASE /\ todo = First(Do("wait head", x), then)
           /\ Then(M, WaitPre(WaitNext([l EXCEPT !.wait = x], x), x), W)
  <2>1. l' = [l EXCEPT !.wait = x] /\ todo' = then
    BY <1>1, <1>2, <1>5, LinkAssigns
  <2>2. l' \in Shape
    BY <1>2, <2>1, ShapeKept
  <2>3. Waiting(l', todo', x, M, W)
    BY <1>5, <2>1 DEF Waiting
  <2> QED  BY <1>3, <2>2, <2>3
<1>6. CASE todo = then /\ Then(M, WaitPre(WaitNext(l, x), x), W)
  <2>1. l' = WaitNext(l, x) /\ todo' = pre
    BY <1>1, <1>2, <1>6, LinkAssigns
  <2>2. l' \in Shape
    BY <1>2, <2>1, ShapeKept DEF WaitNext
  <2>3. Waiting(l', todo', x, M, W)
    BY <1>6, <2>1 DEF Waiting
  <2> QED  BY <1>3, <2>2, <2>3
<1>7. CASE todo = First(Do("wait back", x), back) /\ Then(M, WaitBack(l, x), W)
  <2>1. l' = [l EXCEPT !.pre[x] = l.pre[WaitTail]] /\ todo' = back
    BY <1>1, <1>2, <1>7, LinkAssigns
  <2>2. l' \in Shape
    BY <1>2, <2>1, ShapeKept
  <2>3. Then(M, WaitLast(WaitNext(l', x), x), W)
    BY <1>7, <2>1 DEF WaitBack
  <2>4. Waiting(l', todo', x, M, W)
    BY <2>1, <2>3 DEF Waiting
  <2> QED  BY <1>3, <2>2, <2>4
<1>8. CASE todo = back /\ Then(M, WaitLast(WaitNext(l, x), x), W)
  <2>1. l' = WaitNext(l, x) /\ todo' = last
    BY <1>1, <1>2, <1>8, LinkAssigns
  <2>2. l' \in Shape
    BY <1>2, <2>1, ShapeKept DEF WaitNext
  <2>3. Waiting(l', todo', x, M, W)
    BY <1>8, <2>1 DEF Waiting
  <2> QED  BY <1>3, <2>2, <2>3
<1>9. CASE todo = last /\ Then(M, WaitLast(l, x), W)
  <2>1. l' = [l EXCEPT !.next[l.pre[WaitTail]] = x] /\ todo' = pre
    BY <1>1, <1>2, <1>9, LinkAssigns
  <2>2. l' \in Shape
    BY <1>2, <2>1, ShapeKept
  <2>3. Then(M, WaitPre(l', x), W)
    BY <1>9, <2>1 DEF WaitLast
  <2>4. Waiting(l', todo', x, M, W)
    BY <2>1, <2>3 DEF Waiting
  <2> QED  BY <1>3, <2>2, <2>4
<1>10. CASE todo = pre /\ Then(M, WaitPre(l, x), W)
  <2>1. l' = WaitPre(l, x) /\ todo' = M
    BY <1>1, <1>2, <1>10, LinkAssigns
  <2>2. l' \in Shape
    BY <1>2, <2>1, ShapeKept DEF WaitPre
  <2> QED  BY <1>3, <1>10, <2>1, <2>2
<1> QED
  BY <1>4, <1>5, <1>6, <1>7, <1>8, <1>9, <1>10 DEF Waiting

LEMMA MovingStep ==
    ASSUME Statement, l \in Shape, NEW W, NEW x \in Procs, NEW M \in Finish,
           Moving(l, todo, x, M, W)
    PROVE  l' \in Shape /\ Rest(l', todo', W)
<1> DEFINE pausing == First(Do("link pause", x), M)
           waiting == First(Do("link wait", x), M)
<1>1. pausing \in Seq(Steps) /\ waiting \in Seq(Steps)
  <2>1. Do("link pause", x) \in Steps /\ Do("link wait", x) \in Steps
    BY NodePointers DEF Do, Steps, Kinds, Pointers
  <2> QED  BY <2>1, FirstFacts, FinishFacts
<1>2. x \in Pointers /\ l.ready \in Nodes
  BY NodePointers DEF Moving
<1>3. ReadyNext(l) \in Shape
  BY <1>2, ShapeKept DEF ReadyNext, Pointers
<1>4. CASE todo = First(Do("next ready", x), pausing) /\ Then(M, ToPause(ReadyNext(l), x), W)
  <2>1. l' = ReadyNext(l) /\ todo' = pausing
    BY <1>1, <1>2, <1>4, ReadyAssigns
  <2>2. Pausing(l', todo', x, M, W)
    BY <1>4, <2>1 DEF Pausing
  <2> QED  BY <1>3, <2>1, <2>2, RestIs
<1>5. CASE todo = First(Do("next ready", x), waiting) /\ Then(M, ToWait(ReadyNext(l), x), W)
  <2>1. l' = ReadyNext(l) /\ todo' = waiting
    BY <1>1, <1>2, <1>5, ReadyAssigns
  <2>2. Waiting(l', todo', x, M, W)
    BY <1>5, <2>1 DEF Waiting
  <2> QED  BY <1>3, <2>1, <2>2, RestIs
<1> QED  BY <1>4, <1>5 DEF Moving

LEMMA UnblockingStep ==
    ASSUME Statement, l \in Shape, NEW W, NEW x \in Procs, Unblocking(l, todo, x, W)
    PROVE  l' \in Shape /\ Rest(l', todo', W)
<1> DEFINE link == First(Do("link pause", x), <<>>)
           pre  == First(Do("unlink pre", x), link)
<1>1. <<>> \in Seq(Steps) /\ <<>> \in Finish /\ link \in Seq(Steps) /\ pre \in Seq(Steps)
  <2>1. Do("link pause", x) \in Steps /\ Do("unlink pre", x) \in Steps
    BY NodePointers DEF Do, Steps, Kinds, Pointers
  <2>2. <<>> \in Seq(Steps) /\ <<>> \in Finish
    BY DEF Finish
  <2> QED  BY <2>1, <2>2, FirstFacts
<1>2. x \in Pointers /\ x \in Nodes
  BY NodePointers
<1>3. ASSUME l' \in Shape, Whole(ToPause(l', x), W), todo' = link
      PROVE  l' \in Shape /\ Rest(l', todo', W)
  <2>1. Then(<<>>, ToPause(l', x), W)
    BY <1>3 DEF Then
  <2>2. Pausing(l', todo', x, <<>>, W)
    BY <1>3, <2>1 DEF Pausing
  <2> QED  BY <1>1, <1>3, <2>2, RestIs
<1>4. CASE todo = First(Do("unblock", x), <<>>) /\ Oversleeps(l, x, W)
  <2>1. l' = l /\ todo' = Branch(Do("unblock", x)) \o <<>>
    <3>1. "unblock" \in Branching
      BY DEF Branching
    <3> QED  BY <1>1, <1>2, <1>4, <3>1, Branches
  <2>2. todo' = IF l.wait = x THEN First(Do("next wait", x), link)
                              ELSE First(Do("unlink next", x), pre)
    BY <2>1, OtherBranches
  <2>3. /\ Whole(PUnblock(l, x), W)
        /\ l.wait = x => PUnblock(l, x) = ToPause(WaitDrop(l), x)
        /\ l.wait # x => l.pre[x] # x /\ PUnblock(l, x) = ToPause(Unlink(l, x), x)
    BY <1>4, Unblocks
  <2>4. Unblocking(l', todo', x, W)
    <3>1. CASE l.wait = x
      BY <1>2, <2>1, <2>2, <2>3, <3>1 DEF Unblocking
    <3>2. CASE l.wait # x
      BY <2>1, <2>2, <2>3, <3>2 DEF Unblocking
    <3> QED  BY <3>1, <3>2
  <2> QED  BY <2>1, <2>4, RestIs
<1>5. CASE /\ todo = First(Do("next wait", x), link)
           /\ l.wait \in Nodes /\ Whole(ToPause(WaitDrop(l), x), W)
  <2>1. l' = WaitDrop(l) /\ todo' = link
    BY <1>1, <1>2, <1>5, ReadyAssigns
  <2>2. l' \in Shape
    BY <1>5, <2>1, ShapeKept DEF WaitDrop, Pointers
  <2> QED  BY <1>3, <1>5, <2>1, <2>2
<1>6. CASE /\ todo = First(Do("unlink next", x), pre)
           /\ l.pre[x] # x /\ Whole(ToPause(Unlink(l, x), x), W)
  <2>1. l' = [l EXCEPT !.next[l.pre[x]] = l.next[x]] /\ todo' = pre
    BY <1>1, <1>2, <1>6, LinkAssigns
  <2>2. l' \in Shape
    BY <1>2, <2>1, ShapeKept DEF Shape
  <2>3. UnlinkPre(l', x) = Unlink(l, x)
    BY <1>6, <2>1, UnlinksInTurn
  <2>4. Unblocking(l', todo', x, W)
    BY <1>6, <2>1, <2>3 DEF Unblocking
  <2> QED  BY <2>2, <2>4, RestIs
<1>7. CASE todo = pre /\ Whole(ToPause(UnlinkPre(l, x), x), W)
  <2>1. l' = UnlinkPre(l, x) /\ todo' = link
    BY <1>1, <1>2, <1>7, LinkAssigns
  <2>2. l' \in Shape
    BY <1>2, <2>1, ShapeKept DEF UnlinkPre, Shape
  <2> QED  BY <1>3, <1>7, <2>1, <2>2
<1> QED  BY <1>4, <1>5, <1>6, <1>7 DEF Unblocking

LEMMA RefillingStep ==
    ASSUME Statement, l \in Shape, NEW W, NEW h \in Procs, Refilling(l, todo, h, W)
    PROVE  l' \in Shape /\ Rest(l', todo', W)
<1> DEFINE pre  == First(Do("swap pre", Null), <<>>)
           swap == First(Do("swap next", Null), pre)
           head == First(Do("swap head", h), swap)
<1>1. <<>> \in Seq(Steps) /\ pre \in Seq(Steps) /\ swap \in Seq(Steps) /\ head \in Seq(Steps)
  <2>1. /\ Do("swap pre", Null) \in Steps /\ Do("swap next", Null) \in Steps
        /\ Do("swap head", h) \in Steps
    BY NodePointers DEF Do, Steps, Kinds, Pointers
  <2>2. <<>> \in Seq(Steps)
    OBVIOUS
  <2> QED  BY <2>1, <2>2, FirstFacts
<1>2. h \in Pointers /\ Null \in Pointers /\ ReadyTail \in Pointers
      /\ l.pre[PauseTail] \in Pointers
  BY NodePointers DEF Shape
<1>3. CASE /\ todo = First(Do("next pause", h), head)
           /\ Walked(l, h, W) /\ l.pause # PauseTail
  <2> DEFINE m == [l EXCEPT !.pause = l.next[l.pause]]
  <2>1. /\ l.pause \in Procs /\ Walked(m, h, W)
        /\ m.pause \in Procs \/ PauseEmpty(m)
    BY <1>3, Walks
  <2>2. l.pause \in Nodes /\ m \in Shape
    BY <2>1, NodePointers, ShapeKept DEF Pointers
  <2>3. l' = m /\ todo' = IF l'.pause \in Procs THEN todo ELSE head
    BY <1>1, <1>2, <1>3, <2>2, PausePasses
  <2> HIDE DEF m
  <2>4. CASE m.pause \in Procs
    <3>1. Walked(l', h, W) /\ l'.pause # PauseTail
      BY <2>1, <2>3, <2>4, NodeFacts
    <3>2. Refilling(l', todo', h, W)
      BY <1>3, <2>3, <2>4, <3>1 DEF Refilling
    <3> QED  BY <2>2, <2>3, <3>2, RestIs
  <2>5. CASE m.pause \notin Procs
    <3>1. Walked(l', h, W) /\ PauseEmpty(l')
      BY <2>1, <2>3, <2>5
    <3>2. Refilling(l', todo', h, W)
      BY <2>3, <2>5, <3>1 DEF Refilling
    <3> QED  BY <2>2, <2>3, <3>2, RestIs
  <2> QED  BY <2>4, <2>5
<1>4. CASE todo = head /\ Walked(l, h, W) /\ PauseEmpty(l)
  <2>1. l' = [l EXCEPT !.ready = h] /\ todo' = swap
    BY <1>1, <1>2, <1>4, ReadyAssigns
  <2>2. l' \in Shape
    BY <1>2, <2>1, ShapeKept
  <2>3. Whole(SwapNext(l'), W)
    BY <1>4, <2>1, WalkEnds DEF SwapHead
  <2>4. Refilling(l', todo', h, W)
    BY <2>1, <2>3 DEF Refilling
  <2> QED  BY <2>2, <2>4, RestIs
<1>5. CASE todo = swap /\ Whole(SwapNext(l), W)
  <2>1. l' = [l EXCEPT !.next[l.pre[PauseTail]] = ReadyTail] /\ todo' = pre
    BY <1>1, <1>2, <1>5, ReadyAssigns
  <2>2. l' \in Shape
    BY <1>2, <2>1, ShapeKept
  <2>3. Whole(SwapPre(l'), W)
    BY <1>5, <2>1 DEF SwapNext
  <2>4. Refilling(l', todo', h, W)
    BY <2>1, <2>3 DEF Refilling
  <2> QED  BY <2>2, <2>4, RestIs
<1>6. CASE todo = pre /\ Whole(SwapPre(l), W)
  <2>1. l' = SwapPre(l) /\ todo' = <<>>
    BY <1>1, <1>2, <1>6, ReadyAssigns
  <2>2. l' \in Shape
    BY <1>2, <2>1, ShapeKept DEF SwapPre
  <2>3. Then(todo', l', W)
    BY <1>6, <2>1 DEF Then
  <2> QED  BY <2>2, <2>3, RestIs
<1> QED  BY <1>3, <1>4, <1>5, <1>6 DEF Refilling

LEMMA ChooseStep ==
    ASSUME Statement, l \in Shape, NEW W,
           todo = First(Do("choose", Null), <<>>), Spelled(l, W), ~EmptyRuns(l)
    PROVE  l' \in Shape /\ Rest(l', todo', W)
<1> DEFINE id == Do("idle", Null)  ip == Do("idle pre", Null)  rf == Do("refill", Null)
           nr == Do("next ready", l.ready)  lp == Do("link pause", l.ready)
<1>1. <<>> \in Seq(Steps) /\ Null \in Pointers /\ l.ready \in Pointers
  BY NodePointers DEF Shape
<1>2. id \in Steps /\ ip \in Steps /\ rf \in Steps /\ nr \in Steps /\ lp \in Steps
  BY <1>1 DEF Do, Steps, Kinds, Pointers
<1>3. l' = l /\ todo' = Branch(Do("choose", Null)) \o <<>>
  <2>1. "choose" \in Branching
    BY DEF Branching
  <2> QED  BY <1>1, <2>1, Branches
<1>4. Branch(Do("choose", Null)) = ScheduleSteps
  BY DEF Branch, Do
<1>5. ScheduleSteps = IF ReadyEmpty(l) /\ PauseEmpty(l) THEN <<id, ip>>
                      ELSE IF ReadyEmpty(l) THEN <<rf>>
                      ELSE <<nr, lp>> \o IF ReadyOneLeft(l) THEN <<rf>> ELSE <<>>
  BY DEF ScheduleSteps
<1> HIDE DEF id, ip, rf, nr, lp
<1>6. CASE ReadyEmpty(l) /\ PauseEmpty(l)
  <2>1. todo' = First(id, First(ip, <<>>))
    <3>1. <<id, ip>> \o <<>> = First(id, First(ip, <<>>))
      BY <1>1, <1>2, TwoFirst
    <3> QED  BY <1>3, <1>4, <1>5, <1>6, <3>1
  <2>2. Scheduling(l', todo', W)
    BY <1>3, <1>6, <2>1 DEF Scheduling, id, ip
  <2> QED  BY <1>3, <2>2, RestIs
<1>7. CASE ReadyEmpty(l) /\ ~PauseEmpty(l)
  <2>1. todo' = First(rf, <<>>)
    <3>1. <<rf>> \o <<>> = First(rf, <<>>)
      BY <1>1, <1>2, OneFirst
    <3> QED  BY <1>3, <1>4, <1>5, <1>7, <3>1
  <2>2. Then(todo', l', W)
    BY <1>3, <1>7, <2>1 DEF Then, rf
  <2> QED  BY <1>3, <2>2, RestIs
<1>8. CASE ~ReadyEmpty(l)
  <2>1. l.ready \in Procs
    BY <1>8, SpelledReady
  <2> DEFINE M == IF ReadyOneLeft(l) THEN First(rf, <<>>) ELSE <<>>
             m == ToPause(ReadyNext(l), l.ready)
  <2>2. M \in Seq(Steps) /\ M \in Finish
    BY <1>1, <1>2, FirstFacts DEF Finish, rf
  <2>3. Then(M, m, W)
    <3>1. IF ReadyOneLeft(l) THEN Spelled(m, W) /\ ReadyEmpty(m) /\ ~PauseEmpty(m)
                             ELSE Whole(m, W)
      BY <2>1, Parks
    <3> HIDE DEF m
    <3> QED  BY <3>1 DEF Then, rf
  <2>4. M = IF ReadyOneLeft(l) THEN <<rf>> ELSE <<>>
    BY <1>1, <1>2, OneFirst
  <2>5. ScheduleSteps = <<nr, lp>> \o M
    BY <1>5, <1>8, <2>4
  <2> HIDE DEF M
  <2>6. <<nr, lp>> \o M = First(nr, First(lp, M))
    BY <1>2, <2>2, TwoFirst
  <2>7. First(nr, First(lp, M)) \in Seq(Steps)
    BY <1>2, <2>2, FirstFacts
  <2>8. todo' = First(nr, First(lp, M))
    BY <1>3, <1>4, <2>5, <2>6, <2>7, ConcatEmptySeq
  <2>9. Moving(l', todo', l.ready, M, W)
    BY <1>3, <2>1, <2>3, <2>8, NodePointers DEF Moving, nr, lp
  <2> QED  BY <1>3, <2>1, <2>2, <2>9, RestIs
<1> QED  BY <1>6, <1>7, <1>8

LEMMA SchedulingStep ==
    ASSUME Statement, l \in Shape, NEW W, Scheduling(l, todo, W)
    PROVE  l' \in Shape /\ Rest(l', todo', W)
<1> DEFINE choose == First(Do("choose", Null), <<>>)
           pre    == First(Do("idle pre", Null), <<>>)
<1>1. <<>> \in Seq(Steps) /\ choose \in Seq(Steps) /\ pre \in Seq(Steps)
  <2>1. Do("choose", Null) \in Steps /\ Do("idle pre", Null) \in Steps
    BY DEF Do, Steps, Kinds
  <2>2. <<>> \in Seq(Steps)
    OBVIOUS
  <2> QED  BY <2>1, <2>2, FirstFacts
<1>2. Null \in Pointers /\ ReadyTail \in Pointers /\ EmptyTask \in Pointers
  BY NodePointers
<1>3. CASE todo = First(Do("schedule", Null), <<>>) /\ Spelled(l, W)
  <2>1. l' = l /\ todo' = Branch(Do("schedule", Null)) \o <<>>
    <3>1. "schedule" \in Branching
      BY DEF Branching
    <3> QED  BY <1>1, <1>2, <1>3, <3>1, Branches
  <2>2. todo' = IF EmptyRuns(l) THEN First(Do("none ready", Null), choose) ELSE choose
    BY <2>1, ScheduleBranches
  <2>3. Scheduling(l', todo', W)
    <3>1. CASE EmptyRuns(l)
      BY <1>3, <2>1, <2>2, <3>1 DEF Scheduling
    <3>2. CASE ~EmptyRuns(l)
      BY <1>3, <2>1, <2>2, <3>2 DEF Scheduling
    <3> QED  BY <3>1, <3>2
  <2> QED  BY <2>1, <2>3, RestIs
<1>4. CASE todo = First(Do("none ready", Null), choose) /\ Spelled(l, W) /\ EmptyRuns(l)
  <2>1. l' = [l EXCEPT !.ready = ReadyTail] /\ todo' = choose
    BY <1>1, <1>2, <1>4, ReadyAssigns
  <2>2. l' \in Shape
    BY <1>2, <2>1, ShapeKept
  <2>3. Spelled(l', W) /\ ~EmptyRuns(l')
    BY <1>4, <2>1, NoneReady
  <2>4. Scheduling(l', todo', W)
    BY <2>1, <2>3 DEF Scheduling
  <2> QED  BY <2>2, <2>4, RestIs
<1>5. CASE todo = choose /\ Spelled(l, W) /\ ~EmptyRuns(l)
  BY <1>5, ChooseStep
<1>6. CASE todo = First(Do("idle", Null), pre) /\ Spelled(l, W) /\ ReadyEmpty(l) /\ PauseEmpty(l)
  <2>1. l' = [l EXCEPT !.ready = EmptyTask] /\ todo' = pre
    BY <1>1, <1>2, <1>6, ReadyAssigns
  <2>2. l' \in Shape
    BY <1>2, <2>1, ShapeKept
  <2>3. Whole([l' EXCEPT !.pre[ReadyTail] = EmptyTask], W)
    BY <1>6, <2>1, GoesIdle
  <2>4. Scheduling(l', todo', W)
    BY <2>1, <2>3 DEF Scheduling
  <2> QED  BY <2>2, <2>4, RestIs
<1>7. CASE todo = pre /\ Whole([l EXCEPT !.pre[ReadyTail] = EmptyTask], W)
  <2>1. l' = [l EXCEPT !.pre[ReadyTail] = EmptyTask] /\ todo' = <<>>
    BY <1>1, <1>2, <1>7, ReadyAssigns
  <2>2. l' \in Shape
    BY <1>2, <2>1, ShapeKept
  <2>3. Then(todo', l', W)
    BY <1>7, <2>1 DEF Then
  <2> QED  BY <2>2, <2>3, RestIs
<1> QED  BY <1>3, <1>4, <1>5, <1>6, <1>7 DEF Scheduling

LEMMA ThenStep ==
    ASSUME Statement, l \in Shape, NEW W, Then(todo, l, W)
    PROVE  l' \in Shape /\ Rest(l', todo', W)
<1> DEFINE pre  == First(Do("swap pre", Null), <<>>)
           swap == First(Do("swap next", Null), pre)
           head == First(Do("swap head", l.pause), swap)
<1>1. <<>> \in Seq(Steps) /\ Null \in Pointers
  BY NodePointers
<1>2. todo # <<>>
  BY DEF Statement
<1>3. CASE /\ todo = First(Do("refill", Null), <<>>)
           /\ Spelled(l, W) /\ ReadyEmpty(l) /\ ~PauseEmpty(l)
  <2>1. l' = l /\ todo' = Branch(Do("refill", Null)) \o <<>>
    <3>1. "refill" \in Branching
      BY DEF Branching
    <3> QED  BY <1>1, <1>3, <3>1, Branches
  <2>2. l.pause \in Procs /\ Walked(l, l.pause, W)
    BY <1>3, WalkStarts
  <2>3. todo' = First(Do("next pause", l.pause), head)
    <3> DEFINE np == Do("next pause", l.pause)  sh == Do("swap head", l.pause)
               sn == Do("swap next", Null)  sp == Do("swap pre", Null)
    <3>1. np \in Steps /\ sh \in Steps /\ sn \in Steps /\ sp \in Steps
      BY <2>2, NodePointers DEF Do, Steps, Kinds, Pointers
    <3>2. Branch(Do("refill", Null)) = <<np, sh, sn, sp>>
      BY DEF Branch, RefillSteps, Do
    <3> DEFINE M == <<>>
    <3>4. M \in Seq(Steps)
      BY <1>1
    <3> HIDE DEF np, sh, sn, sp, M
    <3>3. <<np, sh, sn, sp>> \o M = First(np, First(sh, First(sn, First(sp, M))))
      BY <3>1, <3>4, FourFirst
    <3> QED  BY <2>1, <3>2, <3>3 DEF np, sh, sn, sp, M
  <2>4. Refilling(l', todo', l.pause, W)
    BY <1>3, <2>1, <2>2, <2>3 DEF Refilling, PauseEmpty
  <2> QED  BY <2>1, <2>2, <2>4, RestIs
<1>4. CASE /\ \E x \in Procs : todo = First(Do("idle?", x), <<>>)
           /\ Spelled(l, W) /\ ~EmptyRuns(l)
  <2>1. PICK x \in Procs : todo = First(Do("idle?", x), <<>>)
    BY <1>4
  <2>2. l' = l /\ todo' = Branch(Do("idle?", x)) \o <<>>
    <3>1. "idle?" \in Branching /\ x \in Pointers
      BY NodePointers DEF Branching
    <3> QED  BY <1>1, <2>1, <3>1, Branches
  <2>3. todo' = IF ReadyEmpty(l) THEN First(Do("schedule", Null), <<>>) ELSE <<>>
    BY <2>2, OtherBranches
  <2>4. CASE ReadyEmpty(l)
    <3>1. Scheduling(l', todo', W)
      BY <1>4, <2>2, <2>3, <2>4 DEF Scheduling
    <3> QED  BY <2>2, <3>1, RestIs
  <2>5. CASE ~ReadyEmpty(l)
    <3>1. Whole(l, W)
      BY <1>4, <2>5, SpelledWhole
    <3>2. Then(todo', l', W)
      BY <2>2, <2>3, <2>5, <3>1 DEF Then
    <3> QED  BY <2>2, <3>2, RestIs
  <2> QED  BY <2>4, <2>5
<1> QED  BY <1>2, <1>3, <1>4 DEF Then

LEMMA RestKept ==
    ASSUME Statement, l \in Shape, NEW W, Rest(l, todo, W)
    PROVE  l' \in Shape /\ Rest(l', todo', W)
<1>1. CASE Then(todo, l, W)
  BY <1>1, ThenStep
<1>2. CASE Scheduling(l, todo, W)
  BY <1>2, SchedulingStep
<1>3. ASSUME NEW x \in Procs, Refilling(l, todo, x, W) \/ Unblocking(l, todo, x, W)
      PROVE  l' \in Shape /\ Rest(l', todo', W)
  BY <1>3, RefillingStep, UnblockingStep
<1>4. ASSUME NEW x \in Procs, NEW M \in Finish, Pausing(l, todo, x, M, W)
      PROVE  l' \in Shape /\ Rest(l', todo', W)
  BY <1>4, PausingStep
<1>5. ASSUME NEW x \in Procs, NEW M \in Finish, Waiting(l, todo, x, M, W)
      PROVE  l' \in Shape /\ Rest(l', todo', W)
  BY <1>5, WaitingStep
<1>6. ASSUME NEW x \in Procs, NEW M \in Finish, Moving(l, todo, x, M, W)
      PROVE  l' \in Shape /\ Rest(l', todo', W)
  BY <1>6, MovingStep
<1> QED  BY <1>1, <1>2, <1>3, <1>4, <1>5, <1>6 DEF Rest

\* With nothing left to do the lists are whole.
LEMMA NothingLeft ==
    ASSUME NEW m, NEW W, Rest(m, <<>>, W)
    PROVE  Whole(m, W)
<1>1. ASSUME NEW a \in Steps, NEW u \in Seq(Steps)
      PROVE  First(a, u) \in Seq(Steps) /\ First(a, u) # <<>>
  BY <1>1, FirstFacts
<1>2. <<>> \in Seq(Steps)
  OBVIOUS
<1>3. ASSUME Then(<<>>, m, W) PROVE Whole(m, W)
  <2>1. Do("refill", Null) \in Steps /\ \A x \in Procs : Do("idle?", x) \in Steps
    BY NodePointers DEF Do, Steps, Kinds, Pointers
  <2> QED  BY <1>1, <1>2, <1>3, <2>1 DEF Then
<1>4. ~Scheduling(m, <<>>, W)
  <2>1. /\ Do("schedule", Null) \in Steps /\ Do("none ready", Null) \in Steps
        /\ Do("choose", Null) \in Steps /\ Do("idle", Null) \in Steps
        /\ Do("idle pre", Null) \in Steps
    BY DEF Do, Steps, Kinds
  <2> QED  BY <1>1, <1>2, <2>1 DEF Scheduling
<1>5. ASSUME NEW x \in Procs PROVE ~Refilling(m, <<>>, x, W) /\ ~Unblocking(m, <<>>, x, W)
  <2>1. /\ Do("next pause", x) \in Steps /\ Do("swap head", x) \in Steps
        /\ Do("swap next", Null) \in Steps /\ Do("swap pre", Null) \in Steps
        /\ Do("unblock", x) \in Steps /\ Do("next wait", x) \in Steps
        /\ Do("link pause", x) \in Steps /\ Do("unlink next", x) \in Steps
        /\ Do("unlink pre", x) \in Steps
    BY NodePointers DEF Do, Steps, Kinds, Pointers
  <2>2. ~Refilling(m, <<>>, x, W)
    BY <1>1, <1>2, <2>1 DEF Refilling
  <2>3. ~Unblocking(m, <<>>, x, W)
    BY <1>1, <1>2, <2>1 DEF Unblocking
  <2> QED  BY <2>2, <2>3
<1>6. ASSUME NEW x \in Procs, NEW M \in Finish
      PROVE  /\ ~Pausing(m, <<>>, x, M, W) /\ ~Waiting(m, <<>>, x, M, W)
             /\ ~Moving(m, <<>>, x, M, W)
  <2>1. /\ Do("link pause", x) \in Steps /\ Do("pause head", x) \in Steps
        /\ Do("pause pre", x) \in Steps /\ Do("pause next", x) \in Steps
        /\ Do("pause back", x) \in Steps /\ Do("pause last", x) \in Steps
    BY NodePointers DEF Do, Steps, Kinds, Pointers
  <2>2. /\ Do("link wait", x) \in Steps /\ Do("wait head", x) \in Steps
        /\ Do("wait pre", x) \in Steps /\ Do("wait next", x) \in Steps
        /\ Do("wait back", x) \in Steps /\ Do("wait last", x) \in Steps
        /\ Do("next ready", x) \in Steps
    BY NodePointers DEF Do, Steps, Kinds, Pointers
  <2>3. M \in Seq(Steps)
    BY FinishFacts
  <2>4. ~Pausing(m, <<>>, x, M, W)
    BY <1>1, <2>1, <2>3 DEF Pausing
  <2>5. ~Waiting(m, <<>>, x, M, W)
    BY <1>1, <2>2, <2>3 DEF Waiting
  <2>6. ~Moving(m, <<>>, x, M, W)
    BY <1>1, <2>1, <2>2, <2>3 DEF Moving
  <2> QED  BY <2>4, <2>5, <2>6
<1> QED  BY <1>3, <1>4, <1>5, <1>6 DEF Rest

-----------------------------------------------------------------------------
(* The steps of the calls.                                                 *)

LEMMA WholeShape ==
    ASSUME NEW m, NEW W, Whole(m, W)
    PROVE  m \in Shape
BY WholeFacts DEF ListState, Shape, Pointers

\* block() of the running process.
LEMMA BlockRest ==
    ASSUME NEW W, Whole(l, W), l.ready \in Procs
    PROVE  Rest(l, BlockSteps(l.ready), W \cup {l.ready}) /\ BlockSteps(l.ready) # <<>>
<1> DEFINE x == l.ready
           M == First(Do("idle?", x), <<>>)
           V == W \cup {x}
           a == Do("next ready", x)
           b == Do("link wait", x)
           c == Do("idle?", x)
<1>1. /\ a \in Steps /\ b \in Steps /\ c \in Steps /\ <<>> \in Seq(Steps) /\ x \in Nodes
      /\ M \in Finish
  BY NodePointers DEF Do, Steps, Kinds, Pointers, Finish
<1>2. /\ Spelled(ToWait(ReadyNext(l), x), V) /\ ~EmptyRuns(ToWait(ReadyNext(l), x))
  BY WholeFacts, FallsAsleep
<1>3. Then(M, ToWait(ReadyNext(l), x), V)
  BY <1>2 DEF Then
<1>4. BlockSteps(x) = First(a, First(b, M)) /\ BlockSteps(x) # <<>>
  <2>1. BlockSteps(x) = <<a, b, c>>
    BY DEF BlockSteps
  <2> DEFINE N == <<>>
  <2>2. N \in Seq(Steps)
    OBVIOUS
  <2> HIDE DEF a, b, c, N
  <2>3. <<a, b, c>> \o N = First(a, First(b, First(c, N)))
    BY <1>1, <2>2, ThreeFirst
  <2>4. <<a, b, c>> \in Seq(Steps) /\ <<a, b, c>> # <<>>
    BY <1>1
  <2>5. <<a, b, c>> \o <<>> = <<a, b, c>>
    BY <2>4, ConcatEmptySeq
  <2> QED  BY <2>1, <2>3, <2>4, <2>5 DEF N, c
<1>5. Moving(l, BlockSteps(x), x, M, V)
  BY <1>1, <1>3, <1>4 DEF Moving
<1> HIDE DEF M, V
<1>6. Rest(l, BlockSteps(x), V)
  BY <1>1, <1>5, RestIs
<1> QED  BY <1>4, <1>6 DEF V

\* unblock() of a process that sleeps.
LEMMA UnblockRest ==
    ASSUME NEW W, NEW x \in Procs, x \notin W, Whole(l, W \cup {x}), l.ready \in Procs
    PROVE  Rest(l, <<Do("unblock", x)>>, W) /\ <<Do("unblock", x)>> # <<>>
<1>1. PICK q : Settled(l, q) /\ Range(q.wait) = W \cup {x}
  BY DEF Whole
<1>2. ~Idle(q)
  BY <1>1, SettledFacts, NodeFacts DEF EmptyRuns
<1>3. Oversleeps(l, x, W)
  BY <1>1, <1>2 DEF Oversleeps
<1>4. <<Do("unblock", x)>> = First(Do("unblock", x), <<>>)
  <2>1. Do("unblock", x) \in Steps /\ <<>> \in Seq(Steps)
    BY NodePointers DEF Do, Steps, Kinds, Pointers
  <2> QED  BY <2>1, OneFirst
<1>5. Unblocking(l, <<Do("unblock", x)>>, x, W)
  BY <1>3, <1>4 DEF Unblocking
<1>6. Rest(l, <<Do("unblock", x)>>, W)
  BY <1>5, RestIs
<1> QED  BY <1>6

\* A process is asleep, or it has no flag.
LEMMA AwakeFacts ==
    ASSUME Typed
    PROVE  /\ Asleep \subseteq Procs
           /\ \A p \in Procs : p \notin Asleep => flags[p] = {}
           /\ \A p \in Procs : "RECEIVING" \in flags[p] => flags[p] = {"RECEIVING"}
           /\ \A p \in Procs : "SENDING" \in flags[p] => flags[p] = {"SENDING"}
BY DEF Typed, Asleep

LEMMA CallerRuns ==
    ASSUME Orderly, k.pc \in {"copy", "clear", "mark sender", "mark receiver", "from", "accept"}
    PROVE  /\ todo = <<>> /\ k.p \in Procs /\ l.ready = k.p /\ Whole(l, Sleepers)
           /\ k.p \notin Sleepers /\ DOMAIN k = {"pc", "p", "with"}
<1>1. todo = <<>> /\ k.p \in Procs /\ l.ready = k.p /\ DOMAIN k = {"pc", "p", "with"}
  BY DEF Orderly, Place, Calls
<1>2. Whole(l, Sleepers)
  BY <1>1 DEF Orderly, Relinked
<1>3. l.ready \notin Sleepers
  BY <1>1, <1>2, WholeFacts
<1> QED  BY <1>1, <1>2, <1>3

\* Between the calls.
LEMMA UserFacts ==
    ASSUME Orderly, k = User
    PROVE  todo = <<>> /\ Whole(l, Asleep) /\ k.pc = "user" /\ Sleepers = Asleep
<1>1. k.pc = "user" /\ todo = <<>>
  BY DEF Orderly, Place, User
<1> QED  BY <1>1 DEF Orderly, Relinked, Sleepers

LEMMA InitOrderly == IrqInit => Orderly
<1> SUFFICES ASSUME IrqInit PROVE Orderly
  OBVIOUS
<1>1. Whole(l, {})
  <2>1. Settled(l, BootQueues(TaskTable))
    BY BootSettles, IpcIrqAssumption DEF IrqInit
  <2>2. Range(BootQueues(TaskTable).wait) = {}
    BY DEF BootQueues, Range
  <2> QED  BY <2>1, <2>2 DEF Whole
<1>2. k.pc = "user" /\ k = User
  BY DEF IrqInit, User
<1>3. Typed
  BY <1>1, WholeShape DEF IrqInit, Typed
<1>4. Asleep = {}
  BY DEF IrqInit, Asleep
<1>5. Relinked
  BY <1>1, <1>2, <1>4 DEF IrqInit, Relinked, Sleepers
<1>6. Place /\ Calls
  BY <1>2 DEF IrqInit, Place, Calls, Places
<1>7. SenderListed /\ ReceivesFrom
  BY DEF IrqInit, SenderListed, ReceivesFrom
<1>8. Interrupts
  BY <1>2 DEF IrqInit, Interrupts, AwaitsInt
<1> QED  BY <1>3, <1>5, <1>6, <1>7, <1>8 DEF Orderly

LEMMA StatementOrderly ==
    ASSUME Orderly, Statement PROVE Orderly'
<1>1. k.pc \in {"queues", "tick"} /\ todo # <<>> /\ l \in Shape
  BY DEF Orderly, Statement, Place, Typed
<1>2. k' = (IF todo' = <<>> THEN User ELSE k) /\ UNCHANGED <<ipcVars, has_int_msg, due, struck>>
  BY DEF Statement
<1>3. PICK W : W = Asleep
  OBVIOUS
<1>4. Rest(l, todo, W)
  BY <1>1, <1>3 DEF Orderly, Relinked
<1>5. l' \in Shape /\ Rest(l', todo', W)
  BY <1>1, <1>4, RestKept
<1>6. Asleep' = W
  BY <1>2, <1>3 DEF Asleep, ipcVars
<1>7. Typed'
  BY <1>2, <1>5 DEF Orderly, Typed, ipcVars
<1>8. k'.pc \in {"user", "queues", "tick"} /\ (todo' # <<>> <=> k'.pc # "user")
  BY <1>1, <1>2 DEF User
<1>9. Place' /\ Calls'
  BY <1>1, <1>2, <1>8 DEF Orderly, Place, Calls, Places, User
<1>10. Relinked'
  <2>1. CASE todo' = <<>>
    <3>1. Whole(l', W)
      BY <1>5, <2>1, NothingLeft
    <3>2. Sleepers' = W
      BY <1>6, <1>8 DEF Sleepers
    <3> QED  BY <2>1, <3>1, <3>2 DEF Relinked
  <2>2. CASE todo' # <<>>
    BY <1>5, <1>6, <2>2 DEF Relinked
  <2> QED  BY <2>1, <2>2
<1>11. SenderListed' /\ ReceivesFrom'
  BY <1>1, <1>2, <1>8 DEF Orderly, SenderListed, ReceivesFrom, ipcVars
<1>12. Interrupts'
  BY <1>1, <1>2, <1>8 DEF Orderly, Interrupts, AwaitsInt, ipcVars
<1> QED  BY <1>7, <1>9, <1>10, <1>11, <1>12 DEF Orderly

LEMMA SendOrderly ==
    ASSUME Orderly, NEW p \in Procs, NEW d \in Procs, Send(p, d) PROVE Orderly'
<1>1. /\ todo = <<>> /\ Whole(l, Asleep) /\ k.pc = "user" /\ l.ready = p
      /\ UNCHANGED <<l, todo, ipcVars, has_int_msg, due, struck>>
  BY UserFacts DEF Send, InUser
<1>2. PICK pc \in {"copy", "mark sender"} :
         k' = [pc |-> pc, p |-> p, with |-> d] /\ (pc = "copy" => Awaits(d, p))
  BY DEF Send, Enter
<1>3. /\ k'.pc = pc /\ k'.p = p /\ k'.with = d /\ DOMAIN k' = {"pc", "p", "with"}
  BY <1>2
<1>4. Typed'
  BY <1>1 DEF Orderly, Typed, ipcVars
<1>5. Place'
  BY <1>1, <1>2, <1>3 DEF Place, Places
<1>6. Calls'
  <2>1. pc = "copy" => flags[d] = {"RECEIVING"}
    BY <1>2, AwakeFacts DEF Orderly, Awaits
  <2> QED  BY <1>1, <1>2, <1>3, <2>1 DEF Calls, ipcVars
<1>7. Relinked'
  BY <1>1, <1>2, <1>3 DEF Relinked, Sleepers, Asleep, ipcVars
<1>8. SenderListed' /\ ReceivesFrom'
  BY <1>1, <1>2, <1>3 DEF Orderly, SenderListed, ReceivesFrom, ipcVars
<1>9. Interrupts'
  BY <1>1, <1>2, <1>3 DEF Orderly, Interrupts, AwaitsInt, ipcVars
<1> QED  BY <1>4, <1>5, <1>6, <1>7, <1>8, <1>9 DEF Orderly

LEMMA SendCopiedOrderly ==
    ASSUME Orderly, SendCopied, UNCHANGED <<has_int_msg, due>> PROVE Orderly'
<1> DEFINE d == k.with
<1>1. /\ todo = <<>> /\ k.pc = "copy" /\ k.p \in Procs /\ d \in Procs /\ l.ready = k.p
      /\ flags[d] = {"RECEIVING"} /\ DOMAIN k = {"pc", "p", "with"}
      /\ Whole(l, Asleep)
  BY CallerRuns DEF SendCopied, At, Orderly, Place, Calls, Sleepers
<1>2. /\ flags' = [flags EXCEPT ![d] = flags[d] \ {"RECEIVING"}] /\ k' = [k EXCEPT !.pc = "clear"]
      /\ UNCHANGED <<l, todo, recv_from, send_to, sending_to_this, has_int_msg, due>>
  BY DEF SendCopied
<1>3. k'.pc = "clear" /\ k'.p = k.p /\ k'.with = d /\ DOMAIN k' = {"pc", "p", "with"}
  BY <1>1, <1>2
<1>4. flags'[d] = {} /\ \A p \in Procs : p # d => flags'[p] = flags[p]
  BY <1>1, <1>2 DEF Orderly, Typed
<1>5. Typed'
  BY <1>1, <1>2 DEF Orderly, Typed
<1>6. Place' /\ Calls'
  BY <1>1, <1>2, <1>3, <1>4 DEF Place, Places, Calls
<1>7. Sleepers' = Asleep
  BY <1>1, <1>3, <1>4 DEF Sleepers, Asleep
<1>8. Relinked'
  BY <1>1, <1>2, <1>7 DEF Relinked
<1>9. SenderListed'
  <2> SUFFICES ASSUME NEW p \in Procs, sending_to_this[p] # Null
               PROVE  /\ sending_to_this[p] \in Procs
                      /\ flags'[sending_to_this[p]] = {"SENDING"}
                      /\ send_to[sending_to_this[p]] = p
    BY <1>2 DEF SenderListed
  <2> QED  BY <1>1, <1>4 DEF Orderly, SenderListed
<1>10. ReceivesFrom'
  BY <1>1, <1>2, <1>3, <1>4 DEF Orderly, ReceivesFrom
<1>11. Interrupts'
  BY <1>1, <1>2, <1>3, <1>4 DEF Orderly, Interrupts, AwaitsInt
<1> QED  BY <1>5, <1>6, <1>8, <1>9, <1>10, <1>11 DEF Orderly

LEMMA SendClearedOrderly ==
    ASSUME Orderly, SendCleared, UNCHANGED <<has_int_msg, due>> PROVE Orderly'
<1> DEFINE d == k.with
<1>1. /\ todo = <<>> /\ k.pc = "clear" /\ k.p \in Procs /\ d \in Procs /\ l.ready = k.p
      /\ flags[d] = {} /\ DOMAIN k = {"pc", "p", "with"} /\ Whole(l, Asleep \cup {d})
      /\ d \notin Asleep
  BY CallerRuns DEF SendCleared, At, Orderly, Place, Calls, Sleepers, Asleep
<1>2. /\ recv_from' = [recv_from EXCEPT ![d] = NO_TASK] /\ k' = [k EXCEPT !.pc = "queues"]
      /\ todo' = <<Do("unblock", d)>>
      /\ UNCHANGED <<l, flags, send_to, sending_to_this, has_int_msg, due>>
  BY DEF SendCleared, ToQueues
<1>3. k'.pc = "queues" /\ k'.p = k.p /\ k'.with = d /\ DOMAIN k' = {"pc", "p", "with"}
  BY <1>1, <1>2
<1>4. recv_from'[d] = NO_TASK /\ \A p \in Procs : p # d => recv_from'[p] = recv_from[p]
  BY <1>1, <1>2 DEF Orderly, Typed
<1>5. Typed'
  BY <1>2 DEF Orderly, Typed
<1>6. Rest(l, todo', Asleep) /\ todo' # <<>>
  <2>1. PICK W : W = Asleep
    OBVIOUS
  <2> QED  BY <1>1, <1>2, <2>1, UnblockRest
<1>7. Place' /\ Calls'
  BY <1>2, <1>3, <1>6 DEF Place, Places, Calls
<1>8. Relinked'
  BY <1>2, <1>6 DEF Relinked, Asleep
<1>9. SenderListed' /\ ReceivesFrom'
  BY <1>1, <1>2, <1>3, <1>4 DEF Orderly, SenderListed, ReceivesFrom
<1>10. Interrupts'
  BY <1>1, <1>2, <1>3, <1>4 DEF Orderly, Interrupts, AwaitsInt
<1> QED  BY <1>5, <1>7, <1>8, <1>9, <1>10 DEF Orderly

LEMMA SendMarkedOrderly ==
    ASSUME Orderly, SendMarked, UNCHANGED <<has_int_msg, due>> PROVE Orderly'
<1> DEFINE c == k.p
           d == k.with
<1>1. /\ todo = <<>> /\ k.pc = "mark sender" /\ c \in Procs /\ d \in Procs /\ l.ready = c
      /\ DOMAIN k = {"pc", "p", "with"} /\ Whole(l, Asleep) /\ flags[c] = {}
  BY CallerRuns, AwakeFacts DEF SendMarked, At, Orderly, Place, Sleepers
<1>2. /\ flags' = [flags EXCEPT ![c] = flags[c] \cup {"SENDING"}]
      /\ send_to' = [send_to EXCEPT ![c] = d]
      /\ sending_to_this' = [sending_to_this EXCEPT ![d] = c]
      /\ k' = [k EXCEPT !.pc = "queues"] /\ todo' = BlockSteps(c)
      /\ UNCHANGED <<l, recv_from, has_int_msg, due>>
  BY DEF SendMarked, ToQueues
<1>3. k'.pc = "queues" /\ k'.p = c /\ k'.with = d /\ DOMAIN k' = {"pc", "p", "with"}
  BY <1>1, <1>2
<1>4. /\ flags'[c] = {"SENDING"} /\ \A p \in Procs : p # c => flags'[p] = flags[p]
      /\ send_to'[c] = d /\ \A p \in Procs : p # c => send_to'[p] = send_to[p]
      /\ sending_to_this'[d] = c
      /\ \A p \in Procs : p # d => sending_to_this'[p] = sending_to_this[p]
  BY <1>1, <1>2 DEF Orderly, Typed
<1>5. Typed'
  BY <1>1, <1>2 DEF Orderly, Typed
<1>6. Asleep' = Asleep \cup {c}
  BY <1>1, <1>4 DEF Asleep
<1>7. Rest(l, todo', Asleep \cup {c}) /\ todo' # <<>>
  <2>1. PICK W : W = Asleep
    OBVIOUS
  <2> QED  BY <1>1, <1>2, <2>1, BlockRest
<1>8. Place' /\ Calls'
  BY <1>2, <1>3, <1>7 DEF Place, Places, Calls
<1>9. Relinked'
  BY <1>2, <1>6, <1>7 DEF Relinked
<1>10. SenderListed'
  <2> SUFFICES ASSUME NEW p \in Procs, sending_to_this'[p] # Null
               PROVE  /\ sending_to_this'[p] \in Procs
                      /\ flags'[sending_to_this'[p]] = {"SENDING"}
                      /\ send_to'[sending_to_this'[p]] = p
    BY DEF SenderListed
  <2>1. CASE p = d
    BY <1>1, <1>4, <2>1
  <2>2. CASE p # d
    <3>1. sending_to_this'[p] = sending_to_this[p]
      BY <1>4, <2>2
    <3>2. /\ sending_to_this[p] \in Procs /\ flags[sending_to_this[p]] = {"SENDING"}
          /\ send_to[sending_to_this[p]] = p
      BY <3>1 DEF Orderly, SenderListed
    <3>3. sending_to_this[p] # c
      BY <1>1, <3>2
    <3> QED  BY <1>4, <3>1, <3>2, <3>3
  <2> QED  BY <2>1, <2>2
<1>11. ReceivesFrom'
  BY <1>1, <1>2, <1>3, <1>4 DEF Orderly, ReceivesFrom
<1>12. Interrupts'
  <2>1. \A p \in Procs : AwaitsInt(p)' => AwaitsInt(p)
    BY <1>2, <1>4 DEF AwaitsInt
  <2> QED  BY <1>2, <1>3, <2>1 DEF Orderly, Interrupts
<1> QED  BY <1>5, <1>8, <1>9, <1>10, <1>11, <1>12 DEF Orderly

LEMMA ReceiveOrderly ==
    ASSUME Orderly, NEW p \in Procs, NEW src \in Procs \cup {ANY, INTERRUPT}, Receive(p, src)
    PROVE  Orderly'
<1>1. /\ todo = <<>> /\ Whole(l, Asleep) /\ k.pc = "user" /\ l.ready = p
      /\ UNCHANGED <<l, todo, ipcVars, has_int_msg, due, struck>>
  BY UserFacts DEF Receive, InUser
<1>2. /\ k'.pc \in {"take", "accept", "mark receiver"} /\ k'.p = p
      /\ DOMAIN k' = {"pc", "p", "with"}
      /\ k'.pc = "accept" => k'.with = ChosenSender(p, src) /\ k'.with # Null
      /\ k'.pc = "mark receiver" =>
            k'.with = src /\ ~(has_int_msg[p] /\ src \in {ANY, INTERRUPT})
  <2> DEFINE from == ChosenSender(p, src)
             taking == has_int_msg[p] /\ src \in {ANY, INTERRUPT}
             at(pc, with) == k' = [pc |-> pc, p |-> p, with |-> with]
  <2>1. \/ taking /\ at("take", src)
        \/ from # Null /\ at("accept", from)
        \/ ~taking /\ at("mark receiver", src)
    BY DEF Receive, Enter
  <2> HIDE DEF from, taking
  <2>2. CASE at("take", src)
    BY <2>2
  <2>3. CASE from # Null /\ at("accept", from)
    BY <2>3 DEF from
  <2>4. CASE ~taking /\ at("mark receiver", src)
    BY <2>4 DEF taking
  <2> QED  BY <2>1, <2>2, <2>3, <2>4
<1>4. Typed'
  BY <1>1 DEF Orderly, Typed, ipcVars
<1>5. k'.pc = "accept" =>
         k'.with \in Procs /\ flags[k'.with] = {"SENDING"} /\ send_to[k'.with] = p
  <2> SUFFICES ASSUME k'.pc = "accept"
               PROVE  k'.with \in Procs /\ flags[k'.with] = {"SENDING"} /\ send_to[k'.with] = p
    OBVIOUS
  <2>1. CASE src = ANY
    BY <1>2, <2>1 DEF ChosenSender, Orderly, SenderListed
  <2>2. CASE src # ANY
    BY <1>2, <2>2, AwakeFacts DEF ChosenSender, Orderly
  <2> QED  BY <2>1, <2>2
<1>6. Place'
  BY <1>1, <1>2, <1>5 DEF Place, Places
<1>7. Calls'
  BY <1>1, <1>2, <1>5 DEF Calls, ipcVars
<1>8. Relinked'
  BY <1>1, <1>2 DEF Relinked, Sleepers, Asleep, ipcVars
<1>9. SenderListed' /\ ReceivesFrom'
  BY <1>1, <1>2 DEF Orderly, SenderListed, ReceivesFrom, ipcVars
<1>10. Interrupts'
  <2>1. has_int_msg \in [Procs -> BOOLEAN]
    BY DEF Orderly, Typed
  <2> QED  BY <1>1, <1>2, <2>1 DEF Orderly, Interrupts, AwaitsInt, ipcVars
<1> QED  BY <1>4, <1>6, <1>7, <1>8, <1>9, <1>10 DEF Orderly

\* Taking an interrupt: has_int_msg is cleared twice.
LEMMA ReceiveTakesOrderly ==
    ASSUME Orderly, ReceiveTakes \/ ReceiveTaken PROVE Orderly'
<1> DEFINE c == k.p
<1>1. /\ todo = <<>> /\ k.pc \in {"take", "taken"} /\ c \in Procs
      /\ DOMAIN k = {"pc", "p", "with"} /\ Whole(l, Asleep)
      /\ UNCHANGED <<l, todo, ipcVars>>
  BY DEF ReceiveTakes, ReceiveTaken, At, Orderly, Place, Relinked, Sleepers
<1>2. /\ has_int_msg' = [has_int_msg EXCEPT ![c] = FALSE]
      /\ due' = [due EXCEPT ![c] = FALSE]
  <2>1. CASE ReceiveTakes
    BY <2>1 DEF ReceiveTakes
  <2>2. CASE ReceiveTaken
    <3>1. due' = due /\ ~due[c] /\ due \in [Procs -> BOOLEAN] /\ k.pc = "taken"
      BY <2>2 DEF ReceiveTaken, At, Orderly, Interrupts, Typed
    <3>2. due = [due EXCEPT ![c] = FALSE]
      BY <1>1, <3>1
    <3> QED  BY <2>2, <3>1, <3>2 DEF ReceiveTaken
  <2> QED  BY <2>1, <2>2
<1>3. \/ k' = User
      \/ /\ k'.pc = "taken" /\ k'.p = c /\ DOMAIN k' = {"pc", "p", "with"}
  <2>1. CASE ReceiveTakes
    BY <1>1, <2>1 DEF ReceiveTakes
  <2>2. CASE ReceiveTaken
    BY <2>2 DEF ReceiveTaken
  <2> QED  BY <2>1, <2>2
<1>4. k'.pc \in {"user", "taken"} /\ (k'.pc = "user" => k' = User)
      /\ (k'.pc = "taken" => k'.p = c /\ DOMAIN k' = {"pc", "p", "with"})
  BY <1>3 DEF User
<1>5. Typed'
  BY <1>1, <1>2 DEF Orderly, Typed, ipcVars
<1>6. Place' /\ Calls'
  BY <1>1, <1>4 DEF Place, Places, Calls
<1>7. Relinked'
  BY <1>1, <1>4 DEF Relinked, Sleepers, Asleep, ipcVars
<1>8. SenderListed' /\ ReceivesFrom'
  BY <1>1, <1>4 DEF Orderly, SenderListed, ReceivesFrom, ipcVars
<1>9. Interrupts'
  <2>1. /\ ~has_int_msg'[c] /\ ~due'[c]
        /\ \A p \in Procs : p # c => has_int_msg'[p] = has_int_msg[p] /\ due'[p] = due[p]
    BY <1>1, <1>2 DEF Orderly, Typed
  <2>2. \A p \in Procs : AwaitsInt(p)' = AwaitsInt(p)
    BY <1>1 DEF AwaitsInt, ipcVars
  <2> QED  BY <1>1, <1>4, <2>1, <2>2 DEF Orderly, Interrupts
<1> QED  BY <1>5, <1>6, <1>7, <1>8, <1>9 DEF Orderly

LEMMA ReceiveAcceptsOrderly ==
    ASSUME Orderly, ReceiveAccepts, UNCHANGED <<has_int_msg, due>> PROVE Orderly'
<1> DEFINE c == k.p
           d == k.with
<1>1. /\ todo = <<>> /\ k.pc = "accept" /\ c \in Procs /\ d \in Procs /\ l.ready = c
      /\ flags[d] = {"SENDING"} /\ send_to[d] = c /\ DOMAIN k = {"pc", "p", "with"}
      /\ Whole(l, Asleep)
  BY CallerRuns DEF ReceiveAccepts, At, Orderly, Place, Calls, Sleepers
<1>2. /\ sending_to_this' = [sending_to_this EXCEPT ![c] = Null]
      /\ send_to' = [send_to EXCEPT ![d] = NO_TASK]
      /\ flags' = [flags EXCEPT ![d] = flags[d] \ {"SENDING"}]
      /\ k' = [k EXCEPT !.pc = "queues"] /\ todo' = <<Do("unblock", d)>>
      /\ UNCHANGED <<l, recv_from, has_int_msg, due>>
  BY DEF ReceiveAccepts, ToQueues
<1>3. k'.pc = "queues" /\ k'.p = c /\ k'.with = d /\ DOMAIN k' = {"pc", "p", "with"}
  BY <1>1, <1>2
<1>4. /\ flags'[d] = {} /\ \A p \in Procs : p # d => flags'[p] = flags[p]
      /\ \A p \in Procs : p # d => send_to'[p] = send_to[p]
      /\ sending_to_this'[c] = Null
      /\ \A p \in Procs : p # c => sending_to_this'[p] = sending_to_this[p]
  BY <1>1, <1>2 DEF Orderly, Typed
<1>5. Typed'
  BY <1>1, <1>2 DEF Orderly, Typed
<1>6. d \notin Asleep' /\ Asleep' \cup {d} = Asleep
  BY <1>1, <1>4 DEF Asleep
<1>7. Rest(l, todo', Asleep') /\ todo' # <<>>
  <2>1. PICK W : W = Asleep'
    OBVIOUS
  <2>2. d \notin W /\ Whole(l, W \cup {d})
    BY <1>1, <1>6, <2>1
  <2> QED  BY <1>1, <1>2, <2>1, <2>2, UnblockRest
<1>8. Place' /\ Calls'
  BY <1>2, <1>3, <1>7 DEF Place, Places, Calls
<1>9. Relinked'
  BY <1>2, <1>7 DEF Relinked
<1>10. SenderListed'
  <2> SUFFICES ASSUME NEW p \in Procs, sending_to_this'[p] # Null
               PROVE  /\ sending_to_this'[p] \in Procs
                      /\ flags'[sending_to_this'[p]] = {"SENDING"}
                      /\ send_to'[sending_to_this'[p]] = p
    BY DEF SenderListed
  <2>1. p # c /\ sending_to_this'[p] = sending_to_this[p]
    BY <1>4
  <2>2. /\ sending_to_this[p] \in Procs /\ flags[sending_to_this[p]] = {"SENDING"}
        /\ send_to[sending_to_this[p]] = p
    BY <2>1 DEF Orderly, SenderListed
  <2>3. sending_to_this[p] # d
    BY <1>1, <2>1, <2>2
  <2> QED  BY <1>4, <2>1, <2>2, <2>3
<1>11. ReceivesFrom'
  BY <1>1, <1>2, <1>3, <1>4 DEF Orderly, ReceivesFrom
<1>12. Interrupts'
  <2>1. \A p \in Procs : AwaitsInt(p)' => AwaitsInt(p)
    BY <1>2, <1>4 DEF AwaitsInt
  <2> QED  BY <1>2, <1>3, <2>1 DEF Orderly, Interrupts
<1> QED  BY <1>5, <1>8, <1>9, <1>10, <1>11, <1>12 DEF Orderly

LEMMA ReceiveMarkedOrderly ==
    ASSUME Orderly, ReceiveMarked, UNCHANGED <<has_int_msg, due>> PROVE Orderly'
<1> DEFINE c == k.p
<1>1. /\ todo = <<>> /\ k.pc = "mark receiver" /\ c \in Procs /\ l.ready = c
      /\ k.with \in Procs \cup {ANY, INTERRUPT}
      /\ DOMAIN k = {"pc", "p", "with"} /\ Whole(l, Asleep) /\ flags[c] = {}
  BY CallerRuns, AwakeFacts DEF ReceiveMarked, At, Orderly, Place, Sleepers
<1>2. /\ flags' = [flags EXCEPT ![c] = flags[c] \cup {"RECEIVING"}]
      /\ k' = [k EXCEPT !.pc = "from"]
      /\ UNCHANGED <<l, todo, recv_from, send_to, sending_to_this, has_int_msg, due>>
  BY DEF ReceiveMarked
<1>3. k'.pc = "from" /\ k'.p = c /\ k'.with = k.with /\ DOMAIN k' = {"pc", "p", "with"}
  BY <1>1, <1>2
<1>4. flags'[c] = {"RECEIVING"} /\ \A p \in Procs : p # c => flags'[p] = flags[p]
  BY <1>1, <1>2 DEF Orderly, Typed
<1>5. recv_from[c] = NO_TASK
  BY <1>1 DEF Orderly, ReceivesFrom
<1>6. Typed'
  BY <1>1, <1>2 DEF Orderly, Typed
<1>7. Place' /\ Calls'
  BY <1>1, <1>2, <1>3, <1>4, <1>5 DEF Place, Places, Calls
<1>8. Sleepers' = Asleep
  BY <1>1, <1>3, <1>4 DEF Sleepers, Asleep
<1>9. Relinked'
  BY <1>1, <1>2, <1>8 DEF Relinked
<1>10. SenderListed'
  <2> SUFFICES ASSUME NEW p \in Procs, sending_to_this[p] # Null
               PROVE  /\ sending_to_this[p] \in Procs
                      /\ flags'[sending_to_this[p]] = {"SENDING"}
                      /\ send_to[sending_to_this[p]] = p
    BY <1>2 DEF SenderListed
  <2>1. /\ sending_to_this[p] \in Procs /\ flags[sending_to_this[p]] = {"SENDING"}
        /\ send_to[sending_to_this[p]] = p
    BY DEF Orderly, SenderListed
  <2>2. sending_to_this[p] # c
    BY <1>1, <2>1
  <2> QED  BY <1>4, <2>1, <2>2
<1>11. ReceivesFrom'
  BY <1>1, <1>2, <1>3, <1>4, <1>5 DEF Orderly, ReceivesFrom
<1>12. Interrupts'
  <2>1. \A p \in Procs : AwaitsInt(p)' => AwaitsInt(p)
    BY <1>2, <1>4, <1>5, IpcIrqAssumption DEF AwaitsInt
  <2> QED  BY <1>1, <1>2, <1>3, <2>1 DEF Orderly, Interrupts
<1> QED  BY <1>6, <1>7, <1>9, <1>10, <1>11, <1>12 DEF Orderly

LEMMA ReceiveBlocksOrderly ==
    ASSUME Orderly, ReceiveBlocks, UNCHANGED <<has_int_msg, due>> PROVE Orderly'
<1> DEFINE c == k.p
<1>1. /\ todo = <<>> /\ k.pc = "from" /\ c \in Procs /\ l.ready = c
      /\ DOMAIN k = {"pc", "p", "with"} /\ Whole(l, Asleep \ {c})
      /\ flags[c] = {"RECEIVING"}
  BY CallerRuns DEF ReceiveBlocks, At, Orderly, Calls, Sleepers
<1>2. /\ recv_from' = [recv_from EXCEPT ![c] = k.with]
      /\ k' = [k EXCEPT !.pc = "queues"] /\ todo' = BlockSteps(c)
      /\ UNCHANGED <<l, flags, send_to, sending_to_this, has_int_msg, due>>
  BY DEF ReceiveBlocks, ToQueues
<1>3. k'.pc = "queues" /\ k'.p = c /\ DOMAIN k' = {"pc", "p", "with"}
  BY <1>1, <1>2
<1>4. recv_from'[c] = k.with /\ \A p \in Procs : p # c => recv_from'[p] = recv_from[p]
  BY <1>1, <1>2 DEF Orderly, Typed
<1>5. Typed'
  BY <1>2 DEF Orderly, Typed
<1>6. Asleep = (Asleep \ {c}) \cup {c}
  BY <1>1 DEF Asleep
<1>7. Rest(l, todo', Asleep) /\ todo' # <<>>
  <2>1. PICK W : W = Asleep \ {c}
    OBVIOUS
  <2>2. Rest(l, BlockSteps(c), W \cup {c}) /\ BlockSteps(c) # <<>>
    BY <1>1, <2>1, BlockRest
  <2> QED  BY <1>2, <1>6, <2>1, <2>2
<1>8. Place' /\ Calls'
  BY <1>2, <1>3, <1>7 DEF Place, Places, Calls
<1>9. Relinked'
  BY <1>2, <1>7 DEF Relinked, Asleep
<1>10. SenderListed' /\ ReceivesFrom'
  BY <1>1, <1>2, <1>3, <1>4 DEF Orderly, SenderListed, ReceivesFrom
<1>11. Interrupts'
  <2>1. \A p \in Procs : p # c => AwaitsInt(p)' = AwaitsInt(p)
    BY <1>2, <1>4 DEF AwaitsInt
  <2>2. AwaitsInt(c)' => ~has_int_msg[c]
    BY <1>1, <1>2, <1>4 DEF AwaitsInt, Orderly, Interrupts
  <2> QED  BY <1>2, <1>3, <2>1, <2>2 DEF Orderly, Interrupts
<1> QED  BY <1>5, <1>8, <1>9, <1>10, <1>11 DEF Orderly

-----------------------------------------------------------------------------
(* The steps of the handlers.                                              *)

\* A handler finds its process asleep, at no bad moment.
LEMMA WakesOrderly ==
    ASSUME Orderly, NEW p \in Procs, inform_int(p), AwaitsInt(p), ~BadMoment(p)
    PROVE  Orderly'
<1>1. /\ todo = <<>> /\ Whole(l, Sleepers) /\ flags[p] = {"RECEIVING"}
      /\ ~(k.pc = "copy" /\ k.with = p)
  BY AwakeFacts DEF BadMoment, Orderly, Relinked, AwaitsInt
<1>2. /\ has_int_msg' = [has_int_msg EXCEPT ![p] = FALSE]
      /\ due' = [due EXCEPT ![p] = FALSE]
      /\ flags' = [flags EXCEPT ![p] = flags[p] \ {"RECEIVING"}]
      /\ recv_from' = [recv_from EXCEPT ![p] = NO_TASK]
      /\ l' = PWake(l, p)
      /\ UNCHANGED <<k, todo, send_to, sending_to_this>>
  BY DEF inform_int
<1>3. /\ flags'[p] = {} /\ \A q \in Procs : q # p => flags'[q] = flags[q]
      /\ recv_from'[p] = NO_TASK /\ \A q \in Procs : q # p => recv_from'[q] = recv_from[q]
      /\ ~has_int_msg'[p] /\ ~due'[p]
      /\ \A q \in Procs : q # p => has_int_msg'[q] = has_int_msg[q] /\ due'[q] = due[q]
  BY <1>1, <1>2 DEF Orderly, Typed
<1>4. k.pc = "from" => k.p \in Procs /\ k.p # p
  BY IpcIrqAssumption DEF AwaitsInt, Orderly, Calls, Place
<1>5. k.pc = "clear" => k.with \in Procs /\ k.with # p
  BY <1>1 DEF Orderly, Calls, Place
<1>6. p \in Sleepers
  <2>1. p \in Asleep
    BY <1>1 DEF Asleep
  <2> QED  BY <1>4, <2>1 DEF Sleepers
<1>7. Sleepers' = Sleepers \ {p}
  <2>1. Asleep' = Asleep \ {p}
    BY <1>3 DEF Asleep
  <2> QED  BY <1>2, <1>4, <1>5, <2>1 DEF Sleepers
<1>8. Whole(l', Sleepers') /\ (l.ready \in Procs => l'.ready = l.ready)
  <2>1. PICK W : W = Sleepers
    OBVIOUS
  <2>2. Whole(PWake(l, p), W \ {p}) /\ (l.ready \in Procs => PWake(l, p).ready = l.ready)
    BY <1>1, <1>6, <2>1, Wakes
  <2> QED  BY <1>2, <1>7, <2>1, <2>2
<1>9. Typed'
  <2>1. l' \in Shape
    <3>1. PICK W : W = Sleepers'
      OBVIOUS
    <3> QED  BY <1>8, <3>1, WholeShape
  <2> QED  BY <1>1, <1>2, <2>1 DEF Orderly, Typed
<1>10. Place'
  BY <1>2 DEF Orderly, Place
<1>11. Calls'
  <2>1. k.pc \in {"copy", "clear", "mark sender", "mark receiver", "from", "accept"} =>
           l'.ready = k.p
    BY <1>8 DEF Orderly, Calls, Place
  <2>2. k.pc = "copy" => flags'[k.with] = {"RECEIVING"}
    BY <1>1, <1>3 DEF Orderly, Calls, Place
  <2>3. k.pc = "clear" => flags'[k.with] = {}
    BY <1>3, <1>5 DEF Orderly, Calls
  <2>4. k.pc = "from" => flags'[k.p] = {"RECEIVING"} /\ recv_from'[k.p] = NO_TASK
    BY <1>3, <1>4 DEF Orderly, Calls
  <2>5. k.pc = "accept" => flags'[k.with] = {"SENDING"} /\ send_to[k.with] = k.p
    BY <1>1, <1>3 DEF Orderly, Calls, Place
  <2> QED  BY <1>2, <2>1, <2>2, <2>3, <2>4, <2>5 DEF Calls
<1>12. Relinked'
  BY <1>1, <1>2, <1>8 DEF Relinked
<1>13. SenderListed'
  <2> SUFFICES ASSUME NEW q \in Procs, sending_to_this[q] # Null
               PROVE  /\ sending_to_this[q] \in Procs
                      /\ flags'[sending_to_this[q]] = {"SENDING"}
                      /\ send_to[sending_to_this[q]] = q
    BY <1>2 DEF SenderListed
  <2>1. /\ sending_to_this[q] \in Procs /\ flags[sending_to_this[q]] = {"SENDING"}
        /\ send_to[sending_to_this[q]] = q
    BY DEF Orderly, SenderListed
  <2>2. sending_to_this[q] # p
    BY <1>1, <2>1
  <2> QED  BY <1>3, <2>1, <2>2
<1>14. ReceivesFrom'
  BY <1>2, <1>3 DEF Orderly, ReceivesFrom
<1>15. Interrupts'
  <2>1. \A q \in Procs : q # p => AwaitsInt(q)' = AwaitsInt(q)
    BY <1>3 DEF AwaitsInt
  <2>2. \A q \in Procs : (AwaitsInt(q)' => ~has_int_msg'[q]) /\ (due'[q] => has_int_msg'[q])
    BY <1>3, <2>1 DEF Orderly, Interrupts
  <2>3. k.pc = "taken" => ~due'[k.p]
    BY <1>3 DEF Orderly, Interrupts, Place
  <2>4. k.pc \in {"mark receiver", "from"} /\ k.with \in {ANY, INTERRUPT} => ~has_int_msg'[k.p]
    BY <1>3 DEF Orderly, Interrupts, Place
  <2> QED  BY <1>2, <2>2, <2>3, <2>4 DEF Interrupts
<1> QED  BY <1>9, <1>10, <1>11, <1>12, <1>13, <1>14, <1>15 DEF Orderly

\* A handler leaves its interrupt, at no bad moment.
LEMMA LeavesOrderly ==
    ASSUME Orderly, NEW p \in Procs, inform_int(p), ~AwaitsInt(p), ~BadMoment(p)
    PROVE  Orderly'
<1>1. /\ has_int_msg' = [has_int_msg EXCEPT ![p] = TRUE]
      /\ due' = [due EXCEPT ![p] = TRUE]
      /\ UNCHANGED <<l, k, todo, ipcVars>>
  BY DEF inform_int, ipcVars
<1>2. /\ has_int_msg'[p] /\ due'[p]
      /\ \A q \in Procs : q # p => has_int_msg'[q] = has_int_msg[q] /\ due'[q] = due[q]
  BY <1>1 DEF Orderly, Typed
<1>3. Typed'
  BY <1>1 DEF Orderly, Typed, ipcVars
<1>4. Place' /\ Calls'
  BY <1>1 DEF Orderly, Place, Calls, ipcVars
<1>5. Relinked'
  BY <1>1 DEF Orderly, Relinked, Sleepers, Asleep, ipcVars
<1>6. SenderListed' /\ ReceivesFrom'
  BY <1>1 DEF Orderly, SenderListed, ReceivesFrom, ipcVars
<1>7. Interrupts'
  <2>1. \A q \in Procs : AwaitsInt(q)' = AwaitsInt(q)
    BY <1>1 DEF AwaitsInt, ipcVars
  <2>2. \A q \in Procs : (AwaitsInt(q)' => ~has_int_msg'[q]) /\ (due'[q] => has_int_msg'[q])
    BY <1>2, <2>1 DEF Orderly, Interrupts
  <2>3. k.pc = "taken" => ~due'[k.p]
    BY <1>2 DEF Orderly, Interrupts, Place, BadMoment
  <2>4. k.pc \in {"mark receiver", "from"} /\ k.with \in {ANY, INTERRUPT} => ~has_int_msg'[k.p]
    BY <1>2 DEF Orderly, Interrupts, Place, BadMoment
  <2> QED  BY <1>1, <2>2, <2>3, <2>4 DEF Interrupts
<1> QED  BY <1>3, <1>4, <1>5, <1>6, <1>7 DEF Orderly

LEMMA TickOrderly ==
    ASSUME Orderly, ClockTick PROVE Orderly'
<1>1. /\ Whole(l, Asleep) /\ k' = [pc |-> "tick", p |-> Null, with |-> Null]
      /\ todo' = <<Do("schedule", Null)>>
      /\ UNCHANGED <<l, ipcVars, has_int_msg, due, struck>>
      /\ k.pc = "user"
  BY UserFacts DEF ClockTick, InUser, Enter
<1>2. k'.pc = "tick" /\ DOMAIN k' = {"pc", "p", "with"}
  BY <1>1
<1>3. Rest(l, todo', Asleep) /\ todo' # <<>>
  <2>1. PICK W : W = Asleep
    OBVIOUS
  <2>2. Do("schedule", Null) \in Steps /\ <<>> \in Seq(Steps)
    BY DEF Do, Steps, Kinds
  <2>3. todo' = First(Do("schedule", Null), <<>>)
    BY <1>1, <2>2, OneFirst
  <2>4. Scheduling(l, todo', W)
    BY <1>1, <2>1, <2>3, WholeFacts DEF Scheduling
  <2> QED  BY <1>1, <2>1, <2>4, RestIs
<1>4. Typed'
  BY <1>1 DEF Orderly, Typed, ipcVars
<1>5. Place' /\ Calls'
  BY <1>2, <1>3 DEF Place, Places, Calls
<1>6. Relinked'
  BY <1>1, <1>3 DEF Relinked, Asleep, ipcVars
<1>7. SenderListed' /\ ReceivesFrom'
  BY <1>1, <1>2 DEF Orderly, SenderListed, ReceivesFrom, ipcVars
<1>8. Interrupts'
  BY <1>1, <1>2 DEF Orderly, Interrupts, AwaitsInt, ipcVars
<1> QED  BY <1>4, <1>5, <1>6, <1>7, <1>8 DEF Orderly

LEMMA NextOrderly ==
    ASSUME IrqInv, IrqNext PROVE IrqInv'
<1> SUFFICES ASSUME ~struck' PROVE Orderly'
  BY DEF IrqInv
<1>1. ASSUME NEW p \in Notified, inform_int(p) PROVE Orderly'
  <2>1. ~BadMoment(p) /\ ~struck /\ p \in Procs
    BY <1>1, IpcIrqAssumption DEF inform_int
  <2> QED  BY <1>1, <2>1, WakesOrderly, LeavesOrderly DEF IrqInv
<1>2. ASSUME UNCHANGED struck, ~(\E p \in Notified : inform_int(p)) PROVE Orderly'
  <2>1. Orderly
    BY <1>2 DEF IrqInv
  <2>2. ASSUME NEW p \in Procs, NEW d \in Procs, Send(p, d) PROVE Orderly'
    BY <2>1, <2>2, SendOrderly
  <2>3. ASSUME NEW p \in Procs, NEW src \in Procs \cup {ANY, INTERRUPT}, Receive(p, src)
        PROVE  Orderly'
    BY <2>1, <2>3, ReceiveOrderly
  <2>4. CASE SendStep /\ UNCHANGED <<has_int_msg, due, struck>>
    BY <2>1, <2>4, SendCopiedOrderly, SendClearedOrderly, SendMarkedOrderly DEF SendStep
  <2>5. CASE ReceiveStep /\ UNCHANGED <<has_int_msg, due, struck>>
    BY <2>1, <2>5, ReceiveAcceptsOrderly, ReceiveMarkedOrderly, ReceiveBlocksOrderly
    DEF ReceiveStep
  <2>6. CASE ReceiveTakes \/ ReceiveTaken
    BY <2>1, <2>6, ReceiveTakesOrderly
  <2>7. CASE Statement \/ ClockTick
    BY <2>1, <2>7, StatementOrderly, TickOrderly
  <2> QED  BY <1>2, <2>2, <2>3, <2>4, <2>5, <2>6, <2>7 DEF IrqNext
<1>3. (\E p \in Notified : inform_int(p)) \/ UNCHANGED struck
  BY DEF IrqNext, Send, Receive, Statement, ClockTick
<1> QED  BY <1>1, <1>2, <1>3

LEMMA IrqAlways == IrqSpec => []IrqInv
<1>1. IrqInit => IrqInv
  BY InitOrderly DEF IrqInv
<1>2. IrqInv /\ UNCHANGED irqVars => IrqInv'
  <2> SUFFICES ASSUME IrqInv, UNCHANGED irqVars, ~struck' PROVE Orderly'
    BY DEF IrqInv
  <2>1. UNCHANGED <<l, k, todo, flags, recv_from, send_to, sending_to_this, has_int_msg, due>>
    BY DEF irqVars, ipcVars
  <2>2. Orderly
    BY DEF IrqInv, irqVars
  <2>3. Typed' /\ Place' /\ Calls'
    BY <2>1, <2>2 DEF Orderly, Typed, Place, Calls
  <2>4. Relinked'
    BY <2>1, <2>2 DEF Orderly, Relinked, Sleepers, Asleep
  <2>5. SenderListed' /\ ReceivesFrom' /\ Interrupts'
    BY <2>1, <2>2 DEF Orderly, SenderListed, ReceivesFrom, Interrupts, AwaitsInt
  <2> QED  BY <2>3, <2>4, <2>5 DEF Orderly
<1>3. IrqInv /\ [IrqNext]_irqVars => IrqInv'
  BY <1>2, NextOrderly
<1> QED  BY <1>1, <1>3, PTL DEF IrqSpec

\* Between the calls the three queues lead to their own sentinels and share no
\* PCB, and the wait queue is who sleeps.
LEMMA WholeQueues ==
    ASSUME NEW W, Whole(l, W)
    PROVE  /\ Intact(l) /\ (EmptyRuns(l) => PauseEmpty(l))
           /\ OnChain(l, l.wait, WaitTail) = W
<1>1. PICK q : Settled(l, q) /\ Range(q.wait) = W
  BY DEF Whole
<1>2. Lists(l, q.ready, q.pause, q.wait) /\ (EmptyRuns(l) => PauseEmpty(l))
  BY <1>1, SettledFacts, SpellsFacts, WholeFacts
<1>3. /\ l \in ListState /\ Apart(q.ready, q.pause, q.wait)
      /\ Linked(l, q.ready, FirstReady(l), ReadyTail)
      /\ Linked(l, q.pause, l.pause, PauseTail) /\ Linked(l, q.wait, l.wait, WaitTail)
  BY <1>2 DEF Lists
<1>4. /\ OnChain(l, FirstReady(l), ReadyTail) = Range(q.ready)
      /\ OnChain(l, l.pause, PauseTail) = Range(q.pause)
      /\ OnChain(l, l.wait, WaitTail) = Range(q.wait)
  BY <1>3, ChainIs, NodeFacts DEF Apart
<1>5. /\ Range(q.ready) \subseteq Procs /\ Range(q.pause) \subseteq Procs
      /\ Range(q.wait) \subseteq Procs
  BY <1>3, SeqFacts DEF Apart
<1>6. Intact(l)
  BY <1>3, <1>4, <1>5 DEF Intact, Apart, FirstReady
<1> QED  BY <1>1, <1>2, <1>4, <1>6

\* An interrupt does harm only at a bad moment: at any other point of a system
\* call, whatever statement of block(), unblock() or schedule() comes next, no
\* process sleeps on an interrupt that has happened, none is forgotten, and
\* the queues that the call leaves behind are whole.
THEOREM InterruptsHarmless == IrqSpec => []HarmlessElsewhere
<1>1. IrqInv => HarmlessElsewhere
  <2> SUFFICES ASSUME Orderly PROVE NobodySleepsOn /\ NoneErased /\ QueuesWhole
    BY DEF IrqInv, HarmlessElsewhere
  <2>1. NobodySleepsOn /\ NoneErased
    BY DEF Orderly, Interrupts, NobodySleepsOn, NoneErased
  <2>2. ASSUME k = User
        PROVE  /\ Intact(l) /\ (EmptyRuns(l) => PauseEmpty(l))
               /\ \A p \in Procs : flags[p] # {} <=> p \in OnChain(l, l.wait, WaitTail)
    <3>1. PICK W : W = Asleep
      OBVIOUS
    <3>2. Whole(l, W)
      BY <2>2, <3>1, UserFacts
    <3>3. /\ Intact(l) /\ (EmptyRuns(l) => PauseEmpty(l))
          /\ OnChain(l, l.wait, WaitTail) = W
      BY <3>2, WholeQueues
    <3> QED  BY <3>1, <3>3 DEF Asleep
  <2>3. QueuesWhole
    BY <2>2 DEF QueuesWhole
  <2> QED  BY <2>1, <2>3
<1> QED  BY <1>1, IrqAlways, PTL
=============================================================================
