----------------------------- MODULE QueueProofs -----------------------------
(***************************************************************************)
(* Lemmas about the process queues, for the proofs of the modules that use *)
(* them: what each function of ProcQueues does to the sets of processes in *)
(* the three queues, and that none of them breaks the partition; and that  *)
(* the functions of PcbLinks do the same on the linked lists.              *)
(*                                                                         *)
(* Linked says what it means that head pointer, links and sentinel spell a *)
(* sequence; Lists that the three queues do, sharing no PCB.  Each         *)
(* function of the kernel takes Lists of some sequences to Lists of the    *)
(* sequences that ProcQueues' function of the same name computes.          *)
(***************************************************************************)
EXTENDS PcbLinks, SequenceTheorems, FiniteSetTheorems,
        WellFoundedInduction, TLAPS

-----------------------------------------------------------------------------
(* Induction: a counterexample would have a smallest one.                  *)

\* Every set of natural numbers that is not empty has a least element.
LEMMA LeastNumber ==
    ASSUME NEW T \in SUBSET Nat, T # {}
    PROVE  \E x \in T : \A y \in T : x <= y
<1> DEFINE R == {ss \in Nat \X Nat : ss[1] < ss[2]}
<1>1. IsWellFoundedOn(R, Nat)
  BY NatLessThanWellFounded, Zenon DEF OpToRel
<1>2. PICK x \in T : \A y \in T : ~ (<<y, x>> \in R)
  <2> HIDE DEF R
  <2> QED  BY <1>1, WFMin, Zenon
<1>3. \A y \in T : ~ (y < x)
  BY <1>2
<1> QED  BY <1>3

\* g lists where the step function F leads from a in up to N steps.
IsOrbit(g, S, F, a, N) ==
    g \in [0 .. N -> S] /\ g[0] = a /\ \A n \in 1 .. N : g[n] = F[g[n - 1]]

\* From any starting point a step function can be followed N times.
LEMMA Orbit ==
    ASSUME NEW S, NEW F \in [S -> S], NEW a \in S, NEW N \in Nat
    PROVE  \E g : IsOrbit(g, S, F, a, N)
<1> DEFINE Good(K) == \E g : IsOrbit(g, S, F, a, K)
           Bad == {K \in Nat : ~ Good(K)}
<1>1. SUFFICES ASSUME Bad # {} PROVE FALSE
  BY <1>1
<1>2. PICK K \in Bad : \A M \in Bad : K <= M
  <2>1. Bad \in SUBSET Nat
    OBVIOUS
  <2> HIDE DEF Bad
  <2> QED  BY <1>1, <2>1, LeastNumber
<1>3. K \in Nat /\ ~ Good(K)
  BY <1>2
<1>4. CASE K = 0
  <2> DEFINE g == [n \in 0 .. 0 |-> a]
  <2>1. IsOrbit(g, S, F, a, K)
    BY <1>4 DEF IsOrbit
  <2> QED  BY <1>3, <2>1
<1>5. CASE K # 0
  <2>1. K - 1 \in Nat /\ Good(K - 1)
    <3> HIDE DEF Good
    <3>1. K - 1 \in Nat /\ ~ (K <= K - 1)
      BY <1>3, <1>5
    <3> QED  BY <1>2, <3>1
  <2>2. PICK g : IsOrbit(g, S, F, a, K - 1)
    BY <2>1
  <2> DEFINE h == [n \in 0 .. K |-> IF n = K THEN F[g[K - 1]] ELSE g[n]]
  <2>3. h \in [0 .. K -> S]
    BY <1>3, <2>1, <2>2 DEF IsOrbit
  <2>4. h[0] = a /\ \A n \in 1 .. K : h[n] = F[h[n - 1]]
    BY <1>3, <1>5, <2>1, <2>2 DEF IsOrbit
  <2> HIDE DEF h
  <2> QED  BY <1>3, <2>3, <2>4 DEF IsOrbit
<1> QED  BY <1>4, <1>5

-----------------------------------------------------------------------------
(* Sequences without repetitions.                                          *)

\* Taking the first element off a sequence without repetitions.
LEMMA TailLemma ==
    ASSUME NEW S, NEW s \in Seq(S), s # <<>>, IsInjective(s)
    PROVE  /\ Tail(s) \in Seq(S) /\ Head(s) \in S
           /\ Range(Tail(s)) = Range(s) \ {Head(s)}
           /\ Head(s) \in Range(s)
           /\ IsInjective(Tail(s))
<1>1. Tail(s) \in Seq(S) /\ Head(s) \in S /\ Len(Tail(s)) = Len(s) - 1
      /\ \A i \in 1 .. Len(Tail(s)) : Tail(s)[i] = s[i + 1]
  BY HeadTailProperties
<1>2. Len(s) \in Nat \ {0} /\ Head(s) = s[1] /\ DOMAIN s = 1 .. Len(s)
      /\ DOMAIN Tail(s) = 1 .. Len(Tail(s))
  BY <1>1, EmptySeq, LenProperties
<1>3. Range(Tail(s)) = Range(s) \ {Head(s)}
  <2>1. ASSUME NEW x \in Range(Tail(s)) PROVE x \in Range(s) \ {Head(s)}
    <3>1. PICK i \in 1 .. Len(Tail(s)) : Tail(s)[i] = x  BY <1>2, <2>1 DEF Range
    <3>2. x = s[i + 1] /\ i + 1 \in DOMAIN s /\ 1 \in DOMAIN s /\ i + 1 # 1  BY <1>1, <1>2, <3>1
    <3> QED  BY <3>2, <1>2 DEF Range, IsInjective
  <2>2. ASSUME NEW x \in Range(s) \ {Head(s)} PROVE x \in Range(Tail(s))
    <3>1. PICK i \in 1 .. Len(s) : s[i] = x  BY <1>2, <2>2 DEF Range
    <3>2. i # 1 /\ i - 1 \in 1 .. Len(Tail(s)) /\ Tail(s)[i - 1] = x  BY <1>1, <1>2, <3>1, <2>2
    <3> QED  BY <3>2, <1>2 DEF Range
  <2> QED  BY <2>1, <2>2
<1>4. Head(s) \in Range(s)
  BY <1>2 DEF Range
<1>5. IsInjective(Tail(s))
  BY <1>1, <1>2 DEF IsInjective
<1> QED  BY <1>1, <1>3, <1>4, <1>5

\* Adding an element that is not there yet.
LEMMA AppendLemma ==
    ASSUME NEW S, NEW s \in Seq(S), NEW e \in S
    PROVE  /\ Append(s, e) \in Seq(S) /\ Append(s, e) # <<>>
           /\ Range(Append(s, e)) = Range(s) \cup {e}
           /\ IsInjective(s) /\ e \notin Range(s) => IsInjective(Append(s, e))
<1>1. /\ Append(s, e) \in Seq(S) /\ Append(s, e) # <<>>
      /\ Len(Append(s, e)) = Len(s) + 1
      /\ \A i \in 1 .. Len(s) : Append(s, e)[i] = s[i]
      /\ Append(s, e)[Len(s) + 1] = e
  BY AppendProperties
<1>2. Len(s) \in Nat /\ DOMAIN s = 1 .. Len(s)
      /\ DOMAIN Append(s, e) = 1 .. Len(s) + 1
  BY <1>1, LenProperties
<1>3. Range(Append(s, e)) = Range(s) \cup {e}
  <2>1. Range(Append(s, e)) \subseteq Range(s) \cup {e}
    BY <1>1, <1>2 DEF Range
  <2>2. ASSUME NEW x \in Range(s) \cup {e} PROVE x \in Range(Append(s, e))
    <3>1. PICK i \in 1 .. Len(s) + 1 : Append(s, e)[i] = x  BY <1>1, <1>2, <2>2 DEF Range
    <3> QED  BY <3>1, <1>2 DEF Range
  <2> QED  BY <2>1, <2>2
<1>4. IsInjective(s) /\ e \notin Range(s) => IsInjective(Append(s, e))
  BY <1>1, <1>2 DEF IsInjective, Range
<1> QED  BY <1>1, <1>3, <1>4

\* Taking the k-th element out of a sequence without repetitions.
LEMMA RemoveAtLemma ==
    ASSUME NEW S, NEW s \in Seq(S), NEW e, IsInjective(s),
           NEW k \in 1 .. Len(s), s[k] = e
    PROVE  /\ RemoveFirst(s, e) \in Seq(S)
           /\ Len(RemoveFirst(s, e)) = Len(s) - 1
           /\ DOMAIN RemoveFirst(s, e) = 1 .. Len(s) - 1
           /\ \A i \in 1 .. Len(s) - 1 :
                 RemoveFirst(s, e)[i] = IF i < k THEN s[i] ELSE s[i + 1]
<1>00. Len(s) \in Nat
  BY LenProperties
<1>0. Len(s) \in Nat /\ DOMAIN s = 1 .. Len(s)
  BY LenProperties
<1>2. \A i \in 1 .. Len(s) : s[i] = e <=> i = k  BY <1>0 DEF IsInjective
<1>3. RemoveFirst(s, e) = SubSeq(s, 1, k - 1) \o SubSeq(s, k + 1, Len(s))
  <2>1. {i \in 1 .. Len(s) : s[i] = e} = {k}  BY <1>2
  <2>2. SelectInSeq(s, LAMBDA v : v = e) = k  BY <2>1, <1>0 DEF SelectInSeq, Min
  <2> QED  BY <2>2, <1>0 DEF RemoveFirst, RemoveAt
<1> DEFINE l == SubSeq(s, 1, k - 1)
           r == SubSeq(s, k + 1, Len(s))
           t == l \o r
<1>4. /\ l \in Seq(S) /\ Len(l) = k - 1
      /\ \A i \in 1 .. k - 1 : l[i] = s[i]
  BY SubSeqProperties, <1>0, ElementOfSeq
<1>5. /\ r \in Seq(S) /\ Len(r) = Len(s) - k
      /\ \A i \in 1 .. Len(s) - k : r[i] = s[k + i]
  <2>1. \A i \in k + 1 .. Len(s) : s[i] \in S  BY <1>0, ElementOfSeq
  <2>2. /\ r \in Seq(S)
        /\ Len(r) = IF k + 1 <= Len(s) THEN Len(s) - (k + 1) + 1 ELSE 0
        /\ \A i \in 1 .. Len(s) - (k + 1) + 1 : r[i] = s[k + 1 + i - 1]
    BY <2>1, SubSeqProperties, <1>0
  <2> HIDE DEF l, r, t
  <2>3. Len(s) - (k + 1) + 1 = Len(s) - k /\ Len(r) = Len(s) - k
    <3>1. Len(s) - (k + 1) + 1 = Len(s) - k  BY <1>0
    <3>2. CASE k # Len(s)
      <4>1. k + 1 <= Len(s)  BY <3>2, <1>00
      <4> QED  BY <3>1, <4>1, <2>2
    <3>3. CASE k = Len(s)
      <4>1. ~(k + 1 <= Len(s)) /\ Len(s) - k = 0  BY <3>3, <1>00
      <4>2. Len(r) = 0  BY <4>1, <2>2
      <4> QED  BY <3>1, <4>1, <4>2
    <3> QED  BY <3>2, <3>3
  <2>4. ASSUME NEW i \in 1 .. Len(s) - k PROVE r[i] = s[k + i]
    <3>1. k + 1 + i - 1 = k + i  BY <1>0
    <3> QED  BY <2>2, <2>3, <3>1
  <2> QED  BY <2>2, <2>3, <2>4
<1>6. /\ t \in Seq(S) /\ Len(t) = Len(s) - 1 /\ DOMAIN t = 1 .. Len(s) - 1
      /\ \A i \in 1 .. Len(s) - 1 : t[i] = IF i < k THEN s[i] ELSE s[i + 1]
  <2>1. /\ t \in Seq(S) /\ Len(t) = Len(l) + Len(r)
        /\ \A i \in 1 .. Len(l) + Len(r) : t[i] = IF i <= Len(l) THEN l[i] ELSE r[i - Len(l)]
    BY <1>4, <1>5, ConcatProperties
  <2>2. DOMAIN t = 1 .. Len(t)  BY <2>1, LenProperties
  <2> HIDE DEF l, r, t
  <2>3. Len(t) = Len(s) - 1 /\ Len(l) + Len(r) = Len(s) - 1
    BY <2>1, <1>4, <1>5, <1>0
  <2>4. ASSUME NEW i \in 1 .. Len(s) - 1
        PROVE  t[i] = IF i < k THEN s[i] ELSE s[i + 1]
    <3>1. t[i] = IF i <= k - 1 THEN l[i] ELSE r[i - (k - 1)]
      BY <2>1, <2>3, <1>4
    <3>2. CASE i < k
      BY <3>1, <3>2, <1>4, <1>0
    <3>3. CASE ~(i < k)
      <4>1. i - (k - 1) \in 1 .. Len(s) - k /\ k + (i - (k - 1)) = i + 1
        BY <3>3, <1>0
      <4> QED  BY <3>1, <3>3, <4>1, <1>5, <1>0
    <3> QED  BY <3>2, <3>3
  <2> QED  BY <2>1, <2>2, <2>3, <2>4
<1> HIDE DEF l, r, t
<1> QED  BY <1>3, <1>6 DEF t, l, r

\* Taking an element out of the middle.
LEMMA RemoveLemma ==
    ASSUME NEW S, NEW s \in Seq(S), NEW e, IsInjective(s)
    PROVE  /\ RemoveFirst(s, e) \in Seq(S)
           /\ Range(RemoveFirst(s, e)) = Range(s) \ {e}
           /\ IsInjective(RemoveFirst(s, e))
           /\ s # <<>> /\ Head(s) # e => Head(RemoveFirst(s, e)) = Head(s)
<1>00. Len(s) \in Nat
  BY LenProperties
<1>0. Len(s) \in Nat /\ DOMAIN s = 1 .. Len(s)
  BY LenProperties
<1>1. CASE ~ \E i \in 1 .. Len(s) : s[i] = e
  BY <1>0, <1>1 DEF RemoveFirst, Range
<1>2. CASE \E i \in 1 .. Len(s) : s[i] = e
  <2>1. PICK k \in 1 .. Len(s) : s[k] = e  BY <1>2
  <2> DEFINE t == RemoveFirst(s, e)
  <2>2. \A i \in 1 .. Len(s) : s[i] = e <=> i = k  BY <2>1, <1>0 DEF IsInjective
  <2>6. /\ t \in Seq(S) /\ Len(t) = Len(s) - 1 /\ DOMAIN t = 1 .. Len(s) - 1
        /\ \A i \in 1 .. Len(s) - 1 : t[i] = IF i < k THEN s[i] ELSE s[i + 1]
    BY <2>1, RemoveAtLemma
  <2> HIDE DEF t
  <2>7. Range(t) = Range(s) \ {e}
    <3>1. ASSUME NEW x \in Range(t) PROVE x \in Range(s) \ {e}
      BY <2>6, <2>2, <1>0, <3>1 DEF Range
    <3>2. ASSUME NEW x \in Range(s) \ {e} PROVE x \in Range(t)
      <4>1. PICK i \in 1 .. Len(s) : s[i] = x /\ i # k  BY <1>0, <2>2, <3>2 DEF Range
      <4>2. CASE i < k  BY <4>1, <4>2, <2>6, <1>0 DEF Range
      <4>3. CASE i > k
        <5>1. i - 1 \in 1 .. Len(s) - 1 /\ t[i - 1] = x  BY <4>1, <4>3, <2>6, <1>0
        <5> QED  BY <5>1, <2>6 DEF Range
      <4> QED  BY <4>1, <4>2, <4>3, <1>0
    <3> QED  BY <3>1, <3>2
  <2>8. IsInjective(t)
    <3> DEFINE at(i) == IF i < k THEN i ELSE i + 1
    <3>1. \A i \in 1 .. Len(s) - 1 : at(i) \in 1 .. Len(s) /\ t[i] = s[at(i)]
      BY <2>6, <1>0
    <3>2. \A i, j \in 1 .. Len(s) - 1 : at(i) = at(j) => i = j
      BY <1>0
    <3> QED  BY <3>1, <3>2, <2>6, <1>0 DEF IsInjective
  <2>9. s # <<>> /\ Head(s) # e => Head(t) = Head(s)
    <3> SUFFICES ASSUME s # <<>>, Head(s) # e PROVE Head(t) = Head(s)
      OBVIOUS
    <3>1. Head(s) = s[1] /\ k # 1  BY <2>1, <1>00
    <3>2. k > 1 /\ 1 \in 1 .. Len(s) - 1  BY <3>1, <1>00
    <3>3. t[1] = s[1] /\ Len(t) # 0  BY <2>6, <3>2, <1>00
    <3>4. t # <<>>  BY <3>3, EmptySeq
    <3>5. Head(t) = t[1]  BY <2>6, <3>4
    <3> QED  BY <3>1, <3>3, <3>5
  <2> QED  BY <2>6, <2>7, <2>8, <2>9 DEF t
<1> QED  BY <1>1, <1>2

-----------------------------------------------------------------------------

\* WellFormed without work conservation, which fails in the middle of a
\* handler.
Partitioned(q) == q \in QueueState /\ Disjoint(q) /\ NoRepeats(q)

SameMembers(q, r) ==
    Range(r.wait) = Range(q.wait) /\ Runnable(r) = Runnable(q)

LEMMA Fields ==
    ASSUME NEW q \in QueueState
    PROVE  /\ q.ready \in Seq(Procs) /\ q.pause \in Seq(Procs)
           /\ q.wait \in Seq(Procs) /\ q.ticks \in [Procs -> Int]
           /\ Idle(q) => Range(q.ready) = {}
           /\ Range(q.ready) \subseteq Procs /\ Range(q.pause) \subseteq Procs
           /\ Range(q.wait) \subseteq Procs
<1>1. /\ q.ready \in Seq(Procs) /\ q.pause \in Seq(Procs)
      /\ q.wait \in Seq(Procs) /\ q.ticks \in [Procs -> Int]
  BY DEF QueueState
<1>2. Idle(q) => Range(q.ready) = {}
  BY EmptySeq, LenProperties DEF Idle, Range
<1>3. \A s \in Seq(Procs) : Range(s) \subseteq Procs
  BY RangeOfSeq
<1> QED  BY <1>1, <1>2, <1>3

\* The running process goes to the end of the pause queue.
LEMMA ParkLemma ==
    ASSUME NEW q, Partitioned(q), ~Idle(q)
    PROVE  /\ Partitioned(Park(q)) /\ SameMembers(q, Park(q))
           /\ Park(q).ready = Tail(q.ready) /\ Park(q).ticks = q.ticks
<1>1. q \in QueueState /\ q.ready # <<>>
  BY DEF Partitioned, Idle
<1> DEFINE c == Current(q)
           t == Tail(q.ready)
           z == Append(q.pause, c)
<1>2. /\ t \in Seq(Procs) /\ c \in Procs /\ Range(t) = Range(q.ready) \ {c}
      /\ c \in Range(q.ready) /\ IsInjective(t)
  BY <1>1, Fields, TailLemma DEF Partitioned, NoRepeats, Current
<1>3. z \in Seq(Procs) /\ Range(z) = Range(q.pause) \cup {c} /\ IsInjective(z)
  BY <1>1, <1>2, Fields, AppendLemma DEF Partitioned, Disjoint, NoRepeats
<1>4. /\ Park(q).ready = t /\ Park(q).pause = z /\ Park(q).wait = q.wait
      /\ Park(q).ticks = q.ticks /\ Park(q) \in QueueState
  BY <1>1, <1>2, <1>3 DEF Park, QueueState
<1> HIDE DEF c, t, z
<1>5. Disjoint(Park(q)) /\ NoRepeats(Park(q)) /\ SameMembers(q, Park(q))
  BY <1>2, <1>3, <1>4 DEF Partitioned, Disjoint, NoRepeats, SameMembers, Runnable
<1> QED  BY <1>4, <1>5 DEF Partitioned, t

\* The pause queue becomes the ready queue.
LEMMA RefillLemma ==
    ASSUME NEW q, Partitioned(q), Idle(q)
    PROVE  /\ Partitioned(Refill(q)) /\ SameMembers(q, Refill(q))
           /\ WorkConserving(Refill(q))
<1>1. q \in QueueState /\ q.ready = <<>>
  BY DEF Partitioned, Idle
<1>2. /\ Refill(q).ready = q.pause /\ Refill(q).pause = q.ready
      /\ Refill(q).wait = q.wait /\ Refill(q) \in QueueState
  <2> DEFINE f == [p \in Procs |-> IF p \in Range(q.pause) THEN Priority[p] ELSE q.ticks[p]]
  <2>1. f \in [Procs -> Int]  BY <1>1, Fields, PriorityAssumption
  <2>2. Refill(q) = [q EXCEPT !.ready = q.pause, !.pause = <<>>, !.ticks = f]
    BY DEF Refill
  <2> HIDE DEF f
  <2> QED  BY <1>1, <2>1, <2>2 DEF QueueState
<1>3. Disjoint(Refill(q)) /\ NoRepeats(Refill(q)) /\ SameMembers(q, Refill(q))
  BY <1>2 DEF Partitioned, Disjoint, NoRepeats, SameMembers, Runnable
<1> QED  BY <1>1, <1>2, <1>3 DEF Partitioned, WorkConserving

\* schedule() reorders the runnable processes, and never idles in vain.
LEMMA ScheduleLemma ==
    ASSUME NEW q, Partitioned(q)
    PROVE  /\ Partitioned(Schedule(q)) /\ SameMembers(q, Schedule(q))
           /\ WorkConserving(Schedule(q))
<1>1. CASE Idle(q)
  BY <1>1, RefillLemma DEF Schedule, SameMembers, WorkConserving
<1>2. CASE ~Idle(q)
  <2>1. q.ready \in Seq(Procs) /\ q.ready # <<>>
    BY <1>2, Fields DEF Partitioned, Idle
  <2>2. /\ Len(q.ready) \in Nat \ {0} /\ Tail(q.ready) \in Seq(Procs)
        /\ Len(Tail(q.ready)) = Len(q.ready) - 1
    BY <2>1, EmptySeq, HeadTailProperties
  <2>3. Tail(q.ready) = <<>> <=> Len(q.ready) = 1
    <3>1. Len(<<>>) = 0 /\ (Tail(q.ready) # <<>> => Len(Tail(q.ready)) # 0)
      BY <2>2, EmptySeq
    <3>2. Tail(q.ready) = <<>> <=> Len(Tail(q.ready)) = 0
      BY <3>1
    <3> QED  BY <2>2, <3>2
  <2>4. CASE Len(q.ready) = 1
    BY <1>2, <2>3, <2>4, ParkLemma, RefillLemma DEF Schedule, SameMembers, Idle
  <2>5. CASE Len(q.ready) # 1
    BY <1>2, <2>3, <2>5, ParkLemma DEF Schedule, WorkConserving, Idle
  <2> QED  BY <2>4, <2>5
<1> QED  BY <1>1, <1>2

\* block() moves the running process to the wait queue, and only that one.
LEMMA BlockLemma ==
    ASSUME NEW q, WellFormed(q), ~Idle(q)
    PROVE  /\ WellFormed(Block(q))
           /\ Range(Block(q).wait) = Range(q.wait) \cup {Current(q)}
           /\ Runnable(Block(q)) = Runnable(q) \ {Current(q)}
           /\ Current(q) \in Procs /\ Current(q) \in Runnable(q)
<1> DEFINE c == Current(q)
           t == Tail(q.ready)
           z == Append(q.wait, c)
           b == [q EXCEPT !.ready = t, !.wait = z]
<1>1. q \in QueueState /\ q.ready # <<>>
  BY DEF WellFormed, Idle
<1>2. /\ t \in Seq(Procs) /\ c \in Procs /\ Range(t) = Range(q.ready) \ {c}
      /\ c \in Range(q.ready) /\ IsInjective(t)
  BY <1>1, Fields, TailLemma DEF WellFormed, NoRepeats, Current
<1>3. z \in Seq(Procs) /\ Range(z) = Range(q.wait) \cup {c} /\ IsInjective(z)
  BY <1>1, <1>2, Fields, AppendLemma DEF WellFormed, Disjoint, NoRepeats
<1>4. b.ready = t /\ b.pause = q.pause /\ b.wait = z /\ b \in QueueState
  BY <1>1, <1>2, <1>3 DEF QueueState
<1>5. Block(q) = IF Idle(b) THEN Schedule(b) ELSE b
  BY DEF Block
<1> HIDE DEF c, t, z, b
<1>6. Disjoint(b) /\ NoRepeats(b) /\ Range(b.wait) = Range(q.wait) \cup {c}
      /\ Runnable(b) = Runnable(q) \ {c} /\ c \in Runnable(q)
  BY <1>2, <1>3, <1>4 DEF WellFormed, Disjoint, NoRepeats, Runnable
<1>7. Partitioned(b)
  BY <1>4, <1>6 DEF Partitioned
<1>8. CASE Idle(b)
  BY <1>2, <1>5, <1>6, <1>7, <1>8, ScheduleLemma DEF Partitioned, WellFormed, SameMembers, c
<1>9. CASE ~Idle(b)
  BY <1>2, <1>5, <1>6, <1>7, <1>9 DEF Partitioned, WellFormed, WorkConserving, c
<1> QED  BY <1>8, <1>9

\* unblock() moves one waiting process to the pause queue.
LEMMA UnblockLemma ==
    ASSUME NEW q, Partitioned(q), NEW p \in Range(q.wait)
    PROVE  /\ Partitioned(Unblock(q, p))
           /\ Range(Unblock(q, p).wait) = Range(q.wait) \ {p}
           /\ Runnable(Unblock(q, p)) = Runnable(q) \cup {p}
           /\ Unblock(q, p).ready = q.ready /\ p \in Procs
<1> DEFINE w == RemoveFirst(q.wait, p)
           z == Append(q.pause, p)
<1>1. q \in QueueState /\ p \in Procs
  BY Fields DEF Partitioned
<1>2. w \in Seq(Procs) /\ Range(w) = Range(q.wait) \ {p} /\ IsInjective(w)
  BY <1>1, Fields, RemoveLemma DEF Partitioned, NoRepeats
<1>3. z \in Seq(Procs) /\ Range(z) = Range(q.pause) \cup {p} /\ IsInjective(z)
  BY <1>1, Fields, AppendLemma DEF Partitioned, Disjoint, NoRepeats
<1>4. /\ Unblock(q, p).ready = q.ready /\ Unblock(q, p).pause = z
      /\ Unblock(q, p).wait = w /\ Unblock(q, p) \in QueueState
  BY <1>1, <1>2, <1>3 DEF Unblock, QueueState
<1> HIDE DEF w, z
<1> QED  BY <1>1, <1>2, <1>3, <1>4 DEF Partitioned, Disjoint, NoRepeats, Runnable

\* The same from a process that runs, and from an interrupt handler.
LEMMA WakeLemma ==
    ASSUME NEW q, WellFormed(q), NEW p \in Range(q.wait)
    PROVE  /\ WellFormed(Wake(q, p))
           /\ Range(Wake(q, p).wait) = Range(q.wait) \ {p}
           /\ Runnable(Wake(q, p)) = Runnable(q) \cup {p}
           /\ ~Idle(q) => WellFormed(Unblock(q, p))
           /\ p \in Procs
<1> DEFINE u == Unblock(q, p)
<1>1. Partitioned(q)
  BY DEF Partitioned, WellFormed
<1>2. /\ Partitioned(u) /\ Range(u.wait) = Range(q.wait) \ {p}
      /\ Runnable(u) = Runnable(q) \cup {p} /\ u.ready = q.ready /\ p \in Procs
  BY <1>1, UnblockLemma
<1>3. Wake(q, p) = IF Idle(u) THEN Schedule(u) ELSE u
  BY DEF Wake
<1> HIDE DEF u
<1>4. ~Idle(q) => WellFormed(u)
  BY <1>2 DEF Idle, WellFormed, Partitioned, WorkConserving
<1>5. CASE Idle(u)
  BY <1>2, <1>3, <1>4, <1>5, ScheduleLemma DEF Partitioned, WellFormed, SameMembers, u
<1>6. CASE ~Idle(u)
  BY <1>2, <1>3, <1>4, <1>6 DEF Partitioned, WellFormed, Idle, WorkConserving, u
<1> QED  BY <1>5, <1>6

\* A clock tick charges the running process ...
LEMMA ChargeLemma ==
    ASSUME NEW q, WellFormed(q)
    PROVE  /\ WellFormed(Charge(q)) /\ Charge(q).wait = q.wait
           /\ Charge(q).ready = q.ready /\ Runnable(Charge(q)) = Runnable(q)
<1>1. q \in QueueState
  BY DEF WellFormed
<1>2. CASE Idle(q)
  BY <1>2 DEF Charge
<1>3. CASE ~Idle(q)
  <2>1. q.ticks \in [Procs -> Int] /\ Current(q) \in Procs
    BY <1>1, <1>3, Fields, HeadTailProperties DEF Current, Idle
  <2> DEFINE f == [q.ticks EXCEPT ![Current(q)] = @ - 1]
  <2>2. f \in [Procs -> Int]  BY <2>1
  <2>3. Charge(q) = [q EXCEPT !.ticks = f]
    BY <1>1, <1>3 DEF Charge, QueueState
  <2> HIDE DEF f
  <2>4. /\ Charge(q).ready = q.ready /\ Charge(q).pause = q.pause
        /\ Charge(q).wait = q.wait /\ Charge(q) \in QueueState
    BY <1>1, <2>2, <2>3 DEF QueueState
  <2> QED  BY <2>4 DEF WellFormed, Disjoint, NoRepeats, WorkConserving, Idle, Runnable
<1> QED  BY <1>2, <1>3

\* ... and the end of the clock handler may take the processor from it.
LEMMA ExpireLemma ==
    ASSUME NEW q, WellFormed(q)
    PROVE  /\ WellFormed(Expire(q)) /\ Range(Expire(q).wait) = Range(q.wait)
           /\ Runnable(Expire(q)) = Runnable(q)
BY ScheduleLemma DEF Expire, WellFormed, Partitioned, SameMembers

\* shedule_pcb() adds a process that was in no queue; the one that called it
\* is still running.
LEMMA EnqueueLemma ==
    ASSUME NEW q, WellFormed(q), ~Idle(q), NEW p \in Procs, p \notin Queued(q)
    PROVE  /\ WellFormed(Enqueue(q, p)) /\ Enqueue(q, p).wait = q.wait
           /\ Runnable(Enqueue(q, p)) = Runnable(q) \cup {p}
<1> DEFINE z == Append(q.pause, p)
           f == [q.ticks EXCEPT ![p] = Priority[p]]
<1>1. q \in QueueState
  BY DEF WellFormed
<1>2. z \in Seq(Procs) /\ Range(z) = Range(q.pause) \cup {p} /\ IsInjective(z)
  BY <1>1, Fields, AppendLemma DEF WellFormed, NoRepeats, Queued, Runnable
<1>3. f \in [Procs -> Int]
  BY <1>1, Fields, PriorityAssumption
<1>4. Enqueue(q, p) = [q EXCEPT !.pause = z, !.ticks = f]
  BY <1>1 DEF Enqueue, QueueState
<1> HIDE DEF z, f
<1>5. /\ Enqueue(q, p).ready = q.ready /\ Enqueue(q, p).pause = z
      /\ Enqueue(q, p).wait = q.wait /\ Enqueue(q, p) \in QueueState
  BY <1>1, <1>2, <1>3, <1>4 DEF QueueState
<1> QED
  BY <1>2, <1>5 DEF WellFormed, Disjoint, NoRepeats, Queued, Runnable, WorkConserving, Idle

\* free_pcb(), never of the running process.
LEMMA DequeueLemma ==
    ASSUME NEW q, WellFormed(q), ~Idle(q), NEW p, p # Current(q)
    PROVE  /\ WellFormed(Dequeue(q, p))
           /\ Queued(Dequeue(q, p)) = Queued(q) \ {p}
<1> DEFINE r == RemoveFirst(q.ready, p)
           z == RemoveFirst(q.pause, p)
           w == RemoveFirst(q.wait, p)
<1>1. q \in QueueState
  BY DEF WellFormed
<1>2. r \in Seq(Procs) /\ Range(r) = Range(q.ready) \ {p} /\ IsInjective(r)
  BY <1>1, Fields, RemoveLemma DEF WellFormed, NoRepeats
<1>3. z \in Seq(Procs) /\ Range(z) = Range(q.pause) \ {p} /\ IsInjective(z)
  BY <1>1, Fields, RemoveLemma DEF WellFormed, NoRepeats
<1>4. w \in Seq(Procs) /\ Range(w) = Range(q.wait) \ {p} /\ IsInjective(w)
  BY <1>1, Fields, RemoveLemma DEF WellFormed, NoRepeats
<1>5. Current(q) \in Range(q.ready)
  BY <1>1, Fields, TailLemma DEF Current, Idle, WellFormed, NoRepeats
<1>6. /\ Dequeue(q, p).ready = r /\ Dequeue(q, p).pause = z
      /\ Dequeue(q, p).wait = w /\ Dequeue(q, p) \in QueueState
  BY <1>1, <1>2, <1>3, <1>4 DEF Dequeue, QueueState
<1> HIDE DEF r, z, w
<1>7. r # <<>>
  BY <1>2, <1>5, EmptySeq, LenProperties DEF Range
<1> QED
  BY <1>2, <1>3, <1>4, <1>6, <1>7
  DEF WellFormed, Disjoint, NoRepeats, Queued, Runnable, WorkConserving, Idle

-----------------------------------------------------------------------------
(* The linked lists.                                                       *)

\* The node at position i of the list of c.
Nth(c, i, sentinel) == IF i <= Len(c) THEN c[i] ELSE sentinel

\* From first, next_pcb spells c and ends at the sentinel, and pre_pcb spells
\* it backwards; what the sentinel of an empty list and a first node point
\* back at is stale.
Linked(l, c, first, sentinel) ==
    /\ first = Nth(c, 1, sentinel)
    /\ \A i \in 1 .. Len(c) : l.next[c[i]] = Nth(c, i + 1, sentinel)
    /\ \A i \in 1 .. Len(c) - 1 : l.pre[c[i + 1]] = c[i]
    /\ c # <<>> => l.pre[sentinel] = c[Len(c)]

\* The empty task is not in the list.
FirstReady(l) == IF EmptyRuns(l) THEN ReadyTail ELSE l.ready

Apart(r, z, w) ==
    /\ r \in Seq(Procs) /\ z \in Seq(Procs) /\ w \in Seq(Procs)
    /\ IsInjective(r) /\ IsInjective(z) /\ IsInjective(w)
    /\ Range(r) \cap Range(z) = {} /\ Range(r) \cap Range(w) = {}
    /\ Range(z) \cap Range(w) = {}

Lists(l, r, z, w) ==
    /\ l \in ListState /\ Apart(r, z, w)
    /\ Linked(l, r, FirstReady(l), ReadyTail)
    /\ Linked(l, z, l.pause, PauseTail)
    /\ Linked(l, w, l.wait, WaitTail)

\* The lists of l are the queues of q ...
Spells(l, q) ==
    q \in QueueState /\ Lists(l, q.ready, q.pause, q.wait) /\ l.ticks = q.ticks

\* ... and the functions of the kernel have done their work: if nothing is
\* ready, nothing can run and the empty task does.
Settled(l, q) ==
    Spells(l, q) /\ WorkConserving(q) /\ (Idle(q) => EmptyRuns(l))

-----------------------------------------------------------------------------
(* Sequences of PCBs.                                                      *)

LEMMA SeqFacts ==
    ASSUME NEW c \in Seq(Procs)
    PROVE  /\ Len(c) \in Nat /\ DOMAIN c = 1 .. Len(c)
           /\ c = [i \in 1 .. Len(c) |-> c[i]]
           /\ \A i \in 1 .. Len(c) : c[i] \in Procs /\ c[i] \in Range(c)
           /\ c = <<>> <=> Len(c) = 0
           /\ c # <<>> => Len(c) \in Nat \ {0}
           /\ Range(c) \subseteq Procs
<1>1. Len(c) \in Nat /\ DOMAIN c = 1 .. Len(c) /\ c = [i \in 1 .. Len(c) |-> c[i]]
  BY LenProperties
<1>2. \A i \in 1 .. Len(c) : c[i] \in Procs
  BY ElementOfSeq
<1>3. c = <<>> <=> Len(c) = 0
  BY EmptySeq
<1> QED  BY <1>1, <1>2, <1>3 DEF Range

\* No more PCBs than the table has.
LEMMA NoLonger ==
    ASSUME NEW c \in Seq(Procs), IsInjective(c)
    PROVE  Cardinality(Procs) \in Nat /\ Len(c) <= Cardinality(Procs)
<1>1. /\ Len(c) \in Nat /\ DOMAIN c = 1 .. Len(c)
      /\ c = [i \in 1 .. Len(c) |-> c[i]]
      /\ \A i \in 1 .. Len(c) : c[i] \in Procs
  BY SeqFacts
<1>2. c \in Injection(1 .. Len(c), Procs)
  BY <1>1 DEF IsInjective, Injection
<1>3. IsFiniteSet(1 .. Len(c)) /\ Cardinality(1 .. Len(c)) = Len(c)
  <2>1. Cardinality(1 .. Len(c)) = IF 1 > Len(c) THEN 0 ELSE Len(c) - 1 + 1
    BY <1>1, FS_Interval
  <2> QED  BY <1>1, <2>1, FS_Interval
<1>4. IsFiniteSet(Procs)
  BY LinksAssumption
<1> QED  BY <1>2, <1>3, <1>4, FS_CardinalityType, FS_Injection

\* The nodes of a list are PCBs or the sentinel.
LEMMA NthFacts ==
    ASSUME NEW c \in Seq(Procs), NEW sent
    PROVE  /\ \A i \in Nat \ {0} : Nth(c, i, sent) \in Procs \cup {sent}
           /\ Nth(c, 1, sent) = IF c = <<>> THEN sent ELSE Head(c)
BY SeqFacts, HeadTailProperties DEF Nth

-----------------------------------------------------------------------------
(* Reading a list back.                                                    *)

LEMMA ChainIs ==
    ASSUME NEW l \in ListState, NEW c \in Seq(Procs), IsInjective(c),
           NEW first, NEW sent \in Sentinels,
           Linked(l, c, first, sent)
    PROVE  Chain(l, first, sent) = c /\ OnChain(l, first, sent) = Range(c)
<1> DEFINE N == Cardinality(Procs)
           S == Nodes \cup {Null}
           after == [x \in S |-> IF x \in Nodes THEN l.next[x] ELSE Null]
           Hops(g) == [n \in 0 .. N |-> IF n = 0 THEN first ELSE after[g[n - 1]]]
           hop == CHOOSE g : g = Hops(g)
<1>1. N \in Nat /\ Len(c) \in Nat /\ Len(c) <= N
  BY NoLonger, SeqFacts
<1>2. after \in [S -> S] /\ first \in S
  <2>1. after \in [S -> S]
    BY DEF ListState
  <2>2. first \in S
    BY NthFacts DEF Linked, Nodes
  <2> QED  BY <2>1, <2>2
<1>3. PICK g : IsOrbit(g, S, after, first, N)
  <2> HIDE DEF after, S, N
  <2> QED  BY <1>1, <1>2, Orbit, LinksAssumption
<1>4. g = Hops(g)
  <2> HIDE DEF after, S, N
  <2>1. \A n \in 0 .. N : g[n] = IF n = 0 THEN first ELSE after[g[n - 1]]
    BY <1>1, <1>3 DEF IsOrbit
  <2> QED  BY <1>3, <2>1 DEF IsOrbit
<1>5. hop = Hops(hop)
  <2> HIDE DEF Hops
  <2> QED  BY <1>4
<1>6. /\ DOMAIN hop = 0 .. N /\ hop[0] = first
      /\ \A n \in 1 .. N : hop[n] = after[hop[n - 1]]
  <2> HIDE DEF hop, after, N
  <2>1. DOMAIN hop = 0 .. N
    BY <1>5
  <2>2. \A n \in 0 .. N : hop[n] = Hops(hop)[n]
    BY <1>5
  <2> QED  BY <1>1, <2>1, <2>2
<1> DEFINE ends == {n \in DOMAIN hop : hop[n] = sent}
           end == CHOOSE n \in ends : \A m \in ends : n <= m
<1>7. Chain(l, first, sent) = IF ends = {} THEN <<Null>> ELSE [i \in 1 .. end |-> hop[i - 1]]
  BY DEF Chain
<1> HIDE DEF hop, Hops
<1>8. \A n \in 0 .. Len(c) : hop[n] = Nth(c, n + 1, sent)
  <2> DEFINE T == {n \in 0 .. Len(c) : hop[n] # Nth(c, n + 1, sent)}
  <2>1. SUFFICES ASSUME T # {} PROVE FALSE
    OBVIOUS
  <2>2. T \in SUBSET Nat
    BY <1>1
  <2>3. PICK n \in T : \A m \in T : n <= m
    <3> HIDE DEF T
    <3> QED  BY <2>1, <2>2, LeastNumber, LinksAssumption
  <2> HIDE DEF N, after
  <2>4. n \in 0 .. Len(c) /\ hop[n] # Nth(c, n + 1, sent) /\ n # 0
    BY <1>1, <1>6, <2>3 DEF Linked
  <2>5. n - 1 \in 0 .. Len(c) /\ ~ (n <= n - 1) /\ n \in 1 .. N /\ n \in 1 .. Len(c)
        /\ n - 1 + 1 = n
    BY <1>1, <2>4
  <2>6. hop[n - 1] = Nth(c, n, sent)
    BY <2>3, <2>5
  <2>7. Nth(c, n, sent) = c[n]
    BY <2>5 DEF Nth
  <2>8. c[n] \in Nodes
    BY <2>5, SeqFacts DEF Nodes
  <2>9. hop[n] = l.next[c[n]]
    BY <1>6, <2>5, <2>6, <2>7, <2>8 DEF after
  <2> QED  BY <2>4, <2>5, <2>9 DEF Linked
<1>9. \A n \in 0 .. Len(c) : hop[n] = sent <=> n = Len(c)
  <2>1. sent \notin Procs
    BY LinksAssumption
  <2>2. \A i \in 1 .. Len(c) : c[i] \in Procs
    BY SeqFacts
  <2> HIDE DEF N
  <2> QED  BY <1>1, <1>8, <2>1, <2>2 DEF Nth
<1>10. Len(c) \in ends /\ \A n \in ends : Len(c) <= n
  <2> HIDE DEF N
  <2> QED  BY <1>1, <1>6, <1>9
<1>11. end = Len(c) /\ ends # {}
  <2>1. ends \subseteq Nat
    <3> HIDE DEF N
    <3> QED  BY <1>1, <1>6
  <2> HIDE DEF ends
  <2>2. end \in ends /\ \A m \in ends : end <= m
    BY <1>10
  <2>3. end \in Nat /\ end <= Len(c) /\ Len(c) <= end
    BY <1>10, <2>1, <2>2
  <2> HIDE DEF end
  <2> QED  BY <1>1, <1>10, <2>3
<1>12. Chain(l, first, sent) = [i \in 1 .. Len(c) |-> hop[i - 1]]
  <2> HIDE DEF ends, end
  <2> QED  BY <1>7, <1>11
<1>13. \A i \in 1 .. Len(c) : hop[i - 1] = c[i]
  <2> HIDE DEF N
  <2>1. ASSUME NEW i \in 1 .. Len(c) PROVE hop[i - 1] = c[i]
    <3>1. i - 1 \in 0 .. Len(c) /\ i - 1 + 1 = i
      BY <1>1
    <3> QED  BY <1>8, <3>1 DEF Nth
  <2> QED  BY <2>1
<1>14. Chain(l, first, sent) = c
  BY <1>12, <1>13, SeqFacts
<1> QED  BY <1>14 DEF OnChain, Range

-----------------------------------------------------------------------------
(* What relinking does to one list.                                        *)

\* A list whose links are not touched stays as it is.
LEMMA LinkedKept ==
    ASSUME NEW l, NEW l1, NEW c \in Seq(Procs), NEW first, NEW sent,
           Linked(l, c, first, sent),
           \A x \in Range(c) : l1.next[x] = l.next[x] /\ l1.pre[x] = l.pre[x],
           l1.pre[sent] = l.pre[sent]
    PROVE  Linked(l1, c, first, sent)
<1>1. Len(c) \in Nat /\ \A i \in 1 .. Len(c) : c[i] \in Range(c)
  BY SeqFacts
<1>2. \A i \in 1 .. Len(c) : l1.next[c[i]] = Nth(c, i + 1, sent)
  BY <1>1 DEF Linked
<1>3. ASSUME NEW i \in 1 .. Len(c) - 1 PROVE l1.pre[c[i + 1]] = c[i]
  <2>1. i + 1 \in 1 .. Len(c)
    BY <1>1
  <2> QED  BY <1>1, <2>1 DEF Linked
<1> QED  BY <1>2, <1>3 DEF Linked

LEMMA LinkedSame ==
    ASSUME NEW l, NEW l1, NEW c, NEW first, NEW sent, Linked(l, c, first, sent),
           l1.next = l.next, l1.pre = l.pre
    PROVE  Linked(l1, c, first, sent)
BY DEF Linked

\* Without its first node.
LEMMA LinkedTail ==
    ASSUME NEW l, NEW c \in Seq(Procs), c # <<>>, NEW first, NEW sent,
           Linked(l, c, first, sent)
    PROVE  /\ first = Head(c) /\ Linked(l, Tail(c), l.next[first], sent)
           /\ Tail(c) = <<>> <=> Len(c) = 1
           /\ sent \notin Procs => (Tail(c) = <<>> <=> l.next[first] = sent)
<1> DEFINE t == Tail(c)
<1>1. Len(c) \in Nat \ {0} /\ Head(c) = c[1]
  BY SeqFacts
<1>2. /\ t \in Seq(Procs) /\ Len(t) = Len(c) - 1
      /\ \A i \in 1 .. Len(t) : t[i] = c[i + 1]
  BY HeadTailProperties
<1>3. t = <<>> <=> Len(t) = 0
  BY <1>2, SeqFacts
<1> HIDE DEF t
<1>4. first = c[1]
  BY <1>1 DEF Linked, Nth
<1>5. \A i \in 1 .. Len(c) : Nth(t, i, sent) = Nth(c, i + 1, sent)
  <2>1. ASSUME NEW i \in 1 .. Len(c) PROVE Nth(t, i, sent) = Nth(c, i + 1, sent)
    <3>1. i <= Len(t) <=> i + 1 <= Len(c)
      BY <1>1, <1>2
    <3>2. i <= Len(t) => i \in 1 .. Len(t)
      BY <1>1, <1>2
    <3> QED  BY <1>2, <3>1, <3>2 DEF Nth
  <2> QED  BY <2>1
<1>6. l.next[first] = Nth(t, 1, sent)
  <2>1. 1 \in 1 .. Len(c)
    BY <1>1
  <2> QED  BY <1>4, <1>5, <2>1 DEF Linked
<1>7. ASSUME NEW i \in 1 .. Len(t) PROVE l.next[t[i]] = Nth(t, i + 1, sent)
  <2>1. i + 1 \in 1 .. Len(c)
    BY <1>1, <1>2
  <2> QED  BY <1>2, <1>5, <2>1 DEF Linked
<1>8. ASSUME NEW i \in 1 .. Len(t) - 1 PROVE l.pre[t[i + 1]] = t[i]
  <2> DEFINE j == i + 1
  <2>1. j \in 1 .. Len(c) - 1 /\ j \in 1 .. Len(t) /\ i \in 1 .. Len(t)
    BY <1>1, <1>2
  <2>2. t[i] = c[j] /\ t[j] = c[j + 1]
    <3> HIDE DEF j
    <3>1. t[j] = c[j + 1]
      BY <1>2, <2>1
    <3> QED  BY <1>2, <2>1, <3>1 DEF j
  <2> HIDE DEF j
  <2>3. l.pre[t[j]] = t[i]
    BY <2>1, <2>2 DEF Linked
  <2> QED  BY <2>3 DEF j
<1>9. t # <<>> => l.pre[sent] = t[Len(t)]
  <2> SUFFICES ASSUME t # <<>> PROVE l.pre[sent] = t[Len(t)]
    OBVIOUS
  <2>1. Len(t) \in 1 .. Len(t) /\ Len(t) + 1 = Len(c) /\ c # <<>>
    BY <1>1, <1>2, <1>3
  <2>2. t[Len(t)] = c[Len(c)]
    BY <1>2, <2>1
  <2> QED  BY <2>1, <2>2 DEF Linked
<1>10. Linked(l, t, l.next[first], sent)
  BY <1>6, <1>7, <1>8, <1>9 DEF Linked
<1>11. Len(t) = 0 <=> Len(c) = 1
  BY <1>1, <1>2
<1>12. t = <<>> => l.next[first] = sent
  BY <1>6, <1>3 DEF Nth
<1>13. sent \notin Procs /\ l.next[first] = sent => t = <<>>
  <2> SUFFICES ASSUME sent \notin Procs, t # <<>> PROVE l.next[first] # sent
    OBVIOUS
  <2>1. t[1] \in Procs /\ 1 <= Len(t)
    BY <1>2, SeqFacts
  <2> QED  BY <1>6, <2>1 DEF Nth
<1> QED  BY <1>1, <1>3, <1>4, <1>10, <1>11, <1>12, <1>13 DEF t

\* With a node more at its end, the list being empty ...
LEMMA LinkedSingle ==
    ASSUME NEW l, NEW e, NEW sent, l.next[e] = sent, l.pre[sent] = e
    PROVE  Linked(l, Append(<<>>, e), e, sent)
BY DEF Linked, Nth

\* ... or not.
LEMMA LinkedAppend ==
    ASSUME NEW l, NEW l1, NEW c \in Seq(Procs), NEW first, NEW sent,
           NEW e \in Procs, c # <<>>, IsInjective(c), e \notin Range(c), sent \notin Procs,
           Linked(l, c, first, sent),
           l1.next[l.pre[sent]] = e, l1.next[e] = sent, l1.pre[e] = l.pre[sent], l1.pre[sent] = e,
           \A x \in Range(c) : l1.pre[x] = l.pre[x] /\ (x # l.pre[sent] => l1.next[x] = l.next[x])
    PROVE  Linked(l1, Append(c, e), first, sent)
<1> DEFINE a == Append(c, e)
<1>1. /\ Len(c) \in Nat \ {0} /\ l.pre[sent] = c[Len(c)]
      /\ \A i \in 1 .. Len(c) : c[i] \in Range(c)
  BY SeqFacts DEF Linked
<1>2. /\ a \in Seq(Procs) /\ Len(a) = Len(c) + 1 /\ a[Len(c) + 1] = e
      /\ \A i \in 1 .. Len(c) : a[i] = c[i]
  BY AppendProperties
<1> HIDE DEF a
<1>3. first = Nth(a, 1, sent)
  BY <1>1, <1>2 DEF Linked, Nth
<1>4. ASSUME NEW i \in 1 .. Len(a) PROVE l1.next[a[i]] = Nth(a, i + 1, sent)
  <2>1. CASE i = Len(a)
    <3>1. a[i] = e /\ ~ (i + 1 <= Len(a))
      BY <1>1, <1>2, <2>1
    <3> QED  BY <3>1 DEF Nth
  <2>2. CASE i = Len(c)
    <3>1. a[i] = l.pre[sent] /\ i + 1 = Len(a) /\ i + 1 <= Len(a) /\ a[i + 1] = e
      BY <1>1, <1>2, <2>2
    <3> QED  BY <3>1 DEF Nth
  <2>3. CASE i # Len(a) /\ i # Len(c)
    <3> DEFINE j == i + 1
    <3>1. /\ i \in 1 .. Len(c) /\ i # Len(c) /\ j \in 1 .. Len(c) /\ j <= Len(a) /\ j <= Len(c)
          /\ Len(c) \in 1 .. Len(c)
      BY <1>1, <1>2, <2>3
    <3> HIDE DEF j
    <3>2. a[i] = c[i] /\ c[i] # l.pre[sent] /\ c[i] \in Range(c) /\ a[j] = c[j]
      BY <1>1, <1>2, <3>1, SeqFacts DEF IsInjective
    <3>3. l1.next[a[i]] = l.next[c[i]]
      BY <3>2
    <3>4. l.next[c[i]] = Nth(c, j, sent)
      BY <3>1 DEF Linked, j
    <3> QED  BY <3>1, <3>2, <3>3, <3>4 DEF Nth, j
  <2> QED  BY <2>1, <2>2, <2>3
<1>5. ASSUME NEW i \in 1 .. Len(a) - 1 PROVE l1.pre[a[i + 1]] = a[i]
  <2>1. CASE i = Len(c)
    BY <1>1, <1>2, <2>1
  <2>2. CASE i # Len(c)
    <3> DEFINE j == i + 1
    <3>1. i \in 1 .. Len(c) - 1 /\ i \in 1 .. Len(c) /\ j \in 1 .. Len(c)
      BY <1>1, <1>2, <2>2
    <3> HIDE DEF j
    <3>2. a[i] = c[i] /\ a[j] = c[j] /\ l1.pre[c[j]] = l.pre[c[j]]
      BY <1>1, <1>2, <3>1
    <3>3. l.pre[c[j]] = c[i]
      BY <3>1 DEF Linked, j
    <3> QED  BY <3>2, <3>3 DEF j
  <2> QED  BY <2>1, <2>2
<1>6. l1.pre[sent] = a[Len(a)]
  BY <1>2
<1> QED  BY <1>3, <1>4, <1>5, <1>6 DEF Linked, a

\* The whole list handed to another sentinel.
LEMMA LinkedSwap ==
    ASSUME NEW l, NEW l1, NEW c \in Seq(Procs), NEW first,
           NEW sent, NEW to, c # <<>>, IsInjective(c),
           Linked(l, c, first, sent),
           l1.next[l.pre[sent]] = to, l1.pre[to] = l.pre[sent],
           \A x \in Range(c) : l1.pre[x] = l.pre[x] /\ (x # l.pre[sent] => l1.next[x] = l.next[x])
    PROVE  Linked(l1, c, first, to)
<1>1. /\ Len(c) \in Nat \ {0} /\ l.pre[sent] = c[Len(c)]
      /\ \A i \in 1 .. Len(c) : c[i] \in Range(c)
  BY SeqFacts DEF Linked
<1>2. first = Nth(c, 1, to)
  BY <1>1 DEF Linked, Nth
<1>3. ASSUME NEW i \in 1 .. Len(c) PROVE l1.next[c[i]] = Nth(c, i + 1, to)
  <2>1. CASE i = Len(c)
    <3>1. ~ (i + 1 <= Len(c))
      BY <1>1, <2>1
    <3> QED  BY <1>1, <2>1, <3>1 DEF Nth
  <2>2. CASE i # Len(c)
    <3>1. i + 1 <= Len(c) /\ Len(c) \in 1 .. Len(c)
      BY <1>1, <2>2
    <3>2. c[i] # l.pre[sent] /\ c[i] \in Range(c)
      BY <1>1, <2>2, <3>1, SeqFacts DEF IsInjective
    <3>3. l1.next[c[i]] = Nth(c, i + 1, sent)
      BY <3>2 DEF Linked
    <3> QED  BY <3>1, <3>3 DEF Nth
  <2> QED  BY <2>1, <2>2
<1>4. ASSUME NEW i \in 1 .. Len(c) - 1 PROVE l1.pre[c[i + 1]] = c[i]
  <2>1. i + 1 \in 1 .. Len(c)
    BY <1>1
  <2> QED  BY <1>1, <2>1 DEF Linked
<1> QED  BY <1>1, <1>2, <1>3, <1>4 DEF Linked

\* Without a node that is not its first.
LEMMA LinkedRemove ==
    ASSUME NEW l, NEW l1, NEW c \in Seq(Procs), NEW first, NEW sent,
           NEW e \in Range(c), e # Head(c), IsInjective(c), sent \notin Procs,
           Linked(l, c, first, sent),
           l1.next[l.pre[e]] = l.next[e], l1.pre[l.next[e]] = l.pre[e],
           \A x \in Range(c) : x # l.pre[e] => l1.next[x] = l.next[x],
           \A x \in Range(c) \cup {sent} : x # l.next[e] => l1.pre[x] = l.pre[x]
    PROVE  Linked(l1, RemoveFirst(c, e), first, sent)
<1>1. PICK k \in 1 .. Len(c) : c[k] = e
  BY SeqFacts DEF Range
<1> DEFINE t == RemoveFirst(c, e)
<1>2. /\ Len(c) \in Nat \ {0} /\ \A i \in 1 .. Len(c) : c[i] \in Range(c)
      /\ Head(c) = c[1] /\ c # <<>>
      /\ \A i \in 1 .. Len(c) : c[i] # sent
  BY <1>1, SeqFacts
<1>3. /\ t \in Seq(Procs) /\ Len(t) = Len(c) - 1
      /\ \A i \in 1 .. Len(c) - 1 : t[i] = IF i < k THEN c[i] ELSE c[i + 1]
  BY <1>1, RemoveAtLemma, LinksAssumption
<1> HIDE DEF t
<1>4. \A i, j \in 1 .. Len(c) : c[i] = c[j] => i = j
  BY SeqFacts DEF IsInjective
<1> DEFINE h == k - 1
           m == k + 1
<1>5. /\ k # 1 /\ h \in 1 .. Len(c) - 1 /\ h \in 1 .. Len(c) /\ h + 1 = k
      /\ m \in Nat \ {0} /\ m = k + 1 /\ h < k
  BY <1>1, <1>2
<1> HIDE DEF h, m
<1>6. l.pre[e] = c[h] /\ l.next[e] = Nth(c, m, sent)
  BY <1>1, <1>5 DEF Linked
<1>7. ASSUME NEW i \in 1 .. Len(c), i # h PROVE l1.next[c[i]] = l.next[c[i]]
  BY <1>2, <1>4, <1>5, <1>6, <1>7
<1>8. ASSUME NEW i \in 1 .. Len(c), i # m PROVE l1.pre[c[i]] = l.pre[c[i]]
  <2>1. CASE m <= Len(c)
    <3>1. m \in 1 .. Len(c) /\ l.next[e] = c[m]
      BY <1>5, <1>6, <2>1 DEF Nth
    <3> QED  BY <1>2, <1>4, <1>8, <3>1
  <2>2. CASE ~ (m <= Len(c))
    BY <1>2, <1>6, <2>2 DEF Nth
  <2> QED  BY <2>1, <2>2
<1>9. first = Nth(t, 1, sent)
  BY <1>2, <1>3, <1>5 DEF Linked, Nth
<1>10. ASSUME NEW i \in 1 .. Len(t) PROVE l1.next[t[i]] = Nth(t, i + 1, sent)
  <2> DEFINE j == i + 1
  <2>1. /\ i \in 1 .. Len(c) - 1 /\ i \in 1 .. Len(c) /\ j \in 1 .. Len(c)
        /\ j = i + 1 /\ j + 1 \in Nat \ {0}
    BY <1>2, <1>3
  <2> HIDE DEF j
  <2>2. ASSUME NEW x \in Nat \ {0}
        PROVE  Nth(t, x, sent) = IF x < k THEN c[x] ELSE Nth(c, x + 1, sent)
    <3>1. CASE x <= Len(t)
      <4>1. x \in 1 .. Len(c) - 1 /\ x + 1 <= Len(c)
        BY <1>2, <1>3, <3>1
      <4> QED  BY <1>3, <3>1, <4>1 DEF Nth
    <3>2. CASE ~ (x <= Len(t))
      <4>1. ~ (x < k) /\ ~ (x + 1 <= Len(c))
        BY <1>2, <1>3, <3>2
      <4> QED  BY <3>2, <4>1 DEF Nth
    <3> QED  BY <3>1, <3>2
  <2>3. Nth(t, j, sent) = IF j < k THEN c[j] ELSE Nth(c, j + 1, sent)
    BY <2>1, <2>2
  <2>4. CASE i = h
    <3>1. t[i] = c[h] /\ j = k /\ j + 1 = m /\ ~ (j < k)
      BY <1>3, <1>5, <2>1, <2>4
    <3>2. l1.next[c[h]] = l.next[e]
      BY <1>6
    <3> QED  BY <1>6, <2>1, <2>3, <3>1, <3>2
  <2>5. CASE i < k /\ i # h
    <3>1. t[i] = c[i] /\ j < k /\ j <= Len(c)
      BY <1>2, <1>3, <1>5, <2>1, <2>5
    <3>2. l1.next[c[i]] = l.next[c[i]]
      BY <1>7, <2>1, <2>5
    <3>3. l.next[c[i]] = Nth(c, i + 1, sent)
      BY <2>1 DEF Linked
    <3> QED  BY <2>1, <2>3, <3>1, <3>2, <3>3 DEF Nth
  <2>6. CASE ~ (i < k)
    <3>1. t[i] = c[j] /\ ~ (j < k) /\ j # h
      BY <1>3, <1>5, <2>1, <2>6
    <3>2. l1.next[c[j]] = l.next[c[j]]
      BY <1>7, <2>1, <3>1
    <3>3. l.next[c[j]] = Nth(c, j + 1, sent)
      BY <2>1 DEF Linked
    <3> QED  BY <2>1, <2>3, <3>1, <3>2, <3>3
  <2> QED  BY <2>4, <2>5, <2>6
<1>11. ASSUME NEW i \in 1 .. Len(t) - 1 PROVE l1.pre[t[i + 1]] = t[i]
  <2> DEFINE j == i + 1
             x == j + 1
  <2>1. /\ i \in 1 .. Len(c) - 1 /\ i \in 1 .. Len(c) /\ j \in 1 .. Len(c) - 1
        /\ j \in 1 .. Len(c) /\ j = i + 1 /\ x \in 1 .. Len(c) /\ x = j + 1
    BY <1>2, <1>3
  <2> HIDE DEF j, x
  <2>2. t[i] = (IF i < k THEN c[i] ELSE c[j]) /\ t[j] = (IF j < k THEN c[j] ELSE c[x])
    BY <1>3, <2>1
  <2>3. l.pre[c[j]] = c[i] /\ l.pre[c[x]] = c[j]
    BY <2>1 DEF Linked
  <2>4. CASE i = h
    <3>1. t[i] = c[h] /\ t[j] = c[x] /\ x = m /\ m <= Len(c)
      BY <1>5, <2>1, <2>2, <2>4
    <3>2. l.next[e] = c[m]
      BY <1>6, <3>1 DEF Nth
    <3> QED  BY <1>6, <2>1, <3>1, <3>2
  <2>5. CASE i < k /\ i # h
    <3>1. t[i] = c[i] /\ t[j] = c[j] /\ j # m
      BY <1>5, <2>1, <2>2, <2>5
    <3> QED  BY <1>8, <2>1, <2>3, <3>1
  <2>6. CASE ~ (i < k)
    <3>1. t[i] = c[j] /\ t[j] = c[x] /\ x # m
      BY <1>5, <2>1, <2>2, <2>6
    <3> QED  BY <1>8, <2>1, <2>3, <3>1
  <2> QED  BY <2>4, <2>5, <2>6
<1>12. l1.pre[sent] = t[Len(t)]
  <2>1. Len(t) \in 1 .. Len(c) - 1 /\ Len(t) + 1 = Len(c) /\ Len(c) \in 1 .. Len(c)
    BY <1>2, <1>3, <1>5
  <2>2. l.pre[sent] = c[Len(c)]
    BY <1>2 DEF Linked
  <2>3. CASE k = Len(c)
    <3>1. l.next[e] = sent /\ t[Len(t)] = c[h]
      BY <1>3, <1>5, <1>6, <2>1, <2>3 DEF Nth
    <3> QED  BY <1>6, <3>1
  <2>4. CASE k # Len(c)
    <3>1. m \in 1 .. Len(c) /\ m <= Len(c) /\ ~ (Len(t) < k)
      BY <1>2, <1>5, <2>1, <2>4
    <3>2. l.next[e] = c[m] /\ c[m] # sent /\ t[Len(t)] = c[Len(c)]
      BY <1>2, <1>3, <1>6, <2>1, <3>1 DEF Nth
    <3> QED  BY <2>2, <3>2
  <2> QED  BY <2>3, <2>4
<1> QED  BY <1>9, <1>10, <1>11, <1>12 DEF Linked, t

-----------------------------------------------------------------------------
(* What relinking does to the three lists.                                 *)

LEMMA NodeFacts ==
    /\ Procs \subseteq Nodes /\ Sentinels \subseteq Nodes /\ EmptyTask \in Nodes
    /\ ReadyTail \in Sentinels /\ PauseTail \in Sentinels /\ WaitTail \in Sentinels
    /\ ReadyTail \notin Procs /\ PauseTail \notin Procs /\ WaitTail \notin Procs
    /\ EmptyTask \notin Procs /\ EmptyTask \notin Sentinels
    /\ ReadyTail # PauseTail /\ ReadyTail # WaitTail /\ PauseTail # WaitTail
BY LinksAssumption DEF Nodes, Sentinels

LEMMA ListFacts ==
    ASSUME NEW l, NEW r, NEW z, NEW w, Lists(l, r, z, w)
    PROVE  /\ l.ready \in Nodes /\ l.pause \in Nodes /\ l.wait \in Nodes
           /\ l.next \in [Nodes -> Nodes \cup {Null}]
           /\ l.pre \in [Nodes -> Nodes \cup {Null}]
           /\ l.ticks \in [Procs -> Int]
           /\ r = <<>> <=> l.ready \in {EmptyTask, ReadyTail}
           /\ z = <<>> <=> PauseEmpty(l)
           /\ w = <<>> <=> WaitEmpty(l)
           /\ r # <<>> => l.ready = Head(r) /\ Head(r) \in Procs
           /\ z # <<>> => l.pause = Head(z) /\ l.pre[PauseTail] \in Range(z)
           /\ w # <<>> => l.wait = Head(w) /\ l.pre[WaitTail] \in Range(w)
<1>1. l \in ListState /\ r \in Seq(Procs) /\ z \in Seq(Procs) /\ w \in Seq(Procs)
  BY DEF Lists, Apart
<1>2. /\ l.ready \in Nodes /\ l.pause \in Nodes /\ l.wait \in Nodes
      /\ l.next \in [Nodes -> Nodes \cup {Null}]
      /\ l.pre \in [Nodes -> Nodes \cup {Null}]
      /\ l.ticks \in [Procs -> Int]
  BY <1>1 DEF ListState
<1>3. ASSUME NEW c \in Seq(Procs), NEW first, NEW sent, sent \notin Procs,
             Linked(l, c, first, sent)
      PROVE  /\ c = <<>> <=> first = sent
             /\ c # <<>> => first = Head(c) /\ l.pre[sent] \in Range(c) /\ Head(c) \in Procs
  <2>1. first = IF c = <<>> THEN sent ELSE Head(c)
    BY <1>3, NthFacts DEF Linked
  <2>2. c # <<>> => Head(c) \in Procs
    BY <1>3, HeadTailProperties
  <2>3. c # <<>> => l.pre[sent] \in Range(c)
    BY <1>3, SeqFacts DEF Linked
  <2> QED  BY <1>3, <2>1, <2>2, <2>3
<1>4. /\ z = <<>> <=> PauseEmpty(l)
      /\ w = <<>> <=> WaitEmpty(l)
      /\ z # <<>> => l.pause = Head(z) /\ l.pre[PauseTail] \in Range(z)
      /\ w # <<>> => l.wait = Head(w) /\ l.pre[WaitTail] \in Range(w)
  BY <1>1, <1>3, NodeFacts DEF Lists, PauseEmpty, WaitEmpty
<1>5. /\ r = <<>> <=> FirstReady(l) = ReadyTail
      /\ r # <<>> => FirstReady(l) = Head(r) /\ Head(r) \in Procs
  BY <1>1, <1>3, NodeFacts DEF Lists
<1>6. /\ r = <<>> <=> l.ready \in {EmptyTask, ReadyTail}
      /\ r # <<>> => l.ready = Head(r) /\ Head(r) \in Procs
  BY <1>5, NodeFacts DEF FirstReady, EmptyRuns
<1> QED  BY <1>2, <1>4, <1>6

\* The running process is taken off the ready queue.
LEMMA DropReady ==
    ASSUME NEW l, NEW r, NEW z, NEW w, Lists(l, r, z, w), r # <<>>
    PROVE  LET l1 == [l EXCEPT !.ready = l.next[l.ready]]
           IN  /\ Lists(l1, Tail(r), z, w)
               /\ l1.ready # EmptyTask /\ (l1.ready = ReadyTail <=> Len(r) = 1)
               /\ l1.ticks = l.ticks
<1> DEFINE l1 == [l EXCEPT !.ready = l.next[l.ready]]
           t == Tail(r)
<1>1. Apart(r, z, w) /\ r \in Seq(Procs) /\ IsInjective(r)
  BY DEF Lists, Apart
<1>2. l.ready = Head(r) /\ Head(r) \in Procs /\ FirstReady(l) = l.ready
  BY ListFacts, NodeFacts DEF FirstReady, EmptyRuns
<1>3. /\ Linked(l, t, l.next[l.ready], ReadyTail)
      /\ t = <<>> <=> Len(r) = 1
      /\ t = <<>> <=> l.next[l.ready] = ReadyTail
  <2>1. Linked(l, r, l.ready, ReadyTail) /\ ReadyTail \notin Procs
    BY <1>2, NodeFacts DEF Lists
  <2> QED  BY <1>1, <2>1, LinkedTail
<1>4. t \in Seq(Procs) /\ Range(t) \subseteq Range(r) /\ IsInjective(t)
  BY <1>1, TailLemma, LinksAssumption
<1> HIDE DEF t
<1>5. l.next[l.ready] \in Nodes /\ l.next[l.ready] # EmptyTask
  BY <1>3, <1>4, NthFacts, NodeFacts DEF Linked
<1>6. /\ l1 \in ListState /\ l1.ready = l.next[l.ready] /\ l1.pause = l.pause
      /\ l1.wait = l.wait /\ l1.next = l.next /\ l1.pre = l.pre /\ l1.ticks = l.ticks
  BY <1>5 DEF Lists, ListState
<1> HIDE DEF l1
<1>7. FirstReady(l1) = l.next[l.ready]
  BY <1>5, <1>6 DEF FirstReady, EmptyRuns
<1>8. Apart(t, z, w)
  BY <1>1, <1>4 DEF Apart
<1>9. Lists(l1, t, z, w)
  BY <1>3, <1>6, <1>7, <1>8, LinkedSame DEF Lists
<1> QED  BY <1>3, <1>5, <1>6, <1>9 DEF l1, t

\* The first node is taken off the wait queue.
LEMMA DropWait ==
    ASSUME NEW l, NEW r, NEW z, NEW w, Lists(l, r, z, w), w # <<>>
    PROVE  LET l1 == [l EXCEPT !.wait = l.next[l.wait]]
           IN  Lists(l1, r, z, Tail(w)) /\ l1.ready = l.ready /\ l1.ticks = l.ticks
<1> DEFINE l1 == [l EXCEPT !.wait = l.next[l.wait]]
           t == Tail(w)
<1>1. Apart(r, z, w) /\ w \in Seq(Procs) /\ IsInjective(w)
  BY DEF Lists, Apart
<1>2. Linked(l, t, l.next[l.wait], WaitTail)
  BY <1>1, LinkedTail DEF Lists
<1>3. t \in Seq(Procs) /\ Range(t) \subseteq Range(w) /\ IsInjective(t)
  BY <1>1, TailLemma, LinksAssumption
<1> HIDE DEF t
<1>4. l.next[l.wait] \in Nodes
  BY <1>2, <1>3, NthFacts, NodeFacts DEF Linked
<1>5. /\ l1 \in ListState /\ l1.ready = l.ready /\ l1.pause = l.pause
      /\ l1.wait = l.next[l.wait] /\ l1.next = l.next /\ l1.pre = l.pre /\ l1.ticks = l.ticks
  BY <1>4 DEF Lists, ListState
<1> HIDE DEF l1
<1>6. FirstReady(l1) = FirstReady(l)
  BY <1>5 DEF FirstReady, EmptyRuns
<1>7. Apart(r, z, t)
  BY <1>1, <1>3 DEF Apart
<1>8. Lists(l1, r, z, t)
  BY <1>2, <1>5, <1>6, <1>7, LinkedSame DEF Lists
<1> QED  BY <1>5, <1>8 DEF l1, t

\* The links that LinkLast writes.
LEMMA LinkLastFields ==
    ASSUME NEW l \in ListState, NEW e \in Procs, NEW sent \in Sentinels,
           l.pre[sent] \in Procs
    PROVE  LET l1 == LinkLast(l, e, sent)
           IN  /\ l1 \in ListState
               /\ l1.ready = l.ready /\ l1.pause = l.pause /\ l1.wait = l.wait
               /\ l1.ticks = l.ticks
               /\ \A x \in Nodes :
                     /\ l1.next[x] = IF x = l.pre[sent] THEN e
                                     ELSE IF x = e THEN sent ELSE l.next[x]
                     /\ l1.pre[x] = IF x = sent THEN e
                                    ELSE IF x = e THEN l.pre[sent] ELSE l.pre[x]
<1> DEFINE n1 == [l.next EXCEPT ![e] = sent, ![l.pre[sent]] = e]
           p1 == [l.pre EXCEPT ![e] = l.pre[sent], ![sent] = e]
           l1 == LinkLast(l, e, sent)
<1>1. /\ l.next \in [Nodes -> Nodes \cup {Null}] /\ l.pre \in [Nodes -> Nodes \cup {Null}]
      /\ e \in Nodes /\ sent \in Nodes /\ l.pre[sent] \in Nodes
  BY NodeFacts DEF ListState
<1>2. l1 = [l EXCEPT !.next = n1, !.pre = p1]
  BY DEF LinkLast, ListState
<1>3. n1 \in [Nodes -> Nodes \cup {Null}] /\ p1 \in [Nodes -> Nodes \cup {Null}]
  BY <1>1
<1>4. \A x \in Nodes :
         /\ n1[x] = IF x = l.pre[sent] THEN e ELSE IF x = e THEN sent ELSE l.next[x]
         /\ p1[x] = IF x = sent THEN e ELSE IF x = e THEN l.pre[sent] ELSE l.pre[x]
  BY <1>1
<1> HIDE DEF n1, p1
<1>5. /\ l1 \in ListState /\ l1.next = n1 /\ l1.pre = p1
      /\ l1.ready = l.ready /\ l1.pause = l.pause /\ l1.wait = l.wait /\ l1.ticks = l.ticks
  BY <1>2, <1>3 DEF ListState
<1> HIDE DEF l1
<1> QED  BY <1>4, <1>5 DEF l1

\* A node is appended to the pause queue.
LEMMA ToPauseLists ==
    ASSUME NEW l, NEW r, NEW z, NEW w, Lists(l, r, z, w), NEW e \in Procs,
           e \notin Range(r), e \notin Range(z), e \notin Range(w)
    PROVE  /\ Lists(ToPause(l, e), r, Append(z, e), w)
           /\ ToPause(l, e).ready = l.ready /\ ToPause(l, e).ticks = l.ticks
<1> DEFINE l1 == ToPause(l, e)
           a == Append(z, e)
<1>1. /\ l \in ListState /\ Apart(r, z, w) /\ r \in Seq(Procs) /\ z \in Seq(Procs)
      /\ w \in Seq(Procs) /\ IsInjective(z)
      /\ Range(r) \subseteq Procs /\ Range(z) \subseteq Procs /\ Range(w) \subseteq Procs
      /\ l.next \in [Nodes -> Nodes \cup {Null}] /\ l.pre \in [Nodes -> Nodes \cup {Null}]
      /\ Linked(l, r, FirstReady(l), ReadyTail)
      /\ Linked(l, z, l.pause, PauseTail)
      /\ Linked(l, w, l.wait, WaitTail)
  BY SeqFacts, ListFacts DEF Lists, Apart
<1>2. Range(r) \cap Range(z) = {} /\ Range(z) \cap Range(w) = {}
  BY <1>1 DEF Apart
<1>3. Apart(r, a, w)
  BY <1>1, AppendLemma, LinksAssumption DEF Apart
<1>4. ASSUME l1 \in ListState, l1.ready = l.ready, l1.wait = l.wait, l1.ticks = l.ticks,
             Linked(l1, a, l1.pause, PauseTail),
             \A x \in Range(r) \cup Range(w) : l1.next[x] = l.next[x] /\ l1.pre[x] = l.pre[x],
             l1.pre[ReadyTail] = l.pre[ReadyTail], l1.pre[WaitTail] = l.pre[WaitTail]
      PROVE  Lists(l1, r, a, w) /\ l1.ready = l.ready /\ l1.ticks = l.ticks
  <2> HIDE DEF l1, a
  <2>1. FirstReady(l1) = FirstReady(l)
    BY <1>4 DEF FirstReady, EmptyRuns
  <2>2. Linked(l1, r, FirstReady(l), ReadyTail)
    <3>1. \A x \in Range(r) : l1.next[x] = l.next[x] /\ l1.pre[x] = l.pre[x]
      BY <1>4
    <3>2. /\ Linked(l, r, FirstReady(l), ReadyTail) /\ r \in Seq(Procs)
          /\ l1.pre[ReadyTail] = l.pre[ReadyTail]
      BY <1>1, <1>4
    <3> QED  BY <3>1, <3>2, LinkedKept
  <2>3. Linked(l1, w, l.wait, WaitTail)
    <3>1. \A x \in Range(w) : l1.next[x] = l.next[x] /\ l1.pre[x] = l.pre[x]
      BY <1>4
    <3>2. /\ Linked(l, w, l.wait, WaitTail) /\ w \in Seq(Procs)
          /\ l1.pre[WaitTail] = l.pre[WaitTail]
      BY <1>1, <1>4
    <3> QED  BY <3>1, <3>2, LinkedKept
  <2> QED  BY <1>3, <1>4, <2>1, <2>2, <2>3 DEF Lists
<1>5. CASE PauseEmpty(l)
  <2> DEFINE n1 == [l.next EXCEPT ![e] = PauseTail]
             p1 == [l.pre EXCEPT ![PauseTail] = e]
  <2>1. l1 = [l EXCEPT !.pause = e, !.next = n1, !.pre = p1]
    BY <1>1, <1>5 DEF ToPause, ListState
  <2>2. e \in Nodes /\ PauseTail \in Nodes /\ z = <<>> /\ ReadyTail \in Nodes /\ WaitTail \in Nodes
    BY <1>5, ListFacts, NodeFacts
  <2>3. /\ n1 \in [Nodes -> Nodes \cup {Null}] /\ p1 \in [Nodes -> Nodes \cup {Null}]
        /\ n1[e] = PauseTail /\ p1[PauseTail] = e
        /\ \A x \in Nodes : (x # e => n1[x] = l.next[x]) /\ (x # PauseTail => p1[x] = l.pre[x])
    BY <1>1, <2>2
  <2> HIDE DEF n1, p1
  <2>4. /\ l1 \in ListState /\ l1.next = n1 /\ l1.pre = p1 /\ l1.pause = e
        /\ l1.ready = l.ready /\ l1.wait = l.wait /\ l1.ticks = l.ticks
    BY <1>1, <2>1, <2>2, <2>3 DEF ListState
  <2> HIDE DEF l1
  <2>5. Linked(l1, a, l1.pause, PauseTail)
    BY <2>2, <2>3, <2>4, LinkedSingle
  <2>6. \A x \in Range(r) \cup Range(w) : l1.next[x] = l.next[x] /\ l1.pre[x] = l.pre[x]
    BY <1>1, <2>3, <2>4, NodeFacts
  <2>7. l1.pre[ReadyTail] = l.pre[ReadyTail] /\ l1.pre[WaitTail] = l.pre[WaitTail]
    BY <2>2, <2>3, <2>4, NodeFacts
  <2> QED  BY <1>4, <2>4, <2>5, <2>6, <2>7 DEF l1
<1>6. CASE ~PauseEmpty(l)
  <2>1. l.pre[PauseTail] \in Range(z) /\ l.pre[PauseTail] \in Procs /\ z # <<>>
        /\ PauseTail \in Sentinels
    BY <1>1, <1>6, ListFacts, NodeFacts
  <2>2. l1 = LinkLast(l, e, PauseTail)
    BY <1>6 DEF ToPause
  <2>3. /\ l1 \in ListState /\ l1.ready = l.ready /\ l1.pause = l.pause /\ l1.wait = l.wait
        /\ l1.ticks = l.ticks
        /\ \A x \in Nodes :
              /\ l1.next[x] = IF x = l.pre[PauseTail] THEN e
                              ELSE IF x = e THEN PauseTail ELSE l.next[x]
              /\ l1.pre[x] = IF x = PauseTail THEN e
                             ELSE IF x = e THEN l.pre[PauseTail] ELSE l.pre[x]
    <3>1. LET k == LinkLast(l, e, PauseTail)
          IN  /\ k \in ListState
              /\ k.ready = l.ready /\ k.pause = l.pause /\ k.wait = l.wait
              /\ k.ticks = l.ticks
              /\ \A x \in Nodes :
                    /\ k.next[x] = IF x = l.pre[PauseTail] THEN e
                                   ELSE IF x = e THEN PauseTail ELSE l.next[x]
                    /\ k.pre[x] = IF x = PauseTail THEN e
                                  ELSE IF x = e THEN l.pre[PauseTail] ELSE l.pre[x]
      BY <1>1, <2>1, LinkLastFields
    <3> HIDE DEF l1
    <3> QED  BY <2>2, <3>1
  <2> HIDE DEF l1
  <2>4. /\ l1.next[l.pre[PauseTail]] = e /\ l1.next[e] = PauseTail
        /\ l1.pre[e] = l.pre[PauseTail] /\ l1.pre[PauseTail] = e
        /\ \A x \in Range(z) : /\ l1.pre[x] = l.pre[x]
                               /\ x # l.pre[PauseTail] => l1.next[x] = l.next[x]
    BY <1>1, <2>1, <2>3, NodeFacts
  <2>5. Linked(l1, a, l1.pause, PauseTail)
    <3>1. PauseTail \notin Procs
      BY NodeFacts
    <3>2. /\ z \in Seq(Procs) /\ IsInjective(z) /\ l1.pause = l.pause
          /\ Linked(l, z, l.pause, PauseTail)
      BY <1>1, <2>3
    <3> QED  BY <2>1, <2>4, <3>1, <3>2, LinkedAppend
  <2>6. \A x \in Range(r) \cup Range(w) : l1.next[x] = l.next[x] /\ l1.pre[x] = l.pre[x]
    BY <1>1, <1>2, <2>1, <2>3, NodeFacts
  <2>7. l1.pre[ReadyTail] = l.pre[ReadyTail] /\ l1.pre[WaitTail] = l.pre[WaitTail]
    BY <2>3, NodeFacts
  <2> QED  BY <1>4, <2>3, <2>5, <2>6, <2>7 DEF l1
<1> QED  BY <1>5, <1>6

\* A node is appended to the wait queue.
LEMMA ToWaitLists ==
    ASSUME NEW l, NEW r, NEW z, NEW w, Lists(l, r, z, w), NEW e \in Procs,
           e \notin Range(r), e \notin Range(w), e \notin Range(z)
    PROVE  /\ Lists(ToWait(l, e), r, z, Append(w, e))
           /\ ToWait(l, e).ready = l.ready /\ ToWait(l, e).ticks = l.ticks
<1> DEFINE l1 == ToWait(l, e)
           a == Append(w, e)
<1>1. /\ l \in ListState /\ Apart(r, z, w) /\ r \in Seq(Procs) /\ w \in Seq(Procs)
      /\ z \in Seq(Procs) /\ IsInjective(w)
      /\ Range(r) \subseteq Procs /\ Range(w) \subseteq Procs /\ Range(z) \subseteq Procs
      /\ l.next \in [Nodes -> Nodes \cup {Null}] /\ l.pre \in [Nodes -> Nodes \cup {Null}]
      /\ Linked(l, r, FirstReady(l), ReadyTail)
      /\ Linked(l, w, l.wait, WaitTail)
      /\ Linked(l, z, l.pause, PauseTail)
  BY SeqFacts, ListFacts DEF Lists, Apart
<1>2. Range(r) \cap Range(w) = {} /\ Range(z) \cap Range(w) = {}
  BY <1>1 DEF Apart
<1>3. Apart(r, z, a)
  BY <1>1, AppendLemma, LinksAssumption DEF Apart
<1>4. ASSUME l1 \in ListState, l1.ready = l.ready, l1.pause = l.pause, l1.ticks = l.ticks,
             Linked(l1, a, l1.wait, WaitTail),
             \A x \in Range(r) \cup Range(z) : l1.next[x] = l.next[x] /\ l1.pre[x] = l.pre[x],
             l1.pre[ReadyTail] = l.pre[ReadyTail], l1.pre[PauseTail] = l.pre[PauseTail]
      PROVE  Lists(l1, r, z, a) /\ l1.ready = l.ready /\ l1.ticks = l.ticks
  <2> HIDE DEF l1, a
  <2>1. FirstReady(l1) = FirstReady(l)
    BY <1>4 DEF FirstReady, EmptyRuns
  <2>2. Linked(l1, r, FirstReady(l), ReadyTail)
    <3>1. \A x \in Range(r) : l1.next[x] = l.next[x] /\ l1.pre[x] = l.pre[x]
      BY <1>4
    <3>2. /\ Linked(l, r, FirstReady(l), ReadyTail) /\ r \in Seq(Procs)
          /\ l1.pre[ReadyTail] = l.pre[ReadyTail]
      BY <1>1, <1>4
    <3> QED  BY <3>1, <3>2, LinkedKept
  <2>3. Linked(l1, z, l.pause, PauseTail)
    <3>1. \A x \in Range(z) : l1.next[x] = l.next[x] /\ l1.pre[x] = l.pre[x]
      BY <1>4
    <3>2. /\ Linked(l, z, l.pause, PauseTail) /\ z \in Seq(Procs)
          /\ l1.pre[PauseTail] = l.pre[PauseTail]
      BY <1>1, <1>4
    <3> QED  BY <3>1, <3>2, LinkedKept
  <2> QED  BY <1>3, <1>4, <2>1, <2>2, <2>3 DEF Lists
<1>5. CASE WaitEmpty(l)
  <2> DEFINE n1 == [l.next EXCEPT ![e] = WaitTail]
             p1 == [l.pre EXCEPT ![WaitTail] = e]
  <2>1. l1 = [l EXCEPT !.wait = e, !.next = n1, !.pre = p1]
    BY <1>1, <1>5 DEF ToWait, ListState
  <2>2. e \in Nodes /\ WaitTail \in Nodes /\ w = <<>> /\ ReadyTail \in Nodes /\ PauseTail \in Nodes
    BY <1>5, ListFacts, NodeFacts
  <2>3. /\ n1 \in [Nodes -> Nodes \cup {Null}] /\ p1 \in [Nodes -> Nodes \cup {Null}]
        /\ n1[e] = WaitTail /\ p1[WaitTail] = e
        /\ \A x \in Nodes : (x # e => n1[x] = l.next[x]) /\ (x # WaitTail => p1[x] = l.pre[x])
    BY <1>1, <2>2
  <2> HIDE DEF n1, p1
  <2>4. /\ l1 \in ListState /\ l1.next = n1 /\ l1.pre = p1 /\ l1.wait = e
        /\ l1.ready = l.ready /\ l1.pause = l.pause /\ l1.ticks = l.ticks
    BY <1>1, <2>1, <2>2, <2>3 DEF ListState
  <2> HIDE DEF l1
  <2>5. Linked(l1, a, l1.wait, WaitTail)
    BY <2>2, <2>3, <2>4, LinkedSingle
  <2>6. \A x \in Range(r) \cup Range(z) : l1.next[x] = l.next[x] /\ l1.pre[x] = l.pre[x]
    BY <1>1, <2>3, <2>4, NodeFacts
  <2>7. l1.pre[ReadyTail] = l.pre[ReadyTail] /\ l1.pre[PauseTail] = l.pre[PauseTail]
    BY <2>2, <2>3, <2>4, NodeFacts
  <2> QED  BY <1>4, <2>4, <2>5, <2>6, <2>7 DEF l1
<1>6. CASE ~WaitEmpty(l)
  <2>1. l.pre[WaitTail] \in Range(w) /\ l.pre[WaitTail] \in Procs /\ w # <<>>
        /\ WaitTail \in Sentinels
    BY <1>1, <1>6, ListFacts, NodeFacts
  <2>2. l1 = LinkLast(l, e, WaitTail)
    BY <1>6 DEF ToWait
  <2>3. /\ l1 \in ListState /\ l1.ready = l.ready /\ l1.wait = l.wait /\ l1.pause = l.pause
        /\ l1.ticks = l.ticks
        /\ \A x \in Nodes :
              /\ l1.next[x] = IF x = l.pre[WaitTail] THEN e
                              ELSE IF x = e THEN WaitTail ELSE l.next[x]
              /\ l1.pre[x] = IF x = WaitTail THEN e
                             ELSE IF x = e THEN l.pre[WaitTail] ELSE l.pre[x]
    <3>1. LET k == LinkLast(l, e, WaitTail)
          IN  /\ k \in ListState
              /\ k.ready = l.ready /\ k.wait = l.wait /\ k.pause = l.pause
              /\ k.ticks = l.ticks
              /\ \A x \in Nodes :
                    /\ k.next[x] = IF x = l.pre[WaitTail] THEN e
                                   ELSE IF x = e THEN WaitTail ELSE l.next[x]
                    /\ k.pre[x] = IF x = WaitTail THEN e
                                  ELSE IF x = e THEN l.pre[WaitTail] ELSE l.pre[x]
      BY <1>1, <2>1, LinkLastFields
    <3> HIDE DEF l1
    <3> QED  BY <2>2, <3>1
  <2> HIDE DEF l1
  <2>4. /\ l1.next[l.pre[WaitTail]] = e /\ l1.next[e] = WaitTail
        /\ l1.pre[e] = l.pre[WaitTail] /\ l1.pre[WaitTail] = e
        /\ \A x \in Range(w) : /\ l1.pre[x] = l.pre[x]
                               /\ x # l.pre[WaitTail] => l1.next[x] = l.next[x]
    BY <1>1, <2>1, <2>3, NodeFacts
  <2>5. Linked(l1, a, l1.wait, WaitTail)
    <3>1. WaitTail \notin Procs
      BY NodeFacts
    <3>2. /\ w \in Seq(Procs) /\ IsInjective(w) /\ l1.wait = l.wait
          /\ Linked(l, w, l.wait, WaitTail)
      BY <1>1, <2>3
    <3> QED  BY <2>1, <2>4, <3>1, <3>2, LinkedAppend
  <2>6. \A x \in Range(r) \cup Range(z) : l1.next[x] = l.next[x] /\ l1.pre[x] = l.pre[x]
    BY <1>1, <1>2, <2>1, <2>3, NodeFacts
  <2>7. l1.pre[ReadyTail] = l.pre[ReadyTail] /\ l1.pre[PauseTail] = l.pre[PauseTail]
    BY <2>3, NodeFacts
  <2> QED  BY <1>4, <2>3, <2>5, <2>6, <2>7 DEF l1
<1> QED  BY <1>5, <1>6

\* RemoveFirst of what is not there.
LEMMA RemoveNone ==
    ASSUME NEW c \in Seq(Procs), NEW e, e \notin Range(c)
    PROVE  RemoveFirst(c, e) = c
BY SeqFacts DEF RemoveFirst

\* RemoveFirst of the first.
LEMMA RemoveHead ==
    ASSUME NEW c \in Seq(Procs), c # <<>>, IsInjective(c)
    PROVE  RemoveFirst(c, Head(c)) = Tail(c)
<1> DEFINE t == RemoveFirst(c, Head(c))
           u == Tail(c)
<1>1. Len(c) \in Nat \ {0} /\ Head(c) = c[1] /\ 1 \in 1 .. Len(c)
  BY SeqFacts
<1>2. /\ t \in Seq(Procs) /\ Len(t) = Len(c) - 1
      /\ \A i \in 1 .. Len(c) - 1 : t[i] = IF i < 1 THEN c[i] ELSE c[i + 1]
  BY <1>1, RemoveAtLemma, LinksAssumption
<1>3. /\ u \in Seq(Procs) /\ Len(u) = Len(c) - 1
      /\ \A i \in 1 .. Len(u) : u[i] = c[i + 1]
  BY HeadTailProperties
<1> HIDE DEF t, u
<1>4. \A i \in 1 .. Len(c) - 1 : t[i] = u[i]
  BY <1>1, <1>2, <1>3
<1>5. t = [i \in 1 .. Len(c) - 1 |-> t[i]] /\ u = [i \in 1 .. Len(c) - 1 |-> u[i]]
  BY <1>2, <1>3, SeqFacts
<1> QED  BY <1>4, <1>5 DEF t, u

\* A queue from which Unlink takes a node or whose neighbour it takes.
LEMMA UnlinkedFrom ==
    ASSUME NEW l, NEW l1, NEW c \in Seq(Procs), NEW first, NEW sent, NEW e,
           IsInjective(c), sent \notin Procs, Linked(l, c, first, sent),
           e \in Range(c) => e # Head(c),
           e \in Range(c) => l1.next[l.pre[e]] = l.next[e] /\ l1.pre[l.next[e]] = l.pre[e],
           \A x \in Range(c) : x # l.pre[e] => l1.next[x] = l.next[x],
           \A x \in Range(c) \cup {sent} : x # l.next[e] => l1.pre[x] = l.pre[x],
           e \notin Range(c) => l.pre[e] \notin Range(c) /\ l.next[e] \notin Range(c) \cup {sent}
    PROVE  Linked(l1, RemoveFirst(c, e), first, sent)
<1>1. CASE e \in Range(c)
  BY <1>1, LinkedRemove
<1>2. CASE e \notin Range(c)
  <2>1. /\ \A x \in Range(c) : l1.next[x] = l.next[x] /\ l1.pre[x] = l.pre[x]
        /\ l1.pre[sent] = l.pre[sent]
    BY <1>2
  <2> QED  BY <1>2, <2>1, LinkedKept, RemoveNone
<1> QED  BY <1>1, <1>2

\* Where the neighbours of a node that is not its list's first are.
LEMMA Neighbours ==
    ASSUME NEW l, NEW c \in Seq(Procs), NEW first, NEW sent, NEW e \in Range(c),
           Linked(l, c, first, sent), e # Head(c)
    PROVE  l.pre[e] \in Range(c) /\ l.next[e] \in Range(c) \cup {sent}
<1>1. PICK k \in 1 .. Len(c) : c[k] = e
  BY SeqFacts DEF Range
<1>2. /\ Len(c) \in Nat \ {0} /\ Head(c) = c[1]
      /\ \A i \in 1 .. Len(c) : c[i] \in Range(c)
  BY <1>1, SeqFacts
<1> DEFINE h == k - 1
           m == k + 1
<1>3. h \in 1 .. Len(c) - 1 /\ h \in 1 .. Len(c) /\ k = h + 1 /\ m \in Nat \ {0}
  BY <1>1, <1>2
<1>4. l.next[e] = Nth(c, m, sent)
  BY <1>1 DEF Linked
<1> HIDE DEF h, m
<1>5. l.pre[e] = c[h]
  BY <1>1, <1>3 DEF Linked
<1>6. Nth(c, m, sent) \in Range(c) \cup {sent}
  BY <1>2, <1>3 DEF Nth
<1> QED  BY <1>2, <1>3, <1>4, <1>5, <1>6

\* A node that is not the first of its queue is taken out.
LEMMA UnlinkLists ==
    ASSUME NEW l, NEW r, NEW z, NEW w, Lists(l, r, z, w),
           NEW e \in Range(r) \cup Range(z) \cup Range(w),
           e \in Range(r) => e # Head(r), e \in Range(z) => e # Head(z),
           e \in Range(w) => e # Head(w)
    PROVE  /\ Lists(Unlink(l, e), RemoveFirst(r, e), RemoveFirst(z, e), RemoveFirst(w, e))
           /\ Unlink(l, e).ready = l.ready /\ Unlink(l, e).ticks = l.ticks
<1> DEFINE l1 == Unlink(l, e)
<1>1. /\ l \in ListState /\ r \in Seq(Procs) /\ z \in Seq(Procs) /\ w \in Seq(Procs)
      /\ IsInjective(r) /\ IsInjective(z) /\ IsInjective(w)
      /\ Range(r) \subseteq Procs /\ Range(z) \subseteq Procs /\ Range(w) \subseteq Procs
      /\ Range(r) \cap Range(z) = {} /\ Range(r) \cap Range(w) = {}
      /\ Range(z) \cap Range(w) = {}
      /\ Linked(l, r, FirstReady(l), ReadyTail)
      /\ Linked(l, z, l.pause, PauseTail)
      /\ Linked(l, w, l.wait, WaitTail)
  BY SeqFacts DEF Lists, Apart
<1>2. /\ e \in Range(r) => l.pre[e] \in Range(r) /\ l.next[e] \in Range(r) \cup {ReadyTail}
      /\ e \in Range(z) => l.pre[e] \in Range(z) /\ l.next[e] \in Range(z) \cup {PauseTail}
      /\ e \in Range(w) => l.pre[e] \in Range(w) /\ l.next[e] \in Range(w) \cup {WaitTail}
  BY <1>1, Neighbours
<1>3. l.pre[e] \in Procs /\ l.next[e] \in Nodes /\ l.pre[e] \in Nodes
  BY <1>1, <1>2, NodeFacts
<1>4. /\ l1 \in ListState
      /\ l1.ready = l.ready /\ l1.pause = l.pause /\ l1.wait = l.wait /\ l1.ticks = l.ticks
      /\ \A x \in Nodes :
            /\ l1.next[x] = IF x = l.pre[e] THEN l.next[e] ELSE l.next[x]
            /\ l1.pre[x] = IF x = l.next[e] THEN l.pre[e] ELSE l.pre[x]
  <2> DEFINE n1 == [l.next EXCEPT ![l.pre[e]] = l.next[e]]
             p1 == [l.pre EXCEPT ![l.next[e]] = l.pre[e]]
  <2>1. l.next \in [Nodes -> Nodes \cup {Null}] /\ l.pre \in [Nodes -> Nodes \cup {Null}]
    BY <1>1 DEF ListState
  <2>2. l1 = [l EXCEPT !.next = n1, !.pre = p1]
    BY <1>1 DEF Unlink, ListState
  <2>3. n1 \in [Nodes -> Nodes \cup {Null}] /\ p1 \in [Nodes -> Nodes \cup {Null}]
    BY <1>3, <2>1
  <2>4. \A x \in Nodes : /\ n1[x] = IF x = l.pre[e] THEN l.next[e] ELSE l.next[x]
                         /\ p1[x] = IF x = l.next[e] THEN l.pre[e] ELSE l.pre[x]
    BY <1>3, <2>1
  <2> HIDE DEF n1, p1
  <2>5. /\ l1 \in ListState /\ l1.next = n1 /\ l1.pre = p1
        /\ l1.ready = l.ready /\ l1.pause = l.pause /\ l1.wait = l.wait /\ l1.ticks = l.ticks
    BY <1>1, <2>2, <2>3 DEF ListState
  <2> HIDE DEF l1
  <2> QED  BY <2>4, <2>5
<1> HIDE DEF l1
<1>5. ASSUME NEW c \in Seq(Procs), NEW first, NEW sent \in Sentinels, IsInjective(c),
             Linked(l, c, first, sent), e \in Range(c) => e # Head(c),
             e \notin Range(c) => l.pre[e] \notin Range(c) /\ l.next[e] \notin Range(c) \cup {sent}
      PROVE  Linked(l1, RemoveFirst(c, e), first, sent)
  <2>1. /\ Range(c) \subseteq Nodes /\ sent \in Nodes /\ sent \notin Procs
    BY SeqFacts, NodeFacts DEF Sentinels
  <2>2. l1.next[l.pre[e]] = l.next[e] /\ l1.pre[l.next[e]] = l.pre[e]
    BY <1>3, <1>4
  <2>3. \A x \in Range(c) : x # l.pre[e] => l1.next[x] = l.next[x]
    BY <1>4, <2>1
  <2>4. \A x \in Range(c) \cup {sent} : x # l.next[e] => l1.pre[x] = l.pre[x]
    BY <1>4, <2>1
  <2> QED  BY <1>5, <2>1, <2>2, <2>3, <2>4, UnlinkedFrom
<1>6. Linked(l1, RemoveFirst(r, e), FirstReady(l), ReadyTail)
  <2>1. e \notin Range(r) => l.pre[e] \notin Range(r) /\ l.next[e] \notin Range(r) \cup {ReadyTail}
    BY <1>1, <1>2, NodeFacts
  <2> QED  BY <1>1, <1>5, <2>1, NodeFacts
<1>7. Linked(l1, RemoveFirst(z, e), l.pause, PauseTail)
  <2>1. e \notin Range(z) => l.pre[e] \notin Range(z) /\ l.next[e] \notin Range(z) \cup {PauseTail}
    BY <1>1, <1>2, NodeFacts
  <2> QED  BY <1>1, <1>5, <2>1, NodeFacts
<1>8. Linked(l1, RemoveFirst(w, e), l.wait, WaitTail)
  <2>1. e \notin Range(w) => l.pre[e] \notin Range(w) /\ l.next[e] \notin Range(w) \cup {WaitTail}
    BY <1>1, <1>2, NodeFacts
  <2> QED  BY <1>1, <1>5, <2>1, NodeFacts
<1>9. Apart(RemoveFirst(r, e), RemoveFirst(z, e), RemoveFirst(w, e))
  <2>1. ASSUME NEW c \in Seq(Procs), IsInjective(c)
        PROVE  /\ RemoveFirst(c, e) \in Seq(Procs) /\ IsInjective(RemoveFirst(c, e))
               /\ Range(RemoveFirst(c, e)) \subseteq Range(c)
    BY <2>1, RemoveLemma, LinksAssumption
  <2> QED  BY <1>1, <2>1 DEF Apart
<1>10. FirstReady(l1) = FirstReady(l)
  BY <1>4 DEF FirstReady, EmptyRuns
<1> QED  BY <1>4, <1>6, <1>7, <1>8, <1>9, <1>10 DEF Lists, l1

\* The pause queue becomes the ready queue.
LEMMA RefillLists ==
    ASSUME NEW l, NEW z, NEW w, Lists(l, <<>>, z, w), z # <<>>
    PROVE  /\ Lists(PRefill(l), z, <<>>, w) /\ PRefill(l).ready = Head(z)
           /\ PRefill(l).ticks = [p \in Procs |-> IF p \in Range(z) THEN Priority[p]
                                                  ELSE l.ticks[p]]
<1> DEFINE l1 == PRefill(l)
           last == l.pre[PauseTail]
           n1 == [l.next EXCEPT ![last] = ReadyTail]
           p1 == [l.pre EXCEPT ![ReadyTail] = last]
           t1 == [p \in Procs |-> IF p \in Range(z) THEN Priority[p] ELSE l.ticks[p]]
<1>1. /\ l \in ListState /\ z \in Seq(Procs) /\ w \in Seq(Procs)
      /\ IsInjective(z) /\ IsInjective(w)
      /\ Range(z) \subseteq Procs /\ Range(w) \subseteq Procs
      /\ Range(z) \cap Range(w) = {}
      /\ Linked(l, z, l.pause, PauseTail) /\ Linked(l, w, l.wait, WaitTail)
  BY SeqFacts DEF Lists, Apart
<1>2. /\ last \in Range(z) /\ last \in Procs /\ last \in Nodes
      /\ l.pause = Head(z) /\ Head(z) \in Procs /\ Head(z) \in Nodes
      /\ l.next \in [Nodes -> Nodes \cup {Null}] /\ l.pre \in [Nodes -> Nodes \cup {Null}]
      /\ l.ticks \in [Procs -> Int]
      /\ ReadyTail \in Nodes /\ PauseTail \in Nodes /\ WaitTail \in Nodes
  <2>1. Head(z) \in Procs
    BY <1>1, HeadTailProperties
  <2> QED  BY <1>1, <2>1, ListFacts, NodeFacts
<1>3. OnChain(l, l.pause, PauseTail) = Range(z)
  BY <1>1, ChainIs, NodeFacts
<1>4. l1 = [l EXCEPT !.ready = l.pause, !.pause = PauseTail, !.next = n1, !.pre = p1, !.ticks = t1]
  BY <1>1, <1>3 DEF PRefill, ListState
<1>5. /\ n1 \in [Nodes -> Nodes \cup {Null}] /\ p1 \in [Nodes -> Nodes \cup {Null}]
      /\ t1 \in [Procs -> Int]
  <2>1. n1 \in [Nodes -> Nodes \cup {Null}] /\ p1 \in [Nodes -> Nodes \cup {Null}]
    <3> HIDE DEF last
    <3> QED  BY <1>2
  <2>2. t1 \in [Procs -> Int]
    BY <1>2, PriorityAssumption
  <2> QED  BY <2>1, <2>2
<1>6. \A x \in Nodes : /\ n1[x] = IF x = last THEN ReadyTail ELSE l.next[x]
                       /\ p1[x] = IF x = ReadyTail THEN last ELSE l.pre[x]
  <2> HIDE DEF last
  <2> QED  BY <1>2
<1> HIDE DEF n1, p1, t1
<1>7. /\ l1 \in ListState /\ l1.ready = Head(z) /\ l1.pause = PauseTail /\ l1.wait = l.wait
      /\ l1.next = n1 /\ l1.pre = p1 /\ l1.ticks = t1
  BY <1>1, <1>2, <1>4, <1>5 DEF ListState
<1> HIDE DEF l1, last
<1>8. FirstReady(l1) = l.pause
  BY <1>2, <1>7, NodeFacts DEF FirstReady, EmptyRuns
<1>9. Linked(l1, z, l.pause, ReadyTail)
  <2>1. l1.next[last] = ReadyTail /\ l1.pre[ReadyTail] = last
    BY <1>2, <1>6, <1>7
  <2>2. \A x \in Range(z) : l1.pre[x] = l.pre[x] /\ (x # last => l1.next[x] = l.next[x])
    BY <1>1, <1>6, <1>7, NodeFacts
  <2> QED  BY <1>1, <2>1, <2>2, LinkedSwap DEF last
<1>10. Linked(l1, <<>>, PauseTail, PauseTail)
  BY DEF Linked, Nth
<1>11. Linked(l1, w, l.wait, WaitTail)
  <2>1. \A x \in Range(w) : l1.next[x] = l.next[x] /\ l1.pre[x] = l.pre[x]
    BY <1>1, <1>2, <1>6, <1>7, NodeFacts
  <2>2. l1.pre[WaitTail] = l.pre[WaitTail]
    BY <1>2, <1>6, <1>7, NodeFacts
  <2> QED  BY <1>1, <2>1, <2>2, LinkedKept
<1>12. Apart(z, <<>>, w)
  <2>1. Apart(<<>>, z, w)
    BY DEF Lists
  <2> QED  BY <2>1 DEF Apart
<1> QED  BY <1>7, <1>8, <1>9, <1>10, <1>11, <1>12 DEF Lists, l1, t1

-----------------------------------------------------------------------------
(* The functions of the kernel, one by one.                                *)

LEMMA SpellsFacts ==
    ASSUME NEW l, NEW q, Spells(l, q)
    PROVE  /\ l \in ListState /\ q \in QueueState /\ Partitioned(q)
           /\ Lists(l, q.ready, q.pause, q.wait) /\ l.ticks = q.ticks
           /\ q.ready \in Seq(Procs) /\ q.pause \in Seq(Procs) /\ q.wait \in Seq(Procs)
           /\ q.ticks \in [Procs -> Int]
           /\ Idle(q) <=> l.ready \in {EmptyTask, ReadyTail}
           /\ ~Idle(q) => l.ready = Current(q) /\ Current(q) \in Procs
           /\ q = [ready |-> q.ready, pause |-> q.pause, wait |-> q.wait, ticks |-> q.ticks]
<1>1. Lists(l, q.ready, q.pause, q.wait) /\ l.ticks = q.ticks /\ q \in QueueState
  BY DEF Spells
<1>2. l \in ListState /\ Partitioned(q)
  BY <1>1 DEF Lists, Apart, Partitioned, Disjoint, NoRepeats
<1>3. /\ Idle(q) <=> l.ready \in {EmptyTask, ReadyTail}
      /\ ~Idle(q) => l.ready = Current(q) /\ Current(q) \in Procs
  BY <1>1, ListFacts DEF Idle, Current
<1> QED  BY <1>1, <1>2, <1>3 DEF QueueState

LEMMA SettledFacts ==
    ASSUME NEW l, NEW q, Settled(l, q)
    PROVE  /\ Spells(l, q) /\ WellFormed(q) /\ l.ready # ReadyTail
           /\ Idle(q) <=> EmptyRuns(l)
<1>1. Spells(l, q) /\ WorkConserving(q) /\ (Idle(q) => EmptyRuns(l))
  BY DEF Settled
<1>2. WellFormed(q)
  BY <1>1, SpellsFacts DEF WellFormed, Partitioned
<1> QED  BY <1>1, <1>2, SpellsFacts, NodeFacts DEF EmptyRuns

LEMMA ParkSpells ==
    ASSUME NEW l, NEW q, Spells(l, q), ~Idle(q)
    PROVE  LET l1 == ToPause([l EXCEPT !.ready = l.next[l.ready]], l.ready)
           IN  Spells(l1, Park(q)) /\ (ReadyOneLeft(l) <=> Len(q.ready) = 1)
<1> DEFINE l0 == [l EXCEPT !.ready = l.next[l.ready]]
           l1 == ToPause(l0, l.ready)
           c == Current(q)
           t == Tail(q.ready)
<1>1. /\ Lists(l, q.ready, q.pause, q.wait) /\ l.ready = c /\ c \in Procs /\ q.ready # <<>>
      /\ q \in QueueState /\ q.ready \in Seq(Procs) /\ IsInjective(q.ready)
      /\ l.ticks = q.ticks /\ l \in ListState
      /\ Partitioned(q)
  BY SpellsFacts DEF Idle, Lists, Apart
<1>2. /\ Lists(l0, t, q.pause, q.wait) /\ l0.ticks = l.ticks
      /\ l0.ready = ReadyTail <=> Len(q.ready) = 1
  BY <1>1, DropReady
<1>3. l0.ready = l.next[l.ready]
  BY <1>1 DEF ListState
<1>4. c \notin Range(t) /\ c \notin Range(q.pause) /\ c \notin Range(q.wait)
  BY <1>1, TailLemma, LinksAssumption DEF Current, Partitioned, Disjoint
<1> HIDE DEF l0
<1>5. /\ Lists(l1, t, Append(q.pause, c), q.wait) /\ l1.ticks = q.ticks
  BY <1>1, <1>2, <1>4, ToPauseLists
<1>6. /\ Park(q).ready = t /\ Park(q).pause = Append(q.pause, c) /\ Park(q).wait = q.wait
      /\ Park(q).ticks = q.ticks
  BY <1>1 DEF Park, QueueState
<1>7. Park(q) \in QueueState
  BY <1>1, ParkLemma, LinksAssumption DEF Partitioned
<1>8. Spells(l1, Park(q))
  BY <1>5, <1>6, <1>7 DEF Spells
<1>9. ReadyOneLeft(l) <=> Len(q.ready) = 1
  BY <1>2, <1>3 DEF ReadyOneLeft
<1> QED  BY <1>8, <1>9 DEF l0

LEMMA RefillSpells ==
    ASSUME NEW l, NEW q, Spells(l, q), Idle(q), q.pause # <<>>
    PROVE  Spells(PRefill(l), Refill(q)) /\ ~Idle(Refill(q))
<1> DEFINE f == [p \in Procs |-> IF p \in Range(q.pause) THEN Priority[p] ELSE q.ticks[p]]
<1>1. /\ Lists(l, <<>>, q.pause, q.wait) /\ l.ticks = q.ticks /\ q \in QueueState
      /\ Partitioned(q)
  BY SpellsFacts DEF Idle
<1>2. Lists(PRefill(l), q.pause, <<>>, q.wait) /\ PRefill(l).ticks = f
  BY <1>1, RefillLists
<1>3. Refill(q) = [q EXCEPT !.ready = q.pause, !.pause = <<>>, !.ticks = f]
  BY DEF Refill
<1> HIDE DEF f
<1>4. /\ Refill(q).ready = q.pause /\ Refill(q).pause = <<>> /\ Refill(q).wait = q.wait
      /\ Refill(q).ticks = f
  BY <1>1, <1>3 DEF QueueState
<1>5. Refill(q) \in QueueState
  BY <1>1, RefillLemma, LinksAssumption DEF Partitioned
<1> QED  BY <1>2, <1>4, <1>5 DEF Spells, Idle

\* schedule().
LEMMA ScheduleSettles ==
    ASSUME NEW l, NEW q, Spells(l, q)
    PROVE  Settled(PSchedule(l), Schedule(q))
<1>1. Lists(l, q.ready, q.pause, q.wait) /\ Partitioned(q) /\ l \in ListState
  BY SpellsFacts
<1>2. WorkConserving(Schedule(q))
  BY <1>1, ScheduleLemma, LinksAssumption
<1>3. SUFFICES /\ Spells(PSchedule(l), Schedule(q))
               /\ Idle(Schedule(q)) => EmptyRuns(PSchedule(l))
  BY <1>2 DEF Settled
<1>4. CASE Idle(q)
  <2> DEFINE m == IF EmptyRuns(l) THEN [l EXCEPT !.ready = ReadyTail] ELSE l
             k == [m EXCEPT !.ready = EmptyTask, !.pre[ReadyTail] = EmptyTask]
  <2>1. l.ready \in {EmptyTask, ReadyTail}
    BY <1>4, SpellsFacts
  <2>2. /\ m \in ListState /\ m.ready = ReadyTail /\ m.pause = l.pause /\ m.wait = l.wait
        /\ m.next = l.next /\ m.pre = l.pre /\ m.ticks = l.ticks
    BY <1>1, <2>1, NodeFacts DEF EmptyRuns, ListState
  <2> HIDE DEF m
  <2>3. FirstReady(l) = ReadyTail /\ FirstReady(m) = ReadyTail
    BY <2>1, <2>2, NodeFacts DEF FirstReady, EmptyRuns
  <2>4. Lists(m, q.ready, q.pause, q.wait)
    BY <1>1, <2>2, <2>3, LinkedSame DEF Lists
  <2>5. Spells(m, q)
    BY <2>2, <2>4 DEF Spells
  <2>6. CASE q.pause = <<>>
    <3>1. PauseEmpty(m)
      BY <2>4, <2>6, ListFacts
    <3>2. PSchedule(l) = k
      BY <2>2, <3>1 DEF PSchedule, ReadyEmpty, m
    <3>3. Schedule(q) = q
      BY <1>4, <2>6 DEF Schedule
    <3>4. /\ k \in ListState /\ k.ready = EmptyTask /\ k.pause = m.pause /\ k.wait = m.wait
          /\ k.next = m.next /\ k.ticks = m.ticks
          /\ \A x \in Nodes : x # ReadyTail => k.pre[x] = m.pre[x]
      BY <2>2, NodeFacts DEF ListState
    <3> HIDE DEF k
    <3>5. q.ready = <<>> /\ FirstReady(k) = ReadyTail
      BY <1>4, <3>4 DEF Idle, FirstReady, EmptyRuns
    <3>6. Linked(k, <<>>, ReadyTail, ReadyTail) /\ Linked(k, <<>>, m.pause, PauseTail)
      BY <3>1 DEF Linked, Nth, PauseEmpty
    <3>7. Linked(k, q.wait, m.wait, WaitTail)
      <4>1. Linked(m, q.wait, m.wait, WaitTail) /\ q.wait \in Seq(Procs)
        BY <2>4 DEF Lists, Apart
      <4>2. Range(q.wait) \subseteq Procs
        BY <4>1, SeqFacts
      <4>3. \A x \in Range(q.wait) : k.next[x] = m.next[x] /\ k.pre[x] = m.pre[x]
        BY <3>4, <4>2, NodeFacts
      <4>4. k.pre[WaitTail] = m.pre[WaitTail]
        BY <3>4, NodeFacts
      <4> QED  BY <4>1, <4>3, <4>4, LinkedKept
    <3>8. Lists(k, q.ready, q.pause, q.wait)
      BY <2>4, <2>6, <3>4, <3>5, <3>6, <3>7 DEF Lists
    <3>9. Spells(k, q)
      BY <2>5, <3>4, <3>8 DEF Spells
    <3> QED  BY <3>2, <3>3, <3>4, <3>9 DEF EmptyRuns
  <2>7. CASE q.pause # <<>>
    <3>1. ~PauseEmpty(m)
      BY <2>4, <2>7, ListFacts
    <3>2. PSchedule(l) = PRefill(m)
      BY <2>2, <3>1 DEF PSchedule, ReadyEmpty, m
    <3>3. Schedule(q) = Refill(q)
      BY <1>4, <2>7 DEF Schedule
    <3> QED  BY <1>4, <2>5, <2>7, <3>2, <3>3, RefillSpells
  <2> QED  BY <2>6, <2>7
<1>5. CASE ~Idle(q)
  <2> DEFINE parked == ToPause([l EXCEPT !.ready = l.next[l.ready]], l.ready)
  <2>1. Spells(parked, Park(q)) /\ (ReadyOneLeft(l) <=> Len(q.ready) = 1)
    BY <1>5, ParkSpells
  <2>2. ~EmptyRuns(l) /\ ~ReadyEmpty(l)
    BY <1>5, SpellsFacts, NodeFacts DEF EmptyRuns, ReadyEmpty
  <2>3. PSchedule(l) = IF ReadyOneLeft(l) THEN PRefill(parked) ELSE parked
    BY <2>2 DEF PSchedule
  <2> HIDE DEF parked
  <2>4. /\ q.ready \in Seq(Procs) /\ q.ready # <<>> /\ q.pause \in Seq(Procs)
        /\ Current(q) \in Procs /\ q \in QueueState
    BY <1>5, SpellsFacts DEF Idle
  <2>5. Park(q).ready = Tail(q.ready) /\ Park(q).pause = Append(q.pause, Current(q))
    BY <2>4 DEF Park, QueueState
  <2>6. Park(q).pause # <<>>
    BY <2>4, <2>5, AppendProperties
  <2>7. Idle(Park(q)) <=> Len(q.ready) = 1
    <3>1. /\ Tail(q.ready) \in Seq(Procs) /\ Len(Tail(q.ready)) = Len(q.ready) - 1
          /\ Len(q.ready) \in Nat \ {0}
      BY <2>4, HeadTailProperties, SeqFacts
    <3>2. Tail(q.ready) = <<>> <=> Len(Tail(q.ready)) = 0
      BY <3>1, SeqFacts
    <3> QED  BY <2>5, <3>1, <3>2 DEF Idle
  <2>8. CASE Len(q.ready) = 1
    <3>1. PSchedule(l) = PRefill(parked) /\ Schedule(q) = Refill(Park(q))
      BY <1>5, <2>1, <2>3, <2>8 DEF Schedule
    <3> QED  BY <2>1, <2>6, <2>7, <2>8, <3>1, RefillSpells
  <2>9. CASE Len(q.ready) # 1
    <3>1. PSchedule(l) = parked /\ Schedule(q) = Park(q)
      BY <1>5, <2>1, <2>3, <2>9 DEF Schedule
    <3> QED  BY <2>1, <2>7, <2>9, <3>1
  <2> QED  BY <2>8, <2>9
<1> QED  BY <1>4, <1>5

\* block().
LEMMA BlockSettles ==
    ASSUME NEW l, NEW q, Settled(l, q), ~Idle(q)
    PROVE  Settled(PBlock(l), Block(q))
<1> DEFINE l0 == [l EXCEPT !.ready = l.next[l.ready]]
           b == ToWait(l0, l.ready)
           c == Current(q)
           t == Tail(q.ready)
           k == [q EXCEPT !.ready = Tail(@), !.wait = Append(@, Current(q))]
<1>1. /\ Lists(l, q.ready, q.pause, q.wait) /\ l.ready = c /\ c \in Procs /\ q.ready # <<>>
      /\ q \in QueueState /\ q.ready \in Seq(Procs) /\ IsInjective(q.ready)
      /\ q.wait \in Seq(Procs) /\ l.ticks = q.ticks /\ Partitioned(q)
  BY SettledFacts, SpellsFacts DEF Idle, Lists, Apart
<1>2. /\ Lists(l0, t, q.pause, q.wait) /\ l0.ticks = l.ticks /\ l0.ready # EmptyTask
  BY <1>1, DropReady
<1>3. c \notin Range(t) /\ c \notin Range(q.pause) /\ c \notin Range(q.wait) /\ t \in Seq(Procs)
  BY <1>1, TailLemma, LinksAssumption DEF Current, Partitioned, Disjoint
<1>4. PBlock(l) = IF ReadyEmpty(b) THEN PSchedule(b) ELSE b
  BY DEF PBlock
<1>5. Block(q) = IF Idle(k) THEN Schedule(k) ELSE k
  BY DEF Block
<1> HIDE DEF l0
<1>6. Lists(b, t, q.pause, Append(q.wait, c)) /\ b.ticks = q.ticks /\ b.ready = l0.ready
  BY <1>1, <1>2, <1>3, ToWaitLists
<1>7. Append(q.wait, c) \in Seq(Procs)
  BY <1>1, AppendProperties
<1>8. /\ k.ready = t /\ k.pause = q.pause /\ k.wait = Append(q.wait, c) /\ k.ticks = q.ticks
      /\ k \in QueueState
  BY <1>1, <1>3, <1>7 DEF QueueState
<1> HIDE DEF b, k
<1>9. Spells(b, k)
  BY <1>6, <1>8 DEF Spells
<1>10. ReadyEmpty(b) <=> Idle(k)
  BY <1>2, <1>6, <1>9, SpellsFacts DEF ReadyEmpty
<1>11. CASE Idle(k)
  BY <1>4, <1>5, <1>9, <1>10, <1>11, ScheduleSettles
<1>12. CASE ~Idle(k)
  BY <1>4, <1>5, <1>9, <1>10, <1>12 DEF Settled, WorkConserving
<1> QED  BY <1>11, <1>12

\* unblock().
LEMMA UnblockSpells ==
    ASSUME NEW l, NEW q, Spells(l, q), NEW p \in Range(q.wait)
    PROVE  Spells(PUnblock(l, p), Unblock(q, p)) /\ PUnblock(l, p).ready = l.ready
<1> DEFINE w == RemoveFirst(q.wait, p)
           l0 == IF l.wait = p THEN [l EXCEPT !.wait = l.next[p]] ELSE Unlink(l, p)
<1>1. /\ Lists(l, q.ready, q.pause, q.wait) /\ l.ticks = q.ticks /\ Partitioned(q)
      /\ q \in QueueState /\ q.ready \in Seq(Procs) /\ q.pause \in Seq(Procs)
      /\ q.wait \in Seq(Procs) /\ p \in Procs
      /\ p \notin Range(q.ready) /\ p \notin Range(q.pause) /\ IsInjective(q.wait)
      /\ q.wait # <<>>
  <2>1. /\ Lists(l, q.ready, q.pause, q.wait) /\ l.ticks = q.ticks /\ Partitioned(q)
        /\ q \in QueueState /\ q.ready \in Seq(Procs) /\ q.pause \in Seq(Procs)
        /\ q.wait \in Seq(Procs)
    BY SpellsFacts
  <2>2. p \in Procs /\ q.wait # <<>>
    BY <2>1, SeqFacts DEF Range
  <2>3. p \notin Range(q.ready) /\ p \notin Range(q.pause) /\ IsInjective(q.wait)
    BY <2>1 DEF Partitioned, Disjoint, NoRepeats
  <2> QED  BY <2>1, <2>2, <2>3
<1>2. l.wait = Head(q.wait)
  BY <1>1, ListFacts
<1>3. Lists(l0, q.ready, q.pause, w) /\ l0.ready = l.ready /\ l0.ticks = l.ticks
  <2>1. CASE l.wait = p
    <3>1. RemoveFirst(q.wait, p) = Tail(q.wait)
      BY <1>1, <1>2, <2>1, RemoveHead
    <3> QED  BY <1>1, <2>1, <3>1, DropWait
  <2>2. CASE l.wait # p
    BY <1>1, <1>2, <2>2, UnlinkLists, RemoveNone
  <2> QED  BY <2>1, <2>2
<1>4. PUnblock(l, p) = ToPause(l0, p)
  BY DEF PUnblock
<1>5. w \in Seq(Procs) /\ p \notin Range(w)
  BY <1>1, RemoveLemma, LinksAssumption
<1> HIDE DEF l0
<1>6. /\ Lists(PUnblock(l, p), q.ready, Append(q.pause, p), w)
      /\ PUnblock(l, p).ready = l.ready /\ PUnblock(l, p).ticks = q.ticks
  BY <1>1, <1>3, <1>4, <1>5, ToPauseLists
<1>7. Append(q.pause, p) \in Seq(Procs)
  BY <1>1, AppendProperties
<1>8. /\ Unblock(q, p).ready = q.ready /\ Unblock(q, p).pause = Append(q.pause, p)
      /\ Unblock(q, p).wait = w /\ Unblock(q, p).ticks = q.ticks /\ Unblock(q, p) \in QueueState
  BY <1>1, <1>5, <1>7 DEF Unblock, QueueState
<1> QED  BY <1>6, <1>8 DEF Spells

\* unblock() from a handler, and the schedule() that follows if nothing ran.
LEMMA WakeSettles ==
    ASSUME NEW l, NEW q, Settled(l, q), NEW p \in Range(q.wait)
    PROVE  Settled(PWake(l, p), Wake(q, p))
<1>1. Spells(l, q) /\ WellFormed(q) /\ l.ready # ReadyTail /\ (Idle(q) <=> EmptyRuns(l))
  BY SettledFacts
<1>2. Spells(PUnblock(l, p), Unblock(q, p)) /\ PUnblock(l, p).ready = l.ready
  BY <1>1, UnblockSpells
<1>3. Idle(Unblock(q, p)) <=> EmptyRuns(PUnblock(l, p))
  BY <1>1, <1>2, SpellsFacts DEF EmptyRuns
<1>4. PWake(l, p) = IF EmptyRuns(PUnblock(l, p)) THEN PSchedule(PUnblock(l, p))
                    ELSE PUnblock(l, p)
  BY DEF PWake
<1>5. Wake(q, p) = IF Idle(Unblock(q, p)) THEN Schedule(Unblock(q, p)) ELSE Unblock(q, p)
  BY DEF Wake
<1>6. CASE Idle(Unblock(q, p))
  BY <1>2, <1>3, <1>4, <1>5, <1>6, ScheduleSettles
<1>7. CASE ~Idle(Unblock(q, p))
  BY <1>2, <1>3, <1>4, <1>5, <1>7 DEF Settled, WorkConserving
<1> QED  BY <1>6, <1>7

\* shedule_pcb().
LEMMA EnqueueSettles ==
    ASSUME NEW l, NEW q, Settled(l, q), ~Idle(q), NEW p \in Procs, p \notin Queued(q)
    PROVE  Settled(PEnqueue(l, p), Enqueue(q, p))
<1> DEFINE k == ToPause(l, p)
           f == [q.ticks EXCEPT ![p] = Priority[p]]
           e == Enqueue(q, p)
<1>1. /\ Lists(l, q.ready, q.pause, q.wait) /\ l.ticks = q.ticks
      /\ q \in QueueState /\ q.pause \in Seq(Procs) /\ q.ticks \in [Procs -> Int]
      /\ WellFormed(q)
  BY SettledFacts, SpellsFacts
<1>2. Lists(k, q.ready, Append(q.pause, p), q.wait) /\ k.ready = l.ready /\ k.ticks = q.ticks
  BY <1>1, ToPauseLists DEF Queued, Runnable
<1>3. PEnqueue(l, p) = [k EXCEPT !.ticks[p] = Priority[p]]
  BY DEF PEnqueue
<1> HIDE DEF k
<1>4. f \in [Procs -> Int]
  BY <1>1, PriorityAssumption
<1>5. k \in ListState
  BY <1>2 DEF Lists
<1>6. PEnqueue(l, p) = [k EXCEPT !.ticks = f]
  BY <1>2, <1>3, <1>5 DEF ListState
<1>7. e.ready = q.ready /\ e.pause = Append(q.pause, p) /\ e.wait = q.wait /\ e.ticks = f
  BY <1>1 DEF Enqueue, QueueState
<1>8. e \in QueueState /\ WorkConserving(e)
  BY <1>1, EnqueueLemma, LinksAssumption DEF WellFormed
<1> HIDE DEF f, e
<1> DEFINE m == PEnqueue(l, p)
<1>9. /\ m \in ListState /\ m.ready = k.ready /\ m.pause = k.pause /\ m.wait = k.wait
      /\ m.next = k.next /\ m.pre = k.pre /\ m.ticks = f
  BY <1>4, <1>5, <1>6 DEF ListState
<1> HIDE DEF m
<1>10. FirstReady(m) = FirstReady(k)
  BY <1>9 DEF FirstReady, EmptyRuns
<1>11. Lists(m, q.ready, Append(q.pause, p), q.wait)
  BY <1>2, <1>9, <1>10, LinkedSame DEF Lists
<1> QED  BY <1>7, <1>8, <1>9, <1>11 DEF Settled, Spells, Idle, m, e

\* free_pcb(), of neither the running process nor the head of the pause queue.
LEMMA DequeueSettles ==
    ASSUME NEW l, NEW q, Settled(l, q), ~Idle(q), NEW p \in Queued(q),
           p # l.ready, p # l.pause
    PROVE  Settled(PDequeue(l, p), Dequeue(q, p))
<1> DEFINE r == RemoveFirst(q.ready, p)
           z == RemoveFirst(q.pause, p)
           w == RemoveFirst(q.wait, p)
           m == PDequeue(l, p)
           d == Dequeue(q, p)
<1>1. /\ Lists(l, q.ready, q.pause, q.wait) /\ l.ticks = q.ticks
      /\ q \in QueueState /\ q.ready \in Seq(Procs) /\ q.pause \in Seq(Procs)
      /\ q.wait \in Seq(Procs) /\ WellFormed(q) /\ Partitioned(q) /\ IsInjective(q.wait)
      /\ l.ready = Current(q) /\ q.ready # <<>> /\ l.ready = Head(q.ready)
      /\ ~EmptyRuns(l)
  BY SettledFacts, SpellsFacts DEF Idle, Current, Partitioned, NoRepeats
<1>2. /\ p \in Range(q.ready) => p # Head(q.ready)
      /\ p \in Range(q.pause) => p # Head(q.pause)
      /\ q.wait # <<>> => l.wait = Head(q.wait)
      /\ q.wait = <<>> <=> WaitEmpty(l)
  <2>1. p \in Range(q.pause) => q.pause # <<>>
    BY <1>1, SeqFacts DEF Range
  <2> QED  BY <1>1, <2>1, ListFacts
<1>3. Lists(m, r, z, w) /\ m.ready = l.ready /\ m.ticks = l.ticks
  <2>1. CASE l.wait = p
    <3>1. p \in Procs
      BY <1>1, SeqFacts DEF Queued, Runnable
    <3>2. q.wait # <<>> /\ p = Head(q.wait)
      BY <1>2, <2>1, <3>1, NodeFacts DEF WaitEmpty
    <3>3. p \in Range(q.wait)
      BY <1>1, <3>2, TailLemma, LinksAssumption
    <3>4. p \notin Range(q.ready) /\ p \notin Range(q.pause)
      BY <1>1, <3>3 DEF Partitioned, Disjoint
    <3>5. r = q.ready /\ z = q.pause /\ w = Tail(q.wait)
      BY <1>1, <3>2, <3>4, RemoveNone, RemoveHead
    <3>6. m = [l EXCEPT !.wait = l.next[l.wait]]
      BY <2>1 DEF PDequeue
    <3> HIDE DEF r, z, w, m
    <3> QED  BY <1>1, <3>2, <3>5, <3>6, DropWait
  <2>2. CASE l.wait # p
    <3>1. m = Unlink(l, p)
      BY <2>2 DEF PDequeue
    <3>2. p \in Range(q.wait) => p # Head(q.wait)
      <4>1. p \in Range(q.wait) => q.wait # <<>>
        BY <1>1, SeqFacts DEF Range
      <4> QED  BY <1>2, <2>2, <4>1
    <3> QED  BY <1>1, <1>2, <3>1, <3>2, UnlinkLists DEF Queued, Runnable
  <2> QED  BY <2>1, <2>2
<1>4. d \in QueueState /\ WorkConserving(d)
  BY <1>1, DequeueLemma, LinksAssumption DEF WellFormed
<1>5. d.ready = r /\ d.pause = z /\ d.wait = w /\ d.ticks = q.ticks
  BY <1>1 DEF Dequeue, QueueState
<1> HIDE DEF r, z, w, m, d
<1>6. Spells(m, d)
  BY <1>1, <1>3, <1>4, <1>5 DEF Spells
<1>7. ~Idle(d)
  BY <1>1, <1>3, <1>6, SpellsFacts, SettledFacts DEF EmptyRuns
<1> QED  BY <1>4, <1>6, <1>7 DEF Settled, m, d

\* A tick.
LEMMA ChargeSettles ==
    ASSUME NEW l, NEW q, Settled(l, q)
    PROVE  Settled(PCharge(l), Charge(q))
<1>1. /\ Spells(l, q) /\ WorkConserving(q) /\ (Idle(q) <=> EmptyRuns(l))
      /\ Lists(l, q.ready, q.pause, q.wait) /\ l.ticks = q.ticks /\ l \in ListState
      /\ q \in QueueState
  BY SettledFacts, SpellsFacts DEF Settled
<1>2. CASE Idle(q)
  BY <1>1, <1>2 DEF PCharge, Charge
<1>3. CASE ~Idle(q)
  <2> DEFINE f == [q.ticks EXCEPT ![Current(q)] = @ - 1]
             m == PCharge(l)
             d == Charge(q)
  <2>1. q.ticks \in [Procs -> Int] /\ Current(q) \in Procs /\ l.ready = Current(q)
    BY <1>1, <1>3, SpellsFacts
  <2>2. f \in [Procs -> Int]
    BY <2>1
  <2>3. m = [l EXCEPT !.ticks = f] /\ d = [q EXCEPT !.ticks = f]
    BY <1>1, <1>3, <2>1 DEF PCharge, Charge, QueueState, ListState
  <2> HIDE DEF f, m, d
  <2>4. /\ m \in ListState /\ m.ready = l.ready /\ m.pause = l.pause /\ m.wait = l.wait
        /\ m.next = l.next /\ m.pre = l.pre /\ m.ticks = f
    BY <1>1, <2>2, <2>3 DEF ListState
  <2>5. /\ d \in QueueState /\ d.ready = q.ready /\ d.pause = q.pause /\ d.wait = q.wait
        /\ d.ticks = f
    BY <1>1, <2>2, <2>3 DEF QueueState
  <2>6. FirstReady(m) = FirstReady(l)
    BY <2>4 DEF FirstReady, EmptyRuns
  <2>7. Lists(m, d.ready, d.pause, d.wait)
    BY <1>1, <2>4, <2>5, <2>6, LinkedSame DEF Lists
  <2> QED  BY <1>1, <1>3, <2>4, <2>5, <2>7 DEF Settled, Spells, Idle, WorkConserving, m, d
<1> QED  BY <1>2, <1>3

\* The end of clock_handler().
LEMMA ExpireSettles ==
    ASSUME NEW l, NEW q, Settled(l, q)
    PROVE  Settled(PExpire(l), Expire(q))
<1>1. Spells(l, q) /\ (Idle(q) <=> EmptyRuns(l))
  BY SettledFacts
<1>2. ~Idle(q) => l.ready = Current(q) /\ l.ticks = q.ticks
  BY <1>1, SpellsFacts
<1>3. CASE ~Idle(q) /\ q.ticks[Current(q)] > 0
  BY <1>1, <1>2, <1>3 DEF PExpire, Expire
<1>4. CASE ~ (~Idle(q) /\ q.ticks[Current(q)] > 0)
  <2>1. PExpire(l) = PSchedule(l) /\ Expire(q) = Schedule(q)
    BY <1>1, <1>2, <1>4, Zenon DEF PExpire, Expire
  <2> QED  BY <1>1, <2>1, ScheduleSettles
<1> QED  BY <1>3, <1>4

-----------------------------------------------------------------------------
(* Reading the queues back.                                                *)

LEMMA ReadBack ==
    ASSUME NEW l, NEW q, Settled(l, q)
    PROVE  /\ Abs(l) = q
           /\ OnChain(l, l.wait, WaitTail) = Range(q.wait)
           /\ \A p : InQueue(l, p) <=> p \in Queued(q)
<1>1. Spells(l, q) /\ (Idle(q) <=> EmptyRuns(l))
  BY SettledFacts
<1>2. /\ Lists(l, q.ready, q.pause, q.wait) /\ l.ticks = q.ticks /\ l \in ListState
      /\ q.ready \in Seq(Procs) /\ q.pause \in Seq(Procs) /\ q.wait \in Seq(Procs)
      /\ IsInjective(q.ready) /\ IsInjective(q.pause) /\ IsInjective(q.wait)
      /\ q = [ready |-> q.ready, pause |-> q.pause, wait |-> q.wait, ticks |-> q.ticks]
  BY <1>1, SpellsFacts DEF Partitioned, NoRepeats
<1>3. /\ Chain(l, l.pause, PauseTail) = q.pause
      /\ OnChain(l, l.pause, PauseTail) = Range(q.pause)
      /\ Chain(l, l.wait, WaitTail) = q.wait
      /\ OnChain(l, l.wait, WaitTail) = Range(q.wait)
  <2>1. Linked(l, q.pause, l.pause, PauseTail) /\ Linked(l, q.wait, l.wait, WaitTail)
    BY <1>2 DEF Lists
  <2> QED  BY <1>2, <2>1, ChainIs, NodeFacts
<1>4. CASE Idle(q)
  <2>1. q.ready = <<>> /\ Range(q.ready) = {}
    BY <1>2, <1>4, SeqFacts DEF Idle, Range
  <2>2. ReadySeq(l) = q.ready
    BY <1>1, <1>4, <2>1 DEF ReadySeq
  <2> QED  BY <1>1, <1>2, <1>3, <1>4, <2>1, <2>2 DEF Abs, InQueue, Queued, Runnable
<1>5. CASE ~Idle(q)
  <2>1. Linked(l, q.ready, l.ready, ReadyTail)
    BY <1>1, <1>2, <1>5 DEF Lists, FirstReady
  <2>2. Chain(l, l.ready, ReadyTail) = q.ready /\ OnChain(l, l.ready, ReadyTail) = Range(q.ready)
    BY <1>2, <2>1, ChainIs, NodeFacts
  <2>3. ReadySeq(l) = q.ready
    BY <1>1, <1>5, <2>2 DEF ReadySeq
  <2> QED  BY <1>1, <1>2, <1>3, <1>5, <2>2, <2>3 DEF Abs, InQueue, Queued, Runnable
<1> QED  BY <1>4, <1>5

BootQueues(table) == [ready |-> table, pause |-> <<>>, wait |-> <<>>, ticks |-> Priority]

\* start_proc().
LEMMA BootSettles ==
    ASSUME NEW table \in Seq(Procs), table # <<>>, IsInjective(table)
    PROVE  Settled(BootList(table), BootQueues(table))
<1> DEFINE l == BootList(table)
           n == Len(table)
           inTable(x) == \E i \in 1 .. n : table[i] = x
           pos(x) == CHOOSE i \in 1 .. n : table[i] = x
           n1 == [x \in Nodes |-> IF inTable(x) /\ pos(x) < n THEN table[pos(x) + 1]
                                  ELSE IF inTable(x) \/ x = EmptyTask THEN ReadyTail
                                  ELSE Null]
           p1 == [x \in Nodes |-> IF x = ReadyTail THEN table[n]
                                  ELSE IF inTable(x) /\ pos(x) > 1
                                  THEN table[pos(x) - 1] ELSE Null]
<1>1. /\ table \in Seq(Procs) /\ table # <<>> /\ IsInjective(table) /\ n \in Nat \ {0}
      /\ DOMAIN table = 1 .. n
      /\ \A i \in 1 .. n : table[i] \in Procs /\ table[i] \in Nodes
      /\ Priority \in [Procs -> Int]
  BY PriorityAssumption, SeqFacts, NodeFacts
<1>2. \A i \in 1 .. n : inTable(table[i]) /\ pos(table[i]) = i
  BY <1>1 DEF IsInjective
<1>3. \A x : inTable(x) => pos(x) \in 1 .. n
  OBVIOUS
<1>4. \A x : inTable(x) => x \in Procs
  BY <1>1
<1>5. l = [ready |-> table[1], pause |-> PauseTail, wait |-> WaitTail,
           next |-> n1, pre |-> p1, ticks |-> Priority]
  BY DEF BootList
<1> HIDE DEF inTable, pos
<1>6. n1 \in [Nodes -> Nodes \cup {Null}]
  <2>1. ASSUME NEW x, inTable(x), pos(x) < n PROVE table[pos(x) + 1] \in Nodes
    <3>1. pos(x) + 1 \in 1 .. n
      BY <1>1, <1>3, <2>1
    <3> QED  BY <1>1, <3>1
  <2> QED  BY <2>1, NodeFacts
<1>7. p1 \in [Nodes -> Nodes \cup {Null}]
  <2>1. ASSUME NEW x, inTable(x), pos(x) > 1 PROVE table[pos(x) - 1] \in Nodes
    <3>1. pos(x) - 1 \in 1 .. n
      BY <1>1, <1>3, <2>1
    <3> QED  BY <1>1, <3>1
  <2>2. n \in 1 .. n
    BY <1>1
  <2> QED  BY <1>1, <2>1, <2>2
<1>8. \A i \in 1 .. n : n1[table[i]] = Nth(table, i + 1, ReadyTail)
  <2>1. ASSUME NEW i \in 1 .. n PROVE n1[table[i]] = Nth(table, i + 1, ReadyTail)
    <3>1. inTable(table[i]) /\ pos(table[i]) = i /\ table[i] \in Nodes
      BY <1>1, <1>2
    <3>2. i < n <=> i + 1 <= n
      BY <1>1
    <3> QED  BY <3>1, <3>2 DEF Nth
  <2> QED  BY <2>1
<1>9. \A i \in 1 .. n - 1 : p1[table[i + 1]] = table[i]
  <2>1. ASSUME NEW i \in 1 .. n - 1 PROVE p1[table[i + 1]] = table[i]
    <3> DEFINE j == i + 1
    <3>1. j \in 1 .. n /\ j > 1 /\ j - 1 = i
      BY <1>1
    <3> HIDE DEF j
    <3>2. inTable(table[j]) /\ pos(table[j]) = j /\ table[j] \in Nodes /\ table[j] # ReadyTail
      BY <1>1, <1>2, <3>1, NodeFacts
    <3>3. p1[table[j]] = table[j - 1]
      BY <3>1, <3>2
    <3> QED  BY <3>1, <3>3 DEF j
  <2> QED  BY <2>1
<1>10. p1[ReadyTail] = table[n]
  BY NodeFacts
<1> HIDE DEF n1, p1, n
<1>11. /\ table[1] \in Procs /\ table[1] \in Nodes /\ Nth(table, 1, ReadyTail) = table[1]
  BY <1>1 DEF Nth, n
<1>12. /\ l \in ListState /\ l.ready = table[1] /\ l.pause = PauseTail /\ l.wait = WaitTail
       /\ l.next = n1 /\ l.pre = p1 /\ l.ticks = Priority
  BY <1>1, <1>5, <1>6, <1>7, <1>11, NodeFacts DEF ListState
<1> HIDE DEF l
<1>13. FirstReady(l) = table[1] /\ ~EmptyRuns(l)
  BY <1>11, <1>12, NodeFacts DEF FirstReady, EmptyRuns
<1>14. Linked(l, table, FirstReady(l), ReadyTail)
  BY <1>8, <1>9, <1>10, <1>11, <1>12, <1>13 DEF Linked, n
<1>15. Linked(l, <<>>, PauseTail, PauseTail) /\ Linked(l, <<>>, WaitTail, WaitTail)
  BY DEF Linked, Nth
<1>16. Apart(table, <<>>, <<>>)
  <2>1. <<>> \in Seq(Procs) /\ Range(<<>>) = {} /\ IsInjective(<<>>)
    BY SeqFacts DEF Range, IsInjective
  <2> QED  BY <1>1, <2>1 DEF Apart
<1>17. Lists(l, table, <<>>, <<>>)
  BY <1>12, <1>14, <1>15, <1>16 DEF Lists
<1>18. /\ BootQueues(table) \in QueueState /\ BootQueues(table).ready = table /\ BootQueues(table).pause = <<>>
       /\ BootQueues(table).wait = <<>> /\ BootQueues(table).ticks = Priority
  BY <1>1, <1>16 DEF BootQueues, QueueState, Apart
<1> QED  BY <1>1, <1>12, <1>17, <1>18 DEF Settled, Spells, WorkConserving, Idle, l
=============================================================================
