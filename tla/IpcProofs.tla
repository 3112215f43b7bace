------------------------------ MODULE IpcProofs ------------------------------
(***************************************************************************)
(* The invariants of the message passing for any set of processes, any     *)
(* number of timers and any interrupt lines.                               *)
(***************************************************************************)
EXTENDS Ipc, QueueProofs

\* A slot that is armed has time left to count down.
ArmedPositive == \A i \in Slots : timers[i].pid # NO_TASK => timers[i].time > 0

IInv == /\ TypeOK
        /\ WellFormed(q)
        /\ BlockedAreWaiting
        /\ OneSender
        /\ NoMissedRendezvous
        /\ NoMissedInterrupt
        /\ ArmedPositive

\* A process that makes a system call is not blocked, and not in the wait
\* queue.
LEMMA CallerIsFree ==
    ASSUME IInv, NEW p \in Procs, Calls(p)
    PROVE  /\ kernel = "run" /\ clk = 0 /\ ~Idle(q) /\ Current(q) = p
           /\ p \notin Range(q.wait) /\ flags[p] = {}
<1>1. kernel = "run" /\ clk = 0 /\ ~Idle(q) /\ Current(q) = p
  BY DEF Calls, Running
<1>2. p \in Runnable(q)
  BY <1>1, BlockLemma DEF IInv
<1>3. p \notin Range(q.wait)
  BY <1>2 DEF IInv, WellFormed, Disjoint, Runnable
<1> QED  BY <1>1, <1>3 DEF IInv, BlockedAreWaiting

-----------------------------------------------------------------------------
(* System calls.                                                           *)

LEMMA DeliverInv ==
    ASSUME IInv, NEW p \in Procs, NEW d \in Procs, NEW b \in Bodies,
           Calls(p), d # p, Awaits(d, p), Deliver(p, d, b),
           UNCHANGED <<clk, has_int_msg, timers>>
    PROVE  IInv'
<1>1. /\ kernel = "run" /\ ~Idle(q) /\ flags[p] = {}
  BY CallerIsFree
<1>2. d \in Range(q.wait) /\ flags[d] = {"RECEIVING"}
  BY <1>1 DEF IInv, TypeOK, BlockedAreWaiting, Awaits
<1>3. /\ WellFormed(q') /\ Range(q'.wait) = Range(q.wait) \ {d}
  BY <1>1, <1>2, WakeLemma, UnblockLemma DEF IInv, Deliver, WellFormed, Partitioned
<1>4. TypeOK'
  BY <1>3 DEF IInv, TypeOK, Deliver, WellFormed, Msg
<1>5. BlockedAreWaiting'
  BY <1>1, <1>2, <1>3 DEF IInv, TypeOK, BlockedAreWaiting, Deliver
<1>6. OneSender'
  BY <1>1, <1>2 DEF IInv, TypeOK, OneSender, Deliver
<1>7. NoMissedRendezvous'
  BY <1>1, <1>2 DEF IInv, TypeOK, NoMissedRendezvous, Awaits, Deliver
<1>8. NoMissedInterrupt'
  BY <1>1, <1>2 DEF IInv, TypeOK, NoMissedInterrupt, AwaitsInt, Deliver
<1> QED  BY <1>3, <1>4, <1>5, <1>6, <1>7, <1>8 DEF IInv, ArmedPositive

LEMMA HangInv ==
    ASSUME IInv, NEW p \in Procs, NEW d \in Procs, NEW b \in Bodies,
           Calls(p), d # p, ~Awaits(d, p), Hang(p, d, b),
           UNCHANGED <<clk, has_int_msg, timers>>
    PROVE  IInv'
<1>1. /\ kernel = "run" /\ ~Idle(q) /\ flags[p] = {} /\ Current(q) = p
      /\ p \notin Range(q.wait)
  BY CallerIsFree
<1>2. /\ WellFormed(Block(q)) /\ Range(Block(q).wait) = Range(q.wait) \cup {p}
  BY <1>1, BlockLemma DEF IInv
<1>3. next_sending[d] = NoProc
  BY <1>1 DEF IInv, OneSender
<1>4. NoMissedRendezvous'
  BY <1>1 DEF IInv, TypeOK, NoMissedRendezvous, Awaits, Hang
<1>5. NoMissedInterrupt'
  BY <1>1 DEF IInv, TypeOK, NoMissedInterrupt, AwaitsInt, Hang
<1>6. /\ buf' = [buf EXCEPT ![p] = Msg(p, b)]
      /\ flags' = [flags EXCEPT ![p] = @ \cup {"SENDING"}]
      /\ send_to' = [send_to EXCEPT ![p] = d]
      /\ recv_from' = recv_from /\ late' = late
  BY DEF Hang
<1>7. CASE sending_to_this[d] = NoProc
  <2>1. /\ sending_to_this' = [sending_to_this EXCEPT ![d] = p]
        /\ next_sending' = [next_sending EXCEPT ![p] = NoProc]
        /\ q' = Block(q) /\ kernel' = kernel
    BY <1>7 DEF Hang, Appended, IInv, TypeOK
  <2>2. TypeOK'
    <3>1. q' \in QueueState /\ clk' \in 0 .. NTimers + 1
      BY <1>2, <2>1 DEF IInv, TypeOK, WellFormed
    <3>2. flags' \in [Procs -> SUBSET {"SENDING", "RECEIVING"}]
      BY <1>6 DEF IInv, TypeOK
    <3>3. /\ send_to' \in [Procs -> Procs \cup {NO_TASK}]
          /\ recv_from' \in [Procs -> Procs \cup {ANY, INTERRUPT, NO_TASK}]
      BY <1>6 DEF IInv, TypeOK
    <3>4. /\ sending_to_this' \in [Procs -> Procs \cup {NoProc}]
          /\ next_sending' \in [Procs -> Procs \cup {NoProc}]
      BY <2>1 DEF IInv, TypeOK
    <3>5. buf' \in [Procs -> [source : Procs \cup {INTERRUPT},
                              type : Bodies \cup SUBSET IntBits]]
      BY <1>6 DEF IInv, TypeOK, Msg
    <3> QED  BY <1>6, <2>1, <3>1, <3>2, <3>3, <3>4, <3>5 DEF IInv, TypeOK
  <2>3. BlockedAreWaiting'
    <3>1. \A x \in Procs : flags'[x] = IF x = p THEN {"SENDING"} ELSE flags[x]
      BY <1>1, <1>6 DEF IInv, TypeOK
    <3>2. \A x \in Procs : x \in Range(q'.wait) <=> x \in Range(q.wait) \/ x = p
      BY <1>2, <2>1
    <3> QED  BY <1>1, <3>1, <3>2 DEF IInv, BlockedAreWaiting
  <2>4. OneSender'
    BY <1>1, <1>6, <1>7, <2>1, IpcAssumption DEF IInv, TypeOK, OneSender
  <2> QED  BY <1>2, <1>4, <1>5, <2>1, <2>2, <2>3, <2>4 DEF IInv, ArmedPositive
<1>8. CASE sending_to_this[d] # NoProc
  <2>1. kernel' = "fault" /\ UNCHANGED <<next_sending, q>>
    BY <1>3, <1>8 DEF Hang
  <2>2. sending_to_this' = sending_to_this
    BY <1>8 DEF Hang, IInv, TypeOK
  <2>3. TypeOK'
    BY <1>6, <2>1, <2>2 DEF IInv, TypeOK, Msg
  <2> QED
    BY <1>4, <1>5, <2>1, <2>2, <2>3
    DEF IInv, BlockedAreWaiting, OneSender, ArmedPositive
<1> QED  BY <1>7, <1>8

LEMMA SendInv ==
    ASSUME IInv, NEW p \in Procs, NEW d \in Procs, NEW b \in Bodies, Send(p, d, b)
    PROVE  IInv'
<1>1. CASE Awaits(d, p) /\ Deliver(p, d, b)
  BY <1>1, DeliverInv DEF Send
<1>2. CASE ~Awaits(d, p) /\ Hang(p, d, b)
  BY <1>2, HangInv DEF Send
<1>3. CASE kernel' = "hang" /\ UNCHANGED <<q, ipcVars, buf>>
  <2>1. kernel = "run" /\ UNCHANGED <<q, ipcVars, buf, clk, has_int_msg, timers>>
    BY <1>3 DEF Send, Calls
  <2> QED
    BY <1>3, <2>1 DEF IInv, TypeOK, BlockedAreWaiting, OneSender, NoMissedRendezvous,
       Awaits, NoMissedInterrupt, AwaitsInt, ArmedPositive, ipcVars
<1> QED  BY <1>1, <1>2, <1>3 DEF Send

LEMMA ReceiveIntInv ==
    ASSUME IInv, NEW p \in Procs, NEW src, Calls(p), ReceiveInt(p, src),
           UNCHANGED <<clk, timers, kernel>>
    PROVE  IInv'
<1>1. TypeOK'
  BY DEF IInv, TypeOK, ReceiveInt, ipcVars, Msg
<1>2. NoMissedInterrupt'
  BY CallerIsFree DEF IInv, TypeOK, NoMissedInterrupt, AwaitsInt, ReceiveInt, ipcVars
<1> QED
  BY <1>1, <1>2 DEF IInv, BlockedAreWaiting, OneSender, NoMissedRendezvous, Awaits,
     ArmedPositive, ReceiveInt, ipcVars

\* The chosen sender is blocked sending to p, and is the head of its list.
LEMMA ChosenIsHead ==
    ASSUME IInv, NEW p \in Procs, kernel = "run",
           NEW src \in Procs \cup {ANY, INTERRUPT}, ChosenSender(p, src) # NoProc
    PROVE  /\ ChosenSender(p, src) \in Procs
           /\ "SENDING" \in flags[ChosenSender(p, src)]
           /\ send_to[ChosenSender(p, src)] = p
           /\ sending_to_this[p] = ChosenSender(p, src)
BY IpcAssumption DEF IInv, TypeOK, OneSender, ChosenSender

LEMMA ReceiveMsgInv ==
    ASSUME IInv, NEW p \in Procs, NEW src \in Procs \cup {ANY, INTERRUPT},
           Calls(p), src # p, ChosenSender(p, src) # NoProc,
           ReceiveMsg(p, ChosenSender(p, src)), UNCHANGED <<clk, timers, kernel>>
    PROVE  IInv'
<1> DEFINE x == ChosenSender(p, src)
<1>1. kernel = "run" /\ ~Idle(q) /\ flags[p] = {}
  BY CallerIsFree
<1>2. x \in Procs /\ "SENDING" \in flags[x] /\ send_to[x] = p /\ sending_to_this[p] = x
  BY <1>1, ChosenIsHead
<1>3. flags[x] = {"SENDING"} /\ x \in Range(q.wait) /\ next_sending[x] = NoProc
  BY <1>1, <1>2 DEF IInv, TypeOK, BlockedAreWaiting, OneSender
<1>4. /\ sending_to_this' = [sending_to_this EXCEPT ![p] = NoProc]
      /\ next_sending' = [next_sending EXCEPT ![x] = NoProc]
      /\ buf' = [buf EXCEPT ![p] = buf[x]]
      /\ send_to' = [send_to EXCEPT ![x] = NO_TASK]
      /\ flags' = [flags EXCEPT ![x] = @ \ {"SENDING"}]
      /\ q' = Unblock(q, x)
      /\ UNCHANGED <<recv_from, has_int_msg, late>>
  BY <1>2, <1>3 DEF ReceiveMsg, TakeSender, IInv, TypeOK
<1> HIDE DEF x
<1>5. /\ WellFormed(q') /\ Range(q'.wait) = Range(q.wait) \ {x}
  BY <1>1, <1>3, <1>4, WakeLemma, UnblockLemma DEF IInv, WellFormed, Partitioned
<1>6. TypeOK'
  BY <1>2, <1>4, <1>5 DEF IInv, TypeOK, WellFormed
<1>7. BlockedAreWaiting'
  BY <1>1, <1>2, <1>3, <1>4, <1>5 DEF IInv, TypeOK, BlockedAreWaiting
<1>8. OneSender'
  BY <1>1, <1>2, <1>4, IpcAssumption DEF IInv, TypeOK, OneSender
<1>9. NoMissedRendezvous'
  BY <1>2, <1>3, <1>4 DEF IInv, TypeOK, NoMissedRendezvous, Awaits
<1>10. NoMissedInterrupt'
  BY <1>2, <1>4 DEF IInv, TypeOK, NoMissedInterrupt, AwaitsInt
<1> QED  BY <1>5, <1>6, <1>7, <1>8, <1>9, <1>10 DEF IInv, ArmedPositive

LEMMA LinesAreBits == \A p : SUBSET LinesOf(p) \subseteq SUBSET IntBits
<1> SUFFICES ASSUME NEW p, NEW bits \in SUBSET LinesOf(p), NEW i \in bits
             PROVE  i \in IntBits
  OBVIOUS
<1>1. i \in {l[2] : l \in {m \in IrqLines : m[1] = p}}
  BY DEF LinesOf
<1>2. PICK l \in IrqLines : i = l[2]
  BY <1>1
<1> QED  BY <1>2 DEF IntBits

LEMMA ReceiveLaterInv ==
    ASSUME IInv, NEW p \in Procs, NEW src \in Procs \cup {ANY, INTERRUPT},
           Calls(p), src # p, ~TakesInt(p, src), ChosenSender(p, src) = NoProc,
           ReceiveLater(p, src), UNCHANGED <<clk, timers, kernel>>
    PROVE  IInv'
<1>0. PICK bits \in SUBSET IntBits :
         /\ has_int_msg' = [has_int_msg EXCEPT ![p] = @ \cup bits]
         /\ late' = [late EXCEPT ![p] = bits]
  BY LinesAreBits DEF ReceiveLater
<1>1. /\ kernel = "run" /\ ~Idle(q) /\ flags[p] = {} /\ Current(q) = p
      /\ p \notin Range(q.wait)
  BY CallerIsFree
<1>2. /\ WellFormed(q') /\ Range(q'.wait) = Range(q.wait) \cup {p}
  BY <1>1, BlockLemma DEF IInv, ReceiveLater
<1>3. TypeOK'
  <2>1. q' \in QueueState
    BY <1>2 DEF WellFormed
  <2>2. /\ flags' \in [Procs -> SUBSET {"SENDING", "RECEIVING"}]
        /\ recv_from' \in [Procs -> Procs \cup {ANY, INTERRUPT, NO_TASK}]
    BY DEF IInv, TypeOK, ReceiveLater
  <2>3. buf' \in [Procs -> [source : Procs \cup {INTERRUPT},
                            type : Bodies \cup SUBSET IntBits]]
    <3>1. buf[p] \in [source : Procs \cup {INTERRUPT},
                     type : Bodies \cup SUBSET IntBits]
      BY DEF IInv, TypeOK
    <3>2. [buf[p] EXCEPT !.source = p] \in
             [source : Procs \cup {INTERRUPT}, type : Bodies \cup SUBSET IntBits]
      BY <3>1
    <3>3. buf' = [buf EXCEPT ![p] = [buf[p] EXCEPT !.source = p]]
      BY DEF ReceiveLater
    <3> QED  BY <3>2, <3>3 DEF IInv, TypeOK
  <2>4. /\ send_to' = send_to /\ sending_to_this' = sending_to_this
        /\ next_sending' = next_sending
        /\ clk' = clk /\ timers' = timers /\ kernel' = kernel
    BY DEF ReceiveLater
  <2>6. /\ has_int_msg' \in [Procs -> SUBSET IntBits]
        /\ late' \in [Procs -> SUBSET IntBits]
    BY <1>0 DEF IInv, TypeOK
  <2>5. TypeOK
    BY DEF IInv
  <2> HIDE DEF IInv
  <2> QED  BY <2>1, <2>2, <2>3, <2>4, <2>5, <2>6 DEF TypeOK
<1>4. BlockedAreWaiting'
  <2>1. \A x \in Procs : flags'[x] = IF x = p THEN {"RECEIVING"} ELSE flags[x]
    BY <1>1 DEF IInv, TypeOK, ReceiveLater
  <2>2. \A x \in Procs : x \in Range(q'.wait) <=> x \in Range(q.wait) \/ x = p
    BY <1>2
  <2> QED  BY <1>1, <2>1, <2>2 DEF IInv, BlockedAreWaiting
<1>5. OneSender'
  BY <1>1 DEF IInv, TypeOK, OneSender, ReceiveLater
<1>6. NoMissedRendezvous'
  <2>1. \A x \in Procs :
          ~("SENDING" \in flags[x] /\ send_to[x] = p /\ src \in {x, ANY})
    BY <1>1, IpcAssumption DEF IInv, TypeOK, OneSender, ChosenSender
  <2> QED
    BY <1>1, <2>1 DEF IInv, TypeOK, NoMissedRendezvous, Awaits, ReceiveLater
<1>7. NoMissedInterrupt'
  <2>1. \A x \in Procs \ {p} : /\ flags'[x] = flags[x] /\ recv_from'[x] = recv_from[x]
                              /\ has_int_msg'[x] = has_int_msg[x] /\ late'[x] = late[x]
    BY <1>0 DEF IInv, TypeOK, ReceiveLater
  <2>2. recv_from'[p] = src /\ late'[p] = bits /\ has_int_msg'[p] = has_int_msg[p] \cup bits
    BY <1>0 DEF IInv, TypeOK, ReceiveLater
  <2> QED  BY <2>1, <2>2 DEF IInv, NoMissedInterrupt, AwaitsInt, TakesInt
<1> QED
  BY <1>2, <1>3, <1>4, <1>5, <1>6, <1>7 DEF IInv, ArmedPositive

LEMMA ReceiveInv ==
    ASSUME IInv, NEW p \in Procs, NEW src \in Procs \cup {ANY, INTERRUPT},
           Receive(p, src)
    PROVE  IInv'
BY ReceiveIntInv, ReceiveMsgInv, ReceiveLaterInv DEF Receive

LEMMA SetTimerInv ==
    ASSUME IInv, NEW p \in Procs, NEW time \in 1 .. MaxTime, SetTimer(p, time)
    PROVE  IInv'
<1>1. time \in Nat /\ time > 0
  BY IpcAssumption
<1>2. TypeOK' /\ ArmedPositive'
  BY <1>1 DEF IInv, TypeOK, ArmedPositive, SetTimer, ipcVars
<1> QED
  BY <1>2 DEF IInv, BlockedAreWaiting, OneSender, NoMissedRendezvous, Awaits,
     NoMissedInterrupt, AwaitsInt, SetTimer, ipcVars

LEMMA BothInv ==
    ASSUME IInv, NEW p \in Procs, Both(p)
    PROVE  IInv'
BY DEF IInv, TypeOK, BlockedAreWaiting, OneSender, NoMissedRendezvous, Awaits,
   NoMissedInterrupt, AwaitsInt, ArmedPositive, Both, Calls, ipcVars

-----------------------------------------------------------------------------
(* Interrupts.                                                             *)

\* inform_int(), from whichever handler; the handler's own state aside.
LEMMA InformInv ==
    ASSUME IInv, NEW p \in Procs, NEW bit \in IntBits, InformInt(p, bit),
           kernel = "run", kernel' = kernel, clk' \in 0 .. NTimers + 1,
           timers' \in [Slots -> [pid : Procs \cup {NO_TASK}, time : Nat]],
           ArmedPositive'
    PROVE  IInv'
<1>1. CASE ~AwaitsInt(p)
  <2>1. /\ has_int_msg' = [has_int_msg EXCEPT ![p] = @ \cup {bit}]
        /\ UNCHANGED <<q, ipcVars, buf>>
    BY <1>1 DEF InformInt
  <2>2. TypeOK'
    BY <2>1 DEF IInv, TypeOK, ipcVars
  <2>3. NoMissedInterrupt'
    BY <1>1, <2>1 DEF IInv, TypeOK, NoMissedInterrupt, AwaitsInt, ipcVars
  <2> QED
    BY <2>1, <2>2, <2>3 DEF IInv, BlockedAreWaiting, OneSender, NoMissedRendezvous,
       Awaits, ipcVars
<1>2. CASE AwaitsInt(p)
  <2>1. /\ buf' = [buf EXCEPT ![p] = Msg(INTERRUPT, {bit})]
        /\ has_int_msg' = [has_int_msg EXCEPT ![p] = {}]
        /\ flags' = [flags EXCEPT ![p] = @ \ {"RECEIVING"}]
        /\ recv_from' = [recv_from EXCEPT ![p] = NO_TASK]
        /\ late' = [late EXCEPT ![p] = {}]
        /\ q' = Wake(q, p)
        /\ UNCHANGED <<send_to, sending_to_this, next_sending>>
    BY <1>2 DEF InformInt, WakeFor
  <2>2. p \in Range(q.wait) /\ flags[p] = {"RECEIVING"}
    BY <1>2 DEF IInv, TypeOK, BlockedAreWaiting, AwaitsInt
  <2>3. WellFormed(q') /\ Range(q'.wait) = Range(q.wait) \ {p}
    BY <2>1, <2>2, WakeLemma DEF IInv
  <2>4. TypeOK'
    BY <2>1, <2>3 DEF IInv, TypeOK, WellFormed, Msg
  <2>5. BlockedAreWaiting'
    BY <2>1, <2>2, <2>3 DEF IInv, TypeOK, BlockedAreWaiting
  <2>6. OneSender'
    BY <2>1, <2>2 DEF IInv, TypeOK, OneSender
  <2>7. NoMissedRendezvous'
    BY <2>1, <2>2 DEF IInv, TypeOK, NoMissedRendezvous, Awaits
  <2>8. NoMissedInterrupt'
    BY <2>1, <2>2 DEF IInv, TypeOK, NoMissedInterrupt, AwaitsInt
  <2> QED  BY <2>3, <2>4, <2>5, <2>6, <2>7, <2>8 DEF IInv
<1> QED  BY <1>1, <1>2

LEMMA IrqInv ==
    ASSUME IInv, Irq
    PROVE  IInv'
<1>1. PICK l \in IrqLines : InformInt(l[1], l[2])
  BY DEF Irq
<1>2. l[1] \in Procs /\ l[2] \in IntBits
  BY <1>1, IpcAssumption DEF IntBits
<1>3. /\ kernel = "run" /\ kernel' = kernel /\ clk' = clk /\ timers' = timers
  BY DEF Irq
<1>4. /\ clk' \in 0 .. NTimers + 1 /\ ArmedPositive'
      /\ timers' \in [Slots -> [pid : Procs \cup {NO_TASK}, time : Nat]]
  BY <1>3 DEF IInv, TypeOK, ArmedPositive
<1> QED  BY <1>1, <1>2, <1>3, <1>4, InformInv

LEMMA ClockTimerInv ==
    ASSUME IInv, ClockTimer
    PROVE  IInv'
<1>1. /\ kernel = "run" /\ kernel' = kernel /\ clk \in Slots /\ clk' = clk + 1
      /\ clk' \in 0 .. NTimers + 1 /\ clk \in Nat
  BY IpcAssumption DEF ClockTimer, Slots
<1>2. /\ timers \in [Slots -> [pid : Procs \cup {NO_TASK}, time : Nat]]
      /\ timers[clk] \in [pid : Procs \cup {NO_TASK}, time : Nat]
  BY <1>1 DEF IInv, TypeOK
<1>3. CASE /\ timers[clk].pid = NO_TASK
           /\ UNCHANGED <<q, ipcVars, has_int_msg, buf, timers>>
  BY <1>1, <1>3 DEF IInv, TypeOK, BlockedAreWaiting, OneSender, NoMissedRendezvous,
     Awaits, NoMissedInterrupt, AwaitsInt, ArmedPositive, ipcVars
<1>4. CASE /\ timers[clk].pid # NO_TASK /\ timers[clk].time > 2
           /\ timers' = [timers EXCEPT ![clk].time = @ - 1]
           /\ UNCHANGED <<q, ipcVars, has_int_msg, buf>>
  <2>1. timers' \in [Slots -> [pid : Procs \cup {NO_TASK}, time : Nat]]
    BY <1>1, <1>2, <1>4
  <2>2. ArmedPositive'
    BY <1>1, <1>2, <1>4 DEF IInv, ArmedPositive
  <2> QED
    BY <1>1, <1>4, <2>1, <2>2 DEF IInv, TypeOK, BlockedAreWaiting, OneSender,
       NoMissedRendezvous, Awaits, NoMissedInterrupt, AwaitsInt, ipcVars
<1>5. CASE /\ timers[clk].pid # NO_TASK /\ timers[clk].time <= 2
           /\ timers' = [timers EXCEPT ![clk] = FreeSlot(clk)]
           /\ InformInt(timers[clk].pid, CLOCK)
  <2>1. timers[clk].time > 0 /\ timers[clk].pid \in Procs
    BY <1>1, <1>2, <1>5 DEF IInv, ArmedPositive
  <2>2. /\ FreeSlot(clk) \in [pid : Procs \cup {NO_TASK}, time : Nat]
        /\ FreeSlot(clk).pid = NO_TASK
    <3> DEFINE r == timers[clk]
    <3>1. r \in [pid : Procs \cup {NO_TASK}, time : Nat] /\ r.time - 1 \in Nat
      BY <1>2, <2>1
    <3>2. FreeSlot(clk) = [r EXCEPT !.pid = NO_TASK, !.time = r.time - 1]
      BY <3>1 DEF FreeSlot
    <3> HIDE DEF r
    <3> QED  BY <3>1, <3>2
  <2>3. timers' \in [Slots -> [pid : Procs \cup {NO_TASK}, time : Nat]]
    BY <1>1, <1>2, <1>5, <2>2
  <2>4. ArmedPositive'
    BY <1>1, <1>2, <1>5, <2>2 DEF IInv, ArmedPositive
  <2> QED  BY <1>1, <1>5, <2>1, <2>3, <2>4, InformInv DEF IntBits
<1> QED  BY <1>3, <1>4, <1>5 DEF ClockTimer

\* The clock handler's other steps change the queues, not who waits.
LEMMA ClockInv ==
    ASSUME IInv, ClockBegin \/ ClockEnd \/ ClockNested
    PROVE  IInv'
<1>1. /\ UNCHANGED <<ipcVars, has_int_msg, buf, timers, kernel>>
      /\ clk' \in 0 .. NTimers + 1
      /\ q' = Charge(q) \/ q' = Expire(q)
  BY IpcAssumption DEF ClockBegin, ClockEnd, ClockNested, IInv, TypeOK
<1>2. WellFormed(q') /\ Range(q'.wait) = Range(q.wait)
  BY <1>1, ChargeLemma, ExpireLemma DEF IInv
<1> QED
  BY <1>1, <1>2 DEF IInv, TypeOK, WellFormed, BlockedAreWaiting, OneSender,
     NoMissedRendezvous, Awaits, NoMissedInterrupt, AwaitsInt, ArmedPositive, ipcVars

-----------------------------------------------------------------------------
(* The inductive invariant.                                                *)

LEMMA InitInv == Init => IInv
<1> SUFFICES ASSUME Init PROVE IInv
  OBVIOUS
<1>1. /\ q.ready = Boot /\ q.pause = <<>> /\ q.wait = <<>> /\ q.ticks = Priority
      /\ q \in QueueState
  BY IpcAssumption, PriorityAssumption, EmptySeq DEF Init, QueueState
<1>2. Range(<<>>) = {} /\ IsInjective(<<>>)
  BY EmptySeq, LenProperties DEF Range, IsInjective
<1>3. WellFormed(q)
  BY <1>1, <1>2, IpcAssumption DEF WellFormed, Disjoint, NoRepeats, WorkConserving
<1>4. TypeOK
  <2> DEFINE m0 == CHOOSE b \in Bodies : TRUE
  <2>1. m0 \in Bodies
    BY IpcAssumption
  <2>2. buf = [p \in Procs |-> [source |-> p, type |-> m0]]
    BY DEF Init, Msg
  <2> HIDE DEF m0
  <2>3. buf \in [Procs -> [source : Procs \cup {INTERRUPT},
                          type : Bodies \cup SUBSET IntBits]]
    BY <2>1, <2>2
  <2>4. clk \in 0 .. NTimers + 1
    BY IpcAssumption DEF Init
  <2> QED  BY <1>1, <2>3, <2>4 DEF Init, TypeOK
<1>5. /\ \A p \in Procs : flags[p] = {} /\ next_sending[p] = NoProc
      /\ \A p, d \in Procs : sending_to_this[d] # p
  BY IpcAssumption DEF Init
<1>6. BlockedAreWaiting /\ OneSender
  BY <1>1, <1>2, <1>5 DEF BlockedAreWaiting, OneSender
<1>7. NoMissedRendezvous /\ NoMissedInterrupt
  BY <1>5 DEF NoMissedRendezvous, NoMissedInterrupt, AwaitsInt
<1>8. ArmedPositive
  BY DEF Init, ArmedPositive
<1> QED  BY <1>3, <1>4, <1>6, <1>7, <1>8 DEF IInv

\* Every step of the system keeps the invariant.
LEMMA StepInv == IInv /\ [Next]_vars => IInv'
<1> SUFFICES ASSUME IInv, [Next]_vars PROVE IInv'
  OBVIOUS
<1>1. CASE \E p \in Procs : SysCall(p)
  <2>1. PICK p \in Procs : SysCall(p)
    BY <1>1
  <2>2. CASE \E d \in Procs, b \in Bodies : Send(p, d, b)
    BY <2>2, SendInv
  <2>3. CASE \E src \in Procs \cup {ANY, INTERRUPT} : Receive(p, src)
    BY <2>3, ReceiveInv
  <2>4. CASE \E time \in 1 .. MaxTime : SetTimer(p, time)
    BY <2>4, SetTimerInv
  <2>5. CASE Both(p)
    BY <2>5, BothInv
  <2> QED  BY <2>1, <2>2, <2>3, <2>4, <2>5 DEF SysCall
<1>2. CASE Irq
  BY <1>2, IrqInv
<1>3. CASE ClockTimer
  BY <1>3, ClockTimerInv
<1>4. CASE ClockBegin \/ ClockEnd \/ ClockNested
  BY <1>4, ClockInv
<1>5. CASE UNCHANGED vars
  BY <1>5 DEF IInv, TypeOK, BlockedAreWaiting, OneSender, NoMissedRendezvous,
     Awaits, NoMissedInterrupt, AwaitsInt, ArmedPositive, vars, ipcVars
<1> QED  BY <1>1, <1>2, <1>3, <1>4, <1>5 DEF Next

LEMMA Inductive == SafeSpec => []IInv
BY InitInv, StepInv, PTL DEF SafeSpec

-----------------------------------------------------------------------------
(* The theorems.                                                           *)

\* Every variable keeps its type, whatever the processes call and whenever
\* interrupts come.
THEOREM TypeCorrect == SafeSpec => []TypeOK
<1>1. IInv => TypeOK
  BY DEF IInv
<1> QED  BY <1>1, Inductive, PTL

\* msg_send(), msg_receive() and inform_int() leave every PCB in exactly one
\* place of one queue, and the empty task runs only when nobody else can.
THEOREM QueuesStayOK == SafeSpec => []QueuesOK
<1>1. IInv => QueuesOK
  BY DEF IInv, WellFormed, QueuesOK
<1> QED  BY <1>1, Inductive, PTL

\* A process is in the wait queue exactly while a flag says what it waits for.
THEOREM BlockedWait == SafeSpec => []BlockedAreWaiting
<1>1. IInv => BlockedAreWaiting
  BY DEF IInv
<1> QED  BY <1>1, Inductive, PTL

\* Until the kernel faults, a sender list never holds two processes: whoever
\* would be the second dereferences a null pointer in msg_send().
THEOREM SingleSender == SafeSpec => []OneSender
<1>1. IInv => OneSender
  BY DEF IInv
<1> QED  BY <1>1, Inductive, PTL

\* No two processes block although one sends what the other receives.
THEOREM RendezvousMet == SafeSpec => []NoMissedRendezvous
<1>1. IInv => NoMissedRendezvous
  BY DEF IInv
<1> QED  BY <1>1, Inductive, PTL

\* Nobody is blocked receiving interrupts with one pending, except with those
\* that came inside its own RECEIVE, before recv_from was set.
THEOREM InterruptMet == SafeSpec => []NoMissedInterrupt
<1>1. IInv => NoMissedInterrupt
  BY DEF IInv
<1> QED  BY <1>1, Inductive, PTL

-----------------------------------------------------------------------------
(* Who sends to whom has no circle.                                        *)

\* A sender sends to a process, and no set of processes all send to each
\* other.  NoSendCycle says the second of what deadlock() would see; this form
\* does not depend on how far it looks.
SendsToPcb == \A p \in Procs : "SENDING" \in flags[p] => send_to[p] \in Procs

Circle(S) == S # {} /\ \A x \in S : "SENDING" \in flags[x] /\ send_to[x] \in S

NoCircle == \A S \in SUBSET Procs : ~ Circle(S)

SendGraph == SendsToPcb /\ NoCircle

\* The loop of deadlock() that follows send_to, unfolded.
LEMMA SendHopFacts ==
    ASSUME TypeOK, SendsToPcb, NEW d \in Procs
    PROVE  /\ Cardinality(Procs) \in Nat
           /\ SendHop(d) \in [0 .. Cardinality(Procs) -> Procs]
           /\ SendHop(d)[0] = d
           /\ \A n \in 1 .. Cardinality(Procs) :
                SendHop(d)[n] = IF "SENDING" \in flags[SendHop(d)[n - 1]]
                                THEN send_to[SendHop(d)[n - 1]]
                                ELSE SendHop(d)[n - 1]
<1> DEFINE N == Cardinality(Procs)
           F == [x \in Procs |-> IF "SENDING" \in flags[x] THEN send_to[x] ELSE x]
           Hops(g) == [n \in 0 .. N |-> IF n = 0 THEN d
                                        ELSE IF "SENDING" \in flags[g[n - 1]]
                                        THEN send_to[g[n - 1]] ELSE g[n - 1]]
           h == SendHop(d)
<1>1. N \in Nat
  BY IpcAssumption, FS_CardinalityType
<1>2. F \in [Procs -> Procs]
  BY DEF SendsToPcb
<1>3. PICK g : IsOrbit(g, Procs, F, d, N)
  <2> HIDE DEF F, N
  <2> QED  BY <1>1, <1>2, Orbit
<1>4. /\ g \in [0 .. N -> Procs]
      /\ \A n \in 0 .. N : g[n] = IF n = 0 THEN d ELSE F[g[n - 1]]
  <2> HIDE DEF F, N
  <2> QED  BY <1>1, <1>3 DEF IsOrbit
<1>5. ASSUME NEW n \in 0 .. N, n # 0 PROVE g[n - 1] \in Procs /\ n - 1 \in 0 .. N
  <2> HIDE DEF N
  <2> QED  BY <1>1, <1>4, <1>5
<1>6. \A n \in 0 .. N : g[n] = Hops(g)[n]
  <2> HIDE DEF N
  <2> QED  BY <1>4, <1>5
<1>7. g = Hops(g)
  <2> HIDE DEF N
  <2> QED  BY <1>4, <1>6
<1>8. h = Hops(h)
  <2>1. h = CHOOSE x : x = Hops(x)
    BY DEF SendHop
  <2> HIDE DEF Hops, h
  <2> QED  BY <1>7, <2>1
<1>9. /\ h[0] = d
      /\ \A n \in 1 .. N : h[n] = IF "SENDING" \in flags[h[n - 1]]
                                  THEN send_to[h[n - 1]] ELSE h[n - 1]
  <2>1. \A n \in 0 .. N : h[n] = Hops(h)[n]
    BY <1>8
  <2> HIDE DEF N, h
  <2> QED  BY <1>1, <2>1
<1>10. \A n \in 0 .. N : h[n] = g[n]
  <2> DEFINE T == {n \in 0 .. N : h[n] # g[n]}
  <2>1. SUFFICES ASSUME T # {} PROVE FALSE
    BY <2>1
  <2>2. T \in SUBSET Nat
    BY <1>1
  <2>3. PICK n \in T : \A m \in T : n <= m
    <3> HIDE DEF T
    <3> QED  BY <2>1, <2>2, LeastNumber
  <2> HIDE DEF N, h
  <2>4. n \in 0 .. N /\ h[n] # g[n] /\ n # 0
    BY <1>1, <1>4, <1>9, <2>3
  <2>5. n - 1 \in 0 .. N /\ ~ (n <= n - 1) /\ n \in 1 .. N
    BY <1>1, <2>4
  <2>6. h[n - 1] = g[n - 1]
    BY <2>3, <2>5
  <2> QED  BY <1>4, <1>5, <1>9, <2>4, <2>5, <2>6
<1> QED  
  <2>1. h = [n \in 0 .. N |-> h[n]]
    BY <1>8
  <2> HIDE DEF N, h
  <2>2. h \in [0 .. N -> Procs]
    BY <1>4, <1>10, <2>1
  <2> QED  BY <1>1, <1>9, <2>2 DEF N, h

\* Behind a process that does not send the loop stays where it is.
LEMMA SendHopStops ==
    ASSUME TypeOK, SendsToPcb, NEW d \in Procs,
           NEW i \in 0 .. Cardinality(Procs), NEW j \in 0 .. Cardinality(Procs),
           i <= j, "SENDING" \notin flags[SendHop(d)[i]]
    PROVE  SendHop(d)[j] = SendHop(d)[i]
<1> DEFINE N == Cardinality(Procs)
           h == SendHop(d)
           T == {n \in i .. N : h[n] # h[i]}
<1>1. /\ N \in Nat
      /\ \A n \in 1 .. N : h[n] = IF "SENDING" \in flags[h[n - 1]]
                                  THEN send_to[h[n - 1]] ELSE h[n - 1]
  BY SendHopFacts
<1> HIDE DEF N, h
<1>2. SUFFICES ASSUME T # {} PROVE FALSE
  BY <1>1, <1>2 DEF N, h
<1>3. T \in SUBSET Nat
  BY <1>1 DEF N
<1>4. PICK n \in T : \A m \in T : n <= m
  <2> HIDE DEF T
  <2> QED  BY <1>2, <1>3, LeastNumber
<1>5. n \in 1 .. N /\ n - 1 \in i .. N /\ ~ (n <= n - 1) /\ h[n] # h[i]
  BY <1>1, <1>4 DEF N
<1>6. h[n - 1] = h[i]
  BY <1>4, <1>5
<1> QED  BY <1>1, <1>5, <1>6 DEF h

\* A send that deadlock() lets through leads from d to a process that does not
\* send, and on the way nobody sends to p.
LEMMA CleanSend ==
    ASSUME NEW p \in Procs, NEW d \in Procs, "clean" \in DeadlockOutcomes(p, d)
    PROVE  /\ ~ ClosesCycle(p, d)
           /\ "SENDING" \notin flags[SendHop(d)[Cardinality(Procs)]]
<1> DEFINE a == ClosesCycle(p, d)
           b == "SENDING" \in flags[SendHop(d)[Cardinality(Procs)]]
<1>1. a => DeadlockOutcomes(p, d) = {"send_deadlock"}
  BY DEF DeadlockOutcomes
<1>2. ~ a /\ b => DeadlockOutcomes(p, d) = {"endless"}
  BY DEF DeadlockOutcomes
<1> HIDE DEF a, b
<1> QED  BY <1>1, <1>2 DEF a, b

\* It closes no circle: from d the circle would lead back to p.
LEMMA HangGraph ==
    ASSUME TypeOK, SendGraph, NEW p \in Procs, NEW d \in Procs, d # p,
           "clean" \in DeadlockOutcomes(p, d),
           flags' = [flags EXCEPT ![p] = @ \cup {"SENDING"}],
           send_to' = [send_to EXCEPT ![p] = d]
    PROVE  SendGraph'
<1> DEFINE N == Cardinality(Procs)
           h == SendHop(d)
<1>1. /\ N \in Nat /\ h \in [0 .. N -> Procs] /\ h[0] = d
      /\ \A n \in 1 .. N : h[n] = IF "SENDING" \in flags[h[n - 1]]
                                  THEN send_to[h[n - 1]] ELSE h[n - 1]
  BY SendHopFacts DEF SendGraph
<1>2. ~ ClosesCycle(p, d) /\ "SENDING" \notin flags[h[N]]
  BY CleanSend
<1>3. \A x \in Procs : /\ x # p => flags'[x] = flags[x] /\ send_to'[x] = send_to[x]
                       /\ x = p => send_to'[x] = d
  BY DEF TypeOK
<1>4. \A n \in 0 .. N : ~ ("SENDING" \in flags[h[n]] /\ send_to[h[n]] = p)
  <2> HIDE DEF N
  <2> QED  BY <1>1, <1>2 DEF ClosesCycle
<1> HIDE DEF N, h
<1>5. SendsToPcb'
  BY <1>3 DEF SendGraph, SendsToPcb
<1>6. ASSUME NEW S \in SUBSET Procs, Circle(S)' PROVE FALSE
  <2>1. \A x \in S : x # p => "SENDING" \in flags[x] /\ send_to[x] \in S
    BY <1>3, <1>6 DEF Circle
  <2>2. p \in S /\ d \in S
    <3>1. p \in S
      BY <1>6, <2>1 DEF SendGraph, NoCircle, Circle
    <3> QED  BY <1>3, <1>6, <3>1 DEF Circle
  <2> DEFINE T == {n \in 0 .. N : h[n] \notin S \ {p}}
  <2>3. N \in T
    BY <1>1, <1>2, <2>1
  <2>4. PICK n \in T : \A m \in T : n <= m
    <3>1. T \in SUBSET Nat
      BY <1>1
    <3> HIDE DEF T
    <3> QED  BY <2>3, <3>1, LeastNumber
  <2>5. n \in 1 .. N
    BY <1>1, <2>2, <2>4
  <2>6. n - 1 \in 0 .. N /\ ~ (n <= n - 1) /\ h[n - 1] \in S \ {p}
    BY <1>1, <2>4, <2>5
  <2>7. "SENDING" \in flags[h[n - 1]] /\ h[n] = send_to[h[n - 1]] /\ h[n] \in S
    BY <1>1, <2>1, <2>5, <2>6
  <2>8. h[n] = p
    BY <2>4, <2>7
  <2> QED  BY <1>4, <2>6, <2>7, <2>8
<1> QED  BY <1>5, <1>6 DEF SendGraph, NoCircle

\* Nothing else makes a process send.
LEMMA FewerSends ==
    ASSUME SendGraph,
           \A x \in Procs : "SENDING" \in flags'[x] =>
               "SENDING" \in flags[x] /\ send_to'[x] = send_to[x]
    PROVE  SendGraph'
<1>1. SendsToPcb'
  BY DEF SendGraph, SendsToPcb
<1>2. \A S \in SUBSET Procs : Circle(S)' => Circle(S)
  BY DEF Circle
<1> QED  BY <1>1, <1>2 DEF SendGraph, NoCircle

LEMMA GraphInit == Init => SendGraph
<1> SUFFICES ASSUME Init PROVE SendGraph
  OBVIOUS
<1>1. \A p \in Procs : flags[p] = {}
  BY DEF Init
<1>2. ASSUME NEW S \in SUBSET Procs, Circle(S) PROVE FALSE
  <2>1. PICK x \in S : "SENDING" \in flags[x]
    BY <1>2 DEF Circle
  <2> QED  BY <1>1, <2>1
<1> QED  BY <1>1, <1>2 DEF SendGraph, SendsToPcb, NoCircle

LEMMA GraphStep == IInv /\ SendGraph /\ [Next]_vars => SendGraph'
<1> SUFFICES ASSUME IInv, SendGraph, [Next]_vars PROVE SendGraph'
  OBVIOUS
<1>0. TypeOK
  BY DEF IInv
<1> DEFINE Fewer == \A x \in Procs : "SENDING" \in flags'[x] =>
                        "SENDING" \in flags[x] /\ send_to'[x] = send_to[x]
<1>1. CASE Fewer
  BY <1>1, FewerSends
<1>2. ASSUME NEW p \in Procs, SysCall(p) PROVE Fewer \/ SendGraph'
  <2>1. CASE \E d \in Procs, b \in Bodies : Send(p, d, b)
    <3>1. PICK d \in Procs, b \in Bodies : Send(p, d, b)
      BY <2>1
    <3>2. CASE Deliver(p, d, b)
      BY <1>0, <3>2 DEF Deliver, TypeOK
    <3>3. CASE "clean" \in DeadlockOutcomes(p, d) /\ Hang(p, d, b)
      <4>1. d # p
        BY <3>1 DEF Send
      <4> QED  BY <1>0, <3>3, <4>1, HangGraph DEF Hang
    <3>4. CASE UNCHANGED ipcVars
      BY <3>4 DEF ipcVars
    <3> QED  BY <3>1, <3>2, <3>3, <3>4 DEF Send
  <2>2. CASE \E src \in Procs \cup {ANY, INTERRUPT} : Receive(p, src)
    <3>1. PICK src \in Procs \cup {ANY, INTERRUPT} : Receive(p, src)
      BY <2>2
    <3>2. CASE ReceiveInt(p, src)
      BY <3>2 DEF ReceiveInt, ipcVars
    <3>3. CASE ChosenSender(p, src) # NoProc /\ ReceiveMsg(p, ChosenSender(p, src))
      <4> DEFINE x == ChosenSender(p, src)
      <4>1. x \in Procs
        BY <3>1, <3>3, ChosenIsHead DEF Receive, Calls
      <4>2. /\ flags' = [flags EXCEPT ![x] = @ \ {"SENDING"}]
            /\ send_to' = [send_to EXCEPT ![x] = NO_TASK]
        BY <3>3 DEF ReceiveMsg
      <4> HIDE DEF x
      <4> QED  BY <1>0, <4>1, <4>2 DEF TypeOK
    <3>4. CASE ReceiveLater(p, src)
      BY <1>0, <3>4 DEF ReceiveLater, TypeOK
    <3> QED  BY <3>1, <3>2, <3>3, <3>4 DEF Receive
  <2>3. CASE \/ \E time \in 1 .. MaxTime : SetTimer(p, time)
             \/ Both(p)
    BY <2>3 DEF SetTimer, Both, ipcVars
  <2> QED  BY <1>2, <2>1, <2>2, <2>3 DEF SysCall
<1>3. ASSUME NEW p, NEW bit, InformInt(p, bit) PROVE Fewer
  BY <1>0, <1>3 DEF InformInt, ipcVars, TypeOK
<1>4. CASE Irq \/ ClockTimer
  <2>1. \/ UNCHANGED ipcVars
        \/ \E p, bit : InformInt(p, bit)
    BY <1>4 DEF Irq, ClockTimer
  <2>2. CASE UNCHANGED ipcVars
    BY <1>1, <2>2 DEF ipcVars
  <2> QED  BY <1>1, <1>3, <2>1, <2>2
<1>5. CASE ClockBegin \/ ClockEnd \/ ClockNested \/ UNCHANGED vars
  BY <1>1, <1>5 DEF ClockBegin, ClockEnd, ClockNested, vars, ipcVars
<1> QED  BY <1>1, <1>2, <1>4, <1>5 DEF Next

\* What deadlock() would see of a circle is a circle.
LEMMA NoCircleSeen == TypeOK /\ SendGraph => NoSendCycle
<1> SUFFICES ASSUME TypeOK, SendGraph, NEW p \in Procs, "SENDING" \in flags[p],
                    ClosesCycle(p, send_to[p])
             PROVE  FALSE
  BY DEF NoSendCycle
<1> DEFINE N == Cardinality(Procs)
           d == send_to[p]
           h == SendHop(d)
<1>1. d \in Procs
  BY DEF SendGraph, SendsToPcb
<1>2. /\ N \in Nat /\ h \in [0 .. N -> Procs] /\ h[0] = d
      /\ \A n \in 1 .. N : h[n] = IF "SENDING" \in flags[h[n - 1]]
                                  THEN send_to[h[n - 1]] ELSE h[n - 1]
  BY <1>1, SendHopFacts DEF SendGraph
<1>3. PICK n \in 0 .. N : "SENDING" \in flags[h[n]] /\ send_to[h[n]] = p
  <2> HIDE DEF N
  <2> QED  BY <1>2 DEF ClosesCycle
<1>4. \A i \in 0 .. n : "SENDING" \in flags[h[i]]
  <2> SUFFICES ASSUME NEW i \in 0 .. n, "SENDING" \notin flags[h[i]] PROVE FALSE
    OBVIOUS
  <2>1. i \in 0 .. N /\ i <= n
    BY <1>2, <1>3
  <2>2. h[n] = h[i]
    BY <1>1, <1>3, <2>1, SendHopStops DEF SendGraph
  <2> HIDE DEF h
  <2> QED  BY <1>3, <2>2
<1> HIDE DEF N, h
<1> DEFINE S == {p} \cup {h[i] : i \in 0 .. n}
<1>5. S \in SUBSET Procs
  BY <1>2, <1>3
<1>6. ASSUME NEW x \in S PROVE "SENDING" \in flags[x] /\ send_to[x] \in S
  <2>1. CASE x = p
    <3>1. 0 \in 0 .. n
      BY <1>2, <1>3
    <3> QED  BY <1>2, <2>1, <3>1
  <2>2. CASE x # p
    <3>1. PICK i \in 0 .. n : x = h[i]
      BY <1>6, <2>2
    <3>2. CASE i = n
      BY <1>3, <3>1, <3>2
    <3>3. CASE i # n
      <4>1. i + 1 \in 1 .. N /\ i + 1 \in 0 .. n /\ (i + 1) - 1 = i
        BY <1>2, <1>3, <3>1, <3>3
      <4>2. h[i + 1] = send_to[h[i]]
        BY <1>2, <1>4, <3>1, <4>1
      <4> QED  BY <1>4, <3>1, <4>1, <4>2
    <3> QED  BY <3>2, <3>3
  <2> QED  BY <2>1, <2>2
<1> HIDE DEF S
<1>7. S # {}
  BY DEF S
<1> QED  BY <1>5, <1>6, <1>7 DEF SendGraph, NoCircle, Circle

\* Blocked senders never wait for each other in a circle: deadlock() finds
\* every circle that a send would close, whatever the walk behind it does.
THEOREM SendersUnwind == SafeSpec => []NoSendCycle
<1>1. IInv => TypeOK
  BY DEF IInv
<1> QED
  BY <1>1, Inductive, GraphInit, GraphStep, NoCircleSeen, PTL DEF SafeSpec

-----------------------------------------------------------------------------
(* Every step on the queues is one the scheduler allows.                   *)

\* The instance's functions are those of ProcQueues.
LEMMA SameFunctions ==
    ASSUME NEW r, NEW p
    PROVE  /\ SchedQueues!Charge(r) = Charge(r)
           /\ SchedQueues!Expire(r) = Expire(r)
           /\ SchedQueues!Block(r) = Block(r)
           /\ SchedQueues!Wake(r, p) = Wake(r, p)
           /\ SchedQueues!Idle(r) = Idle(r)
           /\ SchedQueues!Current(r) = Current(r)
           /\ SchedQueues!Range(r) = Range(r)
<1>0. ASSUME NEW x PROVE SchedQueues!Range(x) = Range(x)
  BY DEF SchedQueues!Range, Range
<1>1. SchedQueues!Idle(r) = Idle(r) /\ SchedQueues!Current(r) = Current(r)
  BY DEF SchedQueues!Idle, Idle, SchedQueues!Current, Current
<1>2. ASSUME NEW x PROVE SchedQueues!Schedule(x) = Schedule(x)
  <2>1. ASSUME NEW y PROVE SchedQueues!Refill(y) = Refill(y)
    <3>1. SchedQueues!Range(y.pause) = Range(y.pause)
      BY <1>0
    <3> QED  BY <3>1, Zenon DEF SchedQueues!Refill, Refill
  <2>2. SchedQueues!Park(x) = Park(x)
    BY Zenon DEF SchedQueues!Park, Park, SchedQueues!Current, Current
  <2> QED  BY <2>1, <2>2 DEF SchedQueues!Schedule, Schedule, SchedQueues!Idle, Idle
<1>3. SchedQueues!Charge(r) = Charge(r)
  BY DEF SchedQueues!Charge, Charge, SchedQueues!Idle, Idle, SchedQueues!Current, Current
<1>4. SchedQueues!Expire(r) = Expire(r)
  BY <1>2 DEF SchedQueues!Expire, Expire, SchedQueues!Idle, Idle, SchedQueues!Current,
     Current
<1>5. SchedQueues!Block(r) = Block(r)
  BY <1>2 DEF SchedQueues!Block, Block, SchedQueues!Idle, Idle, SchedQueues!Current,
     Current
<1>6. SchedQueues!RemoveFirst(r.wait, p) = RemoveFirst(r.wait, p)
  <2> DEFINE I == {i \in 1 .. Len(r.wait) : r.wait[i] = p}
             k == IF I # {} THEN Min(I) ELSE 0
  <2>1. SchedQueues!Min(I) = Min(I)
    BY Zenon DEF SchedQueues!Min, Min
  <2>2. SelectInSeq(r.wait, LAMBDA v : v = p) = k
    BY Zenon DEF SelectInSeq
  <2>3. SchedQueues!SelectInSeq(r.wait, LAMBDA v : v = p) = k
    BY <2>1, Zenon DEF SchedQueues!SelectInSeq
  <2> HIDE DEF k, I
  <2> QED
    BY <2>2, <2>3, Zenon
    DEF SchedQueues!RemoveFirst, RemoveFirst, SchedQueues!RemoveAt, RemoveAt
<1>7. SchedQueues!Unblock(r, p) = Unblock(r, p)
  BY <1>6, Zenon DEF SchedQueues!Unblock, Unblock
<1>8. SchedQueues!Wake(r, p) = Wake(r, p)
  BY <1>2, <1>7 DEF SchedQueues!Wake, Wake, SchedQueues!Idle, Idle
<1> QED  BY <1>0, <1>1, <1>3, <1>4, <1>5, <1>8

\* Waking a process for another that runs does not schedule.
LEMMA WakeIsUnblock ==
    ASSUME NEW p, WellFormed(q), ~Idle(q)
    PROVE  Wake(q, p) = Unblock(q, p)
<1>1. Unblock(q, p).ready = q.ready
  BY DEF Unblock, WellFormed, QueueState
<1> QED  BY <1>1 DEF Wake, Idle

LEMMA InitMaps == Init => SchedQueues!Init
BY DEF Init, SchedQueues!Init

LEMMA CallMaps ==
    ASSUME IInv, NEW p \in Procs, SysCall(p)
    PROVE  SchedQueues!Next \/ UNCHANGED SchedQueues!vars
<1> USE DEF SchedQueues!Next, SchedQueues!vars
<1>0. /\ Calls(p) => clk = 0 /\ ~Idle(q)
      /\ WellFormed(q)
  BY CallerIsFree DEF IInv
<1>1. ASSUME Calls(p), clk' = clk, q' = Block(q) PROVE SchedQueues!Next
  BY <1>0, <1>1, SameFunctions DEF SchedQueues!BlockCurrent
<1>2. ASSUME Calls(p), clk' = clk, NEW d \in Procs, d \in Range(q.wait), q' = Unblock(q, d)
      PROVE  SchedQueues!Next
  BY <1>0, <1>2, SameFunctions, WakeIsUnblock DEF SchedQueues!WakeUp
<1>3. CASE \E d \in Procs, b \in Bodies : Send(p, d, b)
  <2>1. PICK d \in Procs, b \in Bodies : Send(p, d, b)
    BY <1>3
  <2>2. Calls(p) /\ clk' = clk
    BY <2>1 DEF Send
  <2>3. CASE Awaits(d, p) /\ Deliver(p, d, b)
    <3>1. d \in Range(q.wait)
      BY <2>2, <2>3, CallerIsFree DEF IInv, BlockedAreWaiting, Awaits
    <3> QED  BY <1>2, <2>2, <2>3, <3>1 DEF Deliver
  <2>4. CASE Hang(p, d, b)
    BY <1>1, <2>2, <2>4 DEF Hang
  <2>5. CASE UNCHANGED q
    BY <2>2, <2>5
  <2> QED  BY <2>1, <2>3, <2>4, <2>5 DEF Send
<1>4. CASE \E src \in Procs \cup {ANY, INTERRUPT} : Receive(p, src)
  <2>1. PICK src \in Procs \cup {ANY, INTERRUPT} : Receive(p, src)
    BY <1>4
  <2>2. Calls(p) /\ clk' = clk /\ kernel = "run"
    BY <2>1 DEF Receive, Calls
  <2>3. CASE ReceiveInt(p, src)
    BY <2>2, <2>3 DEF ReceiveInt
  <2>4. CASE ChosenSender(p, src) # NoProc /\ ReceiveMsg(p, ChosenSender(p, src))
    <3>1. /\ ChosenSender(p, src) \in Procs
          /\ ChosenSender(p, src) \in Range(q.wait)
      BY <2>2, <2>4, ChosenIsHead DEF IInv, BlockedAreWaiting
    <3> QED  BY <1>2, <2>2, <2>4, <3>1 DEF ReceiveMsg
  <2>5. CASE ReceiveLater(p, src)
    BY <1>1, <2>2, <2>5 DEF ReceiveLater
  <2> QED  BY <2>1, <2>3, <2>4, <2>5 DEF Receive
<1>5. CASE \/ \E time \in 1 .. MaxTime : SetTimer(p, time)
           \/ Both(p)
  BY <1>5 DEF SetTimer, Both
<1> QED  BY <1>3, <1>4, <1>5 DEF SysCall

\* inform_int() wakes as the scheduler does, in a handler and between two.
LEMMA InformMaps ==
    ASSUME IInv, NEW p \in Procs, NEW bit, InformInt(p, bit), kernel = "run",
           (clk' # 0) = (clk # 0)
    PROVE  SchedQueues!Next \/ UNCHANGED SchedQueues!vars
<1>1. CASE ~AwaitsInt(p)
  BY <1>1 DEF InformInt, SchedQueues!vars
<1>2. CASE AwaitsInt(p)
  <2>1. p \in Range(q.wait) /\ q' = Wake(q, p)
    BY <1>2 DEF InformInt, WakeFor, AwaitsInt, IInv, BlockedAreWaiting
  <2> QED  BY <2>1, SameFunctions DEF SchedQueues!Next, SchedQueues!WakeUp
<1> QED  BY <1>1, <1>2

LEMMA StepMaps ==
    ASSUME IInv, [Next]_vars
    PROVE  SchedQueues!Next \/ UNCHANGED SchedQueues!vars
<1>1. CASE \E p \in Procs : SysCall(p)
  BY <1>1, CallMaps
<1>2. CASE Irq
  <2>1. PICK l \in IrqLines : InformInt(l[1], l[2])
    BY <1>2 DEF Irq
  <2> QED  BY <1>2, <2>1, InformMaps, IpcAssumption DEF Irq
<1>3. CASE ClockBegin
  BY <1>3, SameFunctions DEF ClockBegin, SchedQueues!Next, SchedQueues!ClockBegin
<1>4. CASE ClockTimer
  <2>1. clk # 0 /\ clk' # 0 /\ kernel = "run"
    BY <1>4, IpcAssumption DEF ClockTimer, Slots
  <2>2. CASE UNCHANGED q
    BY <2>1, <2>2 DEF SchedQueues!vars
  <2>3. CASE timers[clk].pid # NO_TASK /\ InformInt(timers[clk].pid, CLOCK)
    <3>1. timers[clk].pid \in Procs
      BY <1>4, <2>3 DEF ClockTimer, IInv, TypeOK
    <3> QED  BY <2>1, <2>3, <3>1, InformMaps
  <2> QED  BY <1>4, <2>2, <2>3 DEF ClockTimer
<1>5. CASE ClockEnd
  <2>1. clk # 0 /\ clk' = 0 /\ q' = Expire(q)
    BY <1>5, IpcAssumption DEF ClockEnd
  <2> QED  BY <2>1, SameFunctions DEF SchedQueues!Next, SchedQueues!ClockEnd
<1>6. CASE ClockNested
  BY <1>6, SameFunctions DEF ClockNested, SchedQueues!Next, SchedQueues!ClockNested
<1>7. CASE UNCHANGED vars
  BY <1>7 DEF vars, SchedQueues!vars
<1> QED  BY <1>1, <1>2, <1>3, <1>4, <1>5, <1>6, <1>7 DEF Next

\* Message passing and the handlers use the process queues only as the
\* scheduler of Sched allows.
THEOREM SchedImplemented == SafeSpec => ImplementsSched
BY InitMaps, StepMaps, Inductive, PTL
DEF SafeSpec, ImplementsSched, SchedQueues!SafeSpec

-----------------------------------------------------------------------------
(* Message passing is rendezvous communication.                            *)

\* What a process is doing for Rendezvous, from its flags.
LEMMA StFacts ==
    ASSUME NEW p \in Procs
    PROVE  /\ "SENDING" \in flags[p] =>
                 St[p] = [op |-> "send", peer |-> send_to[p]]
           /\ "SENDING" \notin flags[p] /\ "RECEIVING" \in flags[p] =>
                 St[p] = [op |-> "recv", peer |-> recv_from[p]]
           /\ "SENDING" \notin flags[p] /\ "RECEIVING" \notin flags[p] =>
                 St[p] = [op |-> "run"]
BY DEF St

\* Each of the three looks like nothing else.
LEMMA StShape ==
    ASSUME NEW p \in Procs
    PROVE  /\ \A d : St[p] = RV!Sending(d) <=> "SENDING" \in flags[p] /\ send_to[p] = d
           /\ \A src : St[p] = RV!Receiving(src) <=>
                 /\ "SENDING" \notin flags[p] /\ "RECEIVING" \in flags[p]
                 /\ recv_from[p] = src
           /\ flags[p] = {} => St[p] = RV!Run
<1>1. \A d, src : RV!Sending(d).op = "send" /\ RV!Receiving(src).op = "recv"
  BY DEF RV!Sending, RV!Receiving
<1>2. RV!Run.op = "run"
  BY DEF RV!Run
<1>3. \A d : RV!Sending(d).peer = d /\ RV!Receiving(d).peer = d
  BY DEF RV!Sending, RV!Receiving
<1>4. /\ "SENDING" \in flags[p] => St[p] = RV!Sending(send_to[p])
      /\ "SENDING" \notin flags[p] /\ "RECEIVING" \in flags[p] =>
            St[p] = RV!Receiving(recv_from[p])
      /\ "SENDING" \notin flags[p] /\ "RECEIVING" \notin flags[p] => St[p] = RV!Run
  BY StFacts DEF RV!Sending, RV!Receiving, RV!Run

<1> QED  BY <1>1, <1>2, <1>3, <1>4

\* The same of the state after a step.
LEMMA StShapeNext ==
    ASSUME NEW p \in Procs
    PROVE  /\ "SENDING" \in flags'[p] => St'[p] = RV!Sending(send_to'[p])
           /\ "SENDING" \notin flags'[p] /\ "RECEIVING" \in flags'[p] =>
                 St'[p] = RV!Receiving(recv_from'[p])
           /\ "SENDING" \notin flags'[p] /\ "RECEIVING" \notin flags'[p] =>
                 St'[p] = RV!Run
BY DEF St, RV!Sending, RV!Receiving, RV!Run

\* A step after which exactly one process does something else.
LEMMA StChanges ==
    ASSUME NEW x \in Procs, NEW v, St'[x] = v,
           \A p \in Procs \ {x} : flags'[p] = flags[p] /\ send_to'[p] = send_to[p]
                                  /\ recv_from'[p] = recv_from[p]
    PROVE  St' = [St EXCEPT ![x] = v]
<1>1. \A p \in Procs \ {x} : St'[p] = St[p]
  BY DEF St
<1>2. St = [p \in Procs |-> St[p]] /\ St' = [p \in Procs |-> St'[p]]
  BY DEF St
<1> QED  BY <1>1, <1>2

LEMMA RvInit == Init => RV!Init
<1> SUFFICES ASSUME Init PROVE RV!Init
  OBVIOUS
<1> DEFINE M == {RV!Msg(p, b) : p \in Procs, b \in Bodies}
<1>1. St = [p \in Procs |-> RV!Run]
  BY DEF Init, St, RV!Run
<1>2. buf \in [Procs -> M]
  <2> DEFINE m0 == CHOOSE b \in Bodies : TRUE
  <2>1. m0 \in Bodies
    BY IpcAssumption
  <2>2. buf = [p \in Procs |-> Msg(p, m0)]
    BY DEF Init
  <2> HIDE DEF m0
  <2> QED  BY <2>1, <2>2 DEF Msg, RV!Msg
<1>3. has_int_msg = [p \in Procs |-> {}]
  BY DEF Init
<1>4. M = {RV!Msg(p, b) : p \in Procs, b \in Bodies}
  OBVIOUS
<1> HIDE DEF M
<1> QED  BY <1>1, <1>2, <1>3, <1>4, SMT DEF RV!Init

\* msg_send() that finds its receiver waiting completes the rendezvous.
LEMMA RvDeliver ==
    ASSUME IInv, NEW p \in Procs, NEW d \in Procs, NEW b \in Bodies,
           Calls(p), d # p, Awaits(d, p), Deliver(p, d, b), has_int_msg' = has_int_msg
    PROVE  RV!Next
<1>1. kernel = "run" /\ flags[p] = {} /\ St[p] = RV!Run
  BY CallerIsFree, StShape
<1>2. flags[d] = {"RECEIVING"}
  BY <1>1 DEF IInv, TypeOK, BlockedAreWaiting, Awaits
<1>3. St[d] \in {RV!Receiving(p), RV!Receiving(ANY)}
  BY <1>2, StShape DEF Awaits
<1>4. flags'[d] = {} /\ \A x \in Procs \ {d} : flags'[x] = flags[x]
                           /\ send_to'[x] = send_to[x] /\ recv_from'[x] = recv_from[x]
  BY <1>2 DEF IInv, TypeOK, Deliver
<1>5. St' = [St EXCEPT ![d] = RV!Run]
  BY <1>4, StShapeNext, StChanges
<1>6. RV!SendNow(p, d, b)
  BY <1>3, <1>5 DEF RV!SendNow, Deliver, Msg, RV!Msg
<1> QED  BY <1>1, <1>6 DEF RV!Next

\* One that does not is remembered as the sender's state.
LEMMA RvHang ==
    ASSUME IInv, NEW p \in Procs, NEW d \in Procs, NEW b \in Bodies,
           Calls(p), d # p, ~Awaits(d, p), Hang(p, d, b), has_int_msg' = has_int_msg
    PROVE  RV!Next
<1>1. flags[p] = {} /\ St[p] = RV!Run
  BY CallerIsFree, StShape
<1>2. St[d] \notin {RV!Receiving(p), RV!Receiving(ANY)}
  BY StShape DEF Awaits
<1>3. "SENDING" \in flags'[p] /\ send_to'[p] = d
      /\ \A x \in Procs \ {p} : flags'[x] = flags[x]
                           /\ send_to'[x] = send_to[x] /\ recv_from'[x] = recv_from[x]
  BY DEF IInv, TypeOK, Hang
<1>4. St' = [St EXCEPT ![p] = RV!Sending(d)]
  BY <1>3, StShapeNext, StChanges
<1>5. RV!SendLater(p, d, b)
  BY <1>2, <1>4 DEF RV!SendLater, Hang, Msg, RV!Msg
<1> QED  BY <1>1, <1>5 DEF RV!Next

LEMMA RvSend ==
    ASSUME IInv, NEW p \in Procs, NEW d \in Procs, NEW b \in Bodies, Send(p, d, b)
    PROVE  RV!Next \/ UNCHANGED RV!vars
<1>1. CASE UNCHANGED <<q, ipcVars, buf>>
  BY <1>1 DEF Send, RV!vars, St, ipcVars
<1> QED  BY <1>1, RvDeliver, RvHang DEF Send

\* msg_receive(): a pending interrupt first, then the sender that is chosen,
\* and otherwise there is none to choose.
LEMMA RvReceive ==
    ASSUME IInv, NEW p \in Procs, NEW src \in Procs \cup {ANY, INTERRUPT}, Receive(p, src)
    PROVE  RV!Next \/ UNCHANGED RV!vars
<1>1. /\ Calls(p) /\ src # p /\ kernel = "run"
      /\ src \in (Procs \ {p}) \cup {ANY, INTERRUPT}
  BY DEF Receive, Calls
<1>2. flags[p] = {} /\ St[p] = RV!Run
  BY <1>1, CallerIsFree, StShape
<1>3. RV!Matching(p, src) =
         {x \in Procs : "SENDING" \in flags[x] /\ send_to[x] = p /\ src \in {x, ANY}}
  BY StShape DEF RV!Matching
<1>4. CASE TakesInt(p, src) /\ ReceiveInt(p, src)
  <2>1. RV!ReceiveInt(p, src)
    BY <1>4 DEF RV!ReceiveInt, ReceiveInt, TakesInt, Msg, RV!Msg, St, ipcVars
  <2> QED  BY <1>1, <1>2, <2>1 DEF RV!Next
<1>5. CASE /\ ~TakesInt(p, src) /\ ChosenSender(p, src) # NoProc
           /\ ReceiveMsg(p, ChosenSender(p, src))
  <2> DEFINE x == ChosenSender(p, src)
  <2>1. x \in Procs /\ "SENDING" \in flags[x] /\ send_to[x] = p
    BY <1>1, <1>5, ChosenIsHead
  <2>2. src \in {x, ANY}
    BY <1>5 DEF ChosenSender
  <2>3. /\ buf' = [buf EXCEPT ![p] = buf[x]]
        /\ send_to' = [send_to EXCEPT ![x] = NO_TASK]
        /\ flags' = [flags EXCEPT ![x] = @ \ {"SENDING"}]
        /\ UNCHANGED <<recv_from, has_int_msg>>
    BY <1>5 DEF ReceiveMsg
  <2> HIDE DEF x
  <2>4. flags[x] = {"SENDING"}
    BY <1>1, <2>1 DEF IInv, TypeOK, BlockedAreWaiting
  <2>5. flags'[x] = {} /\ \A y \in Procs \ {x} : flags'[y] = flags[y]
                           /\ send_to'[y] = send_to[y] /\ recv_from'[y] = recv_from[y]
    BY <2>1, <2>3, <2>4 DEF IInv, TypeOK
  <2>6. St' = [St EXCEPT ![x] = RV!Run]
    BY <2>1, <2>5, StShapeNext, StChanges
  <2>7. ~(has_int_msg[p] # {} /\ src = ANY)
    BY <1>5 DEF TakesInt
  <2>8. x \in RV!Matching(p, src)
    BY <1>3, <2>1, <2>2
  <2>9. RV!ReceiveMsg(p, src)
    BY <2>3, <2>6, <2>7, <2>8 DEF RV!ReceiveMsg
  <2> QED  BY <1>1, <1>2, <2>9 DEF RV!Next
<1>6. CASE /\ ~TakesInt(p, src) /\ ChosenSender(p, src) = NoProc
           /\ ReceiveLater(p, src)
  <2>1. RV!Matching(p, src) = {}
    <3> SUFFICES ASSUME NEW x \in Procs, "SENDING" \in flags[x], send_to[x] = p,
                        src \in {x, ANY}
                 PROVE  FALSE
      BY <1>3
    <3>1. sending_to_this[p] = x /\ x # NoProc
      BY <1>1, IpcAssumption DEF IInv, OneSender
    <3> QED  BY <1>6, <3>1, IpcAssumption DEF ChosenSender
  <2>2. ~(has_int_msg[p] # {} /\ src \in {ANY, INTERRUPT})
    BY <1>6 DEF TakesInt
  <2>3. "RECEIVING" \in flags'[p] /\ "SENDING" \notin flags'[p] /\ recv_from'[p] = src
        /\ \A x \in Procs \ {p} : flags'[x] = flags[x]
                           /\ send_to'[x] = send_to[x] /\ recv_from'[x] = recv_from[x]
    BY <1>2, <1>6 DEF IInv, TypeOK, ReceiveLater
  <2>4. St' = [St EXCEPT ![p] = RV!Receiving(src)]
    BY <2>3, StShapeNext, StChanges
  <2>5. \E bits \in SUBSET IntBits :
           has_int_msg' = [has_int_msg EXCEPT ![p] = @ \cup bits]
    BY <1>6, LinesAreBits DEF ReceiveLater
  <2>6. buf' = [buf EXCEPT ![p].source = p]
    BY <1>6 DEF ReceiveLater
  <2>7. RV!ReceiveLater(p, src)
    BY <2>1, <2>2, <2>4, <2>5, <2>6 DEF RV!ReceiveLater
  <2> QED  BY <1>1, <1>2, <2>7 DEF RV!Next
<1> QED  BY <1>4, <1>5, <1>6 DEF Receive

\* inform_int() is the abstract interrupt, whoever calls it.
LEMMA RvInform ==
    ASSUME IInv, NEW p \in Procs, NEW bit \in IntBits, InformInt(p, bit), kernel = "run"
    PROVE  RV!Next
<1>1. CASE ~AwaitsInt(p)
  <2>1. /\ has_int_msg' = [has_int_msg EXCEPT ![p] = @ \cup {bit}]
        /\ St' = St /\ buf' = buf
    BY <1>1 DEF InformInt, St, ipcVars
  <2>2. St[p] \notin {RV!Receiving(INTERRUPT), RV!Receiving(ANY)}
    BY <1>1, StShape DEF AwaitsInt
  <2>3. RV!Interrupt(p, {bit})
    BY <2>1, <2>2 DEF RV!Interrupt
  <2> QED  BY <2>3 DEF RV!Next
<1>2. CASE AwaitsInt(p)
  <2>1. flags[p] = {"RECEIVING"}
    BY <1>2 DEF IInv, TypeOK, BlockedAreWaiting, AwaitsInt
  <2>2. St[p] \in {RV!Receiving(INTERRUPT), RV!Receiving(ANY)}
    BY <1>2, <2>1, StShape DEF AwaitsInt
  <2>3. flags'[p] = {} /\ \A x \in Procs \ {p} : flags'[x] = flags[x]
                           /\ send_to'[x] = send_to[x] /\ recv_from'[x] = recv_from[x]
    BY <1>2, <2>1 DEF IInv, TypeOK, InformInt
  <2>4. St' = [St EXCEPT ![p] = RV!Run]
    BY <2>3, StShapeNext, StChanges
  <2>5. RV!Interrupt(p, {bit})
    BY <1>2, <2>2, <2>4 DEF RV!Interrupt, InformInt, Msg, RV!Msg
  <2> QED  BY <2>5 DEF RV!Next
<1> QED  BY <1>1, <1>2

LEMMA RvStep ==
    ASSUME IInv, [Next]_vars
    PROVE  RV!Next \/ UNCHANGED RV!vars
<1>1. ASSUME UNCHANGED <<ipcVars, has_int_msg, buf>> PROVE UNCHANGED RV!vars
  BY <1>1 DEF RV!vars, St, ipcVars
<1>2. CASE \E p \in Procs : SysCall(p)
  <2>1. PICK p \in Procs : SysCall(p)
    BY <1>2
  <2>2. CASE \E d \in Procs, b \in Bodies : Send(p, d, b)
    BY <2>2, RvSend
  <2>3. CASE \E src \in Procs \cup {ANY, INTERRUPT} : Receive(p, src)
    BY <2>3, RvReceive
  <2>4. CASE \/ \E time \in 1 .. MaxTime : SetTimer(p, time)
             \/ Both(p)
    BY <1>1, <2>4 DEF SetTimer, Both
  <2> QED  BY <2>1, <2>2, <2>3, <2>4 DEF SysCall
<1>3. CASE Irq
  <2>1. PICK l \in IrqLines : InformInt(l[1], l[2])
    BY <1>3 DEF Irq
  <2>2. l[1] \in Procs /\ l[2] \in IntBits
    BY IpcAssumption DEF IntBits
  <2> QED  BY <1>3, <2>1, <2>2, RvInform DEF Irq
<1>4. CASE ClockTimer
  <2>1. clk \in Slots /\ kernel = "run"
    BY <1>4 DEF ClockTimer
  <2>2. CASE timers[clk].pid # NO_TASK /\ InformInt(timers[clk].pid, CLOCK)
    <3>1. timers[clk].pid \in Procs /\ CLOCK \in IntBits
      BY <2>1, <2>2 DEF IInv, TypeOK, IntBits
    <3> QED  BY <2>1, <2>2, <3>1, RvInform
  <2>3. CASE UNCHANGED <<ipcVars, has_int_msg, buf>>
    BY <1>1, <2>3
  <2> QED  BY <1>4, <2>2, <2>3 DEF ClockTimer
<1>5. CASE ClockBegin \/ ClockEnd \/ ClockNested \/ UNCHANGED vars
  BY <1>1, <1>5 DEF ClockBegin, ClockEnd, ClockNested, vars
<1> QED  BY <1>2, <1>3, <1>4, <1>5 DEF Next

\* sys_sendrec() is synchronous, unbuffered message passing: a message is
\* handed over exactly once, to a receiver that asked for it, and an interrupt
\* is remembered until it is asked for, or until a later one wakes its process.
THEOREM RendezvousImplemented == SafeSpec => ImplementsRendezvous
<1>1. IInv /\ [Next]_vars => [kernel' # "fault" => RV!Next \/ UNCHANGED RV!vars]_vars
  BY RvStep
<1> QED  BY <1>1, RvInit, Inductive, PTL DEF SafeSpec, ImplementsRendezvous
=============================================================================
