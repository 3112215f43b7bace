------------------------------ MODULE Rendezvous ------------------------------
(***************************************************************************)
(* What sys_sendrec promises its callers: synchronous, unbuffered message  *)
(* passing.  A send completes exactly when the process it names takes the  *)
(* message, a receive takes a message of a sender it asked for, and an     *)
(* interrupt is remembered until its process asks for it, or is woken by a *)
(* later one.  There are no queues of processes and no sender lists here;  *)
(* Ipc implements this.                                                    *)
(***************************************************************************)
CONSTANTS Procs, Bodies, IntBits, ANY, INTERRUPT

VARIABLES st,     \* per process: running, sending to a peer, receiving from one
          buf,    \* per process: its MESSAGE structure
          pend    \* per process: interrupts not yet received

vars == <<st, buf, pend>>

Run == [op |-> "run"]
Sending(d) == [op |-> "send", peer |-> d]
Receiving(src) == [op |-> "recv", peer |-> src]

Msg(p, b) == [source |-> p, type |-> b]

Init == /\ st = [p \in Procs |-> Run]
        /\ buf \in [Procs -> {Msg(p, b) : p \in Procs, b \in Bodies}]
        /\ pend = [p \in Procs |-> {}]

Matching(p, src) ==
    {x \in Procs : st[x] = Sending(p) /\ src \in {x, ANY}}

SendNow(p, d, b) ==
    /\ st[d] \in {Receiving(p), Receiving(ANY)}
    /\ st' = [st EXCEPT ![d] = Run]
    /\ buf' = [buf EXCEPT ![p] = Msg(p, b), ![d] = Msg(p, b)]
    /\ UNCHANGED pend

SendLater(p, d, b) ==
    /\ st[d] \notin {Receiving(p), Receiving(ANY)}
    /\ st' = [st EXCEPT ![p] = Sending(d)]
    /\ buf' = [buf EXCEPT ![p] = Msg(p, b)]
    /\ UNCHANGED pend

ReceiveInt(p, src) ==
    /\ pend[p] # {} /\ src \in {ANY, INTERRUPT}
    /\ buf' = [buf EXCEPT ![p] = Msg(INTERRUPT, pend[p])]
    /\ pend' = [pend EXCEPT ![p] = {}]
    /\ UNCHANGED st

ReceiveMsg(p, src) ==
    /\ ~(pend[p] # {} /\ src = ANY)
    /\ \E x \in Matching(p, src) :
          /\ st' = [st EXCEPT ![x] = Run]
          /\ buf' = [buf EXCEPT ![p] = buf[x]]
    /\ UNCHANGED pend

\* Interrupts may come after the look at pend; they wake nobody.
ReceiveLater(p, src) ==
    /\ Matching(p, src) = {}
    /\ ~(pend[p] # {} /\ src \in {ANY, INTERRUPT})
    /\ st' = [st EXCEPT ![p] = Receiving(src)]
    /\ buf' = [buf EXCEPT ![p].source = p]
    /\ \E bits \in SUBSET IntBits : pend' = [pend EXCEPT ![p] = @ \cup bits]

Interrupt(p, bits) ==
    IF st[p] \in {Receiving(INTERRUPT), Receiving(ANY)}
    THEN /\ st' = [st EXCEPT ![p] = Run]
         /\ buf' = [buf EXCEPT ![p] = Msg(INTERRUPT, bits)]
         /\ pend' = [pend EXCEPT ![p] = {}]
    ELSE /\ pend' = [pend EXCEPT ![p] = @ \cup bits]
         /\ UNCHANGED <<st, buf>>

Next ==
    \E p \in Procs :
        \/ /\ st[p] = Run
           /\ \/ \E d \in Procs \ {p}, b \in Bodies : SendNow(p, d, b) \/ SendLater(p, d, b)
              \/ \E src \in (Procs \ {p}) \cup {ANY, INTERRUPT} :
                    ReceiveInt(p, src) \/ ReceiveMsg(p, src) \/ ReceiveLater(p, src)
        \/ \E i \in IntBits : Interrupt(p, {i})

Spec == Init /\ [][Next]_vars
=============================================================================
