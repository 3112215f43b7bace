------------------------------- MODULE MCTimers -------------------------------
(* Two processes and two timer slots; p1 is told of the keyboard. *)
EXTENDS Ipc

CONSTANTS p1, p2, KEYBOARD

MCProcs == {p1, p2}
MCPriority == [p \in MCProcs |-> IF p = p1 THEN 2 ELSE 1]
MCBoot == <<p1, p2>>
MCIrqLines == {<<p1, KEYBOARD>>}
=============================================================================
