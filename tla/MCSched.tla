------------------------------- MODULE MCSched -------------------------------
(* Three PCB slots, one of them unused at boot; slices of one and two ticks. *)
EXTENDS Sched

CONSTANTS p1, p2, p3

MCProcs == {p1, p2, p3}
MCPriority == [p \in MCProcs |-> IF p = p1 THEN 2 ELSE 1]
MCBoot == <<p1, p2>>
=============================================================================
