------------------------------ MODULE MCPcbList ------------------------------
(* Three PCB slots, one of them unused at boot. *)
EXTENDS PcbList

CONSTANTS p1, p2, p3

MCProcs == {p1, p2, p3}
MCPriority == [p \in MCProcs |-> 1]
MCBoot == <<p1, p2>>
=============================================================================
