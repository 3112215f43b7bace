-------------------------------- MODULE MCIpc --------------------------------
(***************************************************************************)
(* Three processes without timers: p1 is told of the keyboard's interrupts,*)
(* p2 of the disk's.                                                       *)
(***************************************************************************)
EXTENDS Ipc

CONSTANTS p1, p2, p3, KEYBOARD, DISK

MCProcs == {p1, p2, p3}
MCPriority == [p \in MCProcs |-> 1]
MCBoot == <<p1, p2, p3>>
MCIrqLines == {<<p1, KEYBOARD>>, <<p2, DISK>>}
=============================================================================
