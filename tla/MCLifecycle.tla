----------------------------- MODULE MCLifecycle -----------------------------
(***************************************************************************)
(* Two PCBs for programs and a bitmap of three bytes of two bits.          *)
(***************************************************************************)
EXTENDS Lifecycle

CONSTANTS u1, u2

MCSlots == <<u1, u2>>
MCProcs == {INPUT, FS, MM, TTY, u1, u2}
MCPriority == [p \in MCProcs |-> 1]
MCRunExit == <<"run", "shift">>
MCRunTwice == <<"run", "shift", "run">>
MCKeyLate == <<"run", "shift", "shift">>
MCBoot == <<INPUT, FS, MM, TTY>>
=============================================================================
