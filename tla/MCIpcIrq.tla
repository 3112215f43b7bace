------------------------------- MODULE MCIpcIrq -------------------------------
(***************************************************************************)
(* Three processes; handlers inform p1 and p2, as those of the keyboard    *)
(* and the disk inform their servers.                                      *)
(***************************************************************************)
EXTENDS IpcIrq

CONSTANTS p1, p2, p3

MCProcs == {p1, p2, p3}
MCPriority == [p \in MCProcs |-> 1]
MCBoot == <<p1, p2, p3>>
=============================================================================
