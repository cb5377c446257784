-------------------------- MODULE MCBootCoordinator --------------------------
(* Two partitions: the first holds an entry that cannot be booted directly   *)
(* and the worst bootable one, the second the best bootable one, so a list   *)
(* can grow at its front and a menu index differs from a list index.         *)
EXTENDS BootCoordinator

CONSTANTS p1, p2

MCEntriesOf == [p \in {p1, p2} |-> IF p = p1 THEN {1, 3} ELSE {2}]
MCBootable  == {2, 3}
=============================================================================
