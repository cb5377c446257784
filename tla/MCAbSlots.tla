------------------------------ MODULE MCAbSlots ------------------------------
(* The disk of the boot pair comes last, so that the call can fail after     *)
(* another disk was switched; xbl is on it and must be left alone.           *)
EXTENDS AbSlots, TLC

MCPairs == 1 :> {"modem"} @@ 2 :> {"boot", "xbl"}
=============================================================================
