------------------------------ MODULE BootMenu -------------------------------
(***************************************************************************)
(* What boot discovery promises to the boot coordinator: the lists it      *)
(* sends grow by the entries of one whole partition at a time, each list   *)
(* is in order and names every entry once, and the last one is complete.   *)
(***************************************************************************)
EXTENDS Integers, Sequences, FiniteSets

CONSTANT Before(_, _)   \* the order of the entries

VARIABLES
    finds,      \* the entries on each partition of the machine
    sure,       \* the partitions that cannot be missed
    told,       \* the partitions whose entries were sent
    list,       \* the last list sent
    complete    \* DiscoveryComplete was sent

vars == <<finds, sure, told, list, complete>>

Listing(partitions) ==
    LET all == UNION {finds[p] : p \in partitions}
    IN [i \in 1..Cardinality(all) |->
          CHOOSE e \in all : Cardinality({f \in all : Before(f, e)}) = i - 1]

Init == told = {} /\ list = <<>> /\ complete = FALSE

Tell(p) ==
    /\ ~complete
    /\ p \in DOMAIN finds \ told /\ finds[p] # {}
    /\ told' = told \union {p}
    /\ list' = Listing(told')
    /\ UNCHANGED <<finds, sure, complete>>

Finish ==
    /\ ~complete
    /\ \A p \in sure : finds[p] # {} => p \in told
    /\ complete' = TRUE
    /\ UNCHANGED <<finds, sure, told, list>>

\* the disks cannot be listed: an empty list ends the discovery
GiveUp ==
    /\ ~complete /\ told = {}
    /\ complete' = TRUE
    /\ UNCHANGED <<finds, sure, told, list>>

Next == (\E p \in DOMAIN finds : Tell(p)) \/ Finish \/ GiveUp
Spec == Init /\ [][Next]_vars
=============================================================================
