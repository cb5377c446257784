---------------------------- MODULE StorageSettle ----------------------------
(***************************************************************************)
(* Waiting for the local flash to settle before boot discovery looks at it *)
(* (src/settle.rs, wait_for_local_flash). Every poll drains the kernel's   *)
(* uevents and takes a snapshot of the disks and their partitions; the     *)
(* wait ends when disks are present and nothing changed for a while, or at *)
(* the deadline. The storage changes at any point of a poll.               *)
(***************************************************************************)
EXTENDS Integers, FiniteSets

CONSTANTS
    Layouts,        \* what the local flash may look like; NoDisks is one of them
    NoDisks,        \* no disk is present
    Quiet,          \* QUIET_AFTER_PRESENT in polls
    MaxWait,        \* the caller's deadline in polls
    MaxChanges      \* bound: changes of the storage

VARIABLES
    now,            \* the clock, in polls
    pc,             \* "poll", "drained" or what was reported: "settled", "timed_out"
    layout,         \* what the local flash looks like
    socket,         \* the uevent socket is open
    uevents,        \* relevant uevents that were not drained
    snapshot,
    last_change,
    changes,        \* changes so far
    changed,        \* when the last one happened
    calm            \* when the last one before the last drain happened

vars == <<now, pc, layout, socket, uevents, snapshot, last_change, changes, changed, calm>>

\* A capture that fails half way, for a disk that goes away, counts as empty.
Captures == IF changes > 0 THEN {layout, NoDisks} ELSE {layout}

Init ==
    /\ now = 0 /\ pc = "poll"
    /\ layout \in Layouts
    /\ socket \in BOOLEAN
    /\ uevents = 0
    /\ snapshot = layout /\ last_change = 0
    /\ changes = 0 /\ changed = 0 /\ calm = 0

\* The kernel announces every change of a disk or a partition; uevents of
\* other devices are not relevant (external).
StorageChanges ==
    /\ changes < MaxChanges
    /\ layout' \in Layouts \ {layout}
    /\ changes' = changes + 1 /\ changed' = now
    /\ uevents' = IF socket THEN uevents + 1 ELSE 0
    /\ UNCHANGED <<now, pc, socket, snapshot, last_change, calm>>

SocketFails ==
    /\ pc = "poll" /\ socket
    /\ socket' = FALSE /\ uevents' = 0
    /\ pc' = "drained"
    /\ UNCHANGED <<now, layout, snapshot, last_change, changes, changed, calm>>

\* the socket gave a relevant uevent
Heard == uevents > 0

\* Fault: only a changed snapshot counts as a change.
Drain_uncounted ==
    /\ pc = "poll"
    /\ pc' = "drained"
    /\ uevents' = 0
    /\ calm' = changed
    /\ UNCHANGED <<now, layout, socket, snapshot, last_change, changes, changed>>

Drain ==
    /\ pc = "poll"
    /\ pc' = "drained"
    /\ uevents' = 0
    /\ last_change' = IF Heard THEN now ELSE last_change
    /\ calm' = changed
    /\ UNCHANGED <<now, layout, socket, snapshot, changes, changed>>

\* the second half of a poll: the snapshot, the verdict and the sleep
Poll(next) ==
    LET seen == IF next # snapshot THEN now ELSE last_change
    IN /\ pc = "drained"
       /\ snapshot' = next
       /\ last_change' = seen
       /\ IF next # NoDisks /\ now - seen >= Quiet THEN pc' = "settled" /\ now' = now
          ELSE IF now >= MaxWait THEN pc' = "timed_out" /\ now' = now
          ELSE pc' = "poll" /\ now' = now + 1
       /\ UNCHANGED <<layout, socket, uevents, changes, changed, calm>>

Reported == pc \in {"settled", "timed_out"}

Next == \/ ~Reported /\ StorageChanges
        \/ SocketFails \/ Drain
        \/ \E next \in Captures : Poll(next)

-----------------------------------------------------------------------------
\* The storage is called settled only if there is some, and, as long as the
\* uevents can be heard, only if nothing happened to it for the quiet time,
\* a change that undid itself between two polls included; without a report by
\* the deadline the wait gives up (wait_for_local_flash).
SettledIsQuiet ==
    /\ pc = "settled" => snapshot # NoDisks /\ (socket => now - calm >= Quiet)
    /\ pc # "settled" => now <= MaxWait
=============================================================================
