------------------------------- MODULE AbSlots -------------------------------
(***************************************************************************)
(* `fastboot set_active` (src/ab_slots.rs): the A/B flags of every slot    *)
(* pair are rewritten in the primary and the backup GPT of every local     *)
(* disk, one disk after the other, through the page cache and with one     *)
(* fsync per disk.                                                         *)
(*                                                                         *)
(* A GPT copy is an entry array and a header that carries the array's CRC. *)
(* The header is modelled by the table its CRC was computed over, so a     *)
(* copy passes the CRC test when both are the same table. Torn stands for  *)
(* an entry array of which only some sectors were written.                 *)
(***************************************************************************)
EXTENDS Naturals, FiniteSets

CONSTANTS
    Disk,           \* the local flash disks, numbered in name order
    BootDisk,       \* the one with boot_a and boot_b
    Pairs,          \* the slot pairs in each disk's GPT
    Torn,           \* an entry array of which only a part was written
    MaxCalls        \* bound: set_active commands

ASSUME DiskAssumption ==
    /\ Disk \subseteq Nat /\ IsFiniteSet(Disk) /\ BootDisk \in Disk
    /\ Pairs \in [Disk -> SUBSET STRING]
    /\ "boot" \in Pairs[BootDisk]
    /\ \A d \in Disk \ {BootDisk} : "boot" \notin Pairs[d]
ASSUME MaxCallsAssumption == MaxCalls \in Nat

VARIABLES
    \* the block devices
    media,          \* what is on the medium: [Disk -> [Region -> Table]]
    cache,          \* what the page cache holds, which reads return
    seen,           \* disks whose partitions the kernel lists in sysfs
    lost,           \* disks that lost power with dirty GPT regions
    \* set_active_slot
    pc,             \* "idle", "next" (the disk loop), "write" or "sync"
    target,
    todo,           \* disks the loop has not come to
    disk,           \* the disk being committed
    gpt,            \* its two tables as updated in memory
    written,        \* regions of it written so far
    saw_boot_pair,
    updated,        \* updated_pairs > 0
    processed,      \* disks whose GPT loaded in this call
    result,         \* "none", "ok" or "err"
    calls

devVars  == <<media, cache, seen, lost>>
callVars == <<pc, target, todo, disk, gpt, written, saw_boot_pair, updated,
              processed, result, calls>>
vars     == <<devVars, callVars>>

Slot   == {"A", "B"}
Entry  == [active : BOOLEAN, guid : {"active", "inactive"}]
Table(d) == [Pairs[d] -> [Slot -> Entry]]

ASSUME TornAssumption == \A d \in Disk : Torn \notin Table(d)

\* The regions of the two copies, in the order commit() writes them.
Region == {"primary_entries", "primary_header", "backup_entries",
           "backup_header"}
Before == [primary_entries |-> {},
           primary_header  |-> {"primary_entries"},
           backup_entries  |-> {"primary_entries", "primary_header"},
           backup_header   |-> Region \ {"backup_header"}]
IsEntries(r) == r \in {"primary_entries", "backup_entries"}

\* A pair before any update: no A/B metadata, or one active slot.
FreshPair == {[s \in Slot |-> [active |-> s = a, guid |->
                  IF s = a THEN "active" ELSE "inactive"]] : a \in Slot \union {"none"}}

Init ==
    /\ \E t \in [Disk -> [UNION {Pairs[d] : d \in Disk} -> FreshPair]] :
         media = [d \in Disk |-> [r \in Region |-> [p \in Pairs[d] |-> t[d][p]]]]
    /\ cache = media /\ seen = Disk /\ lost = {}
    /\ pc = "idle" /\ target = "A" /\ todo = {} /\ disk = BootDisk
    /\ gpt = cache[BootDisk] /\ written = {}
    /\ saw_boot_pair = FALSE /\ updated = FALSE
    /\ processed = {} /\ result = "none" /\ calls = 0

-----------------------------------------------------------------------------
(* Reading and updating a table.                                           *)

\* parse_gpt_header and validate_entry_array_crc on one copy.
PrimaryValid(dev) == dev["primary_entries"] = dev["primary_header"]
BackupValid(dev)  == dev["backup_entries"] = dev["backup_header"]

\* set_active_pair's test for A/B metadata.
HasActive(pair) == pair["A"].active \/ pair["B"].active

\* Fault: the other slot's active flag is not cleared.
UpdatePairTable_keeps_flag(pair, slot, active_guid, inactive_guid) ==
    [s \in Slot |-> IF s = slot THEN [active |-> TRUE, guid |-> active_guid]
                    ELSE [active |-> pair[s].active, guid |-> inactive_guid]]

\* update_pair_table: flags and type GUIDs of both slots.
UpdatePairTable(pair, slot, active_guid, inactive_guid) ==
    [s \in Slot |-> IF s = slot THEN [active |-> TRUE, guid |-> active_guid]
                    ELSE [active |-> FALSE, guid |-> inactive_guid]]

\* Pairs that set_active_pair would update.
Switchable(primary) == {p \in DOMAIN primary : p # "xbl" /\ HasActive(primary[p])}

\* set_active_pair, on every pair but xbl that has metadata in the primary
\* table; the GUIDs come from the primary table for both copies.
SetActivePairs(table, primary, slot) ==
    [p \in DOMAIN table |->
        IF p \notin Switchable(primary) THEN table[p]
        ELSE LET a == IF primary[p]["A"].active THEN "A" ELSE "B"
                 i == IF a = "A" THEN "B" ELSE "A"
             IN UpdatePairTable(table[p], slot, primary[p][a].guid,
                                primary[p][i].guid)]

-----------------------------------------------------------------------------
(* set_active_slot.                                                        *)

Return(r) == pc' = "idle" /\ result' = r

\* find_partition("boot_a"/"boot_b") and local_disks.
SetActive(slot) ==
    /\ pc = "idle" /\ calls < MaxCalls
    /\ calls' = calls + 1 /\ target' = slot
    /\ saw_boot_pair' = FALSE /\ updated' = FALSE /\ processed' = {}
    /\ IF BootDisk \in seen
         THEN pc' = "next" /\ todo' = Disk /\ result' = "none"
         ELSE Return("err") /\ UNCHANGED todo
    /\ UNCHANGED <<devVars, disk, gpt, written>>

\* The loop comes to disk d.
NextDisk(d) == pc = "next" /\ d \in todo /\ \A e \in todo : d <= e

\* GptDisk::load fails: the device cannot be read or either copy is invalid.
\* Fatal for the boot disk, otherwise the disk is skipped.
LoadFails(d) ==
    /\ NextDisk(d)
    /\ IF d = BootDisk THEN Return("err") ELSE UNCHANGED <<pc, result>>
    /\ todo' = todo \ {d}
    /\ UNCHANGED <<devVars, target, disk, gpt, written, saw_boot_pair, updated,
                   processed, calls>>

\* The two copies as set_active_pair leaves them in memory, with new CRCs.
UpdatedGpt(primary, backup, slot) ==
    LET p == SetActivePairs(primary, primary, slot)
        b == SetActivePairs(backup, primary, slot)
    IN [primary_entries |-> p, primary_header |-> p,
        backup_entries |-> b, backup_header |-> b]

\* GptDisk::load, slot_pairs and set_active_pair for each of them.
LoadAndUpdate(d) ==
    /\ NextDisk(d)
    /\ PrimaryValid(cache[d]) /\ BackupValid(cache[d])
    /\ todo' = todo \ {d}
    /\ processed' = processed \union {d}
    /\ saw_boot_pair' = (saw_boot_pair \/ "boot" \in Pairs[d])
    /\ LET primary == cache[d]["primary_entries"] IN
         \/ /\ "boot" \in Pairs[d] /\ ~HasActive(primary["boot"])
            /\ Return("err")
            /\ UNCHANGED <<disk, gpt, written, updated>>
         \/ /\ "boot" \notin Pairs[d] /\ Switchable(primary) = {}
            /\ UNCHANGED <<pc, result, disk, gpt, written, updated>>
         \/ /\ "boot" \in Pairs[d] => HasActive(primary["boot"])
            /\ Switchable(primary) # {}
            /\ pc' = "write" /\ disk' = d /\ written' = {} /\ updated' = TRUE
            /\ gpt' = UpdatedGpt(primary, cache[d]["backup_entries"], target)
            /\ UNCHANGED result
    /\ UNCHANGED <<devVars, target, calls>>

\* The loop is over: at least the boot pair was switched.
Finish ==
    /\ pc = "next" /\ todo = {}
    /\ Return(IF saw_boot_pair /\ updated THEN "ok" ELSE "err")
    /\ UNCHANGED <<devVars, target, todo, disk, gpt, written, saw_boot_pair,
                   updated, processed, calls>>

-----------------------------------------------------------------------------
(* GptDisk::commit.                                                        *)

\* Fault: both entry arrays are written before the headers.
CommitOrder_entries_first(r) ==
    IF IsEntries(r) THEN Before[r] \ {"primary_header"}
    ELSE Before[r] \union {"primary_entries", "backup_entries"}

\* What commit() has written before it writes region r.
CommitOrder(r) == Before[r]

CommitWrite(r) ==
    /\ pc = "write" /\ r \notin written /\ CommitOrder(r) \subseteq written
    /\ cache' = [cache EXCEPT ![disk][r] = gpt[r]]
    /\ written' = written \union {r}
    /\ pc' = IF written' = Region THEN "sync" ELSE "write"
    /\ UNCHANGED <<media, seen, lost, target, todo, disk, gpt, saw_boot_pair,
                   updated, processed, result, calls>>

\* open() or a write fails; of an entry array, a part may have been written.
CommitFails(r) ==
    /\ pc = "write" /\ r \notin written /\ CommitOrder(r) \subseteq written
    /\ \/ UNCHANGED cache
       \/ IsEntries(r) /\ cache' = [cache EXCEPT ![disk][r] = Torn]
    /\ Return("err")
    /\ UNCHANGED <<media, seen, lost, target, todo, disk, gpt, written,
                   saw_boot_pair, updated, processed, calls>>

\* Fault: commit() returns without the fsync.
CommitSync_none ==
    /\ pc = "sync"
    /\ pc' = "next"
    /\ UNCHANGED <<devVars, target, todo, disk, gpt, written,
                   saw_boot_pair, updated, processed, result, calls>>

\* sync_all: everything cached for this disk is on the medium.
CommitSync ==
    /\ pc = "sync"
    /\ media' = [media EXCEPT ![disk] = cache[disk]]
    /\ lost' = lost \ {disk}
    /\ pc' = "next"
    /\ UNCHANGED <<cache, seen, target, todo, disk, gpt, written,
                   saw_boot_pair, updated, processed, result, calls>>

\* sync_all reports an error.
CommitSyncFails ==
    /\ pc = "sync" /\ Return("err")
    /\ UNCHANGED <<devVars, target, todo, disk, gpt, written, saw_boot_pair,
                   updated, processed, calls>>

-----------------------------------------------------------------------------
(* The kernel and the power supply.                                        *)

\* Dirty pages reach the medium in any order, and not all at once.
Writeback(d, r) ==
    /\ media[d][r] # cache[d][r]
    /\ \/ media' = [media EXCEPT ![d][r] = cache[d][r]]
       \/ IsEntries(r) /\ media' = [media EXCEPT ![d][r] = Torn]
    /\ UNCHANGED <<cache, seen, lost, callVars>>

\* Power is lost; on the next boot the kernel lists a disk's partitions when
\* one of its GPT copies is valid.
PowerLoss ==
    /\ cache' = media
    /\ seen' = {d \in Disk : PrimaryValid(media[d]) \/ BackupValid(media[d])}
    /\ lost' = lost \union {d \in Disk : media[d] # cache[d]}
    /\ pc' = "idle" /\ todo' = {}
    /\ result' = IF pc = "idle" THEN result ELSE "none"
    /\ UNCHANGED <<media, target, disk, gpt, written, saw_boot_pair, updated,
                   processed, calls>>

Next ==
    \/ \E slot \in Slot : SetActive(slot)
    \/ \E d \in Disk : LoadFails(d) \/ LoadAndUpdate(d)
    \/ Finish
    \/ \E r \in Region : CommitWrite(r) \/ CommitFails(r)
    \/ CommitSync \/ CommitSyncFails
    \/ \E d \in Disk, r \in Region : Writeback(d, r)
    \/ PowerLoss

Spec == Init /\ [][Next]_vars

-----------------------------------------------------------------------------
(* Properties.                                                             *)

Dev(d) == [Region -> Table(d) \union {Torn}]

\* Every variable has its type.
TypeOK ==
    /\ \A d \in Disk : media[d] \in Dev(d) /\ cache[d] \in Dev(d)
    /\ seen \subseteq Disk /\ lost \subseteq Disk
    /\ pc \in {"idle", "next", "write", "sync"}
    /\ target \in Slot /\ todo \subseteq Disk /\ disk \in Disk
    /\ gpt \in Dev(disk) /\ written \subseteq Region
    /\ saw_boot_pair \in BOOLEAN /\ updated \in BOOLEAN
    /\ processed \subseteq Disk /\ result \in {"none", "ok", "err"}
    /\ calls \in 0..MaxCalls

\* The slot pair boots from s and from nowhere else.
BootsFrom(pair, s) ==
    \A t \in Slot : pair[t] = [active |-> t = s,
                               guid |-> IF t = s THEN "active" ELSE "inactive"]

\* OKAY means done for good: both copies of every GPT that could be loaded,
\* the boot disk's among them, are on the medium, valid, and switch every pair
\* that has A/B metadata; losing power afterwards changes nothing.
OkayIsDurable ==
    pc = "idle" /\ result = "ok" =>
        /\ BootDisk \in processed
        /\ \A d \in processed :
             /\ PrimaryValid(media[d]) /\ BackupValid(media[d])
             /\ \A e \in {"primary_entries", "backup_entries"} :
                  \A p \in Switchable(media[d]["primary_entries"]) :
                     BootsFrom(media[d][e][p], target)

\* Whenever power is lost or a write fails, a copy that passes its CRC holds
\* no half-switched pair: one active slot, and it carries the active GUID.
NoHalfSwitchedPair ==
    \A d \in Disk : \A dev \in {media[d], cache[d]} :
        \A copy \in {e \in {<<"primary_entries", "primary_header">>,
                            <<"backup_entries", "backup_header">>} :
                        dev[e[1]] = dev[e[2]]} :
            \A p \in DOMAIN dev[copy[1]] :
                HasActive(dev[copy[1]][p]) =>
                    \E s \in Slot : BootsFrom(dev[copy[1]][p], s)

\* A failed write or fsync, at any point and on any disk, leaves a valid copy
\* of the GPT: commit() finishes the primary before it touches the backup, and
\* load() refuses a disk that has only one valid copy left. Power loss is the
\* exception: nothing orders the writes on their way to the medium.
OneCopySurvives ==
    \A d \in Disk \ lost : PrimaryValid(cache[d]) \/ BackupValid(cache[d])

=============================================================================
