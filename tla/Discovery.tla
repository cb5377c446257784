------------------------------ MODULE Discovery ------------------------------
(***************************************************************************)
(* Boot discovery (src/bootflow.rs, discover): one task per disk reads the *)
(* partition tables and maps the boot partitions nested in `userdata` to   *)
(* loop devices; one task per candidate mounts and scans it; the caller    *)
(* collects what they send, in any order, and reports a sorted list after  *)
(* every partition that has entries.                                       *)
(*                                                                         *)
(* A partition is named by a sequence of numbers, <<disk, n>>, or <<disk,  *)
(* outer, n>> when it is nested. Sizes and addresses are in blocks.        *)
(***************************************************************************)
EXTENDS BootFiles

CONSTANTS
    Machines,   \* the machines the program may run on: storage and device tree
    Loops       \* loop devices the kernel can make

\* A table, a directory or a text is finite, and its lines are numbered.
Numbered(s) == IsFiniteSet(DOMAIN s) /\ DOMAIN s \subseteq Nat \ {0}

\* BlsSnippet::parse skips a line without a value, and a directory has one
\* file of a name; a label names one entry of its file.
ReadableFs(fs) ==
    /\ IsFiniteSet(fs.bls)
    /\ \A f \in fs.bls :
          /\ f.name \in Nat /\ Numbered(f.lines)
          /\ \A i \in DOMAIN f.lines : f.lines[i].value # Empty
          /\ \A g \in fs.bls : g.name = f.name => g = f
    /\ Numbered(fs.extlinux)
    /\ \A k \in DOMAIN fs.extlinux :
          LET lines == fs.extlinux[k]
              labels == {i \in DOMAIN lines : lines[i].key = "label" /\ lines[i].value # Empty}
          IN /\ lines \in Seq(Range(lines))
             /\ \A i, j \in labels : /\ Head(lines[i].value).name \in Nat
                                     /\ Head(lines[i].value).name = Head(lines[j].value).name => i = j

FsOf(m, name) ==
    IF Len(name) = 2 THEN m.disks[name[1]].parts[name[2]]
    ELSE m.disks[name[1]].outer[name[2]].mbr[name[3]].fs

PartitionNames(m) ==
    UNION {{<<d, n>> : n \in DOMAIN m.disks[d].parts}
             \union UNION {{<<d, o, n>> : n \in DOMAIN m.disks[d].outer[o].mbr} : o \in DOMAIN m.disks[d].outer} :
           d \in DOMAIN m.disks}

ReadableMachine(m) ==
    /\ Numbered(m.disks)
    /\ \A d \in DOMAIN m.disks :
          /\ Numbered(m.disks[d].gpt.entries) /\ Numbered(m.disks[d].mbr) /\ Numbered(m.disks[d].outer)
          /\ \A o \in DOMAIN m.disks[d].outer : Numbered(m.disks[d].outer[o].mbr)
    /\ \A p \in PartitionNames(m) : ReadableFs(FsOf(m, p))

ASSUME LoopsAssumption == Loops \subseteq Nat
ASSUME MachinesAssumption == Machines # {} /\ \A m \in Machines : ReadableMachine(m)

VARIABLES
    machine,
    holds,      \* what a scan of each partition finds: the mounts are read-only
    stage,      \* of the caller: "list", "disks", "scan", "complete"
    disk,       \* the task of each disk
    lo,         \* the loop devices: what is mapped and who holds them open
    gathered,   \* candidates received from the disks' tasks
    candidates, \* sorted, each once
    scanner,    \* the task of each candidate
    entries,    \* entries received so far
    list        \* the last list reported

vars == <<machine, holds, stage, disk, lo, gathered, candidates, scanner, entries, list>>

Free == Empty

-----------------------------------------------------------------------------
(* the disks and their partition tables *)

Disk(d) == machine.disks[d]
PartitionFs(name) == FsOf(machine, name)

InOrder(set, Before(_, _)) ==
    [i \in 1..Cardinality(set) |-> CHOOSE e \in set : Cardinality({f \in set : Before(f, e)}) = i - 1]

\* slice::sort_by is stable: what compares equal keeps its order
sort_by(seq, Before(_, _)) ==
    LET Precedes(p, q) == IF p[1] < q[1] THEN ~Before(q[2], p[2]) ELSE Before(p[2], q[2])
        order == InOrder({<<i, seq[i]>> : i \in DOMAIN seq}, Precedes)
    IN [k \in DOMAIN order |-> order[k][2]]

local_disk_candidates(m) == {d \in DOMAIN m.disks : m.disks[d].local /\ m.disks[d].dev}

Candidate(role, d, name, dev) ==
    [role |-> role, disk |-> d, partition |-> name, partno |-> Last(name), dev |-> dev]

\* validate_protective_mbr, parse_gpt_header and the checks of the entry array
GptUsable(dk) ==
    LET g == dk.gpt
    IN /\ dk.blocks >= 2
       /\ g.protective /\ g.valid /\ g.current = 1
       /\ g.backup < dk.blocks /\ g.table < dk.blocks
       /\ g.first <= g.last
       /\ g.tableBlocks > 0 /\ g.table + g.tableBlocks <= dk.blocks

\* the entries of the GPT that name a boot partition the kernel knows
GptEntries(dk) ==
    LET g == dk.gpt
    IN {n \in DOMAIN g.entries :
          /\ GptUsable(dk)
          /\ g.entries[n].first >= g.first /\ g.entries[n].last <= g.last
          /\ g.entries[n].last < dk.blocks /\ g.entries[n].last >= g.entries[n].first
          /\ g.entries[n].role \in {"xbootldr", "esp"}
          /\ n \in DOMAIN dk.parts}

gpt_boot_partitions(d, dk) ==
    LET found == Ascending(GptEntries(dk))
    IN [i \in DOMAIN found |->
          Candidate(dk.gpt.entries[found[i]].role, d, <<d, found[i]>>, <<"part", d, found[i]>>)]

\* and those of the MBR
parse_mbr_boot_entries(dk) ==
    {n \in DOMAIN dk.mbr :
       /\ dk.mbr[n].type = "xbootldr" /\ dk.mbr[n].start > 0 /\ dk.mbr[n].count > 0
       /\ dk.blocks = 0 \/ dk.mbr[n].start + dk.mbr[n].count - 1 < dk.blocks
       /\ n \in DOMAIN dk.parts}

mbr_boot_partitions(d, dk) ==
    LET found == Ascending(parse_mbr_boot_entries(dk))
    IN [i \in DOMAIN found |-> Candidate("xbootldr", d, <<d, found[i]>>, <<"part", d, found[i]>>)]

userdata_partitions(dk) == {n \in DOMAIN dk.outer : dk.outer[n].userdata /\ dk.outer[n].dev}

validate_mbr_extents(outer) ==
    LET used == {n \in DOMAIN outer.mbr : outer.mbr[n].type # "unused"}
        End(n) == outer.mbr[n].start + outer.mbr[n].count
    IN /\ \A n \in used : outer.mbr[n].count > 0 /\ End(n) <= outer.blocks
       /\ \A n, k \in used : n # k => End(n) <= outer.mbr[k].start \/ End(k) <= outer.mbr[n].start

is_nested_boot_entry(e) == e.active /\ e.type = "linux" /\ e.start > 0 /\ e.count > 0

\* the entries of a userdata partition that will be mapped
NestedEntries(outer) ==
    {n \in DOMAIN outer.mbr : validate_mbr_extents(outer) /\ is_nested_boot_entry(outer.mbr[n])}

-----------------------------------------------------------------------------
(* loop devices (external): bound until the last opener is gone *)

Closed(l, holders) ==
    [n \in DOMAIN l |->
        LET open == l[n].open \ holders
        IN [of |-> IF open = {} THEN Free ELSE l[n].of, open |-> open]]

Bound(n) == lo[n].of # Free
Unbound == {n \in DOMAIN lo : ~Bound(n)}

-----------------------------------------------------------------------------
(* a disk's task *)

At(d, step) == stage = "disks" /\ disk[d].step = step

ReadTables(d) ==
    /\ At(d, "tables")
    /\ disk' = [disk EXCEPT ![d] = [@ EXCEPT !.step = "outer",
                  !.found = gpt_boot_partitions(d, Disk(d)) \o mbr_boot_partitions(d, Disk(d)),
                  !.outers = Ascending(userdata_partitions(Disk(d)))]]
    /\ UNCHANGED <<machine, holds, stage, lo, gathered, candidates, scanner, entries, list>>

OpenOuter(d) ==
    /\ At(d, "outer") /\ disk[d].outers # <<>>
    /\ LET todo == Ascending(NestedEntries(Disk(d).outer[Head(disk[d].outers)]))
       IN disk' = [disk EXCEPT ![d] = [@ EXCEPT !.step = "map", !.todo = todo, !.mapped = <<>>]]
    /\ UNCHANGED <<machine, holds, stage, lo, gathered, candidates, scanner, entries, list>>

\* LOOP_CTL_GET_FREE names a free device and reserves nothing; it is opened.
GetFree(d) ==
    /\ At(d, "map") /\ disk[d].todo # <<>> /\ Unbound # {}
    /\ LET n == CHOOSE n \in Unbound : \A k \in Unbound : n <= k
       IN /\ disk' = [disk EXCEPT ![d] = [@ EXCEPT !.step = "configure", !.number = n]]
          /\ lo' = [lo EXCEPT ![n].open = @ \union {<<"task", d, Head(disk[d].todo)>>}]
    /\ UNCHANGED <<machine, holds, stage, gathered, candidates, scanner, entries, list>>

\* Fault: the file is closed on return, and the kernel clears the mapping.
Configure_closes_file(d) ==
    LET n == disk[d].number
        part == <<d, Head(disk[d].outers), Head(disk[d].todo)>>
    IN /\ At(d, "configure") /\ ~Bound(n)
       /\ lo' = Closed([lo EXCEPT ![n].of = part], {<<"task", d, Head(disk[d].todo)>>})
       /\ disk' = [disk EXCEPT ![d] = [@ EXCEPT !.step = "map", !.todo = Tail(disk[d].todo),
                     !.mapped = Append(disk[d].mapped, Candidate("nested", d, part, <<"loop", n>>))]]
       /\ UNCHANGED <<machine, holds, stage, gathered, candidates, scanner, entries, list>>

\* The mapping is kept by the file in the candidate.
Configure(d) ==
    LET n == disk[d].number
        part == <<d, Head(disk[d].outers), Head(disk[d].todo)>>
    IN /\ At(d, "configure") /\ ~Bound(n)
       /\ lo' = [lo EXCEPT ![n] = [of |-> part,
                   open |-> (@.open \ {<<"task", d, Head(disk[d].todo)>>}) \union {<<"candidate", part>>}]]
       /\ disk' = [disk EXCEPT ![d] = [@ EXCEPT !.step = "map", !.todo = Tail(disk[d].todo),
                     !.mapped = Append(disk[d].mapped, Candidate("nested", d, part, <<"loop", n>>))]]
       /\ UNCHANGED <<machine, holds, stage, gathered, candidates, scanner, entries, list>>

\* Another task took the device: EBUSY gives up all of this userdata partition.
ConfigureBusy(d) ==
    /\ At(d, "configure") /\ Bound(disk[d].number)
    /\ lo' = Closed(lo, {<<"task", d, Head(disk[d].todo)>>}
                          \union {<<"candidate", c.partition>> : c \in Range(disk[d].mapped)})
    /\ disk' = [disk EXCEPT ![d] = [@ EXCEPT !.step = "outer", !.outers = Tail(disk[d].outers),
                                             !.mapped = <<>>]]
    /\ UNCHANGED <<machine, holds, stage, gathered, candidates, scanner, entries, list>>

OuterDone(d) ==
    /\ At(d, "map") /\ disk[d].todo = <<>>
    /\ disk' = [disk EXCEPT ![d] = [@ EXCEPT !.step = "outer", !.outers = Tail(disk[d].outers),
                                             !.found = disk[d].found \o disk[d].mapped, !.mapped = <<>>]]
    /\ UNCHANGED <<machine, holds, stage, lo, gathered, candidates, scanner, entries, list>>

\* Send and receive in one step: tasks send in any order.
DiskDone(d) ==
    /\ At(d, "outer") /\ disk[d].outers = <<>>
    /\ gathered' = gathered \o disk[d].found
    /\ disk' = [disk EXCEPT ![d].step = "sent"]
    /\ UNCHANGED <<machine, holds, stage, lo, candidates, scanner, entries, list>>

-----------------------------------------------------------------------------
(* the caller *)

Lexicographic(k, l) ==
    \E i \in DOMAIN k : k[i] < l[i] /\ \A j \in 1..(i - 1) : k[j] = l[j]

priority(role) == CASE role = "xbootldr" -> 0 [] role = "esp" -> 1 [] role = "nested" -> 2
Flag(b) == IF b THEN 1 ELSE 0

CandidateKey(c) == <<priority(c.role), Flag(Disk(c.disk).removable), c.disk, c.partno>>
CandidateBefore(a, b) == Lexicographic(CandidateKey(a), CandidateKey(b))

\* dedup_by compares neighbours only
Dedup(seq) ==
    LET kept == Ascending({i \in DOMAIN seq : i = 1 \/ seq[i] # seq[i - 1]})
    IN [i \in DOMAIN kept |-> seq[kept[i]]]

\* of the entries of one role and disk, the outer's number comes first
EntryKey(e) ==
    <<priority(e.role), 1 - Flag(e.preferred), e.disk, e.partition[2], Last(e.partition),
      e.boot_order, -e.id, e.source>>
EntryBefore(a, b) == Lexicographic(EntryKey(a), EntryKey(b))

Init ==
    /\ machine \in Machines
    /\ holds = [p \in PartitionNames(machine) |-> ScanMounted(PartitionFs(p), machine.dt)]
    /\ stage = "list"
    /\ disk = <<>>
    /\ lo = [n \in Loops |-> [of |-> Free, open |-> {}]]
    /\ gathered = <<>> /\ candidates = <<>> /\ scanner = <<>>
    /\ entries = <<>> /\ list = <<>>

ListDisks ==
    /\ stage = "list"
    /\ stage' = "disks"
    /\ disk' = [d \in local_disk_candidates(machine) |->
                  [step |-> "tables", found |-> <<>>, outers |-> <<>>, todo |-> <<>>,
                   mapped |-> <<>>, number |-> 0]]
    /\ UNCHANGED <<machine, holds, lo, gathered, candidates, scanner, entries, list>>

\* /sys/block cannot be read
ListFails ==
    /\ stage = "list"
    /\ stage' = "complete"
    /\ UNCHANGED <<machine, holds, disk, lo, gathered, candidates, scanner, entries, list>>

SpawnScanners ==
    /\ stage = "disks" /\ \A d \in DOMAIN disk : disk[d].step = "sent"
    /\ stage' = "scan"
    /\ candidates' = Dedup(sort_by(gathered, CandidateBefore))
    /\ scanner' = [i \in DOMAIN candidates' |-> [step |-> "mount", fs |-> Empty]]
    /\ UNCHANGED <<machine, holds, disk, lo, gathered, entries, list>>

-----------------------------------------------------------------------------
(* a candidate's task *)

Fstypes(role) == IF role = "esp" THEN {"vfat"} ELSE {"ext4", "ext2", "vfat"}

\* the device node is opened by its name
Device(c) == IF c.dev[1] = "part" THEN Tail(c.dev) ELSE lo[c.dev[2]].of

Mountable(c) == Device(c) # Free /\ PartitionFs(Device(c)).type \in Fstypes(c.role)

\* scan_boot_partition: from here on the mount holds the device, and the file
\* in the candidate is closed when the scan returns
ScanPartition(i) ==
    LET c == candidates[i]
    IN /\ stage = "scan" /\ scanner[i].step = "mount" /\ Mountable(c)
       /\ scanner' = [scanner EXCEPT ![i] = [step |-> "sent", fs |-> Device(c)]]
       /\ lo' = IF c.dev[1] = "part" THEN lo
                ELSE Closed([lo EXCEPT ![c.dev[2]].open = @ \union {<<"mount", c.partition>>}],
                            {<<"candidate", c.partition>>})
       /\ UNCHANGED <<machine, holds, stage, disk, gathered, candidates, entries, list>>

MountFails(i) ==
    /\ stage = "scan" /\ scanner[i].step = "mount" /\ ~Mountable(candidates[i])
    /\ scanner' = [scanner EXCEPT ![i].step = "sent"]
    /\ lo' = Closed(lo, {<<"candidate", candidates[i].partition>>})
    /\ UNCHANGED <<machine, holds, stage, disk, gathered, candidates, entries, list>>

Labelled(c, found) ==
    {[role |-> c.role, disk |-> c.disk, partition |-> c.partition, id |-> e.id, source |-> e.source,
      preferred |-> e.preferred, boot_order |-> e.boot_order, linux |-> e.linux,
      initrds |-> e.initrds, dtb |-> e.dtb, options |-> e.options] : e \in found}

\* the entries a task sends; a failed mount sends none
Sent(i) ==
    IF scanner[i].fs = Empty THEN {}
    ELSE Labelled(candidates[i], holds[scanner[i].fs])

\* Partitions are received in any order; an empty one is not reported.
Receive(i) ==
    /\ stage = "scan" /\ scanner[i].step = "sent"
    /\ scanner' = [scanner EXCEPT ![i].step = "received"]
    /\ entries' = IF Sent(i) = {} THEN entries
                  ELSE sort_by(entries \o InOrder(Sent(i), EntryBefore), EntryBefore)
    /\ list' = IF Sent(i) = {} THEN list ELSE entries'
    /\ UNCHANGED <<machine, holds, stage, disk, lo, gathered, candidates>>

Complete ==
    /\ stage = "scan" /\ \A i \in DOMAIN scanner : scanner[i].step = "received"
    /\ stage' = "complete"
    /\ list' = sort_by(entries, EntryBefore)
    /\ UNCHANGED <<machine, holds, disk, lo, gathered, candidates, scanner, entries>>

DiskTask(d) == ReadTables(d) \/ OpenOuter(d) \/ GetFree(d) \/ Configure(d) \/ ConfigureBusy(d)
               \/ OuterDone(d) \/ DiskDone(d)
Scanner(i) == ScanPartition(i) \/ MountFails(i) \/ Receive(i)

Next == \/ ListDisks \/ ListFails \/ SpawnScanners \/ Complete
        \/ \E d \in DOMAIN disk : DiskTask(d)
        \/ \E i \in DOMAIN scanner : Scanner(i)

Spec == Init /\ [][Next]_vars

-----------------------------------------------------------------------------
(* what discovery promises *)

Label(c) == <<c.role, c.partition>>

\* every boot partition of the machine, whatever becomes of its mapping
SourcesOn(d) ==
    {<<Disk(d).gpt.entries[n].role, <<d, n>>>> : n \in GptEntries(Disk(d))}
      \union {<<"xbootldr", <<d, n>>>> : n \in parse_mbr_boot_entries(Disk(d))}
      \union UNION {{<<"nested", <<d, o, n>>>> : n \in NestedEntries(Disk(d).outer[o])} :
                    o \in userdata_partitions(Disk(d))}

Sources == UNION {SourcesOn(d) : d \in local_disk_candidates(machine)}

Finds ==
    [s \in Sources |->
        IF PartitionFs(s[2]).type \in Fstypes(s[1])
        THEN Labelled([role |-> s[1], disk |-> s[2][1], partition |-> s[2]], holds[s[2]])
        ELSE {}]

\* One disk's task maps its nested partitions alone; two race for a device.
Sure ==
    LET all == Sources
    IN {s \in all : s[1] # "nested" \/ \A t \in all : t[1] = "nested" => t[2][1] = s[2][1]}

Told == {Label(candidates[i]) : i \in {i \in DOMAIN scanner : scanner[i].step = "received" /\ Sent(i) # {}}}

Menu == INSTANCE BootMenu WITH Before <- EntryBefore, finds <- Finds, sure <- Sure, told <- Told,
                               complete <- stage = "complete"

\* Discovery implements its promise to the coordinator: whatever the order in
\* which disks and partitions answer, every list reported is the sorted list
\* of the entries of whole partitions, read from the partition each entry
\* names (a loop device is not handed on while its candidate is in use),
\* every entry once, and only the nested partitions of two disks that race for
\* a loop device may be missing at the end (discover, nested_partitions_for_outer).
ImplementsBootMenu == Menu!Spec

\* A file asks for a device tree of its own with the keys the parsers read: `devicetree`, `fdt`,
\* `fdtfile` and `fdtdir` in a BLS file, `fdt` and `devicetree` below a label of extlinux.
BlsAsks(file) ==
    \E i \in DOMAIN file.lines : file.lines[i].key \in {"devicetree", "fdt", "fdtfile", "fdtdir"}
ExtlinuxAsks(lines, id) ==
    \E i, j \in DOMAIN lines :
        /\ i < j /\ \A k \in i + 1 .. j : lines[k].key # "label"
        /\ lines[i].key = "label" /\ lines[i].value # Empty /\ Head(lines[i].value).name = id
        /\ lines[j].key \in {"fdt", "devicetree"}

\* Whatever is listed can be loaded: kernel, initrds and device tree are files of the partition
\* the entry names, and an entry is never listed without a device tree when its file asks for one
\* with a key the parsers read (BlsAsks, ExtlinuxAsks), whatever lines stand before, between and
\* after (parse_bls_file, extlinux_boot_entry, requires_dtb). Other keys are passed over by the
\* code: an extlinux label that asks with `fdtdir` or `fdtoverlays` (bootflow.rs:1289-1315), and
\* the `devicetree-overlay` of a BLS file (bootflow.rs:1685-1687), are listed and booted with
\* the tree the entry has otherwise, or with the running kernel's.
ListedEntriesAreWhole ==
    \A e \in Range(list) :
        LET fs == PartitionFs(e.partition)
        IN /\ {e.linux} \union Range(e.initrds) \union ({e.dtb} \ {NoDtb}) \subseteq fs.files
           /\ e.source = 0 /\ (\E f \in fs.bls : f.name = e.id /\ BlsAsks(f)) => e.dtb # NoDtb
           /\ e.source # 0 /\ ExtlinuxAsks(fs.extlinux[e.source], e.id) => e.dtb # NoDtb
=============================================================================
