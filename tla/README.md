# Verification of pocketboot

pocketboot is an initramfs boot manager for phones. Its `/init` (PID 1) looks
for installed systems on the local flash, shows a menu, serves fastboot and ADB
over USB, and hands over to the chosen kernel with kexec. On MSM8916 a small
pre-boot program (`pocketpreboot`) and a kernel patch keep the secondary CPUs
parked between kernels.

This directory holds TLA+ models of the parts of that system whose correctness
depends on order: threads and their channels, two processors and a page of
memory, writes and power loss; and of the loops over partition tables, device
trees, memory maps, streams and rectangles in which a boundary case is easily
missed. TLC checks them on small instances, TLAPS proves most of their safety
properties for all instances.

## The system and what is hard about it

| component | state | operations | how it interacts | what could go wrong |
|---|---|---|---|---|
| boot coordinator (`src/main.rs`) | entry list, bootable indices, `discovery_complete`, `fastboot_requested_default` | one `recv` loop over UI, fastboot and discovery events | an async channel with three kinds of senders; commands to the UI | a default taken from a partial scan, a stale row index, a channel nobody writes to |
| boot discovery (`src/bootflow.rs`, `src/settle.rs`) | a task per disk and per partition, collected entries, mounts, loop mappings | settle, read partition tables, map nested partitions, scan each in parallel, report, complete; load an entry | reports to the coordinator; loads the kexec slot | failing scans, lists that change under the menu, two steps to get a loop device |
| UI (`src/ui.rs`, `ui/main.slint`) | rows on the screen, selection, three framebuffers, buttons, touch | poll commands, select, power menu, render, flip | commands from and actions to the coordinator | a selection made on an older list, missed damage, one press of the power key with two effects |
| fastboot (`src/fastboot/`) | staged download, command map, pending action | download, upload, boot, kexec-load, flash, erase, set_active, ums, shell, continue | a thread whose result the coordinator gets; shares the kexec slot | partial downloads, a lost reply after the work is done |
| USB gadget (`src/gadget.rs`) | registration, UDC, eight UMS slots | bind, unbind, attach, detach | starts and joins fastboot and ADB | teardown failing or waiting after a reply was promised |
| ADB (`src/adb.rs`) | session map; per stream a child, an output thread and an `OutputFlow` | connect, open, write, okay, close, stop | packets from and to the host; joined by the gadget | duplicate credit or CLSE, threads that outlive a connection, one child blocking everything |
| A/B slots (`src/ab_slots.rs`) | two GPT copies per disk | load, update pairs, four writes and a sync per disk | through the page cache | power loss or a failing write between the writes |
| reaper (`src/reaper.rs`), getty, shell children | child processes | `waitpid(-1)`, waits of the spawning threads | share the process table | a status reaped by the wrong waiter |
| kexec payload (`src/kexec.rs`, `src/pe.rs`, `src/zboot.rs`) | segments, FDT | prepare, place, load, exec | the kernel's one slot | overlapping segments, a contract of the running machine that the next tree lacks, the wrong kernel taken out of a container |
| CPU parking (`pocketpreboot/`, kernel patch 0001) | a reserved page: code, release slots, request and ack tokens | start, park, release, take down, verify, relocate | memory shared by the primary, the secondaries and successive kernels | code overwritten while it runs, a core released into a kernel that is gone |
| kmsg forwarding, boot state, battery, power, QEMU support | small or none | I/O | - | the backlog at its limit |
| xtask | build caches | fetch, build, pack | processes that share a cache | interrupted or concurrent initialisation |

`PROJECT.json` lists every component with its status, and under `hazards` the
places in the code that are hard to test, each with the properties that cover it
or the reason why none does.

## Modules

A component is a module of its own; an `MC` module with up to three `.cfg` files
gives it values for TLC, or composes several components in one run; eight
`_proofs` modules hold the theorems. A definition ending in a name such as
`_keeps` or `_off_by_one`, with a comment that starts with "Fault:", is not part
of a specification: it is a plausible bug of the definition below it, kept to
show that a property would notice it.

### BootCoordinator

The event loop of `run_boot_coordinator` with everything that sends to it. A
boot entry is a number in the order of `compare_boot_entries`, so a sorted list
is a set and a row is a rank in it. Discovery is `ListPartitions`, one
`ScanReport` per partition in any order (with the entries or, when it fails,
without), and `ScanComplete`. The UI is `UiPoll`, `UiTap`, `UiPower` and its end;
`ForwardUiAction` is the forwarder task between it and the channel. Fastboot
starts, loads images (`FbKexecLoad`, `FbBoot`), answers or loses the reply, leaves,
tears the gadget down and is joined; `AdbBlocks` stands for an ADB session that
keeps the teardown waiting. The `Recv...` actions are the arms of the `match`;
after a decision the coordinator goes through `LoadEntry` and `ExecEntry`, or
`RunFastbootAction`. `loaded` is the kernel's one kexec slot, which the fastboot
thread and the coordinator both write, and `ExecEntry` executes whatever is in it;
`entry_after` remembers how many images fastboot had loaded when the coordinator
loaded its entry, so that an image put there afterwards can be told from a left-over.

An image is a number; loading may fail at any time; rendering, logging and what is
in an entry are left out.

### AdbStreams

The server thread of `AdbServer::run` as a program counter (`srv`): it reads a
packet and then does what the handler does, one step per thing another thread can
see: `ReadOpen` spawns the child and its output thread, `Opened` sends the OKAY,
inserts the session and allows one write; closing a stream is `Shut` (the flow),
`Hangup` (the process group), `SendClose` and `Join`, in the order each kind of
session has them; `Clear` drops all sessions before a new connection is answered,
after a disconnect and at the end. Output threads take credit, read, send, reap and
close. Children exit when they like, may leave a process behind that holds the
output open (`held`), and need not read their input. A sync stream has files in
place of a child: `SyncInput` may need one for a SEND (`Store`, on the server
thread), and the output thread opens and reads one for a RECV (`ReadFile`); neither
has to return, for a host may name a FIFO or a device. The host follows the
protocol: it opens, writes with an OKAY in hand, acknowledges, closes, disappears
and reconnects. Contents of packets are left out; the sync service is reduced to "a
write may complete a request, which queues a response of one or more packets or
needs a file".

A stream id is used once, so the branch for a mismatch of ids, which a host that
follows the protocol cannot reach, is not there.

### SpinTable

The parking page of MSM8916 as the primary's pre-boot code, the resident loop
(`spin_table.S`) and the patched kernel use it, over resets and kexecs. `prim` is
what the primary is doing, `cpu[c]` where a secondary is executing. The slot of a
secondary holds a release address (nothing, the running kernel's, or one of a
kernel that is gone), a request token and an acknowledgment with the exception
level and coherency state it reports. `Reset` leaves DRAM and the page as they
were. A secondary may come up late, never, at the wrong level or without SMPEN.
Snapshots of the page format from before the diagnostic fields are not modelled.

### AbSlots

`set_active` over every local disk: `LoadFails` or `LoadAndUpdate`, the four
`CommitWrite`s in the code's order, each of which may fail (an entry array then
may be half written), and the sync. `cache` is the page cache, `media` the disk;
`Writeback` moves dirty regions in any order and `PowerLoss` forgets the cache. A
header is represented by the table its CRC was computed over, so "valid" means
what the code's CRC test means.

### FastbootServer

The command loop of `FastbootServer::run_once` with its staging area, and the
commands by what they do to it: `Download`, `DownloadChunk` and the ways a
transfer is cut off; captures (`cat`, `dmesg`, `shell`) that stage their output
for an upload; `flash`, `erase` and their page cache over a medium; the UMS
commands with the gadget's table of LUNs, which the host may eject; and the
commands that leave the server. A payload is the number of the command that made
it, so that "stale" is a comparison of numbers. A reply may be lost with the link.
`SparseFlash` is the loop of `flash_sparse` on its own, block by block.

### Discovery, BootFiles, BootMenu, StorageSettle

`StorageSettle` is the wait for the local flash: polls that drain uevents and
take snapshots while disks come and go. `Discovery` is what follows: a task per
disk reads GPT or MBR (`ReadTables`), opens the `userdata` partitions that hold a
table of their own (`OpenOuter`) and maps them to loop devices in the two steps of
`create_loop_mapping` (`GetFree`, `Configure`, which may find the device taken);
the candidates are sorted and made unique, one task each mounts and scans, and the
caller receives in any order. `BootFiles` is the scan of one partition as
operators: GRUB's variables, BLS files and extlinux labels, with the search for a
device tree that fits the machine. `BootMenu` is the abstract specification: lists
that grow by whole partitions, in order, each entry once, the last one complete.
`ImplementsBootMenu` says that `Discovery` implements it, with `finds` the entries
of each partition and `sure` the partitions that do not depend on a loop device.
`BootCoordinator` assumes of discovery what `BootMenu` promises.

References to variables inside a word, and single reads that fail, are abstracted.
Lines with keys the parsers pass over are in the model like any other line.

### KexecPlan, FdtGraft, FdtWalk, KernelPayload

`KernelPayload` goes from the file of a boot entry to an arm64 Image: gzip, zboot,
and the scans through the sections of a PE file. `FdtGraft` has what is done to the
tree of the next kernel as operators on records of nodes: the memory of the running
machine, the CPU handoff contract and `/chosen`; `FdtWalk` is the passes over the
tokens of a structure block that do it, with their stacks and string offsets.
`KexecPlan` reads `/proc/iomem` line by line, takes the reservations out, and
places kernel, initrd, tree and trampoline with the search of `find_region`, one
candidate per step; executing it makes its tree the live tree of the next boot.

### KmsgForward

The kernel's ring, the reader that is overtaken by it, the backlog that drops its
oldest records, and the serial port that a host opens and closes half way through a
flush. A line is written to the port's queue (`Write`), and the forwarder is done with
it, and takes the record off the backlog or forgets the drops, once the queue is short
enough (`QueueShort`: `TIOCOUTQ` is at most `TTY_QUEUE_HIGH_WATER`, and the USB
controller may hold a request that it does not count). The host takes lines one at a
time (`HostTakes`), and what it has not taken goes with the port (`PortGone`). `known`
is what the host got or was told of as dropped, `cut` what the forwarder was done with
when the port took it along. That `TIOCOUTQ` fails as unsupported, on which
`wait_for_tty_queue` does not wait at all, is left out: the port is the kernel's
`u_serial`, which supports it. `Restart` is `run` starting over after any other error.

### KmsDisplay

`KmsDisplay` with the loop of `run`: damage rectangles are clipped, merged and
accumulated for three framebuffers, the one whose turn it is catches up by a copy,
is presented, and the flip completes at a later vertical blank. Pixels have no
values: `stale[b]` is the set of pixels in which a framebuffer differs from the
cached one, `whole` the framebuffers that hold one frame. `DrmPageFlipLab` and the
validation of `UiAnimationLab` are part of the loop. Nothing but the laboratory is
assumed to ask for a redraw while it validates.

### PowerKey

`ButtonInput`, `ButtonState`, the dispatch in `run` and the power menu of
`ui/main.slint`. Keys move between turns of the loop and are read in batches, the
device may fail with the key held and be opened again, and a finger opens and
closes the menu and holds its buttons. The finger is seen through the touch device:
`was_down` is what `TouchState` has reported, `pressed` the `TouchArea` that Slint
holds pressed until the pointer is reported up. `DropTouch` drops the device with its
state and without a report, `RescanTouch` opens it again, and a finger that is still
down may then be reported anew (`FingerSeen`). Time is counted in turns.

## What the runs check

| run | instance | what it shows |
|---|---|---|
| `coordinator` | 2 partitions, 3 entries, 2 images, 2 taps, 2 loads | the default comes from the whole scan; what runs for a chosen entry is that entry or an image fastboot loaded after it, nothing left over in the kexec slot; an acknowledged image is what runs; the channel never closes under the loop; a stale row can only move to a better entry, and only while discovery was still adding; `continue` ends the wait unless ADB blocks; the menu becomes complete; "Booting" does not stay for ever |
| `stale_selection` | the same with 1 tap | expected violation: what the user selected is not always what boots |
| `shared_slot` | the same with 1 tap, 1 image and 1 load | expected violation: what runs for a chosen entry is not always that entry |
| `adb_streams` | a shell or exec stream and a sync stream, 1 packet each way and stream, 2 connections, sends may time out | one credit, one CLSE, nothing before the OKAY, no thread of an old connection |
| `adb_streams_live` | 1 stream of any kind, 2 packets of output | the stop flag ends the server and the end of a child reaches the host, unless a child or a file blocks the server |
| `ab_slots` | 2 disks, 3 pairs, 2 calls | OKAY is durable; no valid copy has a half-switched pair; an I/O error never takes both copies |
| `fastboot_server` | 3 commands, 2 faults, downloads of up to 3 chunks for a partition of 2, 3 files for 2 LUNs | the staging area is never stale; one answer per command; an OKAYed write is on the medium; table and LUNs agree; every command ends |
| `discovery` | 3 machines of 2 or 3 disks with hybrid, removable and nested tables, 4 loop devices | discovery implements `BootMenu`; what it lists is there and has the device tree it asks for with a key the parsers read |
| `handoff` | the plan: 5 memory maps, 4 live and 9 supplied trees, 2 kernels, 2 boots; or the parking: 2 secondaries, tokens 0..3, any number of resets and kexecs | segments lie in free RAM and apart; `find_region` fails only when there is no place; the contract reaches the second kernel; live code is never overwritten, relocation waits for every core, no core runs a dead kernel, released cores are coherent; a hand-over always ends in a kernel or a stopped boot |
| `streams` | partition of 4 blocks, images of 3 chunks; trees of 8 tokens; a ring and a backlog of 3, lines of 1 and 2 bytes, a high water mark of 1 with 1 in the controller, 2 losses of the port; 3 changes of storage; 2 sections of 3 marks | five loops, one at a time: sparse writes are exact; each pass over a tree does what `FdtGraft` says; no record is lost silently but what the port's short queue took with it; settled means quiet; the kernel that is loaded is one the file holds, and is found if the code looks there |
| `display` | 3 x 2 pixels, 13 damage reports, 2 rectangles pending, the labs with 4 flips and 18 frames; 3 unread key events, holds of 3 and 2 turns | only whole frames are shown; the labs count exactly; a press of the power key does one thing, and the power menu's timer runs only while something is held or was when its device went away |
| `held_action` | the same | expected violation: an action is confirmed after the finger was lifted, when the touch device was dropped in between |

**Bounds.** Two partitions with the better entry on the second are the least in
which a list grows at its front and a row index differs from a list index; two
taps let a selection race with an update and with another selection. Two streams
are the least in which closing one meets output of the other, and two connections
let a thread outlive its own. With one chunk per stream a thread still meets every
state of its loop, and the run with one stream has two. Two secondaries are the
least in which one is parked while the other is being taken down; the last token
value is reached by a second kexec, so the refusal to wrap is exercised. Two disks
with the boot pair on the second are the least in which the call fails after
another disk was switched; two calls let the second start from what the first
left. Three commands are the least in which one that fills the staging area is
followed by one that fails to and one that uses it; three files for two LUNs fill
the table. Loop devices are enough for every mapping, so that only the race for
them can fail. A memory map of 16 pages with blocks of 2 and limits of 4 and 8 pages
has every order of claim, reservation and segment around a hole, and two boots hand
a contract on that was handed on before. Two pending rectangles are exceeded by
reports of three; a high water mark of 1 with lines of 1 and 2 is below, at and above
its limit; 13 reports touch, overlap, lie apart and stick out. The clocks of
`streams` and `display` are a few turns long, which is enough for every order of the
events they bound. The theorems carry all safety properties of the runs but those
listed as only model-checked below to all sizes.

**Fairness.** Weak fairness is assumed of threads and tasks that the kernel or
the executor schedules: discovery, the coordinator, the forwarder, the UI's poll
and the joiner; the server and output threads of ADB; a powered CPU in its
polling loop and the timer that bounds the primary's; the fastboot thread and its
timeouts (`TRANSFER_TIMEOUT`, `RESPONSE_TIMEOUT`). A `send` ends because it has a
time limit. The host is assumed only to acknowledge a packet it was sent. No
fairness is assumed of the user, of failures, of children reading, writing or
exiting, or of a file of the sync service returning (`Store`, `ReadFile`).

**Blocking.** `AdbServer::handle_write` writes to the child, or opens and writes the
file of a sync SEND (`src/adb.rs:975`, `:1015`), on the server thread, and `Drop`
joins an output thread that may be reading from a process that outlived the child,
or be in the open or read of the file of a sync RECV (`:1260`, `:1277`). While that
lasts no packet is read and the stop flag is not seen, and the fastboot thread,
which joins ADB before it returns, holds up a `continue` or a `boot` it has
acknowledged. The liveness properties name this state (`Blocked`, `adb_blocked`) as
their only exception.

**Power loss in set_active.** `commit` syncs once, after all four writes. Nothing
orders them on the way to the medium, so a power loss can leave both copies of a
table invalid; `OneCopySurvives` therefore speaks of disks that did not lose power
with dirty tables (`lost`). `NoHalfSwitchedPair` has no such exception.

**Behaviour worth knowing.** Modelling met these; the properties are stated so that
they name them, and no line of the repository promises otherwise.

* `ums-start` after the host ejected the medium answers that it is exported already,
  although the LUN is empty (`UmsInStep` claims one direction only).
* An EIO of the storage counts as a lost USB link, so that the command gets no FAIL
  (`OneReply`).
* The mounted test of flash and erase excludes nobody from mounting afterwards.
* Of two disks that race for a loop device one loses its nested partitions
  (`sure` in `BootMenu`).
* A value with a variable reference inside a word passes for resolved
  (`is_directly_bootable` looks at words that start with `$`).
* Settling ignores removable disks, which discovery then scans.
* `find_raw_arm64_image` looks at the first magic of a section only, and a zstd zboot
  inside a section of a unified image is not looked for (`KernelIsExtracted`).
* `graft_memory` copies memory nodes without comparing the cells of the two roots.
* After an error of `/dev/kmsg` the forwarder starts again at the oldest record, with
  an empty backlog (`NoSilentLoss` counts from there).
* The forwarder is done with a record, or with the note of how many were dropped, while
  up to 4096 bytes are in the queue of the port. When the port goes away they are lost,
  and no count tells of them (`cut` in `KmsgForward`).
* Keys that ask for a device tree and that the parsers do not know are passed over:
  `fdtdir` and `fdtoverlays` below an extlinux label (`src/bootflow.rs:1289-1315`), and
  the `devicetree-overlay` of a BLS file (`:1685`). The entry is listed with the tree it
  has otherwise (`ListedEntriesAreWhole` is about the keys that are read).
* A hold of the power menu survives the loss of the key's device, and then runs to its
  end without a key (`lost` in `PowerKey`); for the touch device see the findings. The
  menu's timer is not restarted when the held action changes without a pause, by key and
  finger together. The context of a press is shared by all button devices; the model has
  one.

**The findings.** Three runs are expected to fail; each shows the code doing
something else than what it tells the user.

`stale_selection` shows a tap on the only row being turned into
the boot of another entry: the UI sends the row's index, an update with a better
entry is handled first, and `run_boot_coordinator` (`src/main.rs:224`) resolves the
index against the new list. The menu invites this: it offers selection while
"Scanning continues in the background" (`ui/main.slint:397`) and announces "Booting
selected entry" (`ui/main.slint:384`). `StaleSelectionMovesUp` says how far it can
go.

`shared_slot` shows an image that runs in place of the entry that was chosen.
`boot_discovered_entry` (`src/main.rs:371`) loads the kernel's one kexec slot and then
executes it; between the two the fastboot thread may handle a `boot` or `oem kexec-load`,
which replaces what is in the slot, while the screen says "Booting selected entry"
(`ui/main.slint:384`). `NothingStaleIsExecuted` says that nothing but an image loaded in
that gap can run in place of the entry.

`held_action` shows shutdown or reboot being confirmed with nothing held. A touch device
that cannot be read is dropped without an Up report (`src/ui.rs:3018`), so `pointer_down`
and the `TouchArea` stay pressed, and the timer of "Hold for 2 seconds"
(`ui/main.slint:635`, `:689`) runs on after the finger was lifted. `PowerKeyIsObeyed`
says that nothing else keeps a hold alive but the loss of the key's device.

## What is proved

All for any values of the constants, from the named assumptions in the modules
(finite sets of entries, images that are not entries, bounds and sizes that are
numbers, a `None` that is not a stream, one boot disk, lines of `/proc/iomem` with
ranges that are not empty, a top of memory aligned to 2 MiB, trees whose nodes have
the shape the parser gives them, damage reports that are lists of rectangles, finite
partition tables and boot files). TLC
evaluates them in every run. Each safety property is a conjunct or a consequence of an
inductive invariant; the invariants say what the property leaves out.

* **BootCoordinator_proofs.** `IInv` is `TypeOK` with `FbInv`, `DiscInv`, `ChanInv`,
  `LoadInv`, `AckInv` and `OnlyBootableIsChosen`. What the coordinator may conclude
  depends on events that are still on their way, so the invariant relates the
  senders to the content of the channel: a completion on it carries the whole scan
  and no discovery event follows; a sender that has finished is on it or has been
  heard. From it: `TypeCorrect`, `DefaultFromWholeScan`, `ChannelOpen`,
  `NothingStale`, `AckedImage`, `OnlyBootable`. `LoadInv` is what `NothingStale` needs:
  from its own load on, the coordinator finds its entry in the slot, or an image that
  fastboot put there since. For `SelectionMovesUp`, `GrowInv`
  orders the lists that are on the screen, on their way to it and in the coordinator
  by inclusion, `MenuInv` says which list a tap was made on, and `MovedInv` what was
  decided from it; the lemma `RowMovesUp` is about ranks: in a larger set the element
  of a rank is not behind that of the smaller one.
* **Discovery_proofs.** The first half is about the operators: a finite set with a
  strict total order is listed by rank (`ListedByRank`), the stable sort of a list
  without repetitions is that listing (`SortIsListing`), sorting and `dedup_by` leave
  each candidate once (`EachOnce`), and what the parsers make of any partition can be
  loaded, has the tree its file asks for (BLS file or extlinux label, with the keys its
  parser reads), and has an id and a source of its own
  (`ScanGives`). The second half is the invariant `IInv`. The property speaks of what
  is listed at the end; what makes it true happens to the loop devices long before, so
  the invariant follows each boot partition: a disk's task has it in one place
  (`TaskInv`: found, mapped, still to be mapped, or in an outer partition not opened
  yet); as long as a nested one is needed, the file in its candidate keeps the loop
  device on it (`TaskHolds`, `ScanInv`), so that what is mounted is the partition the
  candidate names; a partition that no other disk competes with is found or still to
  come (`Pending`), because the device a task is about to configure can only have been
  taken by another disk (`Unraced`); what is received is what was sent (`GatheredInv`,
  `CandidatesInv`); and the list is the sorted list of the entries of the partitions
  received (`ListInv`). From it: `DiscoveryListsWhole` and, step by step (`MenuStep`),
  the refinement `DiscoveryImplementsMenu`. What is assumed of a machine
  (`MachinesAssumption`) is that its tables, directories and files are finite and
  numbered, that a directory has one file of a name, and that a label names one entry
  of its extlinux file. The last is a restriction: two entries of one label compare
  equal and keep the order of the file, for which a set of entries has no place.
* **AbSlots_proofs.** `CopyInv` keeps track of how much of the disk in flight has
  been written and which copy is valid meanwhile. From it: `CopySurvives`.
  `SwitchInv` adds what is in the tables: each region anywhere holds a table of sane
  pairs (`TableInv`), the one being written too (`GptInv`), and a disk that is done
  has the target in every copy, in the cache as on the medium (`DoneInv`). From it:
  `OkayDurable`, `NeverHalfSwitched`.
* **AdbStreams_proofs.** `IInv` is the types with four parts: who owns a living
  output thread (`OwnInv`), who owes the CLSE of a closed flow (`CloseInv`), what
  cannot have happened before the OKAY of an open (`OpenInv`), and that packets in
  flight concern streams the host opened (`QueueInv`). From it: `TypeCorrect`,
  `ClosedOnce`, `OkayFirst`, `NoneStale`. `CreditInv` adds that the credit is in one
  place: with the flow, with the thread, or in a packet the host has yet to
  acknowledge or has acknowledged; from it `CreditIsSingle`.
* **FastbootServer_proofs.** `IInv` is the types with one part per concern of the loop:
  what a command in progress stands for and whose the payload is (`LoopInv`), how many
  answers the host has had in each phase (`ReplyInv`), what of a write is in the page
  cache and on the medium (`DiskInv`), and the UMS table against the LUNs (`UmsInv`).
  From it: `TypeCorrect`, `NothingStaleIsStaged`, `AnsweredOnce`,
  `AcknowledgedIsOnMedium`, `TableInStep`.
* **KexecPlan_proofs.** `PlanInv` follows the plan: the trees have their shape
  (`TreeInv`), the usable ranges are apart and cover exactly what the listing and the
  reservations handled so far leave free (`UsableInv`), segments are placed in order
  (`JobInv`), in a usable range and apart (`PlaceInv`), and `find_region` looks at a
  usable range (`RangeInv`). From it: `SegmentsAreSafe`. `SearchInv` says that no place
  is passed over, neither in the ranges behind nor before the candidate; from it
  `HolesAreFound`. `HandInv` with the lemmas about the graft operators gives the action
  property `ChainKeepsContract`. The module also has the other half of the handoff,
  `SpinTable` (the instance `Parking` of `MCSpinTable`, which `MCHandoff` runs beside
  the plan, for any secondaries and any `MaxEpoch` above 0): `ParkingInv` is its
  `TypeOK` with `PhaseInv`: for each phase of the primary, where a secondary can be and
  what its slot holds. It is needed because an acknowledgment proves a core parked only
  together with the steps the primary has taken. From it: `ParkingTypeCorrect`,
  `LiveCodeSafe`, `RelocationSafe`, `StaleKernelNeverRuns`, `KernelCoherent`.
* **UserInterface_proofs.** The screen: `ScreenInv` says which role each framebuffer has
  while a flip is pending (`RolesInv`, `KernelInv`) and that the damage noted for a
  framebuffer covers every pixel in which it differs (`DamageInv`); the lemmas behind it
  show that merging, removing, clipping and giving up on rectangles never uncovers a
  pixel (`CoalesceCovers`, `RegionCovers`, `AccumulateGrows`). From it: `WholeFrames`.
  `CountInv` adds what the laboratories have counted after each frame: every flip asked
  for is counted, pending or about to be drawn (`FlipInv`), and the three buffers take
  turns with their seeds and reference frames (`ValidationInv`). From it:
  `LabsCountExactly`, with each picture shown as often as there are framebuffers, as in
  the source. The keys: a press is obeyed once because of what may still be in the event
  queue: `EffectInv` says that between two actions in it there is a press (`Paced`) and
  that one that has been obeyed has none left (`Spent`); `HoldInv` that a hold is
  followed by its release (`Ended`, `ToRelease`) or is the action Slint holds pressed,
  under a finger that is reported down or whose device is lost (`Touched`). From `IInv`:
  `TypeCorrect`, `PressObeyed`.
* **Streams_proofs.** `SettleInv`: what happened before the last drain is counted, and
  the rest is announced by a uevent; from it `SettledQuiet`. `PayloadInv`: nothing
  behind the scan of the sections was an Image; from it `KernelExtracted`. `SparseInv`:
  up to the file position the partition holds what the image says, and nothing behind
  it; from it `SparseIsExact`, with lemmas on where the chunks of an image start
  (`Starts`) and on what one more chunk changes (`Expanded`). `KmsgInv`: the forwarder
  holds only what it has read, in order, and the lines it is done with fitted on a short
  queue (`HoldInv`); the line whose queue it waits for is the record at the front of the
  backlog or the note of the drops, and is on the port or with the host (`SentInv`). So
  a line the port takes along is either one the forwarder was done with, which the short
  queue bounds, or still in the backlog or among the drops. From it `LossIsTold`, with
  lemmas on the bytes of a queue (`Bytes`), on what a queue brings to the host
  (`BringsFacts`) and on the records that leave when one is pushed (`PushKeeps`). The
  sums are recursive functions; what they compute is shown by the least position at
  which it would be wrong (`LeastNat`, from the well-foundedness of the numbers), which
  needs no induction rule.

Only model-checked:

* the liveness properties: fairness is beyond the prover;
* `PassesExact`: four passes whose outputs feed each other, against what a block of
  tokens says, which is recursive over the block;
* `SelectedEntryIsBooted`, `ChosenEntryIsExecuted` and `HeldActionIsHeld`, which do not
  hold.

## What is not modelled

* Byte layouts: headers of GPT, PE, zboot, FDT and sparse images are decoded to what
  the code decides by; cpio and boot images of xtask are not modelled.
* `src/reaper.rs`: one lock around a spawn and its wait; what remains beside it is the
  reuse of a pid, which depends on the kernel.
* The decoding of touch events, choice of connector, mode and pixel format, frame rate
  statistics, battery and boot state: tables and start-up I/O.
* The framing of ADB's sync service (SEND, DATA and DONE over packets), beyond its
  requests, its responses and the files that may block it; ids of
  ADB streams that wrap; a payload timing out after its header, of which only the
  resulting fatal error is modelled.
* `pocketpreboot`'s own start-up and FDT editor, the page format from before the
  diagnostic fields, drivers and the one-line kernel fixes.
* The QEMU harness, the lab tools, and xtask: command lines, and a cache on the build
  machine.

## Plan

Next is `PassesExact`, one pass of `FdtWalk` at a time: an invariant per pass that
relates its stack and the tokens written so far to the paths of the tokens read. Then
the SEND/DATA/DONE protocol of ADB's sync service over split packets.
