--------------------------- MODULE BootCoordinator ---------------------------
(***************************************************************************)
(* The boot coordinator of /init (src/main.rs) with the three producers of *)
(* its event channel: boot discovery (src/bootflow.rs), the fastboot       *)
(* thread (src/gadget.rs, src/fastboot) and the UI (src/ui.rs,             *)
(* ui/main.slint), and the kernel's single kexec slot, which both the      *)
(* coordinator and the fastboot thread load.                               *)
(*                                                                         *)
(* A boot entry is a positive number; the numbers are ordered the way      *)
(* compare_boot_entries orders entries, so a sorted Vec<BootEntry> is a    *)
(* set of numbers and "the i-th row" is a rank in that set.                *)
(***************************************************************************)
EXTENDS Naturals, Sequences, FiniteSets

CONSTANTS
    Partition,      \* candidate boot partitions of the machine
    EntriesOf,      \* the entries a successful scan of a partition finds
    Bootable,       \* the entries for which is_directly_bootable() holds
    FastbootImage,  \* boot images the fastboot host may stage
    MaxTaps,        \* bound: selections the user makes
    MaxLoads        \* bound: images the fastboot thread loads

Entry == UNION {EntriesOf[p] : p \in Partition}
None  == 0

ASSUME EntriesAssumption ==
    /\ EntriesOf \in [Partition -> SUBSET (Nat \ {0})]
    /\ IsFiniteSet(Entry)
    /\ Bootable \subseteq Entry
ASSUME ImagesAssumption ==
    /\ FastbootImage \subseteq Nat \ {0}
    /\ FastbootImage \cap Entry = {}
ASSUME BoundsAssumption == MaxTaps \in Nat /\ MaxLoads \in Nat

VARIABLES
    \* boot discovery
    disco,          \* "settling", "scanning" or "done"
    scanning,       \* partitions whose scanner has not reported
    found,          \* entries collected so far
    \* the UI thread
    ui_alive,       \* the UI thread was spawned and has not returned
    shown,          \* the rows of the boot menu
    booting,        \* booting-index >= 0: a row was selected, taps are ignored
    ui_commands,    \* SetBootEntries commands on their way to the UI
    ui_actions,     \* BootEntry actions on their way to the forwarder
    taps,           \* selections made so far
    \* the fastboot thread
    fb,             \* "starting", "serving", "replying", "closing", "joined"
    fb_result,      \* what the thread will return
    boot_image,     \* the image of the last `boot` command
    adb_blocked,    \* the ADB thread waits for a child's input or output
    \* the kernel
    loaded,         \* the image in the kexec slot
    fb_loads,       \* kexec_load calls of the fastboot thread that succeeded
    entry_after,    \* fb_loads when the coordinator had loaded its entry
    machine,        \* "running", "kexeced", "powered" or "exited" (PID 1 gone)
    executed,       \* the image the kernel jumped to
    \* the coordinator
    events,         \* the coordinator's event channel
    boot_entries,
    discovery_complete,
    fastboot_requested_default,
    pc,             \* "recv", "load", "exec" (entry) or "action" (fastboot)
    choice          \* what the coordinator decided to boot, and why

discoVars == <<disco, scanning, found>>
uiVars    == <<ui_alive, shown, booting, ui_commands, ui_actions, taps>>
fbVars    == <<fb, fb_result, boot_image, adb_blocked>>
kernVars  == <<loaded, fb_loads, entry_after, machine, executed>>
coordVars == <<boot_entries, discovery_complete, fastboot_requested_default,
               pc, choice>>
vars == <<discoVars, uiVars, fbVars, kernVars, events, coordVars>>

FbResult == {"none", "err", "continue", "exec", "reboot"}
UiEvent   == [type : {"UiAction"}, index : Nat, tapped : Entry,
              seen : SUBSET Entry]
FbEvent   == [type : {"Fastboot"}, result : FbResult \ {"none"}]
DiscEvent == [type : {"DiscoveryUpdate", "DiscoveryComplete"},
              entries : SUBSET Entry]
Event     == UiEvent \union FbEvent \union DiscEvent

Choice == [why : {"none", "ui", "default"}, entry : Entry \union {None},
           tapped : Entry \union {None}, seen : SUBSET Entry]
NoChoice == [why |-> "none", entry |-> None, tapped |-> None, seen |-> {}]

\* boot_menu_entries: the directly bootable entries, in order.
Menu(entries) == entries \cap Bootable

\* Fault: an off-by-one in the index lookup.
Row_off_by_one(list, i) ==
    {e \in list : Cardinality({f \in list : f < e}) = i + 1}

\* The element at position i of a sorted list: at most one, none past the end.
Row(list, i) == {e \in list : Cardinality({f \in list : f < e}) = i}

\* boot_default_entry's find(): the first directly bootable entry, if any.
DefaultEntry(entries) == {e \in Menu(entries) : \A f \in Menu(entries) : e <= f}

Init ==
    /\ disco = "settling" /\ scanning = {} /\ found = {}
    /\ ui_alive \in BOOLEAN     \* ui::spawn may fail: the boot goes on without
    /\ shown = {} /\ booting = FALSE
    /\ ui_commands = <<>> /\ ui_actions = <<>> /\ taps = 0
    /\ fb = "starting" /\ fb_result = "none" /\ boot_image = None
    /\ adb_blocked = FALSE
    /\ loaded = None /\ fb_loads = 0 /\ entry_after = 0
    /\ machine = "running" /\ executed = None
    /\ events = <<>>
    /\ boot_entries = {}
    /\ discovery_complete = FALSE /\ fastboot_requested_default = FALSE
    /\ pc = "recv" /\ choice = NoChoice

Running == machine = "running"
Send(e) == events' = Append(events, e)

-----------------------------------------------------------------------------
(* Boot discovery: settle, list candidates, collect scanners' reports.     *)

\* discover_boot_partitions succeeds. Which partitions it sees depends on
\* what had appeared when the settle wait ended, so it is any subset.
ListPartitions ==
    /\ Running /\ disco = "settling"
    /\ disco' = "scanning"
    /\ scanning' \in SUBSET Partition
    /\ UNCHANGED <<found, uiVars, fbVars, kernVars, events, coordVars>>

\* Fault: the error path returns without the completion event.
ListPartitionsFails_silent ==
    /\ Running /\ disco = "settling"
    /\ disco' = "done"
    /\ UNCHANGED <<scanning, found, uiVars, fbVars, kernVars, events, coordVars>>

\* discover_boot_partitions fails: an empty completion is sent all the same.
ListPartitionsFails ==
    /\ Running /\ disco = "settling"
    /\ disco' = "done"
    /\ Send([type |-> "DiscoveryComplete", entries |-> {}])
    /\ UNCHANGED <<scanning, found, uiVars, fbVars, kernVars, coordVars>>

\* One scanner's report reaches the collector, in any order. A partition
\* that cannot be mounted, or has no entries, reports an empty list and is
\* skipped; otherwise the accumulated sorted list is sent as progress.
ScanReport(p) ==
    /\ Running /\ disco = "scanning" /\ p \in scanning
    /\ scanning' = scanning \ {p}
    /\ \E entries \in {{}, EntriesOf[p]} :
         /\ found' = found \union entries
         /\ IF entries = {}
              THEN UNCHANGED events
              ELSE Send([type |-> "DiscoveryUpdate", entries |-> found'])
    /\ UNCHANGED <<disco, uiVars, fbVars, kernVars, coordVars>>

ScanComplete ==
    /\ Running /\ disco = "scanning" /\ scanning = {}
    /\ disco' = "done"
    /\ Send([type |-> "DiscoveryComplete", entries |-> found])
    /\ UNCHANGED <<scanning, found, uiVars, fbVars, kernVars, coordVars>>

-----------------------------------------------------------------------------
(* The UI thread and its action forwarder.                                 *)

\* Fault: one command is applied per poll and the rest of the batch is lost.
UiPoll_first_only ==
    /\ Running /\ ui_alive /\ ui_commands # <<>>
    /\ shown' = Head(ui_commands)
    /\ booting' = FALSE
    /\ ui_commands' = <<>>
    /\ UNCHANGED <<discoVars, ui_alive, ui_actions, taps, fbVars, kernVars,
                   events, coordVars>>

\* UiCommands::poll drains the command channel; each SetBootEntries replaces
\* the rows and resets booting-index, so the last one is what remains.
UiPoll ==
    /\ Running /\ ui_alive /\ ui_commands # <<>>
    /\ shown' = ui_commands[Len(ui_commands)]
    /\ booting' = FALSE
    /\ ui_commands' = <<>>
    /\ UNCHANGED <<discoVars, ui_alive, ui_actions, taps, fbVars, kernVars,
                   events, coordVars>>

\* The user taps a row or confirms the highlighted one. Only the index of the
\* row is sent; `tapped` and `seen` record what the user saw there.
UiTap ==
    /\ Running /\ ui_alive /\ ~booting /\ taps < MaxTaps
    /\ \E e \in shown :
         ui_actions' = Append(ui_actions,
             [type |-> "UiAction", tapped |-> e, seen |-> shown,
              index |-> Cardinality({f \in shown : f < e})])
    /\ booting' = TRUE
    /\ taps' = taps + 1
    /\ UNCHANGED <<discoVars, ui_alive, shown, ui_commands, fbVars, kernVars,
                   events, coordVars>>

\* A display error ends the UI thread; its pending commands are never read.
UiExits ==
    /\ Running /\ ui_alive
    /\ ui_alive' = FALSE
    /\ UNCHANGED <<discoVars, shown, booting, ui_commands, ui_actions, taps,
                   fbVars, kernVars, events, coordVars>>

\* The power menu calls power_off() or reboot() from the UI thread.
UiPower ==
    /\ Running /\ ui_alive
    /\ machine' = "powered"
    /\ UNCHANGED <<discoVars, uiVars, fbVars, loaded, fb_loads, entry_after,
                   executed, events, coordVars>>

\* Fault: the forwarder drops an action.
ForwardUiAction_drops ==
    /\ Running /\ ui_actions # <<>>
    /\ ui_actions' = Tail(ui_actions)
    /\ UNCHANGED <<discoVars, ui_alive, shown, booting, ui_commands, taps,
                   fbVars, kernVars, events, coordVars>>

ForwardUiAction ==
    /\ Running /\ ui_actions # <<>>
    /\ Send(Head(ui_actions))
    /\ ui_actions' = Tail(ui_actions)
    /\ UNCHANGED <<discoVars, ui_alive, shown, booting, ui_commands, taps,
                   fbVars, kernVars, coordVars>>

-----------------------------------------------------------------------------
(* The fastboot thread: gadget set-up, commands that matter to the boot,   *)
(* tear-down.                                                              *)

\* The gadget is registered and bound.
FbStart ==
    /\ Running /\ fb = "starting"
    /\ fb' = "serving"
    /\ UNCHANGED <<discoVars, uiVars, fb_result, boot_image, adb_blocked,
                   kernVars, events, coordVars>>

\* Gadget set-up fails (no UDC in 10 s, configfs), or the server meets an
\* error that is not a disconnect.
FbFatal ==
    /\ Running /\ fb \in {"starting", "serving", "replying"}
    /\ fb' = "closing" /\ fb_result' = "err"
    /\ UNCHANGED <<discoVars, uiVars, boot_image, adb_blocked, kernVars, events,
                   coordVars>>

LoadImage(image) ==
    /\ fb_loads < MaxLoads
    /\ loaded' = image
    /\ fb_loads' = fb_loads + 1
    /\ UNCHANGED <<entry_after, machine, executed>>

\* `oem kexec-load`: load and stay.
FbKexecLoad(image) ==
    /\ Running /\ fb = "serving"
    /\ LoadImage(image)
    /\ UNCHANGED <<discoVars, uiVars, fbVars, events, coordVars>>

\* Fault: `boot` replies without loading.
FbBoot_without_load(image) ==
    /\ Running /\ fb = "serving"
    /\ fb' = "replying" /\ boot_image' = image
    /\ UNCHANGED <<discoVars, uiVars, fb_result, adb_blocked, kernVars, events,
                   coordVars>>

\* `boot`: load, then reply OKAY.
FbBoot(image) ==
    /\ Running /\ fb = "serving"
    /\ LoadImage(image)
    /\ fb' = "replying" /\ boot_image' = image
    /\ UNCHANGED <<discoVars, uiVars, fb_result, adb_blocked, events,
                   coordVars>>

\* The OKAY went out: the server exits with exec_loaded_image as its action.
FbBootAcked ==
    /\ Running /\ fb = "replying"
    /\ fb' = "closing" /\ fb_result' = "exec"
    /\ UNCHANGED <<discoVars, uiVars, boot_image, adb_blocked, kernVars, events,
                   coordVars>>

\* The reply failed (the host is gone, or a FAIL followed a late OKAY): the
\* server keeps serving and the image stays loaded.
FbBootReplyLost ==
    /\ Running /\ fb = "replying"
    /\ fb' = "serving"
    /\ UNCHANGED <<discoVars, uiVars, fb_result, boot_image, adb_blocked,
                   kernVars, events, coordVars>>

\* `continue` and `reboot` end the server.
FbLeave(result) ==
    /\ Running /\ fb = "serving"
    /\ fb' = "closing" /\ fb_result' = result
    /\ UNCHANGED <<discoVars, uiVars, boot_image, adb_blocked, kernVars, events,
                   coordVars>>

\* The ADB thread writes input to a child that does not read it or a file that
\* does not take it, opens a file that does not open, or drops a session whose
\* output thread is in a read that does not end: it sleeps there, and the stop
\* flag is not looked at.
AdbBlocks ==
    /\ Running /\ fb \in {"serving", "replying", "closing"} /\ ~adb_blocked
    /\ adb_blocked' = TRUE
    /\ UNCHANGED <<discoVars, uiVars, fb, fb_result, boot_image, kernVars,
                   events, coordVars>>

\* The child or the file goes on, or it and whoever holds its output are gone.
AdbUnblocks ==
    /\ Running /\ adb_blocked
    /\ adb_blocked' = FALSE
    /\ UNCHANGED <<discoVars, uiVars, fb, fb_result, boot_image, kernVars,
                   events, coordVars>>

\* resolve_fastboot_result: an acknowledged action survives a failed unbind,
\* a plain `continue` does not.
ResolveFastbootResult(server_result, unbound) ==
    IF server_result = "continue" /\ ~unbound THEN "err" ELSE server_result

\* The gadget is torn down, the ADB thread is joined, the thread returns and
\* the joiner posts the event.
FbJoined ==
    /\ Running /\ fb = "closing" /\ ~adb_blocked
    /\ fb' = "joined"
    /\ \E unbound \in BOOLEAN :
         Send([type |-> "Fastboot",
               result |-> ResolveFastbootResult(fb_result, unbound)])
    /\ UNCHANGED <<discoVars, uiVars, fb_result, boot_image, adb_blocked,
                   kernVars, coordVars>>

-----------------------------------------------------------------------------
(* The coordinator.                                                        *)

Receiving(types) ==
    /\ Running /\ pc = "recv" /\ events # <<>> /\ Head(events).type \in types
    /\ events' = Tail(events)

Decide(why, entry, tapped, seen) ==
    /\ pc' = "load"
    /\ choice' = [why |-> why, entry |-> entry, tapped |-> tapped,
                  seen |-> seen]

\* run() returns, with or without an error: PID 1 exits.
Exit == machine' = "exited" /\ UNCHANGED <<loaded, fb_loads, entry_after, executed>>

\* boot_default_entry: the first directly bootable entry; with none, PID 1
\* returns.
BootDefault(entries) ==
    IF DefaultEntry(entries) = {}
      THEN Exit /\ UNCHANGED <<pc, choice>>
      ELSE /\ \E e \in DefaultEntry(entries) : Decide("default", e, None, {})
           /\ UNCHANGED kernVars

\* The menu index is looked up in the coordinator's own, newest list. An
\* index past the end is logged and dropped.
RecvUiAction ==
    /\ Receiving({"UiAction"})
    /\ LET row == Row(Menu(boot_entries), Head(events).index) IN
         IF row = {} THEN UNCHANGED <<pc, choice>>
         ELSE \E e \in row :
                Decide("ui", e, Head(events).tapped, Head(events).seen)
    /\ UNCHANGED <<discoVars, uiVars, fbVars, kernVars, boot_entries,
                   discovery_complete, fastboot_requested_default>>

RecvFastbootErr ==
    /\ Receiving({"Fastboot"}) /\ Head(events).result = "err"
    /\ Exit
    /\ UNCHANGED <<discoVars, uiVars, fbVars, coordVars>>

RecvFastbootAction ==
    /\ Receiving({"Fastboot"}) /\ Head(events).result \in {"exec", "reboot"}
    /\ pc' = "action"
    /\ UNCHANGED <<discoVars, uiVars, fbVars, kernVars, boot_entries,
                   discovery_complete, fastboot_requested_default, choice>>

\* Fault: `continue` boots from whatever list there is.
RecvFastbootContinue_early ==
    /\ Receiving({"Fastboot"}) /\ Head(events).result = "continue"
    /\ BootDefault(boot_entries)
    /\ UNCHANGED <<discoVars, uiVars, fbVars, boot_entries,
                   discovery_complete, fastboot_requested_default>>

\* `continue`: boot the default now, or remember to when discovery ends.
RecvFastbootContinue ==
    /\ Receiving({"Fastboot"}) /\ Head(events).result = "continue"
    /\ IF discovery_complete
         THEN BootDefault(boot_entries) /\ UNCHANGED fastboot_requested_default
         ELSE /\ fastboot_requested_default' = TRUE
              /\ UNCHANGED <<kernVars, pc, choice>>
    /\ UNCHANGED <<discoVars, uiVars, fbVars, boot_entries,
                   discovery_complete>>

\* apply_boot_entries_update: replace the list, push the menu to the UI.
ApplyBootEntriesUpdate(entries) ==
    /\ boot_entries' = entries
    /\ ui_commands' = IF ui_alive THEN Append(ui_commands, Menu(entries))
                                  ELSE ui_commands
    /\ UNCHANGED <<ui_alive, shown, booting, ui_actions, taps>>

RecvDiscoveryUpdate ==
    /\ Receiving({"DiscoveryUpdate"})
    /\ ApplyBootEntriesUpdate(Head(events).entries)
    /\ UNCHANGED <<discoVars, fbVars, kernVars, discovery_complete,
                   fastboot_requested_default, pc, choice>>

\* Fault: the pending `continue` is forgotten.
RecvDiscoveryComplete_forgets ==
    /\ Receiving({"DiscoveryComplete"})
    /\ discovery_complete' = TRUE
    /\ ApplyBootEntriesUpdate(Head(events).entries)
    /\ UNCHANGED <<discoVars, fbVars, kernVars, fastboot_requested_default, pc,
                   choice>>

RecvDiscoveryComplete ==
    /\ Receiving({"DiscoveryComplete"})
    /\ discovery_complete' = TRUE
    /\ ApplyBootEntriesUpdate(Head(events).entries)
    /\ IF fastboot_requested_default
         THEN BootDefault(Head(events).entries)
         ELSE UNCHANGED <<kernVars, pc, choice>>
    /\ UNCHANGED <<discoVars, fbVars, fastboot_requested_default>>

\* Fault: a failed load is logged and the slot executed anyway.
LoadEntry_ignores_error ==
    /\ Running /\ pc = "load"
    /\ pc' = "exec"
    /\ loaded' \in {choice.entry, loaded}
    /\ entry_after' = fb_loads
    /\ UNCHANGED <<fb_loads, machine, executed, discoVars, uiVars, fbVars,
                   events, boot_entries, discovery_complete,
                   fastboot_requested_default, choice>>

\* BootEntry::load fills the kexec slot, or fails and ends PID 1. The slot is
\* executed in a step of its own, and the fastboot thread keeps running.
LoadEntry ==
    /\ Running /\ pc = "load"
    /\ \/ /\ loaded' = choice.entry /\ entry_after' = fb_loads
          /\ pc' = "exec"
          /\ UNCHANGED <<fb_loads, machine, executed>>
       \/ Exit /\ UNCHANGED pc
    /\ UNCHANGED <<discoVars, uiVars, fbVars, events, boot_entries,
                   discovery_complete, fastboot_requested_default, choice>>

\* exec_loaded_image: the kernel jumps to whatever the slot holds.
ExecLoadedImage ==
    machine' = "kexeced" /\ executed' = loaded
        /\ UNCHANGED <<loaded, fb_loads, entry_after>>

ExecEntry ==
    /\ Running /\ pc = "exec"
    /\ ExecLoadedImage \/ Exit
    /\ UNCHANGED <<discoVars, uiVars, fbVars, events, coordVars>>

\* The fastboot post-response action: kexec or reboot(2). Its error ends PID 1.
RunFastbootAction ==
    /\ Running /\ pc = "action"
    /\ \/ fb_result = "exec" /\ ExecLoadedImage
       \/ /\ fb_result = "reboot" /\ machine' = "powered"
          /\ UNCHANGED <<loaded, fb_loads, entry_after, executed>>
       \/ Exit
    /\ UNCHANGED <<discoVars, uiVars, fbVars, events, coordVars>>

\* The machine has left pocketboot, or PID 1 is gone: nothing happens here.
Gone == ~Running /\ UNCHANGED vars

Discovery == ListPartitions \/ ListPartitionsFails \/ ScanComplete
             \/ \E p \in Partition : ScanReport(p)
Coordinate == \/ RecvUiAction \/ RecvFastbootErr \/ RecvFastbootAction
              \/ RecvFastbootContinue \/ RecvDiscoveryUpdate
              \/ RecvDiscoveryComplete \/ LoadEntry \/ ExecEntry
              \/ RunFastbootAction
Ui == UiPoll \/ UiTap \/ UiExits \/ UiPower
Fastboot == \/ FbStart \/ FbFatal \/ FbBootAcked \/ FbBootReplyLost
            \/ FbLeave("continue") \/ FbLeave("reboot")
            \/ AdbBlocks \/ AdbUnblocks
            \/ \E image \in FastbootImage : FbKexecLoad(image) \/ FbBoot(image)

Next == Discovery \/ Coordinate \/ Ui \/ ForwardUiAction \/ Fastboot
        \/ FbJoined \/ Gone

Spec == Init /\ [][Next]_vars

\* Threads and tasks run; the user, the host and failures owe us nothing.
Fairness == /\ WF_vars(Discovery) /\ WF_vars(Coordinate)
            /\ WF_vars(ForwardUiAction) /\ WF_vars(UiPoll)
            /\ WF_vars(FbJoined)
FairSpec == Spec /\ Fairness

-----------------------------------------------------------------------------
(* Properties.                                                             *)

\* Every variable has the type the code gives it.
TypeOK ==
    /\ disco \in {"settling", "scanning", "done"}
    /\ scanning \subseteq Partition
    /\ found \subseteq Entry
    /\ ui_alive \in BOOLEAN /\ shown \subseteq Entry /\ booting \in BOOLEAN
    /\ ui_commands \in Seq(SUBSET Entry)
    /\ ui_actions \in Seq(UiEvent)
    /\ taps \in Nat
    /\ fb \in {"starting", "serving", "replying", "closing", "joined"}
    /\ fb_result \in FbResult
    /\ boot_image \in FastbootImage \union {None}
    /\ adb_blocked \in BOOLEAN
    /\ loaded \in FastbootImage \union Entry \union {None}
    /\ fb_loads \in Nat /\ entry_after \in Nat
    /\ machine \in {"running", "kexeced", "powered", "exited"}
    /\ executed \in FastbootImage \union Entry \union {None}
    /\ events \in Seq(Event)
    /\ boot_entries \subseteq Entry
    /\ discovery_complete \in BOOLEAN
    /\ fastboot_requested_default \in BOOLEAN
    /\ pc \in {"recv", "load", "exec", "action"}
    /\ choice \in Choice

\* A default boot, however `continue` raced with the scanners, picks the best
\* directly bootable entry of the whole scan, never of a partial list
\* (run_boot_coordinator's discovery_complete test and the final sort).
DefaultIsBestOfScan ==
    choice.why = "default" =>
        /\ disco = "done"
        /\ choice.entry \in DefaultEntry(found)

\* Whatever a menu index is resolved against, the coordinator only ever
\* loads an entry that is directly bootable (bootable_entry_indices).
OnlyBootableIsChosen == choice.why # "none" => choice.entry \in Bootable

\* The kernel the coordinator jumps to for a chosen entry is that entry's, or
\* one fastboot loaded after it: a failed or forgotten load of the entry never
\* falls through to what an earlier `oem kexec-load` or an unacknowledged
\* `boot` left in the slot (boot_discovered_entry, BootEntry::load).
NothingStaleIsExecuted ==
    machine = "kexeced" /\ pc = "exec" =>
        \/ executed = choice.entry
        \/ executed \in FastbootImage /\ fb_loads > entry_after

\* What runs for a chosen entry is that entry. boot_discovered_entry loads the
\* slot and executes it in two steps, and the fastboot thread may load another
\* image in between, so this does not hold.
ChosenEntryIsExecuted ==
    machine = "kexeced" /\ pc = "exec" => executed = choice.entry

\* When the acknowledged fastboot `boot` action runs, the slot still holds
\* the image that was acknowledged: nobody loaded another one in between.
AckedImageIsExecuted ==
    pc = "action" /\ fb_result = "exec" => loaded = boot_image

\* While the coordinator waits on an empty channel, discovery or fastboot can
\* still send: recv never fails with "event channel closed", and getting on
\* never depends on there being a UI.
EventChannelStaysOpen ==
    Running /\ pc = "recv" /\ events = <<>> =>
        disco # "done" \/ fb # "joined"

\* What the user selected is what boots. The index is resolved against a list
\* that may be newer than the one on the screen, so this does not hold.
SelectedEntryIsBooted ==
    choice.why = "ui" => choice.entry = choice.tapped

\* A stale index can only move the selection towards a better entry, and
\* only while discovery still had entries to add: a selection made on the
\* complete menu boots what was selected.
StaleSelectionMovesUp ==
    choice.why = "ui" =>
        /\ choice.entry <= choice.tapped
        /\ choice.seen = Menu(found) => choice.entry = choice.tapped

\* `fastboot continue` always ends the wait: the machine boots, is powered
\* off, or PID 1 exits, however slow discovery is. The one thing that can
\* hold it up is an ADB session that blocks, because the fastboot thread
\* joins the ADB thread before it returns.
ContinueEndsTheWait ==
    (fb = "closing" /\ fb_result = "continue") ~> (~Running \/ adb_blocked)

\* Once discovery is over, a living UI ends up showing the whole menu.
MenuConverges ==
    disco = "done" ~> (~Running \/ ~ui_alive \/ pc # "recv"
                        \/ shown = Menu(found))

\* A selected row does not stay on "Booting selected entry" for ever.
BootingResolves == booting ~> (~booting \/ ~Running \/ ~ui_alive)

=============================================================================
