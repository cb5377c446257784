---------------------------- MODULE FastbootServer ----------------------------
(***************************************************************************)
(* The fastboot server (src/fastboot): the command loop with its staging   *)
(* area, downloads and uploads, the commands that write partitions, and    *)
(* the UMS table of the USB gadget (src/gadget.rs).                        *)
(*                                                                         *)
(* A command is received, handled and answered by one thread. What a       *)
(* payload is made of does not matter: it is named by the number of the    *)
(* command that made it. Partitions have a page cache over a medium.       *)
(***************************************************************************)
EXTENDS Integers, FiniteSets, Sequences

CONSTANTS
    Part,           \* partitions that may be flashed
    Backing,        \* files and devices that may be exported over UMS
    None,           \* no value
    MaxLuns,        \* MAX_UMS_LUNS
    PartSize,       \* chunks that fit in a partition
    MaxChunks,      \* bound: chunks of a download
    MaxCommands,    \* bound: commands of the host
    MaxFaults       \* bound: lost links, timeouts and I/O errors

ASSUME FastbootAssumption ==
    /\ {MaxLuns, PartSize, MaxChunks, MaxCommands, MaxFaults} \subseteq Nat
    /\ MaxLuns > 0 /\ PartSize > 0
    /\ None \notin Part \cup Backing \cup Int /\ Part \cap Int = {}

VARIABLES
    link,           \* "up" or "down"
    \* FastbootServer
    pc,             \* "start", "read", the transfer in progress, "reply", ...
    op,             \* the command in progress
    arg,            \* its partition or size, or None
    left,           \* chunks the transfer still has to move
    staged,         \* self.staged: [by, size] or None
    reply,          \* the final reply being sent: [status, from]
    exits,          \* the handler asked the server to exit
    \* block devices
    media, cache,   \* [Part -> content]
    \* the gadget
    slots,          \* UmsState::slots; << >> before set_function, after clear
    lun,            \* backing file of each LUN in the kernel
    held,           \* LUNs whose medium the host has locked
    \* history and bounds
    n,              \* commands received
    heard,          \* final replies the host has to its last command
    extra,          \* data packets that came late and were read as commands
    owed,           \* chunks the host still means to send
    excuse,         \* the link was lost, or a handler failed with EIO
    producer,       \* the last command that was to fill the staging area
    promised,       \* payload the host was told is in a partition
    faults

loopVars  == <<pc, op, arg, left, reply, exits>>
diskVars  == <<media, cache, promised>>
umsVars   == <<slots, lun, held>>
countVars == <<n, heard, extra, excuse, faults>>
vars == <<link, loopVars, staged, producer, owed, diskVars, umsVars, countVars>>

Old     == 0                         \* what a partition held at power-on
Torn    == -1
Erased  == -2
Content == {Torn, Erased} \cup 0..MaxCommands
Lun     == 1..MaxLuns                \* lun.0 is LUN 1 of the model

Init ==
    /\ link = "up"
    /\ pc = "start" /\ op = "none" /\ arg = None /\ left = 0
    /\ staged = None /\ reply = None /\ exits = FALSE
    /\ media = [p \in Part |-> Old] /\ cache = media
    /\ slots = << >> /\ lun = [l \in Lun |-> None] /\ held = {}
    /\ n = 0 /\ heard = 0 /\ extra = 0 /\ owed = 0 /\ excuse = FALSE
    /\ producer = 0 /\ promised = [p \in Part |-> None] /\ faults = 0

Fault == faults < MaxFaults /\ faults' = faults + 1

(***************************************************************************)
(* Gadget::setup_fastboot_gadget                                           *)
(***************************************************************************)
RegisterAndBind ==
    /\ pc = "start"
    /\ \/ pc' = "read" /\ slots' = [l \in Lun |-> None]
       \/ pc' = "fatal" /\ UNCHANGED slots      \* no UDC within ten seconds
    /\ UNCHANGED <<link, op, arg, left, reply, exits, staged, producer, owed,
                   diskVars, lun, held, countVars>>

\* unbind_and_remove clears the table first; dropping the registration takes
\* the function and its LUNs away.
UnbindAndRemove ==
    /\ pc \in {"exited", "fatal"}
    /\ \/ slots # << >> /\ slots' = << >> /\ UNCHANGED <<lun, held, pc>>
       \/ slots = << >> /\ lun' = [l \in Lun |-> None] /\ held' = {}
          /\ pc' = "removed" /\ UNCHANGED slots
    /\ UNCHANGED <<link, op, arg, left, reply, exits, staged, producer, owed,
                   diskVars, countVars>>

(***************************************************************************)
(* FastbootServer::run_once: a command arrives                             *)
(***************************************************************************)
Receive(o, a) ==
    /\ pc = "read" /\ link = "up" /\ n < MaxCommands /\ owed = 0
    /\ op' = o /\ arg' = a
    /\ n' = n + 1 /\ heard' = 0 /\ extra' = 0 /\ excuse' = FALSE
    /\ UNCHANGED <<link, faults>>

\* The final reply is now to be sent: `from` tells whether an error of the
\* send comes back to run_once as the handler's error.
Answer(status, from) ==
    pc' = "reply" /\ reply' = [status |-> status, from |-> from]

\* Fault: an error of a handler is not answered.
HandlerErr_silent ==
    pc' = "read" /\ UNCHANGED <<reply, excuse, faults>>

\* An error a handler returns: FAIL, unless it looks like a USB disconnect,
\* which an EIO of the storage does too.
HandlerErr ==
    \/ Answer("FAIL", "loop") /\ UNCHANGED <<excuse, faults>>
    \/ Fault /\ pc' = "read" /\ excuse' = TRUE /\ UNCHANGED reply

\* The error of a handler in the step that received the command.
ReceiveErr(o, a) ==
    /\ Receive(o, a)
    /\ Answer("FAIL", "loop") /\ exits' = FALSE
    /\ UNCHANGED left

ReplySent ==
    /\ pc = "reply" /\ link = "up"
    /\ heard' = heard + 1
    /\ pc' = IF exits /\ reply.status = "OKAY" THEN "exited" ELSE "read"
    /\ promised' = IF op = "flash" /\ reply.status = "OKAY"
                   THEN [promised EXCEPT ![arg] = staged.by]
                   ELSE IF op = "erase" /\ reply.status = "OKAY"
                   THEN [promised EXCEPT ![arg] = Erased] ELSE promised
    /\ reply' = None /\ exits' = FALSE
    /\ UNCHANGED <<link, op, arg, left, staged, producer, owed, media, cache,
                   umsVars, n, extra, excuse, faults>>

\* `continue` exits whether or not its best-effort OKAY was sent.
ReplyFails ==
    /\ pc = "reply"
    /\ IF op = "continue"
       THEN pc' = "exited" /\ excuse' = TRUE /\ reply' = None
       ELSE IF link = "down"
       THEN pc' = "read" /\ excuse' = TRUE /\ reply' = None
       ELSE IF reply.from = "handler"
       THEN Answer("FAIL", "loop") /\ UNCHANGED excuse
       ELSE pc' = "fatal" /\ excuse' = TRUE /\ reply' = None
    /\ exits' = FALSE
    /\ IF link = "up" THEN Fault ELSE UNCHANGED faults
    /\ UNCHANGED <<link, op, arg, left, staged, producer, owed, diskVars,
                   umsVars, n, heard, extra>>

(***************************************************************************)
(* download, upload and get_staged                                         *)
(***************************************************************************)
\* A malformed or oversized download, or no memory for it.
BadDownload ==
    /\ ReceiveErr("download", None)
    /\ staged' = None /\ producer' = n'
    /\ UNCHANGED <<owed, diskVars, umsVars>>

StartDownload(size) ==
    /\ Receive("download", size)
    /\ staged' = None /\ producer' = n'
    /\ pc' = "download" /\ left' = size /\ owed' = size
    /\ UNCHANGED <<reply, exits, diskVars, umsVars>>

\* read_exact_timeout got a chunk in time.
DownloadChunk ==
    /\ pc = "download" /\ link = "up" /\ left > 0
    /\ left' = left - 1 /\ owed' = owed - 1
    /\ UNCHANGED <<link, pc, op, arg, reply, exits, staged, producer, diskVars,
                   umsVars, countVars>>

DownloadDone ==
    /\ pc = "download" /\ left = 0
    /\ staged' = [by |-> n, size |-> arg]
    /\ Answer("OKAY", "handler")
    /\ UNCHANGED <<link, op, arg, left, exits, producer, owed, diskVars,
                   umsVars, countVars>>

DownloadTimesOut ==
    /\ pc = "download" /\ link = "up" /\ left > 0
    /\ Fault
    /\ Answer("FAIL", "loop")
    /\ UNCHANGED <<link, op, arg, left, exits, staged, producer, owed,
                   diskVars, umsVars, n, heard, extra, excuse>>

\* The chunks the host sends after that are read as commands.
LateData ==
    /\ pc = "read" /\ link = "up" /\ owed > 0
    /\ owed' = owed - 1 /\ extra' = extra + 1
    /\ op' = "junk" /\ arg' = None
    /\ Answer("FAIL", "loop")
    /\ UNCHANGED <<link, left, exits, staged, producer, diskVars, umsVars, n,
                   heard, excuse, faults>>

\* Fault: a download that meets a disconnect is started over at once.
TransferCut_starts_over ==
    /\ pc \in {"download", "upload"} /\ link = "down"
    /\ IF pc = "download" THEN left' = arg /\ UNCHANGED <<pc, excuse>>
       ELSE pc' = "read" /\ excuse' = TRUE /\ UNCHANGED left
    /\ UNCHANGED <<link, op, arg, reply, exits, staged, producer, owed,
                   diskVars, umsVars, n, heard, extra, faults>>

\* A transfer meets a disconnect.
TransferCut ==
    /\ pc \in {"download", "upload"} /\ link = "down"
    /\ pc' = "read" /\ excuse' = TRUE
    /\ UNCHANGED <<link, op, arg, left, reply, exits, staged, producer, owed,
                   diskVars, umsVars, n, heard, extra, faults>>

UploadNothing ==
    /\ ReceiveErr("upload", None)
    /\ staged = None
    /\ UNCHANGED <<staged, producer, owed, diskVars, umsVars>>

UploadStaged ==
    /\ Receive("upload", None)
    /\ staged # None
    /\ pc' = "upload" /\ left' = staged.size
    /\ UNCHANGED <<reply, exits, staged, producer, owed, diskVars, umsVars>>

UploadChunk ==
    /\ pc = "upload" /\ link = "up"
    /\ IF left > 0 THEN left' = left - 1 /\ UNCHANGED <<pc, reply>>
       ELSE Answer("OKAY", "loop") /\ UNCHANGED left
    /\ UNCHANGED <<link, op, arg, exits, staged, producer, owed, diskVars,
                   umsVars, countVars>>

\* upload_staged's errors are not answered: run_once passes them on.
UploadTimesOut ==
    /\ pc = "upload" /\ link = "up"
    /\ Fault
    /\ pc' = "fatal" /\ excuse' = TRUE
    /\ UNCHANGED <<link, op, arg, left, reply, exits, staged, producer, owed,
                   diskVars, umsVars, n, heard, extra>>

(***************************************************************************)
(* Commands that fill the staging area: cat, dmesg, shell, shell-staged    *)
(***************************************************************************)
\* Fault: the earlier payload stays until the new one replaces it.
StartCapture_keeps_staged(o) ==
    /\ Receive(o, None)
    /\ producer' = n'
    /\ pc' = "capture"
    /\ UNCHANGED <<left, reply, exits, staged, owed, diskVars, umsVars>>

\* clear_staged comes before any work that may fail.
StartCapture(o) ==
    /\ Receive(o, None)
    /\ staged' = None /\ producer' = n'
    /\ pc' = "capture"
    /\ UNCHANGED <<left, reply, exits, owed, diskVars, umsVars>>

\* Staged as memory or as a file, then the INFO lines and the final reply.
Stage(status) ==
    /\ pc = "capture"
    /\ staged' = [by |-> n, size |-> 1]
    /\ Answer(status, "handler")
    /\ UNCHANGED <<link, op, arg, left, exits, producer, owed, diskVars,
                   umsVars, countVars>>

\* A capture that fails leaves the staging area empty.
CaptureErr ==
    /\ pc = "capture"
    /\ HandlerErr
    /\ UNCHANGED <<link, op, arg, left, exits, staged, producer, owed,
                   diskVars, umsVars, n, heard, extra>>

\* No path, no file, or more than a download could carry: CaptureErr.
CatDone == op = "cat" /\ Stage("OKAY")

\* More records or bytes than the capture may have: CaptureErr.
DmesgDone == op = "dmesg" /\ Stage("OKAY")

\* The output is staged also when the command fails or is killed after
\* SHELL_TIMEOUT; no command or no process is CaptureErr.
ShellDone == op = "shell" /\ \E status \in {"OKAY", "FAIL"} : Stage(status)

\* The script is read from the staging area, which is then cleared even if
\* there was none or it was too large.
ShellStaged ==
    \/ staged # None /\ StartCapture("shell")
    \/ /\ ReceiveErr("shell", None)
       /\ staged' = None /\ producer' = n'
       /\ UNCHANGED <<owed, diskVars, umsVars>>

(***************************************************************************)
(* flash and erase                                                         *)
(***************************************************************************)
\* partitions::find: no such partition of the local flash disks, or two.
PartitionUnknown ==
    /\ \E o \in {"flash", "erase"} : ReceiveErr(o, None)
    /\ UNCHANGED <<staged, producer, owed, diskVars, umsVars>>

\* Not in ALLOWED_PARTITION_BASES, read-only, or mounted; no payload, an
\* empty one or one too large.
FlashRefused(p) ==
    /\ \E o \in {"flash", "erase"} : ReceiveErr(o, p)
    /\ UNCHANGED <<staged, producer, owed, diskVars, umsVars>>

FlashStart(p) ==
    /\ Receive("flash", p)
    /\ staged # None
    /\ staged.size \in 1..PartSize
    /\ pc' = "flash" /\ left' = staged.size
    /\ promised' = [promised EXCEPT ![p] = None]
    /\ UNCHANGED <<reply, exits, staged, producer, owed, media, cache,
                   umsVars>>

FlashChunk ==
    /\ pc = "flash" /\ left > 0
    /\ left' = left - 1
    /\ cache' = [cache EXCEPT ![arg] = IF left = 1 THEN staged.by ELSE Torn]
    /\ UNCHANGED <<link, pc, op, arg, reply, exits, staged, producer, owed,
                   media, promised, umsVars, countVars>>

EraseStart(p) ==
    /\ Receive("erase", p)
    /\ pc' = "erase" /\ left' = 1
    /\ promised' = [promised EXCEPT ![p] = None]
    /\ UNCHANGED <<reply, exits, staged, producer, owed, media, cache,
                   umsVars>>

\* BLKDISCARD, or zeroes where the device has no discard.
EraseBlocks ==
    /\ pc = "erase" /\ left > 0
    /\ left' = 0
    /\ cache' = [cache EXCEPT ![arg] = Erased]
    /\ \/ media' = [media EXCEPT ![arg] = Erased]
       \/ UNCHANGED media
    /\ UNCHANGED <<link, pc, op, arg, reply, exits, staged, producer, owed,
                   promised, umsVars, countVars>>

\* Fault: OKAY without sync_all.
WriteDone_unsynced ==
    /\ pc \in {"flash", "erase"} /\ left = 0
    /\ Answer("OKAY", "handler")
    /\ UNCHANGED <<link, op, arg, left, exits, staged, producer, owed, media,
                   cache, promised, umsVars, countVars>>

\* sync_all, then OKAY.
WriteDone ==
    /\ pc \in {"flash", "erase"} /\ left = 0
    /\ media' = [media EXCEPT ![arg] = cache[arg]]
    /\ Answer("OKAY", "handler")
    /\ UNCHANGED <<link, op, arg, left, exits, staged, producer, owed, cache,
                   promised, umsVars, countVars>>

WriteErr ==
    /\ pc \in {"flash", "erase"}
    /\ cache' = [cache EXCEPT ![arg] = Torn]
    /\ HandlerErr
    /\ UNCHANGED <<link, op, arg, left, exits, staged, producer, owed, media,
                   promised, umsVars, n, heard, extra>>

(***************************************************************************)
(* UMS                                                                     *)
(***************************************************************************)
\* resolve_backing_path: neither a file nor a block device of that name.
BackingUnknown ==
    /\ \E o \in {"ums-start", "ums-stop"} : ReceiveErr(o, None)
    /\ UNCHANGED <<staged, producer, owed, diskVars, umsVars>>

\* attach_mass_storage_slot: the first free slot, once the kernel has taken
\* the file for its LUN.
Attach(b) ==
    \E l \in Lun :
        /\ slots[l] = None /\ \A k \in 1..(l - 1) : slots[k] # None
        /\ slots' = [slots EXCEPT ![l] = b]
        /\ lun' = [lun EXCEPT ![l] = b]

\* Already started, started, or no free slot or an error of the kernel.
UmsStart(b) ==
    /\ Receive("ums-start", None)
    /\ LET started == \E l \in Lun : slots[l] = b
       IN  \/ started /\ Answer("OKAY", "handler") /\ UNCHANGED <<slots, lun>>
           \/ ~started /\ Attach(b) /\ Answer("OKAY", "handler")
           \/ ~started /\ Answer("FAIL", "handler") /\ UNCHANGED <<slots, lun>>
    /\ UNCHANGED <<left, exits, staged, producer, owed, diskVars, held>>

\* Fault: the slot is freed before the kernel is asked, and stays free when it
\* refuses.
Detach_frees_first(l) ==
    /\ slots' = [slots EXCEPT ![l] = None]
    /\ lun' = IF l \in held THEN lun ELSE [lun EXCEPT ![l] = None]

\* detach_mass_storage_slot. The kernel refuses a LUN the host has locked.
Detach(l) ==
    /\ l \notin held
    /\ lun' = [lun EXCEPT ![l] = None]
    /\ slots' = [slots EXCEPT ![l] = None]

UmsStop(b) ==
    /\ Receive("ums-stop", None)
    /\ \/ \E l \in Lun : slots[l] = b /\ Detach(l) /\ Answer("OKAY", "handler")
       \/ /\ \A l \in Lun : slots[l] = b => l \in held
          /\ Answer("FAIL", "handler") /\ UNCHANGED <<slots, lun>>
    /\ UNCHANGED <<left, exits, staged, producer, owed, diskVars, held>>

\* The host locks, unlocks and ejects the medium of a LUN.
HostMedium(l) ==
    /\ link = "up" /\ lun[l] # None
    /\ \/ held' = held \cup {l} /\ UNCHANGED lun
       \/ held' = held \ {l} /\ UNCHANGED lun
       \/ l \notin held /\ lun' = [lun EXCEPT ![l] = None] /\ UNCHANGED held
    /\ UNCHANGED <<link, loopVars, staged, producer, owed, diskVars, slots,
                   countVars>>

(***************************************************************************)
(* The other commands                                                      *)
(***************************************************************************)
\* Not UTF-8, no handler found by find_command_handler, or nothing to act on.
Unsupported(o) ==
    /\ ReceiveErr(o, None)
    /\ UNCHANGED <<staged, producer, owed, diskVars, umsVars>>

\* Commands that answer or fail and touch nothing of this module.
Query(o) ==
    /\ Receive(o, None)
    /\ \/ Answer("OKAY", "handler")
       \/ Answer("FAIL", "loop")
    /\ UNCHANGED <<left, exits, staged, producer, owed, diskVars, umsVars>>

Getvar == Query("getvar")

SetActive == Query("set_active")

\* prepare_staged_boot_image parses the staged image and loads it.
KexecLoad ==
    \/ staged # None /\ Query("kexec-load")
    \/ Unsupported("kexec-load")

\* boot, reboot and reboot-bootloader: okay_then_exit.
LeaveCommand(o) ==
    /\ Receive(o, None)
    /\ \/ /\ o = "boot" => staged # None
          /\ Answer("OKAY", "handler") /\ exits' = TRUE
       \/ Answer("FAIL", "loop") /\ UNCHANGED exits
    /\ UNCHANGED <<left, staged, producer, owed, diskVars, umsVars>>

Continue ==
    /\ Receive("continue", None)
    /\ Answer("OKAY", "loop") /\ exits' = TRUE
    /\ UNCHANGED <<left, staged, producer, owed, diskVars, umsVars>>

(***************************************************************************)
(* The environment                                                         *)
(***************************************************************************)
LinkDown ==
    /\ link = "up" /\ Fault
    /\ link' = "down" /\ owed' = 0 /\ held' = {}
    /\ UNCHANGED <<loopVars, staged, producer, diskVars, slots, lun, n, heard,
                   extra, excuse>>

\* A transfer that was under way ends with ESHUTDOWN first.
LinkUp ==
    /\ link = "down" /\ link' = "up"
    /\ pc \notin {"download", "upload"}
    /\ UNCHANGED <<loopVars, staged, producer, owed, diskVars, umsVars,
                   countVars>>

\* The page cache is written back at any time, and what was not is lost or
\* torn when the power goes; the device then starts again.
Writeback(p) ==
    /\ media[p] # cache[p]
    /\ media' = [media EXCEPT ![p] = cache[p]]
    /\ UNCHANGED <<link, loopVars, staged, producer, owed, cache, promised,
                   umsVars, countVars>>

PowerLoss ==
    /\ Fault
    /\ \E m \in [Part -> Content] :
          /\ \A p \in Part : m[p] \in (IF media[p] = cache[p] THEN {media[p]}
                                       ELSE {media[p], cache[p], Torn})
          /\ media' = m /\ cache' = m
    /\ pc' = "start" /\ op' = "none" /\ arg' = None /\ left' = 0
    /\ reply' = None /\ exits' = FALSE /\ staged' = None /\ owed' = 0
    /\ slots' = << >> /\ lun' = [l \in Lun |-> None] /\ held' = {}
    /\ excuse' = TRUE
    /\ UNCHANGED <<link, producer, promised, n, heard, extra>>

\* Nothing more happens once the gadget is gone or the host is done.
Done ==
    /\ pc = "removed" \/ (pc = "read" /\ n = MaxCommands)
    /\ UNCHANGED vars

ServerStep ==
    \/ RegisterAndBind \/ UnbindAndRemove \/ ReplySent \/ ReplyFails
    \/ DownloadTimesOut \/ TransferCut \/ UploadChunk
    \/ CatDone \/ DmesgDone \/ ShellDone
    \/ DownloadChunk \/ DownloadDone
    \/ FlashChunk \/ EraseBlocks \/ WriteDone

HostStep ==
    \/ BadDownload \/ (\E s \in 0..MaxChunks : StartDownload(s)) \/ LateData
    \/ UploadNothing \/ UploadStaged
    \/ (\E o \in {"cat", "dmesg", "shell"} : StartCapture(o)) \/ ShellStaged
    \/ PartitionUnknown \/ BackingUnknown
    \/ \E p \in Part : FlashRefused(p) \/ FlashStart(p) \/ EraseStart(p)
    \/ \E b \in Backing : UmsStart(b) \/ UmsStop(b)
    \/ \E l \in Lun : HostMedium(l)
    \/ Getvar \/ SetActive \/ KexecLoad \/ Continue \/ Unsupported("unknown")
    \/ \E o \in {"boot", "reboot"} : LeaveCommand(o)

FaultStep ==
    \/ UploadTimesOut \/ CaptureErr \/ WriteErr \/ LinkDown \/ LinkUp
    \/ PowerLoss \/ \E p \in Part : Writeback(p)

Next == ServerStep \/ HostStep \/ FaultStep \/ Done

Spec == Init /\ [][Next]_vars

\* Every call the server makes returns: transfers and replies have timeouts.
\* The host, faults and the loop's wait for a command are not fair.
FairSpec == Spec /\ WF_vars(ServerStep)

(***************************************************************************)
(* Properties                                                              *)
(***************************************************************************)
TypeOK ==
    /\ link \in {"up", "down"}
    /\ pc \in {"start", "read", "download", "upload", "capture", "flash",
               "erase", "reply", "exited", "fatal", "removed"}
    /\ arg \in Part \cup {None} \cup 0..MaxChunks
    /\ left \in 0..(MaxChunks + 1)
    /\ staged = None \/ staged \in [by : 1..MaxCommands, size : 0..(MaxChunks + 1)]
    /\ reply = None \/ reply \in [status : {"OKAY", "FAIL"},
                                  from : {"handler", "loop"}]
    /\ exits \in BOOLEAN /\ excuse \in BOOLEAN
    /\ media \in [Part -> Content] /\ cache \in [Part -> Content]
    /\ promised \in [Part -> Content \cup {None}]
    /\ slots = << >> \/ slots \in [Lun -> Backing \cup {None}]
    /\ lun \in [Lun -> Backing \cup {None}] /\ held \subseteq Lun
    /\ {n, heard, extra, owed, producer, faults} \subseteq Nat

\* The staging area holds what the last command that was to fill it produced,
\* whole, or nothing: a download that was cut off or timed out and a capture
\* that failed leave nothing an upload, a flash or a boot could take for it
\* (CommandContext::clear_staged, clear_staged_for_download).
StagedIsLatest ==
    staged # None => staged.by = producer

\* When the loop reads again, the host has had exactly one OKAY or FAIL for
\* its command, or there was a reason: the USB link was lost, the power, or
\* the storage failed with the EIO that is_usb_disconnect takes for a lost
\* link. Data that comes after a download has timed out is read as commands,
\* each of which is answered once (run_once).
OneReply ==
    pc = "read" /\ n > 0 =>
        /\ heard >= 1 \/ excuse
        /\ heard <= 1 + extra

\* A partition whose flash or erase was answered OKAY has that content on the
\* medium until a command writes it again, whenever the power is lost
\* (flash_raw, erase_partition).
OkayIsOnMedium ==
    \A p \in Part : promised[p] # None => media[p] = promised[p]

\* While the server runs, every file the kernel has open on a LUN is in the
\* table under that LUN, so that it can be stopped, and no file is exported
\* twice. The converse does not hold: the host may eject a medium, and the
\* table keeps it.
UmsInStep ==
    pc \notin {"exited", "fatal", "removed"} =>
        \A l \in Lun : lun[l] # None =>
            /\ slots # << >> /\ slots[l] = lun[l]
            /\ \A k \in Lun \ {l} : lun[k] # lun[l]

\* No command holds the server: it reads again or ends, whatever the host
\* does in the middle of a transfer (TRANSFER_TIMEOUT, RESPONSE_TIMEOUT).
CommandEnds ==
    pc \notin {"read", "removed"} ~> pc \in {"read", "removed"}
=============================================================================
