------------------------ MODULE FastbootServer_proofs ------------------------
(***************************************************************************)
(* The fastboot server keeps its promises for any number of partitions,    *)
(* LUNs, chunks, commands and faults: the staging area is never stale, a   *)
(* command is answered once, an acknowledged write is on the medium, and   *)
(* the UMS table agrees with the kernel's LUNs.                            *)
(***************************************************************************)
EXTENDS FastbootServer, TLAPS

\* A handler is at work.
Busy == {"download", "upload", "capture", "flash", "erase"}

\* What a command in progress stands for: the host's command, the size of a
\* download that the host still means to send, the producer of the payload.
LoopInv ==
    /\ n <= MaxCommands
    /\ pc \in Busy => n > 0
    /\ pc = "download" => arg \in 0..MaxChunks /\ (link = "up" => owed = left)
    /\ pc \in {"download", "capture"} => producer = n
    /\ StagedIsLatest

\* How many answers the host has had, in each phase of the loop. A reply that
\* is still to be sent is the one that is missing.
ReplyInv ==
    /\ heard <= 1 + extra
    /\ pc \in Busy => heard = 0
    /\ pc = "reply" => heard <= extra
    /\ pc \in {"start", "read"} /\ n > 0 => heard >= 1 \/ excuse

\* What flash or erase has done to its partition when the reply is due.
Written == IF op = "flash" THEN staged.by ELSE Erased

\* A promise holds in the page cache too, and a partition that is being
\* written has none; once the blocks are written, the cache has them, and once
\* OKAY is to be sent, so has the medium.
DiskInv ==
    /\ \A p \in Part : promised[p] # None =>
         media[p] = promised[p] /\ cache[p] = promised[p]
    /\ pc \in {"flash", "erase"} =>
         /\ op = pc /\ arg \in Part /\ promised[arg] = None
         /\ left = 0 => cache[arg] = Written
    /\ pc = "flash" => staged # None
    /\ pc \in {"download", "upload", "capture"} => op \notin {"flash", "erase"}
    /\ pc = "reply" /\ op \in {"flash", "erase"} /\ reply.status = "OKAY" =>
         /\ arg \in Part /\ (op = "flash" => staged # None)
         /\ media[arg] = Written /\ cache[arg] = Written

Exporting == {"read", "reply"} \cup Busy

\* The table is made when the gadget is bound and names no file twice.
UmsInv ==
    /\ pc = "start" => slots = << >> /\ \A l \in Lun : lun[l] = None
    /\ pc \in Exporting =>
         /\ slots \in [Lun -> Backing \cup {None}]
         /\ \A l \in Lun : lun[l] # None => slots[l] = lun[l]
         /\ \A k, l \in Lun : k # l /\ slots[l] # None => slots[k] # slots[l]


\* The type invariant, in five parts. The Booleans are apart: the solvers take
\* them for terms, and nothing else depends on their type.
LoopType ==
    /\ link \in {"up", "down"}
    /\ pc \in {"start", "read", "reply", "exited", "fatal", "removed"} \cup Busy
    /\ arg \in Part \cup {None} \cup 0..MaxChunks
    /\ left \in 0..(MaxChunks + 1)
    /\ reply = None \/ reply \in [status : {"OKAY", "FAIL"},
                                  from : {"handler", "loop"}]
    /\ staged = None \/ staged \in [by : 1..MaxCommands,
                                    size : 0..(MaxChunks + 1)]
CountType ==
    /\ n \in Nat /\ heard \in Nat /\ extra \in Nat /\ owed \in Nat
    /\ producer \in Nat /\ faults \in Nat
DiskType ==
    /\ media \in [Part -> Content] /\ cache \in [Part -> Content]
    /\ promised \in [Part -> Content \cup {None}]
UmsType ==
    /\ slots = << >> \/ slots \in [Lun -> Backing \cup {None}]
    /\ lun \in [Lun -> Backing \cup {None}] /\ held \subseteq Lun
FlagType == exits \in BOOLEAN /\ excuse \in BOOLEAN

IInv ==
    /\ LoopType /\ CountType /\ DiskType /\ UmsType
    /\ LoopInv /\ ReplyInv /\ DiskInv /\ UmsInv

-----------------------------------------------------------------------------

\* The server starts with nothing staged, promised or exported.
LEMMA InitInv == Init => IInv
<1> SUFFICES ASSUME Init PROVE IInv
  OBVIOUS
<1> USE FastbootAssumption DEF Init
<1>1. LoopType /\ CountType /\ DiskType /\ UmsType
  BY DEF LoopType, CountType, DiskType, UmsType, Content, Old
<1>2. LoopInv /\ ReplyInv
  BY DEF LoopInv, ReplyInv, StagedIsLatest, Busy
<1>3. DiskInv /\ UmsInv
  BY DEF DiskInv, UmsInv, Exporting, Busy
<1> QED
  BY <1>1, <1>2, <1>3 DEF IInv

\* A command that is refused changes nothing but the reply.
LEMMA Refused ==
  ASSUME IInv, NEW o, NEW a \in Part \cup {None}, ReceiveErr(o, a),
         UNCHANGED <<staged, producer, owed, diskVars, umsVars>>
  PROVE  IInv'
  BY FastbootAssumption
     DEF IInv, ReceiveErr, Receive, Answer, diskVars, umsVars, LoopType,
         CountType, DiskType, UmsType, LoopInv, ReplyInv, DiskInv, UmsInv,
         StagedIsLatest, Busy, Exporting

\* So does one that is only answered.
LEMMA Queried ==
  ASSUME IInv, NEW o, o \notin {"flash", "erase"}, Query(o)
  PROVE  IInv'
  BY FastbootAssumption
     DEF IInv, Query, Receive, Answer, diskVars, umsVars, LoopType,
         CountType, DiskType, UmsType, LoopInv, ReplyInv, DiskInv, UmsInv,
         StagedIsLatest, Busy, Exporting

\* ums-start and ums-stop keep everything but the table.
LEMMA UmsCommand ==
  ASSUME IInv, NEW o \in {"ums-start", "ums-stop"}, Receive(o, None),
         \E status \in {"OKAY", "FAIL"} : Answer(status, "handler"),
         UNCHANGED <<left, staged, producer, owed, diskVars>>
  PROVE  /\ LoopType' /\ CountType' /\ DiskType'
         /\ LoopInv' /\ ReplyInv' /\ DiskInv'
         /\ pc = "read" /\ pc' = "reply"
  BY FastbootAssumption
     DEF IInv, Receive, Answer, diskVars, LoopType,
         CountType, DiskType, LoopInv, ReplyInv, DiskInv,
         StagedIsLatest, Busy

\* The server's own steps keep IInv.
LEMMA NextServer == IInv /\ ServerStep => IInv'
<1> SUFFICES ASSUME IInv, ServerStep PROVE IInv'
  OBVIOUS
<1> USE FastbootAssumption DEF IInv, loopVars, diskVars, umsVars, countVars,
    LoopType, CountType, DiskType, UmsType, LoopInv, ReplyInv, DiskInv, UmsInv,
    StagedIsLatest, Busy, Exporting, Written, Content, Torn, Erased, Lun
<1>1. CASE RegisterAndBind
  <2>1. LoopType' /\ CountType'
    BY <1>1 DEF RegisterAndBind
  <2>2. DiskType' /\ UmsType'
    BY <1>1 DEF RegisterAndBind
  <2>3. LoopInv' /\ ReplyInv'
    BY <1>1 DEF RegisterAndBind
  <2>4. DiskInv'
    BY <1>1 DEF RegisterAndBind
  <2>5. UmsInv'
    BY <1>1 DEF RegisterAndBind
  <2> QED
    BY <2>1, <2>2, <2>3, <2>4, <2>5
<1>2. CASE UnbindAndRemove
  BY <1>2, ZenonT(30) DEF UnbindAndRemove
<1>3. CASE ReplySent
  BY <1>3, SMTT(30) DEF ReplySent
<1>4. CASE ReplyFails
  BY <1>4, SMTT(30) DEF ReplyFails, Answer, Fault
<1>5. CASE DownloadTimesOut
  BY <1>5 DEF DownloadTimesOut, Answer, Fault
<1>6. CASE TransferCut
  BY <1>6 DEF TransferCut
<1>7. CASE UploadChunk
  BY <1>7 DEF UploadChunk, Answer
<1>8. CASE CatDone
  BY <1>8 DEF CatDone, Stage, Answer
<1>9. CASE DmesgDone
  BY <1>9 DEF DmesgDone, Stage, Answer
<1>10. CASE ShellDone
  BY <1>10 DEF ShellDone, Stage, Answer
<1>11. CASE DownloadChunk
  BY <1>11 DEF DownloadChunk
<1>12. CASE DownloadDone
  BY <1>12 DEF DownloadDone, Answer
<1>13. CASE FlashChunk
  BY <1>13, SMTT(30) DEF FlashChunk
<1>14. CASE EraseBlocks
  <2>1. LoopType' /\ CountType'
    BY <1>14 DEF EraseBlocks
  <2>2. DiskType' /\ UmsType'
    BY <1>14 DEF EraseBlocks
  <2>3. LoopInv' /\ ReplyInv'
    BY <1>14 DEF EraseBlocks
  <2>4. DiskInv'
    BY <1>14 DEF EraseBlocks
  <2>5. UmsInv'
    BY <1>14 DEF EraseBlocks
  <2> QED
    BY <2>1, <2>2, <2>3, <2>4, <2>5
<1>15. CASE WriteDone
  BY <1>15, SMTT(30) DEF WriteDone, Answer
<1> QED
  BY <1>1, <1>2, <1>3, <1>4, <1>5, <1>6, <1>7, <1>8, <1>9, <1>10, <1>11, <1>12, <1>13, <1>14, <1>15 DEF ServerStep

\* So do the commands of the host, and what it does to an exported medium.
LEMMA NextHost == IInv /\ HostStep => IInv'
<1> SUFFICES ASSUME IInv, HostStep PROVE IInv'
  OBVIOUS
<1> USE FastbootAssumption DEF IInv, loopVars, diskVars, umsVars, countVars,
    LoopType, CountType, DiskType, UmsType, LoopInv, ReplyInv, DiskInv, UmsInv,
    StagedIsLatest, Busy, Exporting, Written, Content, Torn, Erased, Lun
<1>1. CASE BadDownload
  BY <1>1 DEF BadDownload, ReceiveErr, Receive, Answer
<1>2. ASSUME NEW s \in 0..MaxChunks, StartDownload(s) PROVE IInv'
  BY <1>2 DEF StartDownload, Receive
<1>3. CASE LateData
  BY <1>3 DEF LateData, Answer
<1>4. CASE UploadNothing
  BY <1>4, Refused DEF UploadNothing
<1>5. CASE UploadStaged
  BY <1>5, SMTT(30) DEF UploadStaged, Receive
<1>6. ASSUME NEW o \in {"cat", "dmesg", "shell"}, StartCapture(o) PROVE IInv'
  BY <1>6 DEF StartCapture, Receive
<1>7. CASE ShellStaged
  <2>1. LoopType' /\ CountType'
    BY <1>7 DEF ShellStaged, StartCapture, ReceiveErr, Receive, Answer
  <2>2. DiskType' /\ UmsType'
    BY <1>7 DEF ShellStaged, StartCapture, ReceiveErr, Receive, Answer
  <2>3. LoopInv' /\ ReplyInv'
    BY <1>7 DEF ShellStaged, StartCapture, ReceiveErr, Receive, Answer
  <2>4. DiskInv'
    BY <1>7 DEF ShellStaged, StartCapture, ReceiveErr, Receive, Answer
  <2>5. UmsInv'
    BY <1>7, SMTT(30) DEF ShellStaged, StartCapture, ReceiveErr, Receive, Answer
  <2> QED
    BY <2>1, <2>2, <2>3, <2>4, <2>5
<1>8. CASE PartitionUnknown
  BY <1>8, Refused DEF PartitionUnknown
<1>9. CASE BackingUnknown
  BY <1>9, Refused DEF BackingUnknown
<1>10. ASSUME NEW p \in Part, FlashRefused(p) PROVE IInv'
  BY <1>10, Refused DEF FlashRefused
<1>11. ASSUME NEW p \in Part, FlashStart(p) PROVE IInv'
  BY <1>11, SMTT(30) DEF FlashStart, Receive
<1>12. ASSUME NEW p \in Part, EraseStart(p) PROVE IInv'
  BY <1>12 DEF EraseStart, Receive
<1>13. ASSUME NEW b \in Backing, UmsStart(b) PROVE IInv'
  <2>1. PICK status \in {"OKAY", "FAIL"} : Answer(status, "handler")
    BY <1>13 DEF UmsStart
  <2>2. /\ LoopType' /\ CountType' /\ DiskType' /\ LoopInv' /\ ReplyInv'
        /\ DiskInv' /\ pc = "read" /\ pc' = "reply"
    BY <1>13, <2>1, UmsCommand DEF UmsStart
  <2>3. CASE UNCHANGED <<slots, lun>>
    BY <1>13, <2>2, <2>3 DEF UmsStart, UmsType, UmsInv, Exporting
  <2>4. ASSUME NEW l \in Lun, \A k \in Lun : slots[k] # b,
               slots' = [slots EXCEPT ![l] = b], lun' = [lun EXCEPT ![l] = b]
        PROVE  UmsType' /\ UmsInv'
    <3>1. slots \in [Lun -> Backing \cup {None}] /\ UNCHANGED held
      BY <1>13, <2>2 DEF UmsStart, UmsInv, Exporting
    <3> QED
      BY <2>2, <2>4, <3>1, ZenonT(30) DEF UmsType, UmsInv, Exporting
  <2> QED
    BY <1>13, <2>2, <2>3, <2>4, ZenonT(30) DEF UmsStart, Attach
<1>14. ASSUME NEW b \in Backing, UmsStop(b) PROVE IInv'
  <2>1. PICK status \in {"OKAY", "FAIL"} : Answer(status, "handler")
    BY <1>14 DEF UmsStop
  <2>2. /\ LoopType' /\ CountType' /\ DiskType' /\ LoopInv' /\ ReplyInv'
        /\ DiskInv' /\ pc = "read" /\ pc' = "reply"
    BY <1>14, <2>1, UmsCommand DEF UmsStop
  <2>3. CASE UNCHANGED <<slots, lun>>
    BY <1>14, <2>2, <2>3 DEF UmsStop, UmsType, UmsInv, Exporting
  <2>4. ASSUME NEW l \in Lun, Detach(l) PROVE UmsType' /\ UmsInv'
    <3>1. slots \in [Lun -> Backing \cup {None}] /\ UNCHANGED held
      BY <1>14, <2>2 DEF UmsStop, UmsInv, Exporting
    <3> QED
      BY <2>2, <2>4, <3>1, ZenonT(30) DEF Detach, UmsType, UmsInv, Exporting
  <2> QED
    BY <1>14, <2>2, <2>3, <2>4 DEF UmsStop
<1>15. ASSUME NEW l \in Lun, HostMedium(l) PROVE IInv'
  <2>1. LoopType' /\ CountType'
    BY <1>15 DEF HostMedium
  <2>2. DiskType' /\ UmsType'
    BY <1>15 DEF HostMedium
  <2>3. LoopInv' /\ ReplyInv'
    BY <1>15 DEF HostMedium
  <2>4. DiskInv'
    BY <1>15 DEF HostMedium
  <2>5. UmsInv'
    BY <1>15 DEF HostMedium
  <2> QED
    BY <2>1, <2>2, <2>3, <2>4, <2>5
<1>16. CASE Getvar
  BY <1>16, Queried DEF Getvar
<1>17. CASE SetActive
  BY <1>17, Queried DEF SetActive
<1>18. CASE KexecLoad
  BY <1>18, Queried, Refused DEF KexecLoad, Unsupported
<1>19. CASE Continue
  BY <1>19 DEF Continue, Receive, Answer
<1>20. CASE Unsupported("unknown")
  BY <1>20, Refused DEF Unsupported
<1>21. ASSUME NEW o \in {"boot", "reboot"}, LeaveCommand(o) PROVE IInv'
  BY <1>21 DEF LeaveCommand, Receive, Answer
<1> QED
  BY <1>1, <1>2, <1>3, <1>4, <1>5, <1>6, <1>7, <1>8, <1>9, <1>10, <1>11, <1>12, <1>13, <1>14, <1>15, <1>16, <1>17, <1>18, <1>19, <1>20, <1>21 DEF HostStep

\* So do timeouts, I/O errors, a lost link, a lost reply and a loss of power.
LEMMA NextFault == IInv /\ FaultStep => IInv'
<1> SUFFICES ASSUME IInv, FaultStep PROVE IInv'
  OBVIOUS
<1> USE FastbootAssumption DEF IInv, loopVars, diskVars, umsVars, countVars,
    LoopType, CountType, DiskType, UmsType, LoopInv, ReplyInv, DiskInv, UmsInv,
    StagedIsLatest, Busy, Exporting, Written, Content, Torn, Erased, Lun
<1>1. CASE UploadTimesOut
  BY <1>1 DEF UploadTimesOut, Fault
<1>2. CASE CaptureErr
  BY <1>2 DEF CaptureErr, HandlerErr, Answer, Fault
<1>3. CASE WriteErr
  <2>1. LoopType' /\ CountType'
    BY <1>3 DEF WriteErr, HandlerErr, Answer, Fault
  <2>2. DiskType' /\ UmsType'
    BY <1>3 DEF WriteErr, HandlerErr, Answer, Fault
  <2>3. LoopInv' /\ ReplyInv'
    BY <1>3 DEF WriteErr, HandlerErr, Answer, Fault
  <2>4. DiskInv'
    BY <1>3, SMTT(30) DEF WriteErr, HandlerErr, Answer, Fault
  <2>5. UmsInv'
    BY <1>3 DEF WriteErr, HandlerErr, Answer, Fault
  <2> QED
    BY <2>1, <2>2, <2>3, <2>4, <2>5
<1>4. CASE LinkDown
  BY <1>4 DEF LinkDown, Fault
<1>5. CASE LinkUp
  BY <1>5 DEF LinkUp
<1>6. CASE PowerLoss
  BY <1>6 DEF PowerLoss, Fault
<1>7. ASSUME NEW p \in Part, Writeback(p) PROVE IInv'
  BY <1>7, SMTT(30) DEF Writeback
<1> QED
  BY <1>1, <1>2, <1>3, <1>4, <1>5, <1>6, <1>7 DEF FaultStep

\* The two flags stay Boolean.
LEMMA NextFlags == FlagType /\ [Next]_vars => FlagType'
<1> SUFFICES ASSUME FlagType, [Next]_vars PROVE FlagType'
  OBVIOUS
<1> USE DEF FlagType, vars, loopVars, countVars
<1>1. CASE ServerStep
  BY <1>1 DEF ServerStep, RegisterAndBind, UnbindAndRemove, ReplySent,
     ReplyFails, DownloadTimesOut, TransferCut, UploadChunk, CatDone, DmesgDone,
     ShellDone, Stage, DownloadChunk, DownloadDone, FlashChunk, EraseBlocks, WriteDone, Answer
<1>2. CASE HostStep
  BY <1>2 DEF HostStep, BadDownload, StartDownload, LateData, UploadNothing, UploadStaged, StartCapture,
    ShellStaged, PartitionUnknown, BackingUnknown, FlashRefused, FlashStart, EraseStart, UmsStart, UmsStop,
    HostMedium, Getvar, SetActive, KexecLoad, Continue, Unsupported, LeaveCommand, Query, ReceiveErr, Receive, Answer
<1>3. CASE FaultStep
  BY <1>3 DEF FaultStep, UploadTimesOut, CaptureErr, WriteErr, HandlerErr, LinkDown, LinkUp, PowerLoss, Writeback, Answer
<1> QED
  BY <1>1, <1>2, <1>3 DEF Next, Done


\* Every step keeps IInv.
LEMMA NextInv == IInv /\ [Next]_vars => IInv'
<1> SUFFICES ASSUME IInv, [Next]_vars PROVE IInv'
  OBVIOUS
<1>1. CASE UNCHANGED vars
  BY <1>1
     DEF IInv, vars, loopVars, diskVars, umsVars, countVars, LoopType,
         CountType, DiskType, UmsType, LoopInv, ReplyInv, DiskInv, UmsInv,
         StagedIsLatest, Exporting, Written
<1> QED
  BY <1>1, NextServer, NextHost, NextFault DEF Next, Done

-----------------------------------------------------------------------------

\* The inductive invariant of the command loop.
THEOREM Invariance == Spec => []IInv
  BY InitInv, NextInv, PTL DEF Spec

\* Every variable of the server, its disks and its UMS table keeps its type.
THEOREM TypeCorrect == Spec => []TypeOK
<1>1. Init => FlagType
  BY DEF Init, FlagType
<1>2. IInv /\ FlagType => TypeOK
  BY DEF IInv, LoopType, CountType, DiskType, UmsType, FlagType, TypeOK, Busy
<1> QED
  BY <1>1, <1>2, NextFlags, Invariance, PTL DEF Spec

\* Whatever cuts a download or a capture off, the staging area holds the
\* payload of the last command that was to fill it, or nothing
\* (CommandContext::clear_staged).
THEOREM NothingStaleIsStaged == Spec => []StagedIsLatest
<1>1. IInv => StagedIsLatest
  BY DEF IInv, LoopInv
<1> QED
  BY <1>1, Invariance, PTL

\* The host has one OKAY or FAIL for its command when the loop reads again,
\* unless the link or the power was lost or the storage failed (run_once).
THEOREM AnsweredOnce == Spec => []OneReply
<1>1. IInv => OneReply
  BY DEF IInv, ReplyInv, OneReply
<1> QED
  BY <1>1, Invariance, PTL

\* A flash or erase that was answered OKAY survives a loss of power
\* (flash_raw, erase_partition).
THEOREM AcknowledgedIsOnMedium == Spec => []OkayIsOnMedium
<1>1. IInv => OkayIsOnMedium
  BY DEF IInv, DiskInv, OkayIsOnMedium
<1> QED
  BY <1>1, Invariance, PTL

\* Every file the kernel exports is in the table, under its LUN and no other
\* (attach_mass_storage_slot, detach_mass_storage_slot).
THEOREM TableInStep == Spec => []UmsInStep
<1>1. IInv => UmsInStep
  <2> SUFFICES ASSUME IInv, pc \notin {"exited", "fatal", "removed"},
                      NEW l \in Lun, lun[l] # None
               PROVE  /\ slots # << >> /\ slots[l] = lun[l]
                      /\ \A k \in Lun \ {l} : lun[k] # lun[l]
    BY DEF UmsInStep
  <2>1. /\ slots \in [Lun -> Backing \cup {None}]
        /\ \A k \in Lun : lun[k] # None => slots[k] = lun[k]
        /\ \A k, m \in Lun : k # m /\ slots[m] # None => slots[k] # slots[m]
    BY DEF IInv, LoopType, UmsInv, Exporting
  <2>2. slots # << >>
    <3>1. DOMAIN slots = Lun /\ 1 \in Lun
      BY <2>1, FastbootAssumption DEF Lun
    <3>2. 1 \notin DOMAIN << >>
      OBVIOUS
    <3> QED
      BY <3>1, <3>2
  <2> QED
    BY <2>1, <2>2
<1> QED
  BY <1>1, Invariance, PTL

=============================================================================
