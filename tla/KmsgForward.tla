----------------------------- MODULE KmsgForward -----------------------------
(***************************************************************************)
(* The kernel log forwarder (src/kmsg-forwarder.rs): records are read from *)
(* /dev/kmsg into a bounded backlog and written to the USB serial port     *)
(* whenever a host has it open. The kernel overwrites old records, the     *)
(* port comes and goes with what its queue still holds, and the backlog    *)
(* drops its oldest records.                                               *)
(*                                                                         *)
(* A record is its sequence number, its size and the records it tells the  *)
(* host of; the lines of the forwarder itself have number 0 and size 1,    *)
(* and a record's lines on the port are as long as the record. The         *)
(* greeting, which carries nothing, is left out.                           *)
(***************************************************************************)
EXTENDS Integers, Sequences, FiniteSets

CONSTANTS
    Ring,           \* records the kernel keeps
    Limit,          \* KMSG_BACKLOG_MAX
    HighWater,      \* TTY_QUEUE_HIGH_WATER
    UsbDepth,       \* bytes with the USB controller, which TIOCOUTQ leaves out
    Sizes,          \* sizes of records
    MaxRecords,     \* bound: records of the kernel
    MaxLosses       \* bound: times the port goes away

VARIABLES
    log,            \* sizes of the records the kernel has logged
    pos,            \* records the forwarder has passed
    port,           \* "gone", "open" (no host has it open) or "up"
    tty,            \* lines the port took and the host has not
    fd,             \* the forwarder's file: "none", "open" or "hung" up
    pc,             \* "drain", "attach", "note", "flush" or "attached"
    sent,           \* the line was written, and its queue is waited for
    backlog,        \* Backlog::records
    dropped,        \* the records Backlog::dropped_records counts
    known,          \* records the host got, or was told of as dropped
    cut,            \* records done with that the port took with it
    cut_bytes,      \* bytes of them the last time it went
    read,           \* records read since /dev/kmsg was opened
    losses

portVars == <<log, port>>
histVars == <<known, cut, cut_bytes, losses>>
vars == <<portVars, histVars, pos, tty, fd, pc, sent, backlog, dropped, read>>

Init ==
    /\ log = <<>> /\ pos = 0 /\ port = "gone" /\ tty = <<>>
    /\ fd = "none" /\ pc = "drain" /\ sent = FALSE
    /\ backlog = <<>> /\ dropped = {}
    /\ known = {} /\ cut = {} /\ cut_bytes = 0 /\ read = {} /\ losses = 0

(* Bytes of a queue of records up to each of them. *)
Totals(records) ==
    LET sum[k \in 1 .. Len(records) + 1] ==
          IF k = 1 THEN 0 ELSE sum[k - 1] + records[k - 1].size
    IN  sum

BytesOf(records) == Totals(records)[Len(records) + 1]

(* What a queue brings to the host, or tells it of. *)
Brings(q) == {q[i].id : i \in DOMAIN q} \cup UNION {q[i].tells : i \in DOMAIN q}

(* The lines of the port the forwarder is done with: all but the one whose *)
(* queue it waits for, if the host has not taken that already.             *)
DoneWith == IF sent THEN SubSeq(tty, 1, Len(tty) - 1) ELSE tty

(***************************************************************************)
(* External: the kernel logs, the host opens, reads and closes the port,   *)
(* and the port hangs up, which empties its queue (u_serial).              *)
(***************************************************************************)
KernelLogs ==
    /\ Len(log) < MaxRecords
    /\ \E s \in Sizes : log' = Append(log, s)
    /\ UNCHANGED <<port, histVars, pos, tty, fd, pc, sent, backlog, dropped, read>>

PortChanges ==
    /\ port' = CASE port = "gone" -> "open"
                 [] port = "open" -> "up"
                 [] port = "up"   -> "open"
    /\ UNCHANGED <<log, histVars, pos, tty, fd, pc, sent, backlog, dropped, read>>

HostTakes ==
    /\ port = "up" /\ tty # <<>>
    /\ known' = known \cup {Head(tty).id} \cup Head(tty).tells
    /\ tty' = Tail(tty)
    /\ UNCHANGED <<portVars, cut, cut_bytes, losses, pos, fd, pc, sent, backlog,
                   dropped, read>>

PortGone ==
    /\ port # "gone" /\ losses < MaxLosses
    /\ port' = "gone" /\ losses' = losses + 1
    /\ fd' = IF fd = "open" THEN "hung" ELSE fd
    /\ tty' = <<>>
    /\ cut' = cut \cup Brings(DoneWith) /\ cut_bytes' = BytesOf(DoneWith)
    /\ UNCHANGED <<log, known, pos, pc, sent, backlog, dropped, read>>

(***************************************************************************)
(* Backlog                                                                 *)
(***************************************************************************)
Oldest == IF Len(log) > Ring THEN Len(log) - Ring ELSE 0   \* records overwritten

(* The records that leave at the front for r: as few as make room for it. *)
Leaving(r) ==
    LET fits == {k \in 0..Len(backlog) :
                   BytesOf(SubSeq(backlog, k + 1, Len(backlog))) + r.size <= Limit}
    IN  CHOOSE j \in fits : \A i \in fits : j <= i

\* Fault: the oldest records make room without being counted.
Push_uncounted(r) ==
    /\ backlog' = Append(SubSeq(backlog, Leaving(r) + 1, Len(backlog)), r)
    /\ UNCHANGED dropped

(* Backlog::push: records leave at the front until the new one fits; one   *)
(* that cannot fit is dropped itself.                                      *)
Push(r) ==
    IF r.size > Limit
    THEN dropped' = dropped \cup {r.id} /\ UNCHANGED backlog
    ELSE /\ backlog' = Append(SubSeq(backlog, Leaving(r) + 1, Len(backlog)), r)
         /\ dropped' = dropped \cup {backlog[i].id : i \in 1..Leaving(r)}

(* read_kmsg: EPIPE once when records were overwritten, then the oldest *)
ReadKmsg ==
    /\ pos < Len(log)
    /\ IF pos < Oldest
       THEN /\ Push([id |-> 0, size |-> 1, tells |-> {}])
            /\ pos' = Oldest /\ UNCHANGED read
       ELSE /\ Push([id |-> pos + 1, size |-> log[pos + 1], tells |-> {}])
            /\ pos' = pos + 1 /\ read' = read \cup {pos + 1}

(* drain_kmsg_to_backlog, in forward_once, wait_for_tty, wait_for_host_dtr *)
Drain ==
    /\ pc = "drain" /\ ReadKmsg
    /\ UNCHANGED <<portVars, histVars, tty, fd, pc, sent>>

Drained ==
    /\ pc = "drain" /\ pos = Len(log) /\ pc' = "attach"
    /\ UNCHANGED <<portVars, histVars, pos, tty, fd, sent, backlog, dropped, read>>

(***************************************************************************)
(* Attaching                                                               *)
(***************************************************************************)
(* wait_for_tty opens the port if it is there; *)
Opens ==
    /\ pc = "attach" /\ fd = "none" /\ pc' = "drain"
    /\ fd' = IF port = "gone" THEN "none" ELSE "open"
    /\ UNCHANGED <<portVars, histVars, pos, tty, sent, backlog, dropped, read>>

(* wait_for_host_dtr drains on until a host asserts DTR, *)
NoDtr ==
    /\ pc = "attach" /\ fd = "open" /\ port = "open" /\ pc' = "drain"
    /\ UNCHANGED <<portVars, histVars, pos, tty, fd, sent, backlog, dropped, read>>

(* or for a while, settle_tty, where the port has no modem bits. *)
Attached ==
    /\ pc = "attach" /\ fd = "open"
    /\ pc' = IF dropped = {} THEN "flush" ELSE "note"
    /\ UNCHANGED <<portVars, histVars, pos, tty, fd, sent, backlog, dropped, read>>

(***************************************************************************)
(* Flushing: a line is written, then the port's queue must be short before *)
(* the forwarder is done with it (write_tty_line, wait_for_tty_queue).     *)
(***************************************************************************)
Write(line) ==
    /\ fd = "open" /\ ~sent
    /\ tty' = Append(tty, line) /\ sent' = TRUE
    /\ UNCHANGED <<portVars, histVars, pos, fd, pc, backlog, dropped, read>>

QueueShort ==
    /\ fd = "open" /\ sent /\ BytesOf(tty) <= HighWater + UsbDepth
    /\ sent' = FALSE
    /\ UNCHANGED <<portVars, histVars, pos, tty, fd, read>>

(* flush_backlog: the number of dropped records *)
WriteNote == pc = "note" /\ Write([id |-> 0, size |-> 1, tells |-> dropped])

NoteFlushed ==
    /\ pc = "note" /\ QueueShort
    /\ dropped' = {} /\ pc' = "flush"
    /\ UNCHANGED backlog

(* flush_backlog_records_with *)
WriteRecord == pc = "flush" /\ backlog # <<>> /\ Write(Head(backlog))

RecordFlushed ==
    /\ pc = "flush" /\ QueueShort
    /\ backlog' = Tail(backlog)
    /\ UNCHANGED <<pc, dropped>>

Flushed ==
    /\ pc = "flush" /\ backlog = <<>> /\ pc' = "attached"
    /\ UNCHANGED <<portVars, histVars, pos, tty, fd, sent, backlog, dropped, read>>

(* forward_attached: a record is pushed and flushed *)
Forward ==
    /\ pc = "attached" /\ ReadKmsg /\ pc' = "flush"
    /\ UNCHANGED <<portVars, histVars, tty, fd, sent>>

(* is_tty_disconnect: a file that was hung up fails whatever is done with  *)
(* it, and the port is opened anew                                         *)
Disconnected ==
    /\ pc \in {"attach", "note", "flush"} /\ fd = "hung"
    /\ pc' = "drain" /\ fd' = "none" /\ sent' = FALSE
    /\ UNCHANGED <<portVars, histVars, pos, tty, backlog, dropped, read>>

(* Any other error: run starts over with an empty backlog and reads        *)
(* /dev/kmsg from its oldest record.                                       *)
Restart ==
    /\ pos' = Oldest /\ tty' = <<>> /\ fd' = "none" /\ pc' = "drain"
    /\ sent' = FALSE /\ backlog' = <<>> /\ dropped' = {}
    /\ known' = {} /\ cut' = {} /\ cut_bytes' = 0 /\ read' = {}
    /\ UNCHANGED <<portVars, losses>>

Next ==
    \/ KernelLogs \/ PortChanges \/ HostTakes \/ PortGone
    \/ Drain \/ Drained \/ Opens \/ NoDtr \/ Attached
    \/ WriteNote \/ NoteFlushed \/ WriteRecord \/ RecordFlushed \/ Flushed
    \/ Forward \/ Disconnected \/ Restart

Spec == Init /\ [][Next]_vars

(***************************************************************************)
(* Properties                                                              *)
(***************************************************************************)

(* No record is lost in silence while the port stays: one that was read    *)
(* since /dev/kmsg was opened is with the host or on the port's queue,     *)
(* waits in the backlog, or is counted in a note that the host has, that   *)
(* is on the queue or that will be written (Backlog, flush_backlog). A     *)
(* loss of the port may cost what its queue held, note or record, which    *)
(* nobody counts: but never a line the forwarder was not done with, and no *)
(* more than the high water mark and the USB controller hold               *)
(* (wait_for_tty_queue). The backlog stays in order and in its limit.      *)
NoSilentLoss ==
    /\ read \subseteq known \cup Brings(backlog) \cup Brings(tty) \cup dropped
                   \cup cut
    /\ cut_bytes <= HighWater + UsbDepth
    /\ BytesOf(backlog) <= Limit
    /\ \A i, j \in DOMAIN backlog :
         i < j /\ 0 \notin {backlog[i].id, backlog[j].id} => backlog[i].id < backlog[j].id
=============================================================================
