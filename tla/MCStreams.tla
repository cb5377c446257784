------------------------------ MODULE MCStreams ------------------------------
(* Five loops over a stream of records, each checked on its own: a behaviour  *)
(* runs one of them and leaves the others where they start.                   *)
EXTENDS Integers, Sequences

CONSTANTS
    PartBlocks, MaxTotal, MaxChunks,
    Names, MaxTokens,
    Ring, Limit, HighWater, UsbDepth, Sizes, MaxRecords, MaxLosses,
    Layouts, NoDisks, Quiet, MaxWait, MaxChanges,
    MaxSections, MaxMarks

ASSUME SparseAssumption == PartBlocks \in Nat /\ MaxTotal \in Nat /\ MaxChunks \in Nat
ASSUME KmsgAssumption ==
    /\ Ring \in Nat /\ Limit \in Nat /\ Sizes \subseteq Nat
    /\ HighWater \in Nat /\ UsbDepth \in Nat
ASSUME SettleAssumption == Quiet \in Nat /\ MaxWait \in Nat /\ MaxChanges \in Nat
ASSUME PayloadAssumption == MaxSections \in Nat /\ MaxMarks \in Nat

VARIABLES
    loop,
    sPc, total, chunks, image, position, sCursor, remaining, target,
    dtb, block, live, wPc, wCursor, stack, saw, strings, memory, out, ranges,
    log, pos, port, tty, fd, kPc, sent, backlog, dropped, known, cut, cut_bytes, read, losses,
    now, tPc, layout, socket, uevents, snapshot, last_change, changes, changed, calm,
    payload, pPc, section, search_offset, result

Begin(n) == [token |-> "begin", name |-> n]
EndNode  == [token |-> "end"]
Prop(o, v) == [token |-> "prop", nameoff |-> o, value |-> v]

(* Two memory nodes, one with a child, between other nodes; and a tree with   *)
(* a node called memory below another one only. "reg" is not in the strings   *)
(* of the supplied tree, "status" has another offset there.                   *)
MCLive ==
    { <<Begin(""), Prop(1, "board"), Begin("memory"), Prop(2, "low"), Begin("bank"), EndNode,
        EndNode, Begin("cpus"), Prop(2, "0"), EndNode, [token |-> "nop"],
        Begin("memory@8"), Prop(3, "okay"), Prop(2, "high"), EndNode, EndNode, [token |-> "fin"]>>,
      <<Begin(""), Begin("cpus"), Begin("memory"), EndNode, EndNode, EndNode, [token |-> "fin"]>> }

S == INSTANCE SparseFlash WITH pc <- sPc, cursor <- sCursor
W == INSTANCE FdtWalk WITH pc <- wPc, cursor <- wCursor, Live <- MCLive,
        LiveStrings <- <<"model", "reg", "status">>, Strings <- <<"status", "bootargs">>
F == INSTANCE KmsgForward WITH pc <- kPc
T == INSTANCE StorageSettle WITH pc <- tPc
P == INSTANCE KernelPayload WITH pc <- pPc

sparseVars == <<sPc, total, chunks, image, position, sCursor, remaining, target>>
walkVars   == <<dtb, block, live, wPc, wCursor, stack, saw, strings, memory, out, ranges>>
kmsgVars   == <<log, pos, port, tty, fd, kPc, sent, backlog, dropped, known, cut, cut_bytes, read,
                losses>>
settleVars == <<now, tPc, layout, socket, uevents, snapshot, last_change, changes, changed, calm>>
payloadVars == <<payload, pPc, section, search_offset, result>>

(* The loops that do not run have their smallest input. *)
Init ==
    /\ loop \in {"sparse", "walk", "kmsg", "settle", "payload"}
    /\ P!Init /\ (loop = "payload" \/ payload = [form |-> "other"])
    /\ T!Init /\ (loop = "settle" \/ (layout = NoDisks /\ ~socket))
    /\ W!Init /\ (loop = "walk" \/ live = CHOOSE t \in MCLive : TRUE)
    /\ S!Init /\ F!Init

Next ==
    /\ UNCHANGED loop
    /\ \/ loop = "sparse" /\ S!Next
          /\ UNCHANGED walkVars /\ UNCHANGED kmsgVars /\ UNCHANGED settleVars /\ UNCHANGED payloadVars
       \/ loop = "walk" /\ W!Next
          /\ UNCHANGED sparseVars /\ UNCHANGED kmsgVars /\ UNCHANGED settleVars /\ UNCHANGED payloadVars
       \/ loop = "kmsg" /\ F!Next
          /\ UNCHANGED sparseVars /\ UNCHANGED walkVars /\ UNCHANGED settleVars /\ UNCHANGED payloadVars
       \/ loop = "settle" /\ T!Next
          /\ UNCHANGED sparseVars /\ UNCHANGED walkVars /\ UNCHANGED kmsgVars /\ UNCHANGED payloadVars
       \/ loop = "payload" /\ P!Next
          /\ UNCHANGED sparseVars /\ UNCHANGED walkVars /\ UNCHANGED kmsgVars /\ UNCHANGED settleVars

Spec == Init /\ [][Next]_<<loop, sparseVars, walkVars, kmsgVars, settleVars, payloadVars>>

(* The properties of the five modules. *)
SparseExact  == S!SparseExact
PassesExact  == W!PassesExact
NoSilentLoss == F!NoSilentLoss
SettledIsQuiet == T!SettledIsQuiet
KernelIsExtracted == P!KernelIsExtracted
=============================================================================
