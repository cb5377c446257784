----------------------------- MODULE AdbStreams -----------------------------
(***************************************************************************)
(* The ADB server of the USB gadget (src/adb.rs): one server thread that   *)
(* reads packets and owns the session map, one output thread per stream    *)
(* with a one-packet credit (OutputFlow), the children behind the streams, *)
(* and a host that follows the ADB protocol.                               *)
(*                                                                         *)
(* A packet is its command and its stream; what is in it is left out. The  *)
(* host sees a device packet when it is sent and reacts later; packets of  *)
(* the host wait in a FIFO.                                                *)
(***************************************************************************)
EXTENDS Naturals, Sequences, FiniteSets

CONSTANTS
    Stream,         \* the streams the host opens, each once
    None,           \* no stream
    Services,       \* the services it may open the streams for
    MaxChunks,      \* bound: output packets and sync responses per stream
    MaxWrites,      \* bound: packets the host writes to a stream
    MaxConnects,    \* bound: times the host connects
    Timeouts        \* whether a send may time out while the link is up

ASSUME StreamAssumption == None \notin Stream
Kind == {"shell", "exec", "sync"}

ASSUME ServicesAssumption == Services \subseteq [Stream -> Kind]
ASSUME BoundsAssumption ==
    /\ MaxChunks \in Nat /\ MaxWrites \in Nat /\ MaxConnects \in Nat
    /\ Timeouts \in BOOLEAN

VARIABLES
    \* the host and the cable
    link,           \* "down", "up" or "online" (the host has our CNXN)
    inq,            \* packets of the host the server has not read
    host,           \* the host's side of each stream
    to_ack,         \* device packets the host has not acknowledged
    may_write,      \* the host has the device's OKAY for its next packet
    writes, connects,
    \* the server thread
    srv,            \* what it is doing, to which stream, and why
    stop,           \* the stop flag
    sessions,       \* the streams in the session map
    conn,           \* connections answered
    \* the sessions
    kind, child, running, held, pending, file, chunks,
    opened_in,      \* the connection a stream was opened in
    \* the output threads
    thread, can_write, closed,
    \* history
    closes          \* CLSE packets sent with the stream's local id

hostVars == <<link, inq, host, to_ack, may_write, writes, connects>>
srvVars  == <<srv, stop, sessions, conn>>
sessVars == <<kind, child, running, held, pending, file, chunks, opened_in>>
outVars  == <<thread, can_write, closed>>
vars     == <<hostVars, srvVars, sessVars, outVars, closes>>

Command == {"OPEN", "WRTE", "OKAY", "CLSE"}
Packet  == [cmd : Command, s : Stream]
Connect == [cmd |-> "CNXN"]

\* The server thread: where it is, the stream it works on, whether it was the
\* one to close that stream's flow, and why it is closing streams: "close"
\* tells the host, the others drop sessions silently. In "store" it opens or
\* writes a file the host named.
Pc  == {"read", "reject", "opening", "ack", "input", "store", "shut", "hangup",
        "clse", "join", "clear", "cnxn", "stopped"}
Why == {"close", "drop", "connect", "disconnect", "stop"}

\* The output thread of a child: take credit, read the child, send; then reap
\* the child (exec), close the flow, send the CLSE. That of a sync session:
\* receive a response, open or read a file if the response is one, take
\* credit, send.
ThreadState == {"none", "recv", "file", "credit", "read", "send", "reap", "end",
           "clse", "done"}

At(pc) == srv.pc = pc
GoTo(pc, s, why) ==
    srv' = [pc |-> pc, s |-> s, why |-> why, first |-> FALSE]
Return == GoTo("read", None, "close")
Alive(s) == thread[s] \notin {"none", "done"}

Init ==
    /\ link = "up" /\ inq = <<Connect>> /\ connects = 1
    /\ host = [s \in Stream |-> "unused"]
    /\ to_ack = [s \in Stream |-> 0] /\ may_write = {}
    /\ writes = [s \in Stream |-> 0]
    /\ srv = [pc |-> "read", s |-> None, why |-> "close", first |-> FALSE]
    /\ stop = FALSE /\ sessions = {} /\ conn = 0
    /\ kind \in Services
    /\ child = [s \in Stream |-> "none"] /\ running = {} /\ held = {}
    /\ pending = [s \in Stream |-> 0] /\ file = {}
    /\ chunks = [s \in Stream |-> 0]
    /\ opened_in = [s \in Stream |-> 0]
    /\ thread = [s \in Stream |-> "none"] /\ can_write = {} /\ closed = {}
    /\ closes = [s \in Stream |-> 0]

-----------------------------------------------------------------------------
(* The host.                                                               *)

Forgotten == [s \in Stream |-> IF host[s] = "unused" THEN "unused" ELSE "gone"]

\* The cable is pulled, or the host drops the device.
HostGone ==
    /\ link # "down"
    /\ link' = "down" /\ inq' = <<>>
    /\ host' = Forgotten /\ may_write' = {}
    /\ to_ack' = [s \in Stream |-> 0] /\ writes' = [s \in Stream |-> 0]
    /\ UNCHANGED <<connects, srvVars, sessVars, outVars, closes>>

\* A host connects: it knows of no stream of an earlier connection.
HostConnects ==
    /\ connects < MaxConnects /\ ~stop
    /\ connects' = connects + 1
    /\ link' = "up" /\ inq' = Append(inq, Connect)
    /\ host' = Forgotten /\ may_write' = {}
    /\ to_ack' = [s \in Stream |-> 0] /\ writes' = [s \in Stream |-> 0]
    /\ UNCHANGED <<srvVars, sessVars, outVars, closes>>

HostSends(cmd, s) == inq' = Append(inq, [cmd |-> cmd, s |-> s])

HostOpens(s) ==
    /\ link = "online" /\ host[s] = "unused"
    /\ HostSends("OPEN", s)
    /\ host' = [host EXCEPT ![s] = "opening"]
    /\ UNCHANGED <<link, to_ack, may_write, writes, connects, srvVars,
                   sessVars, outVars, closes>>

HostWrites(s) ==
    /\ host[s] = "open" /\ s \in may_write /\ writes[s] < MaxWrites
    /\ HostSends("WRTE", s)
    /\ may_write' = may_write \ {s}
    /\ writes' = [writes EXCEPT ![s] = @ + 1]
    /\ UNCHANGED <<link, host, to_ack, connects, srvVars, sessVars, outVars,
                   closes>>

HostAcks(s) ==
    /\ host[s] = "open" /\ to_ack[s] > 0
    /\ HostSends("OKAY", s)
    /\ to_ack' = [to_ack EXCEPT ![s] = @ - 1]
    /\ UNCHANGED <<link, host, may_write, writes, connects, srvVars, sessVars,
                   outVars, closes>>

\* The host closes a stream of its own accord, or because the device did.
HostCloses(s) ==
    /\ host[s] \in {"open", "peer_closed"}
    /\ HostSends("CLSE", s)
    /\ host' = [host EXCEPT ![s] = "gone"]
    /\ to_ack' = [to_ack EXCEPT ![s] = 0] /\ may_write' = may_write \ {s}
    /\ writes' = [writes EXCEPT ![s] = 0]
    /\ UNCHANGED <<link, connects, srvVars, sessVars, outVars, closes>>


-----------------------------------------------------------------------------
(* PacketWriter::send. It succeeds only while the link is up; it fails with *)
(* a disconnect while the link is down, and may time out at any time.       *)

Sent(cmd, s) ==
    /\ link # "down"
    /\ CASE cmd = "OKAY" ->
              /\ host' = [host EXCEPT ![s] = IF @ = "opening" THEN "open" ELSE @]
              /\ may_write' = IF host[s] \in {"opening", "open"}
                                THEN may_write \union {s} ELSE may_write
              /\ UNCHANGED to_ack
         [] cmd = "WRTE" ->
              /\ to_ack' = [to_ack EXCEPT ![s] =
                              IF host[s] = "open" THEN @ + 1 ELSE @]
              /\ UNCHANGED <<host, may_write>>
         [] cmd = "CLSE" ->
              /\ host' = [host EXCEPT ![s] = IF @ \in {"opening", "open"}
                                               THEN "peer_closed" ELSE @]
              /\ to_ack' = [to_ack EXCEPT ![s] = 0]
              /\ may_write' = may_write \ {s}
    /\ UNCHANGED <<link, inq, writes, connects>>

NotSent == (link = "down" \/ Timeouts) /\ UNCHANGED hostVars

SentClose(s) == /\ Sent("CLSE", s)
                /\ closes' = [closes EXCEPT ![s] = @ + 1]

\* handle_packet returns the error of a send: a disconnect clears the
\* sessions, a timeout is logged.
AfterFailedSend ==
    IF link = "down" THEN GoTo("clear", None, "disconnect") ELSE Return

-----------------------------------------------------------------------------
(* The server thread: reading a packet and handling it.                    *)

Reads(packet) ==
    /\ At("read") /\ ~stop /\ inq # <<>> /\ Head(inq) = packet
    /\ inq' = Tail(inq)
    /\ UNCHANGED <<link, host, to_ack, may_write, writes, connects, closes>>

\* handle_connect forgets every stream before it answers.
ReadConnect ==
    /\ Reads(Connect)
    /\ GoTo("clear", None, "connect")
    /\ UNCHANGED <<stop, sessions, conn, sessVars, outVars>>

\* The CNXN reply.
ReplyConnect ==
    /\ At("cnxn")
    /\ \/ /\ link # "down"
          /\ link' = "online" /\ conn' = conn + 1
          /\ Return
       \/ NotSent /\ AfterFailedSend /\ UNCHANGED conn
    /\ UNCHANGED <<inq, host, to_ack, may_write, writes, connects, stop,
                   sessions, sessVars, outVars, closes>>

\* handle_open spawns the child and the output thread, or fails to. The
\* child may leave a process behind that holds its output open.
ReadOpen(s) ==
    /\ Reads([cmd |-> "OPEN", s |-> s])
    /\ \/ /\ GoTo("reject", s, "close")
          /\ UNCHANGED <<sessVars, outVars>>
       \/ /\ GoTo("opening", s, "close")
          /\ opened_in' = [opened_in EXCEPT ![s] = conn]
          /\ IF kind[s] = "sync"
               THEN UNCHANGED <<child, running, held>>
               ELSE /\ child' = [child EXCEPT ![s] = "alive"]
                    /\ running' = running \union {s}
                    /\ held' \in {held, held \union {s}}
          /\ thread' = [thread EXCEPT ![s] =
                          IF kind[s] = "sync" THEN "recv" ELSE "credit"]
          /\ UNCHANGED <<kind, pending, file, chunks, can_write, closed>>
    /\ UNCHANGED <<stop, sessions, conn>>

\* A CLSE with local id 0.
Reject ==
    /\ At("reject")
    /\ \/ /\ Sent("CLSE", srv.s)
          /\ Return
       \/ NotSent /\ AfterFailedSend
    /\ UNCHANGED <<stop, sessions, conn, sessVars, outVars, closes>>

\* Drop and the close functions start with the flow, or with the child.
StartClosing(s, why) ==
    GoTo(IF kind[s] = "exec" THEN "hangup" ELSE "shut", s, why)

\* Fault: the stream may write before its OKAY is out.
Opened_allows_first ==
    /\ At("opening")
    /\ \/ /\ srv.s \notin can_write
          /\ can_write' = can_write \union {srv.s}
          /\ UNCHANGED <<hostVars, srvVars, closes>>
       \/ /\ Sent("OKAY", srv.s)
          /\ sessions' = sessions \union {srv.s}
          /\ Return
          /\ UNCHANGED <<stop, conn, can_write, closes>>
    /\ UNCHANGED <<sessVars, thread, closed>>

\* The OKAY of the open, then the session goes into the map and may write
\* once. Without the OKAY the session is dropped again.
Opened ==
    /\ At("opening")
    /\ \/ /\ Sent("OKAY", srv.s)
          /\ sessions' = sessions \union {srv.s}
          /\ can_write' = can_write \union {srv.s}
          /\ Return
       \/ /\ NotSent
          /\ StartClosing(srv.s, IF link = "down" THEN "disconnect" ELSE "drop")
          /\ UNCHANGED <<sessions, can_write>>
    /\ UNCHANGED <<stop, conn, sessVars, thread, closed, closes>>

\* handle_write. A sync packet is acknowledged before it is looked at.
ReadWrite(s) ==
    /\ Reads([cmd |-> "WRTE", s |-> s])
    /\ GoTo(CASE s \notin sessions -> "reject"
              [] s \in sessions /\ kind[s] = "sync" -> "ack"
              [] OTHER -> "input", s, "close")
    /\ UNCHANGED <<stop, sessions, conn, sessVars, outVars>>

\* The OKAY before (sync) or after (shell, exec) the write.
Ack(next) ==
    \/ Sent("OKAY", srv.s)
       /\ IF next = "read" THEN Return ELSE GoTo(next, srv.s, "close")
    \/ NotSent /\ AfterFailedSend

AckSync ==
    /\ At("ack") /\ Ack("input")
    /\ UNCHANGED <<stop, sessions, conn, sessVars, outVars, closes>>

\* A request queues its response for the output thread, or has none yet.
Respond ==
    \/ UNCHANGED pending
    \/ /\ thread[srv.s] # "done"
       /\ pending' = [pending EXCEPT ![srv.s] = @ + 1]

\* write_input on a sync session: nothing is complete, a request is answered
\* from what stat and read_dir say, or the data of a SEND needs a file.
SyncInput ==
    /\ At("input") /\ kind[srv.s] = "sync"
    /\ \/ Respond /\ Return
       \/ GoTo("store", srv.s, "close") /\ UNCHANGED pending
    /\ UNCHANGED <<hostVars, stop, sessions, conn, kind, child, running, held,
                   file, chunks, opened_in, outVars, closes>>

\* create_sync_file or write_all is done, well or not; on a FIFO, a tty or a
\* full pipe that may be never. A response to a thread that is gone fails.
Store ==
    /\ At("store")
    /\ \/ Respond /\ Return
       \/ /\ thread[srv.s] = "done" /\ GoTo("input", srv.s, "close")
          /\ UNCHANGED pending
    /\ UNCHANGED <<hostVars, stop, sessions, conn, kind, child, running, held,
                   file, chunks, opened_in, outVars, closes>>

\* write_input on a shell or exec session: the child took the input.
ChildInput ==
    /\ At("input") /\ kind[srv.s] # "sync"
    /\ child[srv.s] = "alive" \/ srv.s \in held
    /\ Ack("read")
    /\ UNCHANGED <<stop, sessions, conn, sessVars, outVars, closes>>

\* write_input fails: nobody reads the input, or the thread that sends the
\* responses is gone. close_from_device.
InputFails ==
    /\ At("input")
    /\ IF kind[srv.s] = "sync" THEN thread[srv.s] = "done"
       ELSE child[srv.s] = "dead" /\ srv.s \notin held
    /\ sessions' = sessions \ {srv.s}
    /\ StartClosing(srv.s, "close")
    /\ UNCHANGED <<hostVars, stop, conn, sessVars, outVars, closes>>

\* handle_okay: allow_one_write.
ReadOkay(s) ==
    /\ Reads([cmd |-> "OKAY", s |-> s])
    /\ can_write' = IF s \in sessions \ closed THEN can_write \union {s}
                                               ELSE can_write
    /\ UNCHANGED <<srvVars, sessVars, thread, closed>>

\* handle_close: close_from_host, when there is such a session.
ReadClose(s) ==
    /\ Reads([cmd |-> "CLSE", s |-> s])
    /\ IF s \in sessions
         THEN StartClosing(s, "close") /\ sessions' = sessions \ {s}
         ELSE UNCHANGED <<srv, sessions>>
    /\ UNCHANGED <<stop, conn, sessVars, outVars>>

\* The endpoint reports a disconnect.
ReadDisconnect ==
    /\ At("read") /\ ~stop /\ link = "down"
    /\ GoTo("clear", None, "disconnect")
    /\ UNCHANGED <<hostVars, stop, sessions, conn, sessVars, outVars, closes>>

\* The stop flag is seen: run() clears the sessions and returns.
StopSeen ==
    /\ At("read") /\ stop
    /\ GoTo("clear", None, "stop")
    /\ UNCHANGED <<hostVars, stop, sessions, conn, sessVars, outVars, closes>>

\* A malformed packet: run() returns the error, which drops the sessions.
ReadFatal ==
    /\ At("read") /\ ~stop /\ link # "down"
    /\ GoTo("clear", None, "stop")
    /\ UNCHANGED <<hostVars, stop, sessions, conn, sessVars, outVars, closes>>

\* The fastboot thread is done with the gadget.
GadgetStops ==
    /\ ~stop
    /\ stop' = TRUE
    /\ UNCHANGED <<hostVars, srv, sessions, conn, sessVars, outVars, closes>>

-----------------------------------------------------------------------------
(* The server thread: closing one stream, or all of them.                  *)

Announce(first) == IF srv.why = "close" /\ first THEN "clse" ELSE "join"

\* Fault: every close is announced.
Shut_always_first ==
    /\ At("shut")
    /\ closed' = closed \union {srv.s}
    /\ srv' = [srv EXCEPT !.first = TRUE,
                 !.pc = IF kind[srv.s] = "shell" THEN "hangup" ELSE Announce(TRUE)]
    /\ UNCHANGED <<hostVars, stop, sessions, conn, sessVars, thread, can_write,
                   closes>>

\* OutputFlow::close; a sync session gives up its response channel as well.
Shut ==
    /\ At("shut")
    /\ closed' = closed \union {srv.s}
    /\ LET first == srv.s \notin closed IN
         srv' = [srv EXCEPT !.first = first,
                   !.pc = IF kind[srv.s] = "shell" THEN "hangup"
                          ELSE Announce(first)]
    /\ UNCHANGED <<hostVars, stop, sessions, conn, sessVars, thread, can_write,
                   closes>>

\* terminate_process_group, which an exec session skips once its child was
\* waited for.
Hangup ==
    /\ At("hangup")
    /\ IF kind[srv.s] = "shell"
         THEN /\ child' = [child EXCEPT ![srv.s] = "dead"]
              /\ GoTo(Announce(srv.first), srv.s, srv.why)
              /\ UNCHANGED running
         ELSE /\ child' = [child EXCEPT ![srv.s] =
                             IF srv.s \in running THEN "dead" ELSE @]
              /\ running' = running \ {srv.s}
              /\ GoTo("shut", srv.s, srv.why)
    /\ UNCHANGED <<hostVars, stop, sessions, conn, kind, held, pending, file,
                   chunks, opened_in, outVars, closes>>

\* The CLSE. When it fails the session is dropped all the same.
SendClose ==
    /\ At("clse")
    /\ \/ SentClose(srv.s) /\ GoTo("join", srv.s, "close")
       \/ /\ NotSent /\ UNCHANGED closes
          /\ GoTo("join", srv.s, IF link = "down" THEN "disconnect" ELSE "drop")
    /\ UNCHANGED <<stop, sessions, conn, sessVars, outVars>>

\* The session is freed; nothing refers to it any more.
Forget(s) ==
    /\ child' = [child EXCEPT ![s] = "none"]
    /\ running' = running \ {s} /\ held' = held \ {s}
    /\ pending' = [pending EXCEPT ![s] = 0] /\ file' = file \ {s}
    /\ chunks' = [chunks EXCEPT ![s] = 0]
    /\ can_write' = can_write \ {s}
    /\ opened_in' = [opened_in EXCEPT ![s] = 0]

\* Fault: drop detaches the output thread.
Join_detaches ==
    /\ At("join")
    /\ IF srv.why \in {"close", "drop"} THEN Return
       ELSE GoTo("clear", None, srv.why)
    /\ UNCHANGED <<hostVars, stop, sessions, conn, sessVars, outVars, closes>>

\* Drop ends when the output thread has.
Join ==
    /\ At("join") /\ thread[srv.s] = "done"
    /\ IF srv.why \in {"close", "drop"} THEN Return
       ELSE GoTo("clear", None, srv.why)
    /\ Forget(srv.s)
    /\ UNCHANGED <<hostVars, stop, sessions, conn, kind, thread, closed, closes>>

\* sessions.clear() drops one session after the other, in any order.
Clear ==
    /\ At("clear")
    /\ IF sessions = {}
         THEN /\ GoTo(CASE srv.why = "connect" -> "cnxn"
                        [] srv.why = "stop"    -> "stopped"
                        [] OTHER               -> "read", None, "close")
              /\ UNCHANGED sessions
         ELSE \E s \in sessions :
                sessions' = sessions \ {s} /\ StartClosing(s, srv.why)
    /\ UNCHANGED <<hostVars, stop, conn, sessVars, outVars, closes>>

-----------------------------------------------------------------------------
(* The output threads and the children.                                    *)

Thread(s, from, to) == thread[s] = from /\ thread' = [thread EXCEPT ![s] = to]

\* Where the loop's exit leads: a shell's thread closes the flow, an exec one
\* waits for the child first, a sync one just returns.
Ending(s) == CASE kind[s] = "shell" -> "end"
               [] kind[s] = "exec"  -> "reap"
               [] OTHER             -> "done"

\* run_sync_output takes a response, a packet or the path of a file, or ends
\* with its channel.
RecvResponse(s) ==
    /\ \/ /\ pending[s] > 0
          /\ pending' = [pending EXCEPT ![s] = @ - 1]
          /\ \/ Thread(s, "recv", "credit") /\ UNCHANGED file
             \/ Thread(s, "recv", "file") /\ file' = file \union {s}
       \/ /\ pending[s] = 0 /\ s \in closed /\ Thread(s, "recv", "done")
          /\ UNCHANGED <<pending, file>>
    /\ UNCHANGED <<hostVars, srvVars, kind, child, running, held, chunks,
                   opened_in, can_write, closed, closes>>

\* send_sync_file opens the file and reads the next chunk of it before it waits
\* for credit; at its end, or when either fails, a DONE or a FAIL follows.
\* Whether open and read return is up to the file.
ReadFile(s) ==
    /\ Thread(s, "file", "credit")
    /\ \/ chunks[s] < MaxChunks /\ UNCHANGED file
       \/ file' = file \ {s}
    /\ UNCHANGED <<hostVars, srvVars, kind, child, running, held, pending,
                   chunks, opened_in, can_write, closed, closes>>

\* Fault: the credit is looked at and not taken.
TakeCredit_keeps(s) ==
    /\ \/ s \notin closed /\ s \in can_write
          /\ Thread(s, "credit", IF kind[s] = "sync" THEN "send" ELSE "read")
       \/ s \in closed
          /\ Thread(s, "credit", Ending(s))
    /\ UNCHANGED <<hostVars, srvVars, sessVars, can_write, closed, closes>>

\* Fault: a thread that waits for credit is not told that the flow is closed.
TakeCredit_not_woken(s) ==
    /\ s \notin closed /\ s \in can_write
    /\ Thread(s, "credit", IF kind[s] = "sync" THEN "send" ELSE "read")
    /\ can_write' = can_write \ {s}
    /\ UNCHANGED <<hostVars, srvVars, sessVars, closed, closes>>

\* wait_for_write_credit. A sync thread has its payload by now.
TakeCredit(s) ==
    /\ \/ s \notin closed /\ s \in can_write
          /\ Thread(s, "credit", IF kind[s] = "sync" THEN "send" ELSE "read")
          /\ can_write' = can_write \ {s}
       \/ s \in closed
          /\ Thread(s, "credit", Ending(s))
          /\ UNCHANGED can_write
    /\ UNCHANGED <<hostVars, srvVars, sessVars, closed, closes>>

\* The child's output: a chunk, or its end.
ReadChunk(s) ==
    /\ chunks[s] < MaxChunks /\ Thread(s, "read", "send")
    /\ UNCHANGED <<hostVars, srvVars, sessVars, can_write, closed, closes>>

ReadEof(s) ==
    /\ child[s] = "dead" /\ s \notin held /\ Thread(s, "read", Ending(s))
    /\ UNCHANGED <<hostVars, srvVars, sessVars, can_write, closed, closes>>

\* The WRTE. After a chunk of a file comes the next read; a sync thread whose
\* WRTE fails ends and leaves the stream open.
SendChunk(s) ==
    /\ chunks' = [chunks EXCEPT ![s] = @ + 1]
    /\ \/ /\ Sent("WRTE", s)
          /\ Thread(s, "send", CASE kind[s] # "sync" -> "credit"
                                 [] s \in file      -> "file"
                                 [] OTHER          -> "recv")
       \/ NotSent /\ Thread(s, "send", Ending(s))
    /\ UNCHANGED <<srvVars, kind, child, running, held, pending, file, opened_in,
                   can_write, closed, closes>>

\* child.wait(); the exec session has no child to terminate any more.
Reap(s) ==
    /\ child[s] = "dead" /\ Thread(s, "reap", "end")
    /\ running' = running \ {s}
    /\ UNCHANGED <<hostVars, srvVars, kind, child, held, pending, file, chunks,
                   opened_in, can_write, closed, closes>>

\* Fault: the output thread returns without telling the host.
EndOutput_silent(s) ==
    /\ Thread(s, "end", "done")
    /\ closed' = closed \union {s}
    /\ UNCHANGED <<hostVars, srvVars, sessVars, can_write, closes>>

\* OutputFlow::close by the output thread.
EndOutput(s) ==
    /\ Thread(s, "end", IF s \in closed THEN "done" ELSE "clse")
    /\ closed' = closed \union {s}
    /\ UNCHANGED <<hostVars, srvVars, sessVars, can_write, closes>>

EndClose(s) ==
    /\ Thread(s, "clse", "done")
    /\ SentClose(s) \/ (NotSent /\ UNCHANGED closes)
    /\ UNCHANGED <<srvVars, sessVars, can_write, closed>>

ChildExits(s) ==
    /\ child[s] = "alive"
    /\ child' = [child EXCEPT ![s] = "dead"]
    /\ UNCHANGED <<hostVars, srvVars, kind, running, held, pending, file,
                   chunks, opened_in, outVars, closes>>

\* What the child left behind goes away too.
HolderExits(s) ==
    /\ s \in held
    /\ held' = held \ {s}
    /\ UNCHANGED <<hostVars, srvVars, kind, child, running, pending, file,
                   chunks, opened_in, outVars, closes>>

-----------------------------------------------------------------------------

Host == HostGone \/ HostConnects
        \/ \E s \in Stream : HostOpens(s) \/ HostWrites(s) \/ HostAcks(s)
                             \/ HostCloses(s)
Handle == \/ ReadConnect \/ ReplyConnect \/ Reject \/ Opened \/ AckSync
          \/ SyncInput \/ InputFails \/ ReadDisconnect \/ StopSeen
          \/ \E s \in Stream : ReadOpen(s) \/ ReadWrite(s) \/ ReadOkay(s)
                               \/ ReadClose(s)
Closing == Shut \/ Hangup \/ SendClose \/ Join \/ Clear
Output(s) == \/ RecvResponse(s) \/ TakeCredit(s) \/ ReadEof(s) \/ SendChunk(s)
             \/ Reap(s) \/ EndOutput(s) \/ EndClose(s)
Stopped == At("stopped") /\ UNCHANGED vars

Next == \/ Host \/ Handle \/ ChildInput \/ Store \/ ReadFatal \/ GadgetStops
        \/ Closing \/ Stopped
        \/ \E s \in Stream : \/ Output(s) \/ ReadChunk(s) \/ ReadFile(s)
                             \/ ChildExits(s) \/ HolderExits(s)

Spec == Init /\ [][Next]_vars

\* Threads run, sends are bounded by TRANSFER_TIMEOUT, and the host answers a
\* WRTE. Nobody owes us that a child reads, writes or exits, or that the open,
\* read or write of a file the host named (ReadFile, Store) returns.
FairSpec == /\ Spec /\ WF_vars(Handle) /\ WF_vars(Closing)
            /\ \A s \in Stream : WF_vars(Output(s)) /\ WF_vars(HostAcks(s))

-----------------------------------------------------------------------------
(* Properties.                                                             *)

\* Every variable has its type.
TypeOK ==
    /\ link \in {"down", "up", "online"}
    /\ inq \in Seq(Packet \union {Connect})
    /\ host \in [Stream -> {"unused", "opening", "open", "peer_closed", "gone"}]
    /\ to_ack \in [Stream -> Nat] /\ may_write \subseteq Stream
    /\ writes \in [Stream -> 0..MaxWrites] /\ connects \in Nat
    /\ srv \in [pc : Pc, s : Stream \union {None}, why : Why, first : BOOLEAN]
    /\ stop \in BOOLEAN /\ sessions \subseteq Stream /\ conn \in Nat
    /\ kind \in [Stream -> Kind]
    /\ child \in [Stream -> {"none", "alive", "dead"}]
    /\ running \subseteq Stream /\ held \subseteq Stream
    /\ pending \in [Stream -> Nat] /\ file \subseteq Stream
    /\ chunks \in [Stream -> Nat]
    /\ opened_in \in [Stream -> Nat]
    /\ thread \in [Stream -> ThreadState]
    /\ can_write \subseteq Stream /\ closed \subseteq Stream
    /\ closes \in [Stream -> Nat]

\* The send credit of a stream is in one place at most: with the flow, with
\* the output thread, with the host, or on its way back in an OKAY. So the
\* device never has two unacknowledged packets on a stream.
OneCredit ==
    \A s \in Stream :
        (IF s \in can_write THEN 1 ELSE 0)
        + (IF thread[s] = "read" \/ thread[s] = "send" THEN 1 ELSE 0)
        + to_ack[s]
        + Cardinality({i \in DOMAIN inq :
                          inq[i] = [cmd |-> "OKAY", s |-> s]}) <= 1

\* However the host's CLSE, a failing input and the end of the child race,
\* one CLSE at most carries the stream's id (OutputFlow::close).
OneClose == \A s \in Stream : closes[s] <= 1

\* Output starts only after the host has the stream's local id: no WRTE is
\* sent while the OKAY of the open is still to come.
OpenBeforeWrite ==
    \A s \in Stream : thread[s] \in {"send", "clse"} => host[s] # "opening"

\* Once a connection is answered, no output thread of an earlier one is left:
\* the ids of the new connection never meet the packets of an old stream.
NoStaleOutput == \A s \in Stream : Alive(s) => opened_in[s] = conn

\* The server thread waits for a child to read its input, for a file of a SEND,
\* or, in Drop, for an output thread that reads an output somebody holds open
\* or a file of a RECV.
Blocked ==
    \/ /\ At("input") /\ kind[srv.s] # "sync"
       /\ child[srv.s] = "alive" \/ srv.s \in held
    \/ At("store")
    \/ At("join") /\ thread[srv.s] = "read" /\ srv.s \in held
    \/ At("join") /\ thread[srv.s] = "file"

\* The stop flag ends the server, whatever the output threads are doing,
\* unless a child or a file blocks it: credit that never comes, a host that
\* went away and a running child do not.
StopEndsTheServer == stop ~> (At("stopped") \/ Blocked)

\* When the child of a stream ends and sends do not time out, the host learns
\* of it, unless the server was stopped or another stream's child or file
\* blocks it.
EndReachesHost ==
    \A s \in Stream :
        (host[s] = "open" /\ child[s] = "dead" /\ s \notin held)
            ~> (host[s] # "open" \/ At("stopped") \/ Blocked)

=============================================================================
