------------------------- MODULE AdbStreams_proofs --------------------------
(***************************************************************************)
(* Theorems about the ADB server, for any number of streams, any services  *)
(* and any number of packets and connections.                              *)
(***************************************************************************)
EXTENDS AdbStreams, FiniteSetTheorems, TLAPS

\* While the server thread works on a stream, there is one.
PcInv == srv.pc \in {"reject", "opening", "ack", "input", "store", "shut",
                     "hangup", "clse", "join"} => srv.s \in Stream

\* A living output thread belongs to a session of the map or to the one the
\* server thread is opening or closing; sessions are gone when a connection
\* is answered.
OwnInv ==
    /\ \A s \in Stream : Alive(s) =>
         \/ s \in sessions
         \/ srv.s = s /\ srv.pc \in {"opening", "shut", "hangup", "clse", "join"}
    /\ srv.pc = "cnxn" => sessions = {}
    /\ NoStaleOutput

\* The server thread will send, or is about to decide to send, the CLSE of s.
Owes(s) == srv.s = s /\ (srv.pc = "clse" \/ (srv.pc = "hangup" /\ srv.first))

\* Whoever closed the flow owes or has sent the only CLSE.
CloseInv == \A s \in Stream :
    /\ s \notin closed => closes[s] = 0 /\ thread[s] # "clse" /\ ~Owes(s)
    /\ thread[s] = "clse" => closes[s] = 0 /\ ~Owes(s)
    /\ Owes(s) => closes[s] = 0
    /\ closes[s] <= 1

\* As long as the host waits for the OKAY of the open, the output thread has
\* neither credit nor anything to say; a packet or a handler concerns a
\* stream that the host has opened.
OpenInv ==
    /\ \A s \in Stream : host[s] \in {"unused", "opening"} =>
         /\ s \notin can_write /\ s \notin sessions
         /\ thread[s] \notin {"read", "send", "clse"}
         /\ thread[s] \in {"reap", "end"} => s \in closed
    /\ srv.pc \in {"opening", "ack", "input", "store"} => host[srv.s] # "unused"
    /\ srv.pc \in {"ack", "input", "store"} => srv.s \in sessions

\* A packet in flight is about a stream the host has opened.
QueueInv ==
    \A i \in 1..Len(inq) : inq[i] # Connect => host[inq[i].s] # "unused"

\* The type invariant, in four parts.
HostType ==
    /\ link \in {"down", "up", "online"}
    /\ inq \in Seq(Packet \union {Connect})
    /\ host \in [Stream -> {"unused", "opening", "open", "peer_closed", "gone"}]
    /\ to_ack \in [Stream -> Nat] /\ may_write \subseteq Stream
    /\ writes \in [Stream -> 0..MaxWrites] /\ connects \in Nat
SrvType ==
    /\ srv \in [pc : Pc, s : Stream \union {None}, why : Why, first : BOOLEAN]
    /\ stop \in BOOLEAN /\ sessions \subseteq Stream /\ conn \in Nat
    /\ PcInv
SessType ==
    /\ kind \in [Stream -> Kind]
    /\ child \in [Stream -> {"none", "alive", "dead"}]
    /\ running \subseteq Stream /\ held \subseteq Stream
    /\ pending \in [Stream -> Nat] /\ file \subseteq Stream
    /\ chunks \in [Stream -> Nat]
    /\ opened_in \in [Stream -> Nat]
OutType ==
    /\ thread \in [Stream -> ThreadState]
    /\ can_write \subseteq Stream /\ closed \subseteq Stream
    /\ closes \in [Stream -> Nat]
Types == HostType /\ SrvType /\ SessType /\ OutType

\* The four parts are the type invariant with PcInv.
LEMMA TypeParts == Types <=> TypeOK /\ PcInv
  BY DEF Types, HostType, SrvType, SessType, OutType, TypeOK

\* Packets of the host keep the queue's type.
LEMMA SendsType ==
  ASSUME HostType, NEW cmd \in Command, NEW s \in Stream, HostSends(cmd, s)
  PROVE  inq' \in Seq(Packet \union {Connect})
<1>1. [cmd |-> cmd, s |-> s] \in Packet \union {Connect}
  BY DEF Packet
<1> QED
  BY <1>1 DEF HostSends, HostType

\* Reading a packet keeps it too.
LEMMA ReadsType ==
  ASSUME HostType, NEW packet, Reads(packet)
  PROVE  HostType' /\ closes' = closes
<1>1. Tail(inq) \in Seq(Packet \union {Connect})
  BY DEF HostType, Reads
<1> QED
  BY <1>1 DEF HostType, Reads

\* So does sending one to the host, or failing to.
LEMMA SentType ==
  ASSUME HostType, NEW s \in Stream, NEW cmd \in {"OKAY", "WRTE", "CLSE"},
         Sent(cmd, s)
  PROVE  HostType'
<1>1. CASE cmd = "OKAY"
  BY <1>1 DEF HostType, Sent
<1>2. CASE cmd = "WRTE"
  BY <1>2 DEF HostType, Sent
<1>3. CASE cmd = "CLSE"
  <2>1. host' \in [Stream -> {"unused", "opening", "open", "peer_closed", "gone"}]
    BY <1>3 DEF HostType, Sent
  <2>2. to_ack' \in [Stream -> Nat] /\ may_write' \subseteq Stream
    BY <1>3 DEF HostType, Sent
  <2> QED
    BY <2>1, <2>2 DEF HostType, Sent
<1> QED
  BY <1>1, <1>2, <1>3

\* A step that leaves a part's variables alone keeps its type.
LEMMA HostFrame == ASSUME HostType, UNCHANGED hostVars PROVE HostType'
  BY DEF HostType, hostVars
\* The server thread's part.
LEMMA SrvFrame == ASSUME SrvType, UNCHANGED srvVars PROVE SrvType'
  BY DEF SrvType, PcInv, srvVars
\* The sessions' part.
LEMMA SessFrame == ASSUME SessType, UNCHANGED sessVars PROVE SessType'
  BY DEF SessType, sessVars
\* The output threads' part.
LEMMA OutFrame == ASSUME OutType, UNCHANGED <<outVars, closes>> PROVE OutType'
  BY DEF OutType, outVars

\* Going to a place of the server's code.
LEMMA GoToType ==
  ASSUME SrvType, NEW pc \in Pc, NEW s \in Stream \union {None}, NEW why \in Why,
         GoTo(pc, s, why), sessions' \subseteq Stream, stop' \in BOOLEAN,
         conn' \in Nat,
         s \in Stream \/ pc \in {"read", "clear", "cnxn", "stopped"}
  PROVE  SrvType'
  BY DEF SrvType, PcInv, GoTo

\* Connecting keeps the queue's type.
LEMMA PacketType ==
  ASSUME HostType
  PROVE  /\ Append(inq, Connect) \in Seq(Packet \union {Connect})
         /\ <<>> \in Seq(Packet \union {Connect})
  BY DEF HostType

-----------------------------------------------------------------------------
(* Types.                                                                  *)

\* AdbServer::new and a host that is not connected satisfy the types.
LEMMA TypeInit == Init => Types
<1> SUFFICES ASSUME Init PROVE Types
  OBVIOUS
<1>1. inq \in Seq(Packet \union {Connect})
  BY DEF Init
<1>2. HostType
  BY <1>1, BoundsAssumption DEF Init, HostType
<1>3. SrvType
  BY DEF Init, SrvType, PcInv, Pc, Why
<1>4. SessType
  BY ServicesAssumption DEF Init, SessType
<1>5. OutType
  BY DEF Init, OutType, ThreadState
<1> QED
  BY <1>2, <1>3, <1>4, <1>5 DEF Types

\* Every step keeps the types of the host and of the link's queue.
LEMMA HostStep ==
  ASSUME Types, [Next]_vars
  PROVE  HostType'
<1>quiet. CASE UNCHANGED <<hostVars>>
  BY <1>quiet, HostFrame DEF Types
<1>HostGone. ASSUME HostGone PROVE HostType'
  BY <1>HostGone, PacketType, BoundsAssumption
     DEF HostGone, Forgotten, Types, HostType, Command
<1>HostConnects. ASSUME HostConnects PROVE HostType'
  BY <1>HostConnects, PacketType, BoundsAssumption
     DEF HostConnects, Forgotten, Types, HostType, Command
<1>HostOpens. ASSUME NEW s \in Stream, HostOpens(s) PROVE HostType'
  BY <1>HostOpens, SendsType, PacketType
     DEF HostOpens, Types, HostType, Command
<1>HostWrites. ASSUME NEW s \in Stream, HostWrites(s) PROVE HostType'
  BY <1>HostWrites, SendsType, PacketType, BoundsAssumption
     DEF HostWrites, Types, HostType, Command
<1>HostAcks. ASSUME NEW s \in Stream, HostAcks(s) PROVE HostType'
  BY <1>HostAcks, SendsType, PacketType DEF HostAcks, Types, HostType, Command
<1>HostCloses. ASSUME NEW s \in Stream, HostCloses(s) PROVE HostType'
  BY <1>HostCloses, SendsType, PacketType, BoundsAssumption
     DEF HostCloses, Types, HostType, Command
<1>ReadConnect. ASSUME ReadConnect PROVE HostType'
  BY <1>ReadConnect, ReadsType DEF ReadConnect, Types
<1>ReplyConnect. ASSUME ReplyConnect PROVE HostType'
  BY <1>ReplyConnect DEF ReplyConnect, NotSent, Types, HostType, hostVars
<1>ReadOpen. ASSUME NEW s \in Stream, ReadOpen(s) PROVE HostType'
  BY <1>ReadOpen, ReadsType DEF ReadOpen, Types
<1>Reject. ASSUME Reject PROVE HostType'
  BY <1>Reject, HostFrame, SentType
     DEF Reject, NotSent, AfterFailedSend, Types, SrvType, PcInv, At
<1>Opened. ASSUME Opened PROVE HostType'
  BY <1>Opened, HostFrame, SentType
     DEF Opened, NotSent, Types, SrvType, PcInv, At
<1>ReadWrite. ASSUME NEW s \in Stream, ReadWrite(s) PROVE HostType'
  BY <1>ReadWrite, ReadsType DEF ReadWrite, Types
<1>AckSync. ASSUME AckSync PROVE HostType'
  BY <1>AckSync, HostFrame, SentType
     DEF AckSync, Ack, NotSent, AfterFailedSend, Types, SrvType, PcInv, At
<1>ChildInput. ASSUME ChildInput PROVE HostType'
  BY <1>ChildInput, HostFrame, SentType
     DEF ChildInput, Ack, NotSent, AfterFailedSend, Types, SrvType, PcInv, At
<1>ReadOkay. ASSUME NEW s \in Stream, ReadOkay(s) PROVE HostType'
  BY <1>ReadOkay, ReadsType DEF ReadOkay, Types
<1>ReadClose. ASSUME NEW s \in Stream, ReadClose(s) PROVE HostType'
  BY <1>ReadClose, ReadsType DEF ReadClose, Types
<1>SendClose. ASSUME SendClose PROVE HostType'
  BY <1>SendClose, HostFrame, SentType
     DEF SendClose, SentClose, NotSent, Types, SrvType, PcInv, At
<1>SendChunk. ASSUME NEW s \in Stream, SendChunk(s) PROVE HostType'
  BY <1>SendChunk, HostFrame, SentType
     DEF SendChunk, NotSent, Types, SrvType, PcInv, At
<1>EndClose. ASSUME NEW s \in Stream, EndClose(s) PROVE HostType'
  BY <1>EndClose, HostFrame, SentType
     DEF EndClose, SentClose, NotSent, Types, SrvType, PcInv, At
<1> QED
  BY <1>HostGone, <1>HostConnects, <1>HostOpens, <1>HostWrites, <1>HostAcks,
     <1>HostCloses, <1>ReadConnect, <1>ReplyConnect, <1>ReadOpen, <1>Reject,
     <1>Opened, <1>ReadWrite, <1>AckSync, <1>ChildInput, <1>ReadOkay,
     <1>ReadClose, <1>SendClose, <1>SendChunk, <1>EndClose, <1>quiet
     DEF Next, Host, Handle, Closing, Output, Stopped, vars, SyncInput, Store,
         InputFails, ReadDisconnect, StopSeen, ReadFatal, GadgetStops, Shut,
         Hangup, Join, Clear, RecvResponse, TakeCredit, ReadChunk, ReadFile,
         ReadEof, Reap, EndOutput, ChildExits, HolderExits, hostVars, srvVars,
         sessVars, outVars, Reads

\* Every step keeps the types of the server thread's variables.
LEMMA SrvStep ==
  ASSUME Types, [Next]_vars
  PROVE  SrvType'
<1>quiet. CASE UNCHANGED <<srvVars>>
  BY <1>quiet, SrvFrame DEF Types
<1>ReadConnect. ASSUME ReadConnect PROVE SrvType'
  BY <1>ReadConnect, GoToType
     DEF ReadConnect, Types, SrvType, PcInv, Pc, Why, At, srvVars
<1>ReplyConnect. ASSUME ReplyConnect PROVE SrvType'
  BY <1>ReplyConnect, GoToType
     DEF ReplyConnect, AfterFailedSend, Return, Types, SrvType, PcInv, Pc, Why,
         At, srvVars
<1>ReadOpen. ASSUME NEW s \in Stream, ReadOpen(s) PROVE SrvType'
  BY <1>ReadOpen, GoToType
     DEF ReadOpen, Types, SrvType, PcInv, Pc, Why, At, srvVars
<1>Reject. ASSUME Reject PROVE SrvType'
  BY <1>Reject, GoToType
     DEF Reject, AfterFailedSend, Return, Types, SrvType, PcInv, Pc, Why, At,
         srvVars
<1>Opened. ASSUME Opened PROVE SrvType'
  BY <1>Opened, GoToType
     DEF Opened, StartClosing, Return, Types, SrvType, PcInv, Pc, Why, At,
         srvVars
<1>ReadWrite. ASSUME NEW s \in Stream, ReadWrite(s) PROVE SrvType'
  BY <1>ReadWrite, GoToType
     DEF ReadWrite, Types, SrvType, PcInv, Pc, Why, At, srvVars
<1>AckSync. ASSUME AckSync PROVE SrvType'
  BY <1>AckSync, GoToType
     DEF AckSync, Ack, AfterFailedSend, Return, Types, SrvType, PcInv, Pc, Why,
         At, srvVars
<1>SyncInput. ASSUME SyncInput PROVE SrvType'
  BY <1>SyncInput, GoToType
     DEF SyncInput, Respond, Return, Types, SrvType, PcInv, Pc, Why, At, srvVars
<1>Store. ASSUME Store PROVE SrvType'
  BY <1>Store, GoToType
     DEF Store, Respond, Return, Types, SrvType, PcInv, Pc, Why, At, srvVars
<1>ChildInput. ASSUME ChildInput PROVE SrvType'
  BY <1>ChildInput, GoToType
     DEF ChildInput, Ack, AfterFailedSend, Return, Types, SrvType, PcInv, Pc,
         Why, At, srvVars
<1>InputFails. ASSUME InputFails PROVE SrvType'
  BY <1>InputFails, GoToType
     DEF InputFails, StartClosing, Types, SrvType, PcInv, Pc, Why, At, srvVars
<1>ReadClose. ASSUME NEW s \in Stream, ReadClose(s) PROVE SrvType'
  BY <1>ReadClose, GoToType
     DEF ReadClose, StartClosing, Types, SrvType, PcInv, Pc, Why, At, srvVars
<1>ReadDisconnect. ASSUME ReadDisconnect PROVE SrvType'
  BY <1>ReadDisconnect, GoToType
     DEF ReadDisconnect, Types, SrvType, PcInv, Pc, Why, At, srvVars
<1>StopSeen. ASSUME StopSeen PROVE SrvType'
  BY <1>StopSeen, GoToType
     DEF StopSeen, Types, SrvType, PcInv, Pc, Why, At, srvVars
<1>ReadFatal. ASSUME ReadFatal PROVE SrvType'
  BY <1>ReadFatal, GoToType
     DEF ReadFatal, Types, SrvType, PcInv, Pc, Why, At, srvVars
<1>GadgetStops. ASSUME GadgetStops PROVE SrvType'
  BY <1>GadgetStops DEF GadgetStops, Types, SrvType, PcInv, Pc, Why, At
<1>Shut. ASSUME Shut PROVE SrvType'
  BY <1>Shut DEF Shut, Announce, Types, SrvType, PcInv, Pc, Why, At
<1>Hangup. ASSUME Hangup PROVE SrvType'
  BY <1>Hangup, GoToType
     DEF Hangup, Announce, Types, SrvType, PcInv, Pc, Why, At, srvVars
<1>SendClose. ASSUME SendClose PROVE SrvType'
  BY <1>SendClose, GoToType
     DEF SendClose, Types, SrvType, PcInv, Pc, Why, At, srvVars
<1>Join. ASSUME Join PROVE SrvType'
  BY <1>Join, GoToType
     DEF Join, Return, Types, SrvType, PcInv, Pc, Why, At, srvVars
<1>Clear. ASSUME Clear PROVE SrvType'
  BY <1>Clear, GoToType
     DEF Clear, StartClosing, Types, SrvType, PcInv, Pc, Why, At, srvVars
<1> QED
  BY <1>ReadConnect, <1>ReplyConnect, <1>ReadOpen, <1>Reject, <1>Opened,
     <1>ReadWrite, <1>AckSync, <1>SyncInput, <1>Store, <1>ChildInput,
     <1>InputFails, <1>ReadClose, <1>ReadDisconnect, <1>StopSeen, <1>ReadFatal,
     <1>GadgetStops, <1>Shut, <1>Hangup, <1>SendClose, <1>Join, <1>Clear,
     <1>quiet
     DEF Next, Host, Handle, Closing, Output, Stopped, vars, HostGone,
         HostConnects, HostOpens, HostWrites, HostAcks, HostCloses, ReadOkay,
         RecvResponse, TakeCredit, ReadChunk, ReadFile, ReadEof, SendChunk,
         Reap, EndOutput, EndClose, ChildExits, HolderExits, hostVars, srvVars,
         sessVars, outVars, Reads

\* Every step keeps the types of the sessions and their children.
LEMMA SessStep ==
  ASSUME Types, [Next]_vars
  PROVE  SessType'
<1>quiet. CASE UNCHANGED <<sessVars>>
  BY <1>quiet, SessFrame DEF Types
<1>ReadOpen. ASSUME NEW s \in Stream, ReadOpen(s) PROVE SessType'
  <2>1. CASE UNCHANGED sessVars
    BY <2>1, SessFrame DEF Types
  <2>2. CASE ~UNCHANGED sessVars
    <3>1. /\ running' \in {running, running \union {s}}
          /\ held' \in {held, held \union {s}}
          /\ child' \in {child, [child EXCEPT ![s] = "alive"]}
      BY <1>ReadOpen, <2>2 DEF ReadOpen
    <3>2. /\ opened_in' = [opened_in EXCEPT ![s] = conn]
          /\ UNCHANGED <<kind, pending, file, chunks>>
      BY <1>ReadOpen, <2>2 DEF ReadOpen
    <3> QED
      BY <3>1, <3>2 DEF Types, SessType, SrvType
  <2> QED
    BY <2>1, <2>2
<1>SyncInput. ASSUME SyncInput PROVE SessType'
  BY <1>SyncInput DEF SyncInput, Respond, Types, SessType, sessVars
<1>Store. ASSUME Store PROVE SessType'
  BY <1>Store DEF Store, Respond, Types, SessType, sessVars
<1>Hangup. ASSUME Hangup PROVE SessType'
  BY <1>Hangup DEF Hangup, Types, SessType, sessVars
<1>Join. ASSUME Join PROVE SessType'
  BY <1>Join DEF Join, Forget, Types, SessType, sessVars
<1>RecvResponse. ASSUME NEW s \in Stream, RecvResponse(s) PROVE SessType'
  BY <1>RecvResponse DEF RecvResponse, Types, SessType, sessVars
<1>ReadFile. ASSUME NEW s \in Stream, ReadFile(s) PROVE SessType'
  BY <1>ReadFile DEF ReadFile, Types, SessType, sessVars
<1>SendChunk. ASSUME NEW s \in Stream, SendChunk(s) PROVE SessType'
  BY <1>SendChunk DEF SendChunk, Types, SessType, sessVars
<1>Reap. ASSUME NEW s \in Stream, Reap(s) PROVE SessType'
  BY <1>Reap DEF Reap, Types, SessType, sessVars
<1>ChildExits. ASSUME NEW s \in Stream, ChildExits(s) PROVE SessType'
  BY <1>ChildExits DEF ChildExits, Types, SessType, sessVars
<1>HolderExits. ASSUME NEW s \in Stream, HolderExits(s) PROVE SessType'
  BY <1>HolderExits DEF HolderExits, Types, SessType, sessVars
<1> QED
  BY <1>ReadOpen, <1>SyncInput, <1>Store, <1>Hangup, <1>Join, <1>RecvResponse,
     <1>ReadFile, <1>SendChunk, <1>Reap, <1>ChildExits, <1>HolderExits, <1>quiet
     DEF Next, Host, Handle, Closing, Output, Stopped, vars, HostGone,
         HostConnects, HostOpens, HostWrites, HostAcks, HostCloses,
         ReadConnect, ReplyConnect, Reject, Opened, ReadWrite, AckSync,
         ChildInput, InputFails, ReadOkay, ReadClose, ReadDisconnect, StopSeen,
         ReadFatal, GadgetStops, Shut, SendClose, Clear, TakeCredit, ReadChunk,
         ReadEof, EndOutput, EndClose, hostVars, srvVars, sessVars, outVars,
         Reads

\* Every step keeps the types of the output threads and their flows.
LEMMA OutStep ==
  ASSUME Types, [Next]_vars
  PROVE  OutType'
<1>quiet. CASE UNCHANGED <<outVars, closes>>
  BY <1>quiet, OutFrame DEF Types
<1>ReadOpen. ASSUME NEW s \in Stream, ReadOpen(s) PROVE OutType'
  BY <1>ReadOpen, ReadsType DEF ReadOpen, Types, OutType, ThreadState, outVars
<1>Opened. ASSUME Opened PROVE OutType'
  BY <1>Opened DEF Opened, Types, OutType, outVars, SrvType, PcInv, At
<1>ReadOkay. ASSUME NEW s \in Stream, ReadOkay(s) PROVE OutType'
  BY <1>ReadOkay, ReadsType DEF ReadOkay, Types, OutType, ThreadState, outVars
<1>Shut. ASSUME Shut PROVE OutType'
  BY <1>Shut DEF Shut, Types, OutType, outVars, SrvType, PcInv, At
<1>SendClose. ASSUME SendClose PROVE OutType'
  BY <1>SendClose DEF SendClose, SentClose, Types, OutType, outVars
<1>Join. ASSUME Join PROVE OutType'
  BY <1>Join DEF Join, Forget, Types, OutType, outVars
<1>RecvResponse. ASSUME NEW s \in Stream, RecvResponse(s) PROVE OutType'
  BY <1>RecvResponse
     DEF RecvResponse, Thread, Types, OutType, ThreadState, outVars
<1>TakeCredit. ASSUME NEW s \in Stream, TakeCredit(s) PROVE OutType'
  BY <1>TakeCredit
     DEF TakeCredit, Thread, Ending, Types, OutType, ThreadState, outVars
<1>ReadChunk. ASSUME NEW s \in Stream, ReadChunk(s) PROVE OutType'
  BY <1>ReadChunk DEF ReadChunk, Thread, Types, OutType, ThreadState, outVars
<1>ReadFile. ASSUME NEW s \in Stream, ReadFile(s) PROVE OutType'
  BY <1>ReadFile DEF ReadFile, Thread, Types, OutType, ThreadState, outVars
<1>ReadEof. ASSUME NEW s \in Stream, ReadEof(s) PROVE OutType'
  BY <1>ReadEof
     DEF ReadEof, Thread, Ending, Types, OutType, ThreadState, outVars
<1>SendChunk. ASSUME NEW s \in Stream, SendChunk(s) PROVE OutType'
  BY <1>SendChunk
     DEF SendChunk, Thread, Ending, Types, OutType, ThreadState, outVars
<1>Reap. ASSUME NEW s \in Stream, Reap(s) PROVE OutType'
  BY <1>Reap DEF Reap, Thread, Types, OutType, ThreadState, outVars
<1>EndOutput. ASSUME NEW s \in Stream, EndOutput(s) PROVE OutType'
  BY <1>EndOutput DEF EndOutput, Thread, Types, OutType, ThreadState, outVars
<1>EndClose. ASSUME NEW s \in Stream, EndClose(s) PROVE OutType'
  BY <1>EndClose
     DEF EndClose, Thread, SentClose, Types, OutType, ThreadState, outVars
<1> QED
  BY <1>ReadOpen, <1>Opened, <1>ReadOkay, <1>Shut, <1>SendClose, <1>Join,
     <1>RecvResponse, <1>TakeCredit, <1>ReadChunk, <1>ReadFile, <1>ReadEof,
     <1>SendChunk, <1>Reap, <1>EndOutput, <1>EndClose, <1>quiet
     DEF Next, Host, Handle, Closing, Output, Stopped, vars, HostGone,
         HostConnects, HostOpens, HostWrites, HostAcks, HostCloses, ReadConnect,
         ReplyConnect, Reject, ReadWrite, AckSync, SyncInput, Store, ChildInput,
         InputFails, ReadClose, ReadDisconnect, StopSeen, ReadFatal,
         GadgetStops, Hangup, Clear, ChildExits, HolderExits, hostVars, srvVars,
         sessVars, outVars, Reads

\* Every step keeps the type invariant.
LEMMA TypeStep ==
  ASSUME Types, [Next]_vars
  PROVE  Types'
  BY HostStep, SrvStep, SessStep, OutStep DEF Types

-----------------------------------------------------------------------------
(* Who owns an output thread.                                              *)

\* Every step keeps the ownership of output threads: handle_open inserts
\* the session it spawned or closes it, and Drop joins before it forgets.
LEMMA OwnStep ==
  ASSUME Types, OwnInv, [Next]_vars
  PROVE  OwnInv'
<1>quiet. CASE UNCHANGED <<srv, sessions, conn, opened_in, thread>>
  BY <1>quiet DEF OwnInv, NoStaleOutput, Alive
<1>ReadConnect. ASSUME ReadConnect PROVE OwnInv'
  BY <1>ReadConnect
     DEF ReadConnect, Reads, GoTo, Types, SrvType, SessType, OutType, PcInv,
         At, OwnInv, NoStaleOutput, Alive, srvVars, sessVars, outVars
<1>ReplyConnect. ASSUME ReplyConnect PROVE OwnInv'
  BY <1>ReplyConnect
     DEF ReplyConnect, NotSent, AfterFailedSend, GoTo, Return, Types, SrvType,
         SessType, OutType, PcInv, At, OwnInv, NoStaleOutput, Alive, srvVars,
         sessVars, outVars
<1>ReadOpen. ASSUME NEW s \in Stream, ReadOpen(s) PROVE OwnInv'
  <2>1. CASE UNCHANGED <<sessVars, outVars>>
    BY <1>ReadOpen, <2>1
       DEF ReadOpen, Reads, GoTo, At, OwnInv, NoStaleOutput, Alive, sessVars,
           outVars
  <2>2. CASE ~UNCHANGED <<sessVars, outVars>>
    <3>1. /\ opened_in' = [opened_in EXCEPT ![s] = conn]
          /\ \E t \in {"recv", "credit", "file"} : thread' = [thread EXCEPT ![s] = t]
          /\ srv'.pc = "opening" /\ srv'.s = s /\ UNCHANGED <<sessions, conn>>
      BY <1>ReadOpen, <2>2 DEF ReadOpen, GoTo
    <3>2. srv.pc = "read"
      BY <1>ReadOpen DEF ReadOpen, Reads, At
    <3> QED
      BY <3>1, <3>2
         DEF Types, SessType, OutType, OwnInv, NoStaleOutput, Alive
  <2> QED
    BY <2>1, <2>2
<1>Reject. ASSUME Reject PROVE OwnInv'
  BY <1>Reject
     DEF Reject, NotSent, AfterFailedSend, GoTo, Return, Types, SrvType,
         SessType, OutType, PcInv, At, OwnInv, NoStaleOutput, Alive, srvVars,
         sessVars, outVars
<1>Opened. ASSUME Opened PROVE OwnInv'
  BY <1>Opened
     DEF Opened, StartClosing, NotSent, GoTo, Return, Types, SrvType, SessType,
         OutType, PcInv, At, OwnInv, NoStaleOutput, Alive, srvVars, sessVars,
         outVars
<1>ReadWrite. ASSUME NEW s \in Stream, ReadWrite(s) PROVE OwnInv'
  BY <1>ReadWrite
     DEF ReadWrite, Reads, GoTo, Types, SrvType, SessType, OutType, PcInv, At,
         OwnInv, NoStaleOutput, Alive, srvVars, sessVars, outVars
<1>AckSync. ASSUME AckSync PROVE OwnInv'
  BY <1>AckSync
     DEF AckSync, Ack, NotSent, AfterFailedSend, GoTo, Return, Types, SrvType,
         SessType, OutType, PcInv, At, OwnInv, NoStaleOutput, Alive, srvVars,
         sessVars, outVars
<1>SyncInput. ASSUME SyncInput PROVE OwnInv'
  BY <1>SyncInput
     DEF SyncInput, Respond, GoTo, Return, Types, SrvType, SessType, OutType,
         PcInv, At, OwnInv, NoStaleOutput, Alive, srvVars, sessVars, outVars
<1>Store. ASSUME Store PROVE OwnInv'
  BY <1>Store
     DEF Store, Respond, GoTo, Return, Types, SrvType, SessType, OutType, PcInv,
         At, OwnInv, NoStaleOutput, Alive, srvVars, sessVars, outVars
<1>ChildInput. ASSUME ChildInput PROVE OwnInv'
  BY <1>ChildInput
     DEF ChildInput, Ack, NotSent, AfterFailedSend, GoTo, Return, Types,
         SrvType, SessType, OutType, PcInv, At, OwnInv, NoStaleOutput, Alive,
         srvVars, sessVars, outVars
<1>InputFails. ASSUME InputFails PROVE OwnInv'
  BY <1>InputFails
     DEF InputFails, StartClosing, GoTo, Types, SrvType, SessType, OutType,
         PcInv, At, OwnInv, NoStaleOutput, Alive, srvVars, sessVars, outVars
<1>ReadClose. ASSUME NEW s \in Stream, ReadClose(s) PROVE OwnInv'
  BY <1>ReadClose
     DEF ReadClose, Reads, StartClosing, GoTo, Types, SrvType, SessType,
         OutType, PcInv, At, OwnInv, NoStaleOutput, Alive, srvVars, sessVars,
         outVars
<1>ReadDisconnect. ASSUME ReadDisconnect PROVE OwnInv'
  BY <1>ReadDisconnect
     DEF ReadDisconnect, GoTo, Types, SrvType, SessType, OutType, PcInv, At,
         OwnInv, NoStaleOutput, Alive, srvVars, sessVars, outVars
<1>StopSeen. ASSUME StopSeen PROVE OwnInv'
  BY <1>StopSeen
     DEF StopSeen, GoTo, Types, SrvType, SessType, OutType, PcInv, At, OwnInv,
         NoStaleOutput, Alive, srvVars, sessVars, outVars
<1>ReadFatal. ASSUME ReadFatal PROVE OwnInv'
  BY <1>ReadFatal
     DEF ReadFatal, GoTo, Types, SrvType, SessType, OutType, PcInv, At, OwnInv,
         NoStaleOutput, Alive, srvVars, sessVars, outVars
<1>Shut. ASSUME Shut PROVE OwnInv'
  BY <1>Shut
     DEF Shut, Announce, Types, SrvType, SessType, OutType, PcInv, At, OwnInv,
         NoStaleOutput, Alive, srvVars, sessVars, outVars
<1>Hangup. ASSUME Hangup PROVE OwnInv'
  BY <1>Hangup
     DEF Hangup, Announce, GoTo, Types, SrvType, SessType, OutType, PcInv, At,
         OwnInv, NoStaleOutput, Alive, srvVars, sessVars, outVars
<1>SendClose. ASSUME SendClose PROVE OwnInv'
  BY <1>SendClose
     DEF SendClose, SentClose, NotSent, GoTo, Types, SrvType, SessType,
         OutType, PcInv, At, OwnInv, NoStaleOutput, Alive, srvVars, sessVars,
         outVars
<1>Join. ASSUME Join PROVE OwnInv'
  BY <1>Join
     DEF Join, Forget, GoTo, Return, Types, SrvType, SessType, OutType, PcInv,
         At, OwnInv, NoStaleOutput, Alive, srvVars, sessVars, outVars
<1>Clear. ASSUME Clear PROVE OwnInv'
  <2>1. CASE sessions = {}
    BY <1>Clear, <2>1 DEF Clear, GoTo, At, OwnInv, NoStaleOutput, Alive,
                          sessVars, outVars
  <2>2. CASE sessions # {}
    <3>1. PICK s \in sessions : sessions' = sessions \ {s}
                                /\ StartClosing(s, srv.why)
      BY <1>Clear, <2>2 DEF Clear
    <3>2. srv'.s = s /\ srv'.pc \in {"hangup", "shut"} /\ srv.pc = "clear"
      BY <1>Clear, <3>1 DEF Clear, StartClosing, GoTo, At
    <3> QED
      BY <1>Clear, <3>1, <3>2 DEF Clear, OwnInv, NoStaleOutput, Alive,
                                  sessVars, outVars
  <2> QED
    BY <2>1, <2>2
<1>RecvResponse. ASSUME NEW s \in Stream, RecvResponse(s) PROVE OwnInv'
  BY <1>RecvResponse
     DEF RecvResponse, Thread, Types, SrvType, SessType, OutType, PcInv, At,
         OwnInv, NoStaleOutput, Alive, srvVars, sessVars, outVars
<1>TakeCredit. ASSUME NEW s \in Stream, TakeCredit(s) PROVE OwnInv'
  BY <1>TakeCredit
     DEF TakeCredit, Thread, Ending, Types, SrvType, SessType, OutType, PcInv,
         At, OwnInv, NoStaleOutput, Alive, srvVars, sessVars, outVars
<1>ReadChunk. ASSUME NEW s \in Stream, ReadChunk(s) PROVE OwnInv'
  BY <1>ReadChunk
     DEF ReadChunk, Thread, Types, SrvType, SessType, OutType, PcInv, At,
         OwnInv, NoStaleOutput, Alive, srvVars, sessVars, outVars
<1>ReadFile. ASSUME NEW s \in Stream, ReadFile(s) PROVE OwnInv'
  BY <1>ReadFile
     DEF ReadFile, Thread, Types, SrvType, SessType, OutType, PcInv, At,
         OwnInv, NoStaleOutput, Alive, srvVars, sessVars, outVars
<1>ReadEof. ASSUME NEW s \in Stream, ReadEof(s) PROVE OwnInv'
  BY <1>ReadEof
     DEF ReadEof, Thread, Ending, Types, SrvType, SessType, OutType, PcInv, At,
         OwnInv, NoStaleOutput, Alive, srvVars, sessVars, outVars
<1>SendChunk. ASSUME NEW s \in Stream, SendChunk(s) PROVE OwnInv'
  BY <1>SendChunk
     DEF SendChunk, Thread, Ending, NotSent, Types, SrvType, SessType, OutType,
         PcInv, At, OwnInv, NoStaleOutput, Alive, srvVars, sessVars, outVars
<1>Reap. ASSUME NEW s \in Stream, Reap(s) PROVE OwnInv'
  BY <1>Reap
     DEF Reap, Thread, Types, SrvType, SessType, OutType, PcInv, At, OwnInv,
         NoStaleOutput, Alive, srvVars, sessVars, outVars
<1>EndOutput. ASSUME NEW s \in Stream, EndOutput(s) PROVE OwnInv'
  BY <1>EndOutput
     DEF EndOutput, Thread, Types, SrvType, SessType, OutType, PcInv, At,
         OwnInv, NoStaleOutput, Alive, srvVars, sessVars, outVars
<1>EndClose. ASSUME NEW s \in Stream, EndClose(s) PROVE OwnInv'
  BY <1>EndClose
     DEF EndClose, Thread, SentClose, NotSent, Types, SrvType, SessType,
         OutType, PcInv, At, OwnInv, NoStaleOutput, Alive, srvVars, sessVars,
         outVars
<1> QED
  BY <1>ReadConnect, <1>ReplyConnect, <1>ReadOpen, <1>Reject, <1>Opened,
     <1>ReadWrite, <1>AckSync, <1>SyncInput, <1>Store, <1>ChildInput,
     <1>InputFails, <1>ReadClose, <1>ReadDisconnect, <1>StopSeen, <1>ReadFatal,
     <1>Shut, <1>Hangup, <1>SendClose, <1>Join, <1>Clear, <1>RecvResponse,
     <1>TakeCredit, <1>ReadChunk, <1>ReadFile, <1>ReadEof, <1>SendChunk,
     <1>Reap, <1>EndOutput, <1>EndClose, <1>quiet
     DEF Next, Host, Handle, Closing, Output, Stopped, vars, HostGone,
         HostConnects, HostOpens, HostWrites, HostAcks, HostCloses, ReadOkay,
         GadgetStops, ChildExits, HolderExits, Reads, hostVars, srvVars,
         sessVars, outVars

-----------------------------------------------------------------------------
(* Who sends the CLSE.                                                     *)

\* Every step keeps CloseInv: only the caller that OutputFlow::close told it
\* was the first goes on to send a CLSE.
LEMMA CloseStep ==
  ASSUME Types, CloseInv, [Next]_vars
  PROVE  CloseInv'
<1>quiet. CASE UNCHANGED <<srv, closed, closes, thread>>
  BY <1>quiet DEF CloseInv, Owes
<1>ReadConnect. ASSUME ReadConnect PROVE CloseInv'
  BY <1>ReadConnect
     DEF ReadConnect, Reads, GoTo, Types, SrvType, OutType, PcInv, At,
         CloseInv, Owes, srvVars, outVars
<1>ReplyConnect. ASSUME ReplyConnect PROVE CloseInv'
  BY <1>ReplyConnect
     DEF ReplyConnect, NotSent, AfterFailedSend, GoTo, Return, Types, SrvType,
         OutType, PcInv, At, CloseInv, Owes, srvVars, outVars
<1>ReadOpen. ASSUME NEW s \in Stream, ReadOpen(s) PROVE CloseInv'
  <2>1. \/ UNCHANGED thread
        \/ \E t \in {"recv", "credit", "file"} : thread' = [thread EXCEPT ![s] = t]
    BY <1>ReadOpen DEF ReadOpen, outVars
  <2>2. UNCHANGED <<closed, closes>> /\ srv'.pc \in {"reject", "opening"}
    BY <1>ReadOpen DEF ReadOpen, Reads, GoTo, outVars
  <2> QED
    BY <2>1, <2>2 DEF Types, OutType, CloseInv, Owes
<1>Reject. ASSUME Reject PROVE CloseInv'
  BY <1>Reject
     DEF Reject, NotSent, AfterFailedSend, GoTo, Return, Types, SrvType,
         OutType, PcInv, At, CloseInv, Owes, srvVars, outVars
<1>Opened. ASSUME Opened PROVE CloseInv'
  BY <1>Opened
     DEF Opened, StartClosing, NotSent, GoTo, Return, Types, SrvType, OutType,
         PcInv, At, CloseInv, Owes, srvVars, outVars
<1>ReadWrite. ASSUME NEW s \in Stream, ReadWrite(s) PROVE CloseInv'
  BY <1>ReadWrite
     DEF ReadWrite, Reads, GoTo, Types, SrvType, OutType, PcInv, At, CloseInv,
         Owes, srvVars, outVars
<1>AckSync. ASSUME AckSync PROVE CloseInv'
  BY <1>AckSync
     DEF AckSync, Ack, NotSent, AfterFailedSend, GoTo, Return, Types, SrvType,
         OutType, PcInv, At, CloseInv, Owes, srvVars, outVars
<1>SyncInput. ASSUME SyncInput PROVE CloseInv'
  BY <1>SyncInput
     DEF SyncInput, Respond, GoTo, Return, Types, SrvType, OutType, PcInv, At,
         CloseInv, Owes, srvVars, outVars
<1>Store. ASSUME Store PROVE CloseInv'
  BY <1>Store
     DEF Store, Respond, GoTo, Return, Types, SrvType, OutType, PcInv, At,
         CloseInv, Owes, srvVars, outVars
<1>ChildInput. ASSUME ChildInput PROVE CloseInv'
  BY <1>ChildInput
     DEF ChildInput, Ack, NotSent, AfterFailedSend, GoTo, Return, Types,
         SrvType, OutType, PcInv, At, CloseInv, Owes, srvVars, outVars
<1>InputFails. ASSUME InputFails PROVE CloseInv'
  BY <1>InputFails
     DEF InputFails, StartClosing, GoTo, Types, SrvType, OutType, PcInv, At,
         CloseInv, Owes, srvVars, outVars
<1>ReadClose. ASSUME NEW s \in Stream, ReadClose(s) PROVE CloseInv'
  <2>1. UNCHANGED <<closed, closes, thread>>
    BY <1>ReadClose DEF ReadClose, Reads, outVars
  <2>2. UNCHANGED srv \/ (srv'.pc \in {"shut", "hangup"} /\ ~srv'.first)
    BY <1>ReadClose DEF ReadClose, StartClosing, GoTo
  <2> QED
    BY <2>1, <2>2 DEF CloseInv, Owes
<1>ReadDisconnect. ASSUME ReadDisconnect PROVE CloseInv'
  BY <1>ReadDisconnect
     DEF ReadDisconnect, GoTo, Types, SrvType, OutType, PcInv, At, CloseInv,
         Owes, srvVars, outVars
<1>StopSeen. ASSUME StopSeen PROVE CloseInv'
  BY <1>StopSeen
     DEF StopSeen, GoTo, Types, SrvType, OutType, PcInv, At, CloseInv, Owes,
         srvVars, outVars
<1>ReadFatal. ASSUME ReadFatal PROVE CloseInv'
  BY <1>ReadFatal
     DEF ReadFatal, GoTo, Types, SrvType, OutType, PcInv, At, CloseInv, Owes,
         srvVars, outVars
<1>Shut. ASSUME Shut PROVE CloseInv'
  BY <1>Shut
     DEF Shut, Announce, Types, SrvType, OutType, PcInv, At, CloseInv, Owes,
         srvVars, outVars
<1>Hangup. ASSUME Hangup PROVE CloseInv'
  BY <1>Hangup
     DEF Hangup, Announce, GoTo, Types, SrvType, OutType, PcInv, At, CloseInv,
         Owes, srvVars, outVars
<1>SendClose. ASSUME SendClose PROVE CloseInv'
  BY <1>SendClose
     DEF SendClose, SentClose, NotSent, GoTo, Types, SrvType, OutType, PcInv,
         At, CloseInv, Owes, srvVars, outVars
<1>Join. ASSUME Join PROVE CloseInv'
  BY <1>Join
     DEF Join, Forget, GoTo, Return, Types, SrvType, OutType, PcInv, At,
         CloseInv, Owes, srvVars, outVars
<1>Clear. ASSUME Clear PROVE CloseInv'
  BY <1>Clear
     DEF Clear, StartClosing, GoTo, Types, SrvType, OutType, PcInv, At,
         CloseInv, Owes, srvVars, outVars
<1>RecvResponse. ASSUME NEW s \in Stream, RecvResponse(s) PROVE CloseInv'
  BY <1>RecvResponse
     DEF RecvResponse, Thread, Types, SrvType, OutType, PcInv, At, CloseInv,
         Owes, srvVars, outVars
<1>TakeCredit. ASSUME NEW s \in Stream, TakeCredit(s) PROVE CloseInv'
  <2>1. UNCHANGED <<closed, closes, srv>>
    BY <1>TakeCredit DEF TakeCredit, srvVars
  <2>2. /\ thread[s] # "clse"
        /\ \E t \in ThreadState \ {"clse"} : thread' = [thread EXCEPT ![s] = t]
    BY <1>TakeCredit DEF TakeCredit, Thread, Ending, ThreadState
  <2> QED
    BY <2>1, <2>2 DEF Types, OutType, CloseInv, Owes
<1>ReadChunk. ASSUME NEW s \in Stream, ReadChunk(s) PROVE CloseInv'
  BY <1>ReadChunk
     DEF ReadChunk, Thread, Types, SrvType, OutType, PcInv, At, CloseInv, Owes,
         srvVars, outVars
<1>ReadFile. ASSUME NEW s \in Stream, ReadFile(s) PROVE CloseInv'
  BY <1>ReadFile
     DEF ReadFile, Thread, Types, SrvType, OutType, PcInv, At, CloseInv, Owes,
         srvVars, outVars
<1>ReadEof. ASSUME NEW s \in Stream, ReadEof(s) PROVE CloseInv'
  BY <1>ReadEof
     DEF ReadEof, Thread, Ending, Types, SrvType, OutType, PcInv, At, CloseInv,
         Owes, srvVars, outVars
<1>SendChunk. ASSUME NEW s \in Stream, SendChunk(s) PROVE CloseInv'
  <2>1. UNCHANGED <<closed, closes, srv>>
    BY <1>SendChunk DEF SendChunk, srvVars
  <2>2. /\ thread[s] # "clse"
        /\ \E t \in ThreadState \ {"clse"} : thread' = [thread EXCEPT ![s] = t]
    BY <1>SendChunk DEF SendChunk, Thread, Ending, ThreadState
  <2> QED
    BY <2>1, <2>2 DEF Types, OutType, CloseInv, Owes
<1>Reap. ASSUME NEW s \in Stream, Reap(s) PROVE CloseInv'
  BY <1>Reap
     DEF Reap, Thread, Types, SrvType, OutType, PcInv, At, CloseInv, Owes,
         srvVars, outVars
<1>EndOutput. ASSUME NEW s \in Stream, EndOutput(s) PROVE CloseInv'
  BY <1>EndOutput
     DEF EndOutput, Thread, Types, SrvType, OutType, PcInv, At, CloseInv, Owes,
         srvVars, outVars
<1>EndClose. ASSUME NEW s \in Stream, EndClose(s) PROVE CloseInv'
  BY <1>EndClose
     DEF EndClose, Thread, SentClose, NotSent, Types, SrvType, OutType, PcInv,
         At, CloseInv, Owes, srvVars, outVars
<1> QED
  BY <1>ReadConnect, <1>ReplyConnect, <1>ReadOpen, <1>Reject, <1>Opened,
     <1>ReadWrite, <1>AckSync, <1>SyncInput, <1>Store, <1>ChildInput,
     <1>InputFails, <1>ReadClose, <1>ReadDisconnect, <1>StopSeen, <1>ReadFatal,
     <1>Shut, <1>Hangup, <1>SendClose, <1>Join, <1>Clear, <1>RecvResponse,
     <1>TakeCredit, <1>ReadChunk, <1>ReadFile, <1>ReadEof, <1>SendChunk,
     <1>Reap, <1>EndOutput, <1>EndClose, <1>quiet
     DEF Next, Host, Handle, Closing, Output, Stopped, vars, HostGone,
         HostConnects, HostOpens, HostWrites, HostAcks, HostCloses, ReadOkay,
         GadgetStops, ChildExits, HolderExits, Reads, hostVars, srvVars,
         sessVars, outVars

-----------------------------------------------------------------------------
(* Nothing is said before the OKAY of the open.                            *)

\* What a packet to the host changes on its side.
LEMMA SentHost ==
  ASSUME Types, NEW s \in Stream, NEW cmd \in {"OKAY", "WRTE", "CLSE"},
         Sent(cmd, s)
  PROVE  /\ \A x \in Stream : host'[x] \in {"unused", "opening"} =>
              host'[x] = host[x]
         /\ \A x \in Stream : host'[x] = "unused" => host[x] = "unused"
         /\ cmd = "OKAY" => host'[s] # "opening"
         /\ inq' = inq
<1>1. CASE cmd = "OKAY"
  BY <1>1 DEF Types, HostType, Sent
<1>2. CASE cmd = "WRTE"
  BY <1>2 DEF Types, HostType, Sent
<1>3. CASE cmd = "CLSE"
  <2>1. host' = [host EXCEPT ![s] = IF @ \in {"opening", "open"}
                                      THEN "peer_closed" ELSE @]
        /\ inq' = inq
    BY <1>3 DEF Sent
  <2>2. ASSUME NEW x \in Stream
        PROVE  host'[x] = host[x] \/ host'[x] = "peer_closed"
    BY <2>1 DEF Types, HostType
  <2> QED
    BY <1>3, <2>1, <2>2
<1> QED
  BY <1>1, <1>2, <1>3

\* A failed send changes nothing on the host's side.
LEMMA HostSame ==
  ASSUME NotSent PROVE UNCHANGED <<host, inq>>
  BY DEF NotSent, hostVars

\* The ways a queue changes keep QueueInv, as the host forgets no opening.
LEMMA QueueChange ==
  ASSUME Types, QueueInv,
         \A x \in Stream : host'[x] = "unused" => host[x] = "unused",
         \/ inq' \in {inq, <<>>, Append(inq, Connect)}
         \/ inq # <<>> /\ inq' = Tail(inq)
         \/ \E cmd \in Command, s \in Stream :
              /\ inq' = Append(inq, [cmd |-> cmd, s |-> s])
              /\ host'[s] # "unused"
  PROVE  QueueInv'
<1> DEFINE Q == Packet \union {Connect}
<1>1. inq \in Seq(Q)
  BY DEF Types, HostType
<1>2. \A e \in Q : e # Connect => e.s \in Stream
  BY DEF Packet
<1>3. ASSUME NEW i \in 1..Len(inq), inq[i] # Connect
      PROVE  host'[inq[i].s] # "unused"
  BY <1>1, <1>2, <1>3 DEF QueueInv
<1>4. CASE inq' = inq \/ inq' = <<>>
  BY <1>3, <1>4 DEF QueueInv
<1>5. CASE inq' = Append(inq, Connect)
  BY <1>1, <1>3, <1>5 DEF QueueInv
<1>6. CASE inq # <<>> /\ inq' = Tail(inq)
  <2>1. \A i \in 1..Len(Tail(inq)) :
          i + 1 \in 1..Len(inq) /\ Tail(inq)[i] = inq[i + 1]
    BY <1>1, <1>6
  <2> QED
    BY <1>3, <1>6, <2>1 DEF QueueInv
<1>7. ASSUME NEW cmd \in Command, NEW s \in Stream, host'[s] # "unused",
             inq' = Append(inq, [cmd |-> cmd, s |-> s])
      PROVE  QueueInv'
  <2>1. [cmd |-> cmd, s |-> s].s = s
    OBVIOUS
  <2>2. \A i \in 1..Len(inq') : \/ i \in 1..Len(inq) /\ inq'[i] = inq[i]
                                \/ inq'[i] = [cmd |-> cmd, s |-> s]
    BY <1>1, <1>7
  <2> QED
    BY <1>3, <1>7, <2>1, <2>2 DEF QueueInv
<1> QED
  BY <1>4, <1>5, <1>6, <1>7

\* Every step keeps QueueInv: the host writes only to streams it opened.
LEMMA QueueStep ==
  ASSUME Types, QueueInv, [Next]_vars
  PROVE  QueueInv'
<1>quiet. CASE UNCHANGED <<host, inq>>
  BY <1>quiet DEF QueueInv
<1>HostGone. ASSUME HostGone PROVE QueueInv'
  BY <1>HostGone, QueueChange DEF HostGone, Forgotten, Types, HostType, Command
<1>HostConnects. ASSUME HostConnects PROVE QueueInv'
  BY <1>HostConnects, QueueChange
     DEF HostConnects, Forgotten, Types, HostType, Command
<1>HostOpens. ASSUME NEW s \in Stream, HostOpens(s) PROVE QueueInv'
  BY <1>HostOpens, QueueChange
     DEF HostOpens, HostSends, Types, HostType, Command
<1>HostWrites. ASSUME NEW s \in Stream, HostWrites(s) PROVE QueueInv'
  BY <1>HostWrites, QueueChange
     DEF HostWrites, HostSends, Types, HostType, Command
<1>HostAcks. ASSUME NEW s \in Stream, HostAcks(s) PROVE QueueInv'
  BY <1>HostAcks, QueueChange DEF HostAcks, HostSends, Types, HostType, Command
<1>HostCloses. ASSUME NEW s \in Stream, HostCloses(s) PROVE QueueInv'
  BY <1>HostCloses, QueueChange
     DEF HostCloses, HostSends, Types, HostType, Command
<1>ReadConnect. ASSUME ReadConnect PROVE QueueInv'
  BY <1>ReadConnect, QueueChange
     DEF ReadConnect, Reads, Types, HostType, Command
<1>ReadOpen. ASSUME NEW s \in Stream, ReadOpen(s) PROVE QueueInv'
  BY <1>ReadOpen, QueueChange DEF ReadOpen, Reads, Types, HostType, Command
<1>Reject. ASSUME Reject PROVE QueueInv'
  BY <1>Reject, QueueChange, SentHost, HostSame
     DEF Reject, NotSent, Types, SrvType, PcInv, At
<1>Opened. ASSUME Opened PROVE QueueInv'
  BY <1>Opened, QueueChange, SentHost, HostSame
     DEF Opened, NotSent, Types, SrvType, PcInv, At
<1>ReadWrite. ASSUME NEW s \in Stream, ReadWrite(s) PROVE QueueInv'
  BY <1>ReadWrite, QueueChange DEF ReadWrite, Reads, Types, HostType, Command
<1>AckSync. ASSUME AckSync PROVE QueueInv'
  BY <1>AckSync, QueueChange, SentHost, HostSame
     DEF AckSync, NotSent, Ack, Types, SrvType, PcInv, At
<1>ChildInput. ASSUME ChildInput PROVE QueueInv'
  BY <1>ChildInput, QueueChange, SentHost, HostSame
     DEF ChildInput, NotSent, Ack, Types, SrvType, PcInv, At
<1>ReadOkay. ASSUME NEW s \in Stream, ReadOkay(s) PROVE QueueInv'
  BY <1>ReadOkay, QueueChange DEF ReadOkay, Reads, Types, HostType, Command
<1>ReadClose. ASSUME NEW s \in Stream, ReadClose(s) PROVE QueueInv'
  BY <1>ReadClose, QueueChange DEF ReadClose, Reads, Types, HostType, Command
<1>SendClose. ASSUME SendClose PROVE QueueInv'
  BY <1>SendClose, QueueChange, SentHost, HostSame
     DEF SendClose, SentClose, NotSent, Types, SrvType, PcInv, At
<1>SendChunk. ASSUME NEW s \in Stream, SendChunk(s) PROVE QueueInv'
  BY <1>SendChunk, QueueChange, SentHost, HostSame
     DEF SendChunk, NotSent, Types, SrvType, PcInv, At
<1>EndClose. ASSUME NEW s \in Stream, EndClose(s) PROVE QueueInv'
  BY <1>EndClose, QueueChange, SentHost, HostSame
     DEF EndClose, SentClose, NotSent, Types, SrvType, PcInv, At
<1> QED
  BY <1>HostGone, <1>HostConnects, <1>HostOpens, <1>HostWrites, <1>HostAcks,
     <1>HostCloses, <1>ReadConnect, <1>ReadOpen, <1>Reject, <1>Opened,
     <1>ReadWrite, <1>AckSync, <1>ChildInput, <1>ReadOkay, <1>ReadClose,
     <1>SendClose, <1>SendChunk, <1>EndClose, <1>quiet
     DEF Next, Host, Handle, Closing, Output, Stopped, vars, ReplyConnect,
         SyncInput, Store, InputFails, ReadDisconnect, StopSeen, ReadFatal,
         GadgetStops, Shut, Hangup, Join, Clear, RecvResponse, TakeCredit,
         ReadChunk, ReadFile, ReadEof, Reap, EndOutput, ChildExits, HolderExits,
         hostVars, srvVars, sessVars, outVars, Reads

\* A packet the server reads concerns a stream the host has opened.
LEMMA ReadsKnown ==
  ASSUME Types, QueueInv, NEW cmd \in Command, NEW s \in Stream,
         Reads([cmd |-> cmd, s |-> s])
  PROVE  host[s] # "unused"
<1> DEFINE e == [cmd |-> cmd, s |-> s]
<1>1. e # Connect
  <2>1. DOMAIN e = {"cmd", "s"} /\ DOMAIN Connect = {"cmd"}
    BY DEF Connect
  <2> QED
    BY <2>1
<1>2. inq \in Seq(Packet \union {Connect}) /\ inq # <<>> /\ Head(inq) = e
  BY DEF Reads, Types, HostType
<1>3. 1 \in 1..Len(inq) /\ inq[1] = e
  BY <1>2
<1>4. e.s = s
  OBVIOUS
<1> QED
  BY <1>1, <1>3, <1>4 DEF QueueInv

\* Every step keeps OpenInv: handle_open allows the first write, and inserts
\* the session, only after the OKAY was sent.
LEMMA OpenStep ==
  ASSUME Types, OpenInv, QueueInv, [Next]_vars
  PROVE  OpenInv'
<1>quiet. CASE UNCHANGED <<host, srv, sessions, can_write, closed, thread>>
  BY <1>quiet DEF OpenInv
<1>HostGone. ASSUME HostGone PROVE OpenInv'
  BY <1>HostGone
     DEF HostGone, Forgotten, Types, HostType, SrvType, PcInv, OutType,
         OpenInv, At, hostVars, srvVars, outVars
<1>HostConnects. ASSUME HostConnects PROVE OpenInv'
  BY <1>HostConnects
     DEF HostConnects, Forgotten, Types, HostType, SrvType, PcInv, OutType,
         OpenInv, At, hostVars, srvVars, outVars
<1>HostOpens. ASSUME NEW s \in Stream, HostOpens(s) PROVE OpenInv'
  BY <1>HostOpens
     DEF HostOpens, Types, HostType, SrvType, PcInv, OutType, OpenInv, At,
         hostVars, srvVars, outVars
<1>HostCloses. ASSUME NEW s \in Stream, HostCloses(s) PROVE OpenInv'
  BY <1>HostCloses
     DEF HostCloses, Types, HostType, SrvType, PcInv, OutType, OpenInv, At,
         hostVars, srvVars, outVars
<1>ReadConnect. ASSUME ReadConnect PROVE OpenInv'
  BY <1>ReadConnect
     DEF ReadConnect, Reads, GoTo, Types, HostType, SrvType, PcInv, OutType,
         OpenInv, At, hostVars, srvVars, outVars
<1>ReplyConnect. ASSUME ReplyConnect PROVE OpenInv'
  BY <1>ReplyConnect
     DEF ReplyConnect, NotSent, AfterFailedSend, GoTo, Return, Types, HostType,
         SrvType, PcInv, OutType, OpenInv, At, hostVars, srvVars, outVars
<1>ReadOpen. ASSUME NEW s \in Stream, ReadOpen(s) PROVE OpenInv'
  <2>1. host[s] # "unused"
    BY <1>ReadOpen, ReadsKnown DEF ReadOpen, Types, Command
  <2>2. /\ srv'.pc \in {"reject", "opening"} /\ srv'.s = s
        /\ UNCHANGED <<host, sessions, can_write, closed>>
        /\ \/ UNCHANGED thread
           \/ \E t \in {"recv", "credit", "file"} : thread' = [thread EXCEPT ![s] = t]
    BY <1>ReadOpen DEF ReadOpen, Reads, GoTo, outVars
  <2> QED
    BY <2>1, <2>2 DEF OpenInv, Types, OutType
<1>Reject. ASSUME Reject PROVE OpenInv'
  BY <1>Reject, SentHost
     DEF Reject, NotSent, AfterFailedSend, GoTo, Return, Types, HostType,
         SrvType, PcInv, OutType, OpenInv, At, hostVars, srvVars, outVars
<1>Opened. ASSUME Opened PROVE OpenInv'
  BY <1>Opened, SentHost
     DEF Opened, StartClosing, NotSent, GoTo, Return, Types, HostType, SrvType,
         PcInv, OutType, OpenInv, At, hostVars, srvVars, outVars
<1>ReadWrite. ASSUME NEW s \in Stream, ReadWrite(s) PROVE OpenInv'
  <2>1. host[s] # "unused"
    BY <1>ReadWrite, ReadsKnown DEF ReadWrite, Types, Command
  <2>2. /\ srv'.s = s /\ srv'.pc \in {"reject", "ack", "input", "store"}
        /\ srv'.pc \in {"ack", "input", "store"} => s \in sessions
        /\ UNCHANGED <<host, sessions, can_write, closed, thread>>
    BY <1>ReadWrite DEF ReadWrite, Reads, GoTo, outVars
  <2> QED
    BY <2>1, <2>2 DEF OpenInv, Types, OutType
<1>AckSync. ASSUME AckSync PROVE OpenInv'
  BY <1>AckSync, SentHost
     DEF AckSync, Ack, NotSent, AfterFailedSend, GoTo, Return, Types, HostType,
         SrvType, PcInv, OutType, OpenInv, At, hostVars, srvVars, outVars
<1>SyncInput. ASSUME SyncInput PROVE OpenInv'
  BY <1>SyncInput
     DEF SyncInput, Respond, GoTo, Return, Types, HostType, SrvType, PcInv,
         OutType, OpenInv, At, hostVars, srvVars, outVars
<1>Store. ASSUME Store PROVE OpenInv'
  BY <1>Store
     DEF Store, Respond, GoTo, Return, Types, HostType, SrvType, PcInv, OutType,
         OpenInv, At, hostVars, srvVars, outVars
<1>ChildInput. ASSUME ChildInput PROVE OpenInv'
  BY <1>ChildInput, SentHost
     DEF ChildInput, Ack, NotSent, AfterFailedSend, GoTo, Return, Types,
         HostType, SrvType, PcInv, OutType, OpenInv, At, hostVars, srvVars,
         outVars
<1>InputFails. ASSUME InputFails PROVE OpenInv'
  BY <1>InputFails
     DEF InputFails, StartClosing, GoTo, Types, HostType, SrvType, PcInv,
         OutType, OpenInv, At, hostVars, srvVars, outVars
<1>ReadOkay. ASSUME NEW s \in Stream, ReadOkay(s) PROVE OpenInv'
  BY <1>ReadOkay
     DEF ReadOkay, Reads, Types, HostType, SrvType, PcInv, OutType, OpenInv,
         At, hostVars, srvVars, outVars
<1>ReadClose. ASSUME NEW s \in Stream, ReadClose(s) PROVE OpenInv'
  BY <1>ReadClose
     DEF ReadClose, Reads, StartClosing, GoTo, Types, HostType, SrvType, PcInv,
         OutType, OpenInv, At, hostVars, srvVars, outVars
<1>ReadDisconnect. ASSUME ReadDisconnect PROVE OpenInv'
  BY <1>ReadDisconnect
     DEF ReadDisconnect, GoTo, Types, HostType, SrvType, PcInv, OutType,
         OpenInv, At, hostVars, srvVars, outVars
<1>StopSeen. ASSUME StopSeen PROVE OpenInv'
  BY <1>StopSeen
     DEF StopSeen, GoTo, Types, HostType, SrvType, PcInv, OutType, OpenInv, At,
         hostVars, srvVars, outVars
<1>ReadFatal. ASSUME ReadFatal PROVE OpenInv'
  BY <1>ReadFatal
     DEF ReadFatal, GoTo, Types, HostType, SrvType, PcInv, OutType, OpenInv,
         At, hostVars, srvVars, outVars
<1>Shut. ASSUME Shut PROVE OpenInv'
  BY <1>Shut
     DEF Shut, Announce, Types, HostType, SrvType, PcInv, OutType, OpenInv, At,
         hostVars, srvVars, outVars
<1>Hangup. ASSUME Hangup PROVE OpenInv'
  BY <1>Hangup
     DEF Hangup, Announce, GoTo, Types, HostType, SrvType, PcInv, OutType,
         OpenInv, At, hostVars, srvVars, outVars
<1>SendClose. ASSUME SendClose PROVE OpenInv'
  BY <1>SendClose, SentHost
     DEF SendClose, SentClose, NotSent, GoTo, Types, HostType, SrvType, PcInv,
         OutType, OpenInv, At, hostVars, srvVars, outVars
<1>Join. ASSUME Join PROVE OpenInv'
  BY <1>Join
     DEF Join, Forget, GoTo, Return, Types, HostType, SrvType, PcInv, OutType,
         OpenInv, At, hostVars, srvVars, outVars
<1>Clear. ASSUME Clear PROVE OpenInv'
  BY <1>Clear
     DEF Clear, StartClosing, GoTo, Types, HostType, SrvType, PcInv, OutType,
         OpenInv, At, hostVars, srvVars, outVars
<1>RecvResponse. ASSUME NEW s \in Stream, RecvResponse(s) PROVE OpenInv'
  BY <1>RecvResponse
     DEF RecvResponse, Thread, Types, HostType, SrvType, PcInv, OutType,
         OpenInv, At, hostVars, srvVars, outVars
<1>TakeCredit. ASSUME NEW s \in Stream, TakeCredit(s) PROVE OpenInv'
  BY <1>TakeCredit
     DEF TakeCredit, Thread, Ending, Types, HostType, SrvType, PcInv, OutType,
         OpenInv, At, hostVars, srvVars, outVars
<1>ReadChunk. ASSUME NEW s \in Stream, ReadChunk(s) PROVE OpenInv'
  BY <1>ReadChunk
     DEF ReadChunk, Thread, Types, HostType, SrvType, PcInv, OutType, OpenInv,
         At, hostVars, srvVars, outVars
<1>ReadFile. ASSUME NEW s \in Stream, ReadFile(s) PROVE OpenInv'
  BY <1>ReadFile
     DEF ReadFile, Thread, Types, HostType, SrvType, PcInv, OutType, OpenInv,
         At, hostVars, srvVars, outVars
<1>ReadEof. ASSUME NEW s \in Stream, ReadEof(s) PROVE OpenInv'
  BY <1>ReadEof
     DEF ReadEof, Thread, Ending, Types, HostType, SrvType, PcInv, OutType,
         OpenInv, At, hostVars, srvVars, outVars
<1>SendChunk. ASSUME NEW s \in Stream, SendChunk(s) PROVE OpenInv'
  BY <1>SendChunk, SentHost, SMTT(30)
     DEF SendChunk, Thread, Ending, NotSent, Types, HostType, SrvType, PcInv,
         OutType, OpenInv, At, hostVars, srvVars, outVars
<1>Reap. ASSUME NEW s \in Stream, Reap(s) PROVE OpenInv'
  BY <1>Reap
     DEF Reap, Thread, Types, HostType, SrvType, PcInv, OutType, OpenInv, At,
         hostVars, srvVars, outVars
<1>EndOutput. ASSUME NEW s \in Stream, EndOutput(s) PROVE OpenInv'
  BY <1>EndOutput
     DEF EndOutput, Thread, Types, HostType, SrvType, PcInv, OutType, OpenInv,
         At, hostVars, srvVars, outVars
<1>EndClose. ASSUME NEW s \in Stream, EndClose(s) PROVE OpenInv'
  BY <1>EndClose, SentHost
     DEF EndClose, Thread, SentClose, NotSent, Types, HostType, SrvType, PcInv,
         OutType, OpenInv, At, hostVars, srvVars, outVars
<1> QED
  BY <1>HostGone, <1>HostConnects, <1>HostOpens, <1>HostCloses, <1>ReadConnect,
     <1>ReplyConnect, <1>ReadOpen, <1>Reject, <1>Opened, <1>ReadWrite,
     <1>AckSync, <1>SyncInput, <1>Store, <1>ChildInput, <1>InputFails,
     <1>ReadOkay, <1>ReadClose, <1>ReadDisconnect, <1>StopSeen, <1>ReadFatal,
     <1>Shut, <1>Hangup, <1>SendClose, <1>Join, <1>Clear, <1>RecvResponse,
     <1>TakeCredit, <1>ReadChunk, <1>ReadFile, <1>ReadEof, <1>SendChunk,
     <1>Reap, <1>EndOutput, <1>EndClose, <1>quiet
     DEF Next, Host, Handle, Closing, Output, Stopped, vars, HostWrites,
         HostAcks, GadgetStops, ChildExits, HolderExits, hostVars, srvVars,
         sessVars, outVars, Reads

-----------------------------------------------------------------------------
(* One credit per stream.                                                  *)

\* Packet e is in queue q; it is there once at most.
InQ(q, e)  == \E i \in 1..Len(q) : q[i] = e
Once(q, e) == \A i, j \in 1..Len(q) : q[i] = e /\ q[j] = e => i = j

OkayOf(s) == [cmd |-> "OKAY", s |-> s]
OpenOf(s) == [cmd |-> "OPEN", s |-> s]

\* The stream has not been opened by the device yet.
Fresh(s) ==
    \/ host[s] \in {"unused", "opening"} \/ InQ(inq, OpenOf(s))
    \/ srv.pc = "opening" /\ srv.s = s

\* The credit of stream s is in one place at most, and in none before the
\* stream is open; it is opened once.
CreditAt(s) ==
    /\ to_ack[s] <= 1
    /\ Once(inq, OkayOf(s)) /\ Once(inq, OpenOf(s))
    /\ s \in can_write => /\ thread[s] \notin {"read", "send"} /\ to_ack[s] = 0
                          /\ ~InQ(inq, OkayOf(s))
    /\ thread[s] \in {"read", "send"} => to_ack[s] = 0 /\ ~InQ(inq, OkayOf(s))
    /\ to_ack[s] = 1 => ~InQ(inq, OkayOf(s))
    /\ Fresh(s) => /\ s \notin can_write /\ thread[s] \notin {"read", "send"}
                   /\ to_ack[s] = 0 /\ ~InQ(inq, OkayOf(s))
    /\ srv.pc = "opening" /\ srv.s = s => ~InQ(inq, OpenOf(s))

CreditInv == \A s \in Stream : CreditAt(s)

\* A step that gives stream s no credit, and does not open it.
Calm(s) ==
    /\ s \in can_write' => s \in can_write
    /\ thread'[s] \in {"read", "send"} => thread[s] \in {"read", "send"}
    /\ to_ack'[s] \in {0, to_ack[s]}
    /\ host'[s] \in {"unused", "opening"} => host[s] \in {"unused", "opening"}
    /\ srv'.pc = "opening" /\ srv'.s = s => srv.pc = "opening" /\ srv.s = s
    /\ Once(inq', OkayOf(s)) /\ Once(inq', OpenOf(s))
    /\ InQ(inq', OkayOf(s)) => InQ(inq, OkayOf(s))
    /\ InQ(inq', OpenOf(s)) => InQ(inq, OpenOf(s))

\* Such a step keeps the credit where it is, or loses it.
LEMMA CalmKeeps ==
  ASSUME Types, NEW s \in Stream, CreditAt(s), Calm(s)
  PROVE  CreditAt(s)'
<1>1. to_ack[s] \in Nat
  BY DEF Types, HostType
<1>2. Fresh(s)' => Fresh(s)
  BY DEF Calm, Fresh
<1> QED
  BY <1>1, <1>2 DEF Calm, CreditAt

\* Packets of different streams, or with different commands, differ.
LEMMA PacketsDiffer ==
  ASSUME NEW s \in Stream, NEW t \in Stream, NEW cmd \in Command
  PROVE  /\ [cmd |-> cmd, s |-> t] = OkayOf(s) <=> cmd = "OKAY" /\ t = s
         /\ [cmd |-> cmd, s |-> t] = OpenOf(s) <=> cmd = "OPEN" /\ t = s
         /\ Connect # OkayOf(s) /\ Connect # OpenOf(s)
         /\ [cmd |-> cmd, s |-> t] \in Packet
<1>1. [cmd |-> cmd, s |-> t].cmd = cmd /\ [cmd |-> cmd, s |-> t].s = t
  OBVIOUS
<1>2. OkayOf(s).cmd = "OKAY" /\ OkayOf(s).s = s /\ OpenOf(s).cmd = "OPEN" /\ OpenOf(s).s = s
  BY DEF OkayOf, OpenOf
<1>3. Connect.cmd = "CNXN"
  BY DEF Connect
<1>4. [cmd |-> cmd, s |-> t] \in Packet
  BY DEF Packet
<1>5. cmd = "OKAY" /\ t = s => [cmd |-> cmd, s |-> t] = OkayOf(s)
  BY DEF OkayOf
<1>6. cmd = "OPEN" /\ t = s => [cmd |-> cmd, s |-> t] = OpenOf(s)
  BY DEF OpenOf
<1> QED
  BY <1>1, <1>2, <1>3, <1>4, <1>5, <1>6

\* What a packet put at the end of the queue changes.
LEMMA QueueAppend ==
  ASSUME Types, NEW x \in Packet \union {Connect}, NEW e, Once(inq, e)
  PROVE  /\ InQ(Append(inq, x), e) => InQ(inq, e) \/ x = e
         /\ x # e \/ ~InQ(inq, e) => Once(Append(inq, x), e)
<1>1. inq \in Seq(Packet \union {Connect})
  BY DEF Types, HostType
<1>2. \A i \in 1..Len(Append(inq, x)) : \/ i \in 1..Len(inq) /\ Append(inq, x)[i] = inq[i]
                                        \/ i = Len(inq) + 1 /\ Append(inq, x)[i] = x
  BY <1>1
<1> QED
  BY <1>2 DEF InQ, Once

\* What taking a packet from its head changes.
LEMMA QueueTail ==
  ASSUME Types, inq # <<>>, NEW e, Once(inq, e)
  PROVE  /\ InQ(Tail(inq), e) => InQ(inq, e)
         /\ Once(Tail(inq), e)
         /\ Head(inq) = e => InQ(inq, e) /\ ~InQ(Tail(inq), e)
<1>1. inq \in Seq(Packet \union {Connect})
  BY DEF Types, HostType
<1>2. /\ \A i \in 1..Len(Tail(inq)) : i \in Nat /\ i + 1 \in 1..Len(inq) /\ Tail(inq)[i] = inq[i + 1]
      /\ 1 \in 1..Len(inq) /\ Head(inq) = inq[1]
  BY <1>1
<1>3. InQ(Tail(inq), e) => InQ(inq, e)
  BY <1>2 DEF InQ
<1>4. Once(Tail(inq), e)
  BY <1>2 DEF Once
<1>5. Head(inq) = e => InQ(inq, e) /\ ~InQ(Tail(inq), e)
  BY <1>2 DEF InQ, Once
<1> QED
  BY <1>3, <1>4, <1>5

\* The ways a queue changes without a new OKAY or OPEN for stream s.
LEMMA QueueCalm ==
  ASSUME Types, NEW s \in Stream, CreditAt(s),
         \/ inq' \in {inq, <<>>, Append(inq, Connect)}
         \/ inq # <<>> /\ inq' = Tail(inq)
         \/ \E cmd \in Command, t \in Stream :
              /\ inq' = Append(inq, [cmd |-> cmd, s |-> t])
              /\ t # s \/ cmd \notin {"OKAY", "OPEN"}
  PROVE  /\ Once(inq', OkayOf(s)) /\ Once(inq', OpenOf(s))
         /\ InQ(inq', OkayOf(s)) => InQ(inq, OkayOf(s))
         /\ InQ(inq', OpenOf(s)) => InQ(inq, OpenOf(s))
<1>1. Once(inq, OkayOf(s)) /\ Once(inq, OpenOf(s))
  BY DEF CreditAt
<1>2. CASE inq' = inq
  BY <1>1, <1>2
<1>3. CASE inq' = <<>>
  BY <1>3 DEF Once, InQ
<1>4. CASE inq' = Append(inq, Connect)
  <2>1. "OKAY" \in Command
    BY DEF Command
  <2>2. Connect # OkayOf(s) /\ Connect # OpenOf(s)
    BY <2>1, PacketsDiffer
  <2> HIDE DEF Connect
  <2> QED
    BY <1>1, <1>4, <2>2, QueueAppend
<1>5. CASE inq # <<>> /\ inq' = Tail(inq)
  BY <1>1, <1>5, QueueTail
<1>6. ASSUME NEW cmd \in Command, NEW t \in Stream, t # s \/ cmd \notin {"OKAY", "OPEN"},
             inq' = Append(inq, [cmd |-> cmd, s |-> t])
      PROVE  /\ Once(inq', OkayOf(s)) /\ Once(inq', OpenOf(s))
             /\ InQ(inq', OkayOf(s)) => InQ(inq, OkayOf(s))
             /\ InQ(inq', OpenOf(s)) => InQ(inq, OpenOf(s))
  <2> DEFINE x == [cmd |-> cmd, s |-> t]
  <2>1. x \in Packet \union {Connect} /\ x # OkayOf(s) /\ x # OpenOf(s)
    BY <1>6, PacketsDiffer
  <2> HIDE DEF x
  <2>2. inq' = Append(inq, x)
    BY <1>6 DEF x
  <2> QED
    BY <1>1, <2>1, <2>2, QueueAppend
<1> QED
  BY <1>2, <1>3, <1>4, <1>5, <1>6

\* A packet to the host gives no credit back, except a WRTE its duty to.
LEMMA SentCalm ==
  ASSUME Types, NEW t \in Stream, NEW cmd \in {"OKAY", "WRTE", "CLSE"}, Sent(cmd, t),
         NEW s \in Stream
  PROVE  /\ inq' = inq
         /\ host'[s] \in {"unused", "opening"} => host[s] \in {"unused", "opening"}
         /\ to_ack'[s] \in {0, to_ack[s]} \/ (cmd = "WRTE" /\ s = t /\ to_ack'[s] = to_ack[s] + 1)
<1>1. inq' = inq /\ (host'[s] \in {"unused", "opening"} => host[s] \in {"unused", "opening"})
  BY SentHost
<1>2. to_ack \in [Stream -> Nat]
  BY DEF Types, HostType
<1>3. CASE cmd = "OKAY"
  BY <1>1, <1>3 DEF Sent
<1>4. CASE cmd = "WRTE"
  BY <1>1, <1>2, <1>4 DEF Sent
<1>5. CASE cmd = "CLSE"
  BY <1>1, <1>2, <1>5 DEF Sent
<1> QED
  BY <1>3, <1>4, <1>5

\* Every step keeps the credit of a stream in one place: it is created with
\* the OKAY of the open, and moves with wait_for_write_credit, the WRTE, the
\* host's OKAY and allow_one_write.
LEMMA CreditStep ==
  ASSUME Types, OpenInv, QueueInv, CreditInv, [Next]_vars
  PROVE  CreditInv'
<1> SUFFICES ASSUME NEW s \in Stream PROVE CreditAt(s)'
  BY DEF CreditInv
<1>0. /\ CreditAt(s) /\ to_ack \in [Stream -> Nat]
      /\ host \in [Stream -> {"unused", "opening", "open", "peer_closed", "gone"}]
      /\ thread \in [Stream -> ThreadState]
  BY DEF CreditInv, Types, HostType, OutType
<1>calm. ASSUME Calm(s) PROVE CreditAt(s)'
  BY <1>0, <1>calm, CalmKeeps
<1>quiet. ASSUME UNCHANGED <<inq, to_ack, host>>,
                 s \in can_write' => s \in can_write,
                 thread'[s] \in {"read", "send"} => thread[s] \in {"read", "send"},
                 srv'.pc = "opening" => srv' = srv
          PROVE  CreditAt(s)'
  BY <1>0, <1>calm, <1>quiet, QueueCalm DEF Calm
<1>host. ASSUME \/ inq' \in {<<>>, Append(inq, Connect)}
                \/ \E cmd \in Command, t \in Stream :
                     /\ inq' = Append(inq, [cmd |-> cmd, s |-> t])
                     /\ t # s \/ cmd \notin {"OKAY", "OPEN"},
                to_ack'[s] \in {0, to_ack[s]},
                host'[s] \in {"unused", "opening"} => host[s] \in {"unused", "opening"},
                UNCHANGED <<srv, can_write, thread>>
         PROVE  CreditAt(s)'
  BY <1>0, <1>calm, <1>host, QueueCalm DEF Calm
<1>read. ASSUME NEW packet, Reads(packet), UNCHANGED <<can_write, thread>>,
                srv'.pc = "opening" => srv' = srv
         PROVE  CreditAt(s)'
  BY <1>0, <1>calm, <1>read, QueueCalm DEF Calm, Reads
<1>sent. ASSUME NEW t \in Stream, NEW cmd \in {"OKAY", "CLSE"}, Sent(cmd, t),
                s \in can_write' => s \in can_write,
                thread'[s] \in {"read", "send"} => thread[s] \in {"read", "send"},
                srv'.pc = "opening" => srv' = srv
         PROVE  CreditAt(s)'
  <2>1. /\ inq' = inq /\ to_ack'[s] \in {0, to_ack[s]}
        /\ host'[s] \in {"unused", "opening"} => host[s] \in {"unused", "opening"}
    BY <1>sent, SentCalm
  <2> QED
    BY <1>0, <1>calm, <1>sent, <2>1, QueueCalm DEF Calm
<1>HostGone. ASSUME HostGone PROVE CreditAt(s)'
  BY <1>HostGone, <1>host DEF HostGone, Forgotten, srvVars, outVars
<1>HostConnects. ASSUME HostConnects PROVE CreditAt(s)'
  BY <1>HostConnects, <1>host DEF HostConnects, Forgotten, srvVars, outVars
<1>HostOpens. ASSUME NEW t \in Stream, HostOpens(t) PROVE CreditAt(s)'
  <2>0. /\ inq' = Append(inq, [cmd |-> "OPEN", s |-> t]) /\ host[t] = "unused"
        /\ host' = [host EXCEPT ![t] = "opening"] /\ "OPEN" \in Command
        /\ UNCHANGED <<to_ack, srv, can_write, thread>>
    BY <1>HostOpens DEF HostOpens, HostSends, srvVars, outVars, Command
  <2>1. CASE t # s
    BY <1>0, <1>host, <2>0, <2>1
  <2>2. CASE t = s
    <3>1. Fresh(s) /\ ~(srv.pc = "opening" /\ srv.s = s)
      BY <2>0, <2>2 DEF Fresh, OpenInv
    <3>2. ~InQ(inq, OpenOf(s))
      <4>1. OpenOf(s) # Connect /\ OpenOf(s).s = s
        BY <2>0, PacketsDiffer DEF OpenOf
      <4> QED
        BY <2>0, <2>2, <4>1 DEF InQ, QueueInv
    <3>3. inq' = Append(inq, OpenOf(s)) /\ OpenOf(s) # OkayOf(s) /\ OpenOf(s) \in Packet
      BY <2>0, <2>2, PacketsDiffer DEF OpenOf
    <3>4. Once(inq', OkayOf(s)) /\ Once(inq', OpenOf(s)) /\ ~InQ(inq', OkayOf(s))
      BY <1>0, <3>1, <3>2, <3>3, QueueAppend DEF CreditAt
    <3> QED
      BY <1>0, <2>0, <3>1, <3>4 DEF CreditAt
  <2> QED
    BY <2>1, <2>2
<1>HostWrites. ASSUME NEW t \in Stream, HostWrites(t) PROVE CreditAt(s)'
  <2>1. /\ inq' = Append(inq, [cmd |-> "WRTE", s |-> t]) /\ "WRTE" \in Command
        /\ UNCHANGED <<host, to_ack, srv, can_write, thread>>
    BY <1>HostWrites DEF HostWrites, HostSends, srvVars, outVars, Command
  <2> QED
    BY <1>host, <2>1
<1>HostAcks. ASSUME NEW t \in Stream, HostAcks(t) PROVE CreditAt(s)'
  <2>0. /\ inq' = Append(inq, [cmd |-> "OKAY", s |-> t]) /\ "OKAY" \in Command
        /\ to_ack[t] > 0 /\ to_ack' = [to_ack EXCEPT ![t] = @ - 1]
        /\ UNCHANGED <<host, srv, can_write, thread>>
    BY <1>HostAcks DEF HostAcks, HostSends, srvVars, outVars, Command
  <2>1. CASE t # s
    BY <1>0, <1>host, <2>0, <2>1
  <2>2. CASE t = s
    <3>1. to_ack[s] = 1 /\ to_ack'[s] = 0
      BY <1>0, <2>0, <2>2 DEF CreditAt
    <3>2. inq' = Append(inq, OkayOf(s)) /\ OkayOf(s) # OpenOf(s) /\ OkayOf(s) \in Packet
      BY <2>0, <2>2, PacketsDiffer DEF OkayOf
    <3>3. /\ Once(inq', OkayOf(s)) /\ Once(inq', OpenOf(s))
          /\ InQ(inq', OpenOf(s)) => InQ(inq, OpenOf(s))
      BY <1>0, <3>1, <3>2, QueueAppend DEF CreditAt
    <3>4. ~Fresh(s) /\ ~Fresh(s)'
      BY <1>0, <2>0, <3>1, <3>3 DEF CreditAt, Fresh
    <3> QED
      BY <1>0, <2>0, <3>1, <3>3, <3>4 DEF CreditAt, Fresh
  <2> QED
    BY <2>1, <2>2
<1>HostCloses. ASSUME NEW t \in Stream, HostCloses(t) PROVE CreditAt(s)'
  <2>1. /\ inq' = Append(inq, [cmd |-> "CLSE", s |-> t]) /\ "CLSE" \in Command
        /\ host' = [host EXCEPT ![t] = "gone"] /\ to_ack' = [to_ack EXCEPT ![t] = 0]
        /\ UNCHANGED <<srv, can_write, thread>>
    BY <1>HostCloses DEF HostCloses, HostSends, srvVars, outVars, Command
  <2> QED
    BY <1>0, <1>host, <2>1
<1>ReadConnect. ASSUME ReadConnect PROVE CreditAt(s)'
  BY <1>ReadConnect, <1>read DEF ReadConnect, GoTo, outVars
<1>ReplyConnect. ASSUME ReplyConnect PROVE CreditAt(s)'
  BY <1>ReplyConnect, <1>quiet
     DEF ReplyConnect, NotSent, AfterFailedSend, Return, GoTo, hostVars, outVars
<1>ReadOpen. ASSUME NEW t \in Stream, ReadOpen(t) PROVE CreditAt(s)'
  <2>0. /\ inq # <<>> /\ Head(inq) = OpenOf(t) /\ inq' = Tail(inq)
        /\ UNCHANGED <<host, to_ack, can_write>>
        /\ srv'.s = t
        /\ \/ UNCHANGED thread
           \/ \E st \in {"recv", "credit", "file"} : thread' = [thread EXCEPT ![t] = st]
    BY <1>ReadOpen DEF ReadOpen, Reads, GoTo, outVars, OpenOf
  <2>1. CASE t # s
    BY <1>0, <1>calm, <2>0, <2>1, QueueCalm DEF Calm
  <2>2. CASE t = s
    <3>1. /\ Once(inq', OkayOf(s)) /\ Once(inq', OpenOf(s))
          /\ InQ(inq, OpenOf(s)) /\ ~InQ(inq', OpenOf(s))
          /\ InQ(inq', OkayOf(s)) => InQ(inq, OkayOf(s))
      BY <1>0, <2>0, <2>2, QueueTail DEF CreditAt
    <3>2. thread'[s] \in {"read", "send"} => thread[s] \in {"read", "send"}
      BY <1>0, <2>0, <2>2
    <3> QED
      BY <1>0, <2>0, <3>1, <3>2 DEF CreditAt, Fresh
  <2> QED
    BY <2>1, <2>2
<1>stream. srv.pc \in {"reject", "opening", "ack", "input", "store", "shut", "hangup", "clse", "join"}
             => srv.s \in Stream
  BY DEF Types, SrvType, PcInv
<1>Reject. ASSUME Reject PROVE CreditAt(s)'
  <2>1. srv.s \in Stream /\ srv'.pc # "opening" /\ UNCHANGED outVars
        /\ (Sent("CLSE", srv.s) \/ NotSent)
    BY <1>Reject, <1>stream DEF Reject, AfterFailedSend, Return, GoTo, At
  <2> QED
    BY <1>sent, <1>quiet, <2>1 DEF NotSent, hostVars, outVars
<1>Opened. ASSUME Opened PROVE CreditAt(s)'
  <2>1. /\ srv.s \in Stream /\ srv.pc = "opening" /\ srv'.pc # "opening" /\ thread' = thread
        /\ \/ Sent("OKAY", srv.s) /\ can_write' = can_write \union {srv.s}
           \/ NotSent /\ can_write' = can_write
    BY <1>Opened, <1>stream DEF Opened, Return, StartClosing, GoTo, At
  <2>2. CASE NotSent /\ can_write' = can_write
    BY <1>quiet, <2>1, <2>2 DEF NotSent, hostVars
  <2>3. CASE srv.s # s /\ Sent("OKAY", srv.s) /\ can_write' = can_write \union {srv.s}
    BY <1>sent, <2>1, <2>3
  <2>4. CASE srv.s = s /\ Sent("OKAY", s) /\ can_write' = can_write \union {s}
    <3>1. /\ Fresh(s) /\ ~InQ(inq, OpenOf(s)) /\ host[s] # "unused"
      BY <1>0, <2>1, <2>4 DEF Fresh, CreditAt, OpenInv
    <3>2. inq' = inq /\ host'[s] \notin {"unused", "opening"}
      BY <2>4, <3>1, SentHost
    <3>3. to_ack'[s] \in {0, to_ack[s]}
      BY <2>4, SentCalm
    <3>4. ~Fresh(s)'
      BY <2>1, <3>1, <3>2 DEF Fresh
    <3> QED
      BY <1>0, <2>1, <2>4, <3>1, <3>2, <3>3, <3>4 DEF CreditAt
  <2> QED
    BY <2>1, <2>2, <2>3, <2>4
<1>ReadWrite. ASSUME NEW t \in Stream, ReadWrite(t) PROVE CreditAt(s)'
  BY <1>ReadWrite, <1>read DEF ReadWrite, GoTo, outVars
<1>AckSync. ASSUME AckSync \/ ChildInput PROVE CreditAt(s)'
  <2>1. srv.s \in Stream /\ srv'.pc # "opening" /\ UNCHANGED outVars
        /\ (Sent("OKAY", srv.s) \/ NotSent)
    BY <1>AckSync, <1>stream
       DEF AckSync, ChildInput, Ack, AfterFailedSend, Return, GoTo, At
  <2> QED
    BY <1>sent, <1>quiet, <2>1 DEF NotSent, hostVars, outVars
<1>ReadOkay. ASSUME NEW t \in Stream, ReadOkay(t) PROVE CreditAt(s)'
  <2>0. /\ inq # <<>> /\ Head(inq) = OkayOf(t) /\ inq' = Tail(inq)
        /\ UNCHANGED <<host, to_ack, srv, thread>>
        /\ can_write' \in {can_write, can_write \union {t}}
    BY <1>ReadOkay DEF ReadOkay, Reads, srvVars, OkayOf
  <2>1. CASE t # s
    BY <1>0, <1>calm, <2>0, <2>1, QueueCalm DEF Calm
  <2>2. CASE t = s
    <3>1. /\ Once(inq', OkayOf(s)) /\ Once(inq', OpenOf(s))
          /\ InQ(inq, OkayOf(s)) /\ ~InQ(inq', OkayOf(s))
          /\ InQ(inq', OpenOf(s)) => InQ(inq, OpenOf(s))
      BY <1>0, <2>0, <2>2, QueueTail DEF CreditAt
    <3>2. ~Fresh(s) /\ thread[s] \notin {"read", "send"} /\ to_ack[s] # 1
      BY <1>0, <3>1 DEF CreditAt
    <3>3. ~Fresh(s)'
      BY <2>0, <3>1, <3>2 DEF Fresh
    <3>4. to_ack[s] = 0
      BY <1>0, <3>2 DEF CreditAt
    <3> QED
      BY <1>0, <2>0, <3>1, <3>2, <3>3, <3>4 DEF CreditAt, Fresh
  <2> QED
    BY <2>1, <2>2
<1>ReadClose. ASSUME NEW t \in Stream, ReadClose(t) PROVE CreditAt(s)'
  BY <1>ReadClose, <1>read DEF ReadClose, StartClosing, GoTo, outVars
<1>server. ASSUME SyncInput \/ Store \/ InputFails \/ ReadDisconnect \/ StopSeen \/ ReadFatal \/ Clear
           PROVE  CreditAt(s)'
  BY <1>server, <1>quiet
     DEF SyncInput, Respond, Store, InputFails, ReadDisconnect, StopSeen,
         ReadFatal, Clear, StartClosing, Return, GoTo, hostVars, outVars
<1>Shut. ASSUME Shut PROVE CreditAt(s)'
  <2>1. srv'.pc # "opening" /\ UNCHANGED <<hostVars, thread, can_write>>
    BY <1>Shut DEF Shut, Announce, Types, SrvType
  <2> QED
    BY <1>quiet, <2>1 DEF hostVars
<1>Hangup. ASSUME Hangup PROVE CreditAt(s)'
  BY <1>Hangup, <1>quiet DEF Hangup, Announce, GoTo, hostVars, outVars
<1>Join. ASSUME Join PROVE CreditAt(s)'
  BY <1>Join, <1>quiet DEF Join, Forget, Return, GoTo, hostVars
<1>SendClose. ASSUME SendClose PROVE CreditAt(s)'
  <2>1. srv.s \in Stream /\ srv'.pc # "opening" /\ UNCHANGED outVars
        /\ (Sent("CLSE", srv.s) \/ NotSent)
    BY <1>SendClose, <1>stream DEF SendClose, SentClose, GoTo, At
  <2> QED
    BY <1>sent, <1>quiet, <2>1 DEF NotSent, hostVars, outVars
<1>thread. ASSUME NEW t \in Stream,
                  RecvResponse(t) \/ ReadChunk(t) \/ ReadFile(t) \/ ReadEof(t) \/ Reap(t) \/ EndOutput(t)
           PROVE  CreditAt(s)'
  BY <1>0, <1>thread, <1>quiet
     DEF RecvResponse, ReadChunk, ReadFile, ReadEof, Reap, EndOutput, Thread,
         Ending, hostVars, srvVars
<1>EndClose. ASSUME NEW t \in Stream, EndClose(t) PROVE CreditAt(s)'
  <2>1. /\ thread' = [thread EXCEPT ![t] = "done"] /\ UNCHANGED <<srv, can_write>>
        /\ Sent("CLSE", t) \/ NotSent
    BY <1>EndClose DEF EndClose, SentClose, Thread, srvVars
  <2>2. thread'[s] \in {"read", "send"} => thread[s] \in {"read", "send"}
    BY <1>0, <2>1
  <2> QED
    BY <1>sent, <1>quiet, <2>1, <2>2 DEF NotSent, hostVars
<1>TakeCredit. ASSUME NEW t \in Stream, TakeCredit(t) PROVE CreditAt(s)'
  <2>0. /\ UNCHANGED <<inq, to_ack, host, srv>>
        /\ \/ /\ t \in can_write /\ can_write' = can_write \ {t}
              /\ \E st \in {"read", "send"} : thread' = [thread EXCEPT ![t] = st]
           \/ /\ UNCHANGED can_write
              /\ \E st \in {"end", "reap", "done"} : thread' = [thread EXCEPT ![t] = st]
    BY <1>TakeCredit DEF TakeCredit, Thread, Ending, hostVars, srvVars
  <2>1. CASE t # s
    BY <1>0, <1>quiet, <2>0, <2>1
  <2>2. CASE t = s /\ UNCHANGED can_write
    BY <1>0, <1>quiet, <2>0, <2>2
  <2>3. CASE t = s /\ s \in can_write /\ s \notin can_write'
    <3>1. ~Fresh(s) /\ ~InQ(inq, OkayOf(s)) /\ to_ack[s] = 0
      BY <1>0, <2>3 DEF CreditAt
    <3>2. ~Fresh(s)'
      BY <2>0, <3>1 DEF Fresh
    <3> QED
      BY <1>0, <2>0, <2>3, <3>1, <3>2 DEF CreditAt
  <2> QED
    BY <2>0, <2>1, <2>2, <2>3
<1>SendChunk. ASSUME NEW t \in Stream, SendChunk(t) PROVE CreditAt(s)'
  <2>0. /\ thread[t] = "send" /\ UNCHANGED <<srv, can_write>>
        /\ \E st \in {"credit", "recv", "file", "end", "reap", "done"} : thread' = [thread EXCEPT ![t] = st]
        /\ Sent("WRTE", t) \/ NotSent
    BY <1>SendChunk DEF SendChunk, Thread, Ending, srvVars
  <2>1. thread'[s] \in {"read", "send"} => thread[s] \in {"read", "send"}
    BY <1>0, <2>0
  <2>2. CASE NotSent
    BY <1>quiet, <2>0, <2>1, <2>2 DEF NotSent, hostVars
  <2>3. CASE Sent("WRTE", t) /\ t # s
    <3>1. /\ inq' = inq /\ to_ack'[s] \in {0, to_ack[s]}
          /\ host'[s] \in {"unused", "opening"} => host[s] \in {"unused", "opening"}
      BY <2>3, SentCalm
    <3> QED
      BY <1>0, <1>calm, <2>0, <2>1, <3>1, QueueCalm DEF Calm
  <2>4. CASE Sent("WRTE", s) /\ t = s
    <3>1. /\ inq' = inq /\ to_ack'[s] \in {0, to_ack[s], to_ack[s] + 1}
          /\ host'[s] \in {"unused", "opening"} => host[s] \in {"unused", "opening"}
      BY <2>4, SentCalm
    <3>2. ~Fresh(s) /\ s \notin can_write /\ to_ack[s] = 0 /\ ~InQ(inq, OkayOf(s))
      BY <1>0, <2>0, <2>4 DEF CreditAt
    <3>3. ~Fresh(s)' /\ to_ack'[s] \in {0, 1} /\ thread'[s] \notin {"read", "send"}
      BY <1>0, <2>0, <2>4, <3>1, <3>2 DEF Fresh
    <3> QED
      BY <1>0, <2>0, <3>1, <3>2, <3>3 DEF CreditAt, Fresh
  <2> QED
    BY <2>0, <2>2, <2>3, <2>4
<1>other. ASSUME \/ GadgetStops \/ Stopped \/ UNCHANGED vars
                 \/ \E t \in Stream : ChildExits(t) \/ HolderExits(t)
          PROVE  CreditAt(s)'
  BY <1>other, <1>quiet
     DEF GadgetStops, Stopped, ChildExits, HolderExits, vars, hostVars, srvVars,
         outVars
<1> QED
  BY <1>HostGone, <1>HostConnects, <1>HostOpens, <1>HostWrites, <1>HostAcks,
     <1>HostCloses, <1>ReadConnect, <1>ReplyConnect, <1>ReadOpen, <1>Reject,
     <1>Opened, <1>ReadWrite, <1>AckSync, <1>ReadOkay, <1>ReadClose, <1>server,
     <1>Shut, <1>Hangup, <1>Join, <1>SendClose, <1>thread, <1>EndClose,
     <1>TakeCredit, <1>SendChunk, <1>other
     DEF Next, Host, Handle, Closing, Output

\* In the initial states no stream has a credit.
LEMMA CreditInit == Init => CreditInv
<1> SUFFICES ASSUME Init, NEW s \in Stream PROVE CreditAt(s)
  BY DEF CreditInv
<1>1. Connect # OkayOf(s) /\ Connect # OpenOf(s)
  <2>1. "OKAY" \in Command
    BY DEF Command
  <2> QED
    BY <2>1, PacketsDiffer
<1>2. inq = <<Connect>>
  BY DEF Init
<1> HIDE DEF Connect
<1>3. /\ ~InQ(inq, OkayOf(s)) /\ ~InQ(inq, OpenOf(s))
      /\ Once(inq, OkayOf(s)) /\ Once(inq, OpenOf(s))
  BY <1>1, <1>2 DEF InQ, Once
<1> QED
  BY <1>3 DEF Init, CreditAt

-----------------------------------------------------------------------------
(* The theorems.                                                           *)

\* The inductive invariant.
IInv == Types /\ OwnInv /\ CloseInv /\ OpenInv /\ QueueInv /\ CreditInv

\* The initial states satisfy the inductive invariant.
LEMMA InvInit == Init => IInv
<1> SUFFICES ASSUME Init PROVE IInv
  OBVIOUS
<1>1. Types
  BY TypeInit
<1>2. OwnInv /\ CloseInv
  BY DEF Init, OwnInv, NoStaleOutput, Alive, CloseInv, Owes
<1>3. OpenInv /\ QueueInv
  BY DEF Init, OpenInv, QueueInv
<1> QED
  BY <1>1, <1>2, <1>3, CreditInit DEF IInv

\* IInv is an inductive invariant of the ADB server.
THEOREM Invariance == Spec => []IInv
<1>1. IInv /\ [Next]_vars => IInv'
  BY TypeStep, OwnStep, CloseStep, OpenStep, QueueStep, CreditStep DEF IInv
<1> QED
  BY InvInit, <1>1, PTL DEF Spec

\* Every variable keeps its type, however threads and packets interleave.
THEOREM TypeCorrect == Spec => []TypeOK
<1>1. IInv => TypeOK
  BY TypeParts DEF IInv
<1> QED
  BY Invariance, <1>1, PTL

\* OutputFlow::close hands the duty to send the CLSE to exactly one thread.
THEOREM ClosedOnce == Spec => []OneClose
<1>1. IInv => OneClose
  BY DEF IInv, CloseInv, OneClose
<1> QED
  BY Invariance, <1>1, PTL

\* handle_open gives the first credit only after the OKAY, so a stream never
\* writes to a host that does not know its id.
THEOREM OkayFirst == Spec => []OpenBeforeWrite
<1>1. IInv => OpenBeforeWrite
  BY DEF IInv, OpenInv, OpenBeforeWrite
<1> QED
  BY Invariance, <1>1, PTL

\* handle_connect drops, and so joins, every session before it answers.
THEOREM NoneStale == Spec => []NoStaleOutput
<1>1. IInv => NoStaleOutput
  BY DEF IInv, OwnInv
<1> QED
  BY Invariance, <1>1, PTL

\* OutputFlow holds one credit: whatever the threads, the host and a new
\* connection do, the device never has two unacknowledged packets on a stream.
THEOREM CreditIsSingle == Spec => []OneCredit
<1>1. IInv => OneCredit
  <2> SUFFICES ASSUME IInv, NEW s \in Stream
               PROVE  (IF s \in can_write THEN 1 ELSE 0)
                      + (IF thread[s] = "read" \/ thread[s] = "send" THEN 1 ELSE 0)
                      + to_ack[s]
                      + Cardinality({i \in DOMAIN inq : inq[i] = OkayOf(s)}) <= 1
    BY DEF OneCredit, OkayOf
  <2> DEFINE okays == {i \in DOMAIN inq : inq[i] = OkayOf(s)}
  <2>1. CreditAt(s) /\ DOMAIN inq = 1..Len(inq) /\ to_ack[s] \in Nat
    BY DEF IInv, CreditInv, Types, HostType
  <2>2. CASE InQ(inq, OkayOf(s))
    <3>1. PICK i \in 1..Len(inq) : inq[i] = OkayOf(s)
      BY <2>2 DEF InQ
    <3>2. okays = {i}
      BY <2>1, <3>1 DEF CreditAt, Once
    <3>3. Cardinality(okays) = 1
      BY <3>2, FS_Singleton
    <3> HIDE DEF okays
    <3> QED
      BY <2>1, <2>2, <3>3 DEF CreditAt, okays
  <2>3. CASE ~InQ(inq, OkayOf(s))
    <3>1. okays = {}
      BY <2>1, <2>3 DEF InQ
    <3>2. Cardinality(okays) = 0
      BY <3>1, FS_EmptySet
    <3> HIDE DEF okays
    <3> QED
      BY <2>1, <3>2 DEF CreditAt, okays
  <2> QED
    BY <2>2, <2>3
<1> QED
  BY Invariance, <1>1, PTL

=============================================================================
