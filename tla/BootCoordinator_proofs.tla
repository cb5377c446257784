----------------------- MODULE BootCoordinator_proofs ------------------------
(***************************************************************************)
(* Theorems about the boot coordinator, for any partitions, entries and    *)
(* fastboot images and any number of selections and loads.                 *)
(*                                                                         *)
(* What the coordinator may conclude depends on which events are still on  *)
(* their way, so the invariant relates the senders' state to the channel's *)
(* content and to what the coordinator remembers of events it has handled. *)
(***************************************************************************)
EXTENDS BootCoordinator, FiniteSetTheorems, TLAPS

\* The fastboot thread has a result exactly when it has stopped serving.
FbInv == (fb \in {"closing", "joined"}) <=> fb_result # "none"

DiscoveryTypes == {"DiscoveryUpdate", "DiscoveryComplete"}

\* The completion carries the whole scan and is the last word of discovery,
\* on the channel and after it was received.
DiscInv ==
    /\ disco = "settling" => found = {}
    /\ \A i \in 1..Len(events) : events[i].type = "DiscoveryComplete" =>
         /\ disco = "done" /\ events[i].entries = found
         /\ \A j \in 1..Len(events) : j > i => events[j].type \notin DiscoveryTypes
    /\ discovery_complete =>
         /\ disco = "done" /\ boot_entries = found
         /\ \A i \in 1..Len(events) : events[i].type \notin DiscoveryTypes
    /\ DefaultIsBestOfScan

\* Whoever has finished has an event on the channel or has been heard; once
\* both have been heard the coordinator no longer waits.
ChanInv ==
    /\ disco = "done" => \/ discovery_complete
                         \/ \E i \in 1..Len(events) :
                              events[i].type = "DiscoveryComplete"
    /\ Running /\ pc = "recv" /\ fb = "joined" =>
         \/ fastboot_requested_default
         \/ \E i \in 1..Len(events) : events[i].type = "Fastboot"
    /\ Running /\ pc = "recv" => ~(discovery_complete /\ fastboot_requested_default)

\* From its own load on, the coordinator finds its entry in the slot, or an
\* image the fastboot thread put there since.
LoadInv ==
    /\ pc = "exec" => \/ loaded = choice.entry
                      \/ loaded \in FastbootImage /\ fb_loads > entry_after
    /\ fb_loads >= entry_after
    /\ NothingStaleIsExecuted

\* From the load of a `boot` image on, nobody else fills the kexec slot before
\* the action runs.
AckInv ==
    pc \in {"recv", "action"} /\ (fb = "replying" \/ fb_result = "exec") =>
        loaded = boot_image

\* Discovery's lists only grow: the coordinator's list, the ones on their way
\* to it in sending order, and what has been found.
GrowInv ==
    /\ boot_entries \subseteq found
    /\ \A i \in 1..Len(events) : events[i].type \in DiscoveryTypes =>
         /\ boot_entries \subseteq events[i].entries
         /\ events[i].entries \subseteq found
         /\ \A j \in 1..Len(events) :
              j > i /\ events[j].type \in DiscoveryTypes =>
                  events[i].entries \subseteq events[j].entries

\* A selection names a row of a menu that was shown, and `menu` still has
\* every row of that one.
Tapped(a, menu) ==
    /\ a.tapped \in a.seen
    /\ a.index = Cardinality({f \in a.seen : f < a.tapped})
    /\ a.seen \subseteq menu

\* What the UI shows, will show and has reported is part of the coordinator's
\* menu.
MenuInv ==
    /\ shown \subseteq Menu(boot_entries)
    /\ \A i \in 1..Len(ui_commands) : ui_commands[i] \subseteq Menu(boot_entries)
    /\ \A i \in 1..Len(ui_actions) : Tapped(ui_actions[i], Menu(boot_entries))
    /\ \A i \in 1..Len(events) : events[i].type = "UiAction" =>
         Tapped(events[i], Menu(boot_entries))

\* A selection the coordinator acted on moved up the list or stayed.
MovedInv ==
    /\ choice.why = "ui" => choice.seen \subseteq Menu(found)
    /\ StaleSelectionMovesUp

\* Elements of a set of entries are natural numbers.
LEMMA EntriesAreNat == Entry \subseteq Nat /\ Bootable \subseteq Entry
  BY EntriesAssumption DEF Entry

\* Taking the first element of a queue leaves a queue of the same elements.
LEMMA HeadTail ==
  ASSUME NEW S, NEW q \in Seq(S), q # <<>>
  PROVE  Head(q) \in S /\ Tail(q) \in Seq(S)
  OBVIOUS

\* An empty queue has any element type.
LEMMA EmptyType == ASSUME NEW S PROVE <<>> \in Seq(S)
  OBVIOUS

\* Posting an element of the right kind keeps a queue of that kind.
LEMMA AppendType ==
  ASSUME NEW S, NEW q \in Seq(S), NEW e \in S
  PROVE  Append(q, e) \in Seq(S)
  OBVIOUS

\* The position of a row in the menu is a natural number.
LEMMA IndexIsNat ==
  ASSUME NEW list \in SUBSET Entry, NEW e \in list
  PROVE  Cardinality({f \in list : f < e}) \in Nat
<1>1. IsFiniteSet(Entry)
  BY EntriesAssumption
<1>2. {f \in list : f < e} \subseteq Entry
  OBVIOUS
<1>3. IsFiniteSet({f \in list : f < e})
  BY <1>1, <1>2, FS_Subset
<1> QED
  BY <1>3, FS_CardinalityType

\* Receiving an event of another type leaves the events of type t queued.
LEMMA StillQueued ==
  ASSUME NEW q \in Seq(Event), q # <<>>, NEW t, Head(q).type # t,
         \E i \in 1..Len(q) : q[i].type = t
  PROVE  \E i \in 1..Len(Tail(q)) : Tail(q)[i].type = t
<1>1. PICK i \in 1..Len(q) : q[i].type = t
  OBVIOUS
<1>2. i - 1 \in 1..Len(Tail(q)) /\ Tail(q)[i - 1] = q[i]
  BY <1>1
<1> QED
  BY <1>1, <1>2

\* What an event carries, by its type.
LEMMA EventFields ==
  ASSUME NEW e \in Event
  PROVE  /\ e.type = "UiAction" =>
              e.index \in Nat /\ e.tapped \in Entry /\ e.seen \subseteq Entry
         /\ e.type \in {"DiscoveryUpdate", "DiscoveryComplete"} =>
              e.entries \subseteq Entry
         /\ e.type = "Fastboot" => e.result \in FbResult \ {"none"}
  BY DEF Event, UiEvent, FbEvent, DiscEvent

\* A decision of the coordinator is a Choice.
LEMMA DecideType ==
  ASSUME TypeOK, NEW why \in {"ui", "default"}, NEW entry \in Entry,
         NEW tapped \in Entry \union {None}, NEW seen \in SUBSET Entry,
         Decide(why, entry, tapped, seen)
  PROVE  pc' = "load" /\ choice' \in Choice
  BY DEF Decide, Choice, TypeOK

\* boot_default_entry chooses an entry of the list or ends PID 1.
LEMMA BootDefaultType ==
  ASSUME TypeOK, NEW entries \in SUBSET Entry, BootDefault(entries)
  PROVE  /\ pc' \in {"recv", "load", "exec", "action"} /\ choice' \in Choice
         /\ UNCHANGED <<loaded, fb_loads, entry_after, executed>>
         /\ machine' \in {machine, "exited"}
<1>1. CASE DefaultEntry(entries) = {}
  BY <1>1 DEF BootDefault, Exit, TypeOK
<1>2. CASE DefaultEntry(entries) # {}
  <2>1. PICK e \in DefaultEntry(entries) : Decide("default", e, None, {})
    BY <1>2 DEF BootDefault
  <2>2. e \in Entry
    BY EntriesAreNat DEF DefaultEntry, Menu
  <2> QED
    BY <1>2, <2>1, <2>2, DecideType DEF BootDefault, kernVars
<1> QED
  BY <1>1, <1>2

\* If boot_default_entry decides anything, it decides for the best entry.
LEMMA BootDefaultChoice ==
  ASSUME NEW entries, BootDefault(entries)
  PROVE  \/ UNCHANGED choice
         \/ choice'.entry \in DefaultEntry(entries) /\ pc' = "load"
  BY DEF BootDefault, Decide

-----------------------------------------------------------------------------

\* /init starts with everything empty.
LEMMA InitType == Init => TypeOK
<1> SUFFICES ASSUME Init PROVE TypeOK
  OBVIOUS
<1>1. NoChoice \in Choice
  BY DEF NoChoice, Choice, None
<1>2. ui_commands \in Seq(SUBSET Entry) /\ ui_actions \in Seq(UiEvent)
  BY DEF Init
<1>3. events \in Seq(Event)
  BY DEF Init
<1> QED
  BY <1>1, <1>2, <1>3 DEF Init, TypeOK, None, FbResult

\* Every thread keeps the types of what it shares with the others.
LEMMA NextType == TypeOK /\ FbInv /\ [Next]_vars => TypeOK'
<1> SUFFICES ASSUME TypeOK, FbInv, [Next]_vars PROVE TypeOK'
  OBVIOUS
<1> USE DEF TypeOK, discoVars, uiVars, fbVars, kernVars, coordVars
<1>1. CASE ListPartitions
  BY <1>1
     DEF ListPartitions
<1>2. CASE ListPartitionsFails
  BY <1>2, AppendType
     DEF ListPartitionsFails, Send, Event, DiscEvent
<1>3. CASE ScanComplete
  BY <1>3, AppendType
     DEF ScanComplete, Send, Event, DiscEvent
<1>4. ASSUME NEW p \in Partition, ScanReport(p) PROVE TypeOK'
  <2>1. PICK entries \in {{}, EntriesOf[p]} :
          /\ found' = found \union entries
          /\ IF entries = {} THEN UNCHANGED events
             ELSE Send([type |-> "DiscoveryUpdate", entries |-> found'])
    BY <1>4 DEF ScanReport
  <2>2. found' \subseteq Entry
    BY <2>1 DEF Entry
  <2>3. [type |-> "DiscoveryUpdate", entries |-> found'] \in Event
    BY <2>2 DEF Event, DiscEvent
  <2>4. events' \in Seq(Event)
    BY <2>1, <2>3, AppendType DEF Send
  <2> QED
    BY <1>4, <2>2, <2>4 DEF ScanReport
<1>5. CASE RecvUiAction
  <2>1. Head(events) \in Event /\ events' \in Seq(Event)
    BY <1>5, HeadTail DEF RecvUiAction, Receiving
  <2>2. pc' \in {"recv", "load", "exec", "action"} /\ choice' \in Choice
    <3> DEFINE row == Row(Menu(boot_entries), Head(events).index)
    <3>1. CASE row = {}
      BY <1>5, <3>1 DEF RecvUiAction
    <3>2. CASE row # {}
      <4>1. PICK e \in row :
              Decide("ui", e, Head(events).tapped, Head(events).seen)
        BY <1>5, <3>2 DEF RecvUiAction
      <4>2. e \in Entry
        BY DEF Row, Menu
      <4>3. Head(events).tapped \in Entry /\ Head(events).seen \subseteq Entry
        BY <1>5, <2>1, EventFields DEF RecvUiAction, Receiving
      <4> QED
        BY <4>1, <4>2, <4>3, DecideType
    <3> QED
      BY <3>1, <3>2
  <2> QED
    BY <1>5, <2>1, <2>2 DEF RecvUiAction
<1>6. CASE RecvFastbootErr
  BY <1>6, HeadTail
     DEF RecvFastbootErr, Receiving, Exit
<1>7. CASE RecvFastbootAction
  BY <1>7, HeadTail
     DEF RecvFastbootAction, Receiving
<1>8. CASE RecvFastbootContinue
  <2>1. events' \in Seq(Event)
    BY <1>8, HeadTail DEF RecvFastbootContinue, Receiving
  <2>2. CASE discovery_complete
    BY <1>8, <2>1, <2>2, BootDefaultType DEF RecvFastbootContinue
  <2>3. CASE ~discovery_complete
    BY <1>8, <2>1, <2>3 DEF RecvFastbootContinue
  <2> QED
    BY <2>2, <2>3
<1>9. CASE RecvDiscoveryUpdate
  <2>1. Head(events).entries \subseteq Entry /\ events' \in Seq(Event)
    BY <1>9, HeadTail, EventFields DEF RecvDiscoveryUpdate, Receiving
  <2>2. ui_commands' \in Seq(SUBSET Entry)
    BY <1>9, <2>1, AppendType
       DEF RecvDiscoveryUpdate, ApplyBootEntriesUpdate, Menu
  <2> QED
    BY <1>9, <2>1, <2>2 DEF RecvDiscoveryUpdate, ApplyBootEntriesUpdate
<1>10. CASE RecvDiscoveryComplete
  <2>1. Head(events).entries \subseteq Entry /\ events' \in Seq(Event)
    BY <1>10, HeadTail, EventFields DEF RecvDiscoveryComplete, Receiving
  <2>2. ui_commands' \in Seq(SUBSET Entry)
    BY <1>10, <2>1, AppendType
       DEF RecvDiscoveryComplete, ApplyBootEntriesUpdate, Menu
  <2>3. CASE fastboot_requested_default
    BY <1>10, <2>1, <2>2, <2>3, BootDefaultType
       DEF RecvDiscoveryComplete, ApplyBootEntriesUpdate
  <2>4. CASE ~fastboot_requested_default
    BY <1>10, <2>1, <2>2, <2>4
       DEF RecvDiscoveryComplete, ApplyBootEntriesUpdate
  <2> QED
    BY <2>3, <2>4
<1>11. CASE LoadEntry
  BY <1>11
     DEF LoadEntry, Choice, Exit
<1>12. CASE ExecEntry
  BY <1>12
     DEF ExecEntry, ExecLoadedImage, Exit
<1>13. CASE RunFastbootAction
  BY <1>13
     DEF RunFastbootAction, ExecLoadedImage, Exit
<1>14. CASE UiPoll
  <2>1. shown' \subseteq Entry
    <3>1. Len(ui_commands) \in 1..Len(ui_commands)
      BY <1>14 DEF UiPoll
    <3>2. ui_commands[Len(ui_commands)] \in SUBSET Entry
      BY <3>1
    <3> QED
      BY <1>14, <3>2 DEF UiPoll
  <2>2. ui_commands' \in Seq(SUBSET Entry)
    BY <1>14, EmptyType DEF UiPoll
  <2>3. booting' \in BOOLEAN
    BY <1>14 DEF UiPoll
  <2>4. UNCHANGED <<discoVars, ui_alive, ui_actions, taps, fbVars, kernVars,
                    events, coordVars>>
    BY <1>14 DEF UiPoll
  <2> QED
    BY <2>1, <2>2, <2>3, <2>4
<1>15. CASE UiTap
  <2>1. PICK e \in shown : ui_actions' = Append(ui_actions,
             [type |-> "UiAction", tapped |-> e, seen |-> shown,
              index |-> Cardinality({f \in shown : f < e})])
    BY <1>15 DEF UiTap
  <2>2. Cardinality({f \in shown : f < e}) \in Nat
    BY IndexIsNat
  <2>3. ui_actions' \in Seq(UiEvent)
    BY <2>1, <2>2, AppendType DEF UiEvent
  <2> QED
    BY <1>15, <2>3 DEF UiTap
<1>16. CASE UiExits
  <2>1. ui_alive' \in BOOLEAN
    BY <1>16 DEF UiExits
  <2> QED
    BY <1>16, <2>1 DEF UiExits
<1>17. CASE UiPower
  BY <1>17
     DEF UiPower
<1>18. CASE ForwardUiAction
  BY <1>18, HeadTail, AppendType
     DEF ForwardUiAction, Send, Event
<1>19. CASE FbStart
  BY <1>19
     DEF FbStart
<1>20. CASE FbFatal
  BY <1>20
     DEF FbFatal, FbResult
<1>21. CASE FbBootAcked
  BY <1>21
     DEF FbBootAcked, FbResult
<1>22. CASE FbBootReplyLost
  BY <1>22
     DEF FbBootReplyLost
<1>23. CASE FbLeave("continue")
  BY <1>23
     DEF FbLeave, FbResult
<1>24. CASE FbLeave("reboot")
  BY <1>24
     DEF FbLeave, FbResult
<1>25. ASSUME NEW image \in FastbootImage, FbKexecLoad(image) PROVE TypeOK'
  BY <1>25
     DEF FbKexecLoad, LoadImage
<1>26. ASSUME NEW image \in FastbootImage, FbBoot(image) PROVE TypeOK'
  BY <1>26
     DEF FbBoot, LoadImage
<1>27. CASE FbJoined
  <2>1. PICK unbound \in BOOLEAN :
          Send([type |-> "Fastboot",
                result |-> ResolveFastbootResult(fb_result, unbound)])
    BY <1>27 DEF FbJoined
  <2>2. ResolveFastbootResult(fb_result, unbound) \in FbResult \ {"none"}
    BY <1>27 DEF FbJoined, FbInv, ResolveFastbootResult, FbResult
  <2>3. events' \in Seq(Event)
    BY <2>1, <2>2, AppendType DEF Send, Event, FbEvent
  <2> QED
    BY <1>27, <2>3 DEF FbJoined
<1>28. CASE AdbBlocks
  <2>1. adb_blocked' \in BOOLEAN
    BY <1>28 DEF AdbBlocks
  <2> QED
    BY <1>28, <2>1 DEF AdbBlocks
<1>29. CASE AdbUnblocks
  <2>1. adb_blocked' \in BOOLEAN
    BY <1>29 DEF AdbUnblocks
  <2> QED
    BY <1>29, <2>1 DEF AdbUnblocks
<1>30. CASE Gone
  BY <1>30
     DEF Gone, vars
<1>31. CASE UNCHANGED vars
  BY <1>31
     DEF vars
<1> QED
  BY <1>1, <1>2, <1>3, <1>4, <1>5, <1>6, <1>7, <1>8, <1>9, <1>10, <1>11,
     <1>12, <1>13, <1>14, <1>15, <1>16, <1>17, <1>18, <1>19, <1>20, <1>21,
     <1>22, <1>23, <1>24, <1>25, <1>26, <1>27, <1>28, <1>29, <1>30, <1>31
     DEF Next, Discovery, Coordinate, Ui, Fastboot

-----------------------------------------------------------------------------
(* The other conjuncts. Each lemma first dismisses the actions that leave   *)
(* the conjunct's variables alone.                                          *)

\* A result appears when the thread stops serving, and only then.
LEMMA NextFb == TypeOK /\ FbInv /\ [Next]_vars => FbInv'
  BY DEF FbInv, TypeOK, Next, Discovery, Coordinate, Ui, Fastboot, vars, fbVars,
         ListPartitions, ListPartitionsFails, ScanComplete, ScanReport,
         RecvUiAction, RecvFastbootErr, RecvFastbootAction,
         RecvFastbootContinue, RecvDiscoveryUpdate, RecvDiscoveryComplete,
         LoadEntry, ExecEntry, RunFastbootAction, UiPoll, UiTap, UiExits,
         UiPower, ForwardUiAction, FbStart, FbFatal, FbBootAcked,
         FbBootReplyLost, AdbBlocks, AdbUnblocks,
         FbLeave, FbKexecLoad, FbBoot, FbJoined, Gone

\* Nobody but the fastboot thread loads the kexec slot while the coordinator
\* still receives, and that thread loads nothing after it answered `boot`.
LEMMA NextAck == TypeOK /\ FbInv /\ AckInv /\ [Next]_vars => AckInv'
<1> SUFFICES ASSUME TypeOK, FbInv, AckInv, [Next]_vars PROVE AckInv'
  OBVIOUS
<1> USE DEF AckInv, fbVars, kernVars, coordVars
<1>1. CASE Discovery \/ Ui \/ ForwardUiAction \/ Gone \/ UNCHANGED vars
  BY <1>1 DEF Discovery, ListPartitions, ListPartitionsFails, ScanComplete,
              ScanReport, Ui, UiPoll, UiTap, UiExits, UiPower,
              ForwardUiAction, Gone, vars
<1>2. CASE RecvUiAction
  BY <1>2 DEF RecvUiAction, Receiving, Decide
<1>3. CASE RecvFastbootErr \/ RecvFastbootAction \/ RecvDiscoveryUpdate
  BY <1>3 DEF RecvFastbootErr, RecvFastbootAction, RecvDiscoveryUpdate,
              Receiving, Exit
<1>4. CASE RecvFastbootContinue
  BY <1>4 DEF RecvFastbootContinue, Receiving, BootDefault, Decide, Exit
<1>5. CASE RecvDiscoveryComplete
  BY <1>5 DEF RecvDiscoveryComplete, Receiving, BootDefault, Decide, Exit
<1>6. CASE LoadEntry \/ ExecEntry \/ RunFastbootAction
  BY <1>6 DEF LoadEntry, ExecEntry, RunFastbootAction, Exit, ExecLoadedImage
<1>7. CASE Fastboot \/ FbJoined
  BY <1>7 DEF Fastboot, FbJoined, FbStart, FbFatal, FbBootAcked,
              FbBootReplyLost, AdbBlocks, AdbUnblocks,
              FbLeave, FbKexecLoad, FbBoot, LoadImage, FbInv
<1> QED
  BY <1>1, <1>2, <1>3, <1>4, <1>5, <1>6, <1>7 DEF Next, Coordinate

\* Only the coordinator's own load leads to "exec"; after it only the fastboot
\* thread touches the slot, and counts that it did.
LEMMA NextLoad == TypeOK /\ LoadInv /\ [Next]_vars => LoadInv'
<1> SUFFICES ASSUME TypeOK, LoadInv, [Next]_vars PROVE LoadInv'
  OBVIOUS
<1> USE DEF LoadInv, NothingStaleIsExecuted, fbVars, kernVars, coordVars
<1>1. fb_loads \in Nat /\ entry_after \in Nat
  BY DEF TypeOK
<1>2. CASE Discovery \/ Ui \/ ForwardUiAction \/ FbJoined \/ Gone \/ UNCHANGED vars
  BY <1>2 DEF Discovery, ListPartitions, ListPartitionsFails, ScanComplete,
              ScanReport, Ui, UiPoll, UiTap, UiExits, UiPower, Running,
              ForwardUiAction, FbJoined, Gone, vars
<1>3. CASE RecvUiAction
  BY <1>1, <1>3 DEF RecvUiAction, Receiving, Decide, Running
<1>4. CASE RecvFastbootErr \/ RecvFastbootAction \/ RecvDiscoveryUpdate
  BY <1>4 DEF RecvFastbootErr, RecvFastbootAction, RecvDiscoveryUpdate,
              Receiving, Exit, Running
<1>5. CASE RecvFastbootContinue
  BY <1>1, <1>5 DEF RecvFastbootContinue, Receiving, BootDefault, Decide,
                    Exit, Running
<1>6. CASE RecvDiscoveryComplete
  BY <1>1, <1>6 DEF RecvDiscoveryComplete, Receiving, BootDefault, Decide,
                    Exit, Running
<1>7. CASE LoadEntry
  BY <1>1, <1>7 DEF LoadEntry, Exit, Running
<1>8. CASE ExecEntry \/ RunFastbootAction
  BY <1>1, <1>8 DEF ExecEntry, RunFastbootAction, Exit, ExecLoadedImage,
                    Running
<1>9. CASE Fastboot
  BY <1>1, <1>9 DEF Fastboot, FbStart, FbFatal, FbBootAcked,
                    FbBootReplyLost, AdbBlocks, AdbUnblocks, Running,
                    FbLeave, FbKexecLoad, FbBoot, LoadImage
<1> QED
  BY <1>2, <1>3, <1>4, <1>5, <1>6, <1>7, <1>8, <1>9 DEF Next, Coordinate

\* The completion stays the last event of discovery and keeps carrying the
\* whole scan; a default boot is only decided from it.
LEMMA NextDisc == TypeOK /\ DiscInv /\ [Next]_vars => DiscInv'
<1> SUFFICES ASSUME TypeOK, DiscInv, [Next]_vars PROVE DiscInv'
  OBVIOUS
<1> USE DEF DiscInv, DefaultIsBestOfScan, DiscoveryTypes, coordVars
<1>1. events \in Seq(Event)
  BY DEF TypeOK
<1>2. CASE ListPartitions
  BY <1>1, <1>2 DEF ListPartitions
<1>3. CASE ListPartitionsFails
  BY <1>1, <1>3 DEF ListPartitionsFails, Send
<1>4. CASE ScanComplete
  BY <1>1, <1>4 DEF ScanComplete, Send
<1>5. ASSUME NEW p \in Partition, ScanReport(p) PROVE DiscInv'
  BY <1>1, <1>5 DEF ScanReport, Send
<1>6. CASE ForwardUiAction
  <2>1. Head(ui_actions) \in UiEvent
    BY <1>6, HeadTail DEF ForwardUiAction, TypeOK
  <2>2. Head(ui_actions).type = "UiAction"
    BY <2>1 DEF UiEvent
  <2> QED
    BY <1>1, <1>6, <2>2 DEF ForwardUiAction, Send, discoVars
<1>7. CASE FbJoined
  BY <1>1, <1>7 DEF FbJoined, Send, discoVars
<1>8. CASE RecvUiAction
  BY <1>1, <1>8 DEF RecvUiAction, Receiving, Decide, discoVars
<1>9. CASE RecvFastbootErr \/ RecvFastbootAction
  <2>1. CASE RecvFastbootErr
    BY <1>1, <2>1 DEF RecvFastbootErr, Receiving, discoVars
  <2>2. CASE RecvFastbootAction
    BY <1>1, <2>2 DEF RecvFastbootAction, Receiving, discoVars
  <2> QED
    BY <1>9, <2>1, <2>2
<1>10. CASE RecvFastbootContinue
  <2>1. \/ UNCHANGED choice
        \/ discovery_complete /\ choice'.entry \in DefaultEntry(boot_entries)
    BY <1>10, BootDefaultChoice DEF RecvFastbootContinue
  <2> QED
    BY <1>1, <1>10, <2>1
       DEF RecvFastbootContinue, Receiving, discoVars, DefaultEntry
<1>11. CASE RecvDiscoveryUpdate
  BY <1>1, <1>11
     DEF RecvDiscoveryUpdate, Receiving, ApplyBootEntriesUpdate, discoVars
<1>12. CASE RecvDiscoveryComplete
  <2>1. /\ events # <<>> /\ Head(events).type = "DiscoveryComplete"
        /\ events' = Tail(events) /\ discovery_complete' = TRUE
        /\ boot_entries' = Head(events).entries /\ UNCHANGED discoVars
    BY <1>12 DEF RecvDiscoveryComplete, Receiving, ApplyBootEntriesUpdate
  <2>2. /\ disco = "done" /\ Head(events).entries = found
        /\ \A i \in 1..Len(events') : events'[i].type \notin DiscoveryTypes
    BY <1>1, <2>1
  <2>3. \/ UNCHANGED choice
        \/ choice'.entry \in DefaultEntry(found)
    BY <1>12, <2>2, BootDefaultChoice DEF RecvDiscoveryComplete
  <2> QED
    BY <2>1, <2>2, <2>3 DEF discoVars, DefaultEntry
<1>13. CASE \/ LoadEntry \/ ExecEntry \/ RunFastbootAction \/ Ui \/ Fastboot
            \/ Gone \/ UNCHANGED vars
  BY <1>13 DEF LoadEntry, ExecEntry, RunFastbootAction, Ui, UiPoll, UiTap,
               UiExits, UiPower, Fastboot, FbStart, FbFatal, FbBootAcked,
               FbBootReplyLost, AdbBlocks, AdbUnblocks,
               FbLeave, FbKexecLoad, FbBoot, Gone, vars,
               discoVars
<1> QED
  BY <1>2, <1>3, <1>4, <1>5, <1>6, <1>7, <1>8, <1>9, <1>10, <1>11, <1>12, <1>13
     DEF Next, Coordinate, Discovery

\* Discovery and fastboot each leave a trace on the channel or in the
\* coordinator's memory, and the second of the two to arrive ends the wait.
LEMMA NextChan == TypeOK /\ ChanInv /\ [Next]_vars => ChanInv'
<1> SUFFICES ASSUME TypeOK, ChanInv, [Next]_vars PROVE ChanInv'
  OBVIOUS
<1> USE DEF ChanInv, Running, coordVars, kernVars, fbVars, discoVars
<1>1. events \in Seq(Event)
  BY DEF TypeOK
<1>2. CASE ListPartitions
  BY <1>1, <1>2 DEF ListPartitions
<1>3. CASE ListPartitionsFails
  BY <1>1, <1>3 DEF ListPartitionsFails, Send
<1>4. CASE ScanComplete
  BY <1>1, <1>4 DEF ScanComplete, Send
<1>5. ASSUME NEW p \in Partition, ScanReport(p) PROVE ChanInv'
  BY <1>1, <1>5 DEF ScanReport, Send
<1>6. CASE ForwardUiAction
  BY <1>1, <1>6 DEF ForwardUiAction, Send
<1>7. CASE FbJoined
  BY <1>1, <1>7 DEF FbJoined, Send
<1>8. CASE RecvUiAction
  <2>1. /\ events # <<>> /\ Head(events).type = "UiAction"
        /\ events' = Tail(events)
        /\ pc' = pc \/ pc' = "load"
        /\ UNCHANGED <<discoVars, fbVars, machine, discovery_complete,
                       fastboot_requested_default>>
    BY <1>8 DEF RecvUiAction, Receiving, Decide
  <2> QED
    BY <1>1, <2>1, StillQueued
<1>9. CASE RecvFastbootErr \/ RecvFastbootAction
  <2>1. /\ events # <<>> /\ Head(events).type = "Fastboot"
        /\ events' = Tail(events)
        /\ pc' = "action" \/ machine' = "exited"
        /\ UNCHANGED <<discoVars, discovery_complete>>
    BY <1>9 DEF RecvFastbootErr, RecvFastbootAction, Receiving, Exit
  <2> QED
    BY <1>1, <2>1, StillQueued
<1>10. CASE RecvFastbootContinue
  <2>1. /\ events # <<>> /\ Head(events).type = "Fastboot"
        /\ events' = Tail(events)
        /\ UNCHANGED <<discoVars, discovery_complete>>
        /\ \/ pc' = "load" \/ machine' = "exited"
           \/ ~discovery_complete /\ fastboot_requested_default' = TRUE
    BY <1>10
       DEF RecvFastbootContinue, Receiving, BootDefault, Decide, Exit
  <2> QED
    BY <1>1, <2>1, StillQueued
<1>11. CASE RecvDiscoveryUpdate
  <2>1. /\ events # <<>> /\ Head(events).type = "DiscoveryUpdate"
        /\ events' = Tail(events)
        /\ UNCHANGED <<discoVars, fbVars, kernVars, discovery_complete,
                       fastboot_requested_default, pc>>
    BY <1>11 DEF RecvDiscoveryUpdate, Receiving
  <2> QED
    BY <1>1, <2>1, StillQueued
<1>12. CASE RecvDiscoveryComplete
  <2>1. /\ events # <<>> /\ Head(events).type = "DiscoveryComplete"
        /\ events' = Tail(events) /\ discovery_complete' = TRUE
        /\ UNCHANGED <<fbVars, fastboot_requested_default>>
        /\ \/ pc' = "load" \/ machine' = "exited"
           \/ ~fastboot_requested_default /\ UNCHANGED <<kernVars, pc>>
    BY <1>12
       DEF RecvDiscoveryComplete, Receiving, BootDefault, Decide, Exit
  <2> QED
    BY <1>1, <2>1, StillQueued
<1>13. CASE LoadEntry \/ ExecEntry \/ RunFastbootAction
  BY <1>13 DEF LoadEntry, ExecEntry, RunFastbootAction, Exit, ExecLoadedImage
<1>14. CASE Ui \/ Gone \/ UNCHANGED vars
  BY <1>14 DEF Ui, UiPoll, UiTap, UiExits, UiPower, Gone, vars
<1>15. CASE Fastboot
  BY <1>15 DEF Fastboot, FbStart, FbFatal, FbBootAcked,
                    FbBootReplyLost, AdbBlocks, AdbUnblocks,
               FbLeave, FbKexecLoad, FbBoot, LoadImage
<1> QED
  BY <1>2, <1>3, <1>4, <1>5, <1>6, <1>7, <1>8, <1>9, <1>10, <1>11, <1>12,
     <1>13, <1>14, <1>15
     DEF Next, Coordinate, Discovery

\* Only entries that passed is_directly_bootable are ever chosen.
LEMMA NextBootable ==
  OnlyBootableIsChosen /\ [Next]_vars => OnlyBootableIsChosen'
<1> SUFFICES ASSUME OnlyBootableIsChosen, [Next]_vars
             PROVE  OnlyBootableIsChosen'
  OBVIOUS
<1> USE DEF OnlyBootableIsChosen, coordVars
<1>1. CASE RecvUiAction
  <2>1. \/ UNCHANGED choice
        \/ choice'.entry \in Row(Menu(boot_entries), Head(events).index)
    BY <1>1 DEF RecvUiAction, Decide
  <2> QED
    BY <2>1 DEF Row, Menu
<1>2. CASE RecvFastbootContinue
  BY <1>2, BootDefaultChoice DEF RecvFastbootContinue, DefaultEntry, Menu
<1>3. CASE RecvDiscoveryComplete
  BY <1>3, BootDefaultChoice DEF RecvDiscoveryComplete, DefaultEntry, Menu
<1>4. CASE UNCHANGED choice
  BY <1>4
<1> QED
  BY <1>1, <1>2, <1>3, <1>4
     DEF Next, Coordinate, Discovery, Ui, Fastboot, vars, ListPartitions,
         ListPartitionsFails, ScanComplete, ScanReport, RecvFastbootErr,
         RecvFastbootAction, RecvDiscoveryUpdate, LoadEntry, ExecEntry,
         RunFastbootAction, UiPoll, UiTap, UiExits, UiPower, ForwardUiAction,
         FbStart, FbFatal, FbBootAcked, FbBootReplyLost,
         AdbBlocks, AdbUnblocks, FbLeave, FbKexecLoad,
         FbBoot, FbJoined, Gone

-----------------------------------------------------------------------------
(* Selections. The UI reports a row number, and the coordinator looks it up *)
(* in a list that may have grown since.                                     *)

\* The row with a given number moves up when the list grows: what is found at
\* the tapped row's number is the tapped entry or a better one.
LEMMA RowMovesUp ==
  ASSUME NEW list \in SUBSET Entry, NEW seen \in SUBSET list,
         NEW tapped \in seen,
         NEW e \in Row(list, Cardinality({f \in seen : f < tapped}))
  PROVE  e <= tapped /\ (seen = list => e = tapped)
<1> DEFINE Above(l, x) == {f \in l : f < x}
<1>1. /\ e \in list /\ e \in Nat /\ tapped \in Nat /\ list \subseteq Nat
      /\ Cardinality(Above(list, e)) = Cardinality(Above(seen, tapped))
  BY EntriesAreNat DEF Row
<1>2. IsFiniteSet(Above(list, e)) /\ IsFiniteSet(Above(seen, tapped))
  <2>1. IsFiniteSet(Entry)
    BY EntriesAssumption
  <2>2. Above(list, e) \in SUBSET Entry /\ Above(seen, tapped) \in SUBSET Entry
    OBVIOUS
  <2> QED
    BY <2>1, <2>2, FS_Subset
<1>3. /\ Cardinality(Above(list, e)) \in Nat
      /\ Cardinality(Above(seen, tapped)) \in Nat
  BY <1>2, FS_CardinalityType
<1>4. ASSUME tapped < e PROVE FALSE
  <2>1. (Above(seen, tapped) \union {tapped}) \in SUBSET Above(list, e)
    <3>1. \A f \in Above(seen, tapped) : f \in Nat /\ f \in list /\ f < tapped
      BY <1>1
    <3>2. \A f \in Above(seen, tapped) : f < e
      BY <1>1, <1>4, <3>1
    <3> QED
      BY <1>1, <1>4, <3>1, <3>2
  <2>2. Cardinality(Above(seen, tapped) \union {tapped})
          <= Cardinality(Above(list, e))
    BY <1>2, <2>1, FS_Subset
  <2>3. tapped \notin Above(seen, tapped)
    BY <1>1
  <2>4. Cardinality(Above(seen, tapped) \union {tapped})
          = Cardinality(Above(seen, tapped)) + 1
    BY <1>2, <2>3, FS_AddElement
  <2> QED
    BY <1>1, <1>3, <2>2, <2>4
<1>5. ASSUME seen = list, e < tapped PROVE FALSE
  <2>1. (Above(list, e) \union {e}) \in SUBSET Above(seen, tapped)
    <3>1. \A f \in Above(list, e) : f \in Nat /\ f \in list /\ f < e
      BY <1>1
    <3>2. \A f \in Above(list, e) : f < tapped
      BY <1>1, <1>5, <3>1
    <3> QED
      BY <1>1, <1>5, <3>1, <3>2
  <2>2. Cardinality(Above(list, e) \union {e})
          <= Cardinality(Above(seen, tapped))
    BY <1>2, <2>1, FS_Subset
  <2>3. e \notin Above(list, e)
    BY <1>1
  <2>4. Cardinality(Above(list, e) \union {e})
          = Cardinality(Above(list, e)) + 1
    BY <1>2, <2>3, FS_AddElement
  <2> QED
    BY <1>1, <1>3, <2>2, <2>4
<1> QED
  BY <1>1, <1>4, <1>5

\* A longer list has a longer menu.
LEMMA MenuGrows ==
  ASSUME NEW a, NEW b, a \subseteq b
  PROVE  Menu(a) \subseteq Menu(b)
  BY DEF Menu

\* A selection stays one of a menu that grows.
LEMMA TappedGrows ==
  ASSUME NEW a, NEW m, NEW n, Tapped(a, m), m \subseteq n
  PROVE  Tapped(a, n)
  BY DEF Tapped

\* Every list discovery sends contains the ones it sent before.
LEMMA NextGrow ==
  TypeOK /\ DiscInv /\ GrowInv /\ [Next]_vars => GrowInv'
<1> SUFFICES ASSUME TypeOK, DiscInv, GrowInv, [Next]_vars PROVE GrowInv'
  OBVIOUS
<1> USE DEF GrowInv, DiscoveryTypes, coordVars
<1>1. events \in Seq(Event)
  BY DEF TypeOK
<1>2. CASE ListPartitions
  BY <1>1, <1>2 DEF ListPartitions
<1>3. CASE ListPartitionsFails
  <2>1. found = {}
    BY <1>3 DEF ListPartitionsFails, DiscInv
  <2> QED
    BY <1>1, <1>3, <2>1 DEF ListPartitionsFails, Send
<1>4. CASE ScanComplete
  BY <1>1, <1>4 DEF ScanComplete, Send
<1>5. ASSUME NEW p \in Partition, ScanReport(p) PROVE GrowInv'
  <2>1. PICK entries \in {{}, EntriesOf[p]} :
          /\ found' = found \union entries
          /\ IF entries = {} THEN UNCHANGED events
             ELSE Send([type |-> "DiscoveryUpdate", entries |-> found'])
    BY <1>5 DEF ScanReport
  <2>2. found \subseteq found' /\ UNCHANGED boot_entries
    BY <1>5, <2>1 DEF ScanReport
  <2>3. CASE UNCHANGED events
    BY <2>2, <2>3
  <2>4. CASE events' = Append(events, [type |-> "DiscoveryUpdate",
                                       entries |-> found'])
    <3> DEFINE new == found'
               e == [type |-> "DiscoveryUpdate", entries |-> new]
    <3>1. e.entries = new /\ events' = Append(events, e)
      BY <2>4
    <3> HIDE DEF new, e
    <3>2. /\ Len(events') = Len(events) + 1 /\ events'[Len(events) + 1] = e
          /\ \A i \in 1..Len(events) : events'[i] = events[i]
      BY <1>1, <3>1
    <3>3. \A i \in 1..Len(events) : events[i].type \in DiscoveryTypes =>
            events[i].entries \subseteq new
      BY <2>2 DEF new
    <3>4. boot_entries \subseteq new
      BY <2>2 DEF new
    <3> QED
      BY <1>1, <2>2, <3>1, <3>2, <3>3, <3>4 DEF new
  <2> QED
    BY <2>1, <2>3, <2>4 DEF Send
<1>6. CASE ForwardUiAction
  <2>1. Head(ui_actions) \in UiEvent
    BY <1>6, HeadTail DEF ForwardUiAction, TypeOK
  <2>2. Head(ui_actions).type = "UiAction"
    BY <2>1 DEF UiEvent
  <2> QED
    BY <1>1, <1>6, <2>2 DEF ForwardUiAction, Send, discoVars
<1>7. CASE FbJoined
  BY <1>1, <1>7 DEF FbJoined, Send, discoVars
<1>8. CASE \/ RecvUiAction \/ RecvFastbootErr \/ RecvFastbootAction
           \/ RecvFastbootContinue
  <2>1. /\ events # <<>> /\ events' = Tail(events)
        /\ UNCHANGED <<discoVars, boot_entries>>
    BY <1>8 DEF RecvUiAction, RecvFastbootErr, RecvFastbootAction,
                RecvFastbootContinue, Receiving
  <2> QED
    BY <1>1, <2>1 DEF discoVars
<1>9. CASE RecvDiscoveryUpdate \/ RecvDiscoveryComplete
  <2>1. /\ events # <<>> /\ events' = Tail(events)
        /\ Head(events).type \in DiscoveryTypes
        /\ boot_entries' = Head(events).entries /\ UNCHANGED discoVars
    BY <1>9 DEF RecvDiscoveryUpdate, RecvDiscoveryComplete, Receiving,
                ApplyBootEntriesUpdate
  <2> QED
    BY <1>1, <2>1 DEF discoVars
<1>10. CASE \/ LoadEntry \/ ExecEntry \/ RunFastbootAction \/ Ui \/ Fastboot
            \/ Gone \/ UNCHANGED vars
  BY <1>10 DEF LoadEntry, ExecEntry, RunFastbootAction, Ui, UiPoll, UiTap,
               UiExits, UiPower, Fastboot, FbStart, FbFatal, FbBootAcked,
               FbBootReplyLost, AdbBlocks, AdbUnblocks,
               FbLeave, FbKexecLoad, FbBoot, Gone, vars, discoVars
<1> QED
  BY <1>2, <1>3, <1>4, <1>5, <1>6, <1>7, <1>8, <1>9, <1>10
     DEF Next, Coordinate, Discovery

\* The coordinator's menu keeps every row the UI has shown or will show.
LEMMA NextMenu ==
  TypeOK /\ GrowInv /\ MenuInv /\ [Next]_vars => MenuInv'
<1> SUFFICES ASSUME TypeOK, GrowInv, MenuInv, [Next]_vars PROVE MenuInv'
  OBVIOUS
<1> USE DEF MenuInv, uiVars, coordVars
<1>1. /\ events \in Seq(Event) /\ ui_actions \in Seq(UiEvent)
      /\ ui_commands \in Seq(SUBSET Entry)
  BY DEF TypeOK
<1>2. CASE Discovery
  <2>1. /\ UNCHANGED <<uiVars, coordVars>>
        /\ \/ UNCHANGED events
           \/ \E e : e.type # "UiAction" /\ events' = Append(events, e)
    <3>1. CASE ListPartitions
      BY <3>1 DEF ListPartitions
    <3>2. CASE ListPartitionsFails
      BY <3>2 DEF ListPartitionsFails, Send
    <3>3. CASE ScanComplete
      BY <3>3 DEF ScanComplete, Send
    <3>4. ASSUME NEW p \in Partition, ScanReport(p)
          PROVE  /\ UNCHANGED <<uiVars, coordVars>>
                 /\ \/ UNCHANGED events
                    \/ \E e : e.type # "UiAction" /\ events' = Append(events, e)
      BY <3>4 DEF ScanReport, Send
    <3> QED
      BY <1>2, <3>1, <3>2, <3>3, <3>4 DEF Discovery
  <2> QED
    BY <1>1, <2>1, SMTT(30)
<1>3. CASE UiPoll
  <2>1. /\ ui_commands # <<>> /\ shown' = ui_commands[Len(ui_commands)]
        /\ ui_commands' = <<>>
        /\ UNCHANGED <<ui_actions, events, coordVars>>
    BY <1>3 DEF UiPoll
  <2> QED
    BY <1>1, <2>1
<1>4. CASE UiTap
  <2>1. PICK e \in shown : ui_actions' = Append(ui_actions,
             [type |-> "UiAction", tapped |-> e, seen |-> shown,
              index |-> Cardinality({f \in shown : f < e})])
    BY <1>4 DEF UiTap
  <2> DEFINE a == [type |-> "UiAction", tapped |-> e, seen |-> shown,
                   index |-> Cardinality({f \in shown : f < e})]
  <2>2. Tapped(a, Menu(boot_entries))
    BY DEF Tapped
  <2>3. UNCHANGED <<shown, ui_commands, events, coordVars>>
    BY <1>4 DEF UiTap
  <2>4. ui_actions' = Append(ui_actions, a)
    BY <2>1
  <2> HIDE DEF a
  <2> QED
    BY <1>1, <2>2, <2>3, <2>4
<1>5. CASE ForwardUiAction
  <2>1. /\ ui_actions # <<>> /\ events' = Append(events, Head(ui_actions))
        /\ ui_actions' = Tail(ui_actions)
        /\ UNCHANGED <<shown, ui_commands, coordVars>>
    BY <1>5 DEF ForwardUiAction, Send
  <2>2. Tapped(Head(ui_actions), Menu(boot_entries))
    BY <1>1, <2>1
  <2>3. \A i \in 1..Len(ui_actions') : Tapped(ui_actions'[i], Menu(boot_entries))
    BY <1>1, <2>1
  <2>4. \A i \in 1..Len(events') : events'[i].type = "UiAction" =>
          Tapped(events'[i], Menu(boot_entries))
    <3> DEFINE a == Head(ui_actions)
    <3>1. Tapped(a, Menu(boot_entries)) /\ events' = Append(events, a)
      BY <2>1, <2>2
    <3> HIDE DEF a
    <3> QED
      BY <1>1, <3>1
  <2> QED
    BY <2>1, <2>3, <2>4
<1>6. CASE FbJoined
  <2>1. \E e : e.type # "UiAction" /\ events' = Append(events, e)
    BY <1>6 DEF FbJoined, Send
  <2>2. UNCHANGED <<uiVars, coordVars>>
    BY <1>6 DEF FbJoined
  <2> QED
    BY <1>1, <2>1, <2>2
<1>7. CASE \/ RecvUiAction \/ RecvFastbootErr \/ RecvFastbootAction
           \/ RecvFastbootContinue
  <2>1. /\ events # <<>> /\ events' = Tail(events)
        /\ UNCHANGED <<uiVars, boot_entries>>
    BY <1>7 DEF RecvUiAction, RecvFastbootErr, RecvFastbootAction,
                RecvFastbootContinue, Receiving
  <2> QED
    BY <1>1, <2>1
<1>8. CASE RecvDiscoveryUpdate \/ RecvDiscoveryComplete
  <2>1. /\ events # <<>> /\ events' = Tail(events)
        /\ Head(events).type \in DiscoveryTypes
        /\ boot_entries' = Head(events).entries
        /\ \/ UNCHANGED ui_commands
           \/ ui_commands' = Append(ui_commands, Menu(boot_entries'))
        /\ UNCHANGED <<shown, ui_actions>>
    BY <1>8 DEF RecvDiscoveryUpdate, RecvDiscoveryComplete, Receiving,
                ApplyBootEntriesUpdate, DiscoveryTypes
  <2>2. boot_entries \subseteq boot_entries'
    BY <1>1, <2>1 DEF GrowInv
  <2>3. Menu(boot_entries) \subseteq Menu(boot_entries')
    BY <2>2, MenuGrows
  <2> DEFINE new == Menu(boot_entries')
  <2> HIDE DEF new
  <2>4. shown' \subseteq new
    BY <2>1, <2>3 DEF new
  <2>5. \A i \in 1..Len(ui_commands') : ui_commands'[i] \subseteq new
    <3>1. \A i \in 1..Len(ui_commands) : ui_commands[i] \subseteq new
      BY <2>3 DEF new
    <3>2. UNCHANGED ui_commands \/ ui_commands' = Append(ui_commands, new)
      BY <2>1 DEF new
    <3> QED
      BY <1>1, <3>1, <3>2
  <2>6. \A i \in 1..Len(ui_actions') : Tapped(ui_actions'[i], new)
    BY <2>1, <2>3, TappedGrows DEF new
  <2>7. \A i \in 1..Len(events') : events'[i].type = "UiAction" =>
          Tapped(events'[i], new)
    <3> SUFFICES ASSUME NEW i \in 1..Len(events'),
                        events'[i].type = "UiAction"
                 PROVE  Tapped(events'[i], new)
      OBVIOUS
    <3>1. i + 1 \in 1..Len(events) /\ events'[i] = events[i + 1]
      BY <1>1, <2>1
    <3>2. Tapped(events'[i], Menu(boot_entries))
      BY <3>1
    <3> QED
      BY <3>2, <2>3, TappedGrows DEF new
  <2> QED
    BY <2>4, <2>5, <2>6, <2>7 DEF new
<1>9. CASE \/ LoadEntry \/ ExecEntry \/ RunFastbootAction \/ UiExits \/ UiPower
           \/ Fastboot \/ Gone \/ UNCHANGED vars
  BY <1>9 DEF LoadEntry, ExecEntry, RunFastbootAction,
              UiExits, UiPower, Fastboot, FbStart, FbFatal, FbBootAcked,
              FbBootReplyLost, AdbBlocks, AdbUnblocks,
              FbLeave, FbKexecLoad, FbBoot, Gone, vars
<1> QED
  BY <1>2, <1>3, <1>4, <1>5, <1>6, <1>7, <1>8, <1>9
     DEF Next, Coordinate, Ui

\* A lookup of a row number can only move a selection up, and what discovery
\* finds later cannot make a selection on a partial menu one on the whole.
LEMMA NextMoved ==
  TypeOK /\ GrowInv /\ MenuInv /\ MovedInv /\ [Next]_vars => MovedInv'
<1> SUFFICES ASSUME TypeOK, GrowInv, MenuInv, MovedInv, [Next]_vars
             PROVE  MovedInv'
  OBVIOUS
<1> USE DEF MovedInv, StaleSelectionMovesUp
<1>1. CASE UNCHANGED choice /\ found \subseteq found'
  <2>1. Menu(found) \subseteq Menu(found')
    BY <1>1, MenuGrows
  <2> QED
    BY <1>1, <2>1
<1>2. CASE RecvUiAction /\ ~UNCHANGED choice
  <2> DEFINE a == Head(events)
             menu == Menu(boot_entries)
  <2>1. PICK e \in Row(menu, a.index) : Decide("ui", e, a.tapped, a.seen)
    BY <1>2 DEF RecvUiAction
  <2>2. a.type = "UiAction" /\ events # <<>> /\ UNCHANGED found
    BY <1>2 DEF RecvUiAction, Receiving, discoVars
  <2>3. events \in Seq(Event) /\ menu \in SUBSET Entry
    BY DEF TypeOK, Menu
  <2>4. Tapped(a, menu)
    BY <2>2, <2>3 DEF MenuInv
  <2>5. menu \subseteq Menu(found)
    BY MenuGrows DEF GrowInv
  <2>6. e <= a.tapped /\ (a.seen = menu => e = a.tapped)
    BY <2>3, <2>4, RowMovesUp DEF Tapped
  <2>7. choice'.entry = e /\ choice'.tapped = a.tapped /\ choice'.seen = a.seen
    BY <2>1 DEF Decide
  <2>8. a.seen \subseteq menu
    BY <2>4 DEF Tapped
  <2> HIDE DEF a, menu
  <2> QED
    BY <2>2, <2>5, <2>6, <2>7, <2>8
<1>3. CASE choice'.why = "default"
  BY <1>3
<1>4. CASE RecvFastbootContinue \/ RecvDiscoveryComplete
  <2>1. (UNCHANGED choice \/ choice'.why = "default") /\ UNCHANGED found
    BY <1>4 DEF RecvFastbootContinue, RecvDiscoveryComplete, BootDefault,
                Decide, discoVars
  <2> QED
    BY <1>1, <1>3, <2>1
<1>5. CASE \E p \in Partition : ScanReport(p)
  BY <1>1, <1>5 DEF ScanReport, coordVars
<1>6. CASE \/ ListPartitions \/ ListPartitionsFails \/ ScanComplete
           \/ RecvFastbootErr \/ RecvFastbootAction \/ RecvDiscoveryUpdate
           \/ LoadEntry \/ ExecEntry \/ RunFastbootAction \/ Ui
           \/ ForwardUiAction \/ Fastboot \/ FbJoined \/ Gone
           \/ UNCHANGED vars
  <2>1. UNCHANGED <<choice, found>>
    BY <1>6
       DEF ListPartitions, ListPartitionsFails, ScanComplete, RecvFastbootErr,
           RecvFastbootAction, RecvDiscoveryUpdate, LoadEntry, ExecEntry,
           RunFastbootAction, Ui, UiPoll, UiTap, UiExits, UiPower,
           ForwardUiAction, Fastboot, FbStart, FbFatal, FbBootAcked,
           FbBootReplyLost, AdbBlocks, AdbUnblocks, FbLeave, FbKexecLoad,
           FbBoot, FbJoined, Gone, vars, discoVars, coordVars
  <2> QED
    BY <1>1, <2>1
<1>7. CASE RecvUiAction /\ UNCHANGED choice
  BY <1>1, <1>7 DEF RecvUiAction, discoVars
<1> QED
  BY <1>2, <1>4, <1>5, <1>6, <1>7 DEF Next, Coordinate, Discovery

-----------------------------------------------------------------------------

IInv == /\ TypeOK /\ FbInv /\ DiscInv /\ ChanInv /\ LoadInv /\ AckInv
        /\ OnlyBootableIsChosen /\ GrowInv /\ MenuInv /\ MovedInv

\* /init's first state satisfies the whole invariant.
LEMMA InitInv == Init => IInv
<1> SUFFICES ASSUME Init PROVE IInv
  OBVIOUS
<1>1. TypeOK
  BY InitType
<1>2. FbInv /\ LoadInv /\ AckInv /\ OnlyBootableIsChosen
  BY DEF Init, FbInv, LoadInv, AckInv, NothingStaleIsExecuted,
         OnlyBootableIsChosen, NoChoice
<1>3. DiscInv /\ ChanInv
  BY DEF Init, DiscInv, ChanInv, DefaultIsBestOfScan, NoChoice
<1>4. GrowInv /\ MenuInv /\ MovedInv
  BY DEF Init, GrowInv, MenuInv, MovedInv, StaleSelectionMovesUp, NoChoice
<1> QED
  BY <1>1, <1>2, <1>3, <1>4 DEF IInv

\* The invariant holds in every reachable state of /init.
THEOREM Invariance == Spec => []IInv
<1>1. IInv /\ [Next]_vars => IInv'
  BY NextType, NextFb, NextDisc, NextChan, NextLoad, NextAck, NextBootable,
     NextGrow, NextMenu, NextMoved
     DEF IInv
<1> QED
  BY InitInv, <1>1, PTL DEF Spec

\* All threads agree on the types of what they share: an event always carries
\* what its receiver reads from it, and a joined fastboot thread a result.
THEOREM TypeCorrect == Spec => []TypeOK
<1>1. IInv => TypeOK
  BY DEF IInv
<1> QED
  BY Invariance, <1>1, PTL

\* A default boot is decided from the complete scan, however `continue`, the
\* scanners' reports and the user's selections interleave.
THEOREM DefaultFromWholeScan == Spec => []DefaultIsBestOfScan
<1>1. IInv => DefaultIsBestOfScan
  BY DEF IInv, DiscInv
<1> QED
  BY Invariance, <1>1, PTL

\* The coordinator never waits on a channel nobody can write to any more.
THEOREM ChannelOpen == Spec => []EventChannelStaysOpen
<1>1. IInv => EventChannelStaysOpen
  BY DEF IInv, ChanInv, EventChannelStaysOpen
<1> QED
  BY Invariance, <1>1, PTL

\* What runs for a chosen entry is the entry or an image fastboot loaded after
\* it, for any images, loads and failures: never a left-over of the slot.
THEOREM NothingStale == Spec => []NothingStaleIsExecuted
<1>1. IInv => NothingStaleIsExecuted
  BY DEF IInv, LoadInv
<1> QED
  BY Invariance, <1>1, PTL

\* The image that answered OKAY to `fastboot boot` is the one that is executed.
THEOREM AckedImage == Spec => []AckedImageIsExecuted
<1>1. IInv => AckedImageIsExecuted
  BY DEF IInv, AckInv, AckedImageIsExecuted
<1> QED
  BY Invariance, <1>1, PTL

\* Neither a stale menu index nor `continue` makes /init load an entry that
\* cannot be booted directly.
THEOREM OnlyBootable == Spec => []OnlyBootableIsChosen
<1>1. IInv => OnlyBootableIsChosen
  BY DEF IInv
<1> QED
  BY Invariance, <1>1, PTL

\* A stale row number never boots a worse entry than the one that was tapped,
\* and on the complete menu it boots that one, for any scan and any timing.
THEOREM SelectionMovesUp == Spec => []StaleSelectionMovesUp
<1>1. IInv => StaleSelectionMovesUp
  BY DEF IInv, MovedInv
<1> QED
  BY Invariance, <1>1, PTL

=============================================================================
