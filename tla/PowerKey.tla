------------------------------ MODULE PowerKey ------------------------------
(***************************************************************************)
(* The keys of the device and the power menu (src/ui.rs, ButtonInput,      *)
(* ButtonState and the loop of run; ui/main.slint). The power key opens    *)
(* the menu, chooses in it, confirms by being held and boots the selected  *)
(* entry, depending on where and how long it is pressed; keys are read in  *)
(* batches, a finger uses the same menu, and the devices of both may       *)
(* vanish and come back.                                                   *)
(***************************************************************************)
EXTENDS Integers, Sequences

CONSTANTS
    KeyHold,        \* POWER_KEY_HOLD in turns of the loop
    ActionHold,     \* the timer of the power menu in turns of the loop
    MaxQueue        \* bound: key events not yet read

ASSUME KeysAssumption == KeyHold \in Nat /\ ActionHold \in Nat \ {0} /\ MaxQueue \in Nat

VARIABLES
    pc,             \* "top", "read" or "dispatch"
    key,            \* the power key is down
    device,         \* its input device: "open", "failed" (unnoticed) or "dropped"
    queue,          \* key events the kernel holds for the device
    since,          \* power_pressed_since: turns ago, -1: not pressed
    long,           \* power_long_reported
    events,         \* ButtonEvents of this turn
    context,        \* power_press_context
    menu, selection, hold, timer,       \* the power menu
    booting,        \* an entry was activated
    finger,         \* where a finger is held: 0 nowhere, 1 shutdown, 2 reboot
    touch,          \* the touch device is open
    was_down,       \* TouchState::was_down: a finger was reported down
    pressed,        \* the action whose TouchArea is pressed, 0: none
    effects,        \* what the latest press of the power key did
    lost,           \* its device was dropped since the key was last read as pressed
    touch_lost      \* the touch device was, and no finger was reported up since

buttons == <<since, long>>
menuVars == <<menu, selection, hold, timer>>
world == <<key, queue>>
touchVars == <<finger, touch, was_down, pressed>>
history == <<effects, lost, touch_lost>>
vars == <<pc, world, device, buttons, events, context, menuVars, booting, touchVars, history>>

Init ==
    /\ pc = "top" /\ key = FALSE /\ device = "open" /\ queue = <<>>
    /\ since = -1 /\ long = FALSE /\ events = <<>> /\ context = "boot_menu"
    /\ menu = FALSE /\ selection = 0 /\ hold = 0 /\ timer = 0
    /\ booting = FALSE /\ effects = 0 /\ lost = FALSE
    /\ finger = 0 /\ touch = TRUE /\ was_down = FALSE /\ pressed = 0 /\ touch_lost = FALSE

(* External: keys and their device. An event that finds the queue full, or *)
(* the device gone, is lost. Keys move between the turns: one that moves   *)
(* within a turn is read as if it had moved before it or after it.         *)
Queued(e) == queue' = IF device = "open" /\ Len(queue) < MaxQueue THEN Append(queue, e) ELSE queue

KeyMoves ==
    /\ pc = "top" /\ key' = ~key
    /\ Queued(IF key THEN "power_up" ELSE "power_down")
    /\ UNCHANGED <<pc, device, buttons, events, context, menuVars, booting, touchVars, history>>

VolumeKey ==
    /\ pc = "top" /\ \E e \in {"volume_up", "volume_down"} : Queued(e)
    /\ UNCHANGED <<pc, key, device, buttons, events, context, menuVars, booting, touchVars, history>>

DeviceFails ==
    /\ pc # "dispatch" /\ device = "open" /\ device' = "failed" /\ queue' = <<>>
    /\ UNCHANGED <<pc, key, buttons, events, context, menuVars, booting, touchVars, history>>

begin_power_hold(action) == hold' = action

(* External: a finger on the power button, beside the menu, or on one of   *)
(* the two actions of the menu until it is lifted. It is reported as long  *)
(* as the touch device is open (TouchState::report), and what is pressed   *)
(* in Slint takes every report of the pointer until it is up.              *)
PointerDown(action) ==
    /\ was_down' = TRUE
    /\ IF pressed # 0 THEN UNCHANGED <<pressed, hold>>
       ELSE pressed' = action /\ begin_power_hold(action)

PointerUp ==
    /\ was_down' = FALSE /\ pressed' = 0 /\ touch_lost' = FALSE
    /\ hold' = IF hold = pressed THEN 0 ELSE hold

FingerTaps ==
    /\ pc = "top" /\ finger = 0 /\ touch
    /\ \/ /\ pressed = 0
          /\ IF menu THEN hold = 0 /\ menu' = FALSE ELSE menu' = TRUE
          /\ selection' = 0 /\ hold' = 0 /\ UNCHANGED <<was_down, pressed, touch_lost>>
       \/ pressed # 0 /\ PointerUp /\ UNCHANGED <<menu, selection>>
    /\ UNCHANGED <<pc, world, device, buttons, events, context, timer, booting, finger, touch,
                   effects, lost>>

FingerPresses ==
    /\ pc = "top" /\ finger = 0 /\ menu
    /\ finger' \in {1, 2}
    /\ IF touch THEN PointerDown(finger') ELSE UNCHANGED <<was_down, pressed, hold>>
    /\ UNCHANGED <<pc, world, device, buttons, events, context, menu, selection, timer, booting,
                   touch, history>>

FingerLifts ==
    /\ pc = "top" /\ finger # 0 /\ finger' = 0
    /\ IF was_down THEN PointerUp ELSE UNCHANGED <<was_down, pressed, hold, touch_lost>>
    /\ UNCHANGED <<pc, world, device, buttons, events, context, menu, selection, timer, booting,
                   touch, effects, lost>>

\* TouchInput::poll: a device that cannot be read is dropped with its state,
\* and nothing tells Slint that the finger is up.
DropTouch ==
    /\ pc = "top" /\ touch /\ touch' = FALSE
    /\ was_down' = FALSE /\ touch_lost' = (touch_lost \/ was_down)
    /\ UNCHANGED <<pc, world, device, buttons, events, context, menuVars, booting, finger, pressed,
                   effects, lost>>

\* TouchInput::rescan, TouchDevice::open
RescanTouch ==
    /\ pc = "top" /\ ~touch /\ touch' = TRUE
    /\ UNCHANGED <<pc, world, device, buttons, events, context, menuVars, booting, finger, was_down,
                   pressed, history>>

\* A device that came back may report a finger that is held.
FingerSeen ==
    /\ pc = "top" /\ touch /\ finger # 0 /\ ~was_down /\ (menu \/ pressed # 0)
    /\ PointerDown(finger)
    /\ UNCHANGED <<pc, world, device, buttons, events, context, menu, selection, timer, booting,
                   finger, touch, history>>

(* A turn begins: time has passed, and the timer that runs while something *)
(* is held may be due (confirm-power-hold).                                *)
Turn ==
    /\ pc = "top" /\ pc' = "read"
    /\ since' = IF since \in 0 .. KeyHold - 1 THEN since + 1 ELSE since
    /\ IF hold # 0 /\ timer + 1 = ActionHold
       THEN menu' = FALSE /\ hold' = 0 /\ timer' = 0
       ELSE timer' = (IF hold = 0 THEN 0 ELSE timer + 1) /\ UNCHANGED <<menu, hold>>
    /\ UNCHANGED <<world, device, long, events, context, selection, booting, touchVars, history>>

\* ButtonState::handle, handle_power
Read ==
    /\ pc = "read" /\ device = "open" /\ queue # <<>>
    /\ queue' = Tail(queue)
    /\ lost' = (lost /\ Head(queue) # "power_down")
    /\ CASE Head(queue) = "power_down" ->
              since' = 0 /\ long' = FALSE /\ events' = Append(events, "power_pressed")
         [] Head(queue) = "power_up" ->
              /\ since' = -1 /\ long' = FALSE
              /\ events' = IF since = -1 THEN events
                           ELSE IF long THEN Append(events, "power_released")
                           ELSE events \o <<"power_released", "power_short_press">>
         [] Head(queue) = "volume_up" -> events' = Append(events, "previous") /\ UNCHANGED buttons
         [] Head(queue) = "volume_down" -> events' = Append(events, "next") /\ UNCHANGED buttons
    /\ UNCHANGED <<pc, key, device, context, menuVars, booting, touchVars, effects, touch_lost>>

\* ButtonState::poll
LongPress ==
    IF since = KeyHold /\ ~long
    THEN long' = TRUE /\ events' = Append(events, "open_menu")
    ELSE UNCHANGED <<long, events>>

\* ButtonDevice::poll, when the device has nothing more
ReadAll ==
    /\ pc = "read" /\ device = "open" /\ queue = <<>>
    /\ LongPress
    /\ pc' = "dispatch"
    /\ UNCHANGED <<world, device, since, context, menuVars, booting, touchVars, history>>

\* ButtonInput::poll: a device that cannot be read is dropped with its state.
DropDevice ==
    /\ pc = "read" /\ device # "open"
    /\ device' = "dropped"
    /\ since' = -1 /\ long' = FALSE
    /\ lost' = (lost \/ device = "failed")
    /\ pc' = "dispatch"
    /\ UNCHANGED <<world, events, context, menuVars, booting, touchVars, effects, touch_lost>>

\* ButtonInput::rescan, ButtonDevice::open
Rescan ==
    /\ pc = "read" /\ device = "dropped"
    /\ device' = "open"
    /\ UNCHANGED <<pc, world, buttons, events, context, menuVars, booting, touchVars, history>>

-----------------------------------------------------------------------------
(* run: the events of the turn, one after the other                        *)

Dispatch(e) ==
    /\ pc = "dispatch" /\ events # <<>> /\ Head(events) = e
    /\ events' = Tail(events)
    /\ UNCHANGED <<pc, world, device, buttons, timer, touchVars>>

set_power_menu_selection(s) == hold' = 0 /\ selection' = s

Navigate ==
    /\ \/ Dispatch("previous") /\ set_power_menu_selection(IF selection > 0 THEN selection - 1 ELSE 0)
       \/ Dispatch("next") /\ set_power_menu_selection(IF selection < 2 THEN selection + 1 ELSE 2)
    /\ menu
    /\ UNCHANGED <<context, menu, booting, history>>

\* in the boot menu: the selected row (BootCoordinator)
NavigateRows ==
    /\ Dispatch("previous") \/ Dispatch("next")
    /\ ~menu
    /\ UNCHANGED <<context, menu, selection, hold, booting, history>>

PowerPressed ==
    /\ Dispatch("power_pressed")
    /\ context' = IF menu THEN "power_menu" ELSE "boot_menu"
    /\ effects' = IF menu THEN 1 ELSE 0
    /\ IF ~menu THEN UNCHANGED <<menu, selection, hold>>
       ELSE IF selection = 0
            THEN IF hold = 0 THEN menu' = FALSE /\ UNCHANGED <<selection, hold>>
                             ELSE UNCHANGED <<menu, selection, hold>>
            ELSE begin_power_hold(selection) /\ UNCHANGED <<menu, selection>>
    /\ UNCHANGED <<booting, lost, touch_lost>>

\* Fault: a release does not end what is held.
PowerReleased_keeps_hold ==
    /\ Dispatch("power_released")
    /\ UNCHANGED <<context, menu, selection, hold, booting, history>>

PowerReleased ==
    /\ Dispatch("power_released")
    /\ hold' = IF menu THEN 0 ELSE hold
    /\ UNCHANGED <<context, menu, selection, booting, history>>

\* activate-boot-selection
Activate == booting' = TRUE /\ effects' = effects + 1

PowerShortPress ==
    /\ Dispatch("power_short_press")
    /\ IF context = "boot_menu" /\ ~menu /\ ~booting THEN Activate ELSE UNCHANGED <<booting, effects>>
    /\ UNCHANGED <<context, menu, selection, hold, lost, touch_lost>>

\* show-power-menu
OpenMenu ==
    /\ Dispatch("open_menu")
    /\ IF context = "boot_menu" /\ ~menu
       THEN menu' = TRUE /\ selection' = 0 /\ hold' = 0 /\ effects' = effects + 1
       ELSE UNCHANGED <<menu, selection, hold, effects>>
    /\ UNCHANGED <<context, booting, lost, touch_lost>>

\* External: the coordinator could not boot the entry and shows the menu again.
BootFails ==
    /\ pc = "top" /\ booting /\ booting' = FALSE
    /\ UNCHANGED <<pc, world, device, buttons, events, context, menuVars, touchVars, history>>

Dispatched ==
    /\ pc = "dispatch" /\ events = <<>> /\ pc' = "top"
    /\ UNCHANGED <<world, device, buttons, events, context, menuVars, booting, touchVars, history>>

Next == \/ KeyMoves \/ VolumeKey \/ DeviceFails \/ FingerTaps \/ FingerPresses \/ FingerLifts
        \/ DropTouch \/ RescanTouch \/ FingerSeen
        \/ Turn \/ Read \/ ReadAll \/ DropDevice \/ Rescan
        \/ Navigate \/ NavigateRows \/ PowerPressed \/ PowerReleased \/ PowerShortPress
        \/ OpenMenu \/ BootFails \/ Dispatched

Spec == Init /\ [][Next]_vars

-----------------------------------------------------------------------------
\* Every variable has the type the code gives it.
TypeOK ==
    /\ pc \in {"top", "read", "dispatch"} /\ key \in BOOLEAN
    /\ device \in {"open", "failed", "dropped"}
    /\ queue \in Seq({"power_down", "power_up", "volume_up", "volume_down"})
    /\ since \in -1 .. KeyHold /\ long \in BOOLEAN
    /\ events \in Seq({"power_pressed", "power_released", "power_short_press", "open_menu",
                       "previous", "next"})
    /\ context \in {"boot_menu", "power_menu"}
    /\ menu \in BOOLEAN /\ selection \in 0 .. 2 /\ hold \in 0 .. 2 /\ timer \in Nat
    /\ booting \in BOOLEAN /\ effects \in Nat /\ lost \in BOOLEAN /\ touch_lost \in BOOLEAN
    /\ finger \in 0 .. 2 /\ touch \in BOOLEAN /\ was_down \in BOOLEAN /\ pressed \in 0 .. 2

\* One press of the power key does one thing: it boots the selected entry,
\* opens the menu, closes it or begins a hold, also when it began in a menu
\* that it closed; and the timer of the power menu runs only as long as the
\* key, as far as it was read, or a finger is down (PowerPressContext,
\* ButtonState, hold-action). Two exceptions, both of a device that goes away
\* while it is held: the key's, whose release is not read any more, and the
\* touch device, whose finger is not reported up, so that the action under it
\* stays pressed (TouchInput::poll).
PowerKeyIsObeyed ==
    /\ effects <= 1
    /\ pc = "top" /\ hold # 0 =>
         since # -1 \/ finger # 0 \/ lost \/ (touch_lost /\ hold = pressed)

\* An action counts down only while it is held: the menu says "Hold for 2
\* seconds" and "Keep holding..." (ui/main.slint), and the key's device has
\* its exception above. The code breaks this for a touch device that is
\* dropped under a finger (TouchInput::poll): the finger may be lifted, and
\* the machine is shut down or rebooted all the same.
HeldActionIsHeld == pc = "top" /\ hold # 0 => since # -1 \/ finger # 0 \/ lost
=============================================================================
