----------------------------- MODULE KmsDisplay -----------------------------
(***************************************************************************)
(* Drawing on the screen (src/ui.rs, KmsDisplay and the loop of run). The  *)
(* user interface is rendered into a cached buffer in memory; three        *)
(* framebuffers take turns, and each is brought up to date by copying the  *)
(* damage it missed while the others were shown. Two laboratories drive    *)
(* the same loop: DrmPageFlipLab asks for a number of page flips, and      *)
(* UiAnimationLab checks every copy of 18 frames in a row.                 *)
(*                                                                         *)
(* Pixels are not given values: what matters is which pixels of a          *)
(* framebuffer differ from the cached buffer.                              *)
(***************************************************************************)
EXTENDS Integers, Sequences

CONSTANTS
    W, H,               \* size of the screen in pixels
    Regions,            \* what the renderer may report: sequences of rectangles
    LabRegions,         \* what it may report for a change of the test pattern
    MaxRects,           \* MAX_PENDING_DAMAGE_RECTS
    Flips,              \* page flips DrmPageFlipLab is asked for
    States,             \* ANIMATION_LAB_DAMAGE_PATTERN_STATES
    PerState,           \* ANIMATION_LAB_DAMAGE_FRAMES_PER_STATE
    None

Buffers == 0 .. 2
Frames  == (States + 1) * PerState

VARIABLES
    lab,                \* "off", "flips" or "animation"
    pc,                 \* the step of the loop, or "failed"
    redraw,             \* the window asked for a redraw
    region,             \* what the renderer will report for it, if the lab knows
    age,                \* of the cached buffer; 0: never rendered
    front, back, in_flight,
    damage,             \* pending_damage of a framebuffer
    stale,              \* pixels of a framebuffer that differ from the cached one
    posted, flip_pending,
    queued, scanned,    \* kernel: the flip under way, the buffer on the screen
    event,              \* kernel: the event of a completed flip
    whole,              \* framebuffers that hold exactly one frame
    remaining, baseline, reported,      \* DrmPageFlipLab
    phase,              \* UiAnimationLab: "off", "wait", "warm", "validate", "done"
    next,               \* the next frame of the validation
    shadow,             \* pixels of a buffer's validation_shadow that differ
    stats,              \* CopyValidationStats
    flips               \* completed_page_flips while somebody counts

buffers == <<front, back, in_flight>>
kernel  == <<queued, scanned, event>>
flipLab == <<remaining, baseline, reported>>
vars == <<lab, pc, redraw, region, age, buffers, damage, stale, posted, flip_pending,
          kernel, whole, flipLab, phase, shadow, stats, flips, next>>

Pixels == (0 .. W - 1) \X (0 .. H - 1)

-----------------------------------------------------------------------------
(* Rectangles and damage *)

Clean        == [kind |-> "clean"]
Full(reason) == [kind |-> "full", reason |-> reason]
Rects(rs)    == [kind |-> "rects", rects |-> rs]

Rectangle == [x : Int, y : Int, width : Nat, height : Nat]
Rect(x, y, w, h) == [x |-> x, y |-> y, width |-> w, height |-> h]
Area(r) == r.width * r.height
PixelsOf(r) == {p \in Pixels : p[1] \in r.x .. (r.x + r.width - 1) /\ p[2] \in r.y .. (r.y + r.height - 1)}

Least(a, b)    == IF a < b THEN a ELSE b
Greatest(a, b) == IF a > b THEN a ELSE b

merged(r, q) ==
    LET x == Least(r.x, q.x)
        y == Least(r.y, q.y)
    IN Rect(x, y, Greatest(r.x + r.width, q.x + q.width) - x, Greatest(r.y + r.height, q.y + q.height) - y)

Mergeable(r, q) == Area(merged(r, q)) <= Area(r) + Area(q)

\* Vec::swap_remove
SwapRemove(rs, i) == [j \in 1 .. Len(rs) - 1 |-> IF j = i THEN rs[Len(rs)] ELSE rs[j]]

\* The candidate takes in the first rectangle it can be merged with at no cost.
Absorb(m) ==
    LET fits  == {i \in DOMAIN m.rects : Mergeable(m.candidate, m.rects[i])}
        first == CHOOSE i \in fits : \A j \in fits : i <= j
    IN IF fits = {} THEN m
       ELSE [rects |-> SwapRemove(m.rects, first), candidate |-> merged(m.candidate, m.rects[first])]

\* It does so until there is none, which is after all of them at the latest.
Coalesce(rs, r) ==
    LET Absorbed[n \in 0 .. Len(rs)] ==
            IF n = 0 THEN [rects |-> rs, candidate |-> r] ELSE Absorb(Absorbed[n - 1])
        last == Absorbed[Len(rs)]
    IN Append(last.rects, last.candidate)

\* A rectangle is added to damage that is not full; too many make it full.
push_coalesced_rect(d, r) ==
    IF d.kind = "full" THEN d
    ELSE LET rs == Coalesce(IF d.kind = "clean" THEN <<>> ELSE d.rects, r)
         IN IF Len(rs) > MaxRects THEN Full("too_many_rects") ELSE Rects(rs)

Clamp(v, limit) == Greatest(0, Least(v, limit))

clipped(r) ==
    LET x == Clamp(r.x, W)
        y == Clamp(r.y, H)
    IN Rect(x, y, Clamp(r.x + r.width, W) - x, Clamp(r.y + r.height, H) - y)

\* What the renderer reports; what lies off the screen is passed over.
from_physical_region(rs, new_buffer) ==
    LET Seen[n \in 0 .. Len(rs)] ==
            IF n = 0 THEN Clean
            ELSE IF Area(clipped(rs[n])) = 0 THEN Seen[n - 1]
            ELSE push_coalesced_rect(Seen[n - 1], clipped(rs[n]))
    IN IF new_buffer THEN Full("new_render_buffer") ELSE Seen[Len(rs)]

\* Damage of a frame is added to that of a buffer.
PushAll(d, rs) ==
    LET Pushed[n \in 0 .. Len(rs)] == IF n = 0 THEN d ELSE push_coalesced_rect(Pushed[n - 1], rs[n])
    IN Pushed[Len(rs)]

accumulate(d, new) ==
    IF new.kind = "full" /\ d.kind # "full" THEN new
    ELSE IF new.kind = "rects" THEN PushAll(d, new.rects)
    ELSE d

TotalArea(d) ==
    LET Sum[n \in 0 .. Len(d.rects)] == IF n = 0 THEN 0 ELSE Sum[n - 1] + Area(d.rects[n])
    IN Sum[Len(d.rects)]

\* How a framebuffer with this damage is brought up to date, and its pixels.
CopyMode(d) == IF d.kind = "rects" /\ TotalArea(d) >= W * H THEN Full("damage_cost") ELSE d
Copied(mode) ==
    CASE mode.kind = "clean" -> {}
      [] mode.kind = "full"  -> Pixels
      [] mode.kind = "rects" -> UNION {PixelsOf(mode.rects[i]) : i \in DOMAIN mode.rects}

-----------------------------------------------------------------------------
NoStats == [checks |-> 0, mismatches |-> 0, buffer |-> [b \in Buffers |-> 0], seed |-> 0, fallback |-> 0]

Init ==
    /\ lab \in {"off", "flips", "animation"}
    /\ pc = "top" /\ redraw = TRUE /\ region = None /\ age = 0
    /\ front = 0 /\ back = 1 /\ in_flight = 2
    /\ damage = [b \in Buffers |-> Full("virgin_buffer")]
    /\ stale = [b \in Buffers |-> Pixels]
    /\ posted = FALSE /\ flip_pending = FALSE
    /\ queued = None /\ scanned = None /\ event = FALSE /\ whole = {}
    /\ remaining = (IF lab = "flips" THEN Flips ELSE 0) /\ baseline = FALSE /\ reported = FALSE
    /\ phase = (IF lab = "animation" THEN "wait" ELSE "off")
    /\ shadow = [b \in Buffers |-> {}] /\ stats = NoStats /\ flips = 0 /\ next = 0

\* Fault: the frame that sets the mode is taken for a flip.
request_next_unposted == lab = "flips" /\ remaining > 0

request_next == lab = "flips" /\ posted /\ remaining > 0

(* The top of the loop; outside the validation the user interface may want *)
(* to be redrawn for any reason, an animation, a command or an input.      *)
Top ==
    /\ pc = "top"
    /\ remaining' = IF request_next THEN remaining - 1 ELSE remaining
    /\ baseline' = (baseline \/ request_next)
    /\ \E other \in (IF phase = "validate" THEN {FALSE} ELSE BOOLEAN) :
         redraw' = (redraw \/ request_next \/ other)
    /\ pc' = "poll"
    /\ UNCHANGED <<lab, region, age, buffers, damage, stale, posted, flip_pending, kernel, whole,
                   reported, phase, shadow, stats, flips, next>>

\* the test pattern of a validation frame, and whether it is copied in full
damage_validation_pattern(f) == IF f < States * PerState THEN f \div PerState + 1 ELSE 0
damage_validation_is_reference(f) == f % PerState = (f \div PerState) % PerState

AskFor(f) ==
    /\ redraw' = TRUE
    /\ region' = IF f = 0 \/ damage_validation_pattern(f) # damage_validation_pattern(f - 1)
                 THEN "pattern" ELSE "nothing"

Polled == pc = "poll" /\ pc' = "draw"

\* UiAnimationLab::poll outside the validation: the menu and the two holds
Warm ==
    /\ Polled /\ phase # "validate"
    /\ phase' = IF phase = "wait" /\ posted THEN "warm" ELSE phase
    /\ UNCHANGED <<lab, redraw, region, age, buffers, damage, stale, posted, flip_pending, kernel,
                   whole, flipLab, shadow, stats, flips, next>>

\* Every buffer gets an empty shadow and is to be copied in full; the one drawn
\* next is the first reference frame (force_back_buffer_full_copy).
begin_copy_validation ==
    /\ shadow' = [b \in Buffers |-> Pixels]
    /\ damage' = [b \in Buffers |-> IF b = back THEN Full("validation_fallback") ELSE Full("validation_seed")]
    /\ stats' = NoStats

(* The first frame of the validation                                       *)
BeginValidation ==
    /\ Polled /\ phase = "warm" /\ ~flip_pending
    /\ begin_copy_validation /\ flips' = 0
    /\ AskFor(0) /\ phase' = "validate" /\ next' = 1
    /\ UNCHANGED <<lab, age, buffers, stale, posted, flip_pending, kernel, whole, flipLab>>

ValidationFrame ==
    /\ Polled /\ phase = "validate" /\ next < Frames /\ ~flip_pending
    /\ damage' = IF damage_validation_is_reference(next)
                 THEN [damage EXCEPT ![back] = Full("validation_fallback")] ELSE damage
    /\ AskFor(next) /\ next' = next + 1
    /\ UNCHANGED <<lab, age, buffers, stale, posted, flip_pending, kernel, whole, flipLab,
                   phase, shadow, stats, flips>>

FinishValidation ==
    /\ Polled /\ phase = "validate" /\ next = Frames /\ ~flip_pending
    /\ phase' = "done" /\ shadow' = [b \in Buffers |-> {}]
    /\ UNCHANGED <<lab, redraw, region, age, buffers, damage, stale, posted, flip_pending, kernel,
                   whole, flipLab, stats, flips, next>>

NoDraw ==
    /\ pc = "draw" /\ ~redraw /\ pc' = "drain"
    /\ UNCHANGED <<lab, redraw, region, age, buffers, damage, stale, posted, flip_pending, kernel,
                   whole, flipLab, phase, shadow, stats, flips, next>>

Painted == CASE region = "pattern" -> LabRegions
             [] region = "nothing" -> {<<>>}
             [] OTHER -> Regions

\* Fault: only the buffer that is drawn now takes note of the damage.
Noted_back_only(new) == [damage EXCEPT ![back] = accumulate(damage[back], new)]

\* All three buffers take note of the damage.
Noted(new) == [b \in Buffers |-> accumulate(damage[b], new)]

\* CachedRenderBuffer::render: the pixels it changes; the first time all of them
Changed(rs) == IF age = 0 THEN Pixels ELSE UNION {PixelsOf(rs[i]) : i \in DOMAIN rs}

(* The frame is rendered and its damage noted; the copy begins             *)
Render ==
    /\ pc = "draw" /\ redraw
    /\ \E rs \in IF age = 0 THEN {<<>>} ELSE Painted :
         /\ stale' = [b \in Buffers |-> stale[b] \cup Changed(rs)]
         /\ shadow' = IF phase = "validate"
                      THEN [b \in Buffers |-> shadow[b] \cup Changed(rs)] ELSE shadow
         /\ damage' = Noted(from_physical_region(rs, age = 0))
    /\ age' = 1 /\ redraw' = FALSE /\ region' = None
    /\ whole' = whole \ {back}
    /\ pc' = "copy"
    /\ UNCHANGED <<lab, buffers, posted, flip_pending, kernel, flipLab, phase, stats, flips, next>>

record(mode, matches) ==
    [stats EXCEPT !.checks = @ + 1, !.buffer[back] = @ + 1,
                  !.mismatches = IF matches THEN @ ELSE @ + 1,
                  !.seed = IF matches /\ mode = Full("validation_seed") THEN @ + 1 ELSE @,
                  !.fallback = IF matches /\ mode = Full("validation_fallback") THEN @ + 1 ELSE @]

\* The shadow gets the same copy; the pixels in which it still differs.
update_validation_shadow(mode) == shadow[back] \ Copied(mode)

Copy ==
    LET mode == CopyMode(damage[back])
        left == update_validation_shadow(mode)
    IN /\ pc = "copy" /\ pc' = "present"
       /\ stale' = [stale EXCEPT ![back] = @ \ Copied(mode)]
       /\ whole' = IF stale'[back] = {} THEN whole \cup {back} ELSE whole
       /\ damage' = [damage EXCEPT ![back] = Clean]
       /\ IF phase = "validate"
          THEN shadow' = [shadow EXCEPT ![back] = left] /\ stats' = record(mode, left = {})
          ELSE UNCHANGED <<shadow, stats>>
       /\ UNCHANGED <<lab, redraw, region, age, buffers, posted, flip_pending, kernel, flipLab,
                      phase, flips, next>>

(* present: the previous flip was waited for                               *)
Present ==
    /\ pc = "present" /\ ~flip_pending
    /\ back' = front /\ front' = in_flight /\ in_flight' = back
    /\ IF posted
       THEN /\ flip_pending' = TRUE /\ queued' = back
            /\ UNCHANGED <<posted, scanned>>
       ELSE /\ posted' = TRUE /\ scanned' = back
            /\ UNCHANGED <<flip_pending, queued>>
    /\ pc' = "drain"
    /\ UNCHANGED <<lab, redraw, region, age, damage, stale, event, whole, flipLab, phase,
                   shadow, stats, flips, next>>

\* map_dumb_buffer, set_crtc or page_flip fails, which ends the user interface
DrawFails ==
    /\ pc = "copy" \/ (pc = "present" /\ ~flip_pending)
    /\ pc' = "failed"
    /\ UNCHANGED <<lab, redraw, region, age, buffers, damage, stale, posted, flip_pending, kernel,
                   whole, flipLab, phase, shadow, stats, flips, next>>

\* External: the kernel flips at the next vertical blank.
Vblank ==
    /\ queued # None
    /\ scanned' = queued /\ queued' = None /\ event' = TRUE
    /\ UNCHANGED <<lab, pc, redraw, region, age, buffers, damage, stale, posted, flip_pending,
                   whole, flipLab, phase, shadow, stats, flips, next>>

should_drain == baseline /\ remaining = 0 /\ flip_pending

(* wait_for_page_flip: before a frame is presented, by a step of           *)
(* UiAnimationLab that is due, and when DrmPageFlipLab is at its end       *)
FlipCompletes ==
    /\ flip_pending /\ event
    /\ \/ pc = "present"
       \/ pc = "poll" /\ phase \in {"warm", "validate"}
       \/ pc = "drain" /\ should_drain
    /\ flip_pending' = FALSE /\ event' = FALSE
    /\ flips' = IF (baseline /\ ~reported) \/ phase = "validate" THEN flips + 1 ELSE flips
    /\ UNCHANGED <<lab, pc, redraw, region, age, buffers, damage, stale, posted, queued, scanned,
                   whole, flipLab, phase, shadow, stats, next>>

(* DrmPageFlipLab::finish                                                  *)
Drain ==
    /\ pc = "drain" /\ ~should_drain
    /\ reported' = (reported \/ (baseline /\ remaining = 0 /\ ~flip_pending))
    /\ pc' = "top"
    /\ UNCHANGED <<lab, redraw, region, age, buffers, damage, stale, posted, flip_pending, kernel,
                   whole, remaining, baseline, phase, shadow, stats, flips, next>>

Next == \/ Top \/ Warm \/ BeginValidation \/ ValidationFrame \/ FinishValidation
        \/ NoDraw \/ Render \/ Copy \/ Present \/ DrawFails
        \/ Vblank \/ FlipCompletes \/ Drain

Spec == Init /\ [][Next]_vars

-----------------------------------------------------------------------------
\* What is on the screen, or will be at the next vertical blank, is one whole
\* frame: a framebuffer catches up with all the damage it missed, and none is
\* written while it is shown or about to be (KmsDisplay::render, present).
OnlyWholeFramesAreShown ==
    {scanned, queued} \ {None} \subseteq whole

\* DrmPageFlipLab reports as many flips as it was asked for, and the validation
\* of UiAnimationLab finds what passes() demands: each buffer checked as often
\* as the others, no mismatch, each reference frame copied in full, and one
\* flip per frame.
LabCountsAreExact ==
    /\ reported => flips = Flips
    /\ phase = "done" =>
           stats = [checks |-> Frames, mismatches |-> 0, buffer |-> [b \in Buffers |-> Frames \div 3],
                    seed |-> 2, fallback |-> States + 1]
           /\ flips = Frames
=============================================================================
