------------------------------ MODULE MCDisplay ------------------------------
(* The keys and the power menu, and a screen of 3 x 2 pixels. The two share    *)
(* the loop of run and no state, so that a behaviour runs one of them and      *)
(* leaves the other where it starts.                                           *)
EXTENDS PowerKey

CONSTANTS W, H, Regions, LabRegions, MaxRects, Flips, States, PerState, None

VARIABLES
    keys, lab, dPc, redraw, region, age, front, back, in_flight, damage, stale,
    posted, flip_pending, queued, scanned, event, whole, remaining, baseline,
    reported, phase, next, shadow, stats, flips

D == INSTANCE KmsDisplay WITH pc <- dPc

\* The renderer reports rectangles; the validation shows each of its pictures
\* as often as there are framebuffers (ANIMATION_LAB_DAMAGE_FRAMES_PER_STATE).
ASSUME DisplayAssumption ==
    /\ W \in Nat /\ H \in Nat /\ MaxRects \in Nat /\ Flips \in Nat /\ States \in Nat /\ PerState = 3
    /\ Regions \subseteq Seq(D!Rectangle) /\ LabRegions \subseteq Seq(D!Rectangle)
    /\ None \notin D!Buffers

displayVars == <<lab, dPc, redraw, region, age, front, back, in_flight, damage, stale,
                 posted, flip_pending, queued, scanned, event, whole, remaining, baseline,
                 reported, phase, next, shadow, stats, flips>>

R(x, y, w, h) == [x |-> x, y |-> y, width |-> w, height |-> h]

(* Rectangles that touch, overlap, lie apart, stick out of the screen and     *)
(* cover it; one, two or three at a time.                                     *)
MCRegions ==
    { <<>>, <<R(0, 0, 1, 1)>>, <<R(1, 1, 1, 1)>>, <<R(2, 0, 1, 2)>>, <<R(-1, 1, 2, 2)>>,
      <<R(1, 0, 1, 1)>>, <<R(0, 1, 2, 1)>>, <<R(2, 1, 3, 1)>>, <<R(0, -1, 3, 2)>>,
      <<R(0, 0, 1, 1), R(2, 1, 1, 1)>>, <<R(0, 0, 1, 1), R(2, 0, 1, 1), R(1, 1, 1, 1)>>,
      <<R(0, 0, 2, 2), R(1, 0, 2, 2)>>, <<R(3, 0, 1, 1)>> }

MCLabRegions == { <<R(0, 0, 1, 1)>>, <<R(1, 0, 2, 1), R(0, 1, 1, 1)>> }

MCInit == keys \in BOOLEAN /\ Init /\ D!Init /\ (keys => lab = "off")

MCNext == \/ keys /\ Next /\ UNCHANGED <<keys, displayVars>>
          \/ ~keys /\ D!Next /\ UNCHANGED <<keys, vars>>

MCSpec == MCInit /\ [][MCNext]_<<keys, vars, displayVars>>

(* The properties of the screen. *)
OnlyWholeFramesAreShown == D!OnlyWholeFramesAreShown
LabCountsAreExact == D!LabCountsAreExact
=============================================================================
