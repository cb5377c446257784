------------------------ MODULE UserInterface_proofs ------------------------
(***************************************************************************)
(* The screen and the keys, whose models share the loop of run and no      *)
(* state.                                                                  *)
(*                                                                         *)
(* Only whole frames are shown, for every screen and whatever the renderer *)
(* reports, because the damage noted for a framebuffer always covers the   *)
(* pixels in which it differs: merging, clipping and giving up on too many *)
(* rectangles only ever cover more. The laboratories count exactly because *)
(* every frame is counted, pending or about to be drawn, and the buffers   *)
(* take turns.                                                             *)
(*                                                                         *)
(* The power key does one thing per press, and nothing stays held by a key *)
(* that was released, for any hold times and any number of key events read *)
(* in a turn. Keys are read in batches and their events handled later, so  *)
(* a press may be over before its first event is handled. The invariant    *)
(* says what the events of the turn still owe: at most one effect per      *)
(* press, and a release after every press that is over.                    *)
(***************************************************************************)
EXTENDS MCDisplay, WellFoundedInduction, TLAPS

(* The screen: the invariant *)

Reasons == {"virgin_buffer", "new_render_buffer", "too_many_rects", "damage_cost",
            "validation_seed", "validation_fallback"}

Damage == [kind : {"clean"}] \cup [kind : {"full"}, reason : Reasons]
          \cup [kind : {"rects"}, rects : Seq(D!Rectangle)]

Seed     == D!Full("validation_seed")
Fallback == D!Full("validation_fallback")

\* The three framebuffers have three roles.
RolesInv ==
    /\ front \in D!Buffers /\ back \in D!Buffers /\ in_flight \in D!Buffers
    /\ front # back /\ back # in_flight /\ front # in_flight

\* A flip that is pending is either under way in the kernel or has its event
\* waiting; the buffer under way is in_flight, and the one on the screen is
\* front until it is replaced.
KernelInv ==
    /\ posted \in BOOLEAN /\ flip_pending \in BOOLEAN /\ event \in BOOLEAN
    /\ ~posted => scanned = None /\ queued = None /\ ~flip_pending
    /\ queued # None => posted /\ queued = in_flight /\ scanned = front
    /\ posted /\ queued = None => scanned = in_flight
    /\ flip_pending <=> queued # None \/ event
    /\ ~(queued # None /\ event)

\* The damage of a framebuffer covers every pixel in which it differs.
DamageInv ==
    /\ damage \in [D!Buffers -> Damage]
    /\ DOMAIN stale = D!Buffers /\ DOMAIN shadow = D!Buffers
    /\ \A b \in D!Buffers : stale[b] \subseteq D!Copied(damage[b])
    /\ phase = "validate" => \A b \in D!Buffers : shadow[b] \subseteq D!Copied(damage[b])

WholeInv ==
    /\ dPc = "present" => back \in whole
    /\ OnlyWholeFramesAreShown

ScreenInv == RolesInv /\ KernelInv /\ DamageInv /\ WholeInv

-----------------------------------------------------------------------------
One(c) == IF c THEN 1 ELSE 0

\* The laboratory that runs, and what the other leaves alone.
LabInv ==
    /\ lab \in {"off", "flips", "animation"} /\ flips \in Nat
    /\ baseline \in BOOLEAN /\ reported \in BOOLEAN /\ redraw \in BOOLEAN
    /\ baseline \/ reported => lab = "flips"
    /\ reported => baseline
    /\ baseline => posted
    /\ lab # "animation" => phase = "off"
    /\ phase \in {"warm", "validate", "done"} => posted

\* Every flip that was asked for is counted, pending, or about to be drawn.
FlipInv ==
    lab = "flips" =>
      /\ remaining \in Nat
      /\ ~baseline =>
           /\ remaining = Flips /\ flips = 0
           /\ Flips > 0 => ~flip_pending /\ (posted => dPc \in {"drain", "top"})
      /\ baseline /\ ~reported /\ dPc # "failed" =>
           /\ flips + remaining + One(flip_pending) + One(dPc \in {"poll", "draw", "copy", "present"}) = Flips
           /\ dPc \in {"poll", "draw"} => redraw
           /\ dPc = "top" => remaining > 0
      /\ reported => flips = Flips

Stats == [checks : Nat, mismatches : Nat, buffer : [D!Buffers -> Nat], seed : Nat, fallback : Nat]

\* The reference frames among the first n frames.
References(n) == n \div 3 + One(n % 3 > (n \div 3) % 3)

\* Before the frame is drawn, its buffer has the fewest checks.
InTurn(n) ==
    /\ stats.buffer[back] = n \div 3
    /\ stats.buffer[front] = (n + 1) \div 3
    /\ stats.buffer[in_flight] = (n + 2) \div 3

Checked(n) ==
    /\ stats.checks = n /\ stats.fallback = References(n)
    /\ stats.seed = IF n < 2 THEN 0 ELSE IF n = 2 THEN 1 ELSE 2

\* The buffers still to be copied for the first time, after n frames.
Seeded(n) ==
    /\ damage[front] = Seed <=> n \in {0, 1}
    /\ damage[in_flight] = Seed <=> n = 0
    /\ damage[front] # Fallback /\ damage[in_flight] # Fallback

ValidationInv ==
    phase = "validate" /\ dPc # "failed" =>
      /\ next \in 1 .. D!Frames /\ stats \in Stats /\ stats.mismatches = 0
      /\ redraw <=> dPc = "draw"
      /\ dPc \in {"draw", "copy"} =>
           /\ Checked(next - 1) /\ InTurn(next - 1) /\ Seeded(next - 1)
           /\ damage[back] = Seed <=> next - 1 \in {1, 2}
           /\ damage[back] = Fallback <=> D!damage_validation_is_reference(next - 1)
           /\ flips = next - 1 /\ ~flip_pending
      /\ dPc = "present" =>
           /\ Checked(next) /\ Seeded(next - 1) /\ damage[back] = D!Clean
           /\ stats.buffer[back] = (next + 2) \div 3
           /\ stats.buffer[front] = next \div 3
           /\ stats.buffer[in_flight] = (next + 1) \div 3
           /\ flips = next - 1 /\ ~flip_pending
      /\ dPc \in {"drain", "top", "poll"} =>
           /\ Checked(next) /\ InTurn(next) /\ Seeded(next)
           /\ damage[back] = Seed <=> next \in {1, 2}
           /\ damage[back] # Fallback
           /\ flips + One(flip_pending) = next

CountInv == LabInv /\ FlipInv /\ ValidationInv /\ LabCountsAreExact

-----------------------------------------------------------------------------
(* Repetition *)

\* A nonempty set of natural numbers has a least element.
LEMMA LeastNat ==
  ASSUME NEW M, M \subseteq Nat, M # {}
  PROVE  \E x \in M : \A y \in M : x <= y
<1>1. PICK x \in M : \A y \in M : ~(<<y, x>> \in OpToRel(<, Nat))
  BY NatLessThanWellFounded, WFMin
<1>2. \A y \in M : ~(y < x)
  BY <1>1 DEF OpToRel
<1> QED
  BY <1>2

\* A history of len steps from v0, where step n takes v to f[n][v].
Steps(g, v0, f, len) == g[0] = v0 /\ \A n \in 1 .. len : g[n] = f[n][g[n - 1]]

\* A step can be repeated. By the least number of times that it could not.
LEMMA StepsExist ==
  ASSUME NEW len \in Nat, NEW V, NEW v0 \in V, NEW f \in [1 .. len -> [V -> V]]
  PROVE  \E g \in [0 .. len -> V] : Steps(g, v0, f, len)
<1> DEFINE Bad == {m \in 0 .. len : ~\E g \in [0 .. m -> V] : Steps(g, v0, f, m)}
<1>1. Bad = {}
  <2> SUFFICES ASSUME Bad # {} PROVE FALSE
    OBVIOUS
  <2>1. PICK m \in Bad : \A k \in Bad : m <= k
    <3>1. Bad \subseteq Nat
      OBVIOUS
    <3> HIDE DEF Bad
    <3> QED
      BY <3>1, LeastNat
  <2>2. m \in 0 .. len
    OBVIOUS
  <2>3. CASE m = 0
    <3> DEFINE g == [n \in 0 .. 0 |-> v0]
    <3>1. g \in [0 .. 0 -> V] /\ Steps(g, v0, f, 0)
      BY DEF Steps
    <3> QED
      BY <2>3, <3>1
  <2>4. CASE m # 0
    <3>1. m - 1 \in 0 .. len /\ ~(m <= m - 1)
      BY <2>2, <2>4
    <3>2. PICK h \in [0 .. m - 1 -> V] : Steps(h, v0, f, m - 1)
      BY <2>1, <3>1
    <3> DEFINE g == [n \in 0 .. m |-> IF n = 0 THEN v0 ELSE f[n][h[n - 1]]]
    <3>3. \A n \in 0 .. m - 1 : g[n] = h[n]
      <4>1. \A n \in 0 .. m - 1 : n = 0 \/ n \in 1 .. m - 1
        BY <2>2
      <4>2. \A n \in 0 .. m - 1 : n \in 0 .. m
        BY <2>2
      <4> QED
        BY <3>2, <4>1, <4>2 DEF Steps
    <3>4. \A n \in 0 .. m : n # 0 => n - 1 \in 0 .. m - 1 /\ n \in 1 .. len
      BY <2>2
    <3>5. Steps(g, v0, f, m)
      <4>1. 0 \in 0 .. m /\ \A n \in 1 .. m : n \in 0 .. m /\ n # 0
        BY <2>2
      <4> QED
        BY <3>3, <3>4, <4>1 DEF Steps
    <3>6. ASSUME NEW n \in 0 .. m PROVE g[n] \in V
      <4>1. CASE n = 0
        BY <4>1
      <4>2. CASE n # 0
        <5>1. f[n] \in [V -> V] /\ h[n - 1] \in V
          BY <3>2, <3>4, <4>2
        <5> QED
          BY <4>2, <5>1
      <4> QED
        BY <4>1, <4>2
    <3>7. g \in [0 .. m -> V]
      BY <3>6
    <3> QED
      BY <3>5, <3>7
  <2> QED
    BY <2>3, <2>4
<1>2. len \in 0 .. len
  OBVIOUS
<1>3. \E g \in [0 .. len -> V] : Steps(g, v0, f, len)
  BY <1>1, <1>2
<1> QED
  BY <1>3

-----------------------------------------------------------------------------
(* Rectangles *)

Cover(rs) == UNION {D!PixelsOf(rs[i]) : i \in DOMAIN rs}

\* A merged rectangle covers both.
LEMMA MergedCovers ==
  ASSUME NEW r \in D!Rectangle, NEW q \in D!Rectangle
  PROVE  /\ D!merged(r, q) \in D!Rectangle
         /\ D!PixelsOf(r) \cup D!PixelsOf(q) \subseteq D!PixelsOf(D!merged(r, q))
<1> DEFINE m == D!merged(r, q)
<1>1. /\ r.x \in Int /\ r.y \in Int /\ r.width \in Nat /\ r.height \in Nat
      /\ q.x \in Int /\ q.y \in Int /\ q.width \in Nat /\ q.height \in Nat
  BY DEF D!Rectangle
<1>2. /\ m.x = D!Least(r.x, q.x) /\ m.y = D!Least(r.y, q.y)
      /\ m.width = D!Greatest(r.x + r.width, q.x + q.width) - D!Least(r.x, q.x)
      /\ m.height = D!Greatest(r.y + r.height, q.y + q.height) - D!Least(r.y, q.y)
  BY DEF D!merged, D!Rect
<1>3. /\ m.x \in Int /\ m.y \in Int /\ m.width \in Nat /\ m.height \in Nat
      /\ m.x <= r.x /\ m.x <= q.x /\ m.y <= r.y /\ m.y <= q.y
      /\ r.x + r.width <= m.x + m.width /\ q.x + q.width <= m.x + m.width
      /\ r.y + r.height <= m.y + m.height /\ q.y + q.height <= m.y + m.height
  <2> HIDE DEF m
  <2> QED
    BY <1>1, <1>2 DEF D!Least, D!Greatest
<1>4. m \in D!Rectangle
  <2>1. m = [x |-> m.x, y |-> m.y, width |-> m.width, height |-> m.height]
    BY DEF D!merged, D!Rect
  <2> HIDE DEF m
  <2> QED
    BY <1>3, <2>1 DEF D!Rectangle
<1> HIDE DEF m
<1>5. ASSUME NEW p \in D!Pixels, p \in D!PixelsOf(r) \/ p \in D!PixelsOf(q)
      PROVE  p \in D!PixelsOf(m)
  <2>1. p[1] \in Int /\ p[2] \in Int
    BY DisplayAssumption DEF D!Pixels
  <2> QED
    BY <1>1, <1>3, <1>5, <2>1 DEF D!PixelsOf
<1>6. D!PixelsOf(r) \subseteq D!Pixels /\ D!PixelsOf(q) \subseteq D!Pixels
  BY DEF D!PixelsOf
<1> QED
  BY <1>4, <1>5, <1>6 DEF m

\* Taking a rectangle out keeps the others.
LEMMA SwapRemoveCovers ==
  ASSUME NEW rs \in Seq(D!Rectangle), NEW i \in DOMAIN rs
  PROVE  /\ D!SwapRemove(rs, i) \in Seq(D!Rectangle)
         /\ Cover(rs) \subseteq Cover(D!SwapRemove(rs, i)) \cup D!PixelsOf(rs[i])
<1> DEFINE ss == D!SwapRemove(rs, i)
           n  == Len(rs)
<1>1. n \in Nat /\ i \in 1 .. n /\ DOMAIN rs = 1 .. n /\ n - 1 \in Nat
      /\ \A k \in 1 .. n : rs[k] \in D!Rectangle
  OBVIOUS
<1>2. ss = [j \in 1 .. n - 1 |-> IF j = i THEN rs[n] ELSE rs[j]]
  BY DEF D!SwapRemove
<1>3. ss \in [1 .. n - 1 -> D!Rectangle]
  <2> HIDE DEF n
  <2> QED
    BY <1>1, <1>2
<1>4. ss \in Seq(D!Rectangle) /\ DOMAIN ss = 1 .. n - 1
  <2> HIDE DEF ss, n
  <2> QED
    BY <1>1, <1>3
<1>5. ASSUME NEW k \in 1 .. n, k # i
      PROVE  \E j \in 1 .. n - 1 : ss[j] = rs[k]
  <2> HIDE DEF n
  <2>1. CASE k = n
    <3>1. i \in 1 .. n - 1 /\ ss[i] = rs[k]
      BY <1>1, <1>2, <1>5, <2>1
    <3> QED
      BY <3>1
  <2>2. CASE k # n
    <3>1. k \in 1 .. n - 1 /\ ss[k] = rs[k]
      BY <1>1, <1>2, <1>5, <2>2
    <3> QED
      BY <3>1
  <2> QED
    BY <2>1, <2>2
<1> HIDE DEF ss, n
<1>6. ASSUME NEW p \in Cover(rs), p \notin D!PixelsOf(rs[i])
      PROVE  p \in Cover(ss)
  <2>1. PICK k \in 1 .. n : p \in D!PixelsOf(rs[k])
    BY <1>1 DEF Cover
  <2>2. PICK j \in 1 .. n - 1 : ss[j] = rs[k]
    BY <1>5, <1>6, <2>1
  <2> QED
    BY <1>4, <2>1, <2>2 DEF Cover
<1> QED
  BY <1>4, <1>6 DEF ss

-----------------------------------------------------------------------------
(* Damage *)

\* A list of rectangles and one that is being merged with them.
Merging == [rects : Seq(D!Rectangle), candidate : D!Rectangle]

CoverOf(m) == Cover(m.rects) \cup D!PixelsOf(m.candidate)

\* One merge covers what was covered.
LEMMA AbsorbCovers ==
  ASSUME NEW m \in Merging
  PROVE  D!Absorb(m) \in Merging /\ CoverOf(m) \subseteq CoverOf(D!Absorb(m))
<1> DEFINE fits  == {i \in DOMAIN m.rects : D!Mergeable(m.candidate, m.rects[i])}
           first == CHOOSE i \in fits : \A j \in fits : i <= j
<1>1. m.rects \in Seq(D!Rectangle) /\ m.candidate \in D!Rectangle
  BY DEF Merging
<1>2. CASE fits = {}
  <2>1. D!Absorb(m) = m
    BY <1>2 DEF D!Absorb
  <2> QED
    BY <2>1
<1>3. CASE fits # {}
  <2>1. \E i \in fits : \A j \in fits : i <= j
    <3>1. fits \subseteq Nat
      BY <1>1
    <3> HIDE DEF fits
    <3> QED
      BY <1>3, <3>1, LeastNat
  <2>2. first \in DOMAIN m.rects
    BY <2>1
  <2> DEFINE rs == D!SwapRemove(m.rects, first)
             c  == D!merged(m.candidate, m.rects[first])
  <2>3. D!Absorb(m) = [rects |-> rs, candidate |-> c]
    BY <1>3 DEF D!Absorb
  <2> HIDE DEF first, fits
  <2>4. m.rects[first] \in D!Rectangle
    BY <1>1, <2>2
  <2>5. rs \in Seq(D!Rectangle) /\ Cover(m.rects) \subseteq Cover(rs) \cup D!PixelsOf(m.rects[first])
    BY <1>1, <2>2, SwapRemoveCovers
  <2>6. /\ c \in D!Rectangle
        /\ D!PixelsOf(m.candidate) \cup D!PixelsOf(m.rects[first]) \subseteq D!PixelsOf(c)
    BY <1>1, <2>4, MergedCovers
  <2> HIDE DEF rs, c
  <2>7. D!Absorb(m).rects = rs /\ D!Absorb(m).candidate = c
    BY <2>3
  <2>8. CoverOf(m) \subseteq CoverOf(D!Absorb(m))
    BY <2>5, <2>6, <2>7 DEF CoverOf
  <2>9. D!Absorb(m) \in Merging
    BY <2>3, <2>5, <2>6 DEF Merging
  <2> QED
    BY <2>8, <2>9
<1> QED
  BY <1>2, <1>3

\* An appended rectangle adds its pixels.
LEMMA AppendCovers ==
  ASSUME NEW rs \in Seq(D!Rectangle), NEW r \in D!Rectangle
  PROVE  /\ Append(rs, r) \in Seq(D!Rectangle)
         /\ Cover(rs) \cup D!PixelsOf(r) \subseteq Cover(Append(rs, r))
<1>1. /\ Append(rs, r) \in Seq(D!Rectangle) /\ Len(rs) \in Nat
      /\ DOMAIN Append(rs, r) = 1 .. Len(rs) + 1 /\ DOMAIN rs = 1 .. Len(rs)
      /\ \A k \in 1 .. Len(rs) : Append(rs, r)[k] = rs[k]
      /\ Append(rs, r)[Len(rs) + 1] = r
  OBVIOUS
<1>2. Len(rs) + 1 \in DOMAIN Append(rs, r) /\ \A k \in 1 .. Len(rs) : k \in DOMAIN Append(rs, r)
  BY <1>1
<1>3. ASSUME NEW k \in DOMAIN rs, NEW p \in D!PixelsOf(rs[k]) PROVE p \in Cover(Append(rs, r))
  BY <1>1, <1>2 DEF Cover
<1>4. ASSUME NEW p \in D!PixelsOf(r) PROVE p \in Cover(Append(rs, r))
  BY <1>1, <1>2 DEF Cover
<1>5. \A p \in Cover(rs) : \E k \in DOMAIN rs : p \in D!PixelsOf(rs[k])
  BY DEF Cover
<1> QED
  BY <1>1, <1>3, <1>4, <1>5

\* A rectangle merged with others covers them and itself.
LEMMA CoalesceCovers ==
  ASSUME NEW rs \in Seq(D!Rectangle), NEW r \in D!Rectangle
  PROVE  /\ D!Coalesce(rs, r) \in Seq(D!Rectangle)
         /\ Cover(rs) \cup D!PixelsOf(r) \subseteq Cover(D!Coalesce(rs, r))
<1> DEFINE n  == Len(rs)
           m0 == [rects |-> rs, candidate |-> r]
           Runs(g) == g = [k \in 0 .. n |-> IF k = 0 THEN m0 ELSE D!Absorb(g[k - 1])]
           all == CHOOSE g : Runs(g)
           ab == [m \in Merging |-> D!Absorb(m)]
<1>1. n \in Nat /\ m0 \in Merging
  BY DEF Merging
<1>2. \E g \in [0 .. n -> Merging] : Runs(g)
  <2> DEFINE f == [k \in 1 .. n |-> ab]
  <2>1. f \in [1 .. n -> [Merging -> Merging]]
    BY AbsorbCovers
  <2> HIDE DEF m0, n
  <2>2. PICK g \in [0 .. n -> Merging] : Steps(g, m0, f, n)
    <3> HIDE DEF f
    <3> QED
      BY <1>1, <2>1, StepsExist
  <2>3. \A k \in 0 .. n : k # 0 => k \in 1 .. n /\ k - 1 \in 0 .. n
    BY <1>1
  <2>4. \A k \in 0 .. n : k # 0 => f[k][g[k - 1]] = D!Absorb(g[k - 1])
    BY <2>3
  <2> HIDE DEF f
  <2>5. Runs(g)
    <3>1. g[0] = m0 /\ \A k \in 1 .. n : g[k] = f[k][g[k - 1]]
      BY <2>2 DEF Steps
    <3>2. \A k \in 0 .. n : g[k] = IF k = 0 THEN m0 ELSE D!Absorb(g[k - 1])
      BY <2>3, <2>4, <3>1
    <3> QED
      BY <3>2
  <2> QED
    BY <2>5
<1>3. Runs(all)
  <2> HIDE DEF Runs
  <2> QED
    BY <1>2
<1>4. D!Coalesce(rs, r) = Append(all[n].rects, all[n].candidate)
  BY DEF D!Coalesce
<1> HIDE DEF all, n, m0
<1>5. all[0] = m0 /\ \A k \in 1 .. n : all[k] = D!Absorb(all[k - 1])
  BY <1>1, <1>3
<1> HIDE DEF Runs
<1> DEFINE Good(k) == all[k] \in Merging /\ CoverOf(m0) \subseteq CoverOf(all[k])
           Bad == {k \in 0 .. n : ~Good(k)}
<1>6. Bad = {}
  <2> SUFFICES ASSUME Bad # {} PROVE FALSE
    OBVIOUS
  <2>1. PICK k \in Bad : \A j \in Bad : k <= j
    <3>1. Bad \subseteq Nat
      BY <1>1
    <3> HIDE DEF Bad
    <3> QED
      BY <3>1, LeastNat
  <2>2. k # 0
    BY <1>1, <1>5
  <2>3. k \in 1 .. n /\ k - 1 \in 0 .. n /\ ~(k <= k - 1)
    BY <1>1, <2>2
  <2>4. Good(k - 1)
    BY <2>1, <2>3
  <2>5. all[k] \in Merging /\ CoverOf(all[k - 1]) \subseteq CoverOf(all[k])
    BY <1>5, <2>3, <2>4, AbsorbCovers
  <2> QED
    BY <2>4, <2>5
<1>7. Good(n)
  BY <1>1, <1>6
<1>8. all[n].rects \in Seq(D!Rectangle) /\ all[n].candidate \in D!Rectangle
  BY <1>7 DEF Merging
<1>9. CoverOf(m0) = Cover(rs) \cup D!PixelsOf(r)
  BY DEF CoverOf, m0
<1>10. CoverOf(all[n]) = Cover(all[n].rects) \cup D!PixelsOf(all[n].candidate)
  BY DEF CoverOf
<1> QED
  BY <1>4, <1>7, <1>8, <1>9, <1>10, AppendCovers

Marks == {Seed, Fallback}

\* What a kind of damage copies.
LEMMA DamageKinds ==
  ASSUME NEW d \in Damage
  PROVE  \/ d.kind = "clean" /\ D!Copied(d) = {}
         \/ d.kind = "full" /\ D!Copied(d) = D!Pixels
         \/ d.kind = "rects" /\ d.rects \in Seq(D!Rectangle) /\ D!Copied(d) = Cover(d.rects)
<1>1. CASE d \in [kind : {"clean"}]
  <2>1. d.kind = "clean"
    BY <1>1
  <2> QED
    BY <2>1 DEF D!Copied
<1>2. CASE d \in [kind : {"full"}, reason : Reasons]
  <2>1. d.kind = "full"
    BY <1>2
  <2> QED
    BY <2>1 DEF D!Copied
<1>3. CASE d \in [kind : {"rects"}, rects : Seq(D!Rectangle)]
  <2>1. d.kind = "rects" /\ d.rects \in Seq(D!Rectangle)
    BY <1>3
  <2> QED
    BY <2>1 DEF D!Copied, Cover
<1> QED
  BY <1>1, <1>2, <1>3 DEF Damage

\* The three ways to write damage.
LEMMA DamageForms ==
  /\ D!Clean \in Damage /\ D!Clean.kind = "clean" /\ D!Clean \notin Marks
  /\ \A r \in Reasons : D!Full(r) \in Damage /\ D!Full(r).kind = "full" /\ D!Full(r).reason = r
  /\ \A rs \in Seq(D!Rectangle) :
       D!Rects(rs) \in Damage /\ D!Rects(rs).kind = "rects" /\ D!Rects(rs).rects = rs
       /\ D!Rects(rs) \notin Marks
<1>1. Seed.kind = "full" /\ Fallback.kind = "full"
  BY DEF Seed, Fallback, D!Full
<1>2. D!Clean \in Damage /\ D!Clean.kind = "clean"
  BY DEF D!Clean, Damage
<1>3. ASSUME NEW r \in Reasons
      PROVE  D!Full(r) \in Damage /\ D!Full(r).kind = "full" /\ D!Full(r).reason = r
  BY DEF D!Full, Damage
<1>4. ASSUME NEW rs \in Seq(D!Rectangle)
      PROVE  D!Rects(rs) \in Damage /\ D!Rects(rs).kind = "rects" /\ D!Rects(rs).rects = rs
  BY DEF D!Rects, Damage
<1>5. D!Clean \notin Marks
  <2>1. D!Clean # Seed /\ D!Clean # Fallback
    BY <1>1, <1>2
  <2> QED
    BY <2>1 DEF Marks
<1>6. ASSUME NEW rs \in Seq(D!Rectangle) PROVE D!Rects(rs) \notin Marks
  <2>1. D!Rects(rs) # Seed /\ D!Rects(rs) # Fallback
    BY <1>1, <1>4
  <2> QED
    BY <2>1 DEF Marks
<1> QED
  BY <1>2, <1>3, <1>4, <1>5, <1>6

\* The marks of the validation are set by it alone.
LEMMA OtherReasons ==
  /\ Seed \in Damage /\ Fallback \in Damage /\ Seed # Fallback
  /\ Seed.kind = "full" /\ Fallback.kind = "full"
  /\ \A r \in Reasons \ {"validation_seed", "validation_fallback"} : D!Full(r) \notin Marks
<1>1. {"validation_seed", "validation_fallback"} \subseteq Reasons
  BY DEF Reasons
<1>2. /\ Seed.reason = "validation_seed" /\ Fallback.reason = "validation_fallback"
      /\ Seed \in Damage /\ Fallback \in Damage /\ Seed.kind = "full" /\ Fallback.kind = "full"
  BY <1>1, DamageForms DEF Seed, Fallback
<1>3. ASSUME NEW r \in Reasons, r # "validation_seed", r # "validation_fallback"
      PROVE  D!Full(r) \notin Marks
  <2>1. D!Full(r).reason = r
    BY DamageForms
  <2>2. D!Full(r) # Seed /\ D!Full(r) # Fallback
    BY <1>2, <1>3, <2>1
  <2> QED
    BY <2>2 DEF Marks
<1>4. Seed # Fallback
  BY <1>2
<1> QED
  BY <1>2, <1>3, <1>4

\* Nothing covers more than the screen.
LEMMA CoverPixels == ASSUME NEW rs PROVE Cover(rs) \subseteq D!Pixels
  BY DEF Cover, D!PixelsOf

\* The damage d becomes e, which covers px as well; full damage is kept, with
\* its reason, and no mark of the validation appears.
Grows(d, e, px) ==
    /\ e \in Damage /\ D!Copied(d) \cup px \subseteq D!Copied(e)
    /\ d.kind = "full" => e = d
    /\ d \notin Marks => e \notin Marks

\* A rectangle is added.
LEMMA PushGrows ==
  ASSUME NEW d \in Damage, NEW r \in D!Rectangle
  PROVE  Grows(d, D!push_coalesced_rect(d, r), D!PixelsOf(r))
<1>0. D!PixelsOf(r) \subseteq D!Pixels
  BY DEF D!PixelsOf
<1>1. CASE d.kind = "full"
  <2>1. D!push_coalesced_rect(d, r) = d
    BY <1>1 DEF D!push_coalesced_rect
  <2>2. D!Copied(d) = D!Pixels
    BY <1>1, DamageKinds
  <2> QED
    BY <1>0, <2>1, <2>2 DEF Grows
<1>2. CASE d.kind # "full"
  <2> DEFINE old == IF d.kind = "clean" THEN <<>> ELSE d.rects
             new == D!Coalesce(old, r)
             e   == D!push_coalesced_rect(d, r)
  <2>1. old \in Seq(D!Rectangle) /\ D!Copied(d) = Cover(old)
    <3>1. CASE d.kind = "clean"
      <4>1. D!Copied(d) = {}
        BY <3>1, DamageKinds
      <4>2. Cover(<<>>) = {}
        BY DEF Cover
      <4> QED
        BY <3>1, <4>1, <4>2
    <3>2. CASE d.kind # "clean"
      BY <1>2, <3>2, DamageKinds
    <3> QED
      BY <3>1, <3>2
  <2>2. e = IF Len(new) > MaxRects THEN D!Full("too_many_rects") ELSE D!Rects(new)
    BY <1>2 DEF D!push_coalesced_rect
  <2> HIDE DEF old
  <2>3. new \in Seq(D!Rectangle) /\ Cover(old) \cup D!PixelsOf(r) \subseteq Cover(new)
    BY <2>1, CoalesceCovers
  <2> HIDE DEF new, e
  <2>4. CASE Len(new) > MaxRects
    <3>1. "too_many_rects" \in Reasons \ {"validation_seed", "validation_fallback"}
      BY DEF Reasons
    <3>2. e \in Damage /\ e.kind = "full" /\ e \notin Marks
      BY <2>2, <2>4, <3>1, DamageForms, OtherReasons
    <3>3. D!Copied(e) = D!Pixels
      BY <3>2, DamageKinds
    <3>4. Cover(old) \subseteq D!Pixels
      BY CoverPixels
    <3> QED
      BY <1>0, <1>2, <2>1, <3>2, <3>3, <3>4 DEF Grows, e
  <2>5. CASE ~(Len(new) > MaxRects)
    <3>1. e \in Damage /\ e.kind = "rects" /\ e.rects = new /\ e \notin Marks
      BY <2>2, <2>3, <2>5, DamageForms
    <3>2. D!Copied(e) = Cover(new)
      BY <3>1, DamageKinds
    <3> QED
      BY <1>2, <2>1, <2>3, <3>1, <3>2 DEF Grows, e
  <2> QED
    BY <2>4, <2>5
<1> QED
  BY <1>1, <1>2

\* Damage that grows step by step covers what each step adds.
LEMMA GrowsOn ==
  ASSUME NEW len \in Nat, NEW g, NEW px, g[0] \in Damage,
         \A i \in 1 .. len : g[i - 1] \in Damage => Grows(g[i - 1], g[i], px[i])
  PROVE  /\ Grows(g[0], g[len], {})
         /\ \A i \in 1 .. len : px[i] \subseteq D!Copied(g[len])
<1> DEFINE Good(k) == /\ g[k] \in Damage /\ D!Copied(g[0]) \subseteq D!Copied(g[k])
                      /\ \A i \in 1 .. k : px[i] \subseteq D!Copied(g[k])
                      /\ g[0].kind = "full" => g[k] = g[0]
                      /\ g[0] \notin Marks => g[k] \notin Marks
           Bad == {k \in 0 .. len : ~Good(k)}
<1>1. Bad = {}
  <2> SUFFICES ASSUME Bad # {} PROVE FALSE
    OBVIOUS
  <2>1. PICK k \in Bad : \A j \in Bad : k <= j
    <3>1. Bad \subseteq Nat
      OBVIOUS
    <3> HIDE DEF Bad
    <3> QED
      BY <3>1, LeastNat
  <2>2. k # 0
    <3>1. Good(0)
      OBVIOUS
    <3> QED
      BY <3>1
  <2>3. k \in 1 .. len /\ k - 1 \in 0 .. len /\ ~(k <= k - 1)
    BY <2>2
  <2>4. Good(k - 1)
    <3> HIDE DEF Good
    <3> QED
      BY <2>1, <2>3
  <2>5. Grows(g[k - 1], g[k], px[k])
    BY <2>3, <2>4
  <2>6. \A i \in 1 .. k : i = k \/ i \in 1 .. k - 1
    BY <2>3
  <2>7. Good(k)
    BY <2>4, <2>5, <2>6 DEF Grows
  <2> QED
    BY <2>7
<1>2. Good(len)
  <2> HIDE DEF Good
  <2>1. len \in 0 .. len
    OBVIOUS
  <2> QED
    BY <1>1, <2>1
<1> QED
  BY <1>2 DEF Grows

\* Rectangles are added one by one.
LEMMA PushAllGrows ==
  ASSUME NEW d \in Damage, NEW rs \in Seq(D!Rectangle)
  PROVE  Grows(d, D!PushAll(d, rs), Cover(rs))
<1> DEFINE n == Len(rs)
           Runs(g) == g = [k \in 0 .. n |-> IF k = 0 THEN d ELSE D!push_coalesced_rect(g[k - 1], rs[k])]
           all == CHOOSE g : Runs(g)
           px == [k \in 1 .. n |-> D!PixelsOf(rs[k])]
<1>1. n \in Nat /\ DOMAIN rs = 1 .. n /\ \A k \in 1 .. n : rs[k] \in D!Rectangle
  OBVIOUS
<1>2. \E g : Runs(g)
  <2> DEFINE f == [k \in 1 .. n |-> [e \in Damage |-> D!push_coalesced_rect(e, rs[k])]]
  <2>1. f \in [1 .. n -> [Damage -> Damage]]
    BY <1>1, PushGrows DEF Grows
  <2> HIDE DEF n
  <2>2. PICK g \in [0 .. n -> Damage] : Steps(g, d, f, n)
    <3> HIDE DEF f
    <3> QED
      BY <1>1, <2>1, StepsExist
  <2>3. \A k \in 0 .. n : k # 0 => k \in 1 .. n /\ k - 1 \in 0 .. n
    BY <1>1
  <2>4. \A k \in 0 .. n : k # 0 => f[k][g[k - 1]] = D!push_coalesced_rect(g[k - 1], rs[k])
    BY <2>3
  <2> HIDE DEF f
  <2>5. g[0] = d /\ \A k \in 1 .. n : g[k] = f[k][g[k - 1]]
    BY <2>2 DEF Steps
  <2>6. \A k \in 0 .. n : g[k] = IF k = 0 THEN d ELSE D!push_coalesced_rect(g[k - 1], rs[k])
    BY <2>3, <2>4, <2>5
  <2>7. Runs(g)
    BY <2>6
  <2> QED
    BY <2>7
<1>3. Runs(all)
  <2> HIDE DEF Runs
  <2> QED
    BY <1>2
<1>4. D!PushAll(d, rs) = all[n]
  BY DEF D!PushAll
<1> HIDE DEF all, n
<1>5. all[0] = d /\ \A k \in 1 .. n : all[k] = D!push_coalesced_rect(all[k - 1], rs[k])
  BY <1>1, <1>3
<1> HIDE DEF Runs
<1>6. ASSUME NEW i \in 1 .. n, all[i - 1] \in Damage PROVE Grows(all[i - 1], all[i], px[i])
  <2>1. rs[i] \in D!Rectangle /\ px[i] = D!PixelsOf(rs[i])
    BY <1>1
  <2>2. Grows(all[i - 1], D!push_coalesced_rect(all[i - 1], rs[i]), D!PixelsOf(rs[i]))
    BY <1>6, <2>1, PushGrows
  <2> QED
    BY <1>5, <2>1, <2>2
<1>7. all[0] \in Damage
  BY <1>5
<1> HIDE DEF px
<1>8. Grows(all[0], all[n], {}) /\ \A i \in 1 .. n : px[i] \subseteq D!Copied(all[n])
  BY <1>1, <1>6, <1>7, GrowsOn
<1>9. Cover(rs) \subseteq D!Copied(all[n])
  BY <1>1, <1>8 DEF Cover, px
<1> QED
  BY <1>4, <1>5, <1>8, <1>9 DEF Grows

\* Clipping keeps the pixels of the screen.
LEMMA ClippedCovers ==
  ASSUME NEW r \in D!Rectangle
  PROVE  /\ D!clipped(r) \in D!Rectangle
         /\ D!PixelsOf(r) \subseteq D!PixelsOf(D!clipped(r))
         /\ D!Area(D!clipped(r)) = 0 => D!PixelsOf(r) = {}
<1> DEFINE c == D!clipped(r)
<1>1. /\ r.x \in Int /\ r.y \in Int /\ r.width \in Nat /\ r.height \in Nat
      /\ W \in Nat /\ H \in Nat
  BY DisplayAssumption DEF D!Rectangle
<1>2. /\ c.x = D!Clamp(r.x, W) /\ c.y = D!Clamp(r.y, H)
      /\ c.width = D!Clamp(r.x + r.width, W) - D!Clamp(r.x, W)
      /\ c.height = D!Clamp(r.y + r.height, H) - D!Clamp(r.y, H)
      /\ c = [x |-> c.x, y |-> c.y, width |-> c.width, height |-> c.height]
  BY DEF D!clipped, D!Rect
<1> HIDE DEF c
<1>3. /\ c.x \in Int /\ c.width \in Nat
      /\ \A p \in 0 .. W - 1 : p \in r.x .. (r.x + r.width - 1) => p \in c.x .. (c.x + c.width - 1)
  BY <1>1, <1>2 DEF D!Clamp, D!Greatest, D!Least
<1>4. /\ c.y \in Int /\ c.height \in Nat
      /\ \A p \in 0 .. H - 1 : p \in r.y .. (r.y + r.height - 1) => p \in c.y .. (c.y + c.height - 1)
  BY <1>1, <1>2 DEF D!Clamp, D!Greatest, D!Least
<1>5. c \in D!Rectangle
  BY <1>2, <1>3, <1>4 DEF D!Rectangle
<1>6. ASSUME NEW p \in D!PixelsOf(r) PROVE p \in D!PixelsOf(c)
  <2>1. p \in D!Pixels /\ p[1] \in 0 .. W - 1 /\ p[2] \in 0 .. H - 1
    BY DEF D!PixelsOf, D!Pixels
  <2>2. p[1] \in r.x .. (r.x + r.width - 1) /\ p[2] \in r.y .. (r.y + r.height - 1)
    BY DEF D!PixelsOf
  <2>3. p[1] \in c.x .. (c.x + c.width - 1) /\ p[2] \in c.y .. (c.y + c.height - 1)
    BY <1>3, <1>4, <2>1, <2>2
  <2> QED
    BY <2>1, <2>3 DEF D!PixelsOf
<1>7. ASSUME D!Area(c) = 0 PROVE D!PixelsOf(c) = {}
  <2>1. c.width * c.height = 0
    BY <1>7 DEF D!Area
  <2>2. c.width = 0 \/ c.height = 0
    BY <1>3, <1>4, <2>1
  <2>3. c.x .. (c.x + c.width - 1) = {} \/ c.y .. (c.y + c.height - 1) = {}
    BY <1>3, <1>4, <2>2
  <2> QED
    BY <2>3 DEF D!PixelsOf
<1> QED
  BY <1>5, <1>6, <1>7 DEF c

\* What the renderer reports becomes damage that covers it.
LEMMA RegionCovers ==
  ASSUME NEW rs \in Seq(D!Rectangle), NEW fresh \in BOOLEAN
  PROVE  /\ D!from_physical_region(rs, fresh) \in Damage
         /\ D!from_physical_region(rs, fresh) \notin Marks
         /\ Cover(rs) \subseteq D!Copied(D!from_physical_region(rs, fresh))
         /\ fresh => D!Copied(D!from_physical_region(rs, fresh)) = D!Pixels
<1> DEFINE n == Len(rs)
           Seen(v, k) == IF D!Area(D!clipped(rs[k])) = 0 THEN v
                         ELSE D!push_coalesced_rect(v, D!clipped(rs[k]))
           Runs(g) == g = [k \in 0 .. n |->
                             IF k = 0 THEN D!Clean
                             ELSE IF D!Area(D!clipped(rs[k])) = 0 THEN g[k - 1]
                             ELSE D!push_coalesced_rect(g[k - 1], D!clipped(rs[k]))]
           all == CHOOSE g : Runs(g)
           px == [k \in 1 .. n |-> D!PixelsOf(rs[k])]
<1>1. n \in Nat /\ DOMAIN rs = 1 .. n /\ \A k \in 1 .. n : rs[k] \in D!Rectangle
  OBVIOUS
<1>2. ASSUME NEW k \in 1 .. n, NEW v \in Damage PROVE Grows(v, Seen(v, k), px[k])
  <2> HIDE DEF n
  <2> DEFINE c == D!clipped(rs[k])
  <2>1. /\ c \in D!Rectangle /\ D!PixelsOf(rs[k]) \subseteq D!PixelsOf(c)
        /\ D!Area(c) = 0 => D!PixelsOf(rs[k]) = {}
    BY <1>1, ClippedCovers
  <2> HIDE DEF c
  <2>2. CASE D!Area(c) = 0
    BY <2>1, <2>2 DEF Grows, c
  <2>3. CASE D!Area(c) # 0
    <3>1. Grows(v, D!push_coalesced_rect(v, c), D!PixelsOf(c))
      BY <2>1, PushGrows
    <3> QED
      BY <2>1, <2>3, <3>1 DEF Grows, c
  <2> QED
    BY <2>2, <2>3
<1>3. \E g : Runs(g)
  <2> DEFINE f == [k \in 1 .. n |-> [v \in Damage |-> Seen(v, k)]]
  <2>1. f \in [1 .. n -> [Damage -> Damage]]
    <3> HIDE DEF Seen, n
    <3> QED
      BY <1>2 DEF Grows
  <2> HIDE DEF n
  <2>2. PICK g \in [0 .. n -> Damage] : Steps(g, D!Clean, f, n)
    <3>1. D!Clean \in Damage
      BY DamageForms
    <3> HIDE DEF f
    <3> QED
      BY <1>1, <2>1, <3>1, StepsExist
  <2>3. \A k \in 0 .. n : k # 0 => k \in 1 .. n /\ k - 1 \in 0 .. n
    BY <1>1
  <2>4. \A k \in 0 .. n : k # 0 => f[k][g[k - 1]] = Seen(g[k - 1], k)
    <3> HIDE DEF Seen
    <3> QED
      BY <2>3
  <2> HIDE DEF f
  <2>5. g[0] = D!Clean /\ \A k \in 1 .. n : g[k] = f[k][g[k - 1]]
    BY <2>2 DEF Steps
  <2>6. \A k \in 0 .. n : g[k] = IF k = 0 THEN D!Clean ELSE Seen(g[k - 1], k)
    <3> HIDE DEF Seen
    <3> QED
      BY <2>3, <2>4, <2>5
  <2>7. Runs(g)
    BY <2>6
  <2> QED
    BY <2>7
<1>4. Runs(all)
  <2> HIDE DEF Runs
  <2> QED
    BY <1>3
<1>5. D!from_physical_region(rs, fresh) = IF fresh THEN D!Full("new_render_buffer") ELSE all[n]
  BY DEF D!from_physical_region
<1> HIDE DEF all, n
<1>6. all[0] = D!Clean /\ \A k \in 1 .. n : all[k] = Seen(all[k - 1], k)
  BY <1>1, <1>4
<1> HIDE DEF Runs, Seen
<1>7. \A i \in 1 .. n : all[i - 1] \in Damage => Grows(all[i - 1], all[i], px[i])
  BY <1>2, <1>6
<1>8. all[0] \in Damage /\ all[0] \notin Marks
  BY <1>6, DamageForms
<1> HIDE DEF px
<1>9. Grows(all[0], all[n], {}) /\ \A i \in 1 .. n : px[i] \subseteq D!Copied(all[n])
  BY <1>1, <1>7, <1>8, GrowsOn
<1>10. Cover(rs) \subseteq D!Copied(all[n])
  BY <1>1, <1>9 DEF Cover, px
<1>11. CASE fresh
  <2> DEFINE e == D!Full("new_render_buffer")
  <2>1. "new_render_buffer" \in Reasons \ {"validation_seed", "validation_fallback"}
    BY DEF Reasons
  <2>2. e \in Damage /\ e.kind = "full" /\ e \notin Marks
    BY <2>1, DamageForms, OtherReasons
  <2> HIDE DEF e
  <2>3. D!Copied(e) = D!Pixels
    BY <2>2, DamageKinds
  <2> QED
    BY <1>5, <1>11, <2>2, <2>3, CoverPixels DEF e
<1>12. CASE ~fresh
  BY <1>5, <1>8, <1>9, <1>10, <1>12 DEF Grows
<1> QED
  BY <1>11, <1>12

\* A buffer takes note of the damage of a frame.
LEMMA AccumulateGrows ==
  ASSUME NEW d \in Damage, NEW new \in Damage, new \notin Marks
  PROVE  Grows(d, D!accumulate(d, new), D!Copied(new))
<1> DEFINE e == D!accumulate(d, new)
<1>0. \A v \in Damage : D!Copied(v) \subseteq D!Pixels
  BY DamageKinds, CoverPixels
<1>1. CASE d.kind = "full"
  <2>1. D!Copied(d) = D!Pixels
    BY <1>1, DamageKinds
  <2>2. e = d
    <3>1. CASE new.kind = "rects"
      <4>1. Grows(d, D!PushAll(d, new.rects), Cover(new.rects))
        BY <3>1, DamageKinds, PushAllGrows
      <4> QED
        BY <1>1, <3>1, <4>1 DEF D!accumulate, Grows
    <3>2. CASE new.kind # "rects"
      BY <1>1, <3>2 DEF D!accumulate
    <3> QED
      BY <3>1, <3>2
  <2> HIDE DEF e
  <2> QED
    BY <1>0, <2>1, <2>2 DEF Grows, e
<1>2. CASE d.kind # "full" /\ new.kind = "full"
  <2>1. e = new
    BY <1>2 DEF D!accumulate
  <2>2. D!Copied(new) = D!Pixels
    BY <1>2, DamageKinds
  <2> HIDE DEF e
  <2> QED
    BY <1>0, <1>2, <2>1, <2>2 DEF Grows, e
<1>3. CASE d.kind # "full" /\ new.kind = "rects"
  <2>1. e = D!PushAll(d, new.rects)
    BY <1>3 DEF D!accumulate
  <2>2. D!Copied(new) = Cover(new.rects) /\ new.rects \in Seq(D!Rectangle)
    BY <1>3, DamageKinds
  <2> QED
    BY <2>1, <2>2, PushAllGrows
<1>4. CASE d.kind # "full" /\ new.kind = "clean"
  <2>1. e = d
    BY <1>4 DEF D!accumulate
  <2>2. D!Copied(new) = {}
    BY <1>4, DamageKinds
  <2> HIDE DEF e
  <2> QED
    BY <1>4, <2>1, <2>2 DEF Grows, e
<1> QED
  BY <1>1, <1>2, <1>3, <1>4, DamageKinds

\* The copy covers the damage, whichever way it is made.
LEMMA CopyModeCovers ==
  ASSUME NEW d \in Damage
  PROVE  /\ D!Copied(d) \subseteq D!Copied(D!CopyMode(d))
         /\ D!CopyMode(d) = Seed <=> d = Seed
         /\ D!CopyMode(d) = Fallback <=> d = Fallback
<1> DEFINE m == D!Full("damage_cost")
<1>1. "damage_cost" \in Reasons \ {"validation_seed", "validation_fallback"}
  BY DEF Reasons
<1>2. m \in Damage /\ m.kind = "full" /\ m \notin Marks
  BY <1>1, DamageForms, OtherReasons
<1> HIDE DEF m
<1>3. D!Copied(m) = D!Pixels /\ D!Copied(d) \subseteq D!Pixels
  BY <1>2, DamageKinds, CoverPixels
<1>4. CASE D!CopyMode(d) = d
  BY <1>4
<1>5. CASE D!CopyMode(d) # d
  <2>1. D!CopyMode(d) = m /\ d.kind = "rects"
    BY <1>5 DEF D!CopyMode, m
  <2>2. d # Seed /\ d # Fallback
    BY <2>1, OtherReasons
  <2> QED
    BY <1>2, <1>3, <2>1, <2>2 DEF Marks
<1> QED
  BY <1>4, <1>5

-----------------------------------------------------------------------------
(* Only whole frames are shown *)

\* Nothing is shown at first, and every buffer is to be copied in full.
LEMMA ScreenInit == D!Init => ScreenInv
<1> SUFFICES ASSUME D!Init PROVE ScreenInv
  OBVIOUS
<1> DEFINE v == D!Full("virgin_buffer")
<1>1. /\ front = 0 /\ back = 1 /\ in_flight = 2 /\ posted = FALSE /\ flip_pending = FALSE
      /\ event = FALSE /\ scanned = None /\ queued = None /\ dPc = "top"
      /\ damage = [b \in D!Buffers |-> v] /\ stale = [b \in D!Buffers |-> D!Pixels]
      /\ shadow = [b \in D!Buffers |-> {}]
  BY DEF D!Init
<1>2. v \in Damage /\ v.kind = "full"
  BY DamageForms DEF Reasons
<1> HIDE DEF v
<1>3. D!Copied(v) = D!Pixels
  BY <1>2, DamageKinds
<1>4. RolesInv
  BY <1>1 DEF RolesInv, D!Buffers
<1>5. KernelInv
  BY <1>1 DEF KernelInv
<1>6. DamageInv
  <2>1. damage \in [D!Buffers -> Damage] /\ \A b \in D!Buffers : damage[b] = v
    BY <1>1, <1>2
  <2>2. DOMAIN stale = D!Buffers /\ \A b \in D!Buffers : stale[b] = D!Pixels
    BY <1>1
  <2>3. DOMAIN shadow = D!Buffers /\ \A b \in D!Buffers : shadow[b] = {}
    BY <1>1
  <2> QED
    BY <1>3, <2>1, <2>2, <2>3 DEF DamageInv
<1>7. WholeInv
  BY <1>1 DEF WholeInv, OnlyWholeFramesAreShown, D!OnlyWholeFramesAreShown
<1> QED
  BY <1>4, <1>5, <1>6, <1>7 DEF ScreenInv

\* Steps that leave the buffers, their damage and the kernel alone.
LEMMA ScreenKept ==
  ASSUME ScreenInv,
         UNCHANGED <<front, back, in_flight, damage, stale, posted, flip_pending, event,
                     queued, scanned, whole>>,
         DOMAIN shadow' = D!Buffers,
         phase' = "validate" => phase = "validate" /\ shadow' = shadow,
         dPc' # "present"
  PROVE  ScreenInv'
<1>1. RolesInv'
  BY DEF ScreenInv, RolesInv
<1>2. KernelInv'
  BY DEF ScreenInv, KernelInv
<1>3. DamageInv'
  BY DEF ScreenInv, DamageInv
<1>4. WholeInv'
  BY DEF ScreenInv, WholeInv, OnlyWholeFramesAreShown, D!OnlyWholeFramesAreShown
<1> QED
  BY <1>1, <1>2, <1>3, <1>4 DEF ScreenInv

\* The buffer that is drawn is neither shown nor about to be.
LEMMA BackIsFree ==
  ASSUME RolesInv, KernelInv
  PROVE  back # scanned /\ back # queued
<1>1. back # None
  BY DisplayAssumption DEF RolesInv
<1>2. CASE posted
  BY <1>1, <1>2 DEF RolesInv, KernelInv
<1>3. CASE ~posted
  BY <1>1, <1>3 DEF KernelInv
<1> QED
  BY <1>2, <1>3

\* What is rendered is a list of rectangles.
LEMMA PaintedRects ==
  ASSUME NEW rs \in (IF age = 0 THEN {<<>>} ELSE D!Painted)
  PROVE  rs \in Seq(D!Rectangle)
<1>1. CASE age = 0
  BY <1>1
<1>2. CASE age # 0
  <2>1. rs \in D!Painted
    BY <1>2
  <2>2. CASE region = "pattern"
    <3>1. D!Painted = LabRegions
      BY <2>2 DEF D!Painted
    <3> QED
      BY <2>1, <3>1, DisplayAssumption
  <2>3. CASE region = "nothing"
    <3>1. D!Painted = {<<>>}
      BY <2>3 DEF D!Painted
    <3> QED
      BY <2>1, <3>1
  <2>4. CASE region # "pattern" /\ region # "nothing"
    <3>1. D!Painted = Regions
      BY <2>4 DEF D!Painted
    <3> QED
      BY <2>1, <3>1, DisplayAssumption
  <2> QED
    BY <2>2, <2>3, <2>4
<1> QED
  BY <1>1, <1>2

\* The damage of every buffer grows by what is rendered.
LEMMA RenderGrows ==
  ASSUME DamageInv, NEW rs \in Seq(D!Rectangle), NEW b \in D!Buffers,
         damage' = D!Noted(D!from_physical_region(rs, age = 0))
  PROVE  Grows(damage[b], damage'[b], D!Changed(rs)) /\ DOMAIN damage' = D!Buffers
<1> DEFINE new == D!from_physical_region(rs, age = 0)
<1>1. /\ new \in Damage /\ new \notin Marks /\ Cover(rs) \subseteq D!Copied(new)
      /\ age = 0 => D!Copied(new) = D!Pixels
  BY RegionCovers
<1> HIDE DEF new
<1>2. damage' = [c \in D!Buffers |-> D!accumulate(damage[c], new)]
  BY DEF D!Noted, new
<1>3. damage[b] \in Damage
  BY DEF DamageInv
<1>4. Grows(damage[b], D!accumulate(damage[b], new), D!Copied(new))
  BY <1>1, <1>3, AccumulateGrows
<1>5. D!Changed(rs) \subseteq D!Copied(new)
  BY <1>1 DEF D!Changed, Cover
<1>6. damage'[b] = D!accumulate(damage[b], new) /\ DOMAIN damage' = D!Buffers
  BY <1>2
<1> QED
  BY <1>4, <1>5, <1>6 DEF Grows

\* Rendering adds to what differs and, as much, to the damage.
LEMMA ScreenRender == ScreenInv /\ D!Render => ScreenInv'
<1> SUFFICES ASSUME ScreenInv, D!Render PROVE ScreenInv'
  OBVIOUS
<1> USE DEF ScreenInv
<1>1. PICK rs \in (IF age = 0 THEN {<<>>} ELSE D!Painted) :
        /\ stale' = [b \in D!Buffers |-> stale[b] \cup D!Changed(rs)]
        /\ shadow' = IF phase = "validate"
                     THEN [b \in D!Buffers |-> shadow[b] \cup D!Changed(rs)] ELSE shadow
        /\ damage' = D!Noted(D!from_physical_region(rs, age = 0))
  BY DEF D!Render
<1>2. /\ whole' = whole \ {back} /\ dPc' = "copy"
      /\ UNCHANGED <<front, back, in_flight, posted, flip_pending, queued, scanned, event, phase>>
  BY DEF D!Render, D!buffers, D!kernel
<1>3. rs \in Seq(D!Rectangle)
  BY PaintedRects
<1>4. RolesInv'
  BY <1>2 DEF RolesInv
<1>5. KernelInv'
  BY <1>2 DEF KernelInv
<1>6. ASSUME NEW b \in D!Buffers PROVE Grows(damage[b], damage'[b], D!Changed(rs))
  BY <1>1, <1>3, RenderGrows
<1>7. DOMAIN damage' = D!Buffers /\ \A b \in D!Buffers : damage'[b] = damage'[b]
  BY <1>1 DEF D!Noted
<1>8. damage' \in [D!Buffers -> Damage]
  <2>1. \A b \in D!Buffers : damage'[b] \in Damage
    BY <1>6 DEF Grows
  <2>2. damage' = [b \in D!Buffers |-> damage'[b]]
    BY <1>1 DEF D!Noted
  <2> QED
    BY <2>1, <2>2
<1>9. DamageInv'
  <2>1. ASSUME NEW b \in D!Buffers PROVE stale'[b] \subseteq D!Copied(damage'[b])
    <3>1. stale[b] \subseteq D!Copied(damage[b]) /\ stale'[b] = stale[b] \cup D!Changed(rs)
      BY <1>1 DEF DamageInv
    <3> QED
      BY <1>6, <3>1 DEF Grows
  <2>2. ASSUME phase' = "validate", NEW b \in D!Buffers PROVE shadow'[b] \subseteq D!Copied(damage'[b])
    <3>1. shadow[b] \subseteq D!Copied(damage[b]) /\ shadow'[b] = shadow[b] \cup D!Changed(rs)
      BY <1>1, <1>2, <2>2 DEF DamageInv
    <3> QED
      BY <1>6, <3>1 DEF Grows
  <2>3. DOMAIN stale' = D!Buffers /\ DOMAIN shadow' = D!Buffers
    BY <1>1 DEF DamageInv
  <2>4. (\A b \in D!Buffers : stale[b] \subseteq D!Copied(damage[b]))'
    BY <2>1
  <2>5. (phase = "validate" => \A b \in D!Buffers : shadow[b] \subseteq D!Copied(damage[b]))'
    BY <2>2
  <2> QED
    BY <1>8, <2>3, <2>4, <2>5 DEF DamageInv
<1>10. WholeInv'
  BY <1>2, BackIsFree DEF WholeInv, OnlyWholeFramesAreShown, D!OnlyWholeFramesAreShown
<1> QED
  BY <1>4, <1>5, <1>9, <1>10

\* A copy brings the buffer up to date: it is whole again.
LEMMA ScreenCopy == ScreenInv /\ D!Copy => ScreenInv'
<1> SUFFICES ASSUME ScreenInv, D!Copy PROVE ScreenInv'
  OBVIOUS
<1> USE DEF ScreenInv
<1> DEFINE mode == D!CopyMode(damage[back])
<1>1. /\ stale' = [stale EXCEPT ![back] = stale[back] \ D!Copied(mode)]
      /\ whole' = IF stale'[back] = {} THEN whole \cup {back} ELSE whole
      /\ damage' = [damage EXCEPT ![back] = D!Clean]
      /\ \/ phase = "validate" /\ shadow' = [shadow EXCEPT ![back] = shadow[back] \ D!Copied(mode)]
         \/ phase # "validate" /\ shadow' = shadow
      /\ UNCHANGED <<front, back, in_flight, posted, flip_pending, queued, scanned, event, phase>>
  BY DEF D!Copy, D!update_validation_shadow, D!buffers, D!kernel
<1>2. back \in D!Buffers /\ damage[back] \in Damage
  BY DEF RolesInv, DamageInv
<1>3. D!Copied(damage[back]) \subseteq D!Copied(mode)
  BY <1>2, CopyModeCovers
<1> HIDE DEF mode
<1>4. RolesInv'
  BY <1>1 DEF RolesInv
<1>5. KernelInv'
  BY <1>1 DEF KernelInv
<1>6. stale'[back] = {}
  <2>1. stale[back] \subseteq D!Copied(damage[back]) /\ back \in DOMAIN stale
    BY <1>2 DEF DamageInv
  <2> QED
    BY <1>1, <1>3, <2>1
<1>7. DamageInv'
  <2>1. damage' \in [D!Buffers -> Damage]
    BY <1>1, <1>2, DamageForms DEF DamageInv
  <2>2. DOMAIN stale' = D!Buffers /\ DOMAIN shadow' = D!Buffers
    BY <1>1 DEF DamageInv
  <2>3. ASSUME NEW b \in D!Buffers PROVE stale'[b] \subseteq D!Copied(damage'[b])
    <3>1. CASE b = back
      BY <1>6, <3>1
    <3>2. CASE b # back
      BY <1>1, <3>2 DEF DamageInv
    <3> QED
      BY <3>1, <3>2
  <2>4. ASSUME phase' = "validate", NEW b \in D!Buffers PROVE shadow'[b] \subseteq D!Copied(damage'[b])
    <3>1. CASE b = back
      <4>1. shadow[back] \subseteq D!Copied(damage[back]) /\ back \in DOMAIN shadow
        BY <1>1, <1>2, <2>4 DEF DamageInv
      <4>2. shadow'[back] = {}
        BY <1>1, <1>3, <2>4, <4>1
      <4> QED
        BY <3>1, <4>2
    <3>2. CASE b # back
      BY <1>1, <2>4, <3>2 DEF DamageInv
    <3> QED
      BY <3>1, <3>2
  <2>5. (\A b \in D!Buffers : stale[b] \subseteq D!Copied(damage[b]))'
    BY <2>3
  <2>6. (phase = "validate" => \A b \in D!Buffers : shadow[b] \subseteq D!Copied(damage[b]))'
    BY <2>4
  <2> QED
    BY <2>1, <2>2, <2>5, <2>6 DEF DamageInv
<1>8. WholeInv'
  <2>1. whole' = whole \cup {back}
    BY <1>1, <1>6
  <2> QED
    BY <1>1, <2>1 DEF WholeInv, OnlyWholeFramesAreShown, D!OnlyWholeFramesAreShown
<1> QED
  BY <1>4, <1>5, <1>7, <1>8

\* The buffer that is presented is whole, and the one drawn next is free.
LEMMA ScreenPresent == ScreenInv /\ D!Present => ScreenInv'
<1> SUFFICES ASSUME ScreenInv, D!Present PROVE ScreenInv'
  OBVIOUS
<1> USE DEF ScreenInv
<1>1. /\ dPc = "present" /\ ~flip_pending /\ dPc' = "drain"
      /\ back' = front /\ front' = in_flight /\ in_flight' = back
      /\ \/ posted /\ flip_pending' = TRUE /\ queued' = back /\ UNCHANGED <<posted, scanned>>
         \/ ~posted /\ posted' = TRUE /\ scanned' = back /\ UNCHANGED <<flip_pending, queued>>
      /\ UNCHANGED <<damage, stale, event, whole, phase, shadow>>
  BY DEF D!Present
<1>2. back # None /\ queued = None /\ ~event
  BY <1>1, DisplayAssumption DEF RolesInv, KernelInv
<1>3. RolesInv'
  BY <1>1 DEF RolesInv
<1>4. KernelInv'
  <2>1. CASE posted
    BY <1>1, <1>2, <2>1 DEF KernelInv
  <2>2. CASE ~posted
    <3>1. /\ posted' = TRUE /\ scanned' = back /\ flip_pending' = flip_pending /\ queued' = queued
          /\ in_flight' = back /\ event' = event
      BY <1>1, <2>2
    <3>2. posted' \in BOOLEAN /\ flip_pending' \in BOOLEAN /\ event' \in BOOLEAN
      BY <3>1 DEF KernelInv
    <3>3. queued' = None /\ ~flip_pending' /\ ~event'
      BY <1>1, <1>2, <3>1
    <3> QED
      BY <3>1, <3>2, <3>3 DEF KernelInv
  <2> QED
    BY <2>1, <2>2
<1>5. DamageInv'
  BY <1>1 DEF DamageInv
<1>6. WholeInv'
  <2>1. back \in whole /\ {scanned, queued} \ {None} \subseteq whole
    BY <1>1 DEF WholeInv, OnlyWholeFramesAreShown, D!OnlyWholeFramesAreShown
  <2> QED
    BY <1>1, <2>1 DEF WholeInv, OnlyWholeFramesAreShown, D!OnlyWholeFramesAreShown
<1> QED
  BY <1>3, <1>4, <1>5, <1>6

\* The kernel completes a flip, or its event is read.
LEMMA ScreenKernel == ScreenInv /\ (D!Vblank \/ D!FlipCompletes) => ScreenInv'
<1> SUFFICES ASSUME ScreenInv, D!Vblank \/ D!FlipCompletes PROVE ScreenInv'
  OBVIOUS
<1> USE DEF ScreenInv
<1>1. UNCHANGED <<dPc, front, back, in_flight, damage, stale, posted, whole, phase, shadow>>
  BY DEF D!Vblank, D!FlipCompletes, D!buffers
<1>2. RolesInv'
  BY <1>1 DEF RolesInv
<1>3. DamageInv'
  BY <1>1 DEF DamageInv
<1>4. CASE D!Vblank
  <2>1. queued # None /\ scanned' = queued /\ queued' = None /\ event' = TRUE /\ flip_pending' = flip_pending
    BY <1>4 DEF D!Vblank
  <2>2. KernelInv'
    BY <1>1, <2>1 DEF KernelInv
  <2>3. WholeInv'
    BY <1>1, <2>1 DEF WholeInv, OnlyWholeFramesAreShown, D!OnlyWholeFramesAreShown
  <2> QED
    BY <1>2, <1>3, <2>2, <2>3
<1>5. CASE D!FlipCompletes
  <2>1. event /\ flip_pending' = FALSE /\ event' = FALSE /\ UNCHANGED <<queued, scanned>>
    BY <1>5 DEF D!FlipCompletes
  <2>2. KernelInv'
    BY <1>1, <2>1 DEF KernelInv
  <2>3. WholeInv'
    BY <1>1, <2>1 DEF WholeInv, OnlyWholeFramesAreShown, D!OnlyWholeFramesAreShown
  <2> QED
    BY <1>2, <1>3, <2>2, <2>3
<1> QED
  BY <1>4, <1>5

\* The validation marks buffers for a full copy.
LEMMA ScreenValidation ==
  ScreenInv /\ (D!BeginValidation \/ D!ValidationFrame) => ScreenInv'
<1> SUFFICES ASSUME ScreenInv, D!BeginValidation \/ D!ValidationFrame PROVE ScreenInv'
  OBVIOUS
<1> USE DEF ScreenInv
<1>1. /\ dPc' = "draw" /\ DOMAIN shadow' = D!Buffers
      /\ UNCHANGED <<front, back, in_flight, stale, posted, flip_pending, event, queued, scanned, whole>>
  BY DEF D!BeginValidation, D!ValidationFrame, D!Polled, D!begin_copy_validation, D!buffers, D!kernel,
         DamageInv
<1>2. RolesInv'
  BY <1>1 DEF RolesInv
<1>3. KernelInv'
  BY <1>1 DEF KernelInv
<1>4. WholeInv'
  BY <1>1 DEF WholeInv, OnlyWholeFramesAreShown, D!OnlyWholeFramesAreShown
<1>5. /\ Seed \in Damage /\ Fallback \in Damage
      /\ D!Copied(Seed) = D!Pixels /\ D!Copied(Fallback) = D!Pixels
  BY OtherReasons, DamageKinds
<1>6. \A d \in Damage : D!Copied(d) \subseteq D!Pixels
  BY DamageKinds, CoverPixels
<1>7. \A b \in D!Buffers : damage[b] \in Damage /\ stale[b] \subseteq D!Copied(damage[b])
  BY DEF DamageInv
<1>8. /\ damage' \in [D!Buffers -> Damage]
      /\ \A b \in D!Buffers : damage'[b] \in {Seed, Fallback, damage[b]}
  <2>1. CASE D!BeginValidation
    <3>1. damage' = [b \in D!Buffers |-> IF b = back THEN Fallback ELSE Seed]
      BY <2>1 DEF D!BeginValidation, D!begin_copy_validation, Seed, Fallback
    <3> QED
      BY <1>5, <3>1
  <2>2. CASE D!ValidationFrame
    <3>1. damage' = [damage EXCEPT ![back] = Fallback] \/ damage' = damage
      BY <2>2 DEF D!ValidationFrame, Fallback
    <3> QED
      BY <1>5, <3>1 DEF DamageInv
  <2> QED
    BY <2>1, <2>2
<1>9. ASSUME NEW b \in D!Buffers PROVE stale'[b] \subseteq D!Copied(damage'[b])
  BY <1>1, <1>5, <1>6, <1>7, <1>8
<1>10. ASSUME phase' = "validate", NEW b \in D!Buffers PROVE shadow'[b] \subseteq D!Copied(damage'[b])
  <2>1. CASE D!BeginValidation
    <3>1. shadow'[b] = D!Pixels /\ damage'[b] \in {Seed, Fallback}
      BY <2>1 DEF D!BeginValidation, D!begin_copy_validation, Seed, Fallback
    <3> QED
      BY <1>5, <3>1
  <2>2. CASE D!ValidationFrame
    <3>1. shadow' = shadow /\ shadow[b] \subseteq D!Copied(damage[b])
      BY <2>2 DEF D!ValidationFrame, DamageInv
    <3> QED
      BY <1>5, <1>6, <1>7, <1>8, <3>1
  <2> QED
    BY <2>1, <2>2
<1>11. DOMAIN stale' = D!Buffers
  BY <1>1 DEF DamageInv
<1>12. (\A b \in D!Buffers : stale[b] \subseteq D!Copied(damage[b]))'
  BY <1>9
<1>13. (phase = "validate" => \A b \in D!Buffers : shadow[b] \subseteq D!Copied(damage[b]))'
  BY <1>10
<1>14. DamageInv'
  BY <1>1, <1>8, <1>11, <1>12, <1>13 DEF DamageInv
<1> QED
  BY <1>2, <1>3, <1>4, <1>14

\* Every step of the loop keeps the invariant of the screen.
LEMMA ScreenNext == ScreenInv /\ [D!Next]_D!vars => ScreenInv'
<1> SUFFICES ASSUME ScreenInv, [D!Next]_D!vars PROVE ScreenInv'
  OBVIOUS
<1>0. DOMAIN shadow = D!Buffers
  BY DEF ScreenInv, DamageInv
<1>1. CASE D!Top \/ D!NoDraw \/ D!DrawFails \/ D!Drain
  <2>1. /\ UNCHANGED <<front, back, in_flight, damage, stale, posted, flip_pending, event,
                       queued, scanned, whole, shadow, phase>>
        /\ dPc' # "present"
    BY <1>1 DEF D!Top, D!NoDraw, D!DrawFails, D!Drain, D!buffers, D!kernel
  <2> QED
    BY <1>0, <2>1, ScreenKept
<1>2. CASE D!Warm
  <2>1. /\ UNCHANGED <<front, back, in_flight, damage, stale, posted, flip_pending, event,
                       queued, scanned, whole, shadow>>
        /\ dPc' # "present" /\ phase' # "validate"
    BY <1>2 DEF D!Warm, D!Polled, D!buffers, D!kernel
  <2> QED
    BY <1>0, <2>1, ScreenKept
<1>3. CASE D!FinishValidation
  <2>1. /\ UNCHANGED <<front, back, in_flight, damage, stale, posted, flip_pending, event,
                       queued, scanned, whole>>
        /\ dPc' # "present" /\ phase' # "validate" /\ DOMAIN shadow' = D!Buffers
    BY <1>3 DEF D!FinishValidation, D!Polled, D!buffers, D!kernel
  <2> QED
    BY <2>1, ScreenKept
<1>4. CASE UNCHANGED D!vars
  <2>1. UNCHANGED <<dPc, front, back, in_flight, damage, stale, posted, flip_pending, event,
                    queued, scanned, whole, shadow, phase>>
    BY <1>4 DEF D!vars, D!buffers, D!kernel
  <2> QED
    BY <2>1 DEF ScreenInv, RolesInv, KernelInv, DamageInv, WholeInv, OnlyWholeFramesAreShown,
                D!OnlyWholeFramesAreShown
<1> QED
  BY <1>1, <1>2, <1>3, <1>4, ScreenValidation, ScreenRender, ScreenCopy, ScreenPresent, ScreenKernel
     DEF D!Next

\* What is on the screen, or will be at the next vertical blank, is one whole
\* frame, for every screen, every limit on the rectangles of the damage and
\* everything the renderer may report (KmsDisplay::render, present).
THEOREM WholeFrames == D!Spec => []OnlyWholeFramesAreShown
<1>1. ScreenInv => OnlyWholeFramesAreShown
  BY DEF ScreenInv, WholeInv
<1> QED
  BY <1>1, ScreenInit, ScreenNext, PTL DEF D!Spec

-----------------------------------------------------------------------------
(* The laboratories count exactly *)

\* Nothing has been counted.
LEMMA CountInit == D!Init => CountInv
<1> SUFFICES ASSUME D!Init PROVE CountInv
  OBVIOUS
<1>1. LabInv
  BY DEF D!Init, LabInv
<1>2. FlipInv
  BY DisplayAssumption DEF D!Init, FlipInv
<1>3. phase # "validate" /\ phase # "done" /\ ~reported
  BY DEF D!Init
<1> QED
  BY <1>1, <1>2, <1>3 DEF CountInv, ValidationInv, LabCountsAreExact, D!LabCountsAreExact

\* A laboratory leaves what belongs to the other alone.
LEMMA LabNext == ScreenInv /\ LabInv /\ [D!Next]_D!vars => LabInv'
<1> SUFFICES ASSUME ScreenInv, LabInv, [D!Next]_D!vars PROVE LabInv'
  OBVIOUS
<1> USE DEF LabInv
<1>0. posted \in BOOLEAN
  BY DEF ScreenInv, KernelInv
<1>1. CASE D!Top
  <2>1. /\ baseline' = (baseline \/ D!request_next) /\ redraw' \in BOOLEAN
        /\ UNCHANGED <<lab, flips, reported, phase, posted>>
    BY <1>1 DEF D!Top
  <2>2. D!request_next => lab = "flips" /\ posted
    BY DEF D!request_next
  <2> QED
    BY <2>1, <2>2
<1>2. CASE D!Warm
  BY <1>2 DEF D!Warm, D!flipLab
<1>3. CASE D!BeginValidation \/ D!ValidationFrame
  <2>1. /\ flips' \in Nat /\ redraw' = TRUE /\ phase' = "validate"
        /\ phase \in {"warm", "validate"} /\ UNCHANGED <<lab, posted, baseline, reported>>
    BY <1>3 DEF D!BeginValidation, D!ValidationFrame, D!AskFor, D!flipLab
  <2> QED
    BY <2>1
<1>4. CASE D!FinishValidation
  BY <1>4 DEF D!FinishValidation, D!flipLab
<1>5. CASE D!NoDraw \/ D!Copy \/ D!DrawFails \/ D!Vblank \/ UNCHANGED D!vars
  <2>1. UNCHANGED <<lab, flips, baseline, reported, redraw, phase, posted>>
    BY <1>5 DEF D!NoDraw, D!Copy, D!DrawFails, D!Vblank, D!vars, D!flipLab
  <2> QED
    BY <2>1
<1>6. CASE D!Render
  <2>1. redraw' = FALSE /\ UNCHANGED <<lab, flips, baseline, reported, phase, posted>>
    BY <1>6 DEF D!Render, D!flipLab
  <2> QED
    BY <2>1
<1>7. CASE D!Present
  <2>1. /\ posted' = TRUE \/ posted' = posted
        /\ UNCHANGED <<lab, flips, baseline, reported, redraw, phase>>
    BY <1>7 DEF D!Present, D!flipLab
  <2> QED
    BY <2>1
<1>8. CASE D!FlipCompletes
  <2>1. flips' \in Nat /\ UNCHANGED <<lab, baseline, reported, redraw, phase, posted>>
    BY <1>8 DEF D!FlipCompletes, D!flipLab
  <2> QED
    BY <2>1
<1>9. CASE D!Drain
  <2>1. /\ reported' = (reported \/ (baseline /\ remaining = 0 /\ ~flip_pending))
        /\ UNCHANGED <<lab, flips, baseline, redraw, phase, posted>>
    BY <1>9 DEF D!Drain
  <2>2. reported' \in BOOLEAN /\ (reported' => baseline)
    BY <2>1
  <2> QED
    BY <2>1, <2>2
<1> QED
  BY <1>1, <1>2, <1>3, <1>4, <1>5, <1>6, <1>7, <1>8, <1>9 DEF D!Next

\* No flip that was asked for is lost or counted twice.
LEMMA FlipNext == ScreenInv /\ LabInv /\ FlipInv /\ [D!Next]_D!vars => FlipInv'
<1> SUFFICES ASSUME ScreenInv, LabInv, FlipInv, [D!Next]_D!vars, lab' = "flips"
             PROVE  FlipInv'
  BY DEF FlipInv
<1>0. /\ posted \in BOOLEAN /\ flip_pending \in BOOLEAN /\ baseline \in BOOLEAN
      /\ reported \in BOOLEAN /\ redraw \in BOOLEAN /\ flips \in Nat /\ Flips \in Nat
  BY DisplayAssumption DEF ScreenInv, KernelInv, LabInv
<1>l. lab = "flips"
  BY DEF D!Next, D!Top, D!Warm, D!BeginValidation, D!ValidationFrame, D!FinishValidation, D!NoDraw,
         D!Render, D!Copy, D!Present, D!DrawFails, D!Vblank, D!FlipCompletes, D!Drain, D!vars
<1>p. phase = "off" /\ (baseline => posted) /\ (reported => baseline)
  BY <1>l DEF LabInv
<1>f. /\ remaining \in Nat
      /\ ~baseline =>
           /\ remaining = Flips /\ flips = 0
           /\ Flips > 0 => ~flip_pending /\ (posted => dPc \in {"drain", "top"})
      /\ baseline /\ ~reported /\ dPc # "failed" =>
           /\ flips + remaining + One(flip_pending) + One(dPc \in {"poll", "draw", "copy", "present"}) = Flips
           /\ dPc \in {"poll", "draw"} => redraw
           /\ dPc = "top" => remaining > 0
      /\ reported => flips = Flips
  BY <1>l DEF FlipInv
<1>1. CASE D!Top
  <2>1. /\ dPc = "top" /\ dPc' = "poll"
        /\ remaining' = IF D!request_next THEN remaining - 1 ELSE remaining
        /\ baseline' = (baseline \/ D!request_next)
        /\ D!request_next => redraw' = TRUE
        /\ UNCHANGED <<flips, reported, flip_pending, posted>>
    BY <1>1, <1>0 DEF D!Top
  <2>2. D!request_next <=> posted /\ remaining > 0
    BY <1>l DEF D!request_next
  <2>3. CASE D!request_next
    <3>1. /\ remaining' = remaining - 1 /\ baseline' = TRUE /\ redraw' = TRUE /\ posted /\ remaining > 0
      BY <2>1, <2>2, <2>3
    <3> QED
      BY <1>0, <1>f, <2>1, <3>1 DEF FlipInv, One
  <2>4. CASE ~D!request_next
    <3>1. remaining' = remaining /\ baseline' = baseline /\ (posted => ~(remaining > 0))
      BY <1>0, <2>1, <2>2, <2>4
    <3> QED
      BY <1>0, <1>p, <1>f, <2>1, <3>1 DEF FlipInv, One
  <2> QED
    BY <2>3, <2>4
<1>2. CASE D!Warm
  <2>1. /\ dPc = "poll" /\ dPc' = "draw"
        /\ UNCHANGED <<redraw, remaining, baseline, reported, flips, flip_pending, posted>>
    BY <1>2 DEF D!Warm, D!Polled, D!flipLab
  <2> QED
    BY <1>0, <1>f, <2>1 DEF FlipInv, One
<1>3. CASE D!BeginValidation \/ D!ValidationFrame \/ D!FinishValidation
  BY <1>3, <1>p DEF D!BeginValidation, D!ValidationFrame, D!FinishValidation
<1>4. CASE D!NoDraw
  <2>1. /\ dPc = "draw" /\ dPc' = "drain" /\ ~redraw
        /\ UNCHANGED <<remaining, baseline, reported, flips, flip_pending, posted>>
    BY <1>4 DEF D!NoDraw, D!flipLab
  <2> QED
    BY <1>0, <1>f, <2>1 DEF FlipInv, One
<1>5. CASE D!Render
  <2>1. /\ dPc = "draw" /\ dPc' = "copy"
        /\ UNCHANGED <<remaining, baseline, reported, flips, flip_pending, posted>>
    BY <1>5 DEF D!Render, D!flipLab
  <2> QED
    BY <1>0, <1>f, <2>1 DEF FlipInv, One
<1>6. CASE D!Copy
  <2>1. /\ dPc = "copy" /\ dPc' = "present"
        /\ UNCHANGED <<remaining, baseline, reported, flips, flip_pending, posted>>
    BY <1>6 DEF D!Copy, D!flipLab
  <2> QED
    BY <1>0, <1>f, <2>1 DEF FlipInv, One
<1>7. CASE D!Present
  <2>1. /\ dPc = "present" /\ dPc' = "drain" /\ ~flip_pending
        /\ posted => flip_pending' = TRUE /\ posted' = posted
        /\ ~posted => flip_pending' = flip_pending
        /\ UNCHANGED <<remaining, baseline, reported, flips>>
    BY <1>7 DEF D!Present, D!flipLab
  <2> QED
    BY <1>0, <1>p, <1>f, <2>1 DEF FlipInv, One
<1>8. CASE D!DrawFails
  <2>1. /\ dPc \in {"copy", "present"} /\ dPc' = "failed"
        /\ UNCHANGED <<remaining, baseline, reported, flips, flip_pending, posted>>
    BY <1>8 DEF D!DrawFails, D!flipLab
  <2> QED
    BY <1>0, <1>f, <2>1 DEF FlipInv, One
<1>9. CASE D!Vblank \/ UNCHANGED D!vars
  <2>1. UNCHANGED <<dPc, redraw, remaining, baseline, reported, flips, flip_pending, posted>>
    BY <1>9 DEF D!Vblank, D!vars, D!flipLab
  <2> QED
    BY <1>0, <1>f, <2>1 DEF FlipInv, One
<1>10. CASE D!FlipCompletes
  <2>1. /\ flip_pending /\ flip_pending' = FALSE /\ dPc \in {"present", "poll", "drain"}
        /\ flips' = IF baseline /\ ~reported THEN flips + 1 ELSE flips
        /\ UNCHANGED <<dPc, redraw, remaining, baseline, reported, posted>>
    BY <1>10, <1>p DEF D!FlipCompletes, D!flipLab
  <2> QED
    BY <1>0, <1>f, <2>1 DEF FlipInv, One
<1>11. CASE D!Drain
  <2>1. /\ dPc = "drain" /\ dPc' = "top" /\ ~(baseline /\ remaining = 0 /\ flip_pending)
        /\ reported' = (reported \/ (baseline /\ remaining = 0 /\ ~flip_pending))
        /\ UNCHANGED <<redraw, remaining, baseline, flips, flip_pending, posted>>
    BY <1>11 DEF D!Drain, D!should_drain
  <2> QED
    BY <1>0, <1>f, <2>1 DEF FlipInv, One
<1> QED
  BY <1>1, <1>2, <1>3, <1>4, <1>5, <1>6, <1>7, <1>8, <1>9, <1>10, <1>11 DEF D!Next

\* One more frame: a reference frame is counted, and each of three frames in a
\* row uses another buffer.
LEMMA Thirds ==
  ASSUME NEW n \in Nat
  PROVE  /\ References(n) \in Nat /\ n \div 3 \in Nat
         /\ References(n + 1) =
              References(n) + One(D!damage_validation_is_reference(n))
         /\ (n + 3) \div 3 = n \div 3 + 1
<1>1. PerState = 3
  BY DisplayAssumption
<1>2. PICK q \in Nat, r \in 0 .. 2 : n = 3 * q + r
  <2> DEFINE p == n \div 3
             m == n % 3
  <2>1. p \in Nat /\ m \in 0 .. 2
    OBVIOUS
  <2>2. p = n \div 3 /\ m = n % 3
    OBVIOUS
  <2> HIDE DEF p, m
  <2>3. n = 3 * p + m
    BY <2>1, <2>2
  <2> QED
    BY <2>1, <2>3
<1>3. n \div 3 = q /\ n % 3 = r
  BY <1>2
<1>4. (n + 1) \div 3 = (IF r = 2 THEN q + 1 ELSE q) /\ (n + 1) % 3 = (IF r = 2 THEN 0 ELSE r + 1)
  BY <1>2
<1>5. (n + 3) \div 3 = q + 1
  BY <1>2
<1>6. q % 3 \in 0 .. 2 /\ (q + 1) % 3 \in 0 .. 2
  OBVIOUS
<1>7. D!damage_validation_is_reference(n) <=> r = q % 3
  BY <1>1, <1>3 DEF D!damage_validation_is_reference
<1>8. References(n) = q + One(r > q % 3)
  BY <1>3 DEF References
<1>9. References(n + 1) = (IF r = 2 THEN q + 1 + One(0 > (q + 1) % 3) ELSE q + One(r + 1 > q % 3))
  BY <1>4 DEF References
<1>10. /\ One(r > q % 3) = (IF r > q % 3 THEN 1 ELSE 0) /\ One(0 > (q + 1) % 3) = 0
       /\ One(r + 1 > q % 3) = (IF r + 1 > q % 3 THEN 1 ELSE 0)
       /\ One(D!damage_validation_is_reference(n)) = (IF r = q % 3 THEN 1 ELSE 0)
  BY <1>6, <1>7 DEF One
<1> QED
  BY <1>3, <1>5, <1>6, <1>8, <1>9, <1>10

\* Each picture is shown three times, and so is the menu at the end.
LEMMA FramesIs == D!Frames = 3 * (States + 1) /\ D!Frames \in Nat /\ D!Frames > 0 /\ States \in Nat
  BY DisplayAssumption DEF D!Frames

\* The first frame of the validation is a reference frame, the next two are not.
LEMMA FirstReferences ==
  /\ D!damage_validation_is_reference(0)
  /\ ~D!damage_validation_is_reference(1) /\ ~D!damage_validation_is_reference(2)
  BY DisplayAssumption DEF D!damage_validation_is_reference

\* Steps that leave the validation alone.
LEMMA ValidationKept ==
  ASSUME ValidationInv,
         UNCHANGED <<dPc, redraw, next, stats, damage, front, back, in_flight, flips, flip_pending, phase>>
  PROVE  ValidationInv'
  BY DEF ValidationInv, Checked, InTurn, Seeded

\* The validation begins with all buffers to be copied in full.
LEMMA ValidationBegins == ScreenInv /\ D!BeginValidation => ValidationInv'
<1> SUFFICES ASSUME ScreenInv, D!BeginValidation PROVE ValidationInv'
  OBVIOUS
<1>1. /\ dPc' = "draw" /\ ~flip_pending /\ flips' = 0 /\ redraw' = TRUE /\ next' = 1
      /\ damage' = [b \in D!Buffers |-> IF b = back THEN Fallback ELSE Seed]
      /\ stats' = D!NoStats /\ UNCHANGED <<front, back, in_flight, flip_pending>>
  BY DEF D!BeginValidation, D!Polled, D!begin_copy_validation, D!AskFor, D!buffers, Seed, Fallback
<1>2. /\ damage'[back'] = Fallback /\ damage'[front'] = Seed /\ damage'[in_flight'] = Seed
      /\ Seed # Fallback
  BY <1>1, OtherReasons DEF ScreenInv, RolesInv
<1>3. /\ stats' \in Stats /\ stats'.mismatches = 0 /\ stats'.checks = 0 /\ stats'.seed = 0
      /\ stats'.fallback = 0 /\ \A b \in D!Buffers : stats'.buffer[b] = 0
  BY <1>1 DEF D!NoStats, Stats
<1>4. /\ stats'.buffer[back'] = 0 /\ stats'.buffer[front'] = 0 /\ stats'.buffer[in_flight'] = 0
  BY <1>1, <1>3 DEF ScreenInv, RolesInv
<1>5. References(0) = 0 /\ 0 \div 3 = 0 /\ 1 \div 3 = 0 /\ 2 \div 3 = 0
  BY DEF References, One
<1>6. next' - 1 = 0 /\ next' \in 1 .. D!Frames /\ 0 + 1 = 1 /\ 0 + 2 = 2
  BY <1>1, FramesIs
<1>7. Checked(0)' /\ InTurn(0)' /\ Seeded(0)'
  BY <1>2, <1>3, <1>4, <1>5, <1>6 DEF Checked, InTurn, Seeded
<1>8. /\ (damage[back] = Seed <=> 0 \in {1, 2})'
      /\ (damage[back] = Fallback <=> D!damage_validation_is_reference(0))'
  BY <1>2, FirstReferences
<1>9. (redraw <=> dPc = "draw")' /\ ~flip_pending'
  BY <1>1
<1> QED
  BY <1>1, <1>3, <1>6, <1>7, <1>8, <1>9 DEF ValidationInv

\* The next frame is asked for once the flip of the last one completed.
LEMMA ValidationContinues == ScreenInv /\ LabInv /\ ValidationInv /\ D!ValidationFrame => ValidationInv'
<1> SUFFICES ASSUME ScreenInv, LabInv, ValidationInv, D!ValidationFrame PROVE ValidationInv'
  OBVIOUS
<1> DEFINE ref == D!damage_validation_is_reference(next)
<1>1. /\ dPc = "poll" /\ dPc' = "draw" /\ phase = "validate" /\ next < D!Frames /\ ~flip_pending
      /\ damage' = IF ref THEN [damage EXCEPT ![back] = Fallback] ELSE damage
      /\ redraw' = TRUE /\ next' = next + 1
      /\ UNCHANGED <<front, back, in_flight, flip_pending, phase, stats, flips>>
  BY DEF D!ValidationFrame, D!Polled, D!AskFor, D!buffers, Fallback
<1>2. /\ next \in 1 .. D!Frames /\ stats \in Stats /\ stats.mismatches = 0
      /\ Checked(next) /\ InTurn(next) /\ Seeded(next)
      /\ damage[back] = Seed <=> next \in {1, 2}
      /\ damage[back] # Fallback /\ flips + One(flip_pending) = next
  BY <1>1 DEF ValidationInv
<1>3. next' \in 1 .. D!Frames /\ next' - 1 = next
  BY <1>1, <1>2, FramesIs
<1>4. flips = next
  <2>1. One(flip_pending) = 0
    BY <1>1 DEF One
  <2>2. flips \in Nat
    BY DEF LabInv
  <2> QED
    BY <1>2, <2>1, <2>2
<1>5. ref => next # 1 /\ next # 2
  BY FirstReferences
<1>6. /\ damage'[front] = damage[front] /\ damage'[in_flight] = damage[in_flight]
      /\ damage'[back] = IF ref THEN Fallback ELSE damage[back]
  <2> HIDE DEF ref
  <2> QED
    BY <1>1 DEF ScreenInv, RolesInv, DamageInv
<1> HIDE DEF ref
<1>7. /\ damage'[back'] = Seed <=> next \in {1, 2}
      /\ damage'[back'] = Fallback <=> ref
  <2>1. Seed # Fallback
    BY OtherReasons
  <2> QED
    BY <1>1, <1>2, <1>5, <1>6, <2>1
<1>8. (redraw <=> dPc = "draw")' /\ ~flip_pending'
  BY <1>1
<1> QED
  BY <1>1, <1>2, <1>3, <1>4, <1>6, <1>7, <1>8 DEF ValidationInv, Checked, InTurn, Seeded, ref

\* The frame is rendered: marks of the validation stay where they are.
LEMMA ValidationRenders == ScreenInv /\ ValidationInv /\ D!Render => ValidationInv'
<1> SUFFICES ASSUME ScreenInv, ValidationInv, D!Render, phase = "validate" PROVE ValidationInv'
  BY DEF ValidationInv, D!Render
<1>1. PICK rs \in (IF age = 0 THEN {<<>>} ELSE D!Painted) :
        damage' = D!Noted(D!from_physical_region(rs, age = 0))
  BY DEF D!Render
<1>2. /\ dPc = "draw" /\ dPc' = "copy" /\ redraw' = FALSE
      /\ UNCHANGED <<next, stats, front, back, in_flight, flips, flip_pending, phase>>
  BY DEF D!Render, D!buffers
<1>3. rs \in Seq(D!Rectangle)
  BY PaintedRects
<1>4. ASSUME NEW b \in D!Buffers
      PROVE  (damage'[b] = Seed <=> damage[b] = Seed) /\ (damage'[b] = Fallback <=> damage[b] = Fallback)
  <2>1. Grows(damage[b], damage'[b], D!Changed(rs))
    BY <1>1, <1>3, RenderGrows DEF ScreenInv
  <2>2. CASE damage[b] \in Marks
    <3>1. damage[b].kind = "full"
      BY <2>2, OtherReasons DEF Marks
    <3> QED
      BY <2>1, <3>1 DEF Grows
  <2>3. CASE damage[b] \notin Marks
    BY <2>1, <2>3 DEF Grows, Marks
  <2> QED
    BY <2>2, <2>3
<1>5. front \in D!Buffers /\ back \in D!Buffers /\ in_flight \in D!Buffers
  BY DEF ScreenInv, RolesInv
<1>6. /\ damage'[back'] = Seed <=> damage[back] = Seed
      /\ damage'[back'] = Fallback <=> damage[back] = Fallback
      /\ damage'[front'] = Seed <=> damage[front] = Seed
      /\ damage'[front'] = Fallback <=> damage[front] = Fallback
      /\ damage'[in_flight'] = Seed <=> damage[in_flight] = Seed
      /\ damage'[in_flight'] = Fallback <=> damage[in_flight] = Fallback
  BY <1>2, <1>4, <1>5
<1>7. /\ next \in 1 .. D!Frames /\ stats \in Stats /\ stats.mismatches = 0
      /\ Checked(next - 1) /\ InTurn(next - 1) /\ Seeded(next - 1)
      /\ damage[back] = Seed <=> next - 1 \in {1, 2}
      /\ damage[back] = Fallback <=> D!damage_validation_is_reference(next - 1)
      /\ flips = next - 1 /\ ~flip_pending
  BY <1>2 DEF ValidationInv
<1>8. (redraw <=> dPc = "draw")' /\ ~flip_pending'
  BY <1>2, <1>7
<1>9. Checked(next - 1)' /\ InTurn(next - 1)'
  BY <1>2, <1>7 DEF Checked, InTurn
<1>10. Seeded(next - 1)'
  BY <1>2, <1>6, <1>7 DEF Seeded
<1> QED
  BY <1>2, <1>6, <1>7, <1>8, <1>9, <1>10 DEF ValidationInv

\* The copy is checked: the shadow gets the same pixels and matches.
LEMMA ValidationCopies == ScreenInv /\ ValidationInv /\ D!Copy => ValidationInv'
<1> SUFFICES ASSUME ScreenInv, ValidationInv, D!Copy, phase = "validate" PROVE ValidationInv'
  BY DEF ValidationInv, D!Copy
<1> DEFINE mode == D!CopyMode(damage[back])
           left == D!update_validation_shadow(mode)
           n    == next - 1
<1>1. /\ dPc = "copy" /\ dPc' = "present" /\ stats' = D!record(mode, left = {})
      /\ damage' = [damage EXCEPT ![back] = D!Clean]
      /\ UNCHANGED <<redraw, next, front, back, in_flight, flips, flip_pending, phase>>
  BY DEF D!Copy, D!buffers
<1>2. back \in D!Buffers /\ front \in D!Buffers /\ in_flight \in D!Buffers
      /\ back # front /\ back # in_flight /\ damage[back] \in Damage /\ DOMAIN damage = D!Buffers
  BY DEF ScreenInv, RolesInv, DamageInv
<1>3. /\ D!Copied(damage[back]) \subseteq D!Copied(mode)
      /\ mode = Seed <=> damage[back] = Seed
      /\ mode = Fallback <=> damage[back] = Fallback
  BY <1>2, CopyModeCovers
<1>4. left = {}
  <2> HIDE DEF mode
  <2>1. shadow[back] \subseteq D!Copied(damage[back])
    BY <1>2 DEF ScreenInv, DamageInv
  <2> QED
    BY <1>3, <2>1 DEF D!update_validation_shadow
<1> HIDE DEF mode, left
<1>5. /\ next \in 1 .. D!Frames /\ stats \in Stats /\ stats.mismatches = 0 /\ ~redraw
      /\ Checked(n) /\ InTurn(n) /\ Seeded(n)
      /\ damage[back] = Seed <=> n \in {1, 2}
      /\ damage[back] = Fallback <=> D!damage_validation_is_reference(n)
      /\ flips = next - 1 /\ ~flip_pending
  BY <1>1 DEF ValidationInv
<1>6. stats' = [stats EXCEPT !.checks = @ + 1, !.buffer[back] = @ + 1, !.mismatches = @,
                              !.seed = IF mode = Seed THEN @ + 1 ELSE @,
                              !.fallback = IF mode = Fallback THEN @ + 1 ELSE @]
  BY <1>1, <1>4 DEF D!record, Seed, Fallback
<1>7. /\ stats.checks \in Nat /\ stats.seed \in Nat /\ stats.fallback \in Nat
      /\ stats.buffer \in [D!Buffers -> Nat]
  BY <1>5 DEF Stats
<1>8. /\ stats' \in Stats /\ stats'.mismatches = 0
      /\ stats'.checks = stats.checks + 1
      /\ stats'.seed = stats.seed + One(damage[back] = Seed)
      /\ stats'.fallback = stats.fallback + One(damage[back] = Fallback)
      /\ stats'.buffer = [stats.buffer EXCEPT ![back] = @ + 1]
  <2> DEFINE bufs == [stats.buffer EXCEPT ![back] = stats.buffer[back] + 1]
             seed == IF mode = Seed THEN stats.seed + 1 ELSE stats.seed
             fall == IF mode = Fallback THEN stats.fallback + 1 ELSE stats.fallback
  <2>1. stats' = [checks |-> stats.checks + 1, mismatches |-> stats.mismatches, buffer |-> bufs,
                  seed |-> seed, fallback |-> fall]
    BY <1>5, <1>6 DEF Stats
  <2>2. bufs \in [D!Buffers -> Nat]
    BY <1>2, <1>7
  <2>3. seed = stats.seed + One(damage[back] = Seed) /\ fall = stats.fallback + One(damage[back] = Fallback)
    BY <1>3, <1>7 DEF One
  <2>4. seed \in Nat /\ fall \in Nat /\ stats.checks + 1 \in Nat
    BY <1>7
  <2> HIDE DEF bufs, seed, fall
  <2>5. stats' \in Stats
    BY <1>5, <2>1, <2>2, <2>4 DEF Stats
  <2>6. /\ stats'.mismatches = 0 /\ stats'.checks = stats.checks + 1 /\ stats'.seed = seed
        /\ stats'.fallback = fall /\ stats'.buffer = bufs
    BY <1>5, <2>1
  <2> QED
    BY <2>3, <2>5, <2>6 DEF bufs
<1>9. /\ stats'.buffer[back] = stats.buffer[back] + 1 /\ stats'.buffer[front] = stats.buffer[front]
      /\ stats'.buffer[in_flight] = stats.buffer[in_flight]
  BY <1>2, <1>7, <1>8
<1>10. n \in Nat /\ next = n + 1 /\ next + 2 = n + 3 /\ next + 1 = n + 2 /\ next \in Nat
  BY <1>5, FramesIs
<1>11. /\ References(n) \in Nat /\ (n + 3) \div 3 = n \div 3 + 1
       /\ References(n + 1) = References(n) + One(D!damage_validation_is_reference(n))
  BY <1>10, Thirds
<1>12. (damage[back] = Fallback) = D!damage_validation_is_reference(n)
  BY <1>5 DEF D!damage_validation_is_reference
<1> HIDE DEF n
<1>13. stats'.fallback = References(next)
  BY <1>5, <1>8, <1>10, <1>11, <1>12 DEF Checked
<1>14. stats'.checks = next /\ stats'.seed = IF next < 2 THEN 0 ELSE IF next = 2 THEN 1 ELSE 2
  BY <1>5, <1>8, <1>10 DEF Checked, One
<1>15. Checked(next)'
  BY <1>1, <1>13, <1>14 DEF Checked
<1>16. /\ stats'.buffer[back'] = (next' + 2) \div 3 /\ stats'.buffer[front'] = next' \div 3
       /\ stats'.buffer[in_flight'] = (next' + 1) \div 3
  BY <1>1, <1>5, <1>9, <1>10, <1>11 DEF InTurn
<1>17. damage'[back'] = D!Clean /\ damage'[front] = damage[front] /\ damage'[in_flight] = damage[in_flight]
  BY <1>1, <1>2
<1>18. Seeded(next - 1)'
  BY <1>1, <1>5, <1>17 DEF Seeded, n
<1>19. (redraw <=> dPc = "draw")' /\ ~flip_pending'
  BY <1>1, <1>5
<1> QED
  BY <1>1, <1>5, <1>8, <1>15, <1>16, <1>17, <1>18, <1>19 DEF ValidationInv

\* The frame is presented and the buffers change their roles.
LEMMA ValidationPresents == ScreenInv /\ LabInv /\ ValidationInv /\ D!Present => ValidationInv'
<1> SUFFICES ASSUME ScreenInv, LabInv, ValidationInv, D!Present, phase = "validate"
             PROVE  ValidationInv'
  BY DEF ValidationInv, D!Present
<1>0. posted
  BY DEF LabInv
<1>1. /\ dPc = "present" /\ dPc' = "drain" /\ flip_pending' = TRUE
      /\ back' = front /\ front' = in_flight /\ in_flight' = back
      /\ UNCHANGED <<redraw, next, stats, damage, flips, phase>>
  BY <1>0 DEF D!Present
<1>2. /\ next \in 1 .. D!Frames /\ stats \in Stats /\ stats.mismatches = 0 /\ ~redraw
      /\ Checked(next) /\ Seeded(next - 1) /\ damage[back] = D!Clean
      /\ stats.buffer[back] = (next + 2) \div 3
      /\ stats.buffer[front] = next \div 3
      /\ stats.buffer[in_flight] = (next + 1) \div 3
      /\ flips = next - 1 /\ ~flip_pending
  BY <1>1 DEF ValidationInv
<1>3. D!Clean # Seed /\ D!Clean # Fallback
  BY DamageForms DEF Marks
<1>4. next \in Nat /\ next # 0 /\ (next - 1 = 0 <=> next = 1) /\ (next - 1 = 1 <=> next = 2)
  BY <1>2, FramesIs
<1>5. Checked(next)' /\ InTurn(next)'
  BY <1>1, <1>2 DEF Checked, InTurn
<1>6. Seeded(next)'
  BY <1>1, <1>2, <1>3, <1>4 DEF Seeded
<1>7. (damage[back] = Seed <=> next \in {1, 2})' /\ damage'[back'] # Fallback
  BY <1>1, <1>2, <1>4 DEF Seeded
<1>8. flips' + One(flip_pending') = next'
  BY <1>1, <1>2, <1>4 DEF One
<1>9. (redraw <=> dPc = "draw")'
  BY <1>1, <1>2
<1> QED
  BY <1>1, <1>2, <1>5, <1>6, <1>7, <1>8, <1>9 DEF ValidationInv

\* Every step of the loop keeps the invariant of the validation.
LEMMA ValidationNext ==
  ScreenInv /\ LabInv /\ ValidationInv /\ [D!Next]_D!vars => ValidationInv'
<1> SUFFICES ASSUME ScreenInv, LabInv, ValidationInv, [D!Next]_D!vars PROVE ValidationInv'
  OBVIOUS
<1>1. CASE D!Top
  <2> SUFFICES ASSUME phase = "validate" PROVE ValidationInv'
    BY <1>1 DEF ValidationInv, D!Top
  <2>1. ~D!request_next
    BY DEF LabInv, D!request_next
  <2>2. /\ dPc = "top" /\ dPc' = "poll" /\ redraw' = redraw
        /\ UNCHANGED <<next, stats, damage, front, back, in_flight, flips, flip_pending, phase>>
    BY <1>1, <2>1 DEF D!Top, D!buffers, LabInv
  <2> QED
    BY <2>2 DEF ValidationInv, Checked, InTurn, Seeded
<1>2. CASE D!Warm \/ D!FinishValidation \/ D!DrawFails
  BY <1>2 DEF D!Warm, D!FinishValidation, D!DrawFails, ValidationInv
<1>3. CASE D!NoDraw
  <2> SUFFICES ASSUME phase = "validate" PROVE FALSE
    BY <1>3 DEF ValidationInv, D!NoDraw
  <2> QED
    BY <1>3 DEF ValidationInv, D!NoDraw
<1>4. CASE D!Drain
  <2>1. /\ dPc = "drain" /\ dPc' = "top"
        /\ UNCHANGED <<redraw, next, stats, damage, front, back, in_flight, flips, flip_pending, phase>>
    BY <1>4 DEF D!Drain, D!buffers
  <2> QED
    BY <2>1 DEF ValidationInv, Checked, InTurn, Seeded
<1>5. CASE D!Vblank \/ UNCHANGED D!vars
  <2>1. UNCHANGED <<dPc, redraw, next, stats, damage, front, back, in_flight, flips, flip_pending, phase>>
    BY <1>5 DEF D!Vblank, D!vars, D!buffers
  <2> QED
    BY <2>1, ValidationKept
<1>6. CASE D!FlipCompletes
  <2> SUFFICES ASSUME phase = "validate" PROVE ValidationInv'
    BY <1>6 DEF ValidationInv, D!FlipCompletes
  <2>1. /\ flip_pending /\ flip_pending' = FALSE /\ flips' = flips + 1
        /\ dPc \in {"present", "poll", "drain"} /\ flips \in Nat
        /\ UNCHANGED <<dPc, redraw, next, stats, damage, front, back, in_flight, phase>>
    BY <1>6 DEF D!FlipCompletes, D!buffers, LabInv
  <2>2. dPc \in {"poll", "drain"}
    BY <2>1 DEF ValidationInv
  <2>3. flips + 1 = next
    BY <2>1, <2>2 DEF ValidationInv, One
  <2>4. flips' + One(flip_pending') = next'
    BY <2>1, <2>3 DEF One
  <2> QED
    BY <2>1, <2>2, <2>4 DEF ValidationInv, Checked, InTurn, Seeded
<1> QED
  BY <1>1, <1>2, <1>3, <1>4, <1>5, <1>6, ValidationBegins, ValidationContinues, ValidationRenders,
     ValidationCopies, ValidationPresents
     DEF D!Next

\* What the validation found when it ended.
LEMMA ExactNext ==
  ScreenInv /\ CountInv /\ FlipInv' /\ LabInv' /\ [D!Next]_D!vars => LabCountsAreExact'
<1> SUFFICES ASSUME ScreenInv, CountInv, FlipInv', LabInv', [D!Next]_D!vars PROVE LabCountsAreExact'
  OBVIOUS
<1> USE DEF CountInv
<1> DEFINE Found == [checks |-> D!Frames, mismatches |-> 0, buffer |-> [b \in D!Buffers |-> D!Frames \div 3],
                     seed |-> 2, fallback |-> States + 1]
<1>1. reported' => flips' = Flips
  BY DEF FlipInv, LabInv
<1>2. CASE D!FinishValidation
  <2>1. dPc = "poll" /\ phase = "validate" /\ next = D!Frames /\ ~flip_pending /\ UNCHANGED <<stats, flips>>
    BY <1>2 DEF D!FinishValidation, D!Polled
  <2>2. /\ stats \in Stats /\ stats.mismatches = 0 /\ Checked(D!Frames) /\ InTurn(D!Frames)
        /\ flips + One(flip_pending) = D!Frames
    BY <2>1 DEF ValidationInv
  <2>3. flips \in Nat /\ One(flip_pending) = 0
    BY <2>1 DEF LabInv, One
  <2>4. flips = D!Frames
    BY <2>2, <2>3
  <2>5. /\ D!Frames \div 3 = States + 1 /\ (D!Frames + 1) \div 3 = States + 1
        /\ (D!Frames + 2) \div 3 = States + 1 /\ D!Frames % 3 = 0 /\ D!Frames > 2
        /\ D!Frames \in Nat /\ States \in Nat
    BY FramesIs
  <2>6. References(D!Frames) = States + 1
    <3>1. (States + 1) % 3 \in 0 .. 2
      BY <2>5
    <3> QED
      BY <2>5, <3>1 DEF References, One
  <2>7. stats.checks = D!Frames /\ stats.seed = 2 /\ stats.fallback = States + 1
    BY <2>2, <2>5, <2>6 DEF Checked
  <2>8. stats.buffer = [b \in D!Buffers |-> D!Frames \div 3]
    <3>1. stats.buffer \in [D!Buffers -> Nat]
      BY <2>2 DEF Stats
    <3>2. \A b \in D!Buffers : b = front \/ b = back \/ b = in_flight
      BY DEF ScreenInv, RolesInv, D!Buffers
    <3>3. \A b \in D!Buffers : stats.buffer[b] = D!Frames \div 3
      BY <2>2, <2>5, <3>2 DEF InTurn
    <3> QED
      BY <3>1, <3>3
  <2>9. stats = Found
    BY <2>2, <2>7, <2>8 DEF Stats
  <2> QED
    BY <1>1, <2>1, <2>4, <2>9 DEF LabCountsAreExact, D!LabCountsAreExact
<1>3. CASE ~D!FinishValidation
  <2> SUFFICES ASSUME phase' = "done" PROVE stats' = Found /\ flips' = D!Frames
    BY <1>1 DEF LabCountsAreExact, D!LabCountsAreExact
  <2> HIDE DEF Found
  <2>1. phase = "done"
    BY <1>3 DEF D!Next, D!Top, D!Warm, D!BeginValidation, D!ValidationFrame, D!NoDraw, D!Render, D!Copy,
                D!Present, D!DrawFails, D!Vblank, D!FlipCompletes, D!Drain, D!vars
  <2>2. ~baseline
    BY <2>1 DEF LabInv
  <2>3. stats' = stats /\ flips' = flips
    BY <1>3, <2>1, <2>2
       DEF D!Next, D!Top, D!Warm, D!BeginValidation, D!ValidationFrame, D!NoDraw, D!Render, D!Copy,
           D!Present, D!DrawFails, D!Vblank, D!FlipCompletes, D!Drain, D!vars
  <2>4. stats = Found /\ flips = D!Frames
    BY <2>1 DEF LabCountsAreExact, D!LabCountsAreExact, Found
  <2> QED
    BY <2>3, <2>4
<1> QED
  BY <1>2, <1>3

\* DrmPageFlipLab reports exactly the flips it was asked for, and the validation
\* of UiAnimationLab ends with what passes() demands, for every number of flips
\* and pictures.
THEOREM LabsCountExactly == D!Spec => []LabCountsAreExact
<1>1. ScreenInv /\ CountInv /\ [D!Next]_D!vars => CountInv'
  <2> SUFFICES ASSUME ScreenInv, CountInv, [D!Next]_D!vars PROVE CountInv'
    OBVIOUS
  <2>1. LabInv' /\ FlipInv' /\ ValidationInv'
    BY LabNext, FlipNext, ValidationNext DEF CountInv
  <2>2. LabCountsAreExact'
    BY <2>1, ExactNext
  <2> QED
    BY <2>1, <2>2 DEF CountInv
<1>2. CountInv => LabCountsAreExact
  BY DEF CountInv
<1> QED
  BY <1>1, <1>2, ScreenInit, ScreenNext, CountInit, PTL DEF D!Spec

-----------------------------------------------------------------------------
(* The keys: the invariant *)

ButtonEvent == {"power_pressed", "power_released", "power_short_press", "open_menu",
                "previous", "next"}

\* The events by which a press takes effect outside the menu.
Acts == {"power_short_press", "open_menu"}

\* A press that has been read and can still produce such an event.
Armed == since # -1 /\ ~long

\* Between two effects there is a press, also one that is not handled yet.
Paced(evs, armed) ==
    /\ \A i, j \in 1 .. Len(evs) :
         i < j /\ evs[i] \in Acts /\ evs[j] \in Acts =>
             \E k \in 1 .. Len(evs) :
                 i < k /\ k < j /\ evs[k] = "power_pressed"
    /\ armed => \A i \in 1 .. Len(evs) : evs[i] \in Acts =>
                    \E k \in 1 .. Len(evs) :
                        i < k /\ evs[k] = "power_pressed"

\* The next effect has a press before it.
Spent(evs, armed) ==
    /\ \A j \in 1 .. Len(evs) : evs[j] \in Acts =>
         \E k \in 1 .. Len(evs) : k < j /\ evs[k] = "power_pressed"
    /\ armed => \E k \in 1 .. Len(evs) : evs[k] = "power_pressed"

EffectInv ==
    /\ effects <= 1
    /\ Paced(events, Armed)
    /\ effects = 1 /\ context = "boot_menu" => Spent(events, Armed)

\* The key is down as far as it was read, or its device went away.
Down == since # -1 \/ lost

\* Every press is still going on or followed by its release.
Ended(evs, down) ==
    \A i \in 1 .. Len(evs) : evs[i] = "power_pressed" =>
        down \/ \E k \in 1 .. Len(evs) : i < k /\ evs[k] = "power_released"

ToRelease(evs) == \E k \in 1 .. Len(evs) : evs[k] = "power_released"

\* What Slint holds pressed has a finger that is reported down, or one whose
\* device went away.
Touched == /\ pressed # 0 => was_down \/ touch_lost
           /\ was_down => finger # 0

\* Whoever holds an action is still there, or will release it in this turn.
HoldInv ==
    /\ pc = "top" => events = <<>>
    /\ device = "dropped" => since = -1
    /\ Ended(events, Down)
    /\ hold # 0 => menu /\ (hold = pressed \/ Down \/ ToRelease(events))
    /\ Touched

IInv == TypeOK /\ EffectInv /\ HoldInv

-----------------------------------------------------------------------------
(* The events of a turn as a sequence.                                      *)

\* An event that is no effect keeps the pace; only a press arms the key.
LEMMA OtherEvent ==
  ASSUME NEW evs \in Seq(ButtonEvent), NEW e \in ButtonEvent, e \notin Acts,
         NEW armed, NEW after, after => armed \/ e = "power_pressed"
  PROVE  /\ Paced(evs, armed) => Paced(Append(evs, e), after)
         /\ Spent(evs, armed) => Spent(Append(evs, e), after)
<1> DEFINE new == Append(evs, e)
<1>1. /\ Len(new) = Len(evs) + 1 /\ new[Len(evs) + 1] = e
      /\ \A i \in 1 .. Len(evs) : new[i] = evs[i]
      /\ Len(evs) \in Nat
  OBVIOUS
<1> HIDE DEF new
<1>2. ASSUME Paced(evs, armed) PROVE Paced(new, after)
  BY <1>1, <1>2 DEF Paced
<1>3. ASSUME Spent(evs, armed) PROVE Spent(new, after)
  BY <1>1, <1>3 DEF Spent
<1> QED
  BY <1>2, <1>3 DEF new

\* The effect of an armed press comes after that press and disarms it.
LEMMA ActEvent ==
  ASSUME NEW evs \in Seq(ButtonEvent), NEW e \in Acts
  PROVE  /\ Paced(evs, TRUE) => Paced(Append(evs, e), FALSE)
         /\ Spent(evs, TRUE) => Spent(Append(evs, e), FALSE)
<1> DEFINE new == Append(evs, e)
<1>1. /\ Len(new) = Len(evs) + 1 /\ new[Len(evs) + 1] = e
      /\ \A i \in 1 .. Len(evs) : new[i] = evs[i]
      /\ Len(evs) \in Nat
  OBVIOUS
<1> HIDE DEF new
<1>2. ASSUME Paced(evs, TRUE) PROVE Paced(new, FALSE)
  BY <1>1, <1>2 DEF Paced
<1>3. ASSUME Spent(evs, TRUE) PROVE Spent(new, FALSE)
  BY <1>1, <1>3 DEF Spent
<1> QED
  BY <1>2, <1>3 DEF new

\* A press that is no longer armed owes less.
LEMMA Disarm ==
  ASSUME NEW evs, NEW armed, NEW after, after => armed
  PROVE  /\ Paced(evs, armed) => Paced(evs, after)
         /\ Spent(evs, armed) => Spent(evs, after)
  BY DEF Paced, Spent

\* Handling the first event: an effect uses its press up, and none comes first
\* once the press was used.
LEMMA FirstEvent ==
  ASSUME NEW evs \in Seq(ButtonEvent), evs # <<>>, NEW armed, Paced(evs, armed)
  PROVE  /\ Paced(Tail(evs), armed)
         /\ Head(evs) \in Acts => ~Spent(evs, armed) /\ Spent(Tail(evs), armed)
         /\ Head(evs) # "power_pressed" /\ Spent(evs, armed) =>
              Spent(Tail(evs), armed)
<1> DEFINE rest == Tail(evs)
<1>1. /\ Len(evs) = Len(rest) + 1 /\ Len(rest) \in Nat /\ Head(evs) = evs[1]
      /\ \A i \in 1 .. Len(rest) : rest[i] = evs[i + 1]
  OBVIOUS
<1>2. \A i \in 1 .. Len(evs) : i # 1 => i - 1 \in 1 .. Len(rest) /\ evs[i] = rest[i - 1]
  BY <1>1
<1> HIDE DEF rest
<1>3. Paced(rest, armed)
  <2>1. ASSUME NEW i \in 1 .. Len(rest), NEW j \in 1 .. Len(rest),
               i < j, rest[i] \in Acts, rest[j] \in Acts
        PROVE  \E k \in 1 .. Len(rest) :
                 i < k /\ k < j /\ rest[k] = "power_pressed"
    <3>1. /\ i + 1 \in 1 .. Len(evs) /\ j + 1 \in 1 .. Len(evs) /\ i + 1 < j + 1
          /\ evs[i + 1] \in Acts /\ evs[j + 1] \in Acts
      BY <1>1, <2>1
    <3>2. PICK k \in 1 .. Len(evs) :
            i + 1 < k /\ k < j + 1 /\ evs[k] = "power_pressed"
      BY <3>1 DEF Paced
    <3>3. k - 1 \in 1 .. Len(rest) /\ i < k - 1 /\ k - 1 < j
      BY <1>1, <3>2
    <3>4. rest[k - 1] = "power_pressed"
      BY <1>2, <3>2, <3>3
    <3> QED
      BY <3>3, <3>4
  <2>2. ASSUME armed, NEW i \in 1 .. Len(rest), rest[i] \in Acts
        PROVE  \E k \in 1 .. Len(rest) : i < k /\ rest[k] = "power_pressed"
    <3>1. i + 1 \in 1 .. Len(evs) /\ evs[i + 1] \in Acts
      BY <1>1, <2>2
    <3>2. PICK k \in 1 .. Len(evs) : i + 1 < k /\ evs[k] = "power_pressed"
      BY <2>2, <3>1 DEF Paced
    <3>3. k - 1 \in 1 .. Len(rest) /\ i < k - 1
      BY <1>1, <3>2
    <3>4. rest[k - 1] = "power_pressed"
      BY <1>2, <3>2, <3>3
    <3> QED
      BY <3>3, <3>4
  <2> QED
    BY <2>1, <2>2 DEF Paced
<1>4. ASSUME Head(evs) \in Acts PROVE ~Spent(evs, armed)
  BY <1>1, <1>4 DEF Spent
<1>5. ASSUME Head(evs) \in Acts PROVE Spent(rest, armed)
  <2>1. ASSUME NEW j \in 1 .. Len(rest), rest[j] \in Acts
        PROVE  \E k \in 1 .. Len(rest) : k < j /\ rest[k] = "power_pressed"
    <3>1. /\ 1 \in 1 .. Len(evs) /\ j + 1 \in 1 .. Len(evs) /\ 1 < j + 1
          /\ evs[1] \in Acts /\ evs[j + 1] \in Acts
      BY <1>1, <1>5, <2>1
    <3>2. PICK k \in 1 .. Len(evs) : 1 < k /\ k < j + 1 /\ evs[k] = "power_pressed"
      BY <3>1 DEF Paced
    <3>3. k - 1 \in 1 .. Len(rest) /\ k - 1 < j
      BY <1>1, <3>2
    <3>4. rest[k - 1] = "power_pressed"
      BY <1>2, <3>2, <3>3
    <3> QED
      BY <3>3, <3>4
  <2>2. ASSUME armed PROVE \E k \in 1 .. Len(rest) : rest[k] = "power_pressed"
    <3>1. 1 \in 1 .. Len(evs) /\ evs[1] \in Acts
      BY <1>1, <1>5
    <3>2. PICK k \in 1 .. Len(evs) : 1 < k /\ evs[k] = "power_pressed"
      BY <2>2, <3>1 DEF Paced
    <3>3. k - 1 \in 1 .. Len(rest) /\ rest[k - 1] = "power_pressed"
      BY <1>2, <3>2
    <3> QED
      BY <3>3
  <2> QED
    BY <2>1, <2>2 DEF Spent
<1>6. ASSUME Head(evs) # "power_pressed", Spent(evs, armed) PROVE Spent(rest, armed)
  <2>1. ASSUME NEW j \in 1 .. Len(rest), rest[j] \in Acts
        PROVE  \E k \in 1 .. Len(rest) : k < j /\ rest[k] = "power_pressed"
    <3>1. j + 1 \in 1 .. Len(evs) /\ evs[j + 1] \in Acts
      BY <1>1, <2>1
    <3>2. PICK k \in 1 .. Len(evs) : k < j + 1 /\ evs[k] = "power_pressed"
      BY <1>6, <3>1 DEF Spent
    <3>3. k # 1
      BY <1>1, <1>6, <3>2
    <3>4. k - 1 \in 1 .. Len(rest) /\ k - 1 < j /\ rest[k - 1] = "power_pressed"
      BY <1>2, <3>2, <3>3
    <3> QED
      BY <3>4
  <2>2. ASSUME armed PROVE \E k \in 1 .. Len(rest) : rest[k] = "power_pressed"
    <3>1. PICK k \in 1 .. Len(evs) : evs[k] = "power_pressed"
      BY <1>6, <2>2 DEF Spent
    <3>2. k # 1
      BY <1>1, <1>6, <3>1
    <3>3. k - 1 \in 1 .. Len(rest) /\ rest[k - 1] = "power_pressed"
      BY <1>2, <3>1, <3>2
    <3> QED
      BY <3>3
  <2> QED
    BY <2>1, <2>2 DEF Spent
<1> QED
  BY <1>3, <1>4, <1>5, <1>6 DEF rest

\* A press is over only when its release follows.
LEMMA EndedAppend ==
  ASSUME NEW evs \in Seq(ButtonEvent), NEW e \in ButtonEvent, NEW down, NEW after,
         Ended(evs, down), down => after \/ e = "power_released",
         e = "power_pressed" => after
  PROVE  Ended(Append(evs, e), after)
<1> DEFINE new == Append(evs, e)
<1>1. /\ Len(new) = Len(evs) + 1 /\ new[Len(evs) + 1] = e
      /\ \A i \in 1 .. Len(evs) : new[i] = evs[i]
      /\ Len(evs) \in Nat
  OBVIOUS
<1> HIDE DEF new
<1>2. Ended(new, after)
  BY <1>1 DEF Ended
<1> QED
  BY <1>2 DEF new

\* Events to come stay to come when another is added.
LEMMA ToReleaseAppend ==
  ASSUME NEW evs \in Seq(ButtonEvent), NEW e \in ButtonEvent
  PROVE  /\ ToRelease(evs) => ToRelease(Append(evs, e))
         /\ e = "power_released" => ToRelease(Append(evs, e))
  BY DEF ToRelease

\* A press that is handled has its release still to come if it is over.
LEMMA EndedFirst ==
  ASSUME NEW evs \in Seq(ButtonEvent), evs # <<>>, NEW down, Ended(evs, down)
  PROVE  /\ Ended(Tail(evs), down)
         /\ Head(evs) = "power_pressed" => down \/ ToRelease(Tail(evs))
         /\ Head(evs) # "power_released" /\ ToRelease(evs) => ToRelease(Tail(evs))
<1> DEFINE rest == Tail(evs)
<1>1. /\ Len(evs) = Len(rest) + 1 /\ Len(rest) \in Nat /\ Head(evs) = evs[1]
      /\ \A i \in 1 .. Len(rest) : rest[i] = evs[i + 1]
  OBVIOUS
<1>2. \A i \in 1 .. Len(evs) : i # 1 => i - 1 \in 1 .. Len(rest) /\ evs[i] = rest[i - 1]
  BY <1>1
<1> HIDE DEF rest
<1>3. Ended(rest, down)
  <2>1. ASSUME NEW i \in 1 .. Len(rest), rest[i] = "power_pressed", ~down
        PROVE  \E k \in 1 .. Len(rest) : i < k /\ rest[k] = "power_released"
    <3>1. i + 1 \in 1 .. Len(evs) /\ evs[i + 1] = "power_pressed"
      BY <1>1, <2>1
    <3>2. PICK k \in 1 .. Len(evs) : i + 1 < k /\ evs[k] = "power_released"
      BY <2>1, <3>1 DEF Ended
    <3>3. k - 1 \in 1 .. Len(rest) /\ i < k - 1
      BY <1>1, <3>2
    <3>4. rest[k - 1] = "power_released"
      BY <1>2, <3>2, <3>3
    <3> QED
      BY <3>3, <3>4
  <2> QED
    BY <2>1 DEF Ended
<1>4. ASSUME Head(evs) = "power_pressed" PROVE down \/ ToRelease(rest)
  BY <1>1, <1>2, <1>4 DEF Ended, ToRelease
<1>5. ASSUME Head(evs) # "power_released", ToRelease(evs) PROVE ToRelease(rest)
  BY <1>1, <1>2, <1>5 DEF ToRelease
<1> QED
  BY <1>3, <1>4, <1>5 DEF rest

-----------------------------------------------------------------------------
(* What the actions do with a turn's events, in terms of one event at a time. *)

\* ButtonState::handle by the key event that is read.
LEMMA ReadCases ==
  ASSUME TypeOK, Read
  PROVE  \/ /\ Head(queue) = "power_down" /\ since' = 0 /\ long' = FALSE
            /\ events' = Append(events, "power_pressed") /\ lost' = FALSE
         \/ /\ since = -1 /\ since' = -1 /\ long' = FALSE /\ events' = events
            /\ lost' = lost
         \/ /\ since # -1 /\ long /\ since' = -1 /\ long' = FALSE /\ lost' = lost
            /\ events' = Append(events, "power_released")
         \/ /\ since # -1 /\ ~long /\ since' = -1 /\ long' = FALSE /\ lost' = lost
            /\ events' = Append(Append(events, "power_released"), "power_short_press")
         \/ /\ \E e \in {"previous", "next"} : events' = Append(events, e)
            /\ UNCHANGED buttons /\ lost' = lost
<1>1. Head(queue) \in {"power_down", "power_up", "volume_up", "volume_down"}
  BY DEF Read, TypeOK
<1>2. events \o <<"power_released", "power_short_press">>
        = Append(Append(events, "power_released"), "power_short_press")
  BY DEF TypeOK
<1>3. lost' = (lost /\ Head(queue) # "power_down")
  BY DEF Read
<1>4. lost \in BOOLEAN
  BY DEF TypeOK
<1>5. Head(queue) # "power_down" => lost' = lost
  BY <1>3, <1>4, Zenon
<1>6. CASE Head(queue) = "power_down"
  <2>1. since' = 0 /\ long' = FALSE /\ events' = Append(events, "power_pressed")
    BY <1>6 DEF Read
  <2>2. lost' = FALSE
    BY <1>3, <1>6
  <2> QED
    BY <1>6, <2>1, <2>2
<1>7. CASE Head(queue) = "power_up"
  BY <1>2, <1>5, <1>7 DEF Read
<1>8. CASE Head(queue) \in {"volume_up", "volume_down"}
  BY <1>5, <1>8 DEF Read
<1> QED
  BY <1>1, <1>6, <1>7, <1>8

\* The first event is handled and leaves the sequence.
LEMMA DispatchFacts ==
  ASSUME TypeOK, NEW e, Dispatch(e)
  PROVE  /\ events \in Seq(ButtonEvent) /\ events # <<>> /\ Head(events) = e
         /\ events' = Tail(events) /\ pc = "dispatch"
         /\ UNCHANGED <<pc, device, since, long, finger, was_down, pressed>>
  BY DEF Dispatch, TypeOK, buttons, touchVars, ButtonEvent

-----------------------------------------------------------------------------

\* Every turn keeps the types.
LEMMA NextType == TypeOK /\ [Next]_vars => TypeOK'
<1> SUFFICES ASSUME TypeOK, [Next]_vars PROVE TypeOK'
  OBVIOUS
<1> USE KeysAssumption DEF TypeOK, world, buttons, menuVars, touchVars, history
<1>1. CASE KeyMoves
  <2>1. key' \in BOOLEAN
    BY <1>1 DEF KeyMoves
  <2> QED
    BY <1>1, <2>1 DEF KeyMoves, Queued
<1>2. CASE VolumeKey
  BY <1>2 DEF VolumeKey, Queued
<1>3. CASE DeviceFails
  BY <1>3 DEF DeviceFails
<1>4. CASE FingerTaps
  <2>1. menu' \in BOOLEAN /\ was_down' \in BOOLEAN /\ touch_lost' \in BOOLEAN
    BY <1>4 DEF FingerTaps, PointerUp
  <2>2. hold' \in 0 .. 2 /\ pressed' \in 0 .. 2 /\ selection' \in 0 .. 2
    BY <1>4 DEF FingerTaps, PointerUp
  <2> QED
    BY <1>4, <2>1, <2>2 DEF FingerTaps
<1>5. CASE FingerPresses
  <2>1. was_down' \in BOOLEAN
    BY <1>5 DEF FingerPresses, PointerDown
  <2>2. hold' \in 0 .. 2 /\ pressed' \in 0 .. 2
    BY <1>5 DEF FingerPresses, PointerDown, begin_power_hold
  <2> QED
    BY <1>5, <2>1, <2>2 DEF FingerPresses
<1>6. CASE FingerLifts
  <2>1. was_down' \in BOOLEAN /\ touch_lost' \in BOOLEAN
    BY <1>6 DEF FingerLifts, PointerUp
  <2>2. hold' \in 0 .. 2 /\ pressed' \in 0 .. 2
    BY <1>6 DEF FingerLifts, PointerUp
  <2> QED
    BY <1>6, <2>1, <2>2 DEF FingerLifts
<1>21. CASE DropTouch \/ RescanTouch
  <2>1. touch' \in BOOLEAN /\ was_down' \in BOOLEAN /\ touch_lost' \in BOOLEAN
    BY <1>21 DEF DropTouch, RescanTouch
  <2> QED
    BY <1>21, <2>1 DEF DropTouch, RescanTouch
<1>20. CASE FingerSeen
  <2>1. was_down' \in BOOLEAN
    BY <1>20 DEF FingerSeen, PointerDown
  <2>2. hold' \in 0 .. 2 /\ pressed' \in 0 .. 2
    BY <1>20 DEF FingerSeen, PointerDown, begin_power_hold
  <2> QED
    BY <1>20, <2>1, <2>2 DEF FingerSeen
<1>7. CASE Turn
  <2>1. menu' \in BOOLEAN
    BY <1>7 DEF Turn
  <2> QED
    BY <1>7, <2>1 DEF Turn
<1>8. CASE Read
  <2>1. lost' \in BOOLEAN /\ long' \in BOOLEAN
    BY <1>8, ReadCases
  <2>2. events' \in Seq(ButtonEvent)
    <3>1. events \in Seq(ButtonEvent)
      BY DEF ButtonEvent
    <3>2. \/ events' = events
          \/ \E e \in ButtonEvent : events' = Append(events, e)
          \/ events' = Append(Append(events, "power_released"), "power_short_press")
      BY <1>8, ReadCases DEF ButtonEvent
    <3>3. "power_released" \in ButtonEvent /\ "power_short_press" \in ButtonEvent
      BY DEF ButtonEvent
    <3> QED
      BY <3>1, <3>2, <3>3, SMTT(30)
  <2>3. since' \in -1 .. KeyHold
    <3>1. since' = 0 \/ since' = -1 \/ since' = since
      BY <1>8, ReadCases
    <3>2. since \in -1 .. KeyHold
      OBVIOUS
    <3> QED
      BY <3>1, <3>2
  <2> QED
    BY <1>8, <2>1, <2>2, <2>3 DEF Read, ButtonEvent
<1>9. CASE ReadAll
  <2>1. long' \in BOOLEAN
    BY <1>9 DEF ReadAll, LongPress
  <2> QED
    BY <1>9, <2>1 DEF ReadAll, LongPress
<1>10. CASE DropDevice
  <2>1. lost' \in BOOLEAN /\ long' \in BOOLEAN
    BY <1>10 DEF DropDevice
  <2> QED
    BY <1>10, <2>1 DEF DropDevice
<1>11. CASE Rescan
  BY <1>11 DEF Rescan
<1>12. CASE Navigate \/ NavigateRows
  <2>1. events' = Tail(events) /\ events # <<>>
    BY <1>12 DEF Navigate, NavigateRows, Dispatch
  <2>2. selection' \in 0 .. 2 /\ hold' \in 0 .. 2
    BY <1>12 DEF Navigate, NavigateRows, set_power_menu_selection
  <2>3. UNCHANGED <<pc, world, device, buttons, timer, touchVars, context, menu,
                    booting, history>>
    BY <1>12 DEF Navigate, NavigateRows, Dispatch
  <2> QED
    BY <2>1, <2>2, <2>3
<1>13. CASE PowerPressed
  <2>1. menu' \in BOOLEAN
    BY <1>13 DEF PowerPressed, begin_power_hold
  <2> QED
    BY <1>13, <2>1 DEF PowerPressed, Dispatch, begin_power_hold
<1>14. CASE PowerReleased
  BY <1>14 DEF PowerReleased, Dispatch
<1>15. CASE PowerShortPress
  <2>1. booting' \in BOOLEAN
    BY <1>15 DEF PowerShortPress, Activate
  <2> QED
    BY <1>15, <2>1 DEF PowerShortPress, Dispatch, Activate
<1>16. CASE OpenMenu
  <2>1. menu' \in BOOLEAN
    BY <1>16 DEF OpenMenu
  <2> QED
    BY <1>16, <2>1 DEF OpenMenu, Dispatch
<1>17. CASE BootFails
  <2>1. booting' \in BOOLEAN
    BY <1>17 DEF BootFails
  <2> QED
    BY <1>17, <2>1 DEF BootFails
<1>18. CASE Dispatched
  BY <1>18 DEF Dispatched
<1>19. CASE UNCHANGED vars
  BY <1>19 DEF vars
<1> QED
  BY <1>1, <1>2, <1>3, <1>4, <1>5, <1>6, <1>7, <1>8, <1>9, <1>10, <1>11, <1>12,
     <1>13, <1>14, <1>15, <1>16, <1>17, <1>18, <1>19, <1>20, <1>21 DEF Next

\* A press has its effect at most once, whether its events are handled before
\* or after the next press is read.
LEMMA NextEffect == TypeOK /\ EffectInv /\ [Next]_vars => EffectInv'
<1> SUFFICES ASSUME TypeOK, EffectInv, [Next]_vars PROVE EffectInv'
  OBVIOUS
<1>0. events \in Seq(ButtonEvent) /\ effects \in Nat
  BY DEF TypeOK, ButtonEvent
<1> USE DEF EffectInv
\* Reading
<1>1. CASE UNCHANGED <<events, effects, context>> /\ (Armed' => Armed)
  BY <1>1, Disarm
<1>2. ASSUME NEW e \in ButtonEvent \ Acts, events' = Append(events, e),
             Armed' => Armed \/ e = "power_pressed", UNCHANGED <<effects, context>>
      PROVE  EffectInv'
  BY <1>0, <1>2, OtherEvent
<1>3. CASE Read
  <2>0. UNCHANGED <<effects, context>>
    BY <1>3 DEF Read
  <2>1. CASE events' = Append(events, "power_pressed")
    BY <1>2, <2>0, <2>1 DEF ButtonEvent, Acts
  <2>2. CASE since' = -1 /\ events' = events
    BY <1>1, <2>0, <2>2 DEF Armed
  <2>3. CASE since' = -1 /\ events' = Append(events, "power_released")
    BY <1>2, <2>0, <2>3 DEF Armed, ButtonEvent, Acts
  <2>4. CASE /\ since # -1 /\ ~long /\ since' = -1
             /\ events' = Append(Append(events, "power_released"), "power_short_press")
    <3> DEFINE mid == Append(events, "power_released")
    <3>1. mid \in Seq(ButtonEvent)
      BY <1>0 DEF ButtonEvent
    <3>2. /\ Paced(mid, TRUE)
          /\ effects = 1 /\ context = "boot_menu" => Spent(mid, TRUE)
      <4>1. Armed
        BY <2>4 DEF Armed
      <4>2. "power_released" \in ButtonEvent /\ "power_released" \notin Acts
        BY DEF ButtonEvent, Acts
      <4> QED
        BY <1>0, <4>1, <4>2, OtherEvent
    <3>3. ~Armed' /\ events' = Append(mid, "power_short_press")
      BY <2>4 DEF Armed
    <3>4. "power_short_press" \in Acts
      BY DEF Acts
    <3> HIDE DEF mid
    <3>5. /\ Paced(events', FALSE)
          /\ effects = 1 /\ context = "boot_menu" => Spent(events', FALSE)
      BY <3>1, <3>2, <3>3, <3>4, ActEvent
    <3> QED
      BY <2>0, <3>3, <3>5, Disarm
  <2>5. CASE (\E e \in {"previous", "next"} : events' = Append(events, e)) /\ UNCHANGED buttons
    BY <1>2, <2>0, <2>5 DEF Armed, buttons, ButtonEvent, Acts
  <2> QED
    BY <1>3, <2>1, <2>2, <2>3, <2>4, <2>5, ReadCases
<1>4. CASE ReadAll
  <2>0. UNCHANGED <<effects, context, since>>
    BY <1>4 DEF ReadAll, history
  <2>1. CASE UNCHANGED <<long, events>>
    BY <1>1, <2>0, <2>1 DEF Armed
  <2>2. CASE since = KeyHold /\ ~long /\ long' = TRUE /\ events' = Append(events, "open_menu")
    <3>1. Armed /\ ~Armed' /\ "open_menu" \in Acts
      BY <2>2, KeysAssumption DEF Armed, Acts
    <3>2. /\ Paced(events', FALSE)
          /\ effects = 1 /\ context = "boot_menu" => Spent(events', FALSE)
      <4>1. Paced(events, TRUE) /\ (effects = 1 /\ context = "boot_menu" => Spent(events, TRUE))
        BY <3>1, Disarm
      <4> QED
        BY <1>0, <2>2, <3>1, <4>1, ActEvent
    <3> QED
      BY <2>0, <3>1, <3>2, Disarm
  <2> QED
    BY <1>4, <2>1, <2>2 DEF ReadAll, LongPress
\* Dispatching
<1>5. CASE Navigate \/ NavigateRows \/ PowerReleased
  <2>1. PICK e \in {"previous", "next", "power_released"} : Dispatch(e)
    BY <1>5 DEF Navigate, NavigateRows, PowerReleased
  <2>2. UNCHANGED <<effects, context>>
    BY <1>5 DEF Navigate, NavigateRows, PowerReleased, history
  <2>3. /\ events # <<>> /\ events' = Tail(events) /\ Head(events) # "power_pressed"
        /\ Armed' = Armed
    BY <2>1, DispatchFacts DEF Armed
  <2> QED
    BY <1>0, <2>2, <2>3, FirstEvent
<1>6. CASE PowerPressed
  <2>1. events # <<>> /\ events' = Tail(events) /\ Armed' = Armed
    BY <1>6, DispatchFacts DEF PowerPressed, Armed
  <2>2. \/ effects' = 1 /\ context' = "power_menu"
        \/ effects' = 0
    BY <1>6 DEF PowerPressed
  <2> QED
    BY <1>0, <2>1, <2>2, FirstEvent
<1>7. CASE PowerShortPress \/ OpenMenu
  <2>1. /\ events # <<>> /\ events' = Tail(events) /\ Head(events) \in Acts
        /\ Armed' = Armed
    BY <1>7, DispatchFacts DEF PowerShortPress, OpenMenu, Armed, Acts
  <2>2. /\ UNCHANGED context
        /\ \/ UNCHANGED effects
           \/ effects' = effects + 1 /\ context = "boot_menu"
    BY <1>7 DEF PowerShortPress, OpenMenu, Activate
  <2>3. /\ Paced(events', Armed) /\ Spent(events', Armed) /\ ~Spent(events, Armed)
    BY <1>0, <2>1, FirstEvent
  <2> QED
    BY <1>0, <2>1, <2>2, <2>3
\* The rest
<1>8. CASE DropDevice \/ Turn
  BY <1>1, <1>8, KeysAssumption DEF DropDevice, Turn, Armed, history, TypeOK
<1>9. CASE \/ KeyMoves \/ VolumeKey \/ DeviceFails \/ FingerTaps \/ FingerPresses
           \/ FingerLifts \/ DropTouch \/ RescanTouch \/ FingerSeen \/ Rescan \/ BootFails \/ Dispatched \/ UNCHANGED vars
  BY <1>1, <1>9
     DEF KeyMoves, VolumeKey, DeviceFails, FingerTaps, FingerPresses,
         FingerLifts, DropTouch, RescanTouch, FingerSeen, Rescan, BootFails, Dispatched, vars, Armed, buttons, history
<1> QED
  BY <1>3, <1>4, <1>5, <1>6, <1>7, <1>8, <1>9 DEF Next
\* What is held is held by a finger or by a press that is not over, and a
\* press that is over has its release to come in the same turn.
LEMMA NextHold == TypeOK /\ HoldInv /\ [Next]_vars => HoldInv'
<1> SUFFICES ASSUME TypeOK, HoldInv, [Next]_vars PROVE HoldInv'
  OBVIOUS
<1>0. events \in Seq(ButtonEvent)
  BY DEF TypeOK, ButtonEvent
<1> USE DEF HoldInv, Touched
\* Reading
<1>1. CASE Read
  <2>0. /\ pc = "read" /\ UNCHANGED <<pc, device, menu, hold, finger, was_down, pressed, touch_lost>>
        /\ device = "open"
    BY <1>1 DEF Read, menuVars, touchVars
  <2>1. CASE since' = 0 /\ events' = Append(events, "power_pressed")
    <3>1. Down' /\ "power_pressed" \in ButtonEvent
      BY <2>1 DEF Down, ButtonEvent
    <3>2. Ended(events', Down')
      BY <3>1 DEF Ended
    <3> QED
      BY <2>0, <3>1, <3>2
  <2>2. CASE since = -1 /\ since' = -1 /\ events' = events /\ lost' = lost
    BY <2>0, <2>2 DEF Down
  <2>3. ASSUME events' = Append(events, "power_released")
               \/ events' = Append(Append(events, "power_released"), "power_short_press")
        PROVE  HoldInv'
    <3> DEFINE mid == Append(events, "power_released")
    <3>1. "power_released" \in ButtonEvent /\ "power_short_press" \in ButtonEvent
      BY DEF ButtonEvent
    <3>2. mid \in Seq(ButtonEvent)
      BY <1>0, <3>1
    <3>3. Ended(mid, FALSE) /\ ToRelease(mid)
      BY <1>0, <3>1, EndedAppend, ToReleaseAppend
    <3>4. events' = mid \/ events' = Append(mid, "power_short_press")
      BY <2>3
    <3> HIDE DEF mid
    <3>5. Ended(events', FALSE) /\ ToRelease(events')
      <4>1. CASE events' = mid
        BY <3>3, <4>1
      <4>2. CASE events' = Append(mid, "power_short_press")
        <5>1. Ended(Append(mid, "power_short_press"), FALSE)
          BY <3>1, <3>2, <3>3, EndedAppend
        <5>2. ToRelease(Append(mid, "power_short_press"))
          BY <3>1, <3>2, <3>3, ToReleaseAppend
        <5> QED
          BY <4>2, <5>1, <5>2
      <4> QED
        BY <3>4, <4>1, <4>2
    <3>6. Ended(events', Down')
      BY <3>5 DEF Ended
    <3> QED
      BY <2>0, <3>5, <3>6
  <2>4. CASE /\ \E e \in {"previous", "next"} : events' = Append(events, e)
             /\ UNCHANGED buttons /\ lost' = lost
    <3>1. PICK e \in {"previous", "next"} : events' = Append(events, e)
      BY <2>4
    <3>2. e \in ButtonEvent /\ e # "power_pressed"
      BY DEF ButtonEvent
    <3>3. Down' = Down /\ UNCHANGED since
      BY <2>4 DEF Down, buttons
    <3>4. Ended(events', Down) /\ (ToRelease(events) => ToRelease(events'))
      BY <1>0, <3>1, <3>2, EndedAppend, ToReleaseAppend
    <3> QED
      BY <2>0, <3>3, <3>4
  <2> QED
    BY <1>1, <2>1, <2>2, <2>3, <2>4, ReadCases
<1>2. CASE ReadAll
  <2>1. /\ pc' = "dispatch" /\ UNCHANGED <<device, since, menu, hold, finger, was_down, pressed, touch_lost>>
        /\ Down' = Down
        /\ events' = events \/ events' = Append(events, "open_menu")
    BY <1>2 DEF ReadAll, LongPress, menuVars, touchVars, history, Down
  <2>2. "open_menu" \in ButtonEvent
    BY DEF ButtonEvent
  <2>3. Ended(events', Down) /\ (ToRelease(events) => ToRelease(events'))
    <3>1. Ended(Append(events, "open_menu"), Down)
      BY <1>0, <2>2, EndedAppend
    <3>2. ToRelease(events) => ToRelease(Append(events, "open_menu"))
      BY <1>0, <2>2, ToReleaseAppend
    <3> QED
      BY <2>1, <3>1, <3>2
  <2> QED
    BY <2>1, <2>3
<1>3. CASE DropDevice
  <2>1. /\ pc' = "dispatch" /\ since' = -1 /\ device' = "dropped"
        /\ UNCHANGED <<events, menu, hold, finger, was_down, pressed, touch_lost>>
    BY <1>3 DEF DropDevice, menuVars, touchVars
  <2>2. Down => Down'
    <3>1. device \in {"failed", "dropped"}
      BY <1>3 DEF DropDevice, TypeOK
    <3> QED
      BY <1>3, <3>1 DEF DropDevice, Down
  <2>3. Ended(events, Down')
    BY <2>2 DEF Ended
  <2> QED
    BY <2>1, <2>2, <2>3
\* Dispatching
<1>4. CASE PowerPressed
  <2>1. /\ events # <<>> /\ events' = Tail(events) /\ Head(events) = "power_pressed"
        /\ pc' = "dispatch" /\ UNCHANGED <<device, since, finger, was_down, pressed, touch_lost>>
    BY <1>4, DispatchFacts DEF PowerPressed
  <2>2. Down' = Down
    BY <1>4, <2>1 DEF PowerPressed, Down
  <2>3. Ended(events', Down) /\ (Down \/ ToRelease(events'))
    BY <1>0, <2>1, EndedFirst
  <2>4. hold' # 0 => menu'
    BY <1>4 DEF PowerPressed, begin_power_hold
  <2> QED
    BY <2>1, <2>2, <2>3, <2>4
<1>5. CASE PowerReleased
  <2>1. /\ events # <<>> /\ events' = Tail(events)
        /\ pc' = "dispatch" /\ UNCHANGED <<device, since, finger, was_down, pressed, touch_lost>>
    BY <1>5, DispatchFacts DEF PowerReleased, history
  <2>2. Down' = Down /\ hold' = 0
    BY <1>5, <2>1 DEF PowerReleased, Down, history
  <2>3. Ended(events', Down)
    BY <1>0, <2>1, EndedFirst
  <2> QED
    BY <2>1, <2>2, <2>3
<1>6. CASE Navigate \/ NavigateRows \/ PowerShortPress \/ OpenMenu
  <2>1. PICK e \in {"previous", "next", "power_short_press", "open_menu"} : Dispatch(e)
    BY <1>6 DEF Navigate, NavigateRows, PowerShortPress, OpenMenu
  <2>2. /\ events # <<>> /\ events' = Tail(events) /\ Head(events) # "power_released"
        /\ pc' = "dispatch" /\ UNCHANGED <<device, since, finger, was_down, pressed, touch_lost>>
    BY <1>6, <2>1, DispatchFacts DEF Navigate, NavigateRows, PowerShortPress, OpenMenu, history
  <2>3. Down' = Down
    BY <1>6, <2>2 DEF Navigate, NavigateRows, PowerShortPress, OpenMenu, history, Down
  <2>4. \/ UNCHANGED <<menu, hold>> \/ hold' = 0
    BY <1>6 DEF Navigate, NavigateRows, PowerShortPress, OpenMenu,
                set_power_menu_selection
  <2>5. Ended(events', Down) /\ (ToRelease(events) => ToRelease(events'))
    BY <1>0, <2>2, EndedFirst
  <2> QED
    BY <2>2, <2>3, <2>4, <2>5
\* Fingers and the timer
<1>7. CASE FingerTaps \/ FingerPresses \/ FingerLifts \/ FingerSeen
  <2>1. Down' = Down /\ UNCHANGED <<pc, events, device, since>>
    BY <1>7 DEF FingerTaps, FingerPresses, FingerLifts, FingerSeen, Down, buttons, history
  <2>2. hold' # 0 => menu' /\ (hold' = pressed' \/ (hold' = hold /\ hold # pressed))
    <3>1. CASE FingerTaps
      BY <3>1 DEF FingerTaps, PointerUp
    <3>2. CASE FingerPresses
      BY <3>2 DEF FingerPresses, PointerDown, begin_power_hold
    <3>3. CASE FingerLifts
      BY <3>3 DEF FingerLifts, PointerUp
    <3>4. CASE FingerSeen
      BY <3>4 DEF FingerSeen, PointerDown, begin_power_hold, history
    <3> QED
      BY <1>7, <3>1, <3>2, <3>3, <3>4
  <2>3. Touched'
    <3>1. CASE FingerTaps
      BY <3>1 DEF FingerTaps, PointerUp, Touched
    <3>2. CASE FingerPresses
      BY <3>2 DEF FingerPresses, PointerDown, Touched, history
    <3>3. CASE FingerLifts
      BY <3>3 DEF FingerLifts, PointerUp, Touched
    <3>4. CASE FingerSeen
      BY <3>4 DEF FingerSeen, PointerDown, Touched, history
    <3> QED
      BY <1>7, <3>1, <3>2, <3>3, <3>4
  <2> QED
    BY <2>1, <2>2, <2>3
<1>10. CASE DropTouch \/ RescanTouch
  <2>1. UNCHANGED <<pc, events, device, since, lost, menu, hold, pressed>>
    BY <1>10 DEF DropTouch, RescanTouch, buttons, menuVars, history
  <2>2. Touched'
    <3>1. ASSUME DropTouch PROVE Touched'
      <4>1. /\ was_down' = FALSE /\ touch_lost' = (touch_lost \/ was_down)
            /\ UNCHANGED <<pressed, finger>>
        BY <3>1 DEF DropTouch
      <4>2. pressed' # 0 => pressed # 0
        BY <4>1
      <4> QED
        BY <4>1, <4>2, Zenon
    <3>2. ASSUME RescanTouch PROVE Touched'
      <4>1. UNCHANGED <<was_down, touch_lost, pressed, finger>>
        BY <3>2 DEF RescanTouch, history
      <4> QED
        BY <4>1
    <3> QED
      BY <1>10, <3>1, <3>2
  <2> QED
    BY <2>1, <2>2 DEF Down
<1>8. CASE Turn
  <2>1. /\ pc = "top" /\ UNCHANGED <<events, device, finger, was_down, pressed, touch_lost>>
        /\ Down' = Down /\ (since = -1 => since' = -1)
    BY <1>8 DEF Turn, touchVars, history, Down, TypeOK
  <2>2. UNCHANGED <<menu, hold>> \/ hold' = 0
    BY <1>8 DEF Turn
  <2> QED
    BY <1>8, <2>1, <2>2 DEF Turn
<1>9. CASE \/ KeyMoves \/ VolumeKey \/ DeviceFails \/ Rescan \/ BootFails
           \/ Dispatched \/ UNCHANGED vars
  <2>1. /\ UNCHANGED <<events, since, lost, menu, hold, finger, was_down, pressed, touch_lost>>
        /\ pc' = pc \/ events = <<>>
        /\ device' = device \/ device' # "dropped"
    BY <1>9
       DEF KeyMoves, VolumeKey, DeviceFails, Rescan, BootFails, Dispatched, vars,
           buttons, menuVars, touchVars, history
  <2> QED
    BY <2>1 DEF Down
<1> QED
  BY <1>1, <1>2, <1>3, <1>4, <1>5, <1>6, <1>7, <1>8, <1>9, <1>10 DEF Next

\* The invariant holds in every turn of the loop.
THEOREM Invariance == Spec => []IInv
<1>1. Init => IInv
  <2> SUFFICES ASSUME Init PROVE IInv
    OBVIOUS
  <2>1. TypeOK
    <3>1. key \in BOOLEAN /\ long \in BOOLEAN /\ menu \in BOOLEAN
          /\ booting \in BOOLEAN /\ lost \in BOOLEAN /\ touch_lost \in BOOLEAN
          /\ touch \in BOOLEAN /\ was_down \in BOOLEAN
      BY DEF Init
    <3>2. since \in -1 .. KeyHold
      BY KeysAssumption DEF Init
    <3> QED
      BY <3>1, <3>2 DEF Init, TypeOK
  <2>2. EffectInv
    BY DEF Init, EffectInv, Paced, Spent
  <2>3. HoldInv
    BY DEF Init, HoldInv, Touched, Ended
  <2> QED
    BY <2>1, <2>2, <2>3 DEF IInv
<1>2. IInv /\ [Next]_vars => IInv'
  BY NextType, NextEffect, NextHold DEF IInv
<1> QED
  BY <1>1, <1>2, PTL DEF Spec

\* Variables keep their types: every event handled is one the dispatch knows.
THEOREM TypeCorrect == Spec => []TypeOK
<1>1. IInv => TypeOK
  BY DEF IInv
<1> QED
  BY Invariance, <1>1, PTL

\* A press of the power key never does two things, and the timer of the power
\* menu never runs once what was held was let go, key or finger, for any hold
\* times and however many key events a turn reads at once; a device that goes
\* away while it is held is excepted, the key's and the touch device alike.
THEOREM PressObeyed == Spec => []PowerKeyIsObeyed
<1>1. IInv => PowerKeyIsObeyed
  BY DEF IInv, EffectInv, HoldInv, Touched, Down, ToRelease, PowerKeyIsObeyed
<1> QED
  BY Invariance, <1>1, PTL

=============================================================================
