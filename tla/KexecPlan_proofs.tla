-------------------------- MODULE KexecPlan_proofs ---------------------------
(***************************************************************************)
(* The placement of the segments, for every listing of /proc/iomem, every  *)
(* tree and every size, and the CPU handoff contract, for every chain of   *)
(* kernels.                                                                *)
(*                                                                         *)
(* UsableInv says what the free ranges are while they are computed:        *)
(* exactly the pages that the lines and reservations seen so far leave     *)
(* free, in ranges with a gap between any two. PlaceInv ties occupied to   *)
(* the segments placed, and SearchInv says which places find_region has    *)
(* ruled out when it moves on. HandInv says that the tree of the next      *)
(* kernel has the contract from the moment it is made.                     *)
(*                                                                         *)
(* The last part is about the other half of the handoff, the CPUs, for     *)
(* any number of secondaries and any chain of resets and kexecs.           *)
(***************************************************************************)
EXTENDS KexecPlan, MCSpinTable, FiniteSetTheorems, TLAPS

-----------------------------------------------------------------------------
(* Alignment.                                                              *)

\* align_up returns the lowest aligned address that is not below x.
LEMMA AlignUpIsLeast ==
  ASSUME NEW x \in Nat, NEW a \in Nat \ {0}
  PROVE  /\ AlignUp(x, a) \in Nat /\ AlignUp(x, a) >= x
         /\ \A y \in Nat : y % a = 0 /\ y >= x => y >= AlignUp(x, a)
<1> DEFINE q == (x + a - 1) \div a
<1>1. q \in Nat /\ a * q <= x + a - 1 /\ x + a - 1 < a * q + a
  OBVIOUS
<1>2. AlignUp(x, a) = q * a /\ AlignUp(x, a) \in Nat /\ AlignUp(x, a) >= x
  BY <1>1 DEF AlignUp
<1>3. ASSUME NEW y \in Nat, y % a = 0, y >= x PROVE y >= AlignUp(x, a)
  <2>1. y = a * (y \div a) /\ y \div a \in Nat
    BY <1>3
  <2>2. a * (y \div a) + a > a * q
    BY <1>1, <1>3, <2>1
  <2>3. y \div a >= q
    BY <1>1, <2>1, <2>2
  <2> QED
    BY <1>1, <1>2, <2>1, <2>3
<1> QED
  BY <1>2, <1>3

\* Below the limit there is room for a whole unit of alignment.
LEMMA AlignedHasRoom ==
  ASSUME NEW y \in Nat, NEW a \in Nat \ {0}, NEW top \in Nat,
         y % a = 0, (top + 1) % a = 0, y <= top
  PROVE  y + a <= top + 1
<1>1. y = a * (y \div a) /\ y \div a \in Nat
  OBVIOUS
<1>2. top + 1 = a * ((top + 1) \div a) /\ (top + 1) \div a \in Nat
  OBVIOUS
<1>3. (y \div a) + 1 <= (top + 1) \div a
  BY <1>1, <1>2
<1>4. a * ((y \div a) + 1) <= a * ((top + 1) \div a)
  BY <1>1, <1>2, <1>3
<1> QED
  BY <1>1, <1>2, <1>4

-----------------------------------------------------------------------------
(* Sets of ranges.                                                         *)

\* Ranges with a gap between any two.
Apart(ranges) ==
    /\ ranges \subseteq PhysRanges
    /\ \A q, p \in ranges : q # p => q.end < p.start \/ p.end < q.start

\* Page x is in one of the ranges.
Covers(ranges, x) == \E q \in ranges : Within(x, q)

\* What PhysRange::new makes is a range.
LEMMA RangeFacts ==
  /\ \A r \in PhysRanges : r.start \in Nat /\ r.end \in Nat /\ r.start < r.end
  /\ \A s, e \in Nat : s < e => PhysRange(s, e) \in PhysRanges
  /\ \A s, e \in Nat : PhysRange(s, e).start = s /\ PhysRange(s, e).end = e
  BY DEF PhysRanges, PhysRange

\* add_range: the pages of a range are added, and ranges that met are one.
LEMMA AddRangeAdds ==
  ASSUME NEW R, Apart(R), NEW r \in PhysRanges
  PROVE  /\ Apart(AddRange(R, r))
         /\ \A x \in Int : Covers(AddRange(R, r), x) <=> Covers(R, x) \/ Within(x, r)
<1> DEFINE met   == {q \in R : q.start <= r.end /\ r.start <= q.end} \cup {r}
           first == CHOOSE q \in met : \A p \in met : q.start <= p.start
           last  == CHOOSE q \in met : \A p \in met : q.end >= p.end
           new   == PhysRange(first.start, last.end)
<1>1. AddRange(R, r) = (R \ met) \cup {new}
  BY DEF AddRange
<1>2. /\ met \subseteq PhysRanges /\ r \in met
      /\ \A q \in met : q \in R \/ q = r
      /\ \A q \in met : q.start <= r.end /\ r.start <= q.end
      /\ \A q \in R \ met : r.end < q.start \/ q.end < r.start
  BY RangeFacts DEF Apart
<1>3. /\ \A q \in met : q.start \in Nat /\ q.end \in Nat /\ q.start < q.end
      /\ \A q, p \in met : q # p /\ q # r /\ p # r => q.end < p.start \/ p.end < q.start
  BY <1>2, RangeFacts DEF Apart
<1> HIDE DEF met
<1>4. \E q \in met : \A p \in met : q.start <= p.start
  <2>1. CASE \A q \in met : q.start >= r.start
    BY <1>2, <2>1
  <2>2. CASE \E q \in met : q.start < r.start
    <3>1. PICK q \in met : q.start < r.start
      BY <2>2
    <3>2. ASSUME NEW p \in met PROVE q.start <= p.start
      BY <1>2, <1>3, <3>1
    <3> QED
      BY <3>2
  <2> QED
    BY <1>2, <1>3, <2>1, <2>2
<1>5. \E q \in met : \A p \in met : q.end >= p.end
  <2>1. CASE \A q \in met : q.end <= r.end
    BY <1>2, <2>1
  <2>2. CASE \E q \in met : q.end > r.end
    <3>1. PICK q \in met : q.end > r.end
      BY <2>2
    <3>2. ASSUME NEW p \in met PROVE q.end >= p.end
      BY <1>2, <1>3, <3>1
    <3> QED
      BY <3>2
  <2> QED
    BY <1>2, <1>3, <2>1, <2>2
<1>6. first \in met /\ \A p \in met : first.start <= p.start
  BY <1>4
<1>7. last \in met /\ \A p \in met : last.end >= p.end
  BY <1>5
<1> HIDE DEF first, last
<1>8. /\ new \in PhysRanges /\ new.start = first.start /\ new.end = last.end
      /\ first.start <= r.start /\ r.end <= last.end
  BY <1>2, <1>3, <1>6, <1>7, RangeFacts
<1> HIDE DEF new
<1>9. ASSUME NEW p \in R \ met PROVE p.end < new.start \/ new.end < p.start
  <2>1. /\ p.start \in Nat /\ p.end \in Nat /\ p.start < p.end
        /\ p # first /\ p # last
    BY <1>6, <1>7, <1>9, RangeFacts DEF Apart
  <2>2. first = r \/ first.end < p.start \/ p.end < first.start
    BY <1>2, <1>6, <2>1 DEF Apart
  <2>3. last = r \/ last.end < p.start \/ p.end < last.start
    BY <1>2, <1>7, <2>1 DEF Apart
  <2> QED
    BY <1>2, <1>3, <1>6, <1>7, <1>8, <2>1, <2>2, <2>3
<1>10. Apart((R \ met) \cup {new})
  BY <1>8, <1>9 DEF Apart
<1>11. ASSUME NEW x \in Int
       PROVE  Covers((R \ met) \cup {new}, x) <=> Covers(R, x) \/ Within(x, r)
  <2>1. ASSUME NEW q \in met, Within(x, q) PROVE Within(x, new)
    BY <1>3, <1>6, <1>7, <1>8, <2>1 DEF Within
  <2>2. ASSUME Within(x, new), ~Within(x, r) PROVE Within(x, first) \/ Within(x, last)
    BY <1>2, <1>3, <1>6, <1>7, <1>8, <2>2 DEF Within
  <2>3. ASSUME Within(x, new) PROVE Covers(R, x) \/ Within(x, r)
    BY <1>2, <1>6, <1>7, <2>2, <2>3 DEF Covers
  <2>4. ASSUME Covers(R, x) \/ Within(x, r) PROVE Covers((R \ met) \cup {new}, x)
    BY <1>2, <2>1, <2>4 DEF Covers
  <2> QED
    BY <2>3, <2>4 DEF Covers
<1> QED
  BY <1>1, <1>10, <1>11

\* subtract_range: the pages of a range are taken away, and no others.
LEMMA SubtractRangeTakes ==
  ASSUME NEW R, Apart(R), NEW r \in PhysRanges
  PROVE  /\ Apart(SubtractRange(R, r))
         /\ \A x \in Int : Covers(SubtractRange(R, r), x) <=> Covers(R, x) /\ ~Within(x, r)
<1> DEFINE new == SubtractRange(R, r)
           Piece(q, p) == /\ q.start <= p.start /\ p.end <= q.end
                          /\ \/ p = q /\ ~Overlaps(q, r)
                             \/ p = PhysRange(q.start, r.start) /\ q.start < r.start /\ Overlaps(q, r)
                             \/ p = PhysRange(r.end, q.end) /\ r.end < q.end /\ Overlaps(q, r)
<1>1. \A q \in R : q.start \in Nat /\ q.end \in Nat /\ q.start < q.end
  BY RangeFacts DEF Apart
<1>2. r.start \in Nat /\ r.end \in Nat /\ r.start < r.end
  BY RangeFacts
<1>3. ASSUME NEW p \in new PROVE p \in PhysRanges /\ \E q \in R : Piece(q, p)
  <2>1. CASE p \in R /\ ~Overlaps(p, r)
    BY <1>1, <2>1 DEF Apart
  <2>2. CASE \E q \in R : Overlaps(q, r) /\ q.start < r.start /\ p = PhysRange(q.start, r.start)
    BY <1>1, <1>2, <2>2, RangeFacts DEF Overlaps
  <2>3. CASE \E q \in R : Overlaps(q, r) /\ r.end < q.end /\ p = PhysRange(r.end, q.end)
    BY <1>1, <1>2, <2>3, RangeFacts DEF Overlaps
  <2> QED
    BY <2>1, <2>2, <2>3 DEF SubtractRange
<1>4. \A q \in R : \A p : Piece(q, p) => p \in new
  BY DEF SubtractRange
<1> HIDE DEF new
<1>5. ASSUME NEW p \in new, NEW o \in new, p # o PROVE p.end < o.start \/ o.end < p.start
  <2>1. PICK q \in R : Piece(q, p)
    BY <1>3
  <2>2. PICK w \in R : Piece(w, o)
    BY <1>3
  <2>3. /\ p.start \in Nat /\ p.end \in Nat /\ p.start < p.end
        /\ o.start \in Nat /\ o.end \in Nat /\ o.start < o.end
    BY <1>3, RangeFacts
  <2>4. CASE q # w
    BY <1>1, <2>1, <2>2, <2>3, <2>4 DEF Apart
  <2>5. CASE q = w
    BY <1>1, <1>2, <1>5, <2>1, <2>2, <2>3, <2>5, RangeFacts
  <2> QED
    BY <2>4, <2>5
<1>6. Apart(new)
  BY <1>3, <1>5 DEF Apart
<1>7. ASSUME NEW x \in Int PROVE Covers(new, x) <=> Covers(R, x) /\ ~Within(x, r)
  <2>1. ASSUME NEW p \in new, Within(x, p) PROVE Covers(R, x) /\ ~Within(x, r)
    <3>1. PICK q \in R : Piece(q, p)
      BY <1>3
    <3>2. p.start \in Nat /\ p.end \in Nat
      BY <1>3, RangeFacts
    <3>3. Within(x, q)
      BY <1>1, <2>1, <3>1, <3>2 DEF Within
    <3>4. ~Within(x, r)
      BY <1>1, <1>2, <2>1, <3>1, <3>2, RangeFacts DEF Within, Overlaps
    <3> QED
      BY <3>3, <3>4 DEF Covers
  <2>2. ASSUME NEW q \in R, Within(x, q), ~Within(x, r) PROVE Covers(new, x)
    <3>1. CASE ~Overlaps(q, r)
      BY <1>1, <1>4, <2>2, <3>1 DEF Covers
    <3>2. CASE Overlaps(q, r) /\ x < r.start
      <4>1. Piece(q, PhysRange(q.start, r.start)) /\ Within(x, PhysRange(q.start, r.start))
        BY <1>1, <1>2, <2>2, <3>2, RangeFacts DEF Within, Overlaps
      <4> QED
        BY <1>4, <4>1 DEF Covers
    <3>3. CASE Overlaps(q, r) /\ x >= r.end
      <4>1. Piece(q, PhysRange(r.end, q.end)) /\ Within(x, PhysRange(r.end, q.end))
        BY <1>1, <1>2, <2>2, <3>3, RangeFacts DEF Within, Overlaps
      <4> QED
        BY <1>4, <4>1 DEF Covers
    <3> QED
      BY <1>2, <2>2, <3>1, <3>2, <3>3 DEF Within
  <2> QED
    BY <2>1, <2>2 DEF Covers
<1> QED
  BY <1>6, <1>7 DEF new

\* An unbroken stretch of covered pages lies in one range.
LEMMA StretchInOneRange ==
  ASSUME NEW R, Apart(R), NEW a \in Nat, NEW n \in Nat \ {0},
         \A x \in a..(a + n - 1) : Covers(R, x)
  PROVE  \E q \in R : q.start <= a /\ a + n <= q.end
<1>1. PICK q \in R : Within(a, q)
  BY DEF Covers
<1>2. /\ \A p \in R : p.start \in Nat /\ p.end \in Nat /\ p.start < p.end
      /\ \A p \in R : p # q => q.end < p.start \/ p.end < q.start
  BY RangeFacts DEF Apart
<1>3. ASSUME q.end < a + n PROVE FALSE
  <2>1. q.end \in a..(a + n - 1)
    BY <1>1, <1>2, <1>3 DEF Within
  <2>2. PICK p \in R : Within(q.end, p)
    BY <2>1 DEF Covers
  <2> QED
    BY <1>1, <1>2, <2>2 DEF Within
<1> QED
  BY <1>1, <1>2, <1>3 DEF Within

-----------------------------------------------------------------------------
(* The trees.                                                              *)

\* The elements of a sequence.
LEMMA SeqElement ==
  ASSUME NEW S, NEW s \in Seq(S), NEW i \in DOMAIN s PROVE s[i] \in S
  OBVIOUS

\* A tree with one of its nodes replaced.
LEMMA TreeUpdate ==
  ASSUME NEW t, IsTree(t), NEW x
  PROVE  /\ [t EXCEPT !.map = x] =
             [bootcpu |-> t.bootcpu, map |-> x, memory |-> t.memory, cpus |-> t.cpus, resv |-> t.resv,
              providers |-> t.providers, psci |-> t.psci, idle |-> t.idle, chosen |-> t.chosen]
         /\ [t EXCEPT !.cpus = x] =
             [bootcpu |-> t.bootcpu, map |-> t.map, memory |-> t.memory, cpus |-> x, resv |-> t.resv,
              providers |-> t.providers, psci |-> t.psci, idle |-> t.idle, chosen |-> t.chosen]
         /\ [t EXCEPT !.resv = x] =
             [bootcpu |-> t.bootcpu, map |-> t.map, memory |-> t.memory, cpus |-> t.cpus, resv |-> x,
              providers |-> t.providers, psci |-> t.psci, idle |-> t.idle, chosen |-> t.chosen]
         /\ [t EXCEPT !.chosen = x] =
             [bootcpu |-> t.bootcpu, map |-> t.map, memory |-> t.memory, cpus |-> t.cpus, resv |-> t.resv,
              providers |-> t.providers, psci |-> t.psci, idle |-> t.idle, chosen |-> x]
<1>1. [t EXCEPT !.map = x] =
             [bootcpu |-> t.bootcpu, map |-> x, memory |-> t.memory, cpus |-> t.cpus, resv |-> t.resv,
              providers |-> t.providers, psci |-> t.psci, idle |-> t.idle, chosen |-> t.chosen]
  BY DEF IsTree
<1>2. [t EXCEPT !.cpus = x] =
             [bootcpu |-> t.bootcpu, map |-> t.map, memory |-> t.memory, cpus |-> x, resv |-> t.resv,
              providers |-> t.providers, psci |-> t.psci, idle |-> t.idle, chosen |-> t.chosen]
  BY DEF IsTree
<1>3. [t EXCEPT !.resv = x] =
             [bootcpu |-> t.bootcpu, map |-> t.map, memory |-> t.memory, cpus |-> t.cpus, resv |-> x,
              providers |-> t.providers, psci |-> t.psci, idle |-> t.idle, chosen |-> t.chosen]
  BY DEF IsTree
<1>4. [t EXCEPT !.chosen = x] =
             [bootcpu |-> t.bootcpu, map |-> t.map, memory |-> t.memory, cpus |-> t.cpus, resv |-> t.resv,
              providers |-> t.providers, psci |-> t.psci, idle |-> t.idle, chosen |-> x]
  BY DEF IsTree
<1> QED
  BY <1>1, <1>2, <1>3, <1>4

\* A tree with the PSCI node and its idle states replaced.
LEMMA PsciUpdate ==
  ASSUME NEW t, IsTree(t), NEW x, NEW y
  PROVE  [t EXCEPT !.psci = x, !.idle = y] =
           [bootcpu |-> t.bootcpu, map |-> t.map, memory |-> t.memory, cpus |-> t.cpus, resv |-> t.resv,
            providers |-> t.providers, psci |-> x, idle |-> y, chosen |-> t.chosen]
<1> DEFINE v == [t EXCEPT !.psci = x]
<1>1. v = [bootcpu |-> t.bootcpu, map |-> t.map, memory |-> t.memory, cpus |-> t.cpus,
           resv |-> t.resv, providers |-> t.providers, psci |-> x, idle |-> t.idle,
           chosen |-> t.chosen]
  BY DEF IsTree
<1>2. [t EXCEPT !.psci = x, !.idle = y] = [v EXCEPT !.idle = y]
  OBVIOUS
<1> HIDE DEF v
<1> QED
  BY <1>1, <1>2

\* The reserved-memory nodes, and one more of them.
LEMMA ResvFacts ==
  ASSUME NEW r \in Resv
  PROVE  /\ r = [ok |-> r.ok, nodes |-> r.nodes] /\ r.ok \in BOOLEAN
         /\ r.nodes \subseteq Node
         /\ \A n \in Node : [ok |-> r.ok, nodes |-> r.nodes \cup {n}] \in Resv
         /\ \A n \in Node : [r EXCEPT !.nodes = @ \cup {n}] =
                              [ok |-> r.ok, nodes |-> r.nodes \cup {n}]
  BY DEF Resv

\* What reserved_ranges reads from a tree are ranges.
LEMMA ReservedAreRanges ==
  ASSUME NEW t, IsTree(t) PROVE ReservedRanges(t) \subseteq PhysRanges
<1>1. ReserveMapRanges(t) \subseteq PhysRanges
  BY DEF ReserveMapRanges, IsTree, PhysRanges
<1>2. ASSUME t.resv # None, NEW n \in t.resv.nodes PROVE RegRanges(n) \subseteq PhysRanges
  <2>1. n \in Node
    BY <1>2, ResvFacts DEF IsTree
  <2>2. n.ranges \in Seq([start : Nat, end : Nat])
    BY <2>1 DEF Node
  <2>3. \A i \in DOMAIN n.ranges : n.ranges[i] \in [start : Nat, end : Nat]
    BY <2>2, SeqElement
  <2> QED
    BY <2>3 DEF RegRanges, ToSet, PhysRanges
<1> QED
  BY <1>1, <1>2 DEF ReservedRanges

\* spin_table_contract proves that one page, at an aligned address, is
\* reserved for the parking code, and that four CPUs wait in it.
LEMMA ContractFacts ==
  ASSUME NEW t, IsTree(t), SpinTableContract(t).status = "ok"
  PROVE  LET base == SpinTableContract(t).base
         IN  /\ SpinTableContract(t) = [status |-> "ok", base |-> base]
             /\ base \in Nat /\ base # 0 /\ base % PageBytes = 0
             /\ MpidrsOf(t) = 0..3
<1> DEFINE owned == CHOOSE n \in ParkingNodes(t) : TRUE
           base  == owned.ranges[1].start
<1>1. /\ SpinTableContract(t) = [status |-> "ok", base |-> base]
      /\ Cardinality(ParkingNodes(t)) = 1 /\ Len(owned.ranges) = 1
      /\ base # 0 /\ base % PageBytes = 0 /\ MpidrsOf(t) = 0..3
  BY DEF SpinTableContract
<1>2. owned \in ParkingNodes(t)
  BY <1>1, FS_EmptySet
<1>3. t.resv # None /\ owned \in t.resv.nodes
  BY <1>2 DEF ParkingNodes
<1>4. owned.ranges \in Seq([start : Nat, end : Nat])
  <2>1. owned \in Node
    BY <1>3, ResvFacts DEF IsTree
  <2> QED
    BY <2>1 DEF Node
<1>5. owned.ranges[1] \in [start : Nat, end : Nat]
  <2>1. 1 \in DOMAIN owned.ranges
    BY <1>1, <1>4
  <2> QED
    BY <1>4, <2>1, SeqElement
<1> HIDE DEF owned
<1> QED
  BY <1>1, <1>5

\* A tree whose page is reserved as the contract asks: one parking node, and
\* it is this program's.
Reserves(t, base) ==
    /\ ReservedCells(t)
    /\ \E n : /\ ParkingNodes(t) = {n} /\ n \in t.resv.nodes
              /\ Owned(n) /\ n.ranges = <<PageAt(base)>>

\* graft_parking_reservation adds at most the reservation of the page, and the
\* page is reserved then.
LEMMA GraftedReservation ==
  ASSUME NEW t, IsTree(t), NEW base \in Nat, GraftParkingReservation(t, base) # None
  PROVE  LET u == GraftParkingReservation(t, base)
         IN  u = [t EXCEPT !.resv = u.resv] /\ IsTree(u) /\ Reserves(u, base)
<1> DEFINE u    == GraftParkingReservation(t, base)
           resv == IF t.resv = None THEN [ok |-> TRUE, nodes |-> {}] ELSE t.resv
           Claims(n) == \/ \E i \in DOMAIN n.ranges : Overlaps(n.ranges[i], PageAt(base))
                        \/ n.compat \in {"v1", "v2"}
                        \/ n.name = base
           claims == {n \in resv.nodes : Claims(n)}
           node == ParkingNode(base)
<1>1. resv \in Resv /\ IsFiniteSet(resv.nodes)
  <2>1. CASE t.resv = None
    BY <2>1, FS_EmptySet DEF Resv
  <2>2. CASE t.resv # None
    BY <2>2 DEF IsTree
  <2> QED
    BY <2>1, <2>2
<1>2. node \in Node /\ node.compat = "v1" /\ node.ranges = <<PageAt(base)>> /\ Owned(node)
  <2>1. <<PageAt(base)>> \in Seq([start : Nat, end : Nat])
    BY PlanAssumption DEF PageAt, PhysRange
  <2> QED
    <3> DEFINE seq == <<PageAt(base)>>
    <3>1. node = [name |-> base, compat |-> "v1", enabled |-> TRUE, nomap |-> TRUE,
                  reusable |-> FALSE, ranges |-> seq]
      BY DEF ParkingNode
    <3> HIDE DEF seq, node
    <3>2. node.compat = "v1" /\ node.ranges = seq
      BY <3>1
    <3>3. node.enabled = TRUE /\ node.nomap = TRUE /\ node.reusable = FALSE
      BY <3>1
    <3>4. node \in Node
      BY <2>1, <3>1 DEF Node, seq
    <3>5. Owned(node)
      BY <3>2, <3>3 DEF Owned
    <3> QED
      BY <3>2, <3>4, <3>5 DEF seq
<1>0. u = CASE resv.ok /\ claims = {} ->
                 [t EXCEPT !.resv = [resv EXCEPT !.nodes = @ \cup {node}]]
            [] /\ resv.ok /\ Cardinality(claims) = 1
               /\ \A n \in claims : Owned(n) /\ n.ranges = <<PageAt(base)>> ->
                 [t EXCEPT !.resv = resv]
            [] OTHER -> None
  BY DEF GraftParkingReservation
<1>3. \/ /\ resv.ok /\ claims = {}
         /\ u = [t EXCEPT !.resv = [resv EXCEPT !.nodes = @ \cup {node}]]
      \/ /\ resv.ok /\ Cardinality(claims) = 1 /\ u = [t EXCEPT !.resv = resv]
         /\ \A n \in claims : Owned(n) /\ n.ranges = <<PageAt(base)>>
  <2> HIDE DEF resv, claims, node
  <2> QED
    BY <1>0
<1>4. \A n \in resv.nodes : n.compat \in {"v1", "v2"} => n \in claims
  OBVIOUS
<1>5. claims \subseteq resv.nodes /\ IsFiniteSet(claims)
  BY <1>1, FS_Subset
<1> HIDE DEF resv, claims, node, u
<1>6. ASSUME NEW x \in Resv, IsFiniteSet(x.nodes), u = [t EXCEPT !.resv = x]
      PROVE  u.resv = x /\ u = [t EXCEPT !.resv = u.resv] /\ IsTree(u) /\ x # None
  <2>1. u.resv = x /\ u = [t EXCEPT !.resv = u.resv]
    BY <1>6, TreeUpdate
  <2>2. IsTree(u)
    BY <1>6, TreeUpdate DEF IsTree
  <2> QED
    BY <1>6, <2>1, <2>2, PlanAssumption
<1>7. CASE /\ resv.ok /\ claims = {}
           /\ u = [t EXCEPT !.resv = [resv EXCEPT !.nodes = @ \cup {node}]]
  <2> DEFINE x == [ok |-> resv.ok, nodes |-> resv.nodes \cup {node}]
  <2>1. x \in Resv /\ u = [t EXCEPT !.resv = x]
    BY <1>1, <1>2, <1>7, ResvFacts
  <2>2. IsFiniteSet(x.nodes)
    BY <1>1, FS_AddElement
  <2>3. u.resv = x /\ u = [t EXCEPT !.resv = u.resv] /\ IsTree(u) /\ x # None
    BY <1>6, <2>1, <2>2
  <2>4. ParkingNodes(u) = {node}
    BY <1>2, <1>4, <1>7, <2>3 DEF ParkingNodes
  <2>5. Reserves(u, base)
    <3>1. u.resv.ok = resv.ok /\ node \in u.resv.nodes
      BY <2>3
    <3>2. ReservedCells(u)
      BY <1>7, <2>3, <3>1 DEF ReservedCells
    <3> QED
      BY <1>2, <2>4, <3>1, <3>2 DEF Reserves
  <2> QED
    BY <2>3, <2>5 DEF u
<1>8. CASE /\ resv.ok /\ Cardinality(claims) = 1 /\ u = [t EXCEPT !.resv = resv]
           /\ \A n \in claims : Owned(n) /\ n.ranges = <<PageAt(base)>>
  <2>1. u.resv = resv /\ u = [t EXCEPT !.resv = u.resv] /\ IsTree(u) /\ resv # None
    BY <1>1, <1>6, <1>8
  <2>2. PICK n : claims = {n}
    BY <1>5, <1>8, FS_Singleton
  <2>3. n \in resv.nodes /\ Owned(n) /\ n.ranges = <<PageAt(base)>> /\ n.compat = "v1"
    BY <1>5, <1>8, <2>2 DEF Owned
  <2>4. ParkingNodes(u) = {n}
    BY <1>4, <2>1, <2>2, <2>3 DEF ParkingNodes
  <2>5. Reserves(u, base)
    BY <1>8, <2>1, <2>3, <2>4 DEF Reserves, ReservedCells
  <2> QED
    BY <2>1, <2>5 DEF u
<1> QED
  BY <1>3, <1>7, <1>8


-----------------------------------------------------------------------------
(* The CPUs.                                                               *)

\* A set of positions has a k-th element for every k up to its size.
LEMMA NthInSet ==
  ASSUME NEW S \in SUBSET Nat, IsFiniteSet(S), NEW k \in 1..Cardinality(S)
  PROVE  Nth(S, k) \in S
<1> DEFINE Below(i) == {j \in S : j <= i}
           n == Cardinality(S)
           rank == [i \in S |-> Cardinality(Below(i))]
<1>1. n \in Nat /\ IsFiniteSet(1..n) /\ Cardinality(1..n) = n
  <2>1. n \in Nat
    BY FS_CardinalityType
  <2> HIDE DEF n
  <2> QED
    BY <2>1, FS_Interval
<1>2. ASSUME NEW i \in S
      PROVE  IsFiniteSet(Below(i)) /\ Cardinality(Below(i)) \in 1..n
  <2>1. Below(i) \in SUBSET S /\ i \in Below(i)
    OBVIOUS
  <2> HIDE DEF Below
  <2>2. IsFiniteSet(Below(i)) /\ Cardinality(Below(i)) <= n
    BY <2>1, FS_Subset
  <2>3. Cardinality(Below(i)) \in Nat /\ Cardinality(Below(i)) # 0
    BY <2>1, <2>2, FS_CardinalityType, FS_EmptySet
  <2> QED
    BY <1>1, <2>2, <2>3
<1>3. ASSUME NEW i \in S, NEW j \in S, i < j
      PROVE  Cardinality(Below(i)) # Cardinality(Below(j))
  <2>0. S \subseteq Int /\ i \in Int /\ j \in Int
    OBVIOUS
  <2>1. Below(i) \in SUBSET Below(j) /\ j \in Below(j) /\ j \notin Below(i)
    <3>1. \A x \in S : x <= i => x <= j
      BY <1>3, <2>0
    <3>2. j <= j /\ ~(j <= i)
      BY <1>3, <2>0
    <3> QED
      BY <3>1, <3>2, Zenon
  <2> HIDE DEF Below
  <2>2. IsFiniteSet(Below(j))
    BY <1>2
  <2> QED
    BY <2>1, <2>2, FS_Subset
<1> HIDE DEF Below, n
<1>4. rank \in Injection(S, 1..n)
  <2>1. rank \in [S -> 1..n]
    BY <1>2
  <2>2. \A i, j \in S : rank[i] = rank[j] => i = j
    BY <1>3
  <2> HIDE DEF rank
  <2> QED
    BY <2>1, <2>2 DEF Injection, IsInjective
<1>5. rank \in Surjection(S, 1..n)
  <2> HIDE DEF rank
  <2> QED
    BY <1>1, <1>4, FS_Injection DEF n
<1>6. PICK i \in S : rank[i] = k
  <2> HIDE DEF rank
  <2> QED
    BY <1>5 DEF Surjection, n
<1>7. \E m \in S : Cardinality({j \in S : j <= m}) = k
  BY <1>6 DEF Below
<1> QED
  BY <1>7 DEF Nth

\* remove_psci_cpu_domains leaves no power domain of the firmware.
LEMMA RemovedDomains ==
  ASSUME NEW t, NEW core, IsCpu(core), RemovePsciCpuDomains(t, core) # None
  PROVE  LET c == RemovePsciCpuDomains(t, core)
         IN  /\ IsCpu(c) /\ c.mpidr = core.mpidr /\ c.enabled = core.enabled
             /\ \A i \in DOMAIN c.domains : ~IsPsciDomain(t, c.domains[i])
<1> DEFINE c == RemovePsciCpuDomains(t, core)
           keep == {i \in DOMAIN core.domains : ~IsPsciDomain(t, core.domains[i])}
           Kept(s) == [k \in 1..Cardinality(keep) |-> s[Nth(keep, k)]]
           D == Kept(core.domains)
           N == IF core.names = None \/ keep = {} THEN None ELSE Kept(core.names)
<1>1. CASE core.domains = <<>>
  <2>1. c = core
    BY <1>1 DEF RemovePsciCpuDomains
  <2> QED
    BY <1>1, <2>1
<1>2. CASE core.domains # <<>>
  <2>1. c = [core EXCEPT !.domains = Kept(@),
                        !.names = IF @ = None \/ keep = {} THEN None ELSE Kept(@)]
    BY <1>2 DEF RemovePsciCpuDomains
  <2>2. D \in Seq(Nat) /\ \A k \in DOMAIN D : ~IsPsciDomain(t, D[k])
    <3>1. core.domains \in Seq(Nat)
      BY DEF IsCpu
    <3>2. keep \in SUBSET Nat /\ keep \subseteq 1..Len(core.domains) /\ IsFiniteSet(keep)
      <4>1. keep \subseteq 1..Len(core.domains) /\ Len(core.domains) \in Nat
        BY <3>1
      <4>2. IsFiniteSet(1..Len(core.domains))
        BY <4>1, FS_Interval
      <4>3. IsFiniteSet(keep)
        <5> HIDE DEF keep
        <5> QED
          BY <4>1, <4>2, FS_Subset
      <4> QED
        BY <4>1, <4>3
    <3>3. Cardinality(keep) \in Nat
      BY <3>2, FS_CardinalityType
    <3>4. \A k \in 1..Cardinality(keep) : Nth(keep, k) \in keep
      <4> HIDE DEF keep
      <4> QED
        BY <3>2, NthInSet
    <3>5. \A i \in keep : core.domains[i] \in Nat /\ ~IsPsciDomain(t, core.domains[i])
      BY <3>1
    <3>6. DOMAIN D = 1..Cardinality(keep) /\ \A k \in DOMAIN D : D[k] = core.domains[Nth(keep, k)]
      OBVIOUS
    <3> HIDE DEF keep
    <3>7. D \in [1..Cardinality(keep) -> Nat]
      BY <3>4, <3>5
    <3>8. D \in Seq(Nat)
      <4> HIDE DEF D
      <4> QED
        BY <3>3, <3>7
    <3> QED
      BY <3>4, <3>5, <3>6, <3>8
  <2>3. c = [mpidr |-> core.mpidr, enabled |-> core.enabled, method |-> core.method,
             release |-> core.release, idle |-> core.idle, domains |-> D, names |-> N]
    <3> DEFINE e == [core EXCEPT !.domains = D]
    <3>1. c = [e EXCEPT !.names = IF @ = None \/ keep = {} THEN None ELSE Kept(@)]
      BY <2>1
    <3> HIDE DEF D, keep, Kept, c
    <3>2. e = [mpidr |-> core.mpidr, enabled |-> core.enabled, method |-> core.method,
               release |-> core.release, idle |-> core.idle, domains |-> D, names |-> core.names]
      BY DEF IsCpu
    <3> HIDE DEF e
    <3>3. c = [e EXCEPT !.names = N]
      BY <3>1, <3>2
    <3> HIDE DEF N
    <3> QED
      BY <3>2, <3>3
  <2> HIDE DEF D, N, c
  <2> QED
    BY <2>2, <2>3 DEF IsCpu, c
<1> QED
  BY <1>1, <1>2

\* A CPU with its boot method replaced.
LEMMA CpuUpdate ==
  ASSUME NEW r, IsCpu(r), NEW m, NEW i, NEW a
  PROVE  [r EXCEPT !.method = m, !.idle = i, !.release = a] =
           [mpidr |-> r.mpidr, enabled |-> r.enabled, method |-> m, release |-> a, idle |-> i,
            domains |-> r.domains, names |-> r.names]
<1> DEFINE v1 == [r EXCEPT !.method = m]
           v2 == [v1 EXCEPT !.idle = i]
<1>1. v1 = [mpidr |-> r.mpidr, enabled |-> r.enabled, method |-> m, release |-> r.release,
            idle |-> r.idle, domains |-> r.domains, names |-> r.names]
  BY DEF IsCpu
<1>2. [r EXCEPT !.method = m, !.idle = i, !.release = a] = [v2 EXCEPT !.release = a]
  OBVIOUS
<1> HIDE DEF v1
<1>3. v2 = [mpidr |-> r.mpidr, enabled |-> r.enabled, method |-> m, release |-> r.release,
            idle |-> i, domains |-> r.domains, names |-> r.names]
  BY <1>1
<1> HIDE DEF v2
<1> QED
  BY <1>2, <1>3

\* What graft_spin_table makes of a CPU: a disabled one is left alone, an
\* enabled one waits in its slot and has nothing of the firmware left.
LEMMA GraftedCpu ==
  ASSUME NEW t, NEW core, IsCpu(core), NEW base, SpinTableCpu(t, core, base) # None
  PROVE  LET c == SpinTableCpu(t, core, base)
         IN  /\ IsCpu(c) /\ c.mpidr = core.mpidr /\ c.enabled = core.enabled
             /\ c.enabled => /\ c.method = "spin-table" /\ c.release = ReleaseAddr(base, c.mpidr)
                             /\ ~c.idle
                             /\ \A i \in DOMAIN c.domains : ~IsPsciDomain(t, c.domains[i])
<1> DEFINE c == SpinTableCpu(t, core, base)
           r == RemovePsciCpuDomains(t, core)
           v == [r EXCEPT !.method = "spin-table", !.idle = FALSE,
                          !.release = ReleaseAddr(base, core.mpidr)]
<1>1. CASE ~core.enabled
  BY <1>1 DEF SpinTableCpu
<1>2. CASE core.enabled
  <2>1. r # None /\ c = v
    BY <1>2 DEF SpinTableCpu
  <2>2. /\ IsCpu(r) /\ r.mpidr = core.mpidr /\ r.enabled = core.enabled
        /\ \A i \in DOMAIN r.domains : ~IsPsciDomain(t, r.domains[i])
    BY <2>1, RemovedDomains
  <2> HIDE DEF r, c
  <2>3. v = [mpidr |-> r.mpidr, enabled |-> r.enabled, method |-> "spin-table",
             release |-> ReleaseAddr(base, core.mpidr), idle |-> FALSE,
             domains |-> r.domains, names |-> r.names]
    <3>1. \A m, i, a :
            [r EXCEPT !.method = m, !.idle = i, !.release = a] =
              [mpidr |-> r.mpidr, enabled |-> r.enabled, method |-> m, release |-> a, idle |-> i,
               domains |-> r.domains, names |-> r.names]
      BY <2>2, CpuUpdate, Zenon
    <3> QED
      BY <3>1, Zenon
  <2> HIDE DEF v
  <2>4. IsCpu(v)
    BY <2>2, <2>3 DEF IsCpu
  <2>5. v.mpidr = core.mpidr /\ v.enabled = core.enabled /\ v.method = "spin-table"
    BY <2>2, <2>3
  <2>6. v.release = ReleaseAddr(base, core.mpidr) /\ v.domains = r.domains
    BY <2>3
  <2>7. v.idle = FALSE
    BY <2>3
  <2> QED
    BY <2>1, <2>2, <2>4, <2>5, <2>6, <2>7 DEF c
<1> QED
  BY <1>1, <1>2

-----------------------------------------------------------------------------
(* The contract.                                                           *)

\* Tree u has the contract of tree t, and the firmware has no part in it.
HandsOn(t, u) ==
    LET frame == PageAt(SpinTableContract(t).base)
    IN  /\ SpinTableContract(u) = SpinTableContract(t)
        /\ FirmwareIsOut(u)
        /\ {r \in u.map : Overlaps(r, frame)} = {frame}
        /\ u.memory = t.memory

\* A tree of CPUs that wait in the slots of a reserved page has a contract.
LEMMA ContractIsMade ==
  ASSUME NEW t, IsTree(t), NEW base \in Nat, base # 0, base % PageBytes = 0,
         Reserves(t, base), CpuNodesValid(t), MpidrsOf(t) = 0..3,
         \A c \in Enabled(t.cpus) :
            c.method = "spin-table" /\ c.release = ReleaseAddr(base, c.mpidr)
  PROVE  SpinTableContract(t) = [status |-> "ok", base |-> base]
<1> DEFINE owned == CHOOSE n \in ParkingNodes(t) : TRUE
<1>1. PICK n : ParkingNodes(t) = {n} /\ Owned(n) /\ n.ranges = <<PageAt(base)>>
  BY DEF Reserves
<1>2. owned = n
  BY <1>1
<1>3. /\ Cardinality(ParkingNodes(t)) = 1
      /\ Owned(owned) /\ ReservedCells(t) /\ Len(owned.ranges) = 1
      /\ owned.ranges[1].start = base /\ owned.ranges[1] = PageAt(base)
  <2>1. Cardinality(ParkingNodes(t)) = 1
    BY <1>1, FS_Singleton
  <2>2. ReservedCells(t)
    BY DEF Reserves
  <2> HIDE DEF owned
  <2>3. Len(owned.ranges) = 1 /\ owned.ranges[1] = PageAt(base)
    BY <1>1, <1>2
  <2>4. PageAt(base).start = base
    BY DEF PageAt, PhysRange
  <2> QED
    BY <1>1, <1>2, <2>1, <2>2, <2>3, <2>4
<1>4. ~ \A c \in Enabled(t.cpus) : c.method # "spin-table"
  <2>1. 0 \in MpidrsOf(t)
    OBVIOUS
  <2> QED
    BY <2>1 DEF MpidrsOf
<1> QED
  BY <1>3, <1>4 DEF SpinTableContract

\* graft_spin_table makes a tree with the contract of the live one.
LEMMA GraftedContract ==
  ASSUME NEW t, IsTree(t), NEW g, IsTree(g), g.memory = t.memory,
         SpinTableContract(t).status = "ok",
         GraftContract(g, t, SpinTableContract(t).base) # None
  PROVE  LET u == GraftContract(g, t, SpinTableContract(t).base)
         IN  IsTree(u) /\ HandsOn(t, u)
<1> DEFINE base   == SpinTableContract(t).base
           frame   == PageAt(base)
           cpus   == {SpinTableCpu(g, c, base) : c \in g.cpus}
           v      == [g EXCEPT !.cpus = cpus]
           w      == DisablePsci(v)
           target == GraftParkingReservation(w, base)
           u      == GraftContract(g, t, base)
<1>1. /\ base \in Nat /\ base # 0 /\ base % PageBytes = 0
      /\ MpidrsOf(t) = 0..3 /\ SpinTableContract(t) = [status |-> "ok", base |-> base]
  BY ContractFacts
<1>2. /\ CpuNodesValid(g) /\ MpidrsOf(t) = MpidrsOf(g) /\ None \notin cpus
      /\ target # None /\ ReserveMapValid(g, frame)
      /\ u = [target EXCEPT !.map = @ \cup {frame}]
  BY DEF GraftContract
<1> HIDE DEF base, u
<1>3. ASSUME NEW c \in g.cpus
      PROVE  LET k == SpinTableCpu(g, c, base)
             IN  /\ k \in cpus
                 /\ IsCpu(k) /\ k.mpidr = c.mpidr /\ k.enabled = c.enabled
                 /\ k.enabled =>
                      /\ k.method = "spin-table" /\ k.release = ReleaseAddr(base, k.mpidr)
                      /\ ~k.idle
                      /\ \A i \in DOMAIN k.domains : ~IsPsciDomain(g, k.domains[i])
  <2>1. IsCpu(c)
    BY DEF IsTree
  <2>2. SpinTableCpu(g, c, base) \in cpus /\ SpinTableCpu(g, c, base) # None
    BY <1>2
  <2> QED
    BY <2>1, <2>2, GraftedCpu
<1>4. \A k \in cpus : \E c \in g.cpus : k = SpinTableCpu(g, c, base)
  OBVIOUS
<1> HIDE DEF cpus
<1>5. /\ IsTree(v) /\ v.cpus = cpus /\ v.map = g.map /\ v.memory = g.memory
      /\ v.providers = g.providers
  <2>1. v = [bootcpu |-> g.bootcpu, map |-> g.map, memory |-> g.memory, cpus |-> cpus,
             resv |-> g.resv, providers |-> g.providers, psci |-> g.psci, idle |-> g.idle,
             chosen |-> g.chosen]
    BY TreeUpdate
  <2> HIDE DEF v
  <2>2. \A k \in cpus : IsCpu(k)
    BY <1>3, <1>4
  <2>3. /\ v.cpus = cpus /\ v.map = g.map /\ v.memory = g.memory /\ v.resv = g.resv
        /\ v.providers = g.providers
    BY <2>1
  <2> QED
    BY <2>1, <2>2, <2>3 DEF IsTree
<1> HIDE DEF v
<1>6. /\ IsTree(w) /\ w.cpus = cpus /\ w.map = g.map /\ w.memory = g.memory
      /\ w.providers = g.providers /\ w.psci # "okay" /\ w.idle = 0
  <2> DEFINE p == IF v.psci = "absent" THEN v.psci ELSE "disabled"
  <2>1. w = [v EXCEPT !.psci = p, !.idle = 0]
    BY DEF DisablePsci
  <2>2. p # "okay"
    OBVIOUS
  <2> HIDE DEF p, w
  <2>3. w = [bootcpu |-> v.bootcpu, map |-> v.map, memory |-> v.memory, cpus |-> v.cpus,
             resv |-> v.resv, providers |-> v.providers, psci |-> p, idle |-> 0,
             chosen |-> v.chosen]
    BY <1>5, <2>1, PsciUpdate, Zenon
  <2>4. IsTree(w)
    BY <1>5, <2>3 DEF IsTree
  <2> QED
    BY <1>5, <2>2, <2>3, <2>4
<1> HIDE DEF w
<1>7. /\ IsTree(target) /\ Reserves(target, base)
      /\ target.cpus = cpus /\ target.map = g.map /\ target.memory = g.memory
      /\ target.providers = g.providers /\ target.psci # "okay" /\ target.idle = 0
  <2>1. target = [w EXCEPT !.resv = target.resv] /\ IsTree(target) /\ Reserves(target, base)
    BY <1>1, <1>2, <1>6, GraftedReservation
  <2> HIDE DEF target
  <2>2. target = [bootcpu |-> w.bootcpu, map |-> w.map, memory |-> w.memory, cpus |-> w.cpus,
             resv |-> target.resv, providers |-> w.providers, psci |-> w.psci, idle |-> w.idle,
             chosen |-> w.chosen]
    BY <1>6, <2>1, TreeUpdate
  <2>3. /\ target.cpus = w.cpus /\ target.map = w.map /\ target.memory = w.memory
        /\ target.providers = w.providers /\ target.psci = w.psci /\ target.idle = w.idle
    BY <2>2
  <2> QED
    BY <1>6, <2>1, <2>3
<1> HIDE DEF target
<1>8. frame \in PhysRanges /\ Overlaps(frame, frame)
  BY <1>1, PlanAssumption, RangeFacts DEF PageAt, Overlaps
<1> HIDE DEF frame
<1>9. /\ IsTree(u) /\ Reserves(u, base) /\ u.map = g.map \cup {frame}
      /\ u.cpus = cpus /\ u.memory = g.memory
      /\ u.providers = g.providers /\ u.psci # "okay" /\ u.idle = 0
  <2> DEFINE m == target.map \cup {frame}
  <2>1. u = [target EXCEPT !.map = m]
    BY <1>2
  <2>2. m \subseteq [start : Nat, end : Nat] /\ m = g.map \cup {frame}
    BY <1>7, <1>8 DEF IsTree, PhysRanges
  <2> HIDE DEF m
  <2>3. u = [bootcpu |-> target.bootcpu, map |-> m, memory |-> target.memory,
             cpus |-> target.cpus, resv |-> target.resv, providers |-> target.providers,
             psci |-> target.psci, idle |-> target.idle, chosen |-> target.chosen]
    BY <1>7, <2>1, TreeUpdate
  <2>4. /\ u.map = m /\ u.memory = target.memory /\ u.cpus = target.cpus
        /\ u.resv = target.resv /\ u.providers = target.providers
        /\ u.psci = target.psci /\ u.idle = target.idle
    BY <2>3
  <2>5. IsTree(u)
    BY <1>7, <2>2, <2>3 DEF IsTree
  <2>6. Reserves(u, base)
    BY <1>7, <2>4 DEF Reserves, ReservedCells, ParkingNodes
  <2> QED
    BY <1>7, <2>2, <2>4, <2>5, <2>6
<1>10. \A k \in Enabled(u.cpus) :
         /\ k.method = "spin-table" /\ k.release = ReleaseAddr(base, k.mpidr)
         /\ ~k.idle
         /\ \A i \in DOMAIN k.domains : ~IsPsciDomain(g, k.domains[i])
  BY <1>3, <1>4, <1>9 DEF Enabled
<1>11. CpuNodesValid(u)
  <2> SUFFICES ASSUME NEW k \in Enabled(u.cpus), NEW l \in Enabled(u.cpus), k.mpidr = l.mpidr
               PROVE  k = l
    BY DEF CpuNodesValid
  <2>1. PICK c \in g.cpus : k = SpinTableCpu(g, c, base)
    BY <1>4, <1>9 DEF Enabled
  <2>2. PICK d \in g.cpus : l = SpinTableCpu(g, d, base)
    BY <1>4, <1>9 DEF Enabled
  <2>3. c.enabled /\ d.enabled /\ c.mpidr = d.mpidr
    BY <1>3, <2>1, <2>2 DEF Enabled
  <2>4. c = d
    BY <1>2, <2>3 DEF CpuNodesValid, Enabled
  <2> QED
    BY <2>1, <2>2, <2>4
<1>12. MpidrsOf(u) = MpidrsOf(g)
  <2>1. ASSUME NEW k \in Enabled(u.cpus) PROVE k.mpidr \in MpidrsOf(g)
    BY <1>3, <1>4, <1>9 DEF MpidrsOf, Enabled
  <2>2. ASSUME NEW c \in Enabled(g.cpus) PROVE c.mpidr \in MpidrsOf(u)
    <3>1. c \in g.cpus /\ c.enabled
      BY DEF Enabled
    <3> DEFINE k == SpinTableCpu(g, c, base)
    <3>2. k \in cpus /\ k.mpidr = c.mpidr /\ k.enabled
      BY <1>3, <3>1
    <3> HIDE DEF k
    <3> QED
      BY <1>9, <3>2 DEF MpidrsOf, Enabled
  <2> QED
    BY <2>1, <2>2 DEF MpidrsOf
<1>13. SpinTableContract(u) = SpinTableContract(t)
  <2>1. SpinTableContract(u) = [status |-> "ok", base |-> base]
    BY <1>1, <1>2, <1>9, <1>10, <1>11, <1>12, ContractIsMade
  <2> QED
    BY <1>1, <2>1
<1>14. FirmwareIsOut(u)
  BY <1>9, <1>10 DEF FirmwareIsOut, IsPsciDomain
<1>15. {r \in u.map : Overlaps(r, frame)} = {frame}
  BY <1>2, <1>8, <1>9 DEF ReserveMapValid
<1> QED
  BY <1>9, <1>13, <1>14, <1>15 DEF HandsOn, frame, base, u

\* The tree of the next kernel is a tree, and has the contract of the live one.
LEMMA NextTreeIsTree ==
  ASSUME NEW d, NEW t, IsTree(t), d = None \/ IsTree(d), NextTree(d, t) # None
  PROVE  /\ IsTree(NextTree(d, t))
         /\ SpinTableContract(t).status = "ok" => HandsOn(t, NextTree(d, t))
<1> DEFINE g == IF d = None THEN t ELSE GraftMemory(d, t)
<1>1. g # None /\ NextTree(d, t) = GraftSpinTable(g, t)
  BY DEF NextTree
<1>2. IsTree(g) /\ g.memory = t.memory
  <2>1. CASE d = None
    BY <2>1
  <2>2. CASE d # None
    BY <1>1, <2>2 DEF GraftMemory, IsTree
  <2> QED
    BY <2>1, <2>2
<1> HIDE DEF g
<1>3. CASE SpinTableContract(t).status = "ok"
  <2>1. NextTree(d, t) = GraftContract(g, t, SpinTableContract(t).base)
    BY <1>1, <1>3 DEF GraftSpinTable
  <2> QED
    BY <1>2, <1>3, <2>1, GraftedContract
<1>4. CASE SpinTableContract(t).status = "none"
  BY <1>1, <1>2, <1>4 DEF GraftSpinTable
<1>5. CASE SpinTableContract(t).status = "error"
  BY <1>1, <1>5 DEF GraftSpinTable
<1>6. SpinTableContract(t).status \in {"none", "ok", "error"}
  BY DEF SpinTableContract
<1> QED
  BY <1>3, <1>4, <1>5, <1>6

\* patch_chosen leaves the reservations and the contract alone.
LEMMA PatchedTree ==
  ASSUME NEW t, IsTree(t), NEW c, NEW i
  PROVE  /\ IsTree(PatchChosen(t, c, i))
         /\ ReservedRanges(PatchChosen(t, c, i)) = ReservedRanges(t)
         /\ \A l : HandsOn(l, t) => HandsOn(l, PatchChosen(t, c, i))
<1> DEFINE p == PatchChosen(t, c, i)
           ch == [args |-> c, initrd |-> i, kexec |-> TRUE,
                  rest |-> IF t.chosen = None THEN None ELSE t.chosen.rest]
<1>0. p = [t EXCEPT !.chosen = ch]
  BY DEF PatchChosen
<1> HIDE DEF ch
<1>1. p = [bootcpu |-> t.bootcpu, map |-> t.map, memory |-> t.memory,
           cpus |-> t.cpus, resv |-> t.resv, providers |-> t.providers,
           psci |-> t.psci, idle |-> t.idle, chosen |-> ch]
  BY <1>0, TreeUpdate
<1> HIDE DEF p
<1>2. /\ p.map = t.map /\ p.resv = t.resv /\ p.memory = t.memory /\ p.cpus = t.cpus
      /\ p.providers = t.providers /\ p.psci = t.psci /\ p.idle = t.idle
  BY <1>1
<1>3. IsTree(p)
  BY <1>1 DEF IsTree
<1>4. ReservedRanges(p) = ReservedRanges(t)
  BY <1>2 DEF ReservedRanges, ReserveMapRanges
<1>5. SpinTableContract(p) = SpinTableContract(t)
  <2>1. ParkingNodes(p) = ParkingNodes(t) /\ (ReservedCells(p) <=> ReservedCells(t))
    BY <1>2 DEF ParkingNodes, ReservedCells
  <2>2. MpidrsOf(p) = MpidrsOf(t) /\ (CpuNodesValid(p) <=> CpuNodesValid(t))
    BY <1>2 DEF MpidrsOf, CpuNodesValid
  <2> QED
    BY <1>2, <2>1, <2>2 DEF SpinTableContract
<1>6. FirmwareIsOut(t) => FirmwareIsOut(p)
  BY <1>2 DEF FirmwareIsOut, IsPsciDomain
<1>7. \A l : HandsOn(l, t) => HandsOn(l, p)
  BY <1>2, <1>5, <1>6 DEF HandsOn
<1> QED
  BY <1>3, <1>4, <1>7 DEF p
-----------------------------------------------------------------------------
(* The free ranges.                                                        *)

\* After n lines of /proc/iomem page x is System RAM that nobody has claimed.
ListedFree(x, n) ==
    \E i \in 1..n :
        /\ iomem[i].name = "System RAM" /\ Within(x, iomem[i].range)
        /\ \A j \in (i + 1)..n :
             iomem[j].name \notin {"System RAM", "Kernel code"} => ~Within(x, iomem[j].range)

\* The free ranges of this load are complete.
Planned ==
    \/ pc \in {"search", "try", "placed", "loaded"}
    \/ result = "nohole" \/ \E s \in Seg : at[s] # None

\* The trees are trees.
TreeInv ==
    /\ IsTree(live) /\ iomem \in Listings
    /\ pc # "idle" => IsTree(tree)

\* The free ranges are exactly what was left free so far.
UsableInv ==
    /\ Apart(usable)
    /\ line \in 0..Len(iomem)
    /\ pc = "iomem" => \A x \in Int : Covers(usable, x) <=> ListedFree(x, line)
    /\ pc = "reserve" =>
         /\ todo \subseteq ReservedRanges(tree)
         /\ \A x \in Int : Covers(usable, x) <=>
              /\ ListedFree(x, Len(iomem))
              /\ \A r \in ReservedRanges(tree) \ todo : ~Within(x, r)
    /\ Planned => \A x \in Int : Covers(usable, x) <=> FreeRam(x)

-----------------------------------------------------------------------------
(* The placed segments.                                                    *)

Job == [kernel : Kernels, initrd : InitrdSizes, dtb : DtbSizes, cmdline : Cmdlines]

\* The segments that come with segment s or after it.
Later(s) ==
    CASE s = "kernel"     -> Seg
      [] s = "initrd"     -> {"initrd", "dtb", "trampoline"}
      [] s = "dtb"        -> {"dtb", "trampoline"}
      [] s = "trampoline" -> {"trampoline"}

\* The loads so far: segments are placed in order, each with a size.
JobInv ==
    /\ at \in [Seg -> Nat \cup {None}] /\ next \in Seg
    /\ pc \notin {"idle", "loaded"} => result = "none"
    /\ pc \in {"iomem", "reserve"} => next = "kernel" /\ \A s \in Seg : at[s] = None
    /\ pc # "idle" \/ Planned => job \in Job
    /\ pc \in {"iomem", "reserve", "search", "try"} =>
         /\ \A s \in Later(next) : at[s] = None
         /\ next # "kernel" => at["kernel"] # None
         /\ next = "initrd" => job.initrd # 0
    /\ at["initrd"] # None => job.initrd # 0

\* What find_region looks at is a free range.
RangeInv ==
    /\ pc \in {"iomem", "reserve"} => range = None
    /\ pc = "search" => range = None \/ range \in usable
    /\ pc = "try" => range \in usable /\ cand \in Nat /\ From(range) <= cand

\* Every placed segment lies in a free range, apart from the others.
PlaceInv ==
    /\ occupied = {Region(s) : s \in {q \in Seg : at[q] # None}}
    /\ \A s \in Seg : at[s] # None =>
         /\ \E q \in usable : q.start <= at[s] /\ at[s] + RegionSize(s) <= q.end
         /\ \A q \in Seg \ {s} : at[q] # None => ~Overlaps(Region(s), Region(q))

PlanInv == TreeInv /\ UsableInv /\ JobInv /\ RangeInv /\ PlaceInv

-----------------------------------------------------------------------------
(* What find_region has ruled out.                                         *)

\* The next segment could be put at a.
Fits(a) ==
    /\ a \in Lowest(next)..Top /\ a % Alignment(next) = 0
    /\ a + RegionSize(next) <= MinOf(Highest(next), Top)
    /\ \A x \in a..(a + RegionSize(next) - 1) :
         FreeRam(x) /\ \A o \in occupied : ~Within(x, o)

\* At a, it would lie in range q.
LiesIn(a, q) == q.start <= a /\ a + RegionSize(next) <= q.end

\* No place is passed over: not in the ranges behind, not before the
\* candidate; and the candidate never outruns the ranges ahead.
SearchInv ==
    /\ pc = "search" => \A a \in Nat : Fits(a) => \A q \in usable \ Ahead : ~LiesIn(a, q)
    /\ pc = "try" =>
         /\ \A a \in Nat : Fits(a) =>
              /\ \A q \in usable : q.start < range.start => ~LiesIn(a, q)
              /\ LiesIn(a, range) => cand <= a
         /\ \A y \in Nat : y % Alignment(next) = 0 /\ range.end <= y => cand <= y
    /\ NoFalseFailure

FindInv == PlanInv /\ SearchInv

-----------------------------------------------------------------------------
(* Frames and types.                                                       *)

\* What is free depends on the listing and on the tree's reservations.
LEMMA FreeFrame ==
  ASSUME iomem' = iomem, ReservedRanges(tree)' = ReservedRanges(tree)
  PROVE  \A x : FreeRam(x)' <=> FreeRam(x)
  BY DEF FreeRam

\* One more line of /proc/iomem.
LEMMA OneMoreLine ==
  ASSUME NEW n \in Nat, NEW x,
         NEW new, new = iomem[n + 1]
  PROVE  /\ new.name = "System RAM" =>
              (ListedFree(x, n + 1) <=> ListedFree(x, n) \/ Within(x, new.range))
         /\ new.name = "Kernel code" => (ListedFree(x, n + 1) <=> ListedFree(x, n))
         /\ new.name \notin {"System RAM", "Kernel code"} =>
              (ListedFree(x, n + 1) <=> ListedFree(x, n) /\ ~Within(x, new.range))
<1> DEFINE Free(i, m) == /\ iomem[i].name = "System RAM" /\ Within(x, iomem[i].range)
                         /\ \A j \in (i + 1)..m :
                              iomem[j].name \notin {"System RAM", "Kernel code"}
                                => ~Within(x, iomem[j].range)
           Claims == new.name \notin {"System RAM", "Kernel code"} /\ Within(x, new.range)
<1>1. ASSUME NEW i \in 1..n PROVE Free(i, n + 1) <=> Free(i, n) /\ ~Claims
  <2>1. (i + 1)..(n + 1) = ((i + 1)..n) \cup {n + 1}
    OBVIOUS
  <2> QED
    BY <2>1
<1>2. Free(n + 1, n + 1) <=> new.name = "System RAM" /\ Within(x, new.range)
  <2>1. (n + 1 + 1)..(n + 1) = {}
    OBVIOUS
  <2> QED
    BY <2>1
<1>3. \A m : ListedFree(x, m) <=> \E i \in 1..m : Free(i, m)
  BY DEF ListedFree
<1>4. 1..(n + 1) = (1..n) \cup {n + 1}
  OBVIOUS
<1> HIDE DEF Free
<1>5. ListedFree(x, n + 1) <=> (ListedFree(x, n) /\ ~Claims) \/ Free(n + 1, n + 1)
  BY <1>1, <1>3, <1>4
<1> QED
  BY <1>2, <1>5

\* A segment that is placed has a size.
LEMMA SizeFacts ==
  ASSUME job \in Job, NEW s \in Seg, s = "initrd" => job.initrd # 0
  PROVE  RegionSize(s) \in Nat \ {0}
<1>1. /\ job.kernel.text \in Nat /\ job.kernel.memsz \in Nat \ {0}
      /\ job.initrd \in Nat /\ job.dtb \in Nat \ {0}
  BY PlanAssumption DEF Job
<1> QED
  BY <1>1 DEF RegionSize, Seg

\* The limits of the search are addresses.
LEMMA LimitFacts ==
  ASSUME JobInv, pc \in {"reserve", "search", "try"}
  PROVE  /\ Lowest(next) \in Nat /\ Highest(next) \in Nat /\ Top \in Nat
         /\ Alignment(next) \in Nat \ {0} /\ (Top + 1) % Alignment(next) = 0
         /\ RegionSize(next) \in Nat \ {0}
<1>1. /\ job \in Job /\ next \in Seg
      /\ next = "initrd" => job.initrd # 0
      /\ next # "kernel" => at["kernel"] \in Nat
  BY DEF JobInv, Seg
<1>2. job.kernel.text \in Nat /\ job.kernel.memsz \in Nat \ {0}
  BY <1>1, PlanAssumption DEF Job
<1>3. next # "kernel" => KernelEntry \in Nat
  BY <1>1, <1>2 DEF KernelEntry
<1>4. \A x \in Nat : AlignDown(x, SZ_1G) \in Nat
  <2> SUFFICES ASSUME NEW x \in Nat PROVE AlignDown(x, SZ_1G) \in Nat
    OBVIOUS
  <2>1. SZ_1G \in Nat \ {0}
    BY PlanAssumption
  <2>2. x \div SZ_1G \in Nat
    BY <2>1
  <2> QED
    BY <2>1, <2>2 DEF AlignDown
<1>5. Lowest(next) \in Nat /\ Highest(next) \in Nat /\ Top \in Nat
  BY <1>2, <1>3, <1>4, PlanAssumption DEF Lowest, Highest
<1>6. Alignment(next) \in Nat \ {0} /\ (Top + 1) % Alignment(next) = 0
  BY PlanAssumption DEF Alignment
<1> QED
  BY <1>1, <1>5, <1>6, SizeFacts

\* What the placed segments take are ranges inside free ranges.
LEMMA OccupiedFacts ==
  ASSUME PlanInv, NEW o \in occupied
  PROVE  /\ o.start \in Nat /\ o.end \in Nat /\ o.start < o.end
         /\ \E q \in usable : q.start <= o.start /\ o.end <= q.end
<1>1. PICK s \in Seg : at[s] # None /\ o = Region(s)
  BY DEF PlanInv, PlaceInv
<1>2. /\ at[s] \in Nat /\ job \in Job
      /\ s = "initrd" => job.initrd # 0
  BY <1>1 DEF PlanInv, JobInv, Planned
<1>3. RegionSize(s) \in Nat \ {0}
  BY <1>2, SizeFacts
<1>4. o.start = at[s] /\ o.end = at[s] + RegionSize(s)
  BY <1>1 DEF Region, PhysRange
<1>5. \E q \in usable : q.start <= at[s] /\ at[s] + RegionSize(s) <= q.end
  BY <1>1 DEF PlanInv, PlaceInv
<1> QED
  BY <1>2, <1>3, <1>4, <1>5

\* A step of find_region's loop over the ranges, case by case.
LEMMA NextRangeStep ==
  ASSUME PlanInv, NextRange
  PROVE  /\ pc = "search"
         /\ UNCHANGED <<live, iomem, job, tree, line, todo, usable, next, at, occupied, boots>>
         /\ \E r \in Ahead :
              /\ \A q \in Ahead : r.start <= q.start
              /\ range' = r /\ r \in usable /\ From(r) \in Nat /\ Upto(r) \in Nat
              /\ cand' = AlignUp(From(r), Alignment(next))
              /\ \/ /\ From(r) + RegionSize(next) > Top
                    /\ pc' = "idle" /\ result' = "nohole"
                 \/ /\ From(r) + RegionSize(next) > Upto(r)
                    /\ UNCHANGED <<pc, result>>
                 \/ /\ From(r) + RegionSize(next) <= Upto(r)
                    /\ From(r) + Alignment(next) - 1 > Top
                    /\ pc' = "idle" /\ result' = "nohole"
                 \/ /\ From(r) + RegionSize(next) <= Upto(r)
                    /\ pc' = "try" /\ UNCHANGED result
<1>1. /\ pc = "search"
      /\ UNCHANGED <<live, iomem, job, tree, line, todo, usable, next, at, occupied, boots>>
  BY DEF NextRange
<1>2. PICK r \in Ahead :
        /\ \A q \in Ahead : r.start <= q.start
        /\ range' = r
        /\ cand' = AlignUp(From(r), Alignment(next))
        /\ \/ From(r) + RegionSize(next) > Top /\ Fail("nohole")
           \/ /\ From(r) + RegionSize(next) <= Top
              /\ From(r) + RegionSize(next) > Upto(r)
              /\ UNCHANGED <<pc, result>>
           \/ /\ From(r) + RegionSize(next) <= MinOf(Upto(r), Top)
              /\ IF From(r) + Alignment(next) - 1 > Top
                   THEN Fail("nohole") ELSE pc' = "try" /\ UNCHANGED result
  BY DEF NextRange
<1>3. /\ Lowest(next) \in Nat /\ Highest(next) \in Nat /\ Top \in Nat
      /\ RegionSize(next) \in Nat \ {0}
  BY <1>1, LimitFacts DEF PlanInv
<1>4. r \in usable /\ r.start \in Nat /\ r.end \in Nat
  BY RangeFacts DEF Ahead, PlanInv, UsableInv, Apart
<1>5. From(r) \in Nat /\ Upto(r) \in Nat
  BY <1>3, <1>4 DEF From, Upto, MaxOf, MinOf
<1>6. From(r) + RegionSize(next) <= MinOf(Upto(r), Top) =>
        From(r) + RegionSize(next) <= Upto(r)
  BY <1>3, <1>5 DEF MinOf
<1> QED
  BY <1>1, <1>2, <1>4, <1>5, <1>6 DEF Fail

-----------------------------------------------------------------------------
(* PlanInv.                                                                *)

\* At first nothing is planned.
LEMMA InitPlan == Init => PlanInv
<1> SUFFICES ASSUME Init PROVE PlanInv
  OBVIOUS
<1> USE DEF Init
<1>1. TreeInv
  BY TreeAssumption DEF TreeInv
<1>2. UsableInv
  <2>1. Apart(usable)
    BY DEF Apart
  <2>2. line \in 0..Len(iomem)
    <3>1. iomem \in Seq([range : PhysRanges, name : STRING])
      BY ListingAssumption
    <3> QED
      BY <3>1
  <2> QED
    BY <2>1, <2>2 DEF UsableInv, Planned
<1>3. JobInv
  BY DEF JobInv, Planned, Seg
<1>4. RangeInv /\ PlaceInv
  BY DEF RangeInv, PlaceInv
<1> QED
  BY <1>1, <1>2, <1>3, <1>4 DEF PlanInv

\* The trees stay trees.
LEMMA TreeStep == PlanInv /\ [Next]_vars => TreeInv'
<1> SUFFICES ASSUME PlanInv, [Next]_vars PROVE TreeInv'
  OBVIOUS
<1> USE DEF PlanInv
<1>1. CASE Load
  <2>1. PICK d \in Dtbs \cup {None} : tree' = NextTree(d, live)
    BY <1>1 DEF Load
  <2>2. tree' # None => IsTree(tree')
    BY <2>1, NextTreeIsTree, TreeAssumption DEF TreeInv
  <2> QED
    BY <1>1, <2>2 DEF Load, Fail, TreeInv
<1>2. CASE KexecLoad
  <2>1. IsTree(tree')
    BY <1>2, PatchedTree DEF KexecLoad, TreeInv
  <2> QED
    BY <1>2, <2>1 DEF KexecLoad, TreeInv
<1>3. CASE Exec
  BY <1>3 DEF Exec, TreeInv
<1>4. CASE ParseLine \/ IomemRead \/ Reserve \/ Reserved \/ NextRange \/ NoRange
           \/ SkipConflict \/ RangeExhausted \/ Place \/ UNCHANGED vars
  BY <1>4 DEF ParseLine, IomemRead, Reserve, Reserved, NextRange, NoRange,
              SkipConflict, RangeExhausted, Place, vars, Fail, TreeInv
<1> QED
  BY <1>1, <1>2, <1>3, <1>4 DEF Next

\* The free ranges are what the lines and reservations seen so far leave.
LEMMA UsableStep == PlanInv /\ [Next]_vars => UsableInv'
<1> SUFFICES ASSUME PlanInv, [Next]_vars PROVE UsableInv'
  OBVIOUS
<1> USE DEF PlanInv
<1>l. \A l \in Listings : Len(l) \in Nat /\ \A i \in 1..Len(l) : l[i].range \in PhysRanges
  <2> SUFFICES ASSUME NEW l \in Listings
               PROVE  Len(l) \in Nat /\ \A i \in 1..Len(l) : l[i].range \in PhysRanges
    OBVIOUS
  <2> DEFINE Lines == [range : PhysRanges, name : STRING]
  <2>1. l \in Seq(Lines) /\ \A e \in Lines : e.range \in PhysRanges
    BY ListingAssumption
  <2> HIDE DEF Lines
  <2> QED
    BY <2>1
<1>1. CASE Load \/ Exec
  <2>1. /\ StartPlan /\ pc' \in {"idle", "iomem"} /\ result' \in {"none", "refused"}
        /\ iomem' \in Listings
    BY <1>1 DEF Load, Exec, Fail, TreeInv
  <2>2. Apart({}) /\ \A x : ~Covers({}, x)
    BY DEF Apart, Covers
  <2>3. \A x : ~ListedFree(x, 0)'
    BY DEF ListedFree
  <2>4. ~Planned'
    BY <2>1 DEF Planned, StartPlan
  <2> QED
    BY <1>l, <2>1, <2>2, <2>3, <2>4 DEF UsableInv, StartPlan
<1>2. CASE ParseLine
  <2> DEFINE l == iomem[line + 1]
  <2>0. Len(iomem) \in Nat /\ \A i \in 1..Len(iomem) : iomem[i].range \in PhysRanges
    BY <1>l DEF TreeInv
  <2>t. line \in 0..Len(iomem)
    BY DEF UsableInv
  <2>1. /\ pc = "iomem" /\ line \in Nat /\ line < Len(iomem) /\ line' = line + 1
        /\ UNCHANGED <<iomem, pc, at, result>>
        /\ Len(iomem) \in Nat
    <3>1. /\ pc = "iomem" /\ line < Len(iomem) /\ line' = line + 1
          /\ UNCHANGED <<iomem, pc, at, result>>
      BY <1>2 DEF ParseLine
    <3> QED
      BY <2>0, <2>t, <3>1
  <2>r. l.range \in PhysRanges
    <3>1. line + 1 \in 1..Len(iomem)
      BY <2>1
    <3> QED
      BY <2>0, <3>1
  <2>2. \A x \in Int : Covers(usable, x) <=> ListedFree(x, line)
    BY <2>1 DEF UsableInv
  <2>o. \A x \in Int :
          /\ l.name = "System RAM" =>
               (ListedFree(x, line + 1) <=> ListedFree(x, line) \/ Within(x, l.range))
          /\ l.name = "Kernel code" => (ListedFree(x, line + 1) <=> ListedFree(x, line))
          /\ l.name \notin {"System RAM", "Kernel code"} =>
               (ListedFree(x, line + 1) <=> ListedFree(x, line) /\ ~Within(x, l.range))
    BY <2>1, OneMoreLine
  <2> HIDE DEF l
  <2>3. Apart(usable') /\ \A x \in Int : Covers(usable', x) <=> ListedFree(x, line + 1)
    <3>1. CASE l.name = "System RAM"
      <4>1. usable' = AddRange(usable, l.range)
        BY <1>2, <3>1 DEF ParseLine, l
      <4> QED
        BY <2>1, <2>r, <2>2, <2>o, <3>1, <4>1, AddRangeAdds DEF UsableInv
    <3>2. CASE l.name = "Kernel code"
      <4>1. usable' = usable
        BY <1>2, <3>2 DEF ParseLine, l
      <4> QED
        BY <2>1, <2>r, <2>2, <2>o, <3>2, <4>1 DEF UsableInv
    <3>3. CASE l.name \notin {"System RAM", "Kernel code"}
      <4>1. usable' = SubtractRange(usable, l.range)
        BY <1>2, <3>3 DEF ParseLine, l
      <4> QED
        BY <2>1, <2>r, <2>2, <2>o, <3>3, <4>1, SubtractRangeTakes DEF UsableInv
    <3> QED
      BY <3>1, <3>2, <3>3
  <2>5. \A x, n : ListedFree(x, n)' <=> ListedFree(x, n)
    BY <2>1 DEF ListedFree
  <2>6. ~Planned'
    BY <2>1 DEF Planned, JobInv
  <2> QED
    BY <2>1, <2>3, <2>5, <2>6 DEF UsableInv
<1>3. CASE IomemRead
  <2>1. /\ pc = "iomem" /\ line = Len(iomem) /\ UNCHANGED <<iomem, tree, line, usable, at>>
        /\ todo' = ReservedRanges(tree)
        /\ (pc' = "reserve" /\ result' = result) \/ (pc' = "idle" /\ result' = "refused")
    BY <1>3 DEF IomemRead, Fail
  <2>2. \A x, n : ListedFree(x, n)' <=> ListedFree(x, n)
    BY <2>1 DEF ListedFree
  <2>3. ~Planned'
    BY <2>1 DEF Planned, JobInv
  <2> QED
    BY <2>1, <2>2, <2>3 DEF UsableInv
<1>4. CASE Reserve
  <2>1. PICK r \in todo : todo' = todo \ {r} /\ usable' = SubtractRange(usable, r)
    BY <1>4 DEF Reserve
  <2>2. pc = "reserve" /\ UNCHANGED <<iomem, tree, line, pc, at, result>>
    BY <1>4 DEF Reserve
  <2>3. r \in ReservedRanges(tree) /\ r \in PhysRanges
    BY <2>1, <2>2, ReservedAreRanges DEF UsableInv, TreeInv
  <2>4. \A x, n : ListedFree(x, n)' <=> ListedFree(x, n)
    BY <2>2 DEF ListedFree
  <2>5. ~Planned'
    BY <2>2 DEF Planned, JobInv
  <2>6. /\ Apart(usable')
        /\ \A x \in Int : Covers(usable', x) <=> Covers(usable, x) /\ ~Within(x, r)
    BY <2>1, <2>3, SubtractRangeTakes DEF UsableInv
  <2>7. ReservedRanges(tree) \ todo' = (ReservedRanges(tree) \ todo) \cup {r}
    BY <2>1, <2>3
  <2> QED
    BY <2>1, <2>2, <2>4, <2>5, <2>6, <2>7 DEF UsableInv
<1>5. CASE Reserved
  <2>1. /\ pc = "reserve" /\ todo = {} /\ UNCHANGED <<iomem, tree, line, usable, at>>
        /\ (pc' = "search" /\ result' = result) \/ (pc' = "idle" /\ result' = "refused")
    BY <1>5 DEF Reserved, planVars, Fail
  <2>2. \A x : FreeRam(x)' <=> FreeRam(x)
    BY <2>1, FreeFrame
  <2>3. \A x \in Int : Covers(usable, x) <=> FreeRam(x)
    BY <2>1 DEF UsableInv, ListedFree, FreeRam
  <2> QED
    BY <2>1, <2>2, <2>3 DEF UsableInv, Planned
<1>6. CASE NextRange \/ NoRange \/ SkipConflict \/ RangeExhausted \/ Place \/ KexecLoad
  <2>1. /\ pc \in {"search", "try", "placed"}
        /\ pc' \notin {"iomem", "reserve"}
        /\ UNCHANGED <<iomem, line, usable>>
    BY <1>6, NextRangeStep DEF NoRange, SkipConflict, RangeExhausted, Place,
                               KexecLoad, Fail, planVars
  <2>2. ReservedRanges(tree)' = ReservedRanges(tree)
    <3>1. CASE KexecLoad
      BY <2>1, <3>1, PatchedTree DEF KexecLoad, TreeInv
    <3>2. CASE ~KexecLoad
      BY <1>6, <3>2, NextRangeStep DEF NoRange, SkipConflict, RangeExhausted, Place
    <3> QED
      BY <3>1, <3>2
  <2>3. \A x : FreeRam(x)' <=> FreeRam(x)
    BY <2>1, <2>2, FreeFrame
  <2> QED
    BY <2>1, <2>3 DEF UsableInv, Planned
<1>7. CASE UNCHANGED vars
  <2>1. /\ \A x : FreeRam(x)' <=> FreeRam(x)
        /\ \A x, n : ListedFree(x, n)' <=> ListedFree(x, n)
        /\ Planned' <=> Planned
    BY <1>7 DEF vars, planVars, FreeRam, ListedFree, Planned
  <2> QED
    BY <1>7, <2>1 DEF vars, planVars, UsableInv
<1> QED
  BY <1>1, <1>2, <1>3, <1>4, <1>5, <1>6, <1>7 DEF Next

\* Segments are placed in order.
LEMMA JobStep == PlanInv /\ [Next]_vars => JobInv'
<1> SUFFICES ASSUME PlanInv, [Next]_vars PROVE JobInv'
  OBVIOUS
<1> USE DEF PlanInv
<1>1. CASE Load
  <2>1. /\ StartPlan /\ job' \in Job /\ pc' \in {"idle", "iomem"}
        /\ result' \in {"none", "refused"}
        /\ pc' = "iomem" => result' = "none"
    BY <1>1 DEF Load, Fail, Job
  <2> QED
    BY <2>1 DEF StartPlan, JobInv, Planned, Seg, Later
<1>2. CASE Exec
  BY <1>2 DEF Exec, StartPlan, JobInv, Planned, Seg, Later
<1>3. CASE Place
  <2>1. /\ pc = "try" /\ at' = [at EXCEPT ![next] = cand] /\ cand \in Nat
        /\ job \in Job /\ UNCHANGED job
        /\ pc' \in {"search", "placed"}
    BY <1>3 DEF Place, RangeInv, JobInv
  <2>2. CASE next = "kernel"
    BY <1>3, <2>1, <2>2, PlanAssumption DEF Place, JobInv, Seg, Later
  <2>3. CASE next = "initrd"
    BY <1>3, <2>1, <2>3, PlanAssumption DEF Place, JobInv, Seg, Later
  <2>4. CASE next = "dtb"
    BY <1>3, <2>1, <2>4, PlanAssumption DEF Place, JobInv, Seg, Later
  <2>5. CASE next = "trampoline"
    BY <1>3, <2>1, <2>5, PlanAssumption DEF Place, JobInv, Seg, Later
  <2> QED
    BY <2>2, <2>3, <2>4, <2>5 DEF JobInv, Seg
<1>4. CASE ParseLine \/ Reserve \/ UNCHANGED vars
  BY <1>4 DEF ParseLine, Reserve, vars, planVars, JobInv, Planned
<1>5. CASE IomemRead \/ Reserved
  BY <1>5 DEF IomemRead, Reserved, Fail, planVars, JobInv, Planned
<1>6. CASE NextRange \/ NoRange \/ SkipConflict \/ RangeExhausted \/ KexecLoad
  <2>1. /\ pc \in {"search", "try", "placed"}
        /\ pc' \in {"idle", "search", "try", "loaded"}
        /\ pc = "placed" <=> pc' = "loaded"
        /\ pc' \in {"search", "try"} => result' = result
        /\ UNCHANGED <<at, next, job>>
    BY <1>6, NextRangeStep DEF NoRange, SkipConflict, RangeExhausted, KexecLoad,
                               Fail, planVars
  <2> QED
    BY <2>1 DEF JobInv, Planned
<1> QED
  BY <1>1, <1>2, <1>3, <1>4, <1>5, <1>6 DEF Next

\* find_region looks at free ranges, from their first page on.
LEMMA RangeStep == PlanInv /\ [Next]_vars => RangeInv'
<1> SUFFICES ASSUME PlanInv, [Next]_vars PROVE RangeInv'
  OBVIOUS
<1> USE DEF PlanInv
<1>1. CASE Load \/ Exec
  BY <1>1 DEF Load, Exec, StartPlan, Fail, RangeInv
<1>2. CASE ParseLine \/ IomemRead \/ Reserve \/ Reserved
  <2>1. pc \in {"iomem", "reserve"} /\ range' = range /\ pc' # "try"
    BY <1>2 DEF ParseLine, IomemRead, Reserve, Reserved, Fail, searchVars, planVars
  <2> QED
    BY <2>1 DEF RangeInv
<1>3. CASE NextRange
  <2>1. /\ pc = "search" /\ UNCHANGED <<job, usable, next, at>>
        /\ range' \in usable /\ From(range') \in Nat
        /\ cand' = AlignUp(From(range'), Alignment(next))
        /\ pc' \in {"search", "idle", "try"}
    BY <1>3, NextRangeStep
  <2>2. cand' \in Nat /\ From(range') <= cand'
    BY <2>1, LimitFacts, AlignUpIsLeast
  <2>3. From(range)' = From(range')
    BY <2>1 DEF From, Lowest, KernelEntry
  <2> QED
    BY <2>1, <2>2, <2>3 DEF RangeInv
<1>4. CASE SkipConflict
  <2>1. /\ pc = "try" /\ UNCHANGED <<job, usable, next, at, range>>
        /\ pc' \in {"try", "idle"}
    BY <1>4 DEF SkipConflict, Fail
  <2>2. PICK o \in Conflicts : cand' = AlignUp(o.end, Alignment(next))
    BY <1>4 DEF SkipConflict
  <2>3. o.end \in Nat /\ cand < o.end
    BY <2>1, <2>2, OccupiedFacts DEF Conflicts, Overlaps, Candidate, PhysRange
  <2>4. cand' \in Nat /\ o.end <= cand'
    BY <2>1, <2>2, <2>3, LimitFacts, AlignUpIsLeast
  <2>5. /\ cand \in Nat /\ From(range) <= cand /\ range \in usable
        /\ From(range) \in Nat
    <3>1. cand \in Nat /\ From(range) <= cand /\ range \in usable
      BY <2>1 DEF RangeInv
    <3>2. Lowest(next) \in Nat /\ range.start \in Nat
      BY <2>1, <3>1, LimitFacts, RangeFacts DEF UsableInv, Apart
    <3> QED
      BY <3>1, <3>2 DEF From, MaxOf
  <2>6. From(range)' = From(range)
    BY <2>1 DEF From, Lowest, KernelEntry
  <2> QED
    BY <2>1, <2>3, <2>4, <2>5, <2>6 DEF RangeInv
<1>5. CASE RangeExhausted \/ NoRange \/ KexecLoad
  BY <1>5 DEF RangeExhausted, NoRange, KexecLoad, Fail, planVars, searchVars, RangeInv
<1>6. CASE Place
  BY <1>6 DEF Place, RangeInv
<1>7. CASE UNCHANGED vars
  BY <1>7 DEF vars, planVars, searchVars, RangeInv, From, Lowest, KernelEntry
<1> QED
  BY <1>1, <1>2, <1>3, <1>4, <1>5, <1>6, <1>7 DEF Next

\* Placed segments lie in free ranges, apart from one another.
LEMMA PlaceStep == PlanInv /\ [Next]_vars => PlaceInv'
<1> SUFFICES ASSUME PlanInv, [Next]_vars PROVE PlaceInv'
  OBVIOUS
<1> USE DEF PlanInv
<1>1. CASE Load \/ Exec
  BY <1>1 DEF Load, Exec, StartPlan, PlaceInv
<1>2. CASE ParseLine \/ IomemRead \/ Reserve \/ Reserved
  <2>1. (\A s \in Seg : at[s] = None) /\ UNCHANGED <<at, occupied>>
    BY <1>2 DEF ParseLine, IomemRead, Reserve, Reserved, planVars, JobInv
  <2> QED
    BY <2>1 DEF PlaceInv
<1>3. CASE Place
  <2>1. /\ pc = "try" /\ at' = [at EXCEPT ![next] = cand]
        /\ occupied' = occupied \cup {Candidate}
        /\ Candidate.end <= Upto(range) /\ Conflicts = {}
        /\ UNCHANGED <<job, usable>>
    BY <1>3 DEF Place
  <2>2. /\ next \in Seg /\ at \in [Seg -> Nat \cup {None}] /\ at[next] = None
        /\ range \in usable /\ cand \in Nat /\ From(range) <= cand
    <3>1. next \in Later(next) /\ next \in Seg
      BY DEF JobInv, Later, Seg
    <3> QED
      BY <2>1, <3>1 DEF JobInv, RangeInv
  <2>3. /\ RegionSize(next) \in Nat \ {0} /\ Lowest(next) \in Nat /\ Highest(next) \in Nat
        /\ range.start \in Nat /\ range.end \in Nat
    BY <2>1, <2>2, LimitFacts, RangeFacts DEF UsableInv, Apart
  <2>4. range.start <= cand /\ cand + RegionSize(next) <= range.end
    BY <2>1, <2>2, <2>3 DEF From, Upto, MaxOf, MinOf, Candidate, PhysRange
  <2>n. PICK n \in Seg : n = next
    BY <2>2
  <2>5. /\ \A s \in Seg \ {n} : at'[s] = at[s]
        /\ at'[n] = cand /\ cand # None
        /\ \A s \in Seg : RegionSize(s)' = RegionSize(s)
    BY <2>1, <2>2, <2>n, PlanAssumption DEF RegionSize
  <2>6. /\ \A s \in Seg \ {n} : Region(s)' = Region(s)
        /\ Region(n)' = Candidate
    BY <2>5, <2>n DEF Region, Candidate
  <2>7. occupied' = {Region(s)' : s \in {q \in Seg : at'[q] # None}}
    <3>1. {q \in Seg : at'[q] # None} = {q \in Seg : at[q] # None} \cup {n}
      BY <2>2, <2>5, <2>n
    <3>2. n \notin {q \in Seg : at[q] # None}
      BY <2>2, <2>n
    <3> QED
      BY <2>1, <2>6, <3>1, <3>2 DEF PlaceInv
  <2>8. \A s \in Seg \ {n} : at[s] # None =>
          ~Overlaps(Candidate, Region(s)) /\ ~Overlaps(Region(s), Candidate)
    BY <2>1 DEF PlaceInv, Conflicts, Overlaps
  <2>9. \A s \in Seg : at'[s] # None =>
          \E q \in usable : q.start <= at'[s] /\ at'[s] + RegionSize(s)' <= q.end
    BY <2>2, <2>4, <2>5, <2>n DEF PlaceInv
  <2>10. ASSUME NEW s \in Seg, NEW q \in Seg \ {s}, at'[s] # None, at'[q] # None
         PROVE  ~Overlaps(Region(s)', Region(q)')
    <3>1. CASE s = n
      BY <2>5, <2>6, <2>8, <2>10, <3>1
    <3>2. CASE q = n
      BY <2>5, <2>6, <2>8, <2>10, <3>2
    <3>3. CASE s # n /\ q # n
      BY <2>5, <2>6, <2>10, <3>3 DEF PlaceInv
    <3> QED
      BY <3>1, <3>2, <3>3
  <2> QED
    BY <2>1, <2>7, <2>9, <2>10 DEF PlaceInv, Overlaps
<1>4. CASE NextRange \/ NoRange \/ SkipConflict \/ RangeExhausted \/ KexecLoad \/ UNCHANGED vars
  <2>1. UNCHANGED <<at, occupied, usable, job>>
    BY <1>4, NextRangeStep DEF NoRange, SkipConflict, RangeExhausted, KexecLoad, vars, planVars
  <2>2. \A s : RegionSize(s)' = RegionSize(s) /\ Region(s)' = Region(s)
    BY <2>1 DEF RegionSize, Region
  <2> QED
    BY <2>1, <2>2 DEF PlaceInv, Overlaps
<1> QED
  BY <1>1, <1>2, <1>3, <1>4 DEF Next

\* The placement invariant is inductive.
LEMMA NextPlan == PlanInv /\ [Next]_vars => PlanInv'
  BY TreeStep, UsableStep, JobStep, RangeStep, PlaceStep DEF PlanInv

\* A placed segment has a size, and lies in pages that are free.
LEMMA SegmentIsFree ==
  ASSUME PlanInv, NEW s \in Seg, at[s] # None
  PROVE  /\ Region(s).start \in Nat /\ Region(s).end \in Nat /\ Region(s).start < Region(s).end
         /\ \A x \in Region(s).start..(Region(s).end - 1) : FreeRam(x)
<1>1. PICK q \in usable : q.start <= at[s] /\ at[s] + RegionSize(s) <= q.end
  BY DEF PlanInv, PlaceInv
<1>2. /\ at[s] \in Nat /\ job \in Job /\ Planned
      /\ s = "initrd" => job.initrd # 0
  BY DEF PlanInv, JobInv, Planned
<1>3. RegionSize(s) \in Nat \ {0} /\ q.start \in Nat /\ q.end \in Nat
  BY <1>2, SizeFacts, RangeFacts DEF PlanInv, UsableInv, Apart
<1>4. Region(s).start = at[s] /\ Region(s).end = at[s] + RegionSize(s)
  BY DEF Region, PhysRange
<1>5. ASSUME NEW x \in Region(s).start..(Region(s).end - 1) PROVE FreeRam(x)
  <2>1. x \in Int /\ Within(x, q)
    BY <1>1, <1>2, <1>3, <1>4 DEF Within
  <2> QED
    BY <1>2, <2>1 DEF PlanInv, UsableInv, Covers
<1> QED
  BY <1>2, <1>3, <1>4, <1>5

\* Whatever /proc/iomem lists and the trees reserve, every segment is placed in
\* RAM that nobody else claims and apart from the others (load, find_region).
THEOREM SegmentsAreSafe == Spec => []PlacementSafe
<1>1. PlanInv => PlacementSafe
  BY SegmentIsFree DEF PlacementSafe, PlanInv, PlaceInv
<1> QED
  BY InitPlan, NextPlan, <1>1, PTL DEF Spec

-----------------------------------------------------------------------------
(* The chain of kernels.                                                   *)

\* From the moment it is made, the tree of the next kernel has the contract.
HandInv == pc # "idle" /\ SpinTableContract(live).status = "ok" => HandsOn(live, tree)

\* No step of the load loses the contract.
LEMMA HandStep == PlanInv /\ HandInv /\ [Next]_vars => HandInv'
<1> SUFFICES ASSUME PlanInv, HandInv, [Next]_vars PROVE HandInv'
  OBVIOUS
<1>1. CASE Load
  <2>1. PICK d \in Dtbs \cup {None} : tree' = NextTree(d, live)
    BY <1>1 DEF Load
  <2>2. tree' # None /\ SpinTableContract(live).status = "ok" => HandsOn(live, tree')
    BY <2>1, NextTreeIsTree, TreeAssumption DEF PlanInv, TreeInv
  <2>3. live' = live /\ (pc' # "idle" => tree' # None)
    BY <1>1 DEF Load, Fail
  <2> QED
    BY <2>2, <2>3 DEF HandInv
<1>2. CASE KexecLoad
  <2>1. live' = live /\ pc # "idle" /\ IsTree(tree)
    BY <1>2 DEF KexecLoad, PlanInv, TreeInv
  <2>2. SpinTableContract(live).status = "ok" => HandsOn(live, tree')
    BY <1>2, <2>1, PatchedTree DEF KexecLoad, HandInv
  <2> QED
    BY <2>1, <2>2 DEF HandInv
<1>3. CASE Exec
  BY <1>3 DEF Exec, HandInv
<1>4. CASE ParseLine \/ IomemRead \/ Reserve \/ Reserved \/ NextRange \/ NoRange
           \/ SkipConflict \/ RangeExhausted \/ Place \/ UNCHANGED vars
  <2>1. live' = live /\ tree' = tree /\ (pc' # "idle" => pc # "idle")
    BY <1>4 DEF ParseLine, IomemRead, Reserve, Reserved, NextRange, NoRange,
                SkipConflict, RangeExhausted, Place, vars, Fail
  <2> QED
    BY <2>1 DEF HandInv
<1> QED
  BY <1>1, <1>2, <1>3, <1>4 DEF Next

\* However many kernels are executed, each one's tree names the parking page
\* for the same CPUs, with the firmware out of it, and no segment of a load was
\* put on the page (graft_spin_table, load).
THEOREM ChainKeepsContract == Spec => ContractHandedOn
<1> DEFINE old == SpinTableContract(live)
           frame == PageAt(old.base)
           Kept == old.status = "ok" =>
              /\ SpinTableContract(live') = old
              /\ FirmwareIsOut(live')
              /\ {r \in live'.map : Overlaps(r, frame)} = {frame}
              /\ live'.memory = live.memory
              /\ \A s \in Seg : at[s] # None => ~Overlaps(Region(s), frame)
<1>1. Init => HandInv
  BY DEF Init, HandInv
<1>2. PlanInv /\ HandInv /\ Exec => Kept
  <2> SUFFICES ASSUME PlanInv, HandInv, Exec, old.status = "ok" PROVE Kept
    OBVIOUS
  <2>1. live' = tree /\ IsTree(live) /\ IsTree(tree) /\ HandsOn(live, tree)
    BY DEF Exec, PlanInv, TreeInv, HandInv
  <2>2. /\ SpinTableContract(tree) = old /\ FirmwareIsOut(tree)
        /\ {r \in tree.map : Overlaps(r, frame)} = {frame}
        /\ tree.memory = live.memory
    BY <2>1 DEF HandsOn
  <2>3. frame.start \in Nat /\ frame.end \in Nat /\ frame.start < frame.end
    BY <2>1, ContractFacts, PlanAssumption DEF PageAt, PhysRange
  <2>4. frame \in ReservedRanges(tree)
    <3>1. frame \in tree.map
      BY <2>2
    <3> QED
      BY <2>3, <3>1 DEF ReservedRanges, ReserveMapRanges
  <2>5. ASSUME NEW s \in Seg, at[s] # None, Overlaps(Region(s), frame) PROVE FALSE
    <3> DEFINE r == Region(s)
               x == IF r.start <= frame.start THEN frame.start ELSE r.start
    <3>1. /\ r.start \in Nat /\ r.end \in Nat /\ r.start < r.end
          /\ \A y \in r.start..(r.end - 1) : FreeRam(y)
      BY <2>5, SegmentIsFree
    <3> HIDE DEF r, frame
    <3>2. x \in r.start..(r.end - 1) /\ Within(x, frame)
      BY <2>3, <2>5, <3>1 DEF Overlaps, Within, r
    <3> QED
      BY <2>4, <3>1, <3>2 DEF FreeRam
  <2> QED
    BY <2>1, <2>2, <2>5
<1>3. PlanInv /\ HandInv /\ [Next]_vars => [Exec => Kept]_vars
  BY <1>2
<1>4. [][Exec => Kept]_vars => ContractHandedOn
  BY DEF ContractHandedOn
<1> QED
  BY InitPlan, NextPlan, HandStep, <1>1, <1>3, <1>4, PTL DEF Spec
-----------------------------------------------------------------------------
(* find_region misses nothing.                                             *)

\* A step that keeps the plan so far keeps what would fit.
LEMMA FitsFrame ==
  ASSUME PlanInv, UNCHANGED <<job, next, at, occupied, iomem, tree, usable>>
  PROVE  /\ \A a : Fits(a)' <=> Fits(a)
         /\ \A a, q : LiesIn(a, q)' <=> LiesIn(a, q)
         /\ Alignment(next)' = Alignment(next)
<1>1. \A x : FreeRam(x)' <=> FreeRam(x)
  BY FreeFrame
<1>2. /\ RegionSize(next)' = RegionSize(next) /\ Alignment(next)' = Alignment(next)
      /\ Lowest(next)' = Lowest(next) /\ Highest(next)' = Highest(next)
  BY DEF RegionSize, Alignment, Lowest, Highest, KernelEntry
<1> QED
  BY <1>1, <1>2 DEF Fits, LiesIn, MinOf

\* A place that fits lies in a free range, within the limits.
LEMMA FittingPlace ==
  ASSUME PlanInv, pc \in {"search", "try"}, NEW a, Fits(a)
  PROVE  /\ a \in Nat /\ a % Alignment(next) = 0 /\ a + RegionSize(next) <= Top
         /\ \E q \in usable : LiesIn(a, q)
         /\ \A q \in usable : LiesIn(a, q) =>
              /\ From(q) \in Nat /\ Upto(q) \in Nat
              /\ From(q) <= a /\ a + RegionSize(next) <= Upto(q)
<1>1. /\ Lowest(next) \in Nat /\ Highest(next) \in Nat /\ Top \in Nat
      /\ RegionSize(next) \in Nat \ {0}
  BY LimitFacts DEF PlanInv
<1>2. /\ a \in Nat /\ Lowest(next) <= a /\ a % Alignment(next) = 0
      /\ a + RegionSize(next) <= Highest(next) /\ a + RegionSize(next) <= Top
  BY <1>1 DEF Fits, MinOf
<1>3. Apart(usable) /\ \A x \in Int : FreeRam(x) => Covers(usable, x)
  BY DEF PlanInv, UsableInv, Planned
<1>4. \A x \in a..(a + RegionSize(next) - 1) : Covers(usable, x)
  <2> SUFFICES ASSUME NEW x \in a..(a + RegionSize(next) - 1) PROVE Covers(usable, x)
    OBVIOUS
  <2>1. x \in Int
    BY <1>1, <1>2
  <2>2. FreeRam(x)
    BY DEF Fits
  <2> QED
    BY <1>3, <2>1, <2>2
<1>5. \E q \in usable : LiesIn(a, q)
  BY <1>1, <1>2, <1>3, <1>4, StretchInOneRange DEF LiesIn
<1>6. ASSUME NEW q \in usable, LiesIn(a, q)
      PROVE  /\ From(q) \in Nat /\ Upto(q) \in Nat
             /\ From(q) <= a /\ a + RegionSize(next) <= Upto(q)
  <2>1. q.start \in Nat /\ q.end \in Nat
    BY <1>3, RangeFacts DEF Apart
  <2> QED
    BY <1>1, <1>2, <1>6, <2>1 DEF LiesIn, From, Upto, MaxOf, MinOf
<1> QED
  BY <1>2, <1>5, <1>6

\* find_region comes to the next range.
LEMMA SearchNextRange == ASSUME FindInv, NextRange PROVE SearchInv'
<1> USE DEF FindInv
<1>1. /\ pc = "search"
      /\ UNCHANGED <<live, iomem, job, tree, line, todo, usable, next, at, occupied, boots>>
  BY NextRangeStep
<1>2. PICK r \in Ahead :
        /\ \A q \in Ahead : r.start <= q.start
        /\ range' = r /\ r \in usable /\ From(r) \in Nat /\ Upto(r) \in Nat
        /\ cand' = AlignUp(From(r), Alignment(next))
        /\ \/ /\ From(r) + RegionSize(next) > Top
              /\ pc' = "idle" /\ result' = "nohole"
           \/ /\ From(r) + RegionSize(next) > Upto(r)
              /\ UNCHANGED <<pc, result>>
           \/ /\ From(r) + RegionSize(next) <= Upto(r)
              /\ From(r) + Alignment(next) - 1 > Top
              /\ pc' = "idle" /\ result' = "nohole"
           \/ /\ From(r) + RegionSize(next) <= Upto(r)
              /\ pc' = "try" /\ UNCHANGED result
  BY NextRangeStep
<1>3. /\ Lowest(next) \in Nat /\ Top \in Nat /\ RegionSize(next) \in Nat \ {0}
      /\ Alignment(next) \in Nat \ {0} /\ (Top + 1) % Alignment(next) = 0
  BY <1>1, LimitFacts DEF PlanInv
<1>4. /\ \A a : Fits(a)' <=> Fits(a)
      /\ \A a, q : LiesIn(a, q)' <=> LiesIn(a, q)
      /\ Alignment(next)' = Alignment(next)
  BY <1>1, FitsFrame
<1>5. /\ \A q \in usable : q.start \in Nat /\ q.end \in Nat
      /\ \A q \in usable : q.start = r.start => q = r
  BY <1>2, RangeFacts DEF PlanInv, UsableInv, Apart
<1>6. result = "none"
  BY <1>1 DEF PlanInv, JobInv
<1>7. ASSUME NEW a \in Nat, Fits(a), NEW q \in usable, LiesIn(a, q) PROVE q \in Ahead
  BY <1>1, <1>7 DEF SearchInv
<1>8. ASSUME NEW a, Fits(a)
      PROVE  /\ a \in Nat /\ a % Alignment(next) = 0 /\ a + RegionSize(next) <= Top
             /\ From(r) <= a
  <2>1. /\ a \in Nat /\ a % Alignment(next) = 0 /\ a + RegionSize(next) <= Top
    BY <1>1, <1>8, FittingPlace
  <2>2. PICK q \in usable : LiesIn(a, q) /\ From(q) <= a /\ From(q) \in Nat
    BY <1>1, <1>8, FittingPlace
  <2>3. q \in Ahead /\ r.start <= q.start
    BY <1>2, <1>7, <1>8, <2>1, <2>2
  <2> QED
    BY <1>2, <1>3, <1>5, <2>1, <2>2, <2>3 DEF From, MaxOf
<1>9. CASE From(r) + RegionSize(next) > Top /\ pc' = "idle" /\ result' = "nohole"
  <2>1. \A a : ~Fits(a)'
    BY <1>2, <1>3, <1>4, <1>8, <1>9
  <2> QED
    BY <1>9, <2>1 DEF SearchInv, NoFalseFailure, Fits
<1>10. CASE From(r) + RegionSize(next) > Upto(r) /\ UNCHANGED <<pc, result>>
  <2>1. ASSUME NEW a \in Nat, Fits(a), LiesIn(a, r) PROVE FALSE
    <3>1. From(r) <= a /\ a + RegionSize(next) <= Upto(r)
      BY <1>1, <1>2, <2>1, FittingPlace
    <3> QED
      BY <1>2, <1>3, <1>10, <2>1, <3>1
  <2>2. ASSUME NEW a \in Nat, Fits(a), NEW q \in usable, q \notin Ahead' PROVE ~LiesIn(a, q)
    <3>1. q.start <= r.start
      BY <1>1, <1>2, <1>5, <2>2 DEF Ahead
    <3> QED
      BY <1>2, <1>5, <1>7, <2>1, <2>2, <3>1
  <2> QED
    BY <1>1, <1>4, <1>6, <1>10, <2>2 DEF SearchInv, NoFalseFailure
<1>11. CASE /\ From(r) + Alignment(next) - 1 > Top
            /\ pc' = "idle" /\ result' = "nohole"
  <2>1. ASSUME NEW a, Fits(a) PROVE FALSE
    <3>1. a + Alignment(next) <= Top + 1
      BY <1>3, <1>8, <2>1, AlignedHasRoom
    <3> QED
      BY <1>2, <1>3, <1>8, <1>11, <2>1, <3>1
  <2>2. \A a : ~Fits(a)'
    BY <1>4, <2>1
  <2> QED
    BY <1>11, <2>2 DEF SearchInv, NoFalseFailure, Fits
<1>12. CASE /\ From(r) + RegionSize(next) <= Upto(r)
            /\ pc' = "try" /\ UNCHANGED result
  <2>1. ASSUME NEW a \in Nat, Fits(a), NEW q \in usable, q.start < r.start PROVE ~LiesIn(a, q)
    BY <1>2, <1>5, <1>7, <2>1
  <2>2. ASSUME NEW a \in Nat, Fits(a) PROVE cand' <= a
    BY <1>2, <1>3, <1>8, <2>2, AlignUpIsLeast
  <2>3. ASSUME NEW y \in Nat, y % Alignment(next) = 0, r.end <= y PROVE cand' <= y
    <3>1. From(r) <= y
      BY <1>2, <1>3, <1>5, <1>12, <2>3 DEF Upto, MinOf
    <3> QED
      BY <1>2, <1>3, <2>3, <3>1, AlignUpIsLeast
  <2> QED
    BY <1>1, <1>2, <1>4, <1>6, <1>12, <2>1, <2>2, <2>3 DEF SearchInv, NoFalseFailure
<1> QED
  BY <1>2, <1>9, <1>10, <1>11, <1>12

\* The search goes on behind a conflict.
LEMMA SearchSkipConflict == ASSUME FindInv, SkipConflict PROVE SearchInv'
<1> USE DEF FindInv
<1>1. /\ pc = "try" /\ Candidate.end <= Upto(range)
      /\ UNCHANGED <<iomem, job, tree, usable, next, range, at, occupied>>
  BY DEF SkipConflict
<1>2. PICK o \in Conflicts :
        /\ cand' = AlignUp(o.end, Alignment(next))
        /\ IF o.end + Alignment(next) - 1 > Top THEN Fail("nohole") ELSE UNCHANGED <<pc, result>>
  BY DEF SkipConflict
<1>3. /\ Lowest(next) \in Nat /\ Highest(next) \in Nat /\ Top \in Nat
      /\ RegionSize(next) \in Nat \ {0}
      /\ Alignment(next) \in Nat \ {0} /\ (Top + 1) % Alignment(next) = 0
  BY <1>1, LimitFacts DEF PlanInv
<1>4. /\ \A a : Fits(a)' <=> Fits(a)
      /\ \A a, q : LiesIn(a, q)' <=> LiesIn(a, q)
      /\ Alignment(next)' = Alignment(next)
  BY <1>1, FitsFrame
<1>5. /\ range \in usable /\ cand \in Nat /\ From(range) <= cand
      /\ Apart(usable) /\ result = "none"
  BY <1>1 DEF PlanInv, RangeInv, UsableInv, JobInv
<1>6. /\ \A q \in usable : q.start \in Nat /\ q.end \in Nat /\ q.start < q.end
      /\ \A q \in usable : q # range => q.end < range.start \/ range.end < q.start
  BY <1>5, RangeFacts DEF Apart
<1>7. /\ o \in occupied /\ o.start \in Nat /\ o.end \in Nat /\ o.start < o.end
      /\ o.start < cand + RegionSize(next) /\ cand < o.end
  BY OccupiedFacts DEF Conflicts, Overlaps, Candidate, PhysRange
<1>8. range.start <= cand /\ cand + RegionSize(next) <= range.end
  BY <1>1, <1>3, <1>5, <1>6 DEF From, Upto, MaxOf, MinOf, Candidate, PhysRange
<1>9. o.end <= range.end
  <2>1. PICK q \in usable : q.start <= o.start /\ o.end <= q.end
    BY <1>7, OccupiedFacts
  <2> QED
    BY <1>3, <1>5, <1>6, <1>7, <1>8, <2>1
<1>10. ASSUME NEW a, Fits(a)
       PROVE  a \in Nat /\ a % Alignment(next) = 0 /\ a + RegionSize(next) <= Top
              /\ (cand <= a => o.end <= a)
  <2>1. a \in Nat /\ a % Alignment(next) = 0 /\ a + RegionSize(next) <= Top
    BY <1>1, <1>10, FittingPlace
  <2>2. ASSUME cand <= a, a < o.end PROVE FALSE
    <3> DEFINE x == IF a < o.start THEN o.start ELSE a
    <3>1. x \in a..(a + RegionSize(next) - 1) /\ Within(x, o)
      BY <1>3, <1>5, <1>7, <2>1, <2>2 DEF Within
    <3> QED
      BY <1>7, <1>10, <3>1 DEF Fits
  <2> QED
    BY <1>7, <2>1, <2>2
<1>11. ASSUME NEW a, Fits(a) PROVE o.end <= a
  <2>1. PICK q \in usable : LiesIn(a, q)
    BY <1>1, <1>11, FittingPlace
  <2>2. a \in Nat /\ q.start >= range.start /\ (q = range => cand <= a)
    BY <1>1, <1>5, <1>6, <1>10, <1>11, <2>1 DEF SearchInv
  <2>3. CASE q = range
    BY <1>10, <1>11, <2>2, <2>3
  <2>4. CASE q # range
    BY <1>3, <1>5, <1>6, <1>7, <1>9, <2>1, <2>2, <2>4 DEF LiesIn
  <2> QED
    BY <2>3, <2>4
<1>12. CASE o.end + Alignment(next) - 1 > Top
  <2>1. ASSUME NEW a, Fits(a) PROVE FALSE
    <3>1. a \in Nat /\ a % Alignment(next) = 0 /\ a <= Top /\ o.end <= a
      BY <1>3, <1>10, <1>11, <2>1
    <3>2. a + Alignment(next) <= Top + 1
      BY <1>3, <3>1, AlignedHasRoom
    <3> QED
      BY <1>3, <1>7, <1>12, <3>1, <3>2
  <2>2. \A a : ~Fits(a)'
    BY <1>4, <2>1
  <2> QED
    BY <1>2, <1>12, <2>2 DEF Fail, SearchInv, NoFalseFailure, Fits
<1>13. CASE ~(o.end + Alignment(next) - 1 > Top)
  <2>1. pc' = "try" /\ result' = "none"
    BY <1>1, <1>2, <1>5, <1>13
  <2>2. ASSUME NEW a \in Nat, Fits(a) PROVE cand' <= a
    BY <1>2, <1>3, <1>7, <1>10, <1>11, <2>2, AlignUpIsLeast
  <2>3. ASSUME NEW y \in Nat, y % Alignment(next) = 0, range.end <= y PROVE cand' <= y
    <3>1. o.end <= y
      BY <1>5, <1>6, <1>7, <1>9, <2>3
    <3> QED
      BY <1>2, <1>3, <1>7, <2>3, <3>1, AlignUpIsLeast
  <2>4. \A a \in Nat : Fits(a) => \A q \in usable : q.start < range.start => ~LiesIn(a, q)
    BY <1>1 DEF SearchInv
  <2> QED
    BY <1>1, <1>4, <2>1, <2>2, <2>3, <2>4 DEF SearchInv, NoFalseFailure
<1> QED
  BY <1>12, <1>13

\* The search leaves a range.
LEMMA SearchRangeExhausted == ASSUME FindInv, RangeExhausted PROVE SearchInv'
<1> USE DEF FindInv
<1>1. /\ pc = "try" /\ Candidate.end > Upto(range)
      /\ IF Candidate.end > Top THEN Fail("nohole") ELSE pc' = "search" /\ UNCHANGED result
      /\ UNCHANGED <<iomem, job, tree, usable, next, range, at, occupied>>
  BY DEF RangeExhausted, planVars, searchVars
<1>2. /\ Top \in Nat /\ RegionSize(next) \in Nat \ {0}
  BY <1>1, LimitFacts DEF PlanInv
<1>3. /\ \A a : Fits(a)' <=> Fits(a)
      /\ \A a, q : LiesIn(a, q)' <=> LiesIn(a, q)
  BY <1>1, FitsFrame
<1>4. /\ range \in usable /\ cand \in Nat /\ Apart(usable) /\ result = "none"
  BY <1>1 DEF PlanInv, RangeInv, UsableInv, JobInv
<1>5. /\ \A q \in usable : q.start \in Nat /\ q.end \in Nat /\ q.start < q.end
      /\ \A q \in usable : q # range => q.end < range.start \/ range.end < q.start
  BY <1>4, RangeFacts DEF Apart
<1>6. Candidate.end = cand + RegionSize(next)
  BY DEF Candidate, PhysRange
<1>7. ASSUME NEW a \in Nat, Fits(a), NEW q \in usable, LiesIn(a, q) PROVE range.end < q.start
  <2>1. CASE q = range
    <3>1. cand <= a /\ a + RegionSize(next) <= Upto(range) /\ Upto(range) \in Nat
      BY <1>1, <1>4, <1>7, <2>1, FittingPlace DEF SearchInv
    <3> QED
      BY <1>1, <1>2, <1>4, <1>6, <3>1
  <2>2. CASE q # range
    <3>1. q.start >= range.start
      BY <1>1, <1>4, <1>5, <1>7 DEF SearchInv
    <3> QED
      BY <1>4, <1>5, <2>2, <3>1
  <2> QED
    BY <2>1, <2>2
<1>8. CASE Candidate.end > Top
  <2>1. ASSUME NEW a, Fits(a) PROVE FALSE
    <3>1. a \in Nat /\ a % Alignment(next) = 0 /\ a + RegionSize(next) <= Top
      BY <1>1, <2>1, FittingPlace
    <3>2. PICK q \in usable : LiesIn(a, q)
      BY <1>1, <2>1, FittingPlace
    <3>3. range.end <= a
      BY <1>4, <1>5, <1>7, <2>1, <3>1, <3>2 DEF LiesIn
    <3>4. cand <= a
      BY <1>1, <3>1, <3>3 DEF SearchInv
    <3> QED
      BY <1>2, <1>4, <1>6, <1>8, <3>1, <3>4
  <2>2. \A a : ~Fits(a)'
    BY <1>3, <2>1
  <2> QED
    BY <1>1, <1>8, <2>2 DEF Fail, SearchInv, NoFalseFailure, Fits
<1>9. CASE ~(Candidate.end > Top)
  <2>1. pc' = "search" /\ result' = "none"
    BY <1>1, <1>4, <1>9
  <2>2. range # None
    BY <1>4, PlanAssumption DEF Apart
  <2>3. ASSUME NEW a \in Nat, Fits(a), NEW q \in usable, q \notin Ahead' PROVE ~LiesIn(a, q)
    <3>1. q.start <= range.start
      BY <1>1, <1>4, <1>5, <2>2, <2>3 DEF Ahead
    <3> QED
      BY <1>4, <1>5, <1>7, <2>3, <3>1
  <2> QED
    BY <1>1, <1>3, <2>1, <2>3 DEF SearchInv, NoFalseFailure
<1> QED
  BY <1>8, <1>9

\* Every step of a load keeps what has been ruled out ruled out.
LEMMA NextFind == FindInv /\ [Next]_vars => FindInv'
<1> SUFFICES ASSUME FindInv, [Next]_vars PROVE SearchInv'
  BY NextPlan DEF FindInv
<1> USE DEF FindInv, PlanInv
<1>1. CASE Load \/ Exec
  BY <1>1 DEF Load, Exec, Fail, SearchInv, NoFalseFailure
<1>2. CASE ParseLine \/ IomemRead \/ Reserve
  <2>1. /\ pc \in {"iomem", "reserve"} /\ pc' \notin {"search", "try"}
        /\ result' = result \/ result' = "refused"
    BY <1>2 DEF ParseLine, IomemRead, Reserve, Fail
  <2> QED
    BY <2>1 DEF JobInv, SearchInv, NoFalseFailure
<1>3. CASE Reserved
  <2>1. /\ pc = "reserve" /\ range' = None /\ pc' # "try"
        /\ result' = result \/ result' = "refused"
    BY <1>3 DEF Reserved, planVars, searchVars, Fail, RangeInv
  <2>2. result' # "nohole"
    BY <2>1 DEF JobInv
  <2> QED
    BY <2>1, <2>2 DEF SearchInv, NoFalseFailure, Ahead
<1>4. CASE NextRange
  BY <1>4, SearchNextRange
<1>5. CASE NoRange
  <2>1. /\ pc = "search" /\ pc' = "idle" /\ (DtbTooLarge \/ Ahead = {})
        /\ result' = IF DtbTooLarge THEN "refused" ELSE "nohole"
        /\ UNCHANGED <<iomem, job, tree, usable, next, at, occupied>>
    BY <1>5 DEF NoRange, Fail, planVars
  <2>2. ASSUME NEW a, Fits(a), Ahead = {} PROVE FALSE
    BY <2>1, <2>2, FittingPlace DEF SearchInv
  <2>3. \A a : Fits(a)' <=> Fits(a)
    BY <2>1, FitsFrame
  <2> QED
    BY <2>1, <2>2, <2>3 DEF SearchInv, NoFalseFailure, Fits
<1>6. CASE SkipConflict
  BY <1>6, SearchSkipConflict
<1>7. CASE RangeExhausted
  BY <1>7, SearchRangeExhausted
<1>8. CASE Place
  <2>1. pc' # "try" /\ range' = None /\ result' = "none"
    BY <1>8 DEF Place, JobInv
  <2> QED
    BY <2>1 DEF SearchInv, NoFalseFailure, Ahead
<1>9. CASE KexecLoad
  BY <1>9 DEF KexecLoad, SearchInv, NoFalseFailure
<1>10. CASE UNCHANGED vars
  <2>1. UNCHANGED <<iomem, job, tree, usable, next, at, occupied, pc, range, cand, result>>
    BY <1>10 DEF vars, planVars, searchVars
  <2>2. /\ \A a : Fits(a)' <=> Fits(a)
        /\ \A a, q : LiesIn(a, q)' <=> LiesIn(a, q)
        /\ Alignment(next)' = Alignment(next)
    BY <2>1, FitsFrame
  <2>3. Ahead' = Ahead
    BY <2>1 DEF Ahead
  <2> QED
    BY <2>1, <2>2, <2>3 DEF SearchInv, NoFalseFailure, Fits
<1> QED
  BY <1>1, <1>2, <1>3, <1>4, <1>5, <1>6, <1>7, <1>8, <1>9, <1>10 DEF Next

\* find_region reports that there is no hole only when no aligned address
\* inside the limits would have done, overflow of an address included.
THEOREM HolesAreFound == Spec => []NoFalseFailure
<1>1. Init => FindInv
  BY InitPlan DEF Init, FindInv, SearchInv, NoFalseFailure
<1>2. FindInv => NoFalseFailure
  BY DEF FindInv, SearchInv
<1> QED
  BY <1>1, <1>2, NextFind, PTL DEF Spec

-----------------------------------------------------------------------------
(***************************************************************************)
(* The CPUs that are handed on: safety of the parking protocol for any     *)
(* number of secondaries and any token width (MaxEpochAssumption).         *)
(*                                                                         *)
(* The properties are not inductive: that an acknowledgment of the current *)
(* epoch proves a secondary parked depends on which steps the primary has  *)
(* taken. PhaseInv states, for each phase of the primary, where each       *)
(* secondary can be; SlotInv ties a secondary's position to its slot.      *)
(***************************************************************************)

\* The secondary can run the primary's kernel.
Fit(c) == cpu_el[c] = prim_el /\ smpen[c] = TRUE

\* What a secondary's own progress says about its slot.
SlotInv(c) ==
    /\ cpu[c] # "old"
    /\ Parking!InPage(c) \/ cpu[c] = "dying" =>
         page = "resident" /\ release[c] # "old"
    /\ cpu[c] = "report" => token[c] = request[c]
    /\ cpu[c] \in {"wait", "kernel"} => ack[c] = request[c]
    /\ cpu[c] \in {"report", "wait"} => el[c] = cpu_el[c] /\ snap[c] = smpen[c]

\* Where a secondary is while the primary starts the machine.
StartInv(c) ==
    /\ prim \in {"firmware", "preboot", "install"} => c \notin started
    /\ prim \in {"firmware", "install"} => cpu[c] \in {"reset", "other"}
    /\ prim = "preboot" =>
         /\ cpu[c] \in {"reset", "other", "wait"}
         /\ cpu[c] = "wait" => release[c] = "zero" /\ Fit(c)
    /\ prim \in {"start", "waitack"} =>
         /\ page = "resident" /\ release[c] = "zero" /\ request[c] = 1
         /\ c \notin started => ack[c] = 0 /\ cpu[c] \in {"reset", "other"}
         /\ c \in started /\ ~(prim = "waitack" /\ c = victim) =>
              cpu[c] = "wait" /\ Fit(c)
         /\ c \in started /\ cpu[c] # "wait" => ack[c] = 0
         /\ c \in started => cpu[c] \in {"reset", "enter", "report", "wait", "halt"}

\* Where a secondary is while a kernel runs on the primary.
KernelInv(c) ==
    /\ prim = "kernel" =>
         /\ epoch[c] = 0
         /\ cpu[c] \in {"reset", "other", "wait", "kernel"}
         /\ cpu[c] \in {"wait", "kernel"} => Fit(c) /\ page = "resident"
    /\ prim \in {"shutdown", "killing", "relocate"} /\ epoch[c] = 0 =>
         cpu[c] = "kernel" /\ Fit(c) /\ page = "resident"
    /\ prim \in {"shutdown", "killing", "relocate"} /\ epoch[c] # 0 =>
         /\ epoch[c] = request[c] /\ release[c] = "zero" /\ page = "resident"
         /\ cpu[c] \in {"dying", "enter", "report", "wait", "halt"}
         /\ cpu[c] # "halt" => Fit(c)
         /\ ack[c] = request[c] => cpu[c] = "wait"
    /\ prim = "relocate" => epoch[c] # 0 /\ ack[c] = epoch[c]

PhaseInv == \A c \in Secondary : SlotInv(c) /\ StartInv(c) /\ KernelInv(c)

ParkingInv == Parking!TypeOK /\ PhaseInv

-----------------------------------------------------------------------------

\* The initial states have the right types: a machine that has just been
\* powered on.
LEMMA ParkingInitType ==
  Parking!Init => Parking!TypeOK
  BY MaxEpochAssumption
     DEF Parking!Init, Parking!TypeOK, Parking!Prim, Parking!CpuState, Parking!EL, Parking!Zero

\* Every step of preboot, resident code and kernel keeps the types; tokens
\* stay in range because cpu_disable refuses to go past U64_MAX.
LEMMA ParkingNextType ==
  Parking!TypeOK /\ [Parking!Next]_Parking!vars => Parking!TypeOK'
<1> SUFFICES ASSUME Parking!TypeOK, [Parking!Next]_Parking!vars PROVE Parking!TypeOK'
  OBVIOUS
<1> USE MaxEpochAssumption
    DEF Parking!TypeOK, Parking!Prim, Parking!CpuState, Parking!EL, Parking!primVars, Parking!pageVars,
        Parking!slotVars, Parking!cpuVars
<1>1. CASE Parking!Reset
  BY <1>1 DEF Parking!Reset, Parking!Forget, Parking!Zero
<1>2. CASE Parking!EnterPreboot
  BY <1>2 DEF Parking!EnterPreboot
<1>3. CASE Parking!PrebootRejects
  BY <1>3 DEF Parking!PrebootRejects, Parking!Halt
<1>4. CASE Parking!AckTimeout
  BY <1>4 DEF Parking!AckTimeout, Parking!Halt
<1>5. CASE Parking!ReuseResident
  BY <1>5 DEF Parking!ReuseResident, Parking!Halt, Parking!Zero
<1>6. CASE Parking!CheckPage
  BY <1>6 DEF Parking!CheckPage, Parking!Halt
<1>7. CASE Parking!InstallPage
  BY <1>7 DEF Parking!InstallPage, Parking!Zero
<1>8. CASE Parking!SeeStartAck
  BY <1>8 DEF Parking!SeeStartAck, Parking!Halt
<1>9. CASE Parking!EnterKernel
  BY <1>9 DEF Parking!EnterKernel, Parking!Zero
<1>10. CASE Parking!KexecShutdown
  BY <1>10 DEF Parking!KexecShutdown
<1>11. CASE Parking!CpuKill
  BY <1>11 DEF Parking!CpuKill
<1>12. CASE Parking!KexecVerify
  BY <1>12 DEF Parking!KexecVerify, Parking!Halt
<1>13. CASE Parking!KexecJump
  BY <1>13 DEF Parking!KexecJump, Parking!Forget, Parking!Zero
<1>14. ASSUME NEW c \in Secondary, Parking!StartCpu(c) PROVE Parking!TypeOK'
  BY <1>14 DEF Parking!StartCpu
<1>15. ASSUME NEW c \in Secondary, Parking!EntryRefused(c) PROVE Parking!TypeOK'
  BY <1>15 DEF Parking!EntryRefused
<1>16. ASSUME NEW c \in Secondary, Parking!Report(c) PROVE Parking!TypeOK'
  BY <1>16 DEF Parking!Report
<1>17. ASSUME NEW c \in Secondary, Parking!Acknowledge(c) PROVE Parking!TypeOK'
  BY <1>17 DEF Parking!Acknowledge
<1>18. ASSUME NEW c \in Secondary, Parking!Released(c) PROVE Parking!TypeOK'
  BY <1>18 DEF Parking!Released
<1>19. ASSUME NEW c \in Secondary, Parking!CpuPrepare(c) PROVE Parking!TypeOK'
  BY <1>19 DEF Parking!CpuPrepare
<1>20. ASSUME NEW c \in Secondary, Parking!CpuDisable(c) PROVE Parking!TypeOK'
  BY <1>20 DEF Parking!CpuDisable
<1>21. ASSUME NEW c \in Secondary, Parking!CpuDie(c) PROVE Parking!TypeOK'
  BY <1>21 DEF Parking!CpuDie
<1>22. CASE UNCHANGED Parking!vars
  BY <1>22 DEF Parking!vars
<1> QED
  BY <1>1, <1>2, <1>3, <1>4, <1>5, <1>6, <1>7, <1>8, <1>9, <1>10, <1>11,
     <1>12, <1>13, <1>14, <1>15, <1>16, <1>17, <1>18, <1>19, <1>20, <1>21,
     <1>22
     DEF Parking!Next, Parking!Preboot, Parking!Shutdown, Parking!Resident

-----------------------------------------------------------------------------

\* On power-on no secondary is in the page or in a kernel.
LEMMA ParkingInitPhase == Parking!Init => PhaseInv
  BY DEF Parking!Init, PhaseInv, SlotInv, StartInv, KernelInv, Parking!InPage

\* Every step keeps every secondary where the phase of the primary says.
LEMMA ParkingNextPhase ==
  ParkingInv /\ [Parking!Next]_Parking!vars => PhaseInv'
<1> SUFFICES ASSUME ParkingInv, [Parking!Next]_Parking!vars, NEW d \in Secondary
             PROVE  (SlotInv(d) /\ StartInv(d) /\ KernelInv(d))'
  BY DEF PhaseInv
<1> USE MaxEpochAssumption
    DEF ParkingInv, PhaseInv, Parking!TypeOK, Parking!Prim, Parking!CpuState, Parking!EL,
        Parking!primVars, Parking!pageVars, Parking!slotVars, Parking!cpuVars, Parking!InPage, Fit
<1>1. CASE Parking!Reset
  <2>1. SlotInv(d)'
    BY <1>1 DEF Parking!Reset, Parking!Forget, Parking!Zero, SlotInv, StartInv, KernelInv
  <2>2. StartInv(d)'
    BY <1>1 DEF Parking!Reset, Parking!Forget, Parking!Zero, SlotInv, StartInv, KernelInv
  <2>3. KernelInv(d)'
    BY <1>1 DEF Parking!Reset, Parking!Forget, Parking!Zero, SlotInv, StartInv, KernelInv
  <2> QED
    BY <2>1, <2>2, <2>3
<1>2. CASE Parking!EnterPreboot
  <2>1. SlotInv(d)'
    BY <1>2 DEF Parking!EnterPreboot, SlotInv, StartInv, KernelInv
  <2>2. StartInv(d)'
    BY <1>2 DEF Parking!EnterPreboot, SlotInv, StartInv, KernelInv
  <2>3. KernelInv(d)'
    BY <1>2 DEF Parking!EnterPreboot, SlotInv, StartInv, KernelInv
  <2> QED
    BY <2>1, <2>2, <2>3
<1>3. CASE Parking!PrebootRejects
  <2>1. SlotInv(d)'
    BY <1>3 DEF Parking!PrebootRejects, Parking!Halt, SlotInv, StartInv, KernelInv
  <2>2. StartInv(d)'
    BY <1>3 DEF Parking!PrebootRejects, Parking!Halt, SlotInv, StartInv, KernelInv
  <2>3. KernelInv(d)'
    BY <1>3 DEF Parking!PrebootRejects, Parking!Halt, SlotInv, StartInv, KernelInv
  <2> QED
    BY <2>1, <2>2, <2>3
<1>4. CASE Parking!AckTimeout
  <2>1. SlotInv(d)'
    BY <1>4 DEF Parking!AckTimeout, Parking!Halt, SlotInv, StartInv, KernelInv
  <2>2. StartInv(d)'
    BY <1>4 DEF Parking!AckTimeout, Parking!Halt, SlotInv, StartInv, KernelInv
  <2>3. KernelInv(d)'
    BY <1>4 DEF Parking!AckTimeout, Parking!Halt, SlotInv, StartInv, KernelInv
  <2> QED
    BY <2>1, <2>2, <2>3
<1>5. CASE Parking!ReuseResident
  <2>1. SlotInv(d)'
    BY <1>5 DEF Parking!ReuseResident, Parking!Halt, Parking!Zero, SlotInv, StartInv, KernelInv
  <2>2. StartInv(d)'
    BY <1>5 DEF Parking!ReuseResident, Parking!Halt, Parking!Zero, SlotInv, StartInv, KernelInv
  <2>3. KernelInv(d)'
    BY <1>5 DEF Parking!ReuseResident, Parking!Halt, Parking!Zero, SlotInv, StartInv, KernelInv
  <2> QED
    BY <2>1, <2>2, <2>3
<1>6. CASE Parking!CheckPage
  <2>1. SlotInv(d)'
    BY <1>6 DEF Parking!CheckPage, Parking!Halt, Parking!HeldInReset, SlotInv, StartInv, KernelInv
  <2>2. StartInv(d)'
    BY <1>6 DEF Parking!CheckPage, Parking!Halt, Parking!HeldInReset, SlotInv, StartInv, KernelInv
  <2>3. KernelInv(d)'
    BY <1>6 DEF Parking!CheckPage, Parking!Halt, Parking!HeldInReset, SlotInv, StartInv, KernelInv
  <2> QED
    BY <2>1, <2>2, <2>3
<1>7. CASE Parking!InstallPage
  <2>1. SlotInv(d)'
    BY <1>7 DEF Parking!InstallPage, Parking!Zero, SlotInv, StartInv, KernelInv
  <2>2. StartInv(d)'
    BY <1>7 DEF Parking!InstallPage, Parking!Zero, SlotInv, StartInv, KernelInv
  <2>3. KernelInv(d)'
    BY <1>7 DEF Parking!InstallPage, Parking!Zero, SlotInv, StartInv, KernelInv
  <2> QED
    BY <2>1, <2>2, <2>3
<1>8. CASE Parking!SeeStartAck
  <2>1. SlotInv(d)'
    BY <1>8 DEF Parking!SeeStartAck, Parking!Halt, SlotInv, StartInv, KernelInv
  <2>2. StartInv(d)'
    BY <1>8 DEF Parking!SeeStartAck, Parking!Halt, SlotInv, StartInv, KernelInv
  <2>3. KernelInv(d)'
    BY <1>8 DEF Parking!SeeStartAck, Parking!Halt, SlotInv, StartInv, KernelInv
  <2> QED
    BY <2>1, <2>2, <2>3
<1>9. CASE Parking!EnterKernel
  <2>1. SlotInv(d)'
    BY <1>9 DEF Parking!EnterKernel, Parking!Zero, SlotInv, StartInv, KernelInv
  <2>2. StartInv(d)'
    BY <1>9 DEF Parking!EnterKernel, Parking!Zero, SlotInv, StartInv, KernelInv
  <2>3. KernelInv(d)'
    BY <1>9 DEF Parking!EnterKernel, Parking!Zero, SlotInv, StartInv, KernelInv
  <2> QED
    BY <2>1, <2>2, <2>3
<1>10. CASE Parking!KexecShutdown
  <2>1. SlotInv(d)'
    BY <1>10 DEF Parking!KexecShutdown, Parking!KexecAllowed, SlotInv, StartInv, KernelInv
  <2>2. StartInv(d)'
    BY <1>10 DEF Parking!KexecShutdown, Parking!KexecAllowed, SlotInv, StartInv, KernelInv
  <2>3. KernelInv(d)'
    BY <1>10 DEF Parking!KexecShutdown, Parking!KexecAllowed, SlotInv, StartInv, KernelInv
  <2> QED
    BY <2>1, <2>2, <2>3
<1>11. CASE Parking!CpuKill
  <2>1. SlotInv(d)'
    BY <1>11 DEF Parking!CpuKill, SlotInv, StartInv, KernelInv
  <2>2. StartInv(d)'
    BY <1>11 DEF Parking!CpuKill, SlotInv, StartInv, KernelInv
  <2>3. KernelInv(d)'
    BY <1>11 DEF Parking!CpuKill, SlotInv, StartInv, KernelInv
  <2> QED
    BY <2>1, <2>2, <2>3
<1>12. CASE Parking!KexecVerify
  <2>1. SlotInv(d)'
    BY <1>12 DEF Parking!KexecVerify, Parking!Halt, SlotInv, StartInv, KernelInv
  <2>2. StartInv(d)'
    BY <1>12 DEF Parking!KexecVerify, Parking!Halt, SlotInv, StartInv, KernelInv
  <2>3. KernelInv(d)'
    BY <1>12 DEF Parking!KexecVerify, Parking!Halt, SlotInv, StartInv, KernelInv
  <2> QED
    BY <2>1, <2>2, <2>3
<1>13. CASE Parking!KexecJump
  <2>1. SlotInv(d)'
    BY <1>13 DEF Parking!KexecJump, Parking!Forget, Parking!Zero, SlotInv, StartInv, KernelInv
  <2>2. StartInv(d)'
    BY <1>13 DEF Parking!KexecJump, Parking!Forget, Parking!Zero, SlotInv, StartInv, KernelInv
  <2>3. KernelInv(d)'
    BY <1>13 DEF Parking!KexecJump, Parking!Forget, Parking!Zero, SlotInv, StartInv, KernelInv
  <2> QED
    BY <2>1, <2>2, <2>3
<1>14. ASSUME NEW c \in Secondary, Parking!StartCpu(c)
      PROVE  (SlotInv(d) /\ StartInv(d) /\ KernelInv(d))'
  <2>1. SlotInv(d)'
    BY <1>14 DEF Parking!StartCpu, SlotInv, StartInv, KernelInv
  <2>2. StartInv(d)'
    BY <1>14 DEF Parking!StartCpu, SlotInv, StartInv, KernelInv
  <2>3. KernelInv(d)'
    BY <1>14 DEF Parking!StartCpu, SlotInv, StartInv, KernelInv
  <2> QED
    BY <2>1, <2>2, <2>3
<1>15. ASSUME NEW c \in Secondary, Parking!EntryRefused(c)
      PROVE  (SlotInv(d) /\ StartInv(d) /\ KernelInv(d))'
  <2>1. SlotInv(d)'
    BY <1>15 DEF Parking!EntryRefused, SlotInv, StartInv, KernelInv
  <2>2. StartInv(d)'
    BY <1>15 DEF Parking!EntryRefused, SlotInv, StartInv, KernelInv
  <2>3. KernelInv(d)'
    BY <1>15 DEF Parking!EntryRefused, SlotInv, StartInv, KernelInv
  <2> QED
    BY <2>1, <2>2, <2>3
<1>16. ASSUME NEW c \in Secondary, Parking!Report(c)
      PROVE  (SlotInv(d) /\ StartInv(d) /\ KernelInv(d))'
  <2>1. SlotInv(d)'
    BY <1>16 DEF Parking!Report, SlotInv, StartInv, KernelInv
  <2>2. StartInv(d)'
    BY <1>16 DEF Parking!Report, SlotInv, StartInv, KernelInv
  <2>3. KernelInv(d)'
    BY <1>16 DEF Parking!Report, SlotInv, StartInv, KernelInv
  <2> QED
    BY <2>1, <2>2, <2>3
<1>17. ASSUME NEW c \in Secondary, Parking!Acknowledge(c)
      PROVE  (SlotInv(d) /\ StartInv(d) /\ KernelInv(d))'
  <2>1. SlotInv(d)'
    BY <1>17 DEF Parking!Acknowledge, SlotInv, StartInv, KernelInv
  <2>2. StartInv(d)'
    BY <1>17 DEF Parking!Acknowledge, SlotInv, StartInv, KernelInv
  <2>3. KernelInv(d)'
    BY <1>17 DEF Parking!Acknowledge, SlotInv, StartInv, KernelInv
  <2> QED
    BY <2>1, <2>2, <2>3
<1>18. ASSUME NEW c \in Secondary, Parking!Released(c)
      PROVE  (SlotInv(d) /\ StartInv(d) /\ KernelInv(d))'
  <2>1. SlotInv(d)'
    BY <1>18 DEF Parking!Released, SlotInv, StartInv, KernelInv
  <2>2. StartInv(d)'
    BY <1>18 DEF Parking!Released, SlotInv, StartInv, KernelInv
  <2>3. KernelInv(d)'
    BY <1>18 DEF Parking!Released, SlotInv, StartInv, KernelInv
  <2> QED
    BY <2>1, <2>2, <2>3
<1>19. ASSUME NEW c \in Secondary, Parking!CpuPrepare(c)
      PROVE  (SlotInv(d) /\ StartInv(d) /\ KernelInv(d))'
  <2>1. SlotInv(d)'
    BY <1>19 DEF Parking!CpuPrepare, SlotInv, StartInv, KernelInv
  <2>2. StartInv(d)'
    BY <1>19 DEF Parking!CpuPrepare, SlotInv, StartInv, KernelInv
  <2>3. KernelInv(d)'
    BY <1>19 DEF Parking!CpuPrepare, SlotInv, StartInv, KernelInv
  <2> QED
    BY <2>1, <2>2, <2>3
<1>20. ASSUME NEW c \in Secondary, Parking!CpuDisable(c)
      PROVE  (SlotInv(d) /\ StartInv(d) /\ KernelInv(d))'
  <2>1. SlotInv(d)'
    BY <1>20 DEF Parking!CpuDisable, SlotInv, StartInv, KernelInv
  <2>2. StartInv(d)'
    BY <1>20 DEF Parking!CpuDisable, SlotInv, StartInv, KernelInv
  <2>3. KernelInv(d)'
    BY <1>20 DEF Parking!CpuDisable, SlotInv, StartInv, KernelInv
  <2> QED
    BY <2>1, <2>2, <2>3
<1>21. ASSUME NEW c \in Secondary, Parking!CpuDie(c)
      PROVE  (SlotInv(d) /\ StartInv(d) /\ KernelInv(d))'
  <2>1. SlotInv(d)'
    BY <1>21 DEF Parking!CpuDie, SlotInv, StartInv, KernelInv
  <2>2. StartInv(d)'
    BY <1>21 DEF Parking!CpuDie, SlotInv, StartInv, KernelInv
  <2>3. KernelInv(d)'
    BY <1>21 DEF Parking!CpuDie, SlotInv, StartInv, KernelInv
  <2> QED
    BY <2>1, <2>2, <2>3
<1>22. CASE UNCHANGED Parking!vars
  BY <1>22 DEF Parking!vars, SlotInv, StartInv, KernelInv
<1> QED
  BY <1>1, <1>2, <1>3, <1>4, <1>5, <1>6, <1>7, <1>8, <1>9, <1>10, <1>11,
     <1>12, <1>13, <1>14, <1>15, <1>16, <1>17, <1>18, <1>19, <1>20, <1>21,
     <1>22
     DEF Parking!Next, Parking!Preboot, Parking!Shutdown, Parking!Resident

-----------------------------------------------------------------------------

\* The strengthened invariant holds in every reachable state.
THEOREM ParkingInvariance == Parking!Spec => []ParkingInv
<1>1. Parking!Init => ParkingInv
  BY ParkingInitType, ParkingInitPhase DEF ParkingInv
<1>2. ParkingInv /\ [Parking!Next]_Parking!vars => ParkingInv'
  BY ParkingNextType, ParkingNextPhase DEF ParkingInv
<1> QED
  BY <1>1, <1>2, PTL DEF Parking!Spec

\* The types hold for ever, so no request token passes U64_MAX however many
\* kexecs the machine goes through.
THEOREM ParkingTypeCorrect == Parking!Spec => []Parking!TypeOK
<1>1. ParkingInv => Parking!TypeOK
  BY DEF ParkingInv
<1> QED
  BY ParkingInvariance, <1>1, PTL

\* Preboot never rewrites the parking page under a secondary that executes
\* from it: a parked secondary is not held in reset, and a fresh start has
\* none in the page (init_spin_table).
THEOREM LiveCodeSafe == Parking!Spec => []LiveCodeNeverOverwritten
<1>1. ParkingInv => LiveCodeNeverOverwritten
  BY DEF ParkingInv, PhaseInv, StartInv, LiveCodeNeverOverwritten,
         Parking!LiveCodeNeverOverwritten, Parking!InPage
<1> QED
  BY ParkingInvariance, <1>1, PTL

\* When kexec starts to overwrite the old kernel, every secondary polls in the
\* page on an empty slot: the acknowledgment of an epoch that nobody could have
\* acknowledged earlier proves it (smp_spin_table_kexec_verify).
THEOREM RelocationSafe == Parking!Spec => []RelocationIsSafe
<1>1. ParkingInv => RelocationIsSafe
  BY DEF ParkingInv, PhaseInv, KernelInv, RelocationIsSafe, Parking!RelocationIsSafe
<1> QED
  BY ParkingInvariance, <1>1, PTL

\* No secondary ever executes a kernel whose memory was given away.
THEOREM StaleKernelNeverRuns == Parking!Spec => []NoStaleKernelRuns
<1>1. ParkingInv => NoStaleKernelRuns
  BY DEF ParkingInv, PhaseInv, SlotInv, NoStaleKernelRuns, Parking!NoStaleKernelRuns, Parking!InPage
<1> QED
  BY ParkingInvariance, <1>1, PTL

\* A secondary that runs the kernel is coherent and at the primary's exception
\* level, on a cold start and after any number of handoffs.
THEOREM KernelCoherent == Parking!Spec => []KernelCpusAreCoherent
<1>1. ParkingInv => KernelCpusAreCoherent
  BY DEF ParkingInv, Parking!TypeOK, PhaseInv, KernelInv, KernelCpusAreCoherent,
         Parking!KernelCpusAreCoherent, Fit, Parking!InPage
<1> QED
  BY ParkingInvariance, <1>1, PTL
=============================================================================
