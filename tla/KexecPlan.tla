------------------------------ MODULE KexecPlan ------------------------------
(***************************************************************************)
(* KexecImage::load on arm64 (src/kexec.rs): the tree of the next kernel   *)
(* is made, the RAM that may be overwritten is read from /proc/iomem and   *)
(* from the tree's reservations, each segment is placed in the first hole  *)
(* that fits, and the kernel is executed. The next kernel may run this     *)
(* program again, with the tree it was given as its live tree.             *)
(*                                                                         *)
(* Addresses are in pages. The code keeps usable RAM in a vector sorted by *)
(* address; disjoint ranges in a set, visited in that order, are the same. *)
(***************************************************************************)
EXTENDS FdtGraft

CONSTANTS
    Top,            \* the largest u64, in pages
    SZ_2M, SZ_1G, SZ_32G,
    Listings,       \* contents /proc/iomem may have
    FirstTrees,     \* trees the running kernel may have got from its loader
    Dtbs,           \* trees a boot entry may supply
    Kernels,        \* [text, memsz]: text_offset and page-aligned size
    InitrdSizes,    \* 0: no initrd
    DtbSizes,       \* of the patched tree
    Cmdlines,
    MaxBoots        \* bound: kernels executed

Seg == {"kernel", "initrd", "dtb", "trampoline"}

PhysRanges == {r \in [start : Nat, end : Nat] : r.start < r.end}

(* The nodes below /reserved-memory, named by their unit address. *)
Node == [name : Nat, compat : {"v1", "v2", "other"}, enabled : BOOLEAN, nomap : BOOLEAN,
         reusable : BOOLEAN, ranges : Seq([start : Nat, end : Nat])]
Resv == [ok : BOOLEAN, nodes : SUBSET Node]

(* Sizes are at least a page; 2^64 is a multiple of 2 MiB. *)
ASSUME PlanAssumption ==
    /\ {Top, SZ_2M, SZ_1G, SZ_32G, PageBytes} \subseteq Nat \ {0}
    /\ (Top + 1) % SZ_2M = 0
    /\ None \notin Int \cup PhysRanges \cup Resv
    /\ Kernels \subseteq [text : Nat, memsz : Nat \ {0}]
    /\ InitrdSizes \subseteq Nat /\ DtbSizes \subseteq Nat \ {0} /\ MaxBoots \in Nat

(* Lines of which PhysRange::new makes no range are not parsed. *)
ASSUME ListingAssumption ==
    \A l \in Listings : l \in Seq([range : PhysRanges, name : STRING])

(* The nodes of a tree; ranges without a size may be among its reservations. *)
IsCpu(c) ==
    /\ c = [mpidr |-> c.mpidr, enabled |-> c.enabled, method |-> c.method,
            release |-> c.release, idle |-> c.idle, domains |-> c.domains, names |-> c.names]
    /\ c.domains \in Seq(Nat)

IsTree(t) ==
    /\ t = [bootcpu |-> t.bootcpu, map |-> t.map, memory |-> t.memory, cpus |-> t.cpus,
            resv |-> t.resv, providers |-> t.providers, psci |-> t.psci, idle |-> t.idle,
            chosen |-> t.chosen]
    /\ t.map \subseteq [start : Nat, end : Nat]
    /\ \A c \in t.cpus : IsCpu(c)
    /\ t.resv # None => t.resv \in Resv /\ IsFiniteSet(t.resv.nodes)

ASSUME TreeAssumption == \A t \in FirstTrees \cup Dtbs : IsTree(t)

VARIABLES
    live,           \* /sys/firmware/fdt
    iomem,          \* /proc/iomem
    pc,             \* "idle", "iomem", "reserve", "search", "try", "placed", "loaded"
    job,            \* the image: [kernel, initrd, dtb, cmdline]
    tree,           \* the tree of the next kernel
    line,           \* lines of iomem parsed
    todo,           \* reservations not yet subtracted
    usable,         \* free ranges
    next,           \* the segment being placed
    range,          \* the range find_region looks at, or None
    cand,           \* its candidate address
    at,             \* where a segment was placed, or None
    occupied,       \* ranges the placed segments take
    result,         \* outcome of the last load: "none", "ok", "refused", "nohole"
    boots

searchVars == <<range, cand>>
planVars   == <<line, todo, usable, next, searchVars, at, occupied>>
vars == <<live, iomem, pc, job, tree, planVars, result, boots>>

Init ==
    /\ live \in FirstTrees /\ iomem \in Listings
    /\ pc = "idle" /\ job = None /\ tree = None
    /\ line = 0 /\ todo = {} /\ usable = {} /\ next = "kernel"
    /\ range = None /\ cand = 0
    /\ at = [s \in Seg |-> None] /\ occupied = {}
    /\ result = "none" /\ boots = 0

StartPlan ==
    /\ line' = 0 /\ todo' = {} /\ usable' = {} /\ next' = "kernel"
    /\ range' = None /\ cand' = 0
    /\ at' = [s \in Seg |-> None] /\ occupied' = {}

Fail(why) == pc' = "idle" /\ result' = why

(***************************************************************************)
(* The tree, and the RAM that may be used                                  *)
(***************************************************************************)

(* BootEntry::load, KexecImage::load up to load_arm64 *)
Load ==
    /\ pc \in {"idle", "loaded"} /\ boots < MaxBoots
    /\ \E k \in Kernels, i \in InitrdSizes, n \in DtbSizes, c \in Cmdlines, d \in Dtbs \cup {None} :
         /\ job' = [kernel |-> k, initrd |-> i, dtb |-> n, cmdline |-> c]
         /\ tree' = NextTree(d, live)
    /\ StartPlan
    /\ IF tree' = None THEN Fail("refused") ELSE pc' = "iomem" /\ result' = "none"
    /\ UNCHANGED <<live, iomem, boots>>

(* add_range *)
AddRange(ranges, r) ==
    LET met    == {q \in ranges : q.start <= r.end /\ r.start <= q.end} \cup {r}
        first  == CHOOSE q \in met : \A p \in met : q.start <= p.start
        last   == CHOOSE q \in met : \A p \in met : q.end >= p.end
    IN  (ranges \ met) \cup {PhysRange(first.start, last.end)}

\* Fault: a removed range that begins below a range is not seen.
SubtractRange_start_only(ranges, r) ==
    LET cut == {q \in ranges : Within(r.start, q)}
    IN  (ranges \ cut)
        \cup {PhysRange(q.start, r.start) : q \in {p \in cut : p.start < r.start}}
        \cup {PhysRange(r.end, q.end) : q \in {p \in cut : r.end < p.end}}

(* subtract_range *)
SubtractRange(ranges, r) ==
    LET cut == {q \in ranges : Overlaps(q, r)}
    IN  (ranges \ cut)
        \cup {PhysRange(q.start, r.start) : q \in {p \in cut : p.start < r.start}}
        \cup {PhysRange(r.end, q.end) : q \in {p \in cut : r.end < p.end}}

(* parse_iomem: the memory of the running kernel may be overwritten, what  *)
(* anyone else has claimed may not.                                        *)
ParseLine ==
    /\ pc = "iomem" /\ line < Len(iomem)
    /\ LET l == iomem[line + 1]
       IN  usable' = CASE l.name = "System RAM" -> AddRange(usable, l.range)
                       [] l.name = "Kernel code" -> usable
                       [] OTHER -> SubtractRange(usable, l.range)
    /\ line' = line + 1
    /\ UNCHANGED <<live, iomem, pc, job, tree, todo, next, searchVars, at, occupied, result, boots>>

(* read_usable_memory *)
IomemRead ==
    /\ pc = "iomem" /\ line = Len(iomem)
    /\ todo' = ReservedRanges(tree)
    /\ IF usable = {} THEN Fail("refused") ELSE pc' = "reserve" /\ UNCHANGED result
    /\ UNCHANGED <<live, iomem, job, tree, line, usable, next, searchVars, at, occupied, boots>>

(* arm64::load: the loop over fdt::reserved_ranges *)
Reserve ==
    /\ pc = "reserve"
    /\ \E r \in todo :
         /\ todo' = todo \ {r}
         /\ usable' = SubtractRange(usable, r)
    /\ UNCHANGED <<live, iomem, pc, job, tree, line, next, searchVars, at, occupied, result, boots>>

Reserved ==
    /\ pc = "reserve" /\ todo = {}
    /\ IF usable = {} THEN Fail("refused") ELSE pc' = "search" /\ UNCHANGED result
    /\ UNCHANGED <<live, iomem, job, tree, planVars, boots>>

(***************************************************************************)
(* find_region                                                             *)
(***************************************************************************)
AlignUp(x, a)   == ((x + a - 1) \div a) * a
AlignDown(x, a) == (x \div a) * a

RegionSize(s) ==
    CASE s = "kernel"     -> job.kernel.text + job.kernel.memsz
      [] s = "initrd"     -> job.initrd
      [] s = "dtb"        -> job.dtb
      [] s = "trampoline" -> 1

Alignment(s) == IF s \in {"kernel", "dtb"} THEN SZ_2M ELSE 1

KernelEntry == at["kernel"] + job.kernel.text

(* min and max of the calls in arm64::load *)
Lowest(s)  == IF s = "kernel" THEN 0 ELSE KernelEntry + job.kernel.memsz
Highest(s) == IF s = "initrd" THEN AlignDown(KernelEntry, SZ_1G) + SZ_32G ELSE Top

MaxOf(a, b) == IF a >= b THEN a ELSE b
MinOf(a, b) == IF a <= b THEN a ELSE b

(* The part of a range in which the segment may lie. *)
From(r) == MaxOf(r.start, Lowest(next))
Upto(r) == MinOf(r.end, Highest(next))

(* The ranges find_region has not looked at. *)
Ahead == {r \in usable : range = None \/ r.start > range.start}

(* arm64::load: MAX_DTB_SIZE *)
DtbTooLarge == next = "dtb" /\ job.dtb > SZ_2M

(* for range in usable; an address that overflows ends the search *)
NextRange ==
    /\ pc = "search" /\ ~DtbTooLarge
    /\ \E r \in Ahead :
         /\ \A q \in Ahead : r.start <= q.start
         /\ range' = r
         /\ cand' = AlignUp(From(r), Alignment(next))
         /\ \/ From(r) + RegionSize(next) > Top /\ Fail("nohole")
            \/ /\ From(r) + RegionSize(next) <= Top
               /\ From(r) + RegionSize(next) > Upto(r)
               /\ UNCHANGED <<pc, result>>
            \/ /\ From(r) + RegionSize(next) <= MinOf(Upto(r), Top)
               /\ IF From(r) + Alignment(next) - 1 > Top
                    THEN Fail("nohole") ELSE pc' = "try" /\ UNCHANGED result
    /\ UNCHANGED <<live, iomem, job, tree, line, todo, usable, next, at, occupied, boots>>

NoRange ==
    /\ pc = "search" /\ (DtbTooLarge \/ Ahead = {})
    /\ Fail(IF DtbTooLarge THEN "refused" ELSE "nohole")
    /\ UNCHANGED <<live, iomem, job, tree, planVars, boots>>

Candidate == PhysRange(cand, cand + RegionSize(next))
Conflicts == {o \in occupied : Overlaps(Candidate, o)}

(* while: the candidate conflicts, and the search goes on behind the       *)
(* conflict that ends first                                                *)
SkipConflict ==
    /\ pc = "try" /\ Candidate.end <= Upto(range)
    /\ \E o \in Conflicts :
         /\ \A p \in Conflicts : o.end <= p.end
         /\ cand' = AlignUp(o.end, Alignment(next))
         /\ IF o.end + Alignment(next) - 1 > Top THEN Fail("nohole") ELSE UNCHANGED <<pc, result>>
    /\ UNCHANGED <<live, iomem, job, tree, line, todo, usable, next, range, at, occupied, boots>>

\* Fault: the search ends with the first range that is too full.
RangeExhausted_gives_up ==
    /\ pc = "try" /\ Candidate.end > Upto(range)
    /\ Fail("nohole")
    /\ UNCHANGED <<live, iomem, job, tree, planVars, boots>>

(* while: the candidate does not fit behind the conflicts *)
RangeExhausted ==
    /\ pc = "try" /\ Candidate.end > Upto(range)
    /\ IF Candidate.end > Top THEN Fail("nohole") ELSE pc' = "search" /\ UNCHANGED result
    /\ UNCHANGED <<live, iomem, job, tree, planVars, boots>>

(* Some(candidate): the segment is placed, and the next one is searched *)
Place ==
    /\ pc = "try" /\ Candidate.end <= Upto(range) /\ Conflicts = {}
    /\ at' = [at EXCEPT ![next] = cand]
    /\ occupied' = occupied \cup {Candidate}
    /\ range' = None /\ cand' = 0
    /\ CASE next = "kernel" -> next' = IF job.initrd = 0 THEN "dtb" ELSE "initrd"
         [] next = "initrd" -> next' = "dtb"
         [] next = "dtb" -> next' = "trampoline"
         [] next = "trampoline" -> UNCHANGED next
    /\ pc' = IF next = "trampoline" THEN "placed" ELSE "search"
    /\ UNCHANGED <<live, iomem, job, tree, line, todo, usable, result, boots>>

(* fdt::patch_chosen, build_trampoline, kexec_load *)
KexecLoad ==
    /\ pc = "placed"
    /\ tree' = PatchChosen(tree, job.cmdline,
                 IF job.initrd = 0 THEN None ELSE PhysRange(at["initrd"], at["initrd"] + job.initrd))
    /\ pc' = "loaded" /\ result' = "ok"
    /\ UNCHANGED <<live, iomem, job, planVars, boots>>

(* exec_loaded_image, and the next kernel starts this program again *)
Exec ==
    /\ pc = "loaded"
    /\ live' = tree /\ boots' = boots + 1
    /\ iomem' \in Listings
    /\ pc' = "idle" /\ job' = None /\ tree' = None /\ result' = "none"
    /\ StartPlan

Next ==
    \/ Load \/ ParseLine \/ IomemRead \/ Reserve \/ Reserved
    \/ NextRange \/ NoRange \/ SkipConflict \/ RangeExhausted \/ Place
    \/ KexecLoad \/ Exec

Spec == Init /\ [][Next]_vars

(***************************************************************************)
(* Properties                                                              *)
(***************************************************************************)
(* RAM that nobody but the running kernel claims: in /proc/iomem the last  *)
(* word on a page is "System RAM", and the tree does not reserve it.       *)
FreeRam(x) ==
    /\ \E i \in 1..Len(iomem) :
         /\ iomem[i].name = "System RAM" /\ Within(x, iomem[i].range)
         /\ \A j \in (i + 1)..Len(iomem) :
              iomem[j].name \notin {"System RAM", "Kernel code"} => ~Within(x, iomem[j].range)
    /\ \A r \in ReservedRanges(tree) : ~Within(x, r)

Region(s) == PhysRange(at[s], at[s] + RegionSize(s))

(* Every segment that has a place lies in free RAM and clear of the other  *)
(* segments: kexec_load writes nothing that the next kernel needs or that  *)
(* is not RAM.                                                             *)
PlacementSafe ==
    \A s \in Seg : at[s] # None =>
        /\ \A x \in Region(s).start..(Region(s).end - 1) : FreeRam(x)
        /\ \A q \in Seg \ {s} : at[q] # None => ~Overlaps(Region(s), Region(q))

(* find_region gives up only when there is no place: an aligned hole that  *)
(* is large enough, inside the limits and clear of the placed segments,    *)
(* would have been found.                                                  *)
NoFalseFailure ==
    result = "nohole" =>
        ~ \E a \in Lowest(next)..Top :
            /\ a % Alignment(next) = 0
            /\ a + RegionSize(next) <= MinOf(Highest(next), Top)
            /\ \A x \in a..(a + RegionSize(next) - 1) :
                 FreeRam(x) /\ \A o \in occupied : ~Within(x, o)

(* The firmware cannot start a CPU of this tree behind the spin table. *)
FirmwareIsOut(t) ==
    /\ t.psci # "okay" /\ t.idle = 0
    /\ \A c \in Enabled(t.cpus) :
         ~c.idle /\ \A i \in DOMAIN c.domains : ~IsPsciDomain(t, c.domains[i])

(* Along a chain of kernels the CPU handoff contract is handed on: the     *)
(* next kernel's tree names the same parking page for the same CPUs, with  *)
(* one reservation of each kind, and no segment was put on the page.       *)
ContractHandedOn ==
    [][Exec =>
        LET old == SpinTableContract(live)
            new == SpinTableContract(live')
        IN  old.status = "ok" =>
              /\ new = old
              /\ FirmwareIsOut(live')
              /\ {r \in live'.map : Overlaps(r, PageAt(old.base))} = {PageAt(old.base)}
              /\ live'.memory = live.memory
              /\ \A s \in Seg : at[s] # None => ~Overlaps(Region(s), PageAt(old.base))]_vars

=============================================================================
