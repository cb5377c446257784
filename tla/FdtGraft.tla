------------------------------- MODULE FdtGraft -------------------------------
(***************************************************************************)
(* What src/kexec.rs does to the device tree of the next kernel: the       *)
(* memory nodes and the CPU handoff contract of the running kernel are     *)
(* grafted into it, /chosen is rewritten, and its reservations are read    *)
(* for the placement of the segments.                                      *)
(*                                                                         *)
(* A tree is a record of the nodes the code looks at:                      *)
(*   bootcpu    boot_cpuid_phys of the header                              *)
(*   map        ranges of the reserve map                                  *)
(*   memory     the root memory nodes, or None                             *)
(*   cpus       nodes below /cpus                                          *)
(*   resv       /reserved-memory [ok, nodes], or None; ok: it is enabled,  *)
(*              has empty ranges and the cells of the root                 *)
(*   providers  power domain providers [phandle, psci]                     *)
(*   psci       status of the PSCI node, or "absent"                       *)
(*   idle       number of PSCI idle state nodes                            *)
(*   chosen     /chosen, or None                                           *)
(* The result of an operation that fails is None.                          *)
(***************************************************************************)
EXTENDS Integers, Sequences, FiniteSets, SequencesExt

CONSTANTS
    None,           \* an absent node or property, and the result of a failure
    PageBytes       \* SPIN_TABLE_BYTES and PAGE_SIZE, in units of address

(* PhysRange *)
PhysRange(s, e) == [start |-> s, end |-> e]
Overlaps(r, q) == r.start < q.end /\ q.start < r.end
Within(x, r) == r.start <= x /\ x < r.end
PageAt(base) == PhysRange(base, base + PageBytes)

(* The slot of a CPU in the parking page: SPIN_TABLE_SLOTS and _STRIDE. *)
ReleaseAddr(base, mpidr) == <<base, mpidr>>

Enabled(cpus) == {c \in cpus : c.enabled}

(* cpu_nodes: every enabled CPU has one MPIDR of its own. *)
CpuNodesValid(t) ==
    \A c, d \in Enabled(t.cpus) : c.mpidr = d.mpidr => c = d

MpidrsOf(t) == {c.mpidr : c \in Enabled(t.cpus)}

(* A parking reservation that is this program's, active and exclusive. *)
Owned(n) == n.compat = "v1" /\ n.enabled /\ n.nomap /\ ~n.reusable

(* The reservations that claim to be a parking page of some version. *)
ParkingNodes(t) ==
    IF t.resv = None THEN {} ELSE {n \in t.resv.nodes : n.compat \in {"v1", "v2"}}

(* reserved_cells *)
ReservedCells(t) == t.resv # None /\ t.resv.ok

(* spin_table_contract: none when no CPU uses a spin table, otherwise the  *)
(* base of the page, or an error when the tree does not prove the contract.*)
SpinTableContract(t) ==
    LET owned == CHOOSE n \in ParkingNodes(t) : TRUE
        base  == owned.ranges[1].start
        Valid ==
          /\ Cardinality(ParkingNodes(t)) = 1
          /\ Owned(owned)
          /\ ReservedCells(t)
          /\ Len(owned.ranges) = 1
          /\ base # 0 /\ base % PageBytes = 0 /\ owned.ranges[1] = PageAt(base)
          /\ CpuNodesValid(t)
          /\ MpidrsOf(t) = 0..3
          /\ \A c \in Enabled(t.cpus) :
               c.method = "spin-table" /\ c.release = ReleaseAddr(base, c.mpidr)
    IN  IF \A c \in Enabled(t.cpus) : c.method # "spin-table"
        THEN [status |-> "none"]
        ELSE IF Valid THEN [status |-> "ok", base |-> base]
                      ELSE [status |-> "error"]

(* validate_parking_reserve_map *)
ReserveMapValid(t, page) == \A r \in t.map : Overlaps(r, page) => r = page

(* The node graft_parking_reservation adds. *)
ParkingNode(base) ==
    [name |-> base, compat |-> "v1", enabled |-> TRUE, nomap |-> TRUE,
     reusable |-> FALSE, ranges |-> <<PageAt(base)>>]

(* graft_parking_reservation *)
GraftParkingReservation(t, base) ==
    LET resv   == IF t.resv = None THEN [ok |-> TRUE, nodes |-> {}] ELSE t.resv
        Claims(n) == \/ \E i \in DOMAIN n.ranges : Overlaps(n.ranges[i], PageAt(base))
                     \/ n.compat \in {"v1", "v2"}
                     \/ n.name = base
        claims == {n \in resv.nodes : Claims(n)}
    IN  CASE resv.ok /\ claims = {} ->
               [t EXCEPT !.resv = [resv EXCEPT !.nodes = @ \cup {ParkingNode(base)}]]
          [] /\ resv.ok /\ Cardinality(claims) = 1
             /\ \A n \in claims : Owned(n) /\ n.ranges = <<PageAt(base)>> ->
               [t EXCEPT !.resv = resv]
          [] OTHER -> None

(* power_domain_providers *)
ProvidersValid(t) ==
    \A p, q \in t.providers : p.phandle = q.phandle => p = q

IsPsciDomain(t, d) == \E p \in t.providers : p.phandle = d /\ p.psci

(* The k-th of a set of positions, in ascending order. *)
Nth(S, k) == CHOOSE i \in S : Cardinality({j \in S : j <= i}) = k

(* remove_psci_cpu_domains: the code walks the domains and their names in  *)
(* step; None when a domain has no provider or the lengths differ.         *)
RemovePsciCpuDomains(t, cpu) ==
    LET keep == {i \in DOMAIN cpu.domains : ~IsPsciDomain(t, cpu.domains[i])}
        Kept(s) == [k \in 1..Cardinality(keep) |-> s[Nth(keep, k)]]
    IN  IF \/ \E i \in DOMAIN cpu.domains : \A p \in t.providers : p.phandle # cpu.domains[i]
           \/ cpu.domains # <<>> /\ cpu.names # None /\ Len(cpu.names) # Len(cpu.domains)
        THEN None
        ELSE IF cpu.domains = <<>> THEN cpu
        ELSE [cpu EXCEPT !.domains = Kept(@),
                         !.names = IF @ = None \/ keep = {} THEN None ELSE Kept(@)]

(* graft_spin_table: the loop over the CPUs of the target *)
SpinTableCpu(t, cpu, base) ==
    IF ~cpu.enabled THEN cpu
    ELSE LET c == RemovePsciCpuDomains(t, cpu)
         IN  IF c = None THEN None
             ELSE [c EXCEPT !.method = "spin-table", !.idle = FALSE,
                            !.release = ReleaseAddr(base, cpu.mpidr)]

(* disable_psci *)
DisablePsci(t) ==
    [t EXCEPT !.psci = IF @ = "absent" THEN @ ELSE "disabled", !.idle = 0]

\* Fault: the page is reserved in the reserve map only.
GraftContract_map_only(dtb, live, base) ==
    LET cpus == {SpinTableCpu(dtb, c, base) : c \in dtb.cpus}
    IN  IF MpidrsOf(live) = MpidrsOf(dtb) /\ None \notin cpus /\ ReserveMapValid(dtb, PageAt(base))
        THEN [DisablePsci([dtb EXCEPT !.cpus = cpus]) EXCEPT !.map = @ \cup {PageAt(base)}]
        ELSE None

(* graft_spin_table, once the contract of the live tree is known *)
GraftContract(dtb, live, base) ==
    LET page   == PageAt(base)
        cpus   == {SpinTableCpu(dtb, c, base) : c \in dtb.cpus}
        target == GraftParkingReservation(DisablePsci([dtb EXCEPT !.cpus = cpus]), base)
    IN  IF /\ live.bootcpu = 0 /\ dtb.bootcpu = 0
           /\ GraftParkingReservation(live, base) # None
           /\ ReserveMapValid(live, page)
           /\ CpuNodesValid(dtb) /\ MpidrsOf(live) = MpidrsOf(dtb)
           /\ ProvidersValid(dtb)
           /\ None \notin cpus
           /\ target # None
           /\ ReserveMapValid(dtb, page)
        THEN [target EXCEPT !.map = @ \cup {page}]
        ELSE None

(* graft_spin_table *)
GraftSpinTable(dtb, live) ==
    LET contract == SpinTableContract(live)
    IN  CASE contract.status = "none"  -> dtb
          [] contract.status = "ok"    -> GraftContract(dtb, live, contract.base)
          [] contract.status = "error" -> None

(* graft_memory: the memory nodes of the supplied tree are dropped. *)
GraftMemory(dtb, live) ==
    IF live.memory = None THEN None ELSE [dtb EXCEPT !.memory = live.memory]

(* KexecImage::load: with_live_memory for a supplied tree; None stands for *)
(* no supplied tree, where read_current_dtb takes the live one.            *)
NextTree(dtb, live) ==
    LET grafted == IF dtb = None THEN live ELSE GraftMemory(dtb, live)
    IN  IF grafted = None THEN None ELSE GraftSpinTable(grafted, live)

(* reserve_map, reserve_map_ranges *)
ReserveMapRanges(t) == {r \in t.map : r.start < r.end}

(* decode_reg_ranges: entries without a size are left out *)
RegRanges(n) == {r \in ToSet(n.ranges) : r.start < r.end}

(* reserved_ranges: the reserve map, then the enabled reserved-memory      *)
(* nodes with a reg.                                                       *)
ReservedRanges(t) ==
    ReserveMapRanges(t) \cup
    (IF t.resv = None THEN {} ELSE UNION {RegRanges(n) : n \in {m \in t.resv.nodes : m.enabled}})

(* patch_chosen: bootargs, the initrd and the kexec mark are replaced, the *)
(* other properties of /chosen stay.                                       *)
PatchChosen(t, cmdline, initrd) ==
    [t EXCEPT !.chosen =
        [args |-> cmdline, initrd |-> initrd, kexec |-> TRUE,
         rest |-> IF t.chosen = None THEN None ELSE t.chosen.rest]]
=============================================================================
