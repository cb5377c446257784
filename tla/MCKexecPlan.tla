----------------------------- MODULE MCKexecPlan -----------------------------
(* RAM in two banks below page 16, with claims of drivers and of the        *)
(* running kernel; a parking page at 12; trees that can and trees that      *)
(* cannot take over its contract.                                           *)
EXTENDS KexecPlan

Line(s, e, n) == [range |-> PhysRange(s, e), name |-> n]
Ram(s, e)   == Line(s, e, "System RAM")
Claim(s, e) == Line(s, e, "reserved")

MCListings ==
    { <<Ram(0, 14)>>,
      <<Ram(1, 7), Line(2, 5, "Kernel code"), Claim(6, 7), Ram(7, 15), Claim(9, 10), Claim(8, 9)>>,
      <<Ram(0, 3), Ram(3, 7), Claim(4, 5), Ram(8, 14)>>,
      <<Ram(0, 5), Claim(0, 2), Ram(10, 15), Claim(11, 12)>>,
      <<Ram(11, 13), Claim(11, 12)>> }

MCCpu(m, meth, rel, idle, dom, names) ==
    [mpidr |-> m, enabled |-> TRUE, method |-> meth, release |-> rel, idle |-> idle,
     domains |-> dom, names |-> names]

PsciCpus == {MCCpu(m, "psci", None, TRUE, <<1, 2>>, <<"psci", "perf">>) : m \in 0..3}

MCPsciTree ==
    [bootcpu |-> 0, map |-> {}, memory |-> "bundled", cpus |-> PsciCpus, resv |-> None,
     providers |-> {[phandle |-> 1, psci |-> TRUE], [phandle |-> 2, psci |-> FALSE]},
     psci |-> "okay", idle |-> 1, chosen |-> None]

(* what preboot hands to the first kernel *)
MCSpinTree ==
    [MCPsciTree EXCEPT
        !.cpus = {[c EXCEPT !.method = "spin-table", !.release = ReleaseAddr(12, c.mpidr),
                            !.domains = <<2>>, !.names = <<"perf">>, !.idle = FALSE] : c \in @},
        !.memory = "probed", !.psci = "disabled", !.idle = 0,
        !.resv = [ok |-> TRUE, nodes |-> {ParkingNode(12)}], !.chosen = [rest |-> "seed"]]

WithNode(t, n) == [t EXCEPT !.resv = [ok |-> TRUE, nodes |-> {n}]]
Foreign == [ParkingNode(4) EXCEPT !.compat = "other"]

MCFirstTrees ==
    { [MCPsciTree EXCEPT !.memory = "probed"], MCSpinTree,
      [MCSpinTree EXCEPT !.resv = None], [MCSpinTree EXCEPT !.map = {PhysRange(11, 13)}] }

MCDtbs ==
    { MCPsciTree,
      [WithNode(MCPsciTree, Foreign) EXCEPT !.map = {PhysRange(1, 2), PhysRange(4, 9)}],
      WithNode(MCPsciTree, ParkingNode(12)),
      WithNode(MCPsciTree, ParkingNode(8)),
      WithNode(MCPsciTree, [Foreign EXCEPT !.enabled = FALSE]),
      WithNode(MCPsciTree, [Foreign EXCEPT !.ranges = <<PhysRange(11, 14)>>]),
      [MCPsciTree EXCEPT !.cpus = {c \in @ : c.mpidr < 3}],
      [MCPsciTree EXCEPT !.providers = {p \in @ : p.phandle = 1}],
      [MCPsciTree EXCEPT !.bootcpu = 1] }

MCKernels == {[text |-> 0, memsz |-> 2], [text |-> 1, memsz |-> 3]}
=============================================================================
