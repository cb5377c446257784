------------------------------ MODULE SpinTable ------------------------------
(***************************************************************************)
(* The MSM8916 CPU parking protocol: pocketpreboot installs resident code  *)
(* in a reserved page and starts the secondaries into it; a kernel with    *)
(* the spin-table kexec patch releases them, and returns them to the page  *)
(* before it hands its memory to the next kernel.                          *)
(*                                                                         *)
(* Sources: pocketpreboot/src/msm8916.rs, pocketpreboot/src/spin_table.S   *)
(* and patches/kernel/msm8916/0001-arm64-pocketboot-spin-table-kexec.patch *)
(*                                                                         *)
(* An address written to a release slot is "cur" (the holding pen of the   *)
(* running kernel) and becomes "old" when that kernel's memory is given    *)
(* away, by a kexec jump or by a reset.                                    *)
(***************************************************************************)
EXTENDS Naturals

CONSTANTS
    Secondary,      \* the secondary CPUs
    MaxEpoch        \* U64_MAX, the last request token

EL == {4, 8}        \* CurrentEL at EL1 and EL2

VARIABLES
    prim,           \* what the primary CPU is doing
    prim_el,        \* its exception level
    dt,             \* the CPU nodes of the incoming DT: "cold" or "resident"
    started,        \* secondaries started by this preboot
    victim,         \* the secondary being started or taken down
    epoch,          \* pb_epoch of the running kernel, 0 when unset
    \* the reserved page
    page,           \* "blank" or "resident" (descriptor and code present)
    release,        \* "zero", "cur" or "old"
    request, ack,   \* request and acknowledgment tokens
    el, snap,       \* reported CurrentEL and CPUECTLR.SMPEN
    \* the secondaries
    cpu,            \* where each one is executing
    token,          \* the request it read on entry
    cpu_el, smpen   \* its real exception level and SMPEN

primVars == <<prim, prim_el, dt, started, victim, epoch>>
slotVars == <<release, request, ack, el, snap>>
pageVars == <<page, slotVars>>
cpuVars  == <<cpu, token, cpu_el, smpen>>
vars     == <<primVars, pageVars, cpuVars>>

Prim == {"firmware", "preboot", "install", "start", "waitack", "kernel",
         "shutdown", "killing", "relocate", "halted"}
CpuState == {"reset", "other", "enter", "report", "wait", "halt", "kernel",
             "dying", "old"}

\* Executing from the reserved page.
InPage(c) == cpu[c] \in {"enter", "report", "wait", "halt"}

Zero == [c \in Secondary |-> 0]

Init ==
    /\ prim = "firmware" /\ prim_el \in EL /\ dt = "cold"
    /\ started = {} /\ victim \in Secondary /\ epoch = Zero
    /\ page = "blank"
    /\ release = [c \in Secondary |-> "zero"]
    /\ request = Zero /\ ack = Zero /\ el = Zero
    /\ snap = [c \in Secondary |-> FALSE]
    /\ cpu \in [Secondary -> {"reset", "other"}]
    /\ token = Zero
    /\ cpu_el = [c \in Secondary |-> 8] /\ smpen = [c \in Secondary |-> FALSE]

-----------------------------------------------------------------------------
(* The world outside: reset and the bootloader.                            *)

\* Memory of the running kernel is given away.
Forget(f) == [c \in Secondary |-> IF f[c] = "cur" THEN "old" ELSE f[c]]

\* Power-on, watchdog or reboot. DRAM usually survives. The bootloader may
\* have started some secondaries in a loop of its own ("other").
Reset ==
    /\ prim # "firmware"
    /\ prim' = "firmware" /\ dt' = "cold"
    /\ prim_el' \in EL
    /\ page' \in {page, "blank"}
    /\ release' = Forget(release)
    /\ cpu' \in [Secondary -> {"reset", "other"}]
    /\ started' = {} /\ epoch' = Zero
    /\ UNCHANGED <<victim, request, ack, el, snap, token, cpu_el, smpen>>

\* The bootloader enters the packaged image, normally with the start-up DT.
EnterPreboot ==
    /\ prim = "firmware"
    /\ prim' = "preboot" /\ dt' \in {"cold", "resident"}
    /\ UNCHANGED <<prim_el, started, victim, epoch, pageVars, cpuVars>>

-----------------------------------------------------------------------------
(* pocketpreboot on the primary: prepare_fdt_inner.                        *)

Halt == prim' = "halted" /\ UNCHANGED <<prim_el, dt, started, victim, epoch>>

\* Entry state, coherency, reservation, memory, CPU nodes or FDT patching is
\* rejected; or, later, the SCM call that sets the boot address fails.
PrebootRejects ==
    /\ prim \in {"preboot", "start"} /\ started = {}
    /\ Halt
    /\ UNCHANGED <<pageVars, cpuVars>>

\* validate_parked_slots and the coherency snapshots.
SlotParked(c) ==
    /\ request[c] # 0 /\ release[c] = "zero" /\ ack[c] = request[c]
    /\ el[c] = prim_el /\ snap[c]

\* Re-entry through kexec: check the handoff without writing a byte.
ReuseResident ==
    /\ prim = "preboot" /\ dt = "resident"
    /\ IF page = "resident" /\ \A c \in Secondary : SlotParked(c)
         THEN /\ prim' = "kernel" /\ epoch' = Zero
              /\ UNCHANGED <<prim_el, dt, started, victim>>
         ELSE Halt
    /\ UNCHANGED <<pageVars, cpuVars>>

\* secondaries_held_in_reset: what the ACC registers show.
HeldInReset == \A c \in Secondary : cpu[c] = "reset"

\* Fault: the page is rewritten whatever it holds.
CheckPage_unchecked ==
    /\ prim = "preboot" /\ dt = "cold"
    /\ prim' = "install"
    /\ UNCHANGED <<prim_el, dt, started, victim, epoch, pageVars, cpuVars>>

\* init_spin_table's occupancy test.
CheckPage ==
    /\ prim = "preboot" /\ dt = "cold"
    /\ IF page = "resident" /\ ~HeldInReset
         THEN Halt
         ELSE /\ prim' = "install"
              /\ UNCHANGED <<prim_el, dt, started, victim, epoch>>
    /\ UNCHANGED <<pageVars, cpuVars>>

\* init_spin_table's writes: clear the page, copy the code, post request 1.
InstallPage ==
    /\ prim = "install"
    /\ prim' = "start"
    /\ page' = "resident"
    /\ release' = [c \in Secondary |-> "zero"]
    /\ request' = [c \in Secondary |-> 1]
    /\ ack' = Zero /\ el' = Zero
    /\ snap' = [c \in Secondary |-> FALSE]
    /\ UNCHANGED <<prim_el, dt, started, victim, epoch, cpuVars>>

\* boot_cortex_a53: reset the core and let it go; it enters the resident code
\* through the SCM boot address, at the exception level and with the SMPEN
\* its firmware chose, or never comes up.
StartCpu(c) ==
    /\ prim = "start" /\ c \notin started
    /\ prim' = "waitack" /\ started' = started \union {c} /\ victim' = c
    /\ \E s \in {"enter", "reset"} : cpu' = [cpu EXCEPT ![c] = s]
    /\ \E l \in EL : cpu_el' = [cpu_el EXCEPT ![c] = l]
    /\ \E b \in BOOLEAN : smpen' = [smpen EXCEPT ![c] = b]
    /\ UNCHANGED <<prim_el, dt, epoch, pageVars, token>>

\* Fault: the reported exception level is only logged.
SeeStartAck_any_el ==
    /\ prim = "waitack" /\ ack[victim] = 1
    /\ IF snap[victim]
         THEN prim' = "start" /\ UNCHANGED <<prim_el, dt, started, victim, epoch>>
         ELSE Halt
    /\ UNCHANGED <<pageVars, cpuVars>>

\* The acknowledgment is in: its exception level and SMPEN must match.
SeeStartAck ==
    /\ prim = "waitack" /\ ack[victim] = 1
    /\ IF el[victim] = prim_el /\ snap[victim]
         THEN prim' = "start" /\ UNCHANGED <<prim_el, dt, started, victim, epoch>>
         ELSE Halt
    /\ UNCHANGED <<pageVars, cpuVars>>

\* All secondaries are parked: jump to the kernel.
EnterKernel ==
    /\ prim = "start" /\ started = Secondary
    /\ prim' = "kernel" /\ epoch' = Zero
    /\ UNCHANGED <<prim_el, dt, started, victim, pageVars, cpuVars>>

\* Fault: preboot polls for the acknowledgment without a limit.
AckTimeout_kernel_only ==
    /\ prim = "killing"
    /\ Halt
    /\ UNCHANGED <<pageVars, cpuVars>>

\* One second went by without an acknowledgment: preboot stops the boot, the
\* kernel panics. The secondary may still get there later.
AckTimeout ==
    /\ prim \in {"waitack", "killing"}
    /\ Halt
    /\ UNCHANGED <<pageVars, cpuVars>>

-----------------------------------------------------------------------------
(* The resident code on a secondary: spin_table.S.                         *)

\* Unsupported entry state (MMU or D-cache on, wrong EL or MPIDR), or no request.
EntryRefused(c) ==
    /\ cpu[c] = "enter"
    /\ cpu' = [cpu EXCEPT ![c] = "halt"]
    /\ UNCHANGED <<primVars, pageVars, token, cpu_el, smpen>>

\* Read the request (a zero one halts, like a refused entry), report CurrentEL
\* and CPUECTLR.
Report(c) ==
    /\ cpu[c] = "enter" /\ request[c] # 0
    /\ cpu' = [cpu EXCEPT ![c] = "report"]
    /\ token' = [token EXCEPT ![c] = request[c]]
    /\ el' = [el EXCEPT ![c] = cpu_el[c]]
    /\ snap' = [snap EXCEPT ![c] = smpen[c]]
    /\ UNCHANGED <<primVars, page, release, request, ack, cpu_el, smpen>>

\* Publish the acknowledgment, then poll.
Acknowledge(c) ==
    /\ cpu[c] = "report"
    /\ cpu' = [cpu EXCEPT ![c] = "wait"]
    /\ ack' = [ack EXCEPT ![c] = token[c]]
    /\ UNCHANGED <<primVars, page, release, request, el, snap, token, cpu_el,
                   smpen>>

\* A release address appeared: go there, or halt when SMPEN is clear.
Released(c) ==
    /\ cpu[c] = "wait" /\ release[c] # "zero"
    /\ cpu' = [cpu EXCEPT ![c] =
                 IF ~smpen[c] THEN "halt"
                 ELSE IF release[c] = "cur" THEN "kernel" ELSE "old"]
    /\ UNCHANGED <<primVars, pageVars, token, cpu_el, smpen>>

-----------------------------------------------------------------------------
(* The kernel: smp_spin_table.c with the kexec patch.                      *)

\* smp_spin_table_cpu_prepare: pb_setup finds the descriptor, then the holding
\* pen's address is written.
CpuPrepare(c) ==
    /\ prim = "kernel" /\ page = "resident" /\ release[c] = "zero"
    /\ release' = [release EXCEPT ![c] = "cur"]
    /\ UNCHANGED <<primVars, page, request, ack, el, snap, cpuVars>>

\* smp_spin_table_kexec_prepare, revalidated by arch_kexec_pre_shutdown.
KexecAllowed ==
    /\ prim_el = 4
    /\ \A c \in Secondary :
         cpu[c] = "kernel" /\ el[c] = 4 /\ request[c] # MaxEpoch

\* reboot(KEXEC) on an image that passes: pb_shutting_down is set.
KexecShutdown ==
    /\ prim = "kernel" /\ KexecAllowed
    /\ prim' = "shutdown"
    /\ UNCHANGED <<prim_el, dt, started, victim, epoch, pageVars, cpuVars>>

\* Fault: the old token is used again, which is already acknowledged.
CpuDisable_same_epoch(c) ==
    /\ prim = "shutdown" /\ cpu[c] = "kernel" /\ request[c] # MaxEpoch
    /\ prim' = "killing" /\ victim' = c
    /\ epoch' = [epoch EXCEPT ![c] = request[c]]
    /\ release' = [release EXCEPT ![c] = "zero"]
    /\ cpu' = [cpu EXCEPT ![c] = "dying"]
    /\ UNCHANGED <<prim_el, dt, started, page, request, ack, el, snap, token,
                   cpu_el, smpen>>

\* Fault: the release address is left in the slot.
CpuDisable_keeps_release(c) ==
    /\ prim = "shutdown" /\ cpu[c] = "kernel" /\ request[c] # MaxEpoch
    /\ prim' = "killing" /\ victim' = c
    /\ epoch' = [epoch EXCEPT ![c] = request[c] + 1]
    /\ request' = [request EXCEPT ![c] = @ + 1]
    /\ cpu' = [cpu EXCEPT ![c] = "dying"]
    /\ UNCHANGED <<prim_el, dt, started, page, release, ack, el, snap, token,
                   cpu_el, smpen>>

\* smp_spin_table_cpu_disable, on the secondary that goes down.
CpuDisable(c) ==
    /\ prim = "shutdown" /\ cpu[c] = "kernel" /\ request[c] # MaxEpoch
    /\ prim' = "killing" /\ victim' = c
    /\ epoch' = [epoch EXCEPT ![c] = request[c] + 1]
    /\ release' = [release EXCEPT ![c] = "zero"]
    /\ request' = [request EXCEPT ![c] = @ + 1]
    /\ cpu' = [cpu EXCEPT ![c] = "dying"]
    /\ UNCHANGED <<prim_el, dt, started, page, ack, el, snap, token, cpu_el,
                   smpen>>

\* smp_spin_table_cpu_die: caches and MMU off, enter the resident code.
CpuDie(c) ==
    /\ cpu[c] = "dying"
    /\ cpu' = [cpu EXCEPT ![c] = "enter"]
    /\ UNCHANGED <<primVars, pageVars, token, cpu_el, smpen>>

\* smp_spin_table_cpu_kill sees the acknowledgment of the new epoch.
CpuKill ==
    /\ prim = "killing" /\ epoch[victim] # 0 /\ ack[victim] = epoch[victim]
    /\ prim' = "shutdown"
    /\ UNCHANGED <<prim_el, dt, started, victim, epoch, pageVars, cpuVars>>

\* smp_spin_table_kexec_verify, the last check before relocation.
KexecVerify ==
    /\ prim = "shutdown" /\ \A c \in Secondary : cpu[c] # "kernel"
    /\ IF \A c \in Secondary : epoch[c] # 0 /\ ack[c] = epoch[c]
         THEN prim' = "relocate" /\ UNCHANGED <<prim_el, dt, started, victim, epoch>>
         ELSE Halt
    /\ UNCHANGED <<pageVars, cpuVars>>

\* Relocation overwrites the old kernel; the next image is a plain kernel or
\* a packaged one, whose DT carries the handoff or is a start-up DT.
KexecJump ==
    /\ prim = "relocate"
    /\ prim' \in {"kernel", "preboot"} /\ dt' \in {"cold", "resident"}
    /\ started' = {} /\ epoch' = Zero
    /\ release' = Forget(release)
    /\ cpu' = [c \in Secondary |->
                 IF cpu[c] \in {"kernel", "dying"} THEN "old" ELSE cpu[c]]
    /\ UNCHANGED <<prim_el, victim, page, request, ack, el, snap, token,
                   cpu_el, smpen>>

-----------------------------------------------------------------------------

Preboot == \/ ReuseResident \/ CheckPage \/ InstallPage \/ SeeStartAck
           \/ EnterKernel \/ \E c \in Secondary : StartCpu(c)
Resident(c) == Report(c) \/ Acknowledge(c) \/ Released(c)
Shutdown == \/ CpuKill \/ KexecVerify \/ KexecJump
            \/ \E c \in Secondary : CpuDisable(c)

Next == \/ Reset \/ EnterPreboot \/ PrebootRejects \/ AckTimeout \/ Preboot
        \/ KexecShutdown \/ Shutdown
        \/ \E c \in Secondary : \/ EntryRefused(c) \/ Resident(c)
                                \/ CpuPrepare(c) \/ CpuDie(c)

Spec == Init /\ [][Next]_vars

\* The primary and every secondary that is powered keep executing; the polling
\* loops are bounded by the timer.
FairSpec == /\ Spec /\ WF_vars(Preboot) /\ WF_vars(Shutdown)
            /\ WF_vars(AckTimeout)
            /\ \A c \in Secondary : WF_vars(Resident(c)) /\ WF_vars(CpuDie(c))

-----------------------------------------------------------------------------
(* Properties.                                                             *)

\* Every field has its type; in particular no request token passes U64_MAX.
TypeOK ==
    /\ prim \in Prim /\ prim_el \in EL /\ dt \in {"cold", "resident"}
    /\ started \subseteq Secondary /\ victim \in Secondary
    /\ epoch \in [Secondary -> 0..MaxEpoch]
    /\ page \in {"blank", "resident"}
    /\ release \in [Secondary -> {"zero", "cur", "old"}]
    /\ request \in [Secondary -> 0..MaxEpoch]
    /\ ack \in [Secondary -> 0..MaxEpoch]
    /\ el \in [Secondary -> EL \union {0}]
    /\ snap \in [Secondary -> BOOLEAN]
    /\ cpu \in [Secondary -> CpuState]
    /\ token \in [Secondary -> 0..MaxEpoch]
    /\ cpu_el \in [Secondary -> EL] /\ smpen \in [Secondary -> BOOLEAN]

\* Preboot never writes the page while a secondary may be executing from it,
\* whatever a reset, a kexec or a start-up DT left behind (init_spin_table).
LiveCodeNeverOverwritten ==
    prim = "install" => \A c \in Secondary : ~InPage(c)

\* When relocation starts, every secondary is polling in the page on a cleared
\* slot: the acknowledgments prove that it has left the old kernel
\* (smp_spin_table_kexec_verify).
RelocationIsSafe ==
    prim = "relocate" =>
        \A c \in Secondary : cpu[c] = "wait" /\ release[c] = "zero"

\* No secondary ever runs code of a kernel whose memory was given away, nor
\* is parked on a slot that would send it there.
NoStaleKernelRuns ==
    \A c \in Secondary :
        cpu[c] # "old" /\ (InPage(c) => release[c] # "old")

\* A secondary runs the kernel only with SMPEN set and at the exception level
\* of the primary (SeeStartAck, SlotParked, the resident's release test).
KernelCpusAreCoherent ==
    \A c \in Secondary :
        cpu[c] = "kernel" /\ prim \in {"kernel", "shutdown"} =>
            smpen[c] /\ cpu_el[c] = prim_el

\* An entry into preboot and an accepted kexec both come to an end: the next
\* kernel runs, or the boot is stopped. A core that never comes up, refuses its
\* entry state or is slow leaves nobody waiting for ever.
HandoffCompletes ==
    prim \in {"preboot", "shutdown"} ~> prim \in {"kernel", "halted", "firmware"}

=============================================================================
