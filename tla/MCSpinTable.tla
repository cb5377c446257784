----------------------------- MODULE MCSpinTable -----------------------------
(* The parking protocol on its own. The model has two secondaries and a token  *)
(* width of two bits: a second kexec reaches the last epoch. A module about    *)
(* both halves of the handoff extends this one and the plan of the segments.   *)
EXTENDS Naturals

CONSTANTS Secondary, MaxEpoch

\* U64_MAX in the code: the start-up token 1 exists.
ASSUME MaxEpochAssumption == MaxEpoch \in Nat \ {0}

VARIABLES prim, prim_el, dt, started, victim, epoch, page, release, request, ack, el, snap,
          cpu, token, cpu_el, smpen

Parking == INSTANCE SpinTable

ParkingSpec == Parking!FairSpec

\* Preboot never writes the page while a secondary may execute from it
\* (init_spin_table).
LiveCodeNeverOverwritten == Parking!LiveCodeNeverOverwritten

\* Relocation starts when every secondary polls on a cleared slot
\* (smp_spin_table_kexec_verify).
RelocationIsSafe == Parking!RelocationIsSafe

\* No secondary runs, or is parked to run, a kernel whose memory is gone.
NoStaleKernelRuns == Parking!NoStaleKernelRuns

\* A secondary runs the kernel coherent and at the primary's exception level.
KernelCpusAreCoherent == Parking!KernelCpusAreCoherent

\* An entry into preboot and an accepted kexec both come to an end.
HandoffCompletes == Parking!HandoffCompletes
=============================================================================
