------------------------------ MODULE MCHandoff ------------------------------
(* The two halves of a handoff: where the segments of the next kernel go and   *)
(* what its tree says (KexecPlan), and the parking of the CPUs (SpinTable).    *)
(* They share no state, so that a behaviour runs one of them and leaves the    *)
(* other where it starts.                                                      *)
EXTENDS MCKexecPlan, MCSpinTable

VARIABLE parks      \* the half that runs is the parking

parkingVars == <<prim, prim_el, dt, started, victim, epoch, page, release, request, ack, el,
                 snap, cpu, token, cpu_el, smpen>>

(* The half that does not run has one of its initial states. *)
HandoffInit ==
    /\ parks \in BOOLEAN /\ Init /\ Parking!Init
    /\ parks => /\ live = CHOOSE t \in FirstTrees : TRUE
                /\ iomem = CHOOSE l \in Listings : TRUE
    /\ ~parks => /\ prim_el = 8 /\ victim = CHOOSE c \in Secondary : TRUE
                 /\ cpu = [c \in Secondary |-> "reset"]

(* A plan may stop anywhere; the parking may not. *)
Plans == ~parks /\ (Next \/ UNCHANGED vars) /\ UNCHANGED <<parks, parkingVars>>
Parks == parks /\ Parking!Next /\ UNCHANGED <<parks, vars>>

HandoffNext == Plans \/ Parks

(* The fairness of SpinTable, in the half that runs it. *)
HandoffSpec ==
    /\ HandoffInit /\ [][HandoffNext]_<<parks, vars, parkingVars>>
    /\ WF_parkingVars(parks /\ Parking!Preboot)
    /\ WF_parkingVars(parks /\ Parking!Shutdown)
    /\ WF_parkingVars(parks /\ Parking!AckTimeout)
    /\ \A c \in Secondary : /\ WF_parkingVars(parks /\ Parking!Resident(c))
                            /\ WF_parkingVars(parks /\ Parking!CpuDie(c))
=============================================================================
