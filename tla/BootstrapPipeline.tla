------------------------- MODULE BootstrapPipeline -------------------------
(***************************************************************************)
(* What the phase chain of uloader.py promises (Phase.execute and the      *)
(* chain __main__ links): the phases run in order, a phase runs only when  *)
(* every phase before it returned True, the first failure ends the run,    *)
(* and the process exits 0 only after the last phase of the chain passed,  *)
(* or when the operator aborts it (Ctrl-C: a graceful, silent exit).       *)
(* AutoDetectIP is in the chain only with a usable --proxy.                *)
(***************************************************************************)
EXTENDS Integers, Sequences

CONSTANT FailCodes   \* exit statuses of a failed run

VARIABLES stage, status, proxy, aborted

Running == -1

Chain == IF proxy THEN <<"Connect", "Load", "Start", "AutoDetect">>
                  ELSE <<"Connect", "Load", "Start">>

Position(s) == CHOOSE i \in 1..Len(Chain) : Chain[i] = s

Init ==
    /\ stage = "Connect"
    /\ status = Running
    /\ proxy \in BOOLEAN
    /\ aborted = FALSE

\* executePhase returned True: next.execute runs, or main exits 0
PhasePasses ==
    /\ stage # "Done"
    /\ IF Position(stage) = Len(Chain)
       THEN stage' = "Done" /\ status' = 0
       ELSE stage' = Chain[Position(stage) + 1] /\ UNCHANGED status
    /\ UNCHANGED <<proxy, aborted>>

\* executePhase returned False (or raised): execute returns False at once
PhaseFails ==
    /\ stage # "Done"
    /\ stage' = "Done"
    /\ status' \in FailCodes
    /\ UNCHANGED <<proxy, aborted>>

\* the operator aborts the run in any phase: exit 0, not an error
RunAborted ==
    /\ stage # "Done"
    /\ stage' = "Done" /\ status' = 0 /\ aborted' = TRUE
    /\ UNCHANGED proxy

Next == PhasePasses \/ PhaseFails \/ RunAborted

Spec == Init /\ [][Next]_<<stage, status, proxy, aborted>>
=============================================================================
