----------------------------- MODULE MCServices -----------------------------
(* The parts whose promise is that something ends, one at a time, for TLC: a   *)
(* launch or handoff, the tail of a log, and a rescan. They share no state.    *)
EXTENDS Handoff, LogTail, Rescan

CONSTANTS handing, tailing, scanning

VARIABLE part  \* the part that runs; the others stay in one initial state

serviceVars == <<part, vars, logVars, rescanVars>>

LogRests == named = CHOOSE f \in Logs : TRUE

RescanRests == daemon = Calm

ServicesInit ==
    /\ part \in {handing, tailing, scanning}
    /\ Init
    /\ LogInit /\ (part # tailing => LogRests)
    /\ RescanInit /\ (part # scanning => RescanRests)

ServicesNext ==
    /\ UNCHANGED part
    /\ \/ part = handing /\ Next /\ UNCHANGED <<logVars, rescanVars>>
       \/ part = tailing /\ LogNext /\ UNCHANGED <<vars, rescanVars>>
       \/ part = scanning /\ RescanNext /\ UNCHANGED <<vars, logVars>>

\* A part that rests has nothing to do, so that its fairness asks for nothing.
ServicesSpec ==
    /\ ServicesInit /\ [][ServicesNext]_serviceVars
    /\ Fairness /\ LogFairness /\ RescanFairness

\* Types of the two that only this run has; the handoff's are in MCParts.
ServicesTypeOK == LogTypeOK /\ RescanTypeOK
=============================================================================
