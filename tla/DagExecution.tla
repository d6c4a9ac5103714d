---------------------------- MODULE DagExecution ----------------------------
(* What running a pipeline promises, without saying how it is scheduled:     *)
(* every task of the graph goes UNKNOWN -> RUNNING -> DONE at most once, it  *)
(* starts only when all its parents are DONE, and the run is reported as     *)
(* finished only when every task is DONE.  A run may fail at any moment; the *)
(* promise does not say that the other tasks stop then, because the code     *)
(* does not stop them.                                                       *)
EXTENDS Naturals

CONSTANTS
    Tasks,      \* the names of the pipeline's components
    Edges       \* the pairs <<start, end>> made by Pipeline.connect

VARIABLES
    phase,      \* what became of each task
    outcome     \* what the caller of Pipeline.run knows

vars == <<phase, outcome>>

Phases == {"UNKNOWN", "RUNNING", "DONE"}

Init ==
    /\ phase = [t \in Tasks |-> "UNKNOWN"]
    /\ outcome = "open"

Start(t) ==
    /\ phase[t] = "UNKNOWN"
    /\ \A p \in Tasks : <<p, t>> \in Edges => phase[p] = "DONE"
    /\ phase' = [phase EXCEPT ![t] = "RUNNING"]
    /\ UNCHANGED outcome

Finish(t) ==
    /\ phase[t] = "RUNNING"
    /\ phase' = [phase EXCEPT ![t] = "DONE"]
    /\ UNCHANGED outcome

Succeed ==
    /\ outcome = "open"
    /\ \A t \in Tasks : phase[t] = "DONE"
    /\ outcome' = "finished"
    /\ UNCHANGED phase

Fail ==
    /\ outcome = "open"
    /\ outcome' = "failed"
    /\ UNCHANGED phase

Next ==
    \/ \E t \in Tasks : Start(t) \/ Finish(t)
    \/ Succeed
    \/ Fail

Spec == Init /\ [][Next]_vars
=============================================================================
