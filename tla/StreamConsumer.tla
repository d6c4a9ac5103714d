---------------------------- MODULE StreamConsumer ----------------------------
(***************************************************************************)
(* What a consumer of a pipeline is promised (Pipeline.collect): the values *)
(* the pipeline means, in their order, and then the end or the exception.  *)
(***************************************************************************)
EXTENDS Naturals, Sequences

CONSTANT Promised    \* the stream of each pipeline

VARIABLES pipe, output, status

Init == output = <<>> /\ status = "running"

Deliver ==
    /\ status = "running" /\ Len(output) < Len(Promised[pipe].items)
    /\ output' = Append(output, Promised[pipe].items[Len(output) + 1])
    /\ UNCHANGED <<pipe, status>>

Finish ==
    /\ status = "running" /\ Len(output) = Len(Promised[pipe].items)
    /\ status' = Promised[pipe].end
    /\ UNCHANGED <<pipe, output>>

Next == Deliver \/ Finish
vars == <<pipe, output, status>>
Spec == Init /\ [][Next]_vars /\ WF_vars(Next)
=============================================================================
