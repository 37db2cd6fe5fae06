----------------------------- MODULE MCWorkflow -----------------------------
(* A small instance of Workflow: two replicas and a program with two waits.   *)
EXTENDS Workflow, TLC

CONSTANTS p1, p2

MCProgram == <<"timedWait", "step", "wait">>
MCSymmetry == Permutations(Replicas)

=============================================================================
