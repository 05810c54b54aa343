-------------------------- MODULE MCWorkflowApproval --------------------------
(***************************************************************************)
(* WorkflowApproval for TLC: which continuation or caller a value is never *)
(* matters, so both sets are symmetric in the runs of state properties.    *)
(***************************************************************************)
EXTENDS WorkflowApproval, TLC

CallerSymmetry == Permutations(Callers) \cup Permutations(Continuations)
================================================================================
