----------------------------- MODULE MCActionQueue -----------------------------
(***************************************************************************)
(* ActionQueue for TLC: one bot beside the keeper, and ids that are        *)
(* symmetric, since which id an action is given never matters.            *)
(***************************************************************************)
EXTENDS ActionQueue, TLC

MCSymmetry == Permutations(Ids)
================================================================================
