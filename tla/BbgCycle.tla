------------------------------ MODULE BbgCycle ------------------------------
(***************************************************************************)
(* A Bbg under a call that changes it, and where the call's pruning cycle  *)
(* (prune.rs) stands: what the direct path and the native preparation      *)
(* have in common.                                                         *)
(***************************************************************************)
EXTENDS BbgState

CONSTANT Configs     \* the pruning policies a Bbg may be built with

VARIABLES
  bbg,       \* the Bbg in memory
  plan,      \* pruning: the over-budget flag and the remaining candidates
  pc         \* where the call stands

NoPlan == [over |-> FALSE, cands |-> {}]

\* The loop of the cycle ends.
PruneOver == plan.cands = {} \/ (plan.over /\ ~OverBudget(bbg))
=============================================================================
