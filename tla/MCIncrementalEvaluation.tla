------------------------ MODULE MCIncrementalEvaluation ------------------------
(* An instance of the incremental evaluator for TLC.                         *)
EXTENDS IncrementalEvaluation, TLC

TargetSymmetry == Permutations(Targets)
=============================================================================
