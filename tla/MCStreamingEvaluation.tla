------------------------- MODULE MCStreamingEvaluation -------------------------
(* An instance of a streaming evaluation for TLC.                            *)
EXTENDS StreamingEvaluation, TLC

TargetSymmetry == Permutations(Targets)
=============================================================================
