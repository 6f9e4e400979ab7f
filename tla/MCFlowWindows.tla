---------------------------- MODULE MCFlowWindows ----------------------------
(* Instances of the window manager for TLC.                                  *)
EXTENDS FlowWindowsRefinement, TLC

FlowSymmetry == Permutations(Flows)
=============================================================================
