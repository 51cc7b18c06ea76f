------------------------- MODULE MCAdvancedRecorder -------------------------
(* Instances of AdvancedRecorder and its history for TLC.                   *)
EXTENDS AdvancedRecorderHistory, TLC

CONSTANTS u1, u2, src1, src2

TwoUsers == {u1, u2}
TwoSources == {src1, src2}
Symmetry == Permutations(TwoUsers) \cup Permutations(TwoSources)
=============================================================================
