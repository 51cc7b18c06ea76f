--------------------------- MODULE MCRecorderApp ---------------------------
(* An instance of RecorderApp for TLC.                                     *)
EXTENDS RecorderApp

ASSUME RecorderAppAssumption == RecorderAppConstants
=============================================================================
