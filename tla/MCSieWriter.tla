---------------------------- MODULE MCSieWriter ----------------------------
(* Instances of SieWriter for TLC.                                         *)
EXTENDS SieWriterLog, TLC

CONSTANTS t1, t2        \* two threads

ThreadPair == {t1, t2}
ThreadSymmetry == Permutations(ThreadPair)

\* A failed write leaves no byte, or a header and one byte of the payload.
MCTornLengths == {0, 13}
=============================================================================
