------------------------- MODULE MCPlaybackRegistry -------------------------
(* Two threads that ask for devices, and two names for devices.            *)
EXTENDS PlaybackRegistry

CONSTANTS t1, t2, d1, d2

ThreadPair == {t1, t2}
TwoDevices == {d1, d2}
=============================================================================
