------------------------- MODULE MCPlaybackChannel -------------------------
(* Instances of PlaybackChannel for TLC.  The default deltaT is 2 ticks of   *)
(* the clock, 4 of which make a second.                                     *)
EXTENDS PlaybackChannel

Csv(data, dt, res) == [data |-> data, deltaT |-> dt, resolution |-> res]

MCDefaultArray == <<3, 5, 7>>
MCArrays == {<<>>, <<2>>}

(* Files that are sampled faster than the default, by their spacing or by   *)
(* their resolution; each lacks what the other has.                         *)
FasterFiles == {Csv(<<>>, 1, NoResolution), Csv(<<11, 13>>, NoDeltaT, Ratio(1, 8))}

(* Slower ones: by their spacing, or by their resolution alone.             *)
SlowerFiles == {Csv(<<11, 13>>, 4, NoResolution), Csv(<<11, 13>>, NoDeltaT, Ratio(1, 2))}
=============================================================================
