--------------------------- MODULE MCCameraDevice ---------------------------
(***************************************************************************)
(* The two device modules whose devices stamp data with a counter of       *)
(* captured samples: the camera device with its capture threads, and the   *)
(* MTIG710 device with its driver.  The modules share nothing, so an       *)
(* instance is one of them: `part' says which, and the other rests.        *)
(***************************************************************************)
EXTENDS CameraDevice

CONSTANTS Drivers, Receivers, MayFail, Counts, Rates, MaxPackets, MaxWrites

(* Sizes of the data that addData is given, and of a list of connections.   *)
ASSUME MtigAssumption == Counts \subseteq Nat /\ Receivers \in Nat

VARIABLES
    part,               \* "camera" or "mtig710"
    m_deviceIndex, mtig, adding, packet, received, failed, calls, writes

mtigVars == <<m_deviceIndex, mtig, adding, packet, received, failed, calls, writes>>

Mtig == INSTANCE Mtig710

MCInit == part \in {"camera", "mtig710"} /\ Init /\ Mtig!Init

MCNext ==
    /\ UNCHANGED part
    /\ \/ part = "camera" /\ Next /\ UNCHANGED mtigVars
       \/ part = "mtig710" /\ Mtig!Next /\ UNCHANGED vars

MCSpec ==
    /\ MCInit /\ [][MCNext]_<<part, vars, mtigVars>>
    /\ part = "camera" => Fairness

(* Mtig710: the samples of a device are contiguous in time to every         *)
(* receiver, whatever receivers throw and whenever SampleRate is written.   *)
TimesContiguous == Mtig!TimesContiguous
=============================================================================
