-------------------------- MODULE MCPlaybackDevice --------------------------
(***************************************************************************)
(* The two halves of a playback device: the acquisition loop with the      *)
(* property writes and the destructor, and the log it hands out.  They     *)
(* share neither state nor a lock, so an instance is one of them: `part'   *)
(* says which, and the other rests.                                        *)
(***************************************************************************)
EXTENDS PlaybackDevice

CONSTANTS Sizes, MaxBytes, MaxFiles

(* A client asks for a number of bytes, or with -1 for all the rest.        *)
ASSUME SizesAssumption == Sizes \subseteq Nat \cup {-1}

(* For the runs: all the rest, one byte, two bytes.                         *)
ChunkSizes == {-1, 1, 2}

VARIABLES
    part,               \* "loop" or "log"
    loggingEnabled, path, content, bytes, pc, request, handle, fileSize,
    downloaded, announced, disturbed, wasOn

logVars == <<loggingEnabled, path, content, bytes, pc, request, handle, fileSize,
             downloaded, announced, disturbed, wasOn>>

Log == INSTANCE PlaybackLog

(* One initial state is enough of the half that rests.                      *)
MCInit ==
    /\ Init /\ Log!Init
    /\ \/ part = "loop" /\ ~loggingEnabled
       \/ part = "log" /\ acqLoopTime = CHOOSE t \in LoopTimes : TRUE

MCNext ==
    /\ UNCHANGED part
    /\ \/ part = "loop" /\ Next /\ UNCHANGED logVars
       \/ part = "log" /\ Log!Next /\ UNCHANGED vars

(* A client that rests is in no call, and owes no step.                     *)
MCSpec ==
    /\ MCInit /\ [][MCNext]_<<part, vars, logVars>>
    /\ part = "loop" => Fairness
    /\ Log!Fairness

(* PlaybackLog: what a client puts together is the beginning of the log,    *)
(* and as much as the log file info announced.                              *)
ChunksFitTogether == Log!ChunksFitTogether

(* PlaybackLog: a call of onGetLog that begins after logging was switched   *)
(* off hands out nothing.                                                   *)
NothingIfOff == Log!NothingIfOff

(* PlaybackLog: a download ends.                                            *)
DownloadEnds == Log!DownloadEnds
=============================================================================
