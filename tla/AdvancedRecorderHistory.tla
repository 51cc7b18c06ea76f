---------------------- MODULE AdvancedRecorderHistory ----------------------
(* AdvancedRecorder with a history of what users and failures did, for the  *)
(* promises that hold only without it.                                      *)
EXTENDS AdvancedRecorder

VARIABLES
    stale,          \* in this recording, callbacks of two users were due at once
    failed          \* in this recording, the file or its preamble failed

history == <<stale, failed>>

CallbacksOverlap ==
    \E u, v \in Users : u # v /\ user[u].step # "idle" /\ user[v].step # "idle"

FileFails ==
    \/ writer' = NoWriter
    \/ writer = NoWriter /\ \E p \in 1..portCount' : Connected(p)' /\ signals'[p] = NoSignal

HInit == Init /\ stale = FALSE /\ failed = FALSE

HNext ==
    /\ Next
    /\ stale' = (recordingActive' /\ (stale \/ CallbacksOverlap'))
    /\ failed' = (recordingActive' /\ (failed \/ FileFails))

HSpec == HInit /\ [][HNext]_<<vars, history>>

(* advanced_recorder_impl.h, onDisconnected: ports are removed "so that     *)
(* only one unconnected port is always present at the end (it is however    *)
(* possible for additional ports to be disconnected if there are still      *)
(* higher-numbered ports in use)".  Not so, even with one user: connecting  *)
(* one of those additional ports adds another port at the end.              *)
OneFreePortAtEnd ==
    ~CallbackDue /\ portCount >= 2 => Connected(portCount - 1)

(* Comment in reconfigure: signal objects are made "for newly-connected     *)
(* input ports" and destroyed for ports "no longer connected".  Once every  *)
(* callback has run, and unless the file failed in this recording:          *)
(* recording means that there is a writer and that exactly the connected    *)
(* ports have an object, which records the signal the port is connected to  *)
(* (or, if callbacks overtook each other, one it was connected to); not     *)
(* recording, that there is no writer and no object.                        *)
RecordingMatchesState ==
    ~CallbackDue /\ ~failed =>
        /\ recordingActive <=> writer # NoWriter
        /\ \A p \in Ports :
              signals[p] # NoSignal <=> recordingActive /\ p <= portCount /\ Connected(p)
        /\ ~stale => \A p \in Ports :
              signals[p] # NoSignal => signals[p].source = connection[p]
=============================================================================
