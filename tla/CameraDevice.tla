---------------------------- MODULE CameraDevice ----------------------------
(***************************************************************************)
(* The camera device: one capture thread per camera, the device's          *)
(* start/stop/propertyChanged, and its destruction.  The capture threads   *)
(* share m_samplesCaptured, which is no atomic: a frame is stamped with    *)
(* the value read, and the counter is advanced by a later load and store.  *)
(***************************************************************************)
EXTENDS Integers, Sequences, FiniteSets

CONSTANTS
    Cameras,            \* the cameras found at construction
    FrameSizes,         \* sizes of an encoded frame
    MaxFrames,          \* bound: frames that are sent
    MaxChanges          \* bound: writes to SampleRate by the owner

ASSUME CameraDeviceAssumption ==
    /\ IsFiniteSet(Cameras)
    /\ FrameSizes \subseteq Nat \ {0}
    /\ MaxFrames \in Nat /\ MaxChanges \in Nat

VARIABLES
    started, quitFlag, samplesCaptured,     \* members of the device
    threads,            \* m_threads: [camera, pc, joined, first, size, load]
    control,            \* what the owner's thread does
    joining,            \* loop index of stop()
    after,              \* what stop() was called for: "change" or "destroy"
    frames, changes,    \* how many there were, for the bounds
    sent,               \* camera -> [start, end] of its last packet
    lost                \* history: a thread has overwritten another's update
                        \* of samplesCaptured

device == <<started, quitFlag, samplesCaptured>>
vars == <<device, threads, control, joining, after, frames, changes, sent, lost>>

NewThread(c) ==
    [camera |-> c, pc |-> "open", joined |-> FALSE, first |-> 0, size |-> 0, load |-> 0]

(* start() pushes one thread per channel, in the order of the channels;     *)
(* the cameras are interchangeable, so any order will do.                   *)
StartThreads(ts) ==
    LET order == CHOOSE f \in [1..Cardinality(Cameras) -> Cameras] :
                    \A i, j \in DOMAIN f : f[i] = f[j] => i = j
    IN  ts \o [i \in DOMAIN order |-> NewThread(order[i])]

(* The constructor: initProperties, createCameraChannels, start.            *)
Init ==
    /\ started = TRUE /\ quitFlag = FALSE /\ samplesCaptured = 0
    /\ threads = StartThreads(<<>>)
    /\ control = "idle" /\ joining = 0 /\ after = "change"
    /\ frames = 0 /\ changes = 0
    /\ sent = [c \in Cameras |-> [start |-> 0, end |-> 0]]
    /\ lost = FALSE

-----------------------------------------------------------------------------
(* cameraDataThreadFunction                                                 *)

Step(i, from, to) == threads[i].pc = from /\ threads' = [threads EXCEPT ![i].pc = to]

unshared == <<started, quitFlag, control, joining, after, changes>>

(* The camera cannot be opened, or gives an empty frame.                    *)
EndOfFrames(i) ==
    /\ threads[i].pc \in {"open", "capture"}
    /\ threads' = [threads EXCEPT ![i].pc = "finished"]
    /\ UNCHANGED <<unshared, frames, samplesCaptured, sent, lost>>

OpenCamera(i) ==
    /\ Step(i, "open", "loop")
    /\ UNCHANGED <<unshared, frames, samplesCaptured, sent, lost>>

(* while (!quit_flag)                                                       *)
CheckQuit(i) ==
    /\ Step(i, "loop", IF quitFlag THEN "finished" ELSE "capture")
    /\ UNCHANGED <<unshared, frames, samplesCaptured, sent, lost>>

(* A frame is captured and encoded; addData stamps the domain packet.       *)
Capture(i) ==
    /\ threads[i].pc = "capture" /\ frames < MaxFrames
    /\ \E n \in FrameSizes :
          threads' = [threads EXCEPT ![i].pc = "send", ![i].first = samplesCaptured, ![i].size = n]
    /\ frames' = frames + 1
    /\ UNCHANGED <<unshared, samplesCaptured, sent, lost>>

(* Bound: what is captured after MaxFrames frames is not sent.               *)
CaptureUnsent(i) ==
    /\ frames = MaxFrames
    /\ Step(i, "capture", "loop")
    /\ UNCHANGED <<unshared, frames, samplesCaptured, sent, lost>>

SendPacket(i) ==
    /\ Step(i, "send", "load")
    /\ sent' = [sent EXCEPT ![threads[i].camera] =
                    [start |-> threads[i].first, end |-> threads[i].first + threads[i].size]]
    /\ UNCHANGED <<unshared, frames, samplesCaptured, lost>>

(* Sending fails: addData logs and rethrows, the exception leaves the       *)
(* thread's function, and the process ends.                                 *)
SendThrows(i) ==
    /\ control \notin {"gone", "terminated"} /\ threads[i].pc = "send"
    /\ control' = "terminated"
    /\ UNCHANGED <<device, threads, joining, after, frames, changes, sent, lost>>

(* m_samplesCaptured += sampleCount: a load ...                             *)
LoadCaptured(i) ==
    /\ threads[i].pc = "load"
    /\ threads' = [threads EXCEPT ![i].pc = "store", ![i].load = samplesCaptured]
    /\ UNCHANGED <<unshared, frames, samplesCaptured, sent, lost>>

(* Mutant of AddCaptured: it counts frames instead of samples.              *)
AddOneCaptured(i) == samplesCaptured' = threads[i].load + 1

(* ... and a store; then the thread sleeps.                                 *)
AddCaptured(i) == samplesCaptured' = threads[i].load + threads[i].size

StoreCaptured(i) ==
    /\ threads[i].pc = "store"
    /\ threads' = [threads EXCEPT ![i].pc = "loop", ![i].first = 0, ![i].size = 0, ![i].load = 0]
    /\ AddCaptured(i)
    /\ lost' = (lost \/ samplesCaptured # threads[i].load)
    /\ UNCHANGED <<unshared, frames, sent>>

-----------------------------------------------------------------------------
(* propertyChanged and the destructor                                       *)

(* Mutant of Quit: the threads are not asked to end.                        *)
DoNotQuit == UNCHANGED quitFlag

Quit == quitFlag' = TRUE

Stop(why) ==
    /\ after' = why
    /\ IF started
       THEN Quit /\ joining' = 1 /\ control' = "joining"
       ELSE control' = "stopped" /\ UNCHANGED <<quitFlag, joining>>

(* SampleRate is read-only for users: its owner writes it, or a saved       *)
(* configuration that is loaded.                                            *)
PropertyChanged ==
    /\ control = "idle" /\ changes < MaxChanges
    /\ changes' = changes + 1
    /\ Stop("change")
    /\ UNCHANGED <<started, samplesCaptured, threads, frames, sent, lost>>

Destroy ==
    /\ control = "idle"
    /\ Stop("destroy")
    /\ UNCHANGED <<started, samplesCaptured, threads, frames, changes, sent, lost>>

(* m_threads[i].join()                                                      *)
Join ==
    /\ control = "joining" /\ joining <= Len(threads)
    /\ threads[joining].pc = "finished" /\ ~threads[joining].joined
    /\ threads' = [threads EXCEPT ![joining].joined = TRUE]
    /\ joining' = joining + 1
    /\ UNCHANGED <<device, control, after, frames, changes, sent, lost>>

(* The thread was joined by an earlier stop(): join() throws system_error.  *)
(* propertyChanged is left with it; out of the destructor it terminates.    *)
JoinThrows ==
    /\ control = "joining" /\ joining <= Len(threads)
    /\ threads[joining].joined
    /\ control' = IF after = "destroy" THEN "terminated" ELSE "idle"
    /\ UNCHANGED <<device, threads, joining, after, frames, changes, sent, lost>>

(* Mutant of JoinsDone: the last thread is not waited for.                  *)
JoinsDoneEarly == joining >= Len(threads)

JoinsDone == joining > Len(threads)

AllJoined ==
    /\ control = "joining" /\ JoinsDone
    /\ started' = FALSE
    /\ control' = "stopped"
    /\ UNCHANGED <<quitFlag, samplesCaptured, threads, joining, after, frames, changes, sent, lost>>

(* start(): configure, m_quitFlag = m_started, one thread per channel.      *)
Restart ==
    /\ control = "stopped" /\ after = "change"
    /\ quitFlag' = started
    /\ threads' = StartThreads(threads)
    /\ started' = TRUE
    /\ control' = "idle"
    /\ UNCHANGED <<samplesCaptured, joining, after, frames, changes, sent, lost>>

EndDestroy ==
    /\ control = "stopped" /\ after = "destroy"
    /\ control' = "gone"
    /\ UNCHANGED <<device, threads, joining, after, frames, changes, sent, lost>>

(* Nothing runs on once the device or the process is gone.                   *)
CaptureStep(i) ==
    /\ control \notin {"gone", "terminated"}
    /\ \/ EndOfFrames(i) \/ OpenCamera(i) \/ CheckQuit(i) \/ Capture(i) \/ CaptureUnsent(i)
       \/ SendPacket(i) \/ LoadCaptured(i) \/ StoreCaptured(i)

ControlStep == Join \/ JoinThrows \/ AllJoined \/ Restart \/ EndDestroy

Next ==
    \/ \E i \in DOMAIN threads : CaptureStep(i) \/ SendThrows(i)
    \/ PropertyChanged \/ Destroy \/ ControlStep

Spec == Init /\ [][Next]_vars

(* Started threads keep running, and a camera asked for a frame answers.    *)
Fairness ==
    /\ WF_vars(ControlStep)
    /\ \A i \in 1..(Cardinality(Cameras) * (MaxChanges + 1)) :
          WF_vars(i \in DOMAIN threads /\ CaptureStep(i))

-----------------------------------------------------------------------------
(* Properties                                                              *)

TypeOK ==
    /\ started \in BOOLEAN /\ quitFlag \in BOOLEAN /\ samplesCaptured \in Nat
    /\ threads \in Seq([camera : Cameras, joined : BOOLEAN,
                        pc : {"open", "loop", "capture", "send", "load", "store", "finished"},
                        first : Nat, size : Nat, load : Nat])
    /\ control \in {"idle", "joining", "stopped", "gone", "terminated"}
    /\ joining \in 0..(Len(threads) + 1)
    /\ after \in {"change", "destroy"}
    /\ frames \in 0..MaxFrames /\ changes \in 0..MaxChanges
    /\ sent \in [Cameras -> [start : Nat, end : Nat]]
    /\ lost \in BOOLEAN

Running(i) == threads[i].pc # "finished"

(* stop(), "Wait until all threads finished.": when it returns, no capture   *)
(* thread runs, also after repeated changes of the rate; so start() never   *)
(* gives a camera a second thread (and every variable keeps its type).      *)
StopWaitsForAll ==
    /\ TypeOK
    /\ control \in {"stopped", "gone"} => \A i \in DOMAIN threads : ~Running(i)

(* No packet of a camera starts before its previous one ended, however the  *)
(* threads of several cameras interleave at the counter they share, as long *)
(* as no thread has overwritten another's update of it.  Such an update can *)
(* be lost with two cameras (never with one), as nothing protects the       *)
(* counter; a packet may then start before the one before it has ended.     *)
TimesNeverOverlap ==
    [][~lost => \A c \in Cameras : sent'[c] # sent[c] => sent'[c].start >= sent[c].end]_vars

(* Destruction does not hang: the destructor's stop() returns, or ends the  *)
(* process when a thread was already joined by an earlier stop().           *)
DestroyEnds ==
    (control = "joining" /\ after = "destroy") ~> (control \in {"gone", "terminated"})
=============================================================================
