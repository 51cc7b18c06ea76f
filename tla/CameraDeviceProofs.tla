------------------------- MODULE CameraDeviceProofs -------------------------
(* Theorems about CameraDevice and Mtig710, for any cameras, frame sizes,   *)
(* drivers, receivers and bounds.                                           *)
EXTENDS MCCameraDevice, SequenceTheorems, FiniteSetTheorems, TLAPS

CaptureThreads == [camera : Cameras, joined : BOOLEAN,
                   pc : {"open", "loop", "capture", "send", "load", "store", "finished"},
                   first : Nat, size : Nat, load : Nat]

(* Joining goes over threads that ended; between calls the device is started. *)
JoinInv ==
    /\ control \in {"idle", "joining"} => started
    /\ control = "joining" => joining >= 1 /\ \A i \in DOMAIN threads : i < joining => ~Running(i)

StopInv == StopWaitsForAll /\ JoinInv

-----------------------------------------------------------------------------
(* Steps of a thread, and of start()                                        *)

LEMMA SeqOfThreads == TypeOK => threads \in Seq(CaptureThreads) /\ DOMAIN threads = 1..Len(threads)
  <1> SUFFICES ASSUME TypeOK
               PROVE threads \in Seq(CaptureThreads) /\ DOMAIN threads = 1..Len(threads)
    OBVIOUS
  <1>1. threads \in Seq(CaptureThreads)
    BY DEF TypeOK, CaptureThreads
  <1> QED
    BY <1>1, LenProperties

(* One record is replaced: what SequenceTheorems says, for these threads.   *)
LEMMA ReplaceThread ==
    ASSUME TypeOK, NEW i \in DOMAIN threads, NEW e \in CaptureThreads,
           threads' = [threads EXCEPT ![i] = e]
    PROVE  /\ threads' \in Seq(CaptureThreads)
           /\ Len(threads') = Len(threads) /\ DOMAIN threads' = DOMAIN threads
           /\ threads'[i] = e
           /\ \A j \in DOMAIN threads : j # i => threads'[j] = threads[j]
  <1>1. threads \in Seq(CaptureThreads) /\ i \in 1..Len(threads)
    BY SeqOfThreads
  <1>2. /\ threads' \in Seq(CaptureThreads) /\ Len(threads') = Len(threads)
        /\ \A j \in 1..Len(threads) : threads'[j] = IF j = i THEN e ELSE threads[j]
    BY <1>1, ExceptSeq
  <1>3. DOMAIN threads' = 1..Len(threads') /\ DOMAIN threads = 1..Len(threads)
    BY <1>1, <1>2, LenProperties
  <1> QED
    BY <1>2, <1>3

(* A step of a capture thread: it was running, and the others rest.         *)
LEMMA CaptureStepThread ==
    ASSUME TypeOK, NEW i \in DOMAIN threads, CaptureStep(i)
    PROVE  /\ Running(i)
           /\ \E e \in CaptureThreads :
                 threads' = [threads EXCEPT ![i] = e] /\ e.joined = threads[i].joined
           /\ UNCHANGED unshared
           /\ samplesCaptured' \in Nat /\ frames' \in 0..MaxFrames /\ lost' \in BOOLEAN
           /\ sent' \in [Cameras -> [start : Nat, end : Nat]]
  <1> USE CameraDeviceAssumption
  <1>0. threads[i] \in CaptureThreads
    BY SeqOfThreads, ElementOfSeq
  <1> DEFINE with(p) == [threads[i] EXCEPT !.pc = p]
  <1>1. ASSUME NEW p \in {"open", "loop", "capture", "send", "load", "store", "finished"}
        PROVE  with(p) \in CaptureThreads /\ with(p).joined = threads[i].joined
    BY <1>0 DEF CaptureThreads
  <1>2. CASE EndOfFrames(i)
    BY <1>0, <1>1, <1>2 DEF EndOfFrames, TypeOK, Running
  <1>3. CASE OpenCamera(i)
    BY <1>0, <1>1, <1>3 DEF OpenCamera, Step, TypeOK, Running
  <1>4. CASE CheckQuit(i)
    BY <1>0, <1>1, <1>4 DEF CheckQuit, Step, TypeOK, Running
  <1>5. CASE Capture(i)
    <2>1. PICK n \in FrameSizes :
             threads' = [threads EXCEPT ![i].pc = "send", ![i].first = samplesCaptured,
                                        ![i].size = n]
      BY <1>5 DEF Capture
    <2> DEFINE e == [threads[i] EXCEPT !.pc = "send", !.first = samplesCaptured, !.size = n]
    <2>2. e \in CaptureThreads /\ e.joined = threads[i].joined
      BY <1>0 DEF CaptureThreads, TypeOK
    <2>3. threads' = [threads EXCEPT ![i] = e]
      BY <2>1
    <2>4. frames' \in 0..MaxFrames
      <3>1. frames \in 0..MaxFrames /\ frames < MaxFrames /\ frames' = frames + 1
        BY <1>5 DEF Capture, TypeOK
      <3> QED
        BY <3>1
    <2> QED
      BY <1>5, <2>2, <2>3, <2>4 DEF Capture, TypeOK, Running
  <1>6. CASE CaptureUnsent(i)
    BY <1>0, <1>1, <1>6 DEF CaptureUnsent, Step, TypeOK, Running
  <1>7. CASE SendPacket(i)
    <2>1. sent' \in [Cameras -> [start : Nat, end : Nat]]
      <3>1. [start |-> threads[i].first, end |-> threads[i].first + threads[i].size]
                \in [start : Nat, end : Nat]
        BY <1>0 DEF CaptureThreads
      <3> QED
        BY <1>7, <3>1 DEF SendPacket, TypeOK
    <2> QED
      BY <1>0, <1>1, <1>7, <2>1 DEF SendPacket, Step, TypeOK, Running
  <1>8. CASE LoadCaptured(i)
    <2> DEFINE e == [threads[i] EXCEPT !.pc = "store", !.load = samplesCaptured]
    <2>1. e \in CaptureThreads /\ e.joined = threads[i].joined
      BY <1>0 DEF CaptureThreads, TypeOK
    <2>2. threads' = [threads EXCEPT ![i] = e]
      BY <1>8 DEF LoadCaptured
    <2> QED
      BY <1>8, <2>1, <2>2 DEF LoadCaptured, TypeOK, Running
  <1>9. CASE StoreCaptured(i)
    <2> DEFINE e == [threads[i] EXCEPT !.pc = "loop", !.first = 0, !.size = 0, !.load = 0]
    <2>1. samplesCaptured' \in Nat /\ lost' \in BOOLEAN
      <3>1. threads[i].load \in Nat /\ threads[i].size \in Nat
        BY <1>0 DEF CaptureThreads
      <3>2. /\ samplesCaptured' = threads[i].load + threads[i].size
            /\ lost' = (lost \/ samplesCaptured # threads[i].load) /\ lost \in BOOLEAN
        BY <1>9 DEF StoreCaptured, AddCaptured, TypeOK
      <3> QED
        BY <3>1, <3>2
    <2>2. e \in CaptureThreads /\ e.joined = threads[i].joined
      BY <1>0 DEF CaptureThreads
    <2>3. threads' = [threads EXCEPT ![i] = e]
      BY <1>9 DEF StoreCaptured
    <2> QED
      BY <1>9, <2>1, <2>2, <2>3 DEF StoreCaptured, TypeOK, Running
  <1> QED
    BY <1>2, <1>3, <1>4, <1>5, <1>6, <1>7, <1>8, <1>9 DEF CaptureStep

(* start() adds one thread per camera.                                      *)
LEMMA StartType ==
    ASSUME NEW ts \in Seq(CaptureThreads)
    PROVE  /\ StartThreads(ts) \in Seq(CaptureThreads)
           /\ Len(StartThreads(ts)) = Len(ts) + Cardinality(Cameras)
           /\ Len(StartThreads(ts)) \in Nat
           /\ \A i \in 1..Len(StartThreads(ts)) :
                 IF i <= Len(ts) THEN StartThreads(ts)[i] = ts[i]
                 ELSE StartThreads(ts)[i].pc = "open"
           /\ \A i, j \in (Len(ts) + 1)..Len(StartThreads(ts)) :
                 StartThreads(ts)[i].camera = StartThreads(ts)[j].camera => i = j
  <1> DEFINE injective(f) == \A i, j \in DOMAIN f : f[i] = f[j] => i = j
             n == Cardinality(Cameras)
             order == CHOOSE f \in [1..n -> Cameras] : injective(f)
             new == [i \in DOMAIN order |-> NewThread(order[i])]
  <1>1. n \in Nat /\ ExistsBijection(1..n, Cameras)
    BY CameraDeviceAssumption, FS_CardinalityType
  <1>2. \E f \in [1..n -> Cameras] : injective(f)
    BY <1>1 DEF ExistsBijection, Bijection, Injection, IsInjective
  <1> HIDE DEF n
  <1>3. order \in [1..n -> Cameras] /\ injective(order)
    BY <1>2
  <1> HIDE DEF order
  <1>4. \A i \in 1..n :
           /\ NewThread(order[i]) \in CaptureThreads /\ NewThread(order[i]).pc = "open"
           /\ NewThread(order[i]).camera = order[i]
    BY <1>3, CameraDeviceAssumption DEF NewThread, CaptureThreads
  <1>5. /\ new \in [1..n -> CaptureThreads] /\ n \in Nat /\ \A i \in 1..n : new[i].pc = "open"
        /\ \A i, j \in 1..n : new[i].camera = new[j].camera => i = j
    BY <1>1, <1>3, <1>4
  <1> HIDE DEF new
  <1>6. new \in Seq(CaptureThreads) /\ Len(new) = n
    BY <1>5, LenProperties
  <1>7. StartThreads(ts) = ts \o new
    BY DEF StartThreads, new, order, n
  <1>8. /\ ts \o new \in Seq(CaptureThreads) /\ Len(ts \o new) = Len(ts) + n
        /\ \A i \in 1..Len(ts) + n : (ts \o new)[i] = IF i <= Len(ts) THEN ts[i] ELSE new[i - Len(ts)]
        /\ Len(ts) \in Nat
    BY <1>6, ConcatProperties, LenProperties
  <1>9. ASSUME NEW i \in 1..Len(ts) + n
        PROVE  IF i <= Len(ts) THEN (ts \o new)[i] = ts[i] ELSE (ts \o new)[i].pc = "open"
    <2>1. i > Len(ts) => i - Len(ts) \in 1..n
      BY <1>5, <1>8
    <2> QED
      BY <1>5, <1>8, <2>1
  <1>10. ASSUME NEW i \in (Len(ts) + 1)..(Len(ts) + n), NEW j \in (Len(ts) + 1)..(Len(ts) + n),
                (ts \o new)[i].camera = (ts \o new)[j].camera
         PROVE  i = j
    <2>1. /\ i - Len(ts) \in 1..n /\ j - Len(ts) \in 1..n
          /\ i \in 1..Len(ts) + n /\ j \in 1..Len(ts) + n /\ ~(i <= Len(ts)) /\ ~(j <= Len(ts))
      BY <1>5, <1>8, <1>10
    <2>2. (ts \o new)[i] = new[i - Len(ts)] /\ (ts \o new)[j] = new[j - Len(ts)]
      BY <1>8, <2>1
    <2>3. i - Len(ts) = j - Len(ts)
      BY <1>5, <1>10, <2>1, <2>2
    <2> QED
      BY <1>8, <2>3
  <1>11. Len(ts) + n \in Nat
    BY <1>5, <1>8
  <1> QED
    BY <1>7, <1>8, <1>9, <1>10, <1>11 DEF n
-----------------------------------------------------------------------------
(* stop() waits for all threads                                             *)

LEMMA StopInit == Init => StopInv
  <1> SUFFICES ASSUME Init PROVE StopInv
    OBVIOUS
  <1> USE CameraDeviceAssumption
  <1>1. threads \in Seq(CaptureThreads) /\ Len(threads) \in Nat
    BY StartType, EmptySeq DEF Init
  <1>2. TypeOK
    <2>1. sent \in [Cameras -> [start : Nat, end : Nat]]
      BY DEF Init
    <2>2. 0 \in 0..MaxFrames /\ 0 \in 0..MaxChanges /\ 0 \in 0..(Len(threads) + 1)
      BY <1>1
    <2> QED
      BY <1>1, <2>1, <2>2 DEF Init, TypeOK, CaptureThreads
  <1> QED
    BY <1>2 DEF Init, StopInv, StopWaitsForAll, JoinInv

LEMMA StopNext == StopInv /\ [Next]_vars => StopInv'
  <1> SUFFICES ASSUME StopInv, [Next]_vars PROVE StopInv'
    OBVIOUS
  <1> USE CameraDeviceAssumption
  <1>0. /\ TypeOK /\ threads \in Seq(CaptureThreads)
        /\ DOMAIN threads = 1..Len(threads) /\ Len(threads) \in Nat
    BY SeqOfThreads, LenProperties DEF StopInv, StopWaitsForAll
  <1>1. ASSUME NEW i \in DOMAIN threads, CaptureStep(i)
        PROVE  StopInv'
    <2>1. PICK e \in CaptureThreads : threads' = [threads EXCEPT ![i] = e]
      BY <1>0, <1>1, CaptureStepThread
    <2>2. /\ threads' \in Seq(CaptureThreads) /\ Len(threads') = Len(threads)
          /\ DOMAIN threads' = DOMAIN threads
          /\ \A j \in DOMAIN threads : j # i => threads'[j] = threads[j]
      BY <1>0, <2>1, ReplaceThread
    <2>3. /\ Running(i) /\ UNCHANGED unshared /\ samplesCaptured' \in Nat
          /\ frames' \in 0..MaxFrames /\ lost' \in BOOLEAN
          /\ sent' \in [Cameras -> [start : Nat, end : Nat]]
      BY <1>0, <1>1, CaptureStepThread
    <2>4. TypeOK'
      BY <1>0, <2>2, <2>3 DEF TypeOK, CaptureThreads, unshared
    <2>5. control \notin {"stopped", "gone"}
      BY <2>3 DEF StopInv, StopWaitsForAll
    <2>6. JoinInv'
      BY <2>2, <2>3 DEF StopInv, JoinInv, Running, unshared
    <2> QED
      BY <2>3, <2>4, <2>5, <2>6 DEF StopInv, StopWaitsForAll, unshared
  <1>2. ASSUME NEW why \in {"change", "destroy"}, Stop(why), control = "idle", changes' \in 0..MaxChanges,
               UNCHANGED <<started, samplesCaptured, threads, frames, sent, lost>>
        PROVE  StopInv'
    BY <1>0, <1>2 DEF Stop, Quit, StopInv, StopWaitsForAll, TypeOK, JoinInv, Running
  <1>3. CASE PropertyChanged
    BY <1>0, <1>2, <1>3 DEF PropertyChanged, TypeOK
  <1>4. CASE Destroy
    BY <1>0, <1>2, <1>4 DEF Destroy, TypeOK
  <1>5. CASE Join
    <2> DEFINE e == [threads[joining] EXCEPT !.joined = TRUE]
    <2>0. joining \in DOMAIN threads /\ threads[joining] \in CaptureThreads
      BY <1>0, <1>5, ElementOfSeq DEF Join, StopInv, JoinInv, TypeOK
    <2>1. e \in CaptureThreads /\ e.pc = "finished" /\ threads' = [threads EXCEPT ![joining] = e]
      BY <1>5, <2>0 DEF Join, CaptureThreads
    <2> HIDE DEF e
    <2>2. /\ threads' \in Seq(CaptureThreads) /\ Len(threads') = Len(threads)
          /\ DOMAIN threads' = DOMAIN threads /\ threads'[joining] = e
          /\ \A j \in DOMAIN threads : j # joining => threads'[j] = threads[j]
      BY <1>0, <2>0, <2>1, ReplaceThread
    <2>3. TypeOK'
      <3>1. joining' \in 0..(Len(threads') + 1)
        <4>1. joining \in Nat /\ joining <= Len(threads) /\ joining' = joining + 1
          BY <1>0, <1>5 DEF Join, TypeOK
        <4> QED
          BY <1>0, <2>2, <4>1
      <3> QED
        BY <1>0, <1>5, <2>2, <3>1 DEF Join, TypeOK, CaptureThreads, device
    <2>4. JoinInv'
      BY <1>0, <1>5, <2>0, <2>1, <2>2 DEF Join, StopInv, JoinInv, Running, device
    <2> QED
      BY <1>5, <2>3, <2>4 DEF Join, StopInv, StopWaitsForAll
  <1>6. CASE JoinThrows
    BY <1>0, <1>6 DEF JoinThrows, StopInv, StopWaitsForAll, TypeOK, JoinInv, Running, device
  <1>7. CASE AllJoined
    <2>1. \A i \in DOMAIN threads : ~Running(i)
      <3>1. joining > Len(threads) /\ joining \in Nat /\ control = "joining"
        BY <1>0, <1>7 DEF AllJoined, JoinsDone, TypeOK
      <3> QED
        BY <1>0, <3>1 DEF StopInv, JoinInv
    <2>2. TypeOK'
      BY <1>0, <1>7 DEF AllJoined, TypeOK
    <2> QED
      BY <1>7, <2>1, <2>2 DEF AllJoined, StopInv, StopWaitsForAll, JoinInv, Running
  <1>8. CASE Restart
    <2>1. threads' \in Seq(CaptureThreads) /\ Len(threads') \in Nat /\ Len(threads') >= Len(threads)
      BY <1>0, <1>8, StartType, FS_CardinalityType DEF Restart
    <2>2. TypeOK'
      <3>1. joining' \in 0..(Len(threads') + 1)
        BY <1>0, <1>8, <2>1 DEF Restart, TypeOK
      <3>2. started \in BOOLEAN
        BY <1>0 DEF TypeOK
      <3> QED
        BY <1>0, <1>8, <2>1, <3>1, <3>2 DEF Restart, TypeOK, CaptureThreads
    <2> QED
      BY <1>8, <2>2 DEF Restart, StopInv, StopWaitsForAll, JoinInv
  <1>9. CASE EndDestroy
    BY <1>0, <1>9 DEF EndDestroy, StopInv, StopWaitsForAll, TypeOK, JoinInv, Running, device
  <1>10. CASE UNCHANGED vars
    BY <1>10 DEF vars, device, StopInv, StopWaitsForAll, TypeOK, JoinInv, Running
  <1>11. ASSUME NEW i \in DOMAIN threads, SendThrows(i) PROVE StopInv'
    BY <1>0, <1>11 DEF SendThrows, StopInv, StopWaitsForAll, TypeOK, JoinInv, Running, device
  <1> QED
    BY <1>1, <1>3, <1>4, <1>5, <1>6, <1>7, <1>8, <1>9, <1>10, <1>11 DEF Next, ControlStep

LEMMA StopHolds == Spec => []StopInv
  <1> QED
    BY StopInit, StopNext, PTL DEF Spec

(* stop() of the camera device: no capture thread runs when it returns.     *)
THEOREM NoThreadSurvivesStop == Spec => []StopWaitsForAll
  <1>1. StopInv => StopWaitsForAll
    BY DEF StopInv
  <1> QED
    BY <1>1, StopHolds, PTL
-----------------------------------------------------------------------------
(* Time stamps                                                              *)

(* What a thread holds, for the end of its camera's last packet and the     *)
(* counter: a stamp is not before that end, nor after the counter; and what *)
(* the thread is about to store reaches the end of what it has sent.        *)
Stamped(t, end, n) ==
    /\ t.pc = "send" => end <= t.first /\ t.first <= n
    /\ t.pc = "load" => end <= n + t.size
    /\ t.pc = "store" => end <= t.load + t.size

Waiting(t) == t.pc \in {"load", "store"}

(* A camera has one thread that runs: those of earlier starts have ended.    *)
OneThread ==
    \A i, j \in DOMAIN threads :
        Running(i) /\ Running(j) /\ threads[i].camera = threads[j].camera => i = j

(* While no update is lost, the counter has passed the end of every packet  *)
(* whose thread is done with it.                                            *)
StampInv ==
    /\ \A i \in DOMAIN threads :
          Stamped(threads[i], sent[threads[i].camera].end, samplesCaptured)
    /\ \A c \in Cameras :
          (\A i \in DOMAIN threads : threads[i].camera = c => ~Waiting(threads[i])) =>
              sent[c].end <= samplesCaptured

TimeInv == OneThread /\ (~lost => StampInv)

InOrder == \A c \in Cameras : sent'[c] # sent[c] => sent'[c].start >= sent[c].end

LEMMA StampsOfStep ==
    ASSUME TypeOK, TimeInv, NEW i \in DOMAIN threads, CaptureStep(i)
    PROVE  TimeInv' /\ (~lost => InOrder)
  <1> DEFINE t == threads[i]
             t2 == threads'[i]
             end == sent[t.camera].end
  <1>1. PICK e \in CaptureThreads : threads' = [threads EXCEPT ![i] = e]
    BY CaptureStepThread
  <1>2. /\ Len(threads') = Len(threads) /\ DOMAIN threads' = DOMAIN threads
        /\ \A j \in DOMAIN threads : j # i => threads'[j] = threads[j]
    BY <1>1, ReplaceThread
  <1>3. /\ threads \in [DOMAIN threads -> CaptureThreads] /\ t \in CaptureThreads
        /\ samplesCaptured \in Nat /\ sent \in [Cameras -> [start : Nat, end : Nat]]
        /\ samplesCaptured' \in Nat /\ t.camera \in Cameras /\ end \in Nat
    <2>1. threads \in [DOMAIN threads -> CaptureThreads] /\ t \in CaptureThreads
      BY SeqOfThreads, LenProperties
    <2>2. t.camera \in Cameras
      BY <2>1 DEF CaptureThreads
    <2> QED
      BY <2>1, <2>2, CaptureStepThread DEF TypeOK
  <1>4. /\ Running(i)
        /\ \A j \in DOMAIN threads : j # i /\ threads[j].camera = t.camera => ~Running(j)
    BY CaptureStepThread DEF TimeInv, OneThread
  <1>5. ~lost => Stamped(t, end, samplesCaptured) /\ (~Waiting(t) => end <= samplesCaptured)
    BY <1>3, <1>4 DEF TimeInv, StampInv, Waiting, Running
  (* What is left to show speaks of this thread and its camera.             *)
  <1>6. ASSUME t2.camera = t.camera, lost => lost',
               \A c \in Cameras : c # t.camera => sent'[c] = sent[c],
               ~lost' =>
                   /\ samplesCaptured <= samplesCaptured'
                   /\ Stamped(t2, sent'[t.camera].end, samplesCaptured')
                   /\ ~Waiting(t2) => sent'[t.camera].end <= samplesCaptured'
        PROVE  TimeInv'
    <2>1. OneThread'
      BY <1>2, <1>4, <1>6 DEF TimeInv, OneThread, Running
    <2>2. ASSUME ~lost', NEW j \in DOMAIN threads
          PROVE  Stamped(threads'[j], sent'[threads'[j].camera].end, samplesCaptured')
      <3>1. CASE j = i
        BY <1>6, <2>2, <3>1
      <3>2. CASE j # i /\ threads[j].camera = t.camera
        BY <1>2, <1>4, <3>2 DEF Stamped, Running
      <3>3. CASE j # i /\ threads[j].camera # t.camera
        <4>1. /\ threads[j] \in CaptureThreads /\ threads[j].camera \in Cameras
              /\ threads[j].first \in Nat /\ threads[j].size \in Nat /\ threads[j].load \in Nat
          BY <1>3 DEF CaptureThreads
        <4>2. threads'[j] = threads[j] /\ sent'[threads[j].camera] = sent[threads[j].camera]
          BY <1>2, <1>6, <3>3, <4>1
        <4>3. Stamped(threads[j], sent[threads[j].camera].end, samplesCaptured)
          BY <1>6, <2>2 DEF TimeInv, StampInv
        <4>4. sent[threads[j].camera].end \in Nat /\ samplesCaptured <= samplesCaptured'
          BY <1>3, <1>6, <2>2, <4>1
        <4> QED
          BY <1>3, <4>1, <4>2, <4>3, <4>4 DEF Stamped
      <3> QED
        BY <3>1, <3>2, <3>3
    <2>3. ASSUME ~lost', NEW c \in Cameras,
                 \A j \in DOMAIN threads : threads'[j].camera = c => ~Waiting(threads'[j])
          PROVE  sent'[c].end <= samplesCaptured'
      <3>1. CASE c = t.camera
        BY <1>6, <2>3, <3>1
      <3>2. CASE c # t.camera
        <4>1. \A j \in DOMAIN threads : threads[j].camera = c => ~Waiting(threads[j])
          BY <1>2, <2>3, <3>2
        <4>2. sent[c].end <= samplesCaptured /\ sent[c].end \in Nat /\ sent'[c] = sent[c]
          BY <1>3, <1>6, <2>3, <3>2, <4>1 DEF TimeInv, StampInv
        <4> QED
          BY <1>3, <1>6, <2>3, <4>2
      <3> QED
        BY <3>1, <3>2
    <2> QED
      BY <1>2, <2>1, <2>2, <2>3 DEF TimeInv, StampInv, Waiting
  <1>7. ASSUME NEW p \in {"open", "loop", "capture", "finished"}, ~Waiting(t),
               threads' = [threads EXCEPT ![i].pc = p], UNCHANGED <<samplesCaptured, sent, lost>>
        PROVE  TimeInv' /\ InOrder
    <2>1. t2 = [t EXCEPT !.pc = p]
      BY <1>3, <1>7
    <2>2. t2.pc = p /\ t2.camera = t.camera
      BY <1>3, <2>1 DEF CaptureThreads
    <2>3. samplesCaptured <= samplesCaptured'
      BY <1>3, <1>7
    <2> QED
      BY <1>5, <1>6, <1>7, <2>2, <2>3 DEF Stamped, InOrder
  <1>8. CASE EndOfFrames(i)
    BY <1>7, <1>8 DEF EndOfFrames, Waiting
  <1>9. CASE OpenCamera(i)
    BY <1>7, <1>9 DEF OpenCamera, Step, Waiting
  <1>10. CASE CheckQuit(i)
    BY <1>7, <1>10 DEF CheckQuit, Step, Waiting
  <1>11. CASE CaptureUnsent(i)
    BY <1>7, <1>11 DEF CaptureUnsent, Step, Waiting
  <1>12. CASE Capture(i)
    <2>1. PICK n \in FrameSizes :
             threads' = [threads EXCEPT ![i].pc = "send", ![i].first = samplesCaptured,
                                        ![i].size = n]
      BY <1>12 DEF Capture
    <2>2. /\ t2 = [t EXCEPT !.pc = "send", !.first = samplesCaptured, !.size = n]
          /\ t.pc = "capture" /\ UNCHANGED <<samplesCaptured, sent, lost>>
      BY <1>3, <1>12, <2>1 DEF Capture
    <2>3. t2.pc = "send" /\ t2.first = samplesCaptured /\ t2.camera = t.camera
      BY <1>3, <2>2 DEF CaptureThreads
    <2>4. samplesCaptured <= samplesCaptured' /\ ~Waiting(t)
      BY <1>3, <2>2 DEF Waiting
    <2> QED
      BY <1>3, <1>5, <1>6, <2>2, <2>3, <2>4 DEF Stamped, InOrder
  <1>13. CASE SendPacket(i)
    <2>1. /\ t2 = [t EXCEPT !.pc = "load"] /\ t.pc = "send"
          /\ UNCHANGED <<samplesCaptured, lost>>
      BY <1>3, <1>13 DEF SendPacket, Step
    <2>2. t2.pc = "load" /\ t2.size = t.size /\ t2.camera = t.camera
      BY <1>3, <2>1 DEF CaptureThreads
    <2>3. t.first \in Nat /\ t.size \in Nat
      BY <1>3 DEF CaptureThreads
    <2>4. /\ sent'[t.camera] = [start |-> t.first, end |-> t.first + t.size]
          /\ \A c \in Cameras : c # t.camera => sent'[c] = sent[c]
      BY <1>3, <1>13 DEF SendPacket
    <2>5. ~lost => end <= t.first /\ t.first <= samplesCaptured
      BY <1>5, <2>1 DEF Stamped
    <2>6. ~lost' => Stamped(t2, sent'[t.camera].end, samplesCaptured')
      <3>1. ~lost' => t.first + t.size <= samplesCaptured + t.size
        BY <1>3, <2>1, <2>3, <2>5
      <3>2. sent'[t.camera].end = t.first + t.size
        BY <2>4
      <3> QED
        BY <2>1, <2>2, <3>1, <3>2 DEF Stamped
    <2>7. TimeInv'
      <3>1. samplesCaptured <= samplesCaptured' /\ Waiting(t2)
        BY <1>3, <2>1, <2>2 DEF Waiting
      <3> QED
        BY <1>6, <2>1, <2>2, <2>4, <2>6, <3>1
    <2>8. ~lost => InOrder
      <3>1. sent'[t.camera].start = t.first
        BY <2>4
      <3> QED
        BY <1>3, <2>3, <2>4, <2>5, <3>1 DEF InOrder
    <2> QED
      BY <2>7, <2>8
  <1>14. CASE LoadCaptured(i)
    <2>1. /\ t.pc = "load" /\ t2 = [t EXCEPT !.pc = "store", !.load = samplesCaptured]
          /\ UNCHANGED <<samplesCaptured, sent, lost>>
      BY <1>3, <1>14 DEF LoadCaptured
    <2>2. /\ t2.pc = "store" /\ t2.load = samplesCaptured /\ t2.size = t.size
          /\ t2.camera = t.camera
      BY <1>3, <2>1 DEF CaptureThreads
    <2>3. ~lost => end <= samplesCaptured + t.size
      BY <1>5, <2>1 DEF Stamped
    <2>4. samplesCaptured <= samplesCaptured' /\ Waiting(t2)
      BY <1>3, <2>1, <2>2 DEF Waiting
    <2> QED
      BY <1>6, <2>1, <2>2, <2>3, <2>4 DEF Stamped, InOrder
  <1>15. CASE StoreCaptured(i)
    <2>1. /\ t.pc = "store" /\ sent' = sent /\ samplesCaptured' = t.load + t.size
          /\ t2 = [t EXCEPT !.pc = "loop", !.first = 0, !.size = 0, !.load = 0]
          /\ lost' = (lost \/ samplesCaptured # t.load)
      BY <1>3, <1>15 DEF StoreCaptured, AddCaptured
    <2>2. t2.pc = "loop" /\ t2.camera = t.camera
      BY <1>3, <2>1 DEF CaptureThreads
    <2>3. t.load \in Nat /\ t.size \in Nat
      BY <1>3 DEF CaptureThreads
    <2>4. (lost => lost') /\ (~lost' => ~lost /\ samplesCaptured = t.load)
      BY <2>1
    <2>5. ~lost => end <= t.load + t.size
      BY <1>5, <2>1 DEF Stamped
    <2>6. ~lost' => samplesCaptured <= samplesCaptured' /\ end <= samplesCaptured'
      BY <1>3, <2>1, <2>3, <2>4, <2>5
    <2>7. Stamped(t2, sent'[t.camera].end, samplesCaptured')
      BY <2>2 DEF Stamped
    <2>8. sent'[t.camera].end = end /\ (\A c \in Cameras : sent'[c] = sent[c])
      BY <2>1
    <2> QED
      BY <1>6, <2>1, <2>2, <2>4, <2>6, <2>7, <2>8 DEF InOrder
  <1>16. CaptureStep(i) /\ ~SendPacket(i) => InOrder
    BY DEF InOrder, CaptureStep, EndOfFrames, OpenCamera, CheckQuit, Capture, CaptureUnsent,
           LoadCaptured, StoreCaptured
  <1> QED
    BY <1>8, <1>9, <1>10, <1>11, <1>12, <1>13, <1>14, <1>15, <1>16 DEF CaptureStep

LEMMA TimeInit == Init => TimeInv
  <1> SUFFICES ASSUME Init PROVE TimeInv
    OBVIOUS
  <1> DEFINE none == <<>>
  <1>0. none \in Seq(CaptureThreads) /\ Len(none) = 0 /\ threads = StartThreads(none)
    BY EmptySeq DEF Init
  <1> HIDE DEF none
  <1>1. /\ threads \in Seq(CaptureThreads) /\ Len(threads) \in Nat
        /\ \A i \in 1..Len(threads) : IF i <= Len(none) THEN threads[i] = none[i]
                                       ELSE threads[i].pc = "open"
        /\ \A i, j \in (Len(none) + 1)..Len(threads) :
              threads[i].camera = threads[j].camera => i = j
    BY <1>0, StartType
  <1>2. DOMAIN threads = 1..Len(threads)
    BY <1>1, LenProperties
  <1>3. \A i \in DOMAIN threads : threads[i].pc = "open"
    BY <1>0, <1>1, <1>2
  <1>4. \A i, j \in DOMAIN threads : threads[i].camera = threads[j].camera => i = j
    BY <1>0, <1>1, <1>2
  <1>5. samplesCaptured = 0 /\ \A c \in Cameras : sent[c].end = 0
    BY DEF Init
  <1> QED
    BY <1>3, <1>4, <1>5 DEF TimeInv, OneThread, StampInv, Stamped

LEMMA TimeNext == StopInv /\ TimeInv /\ [Next]_vars => TimeInv' /\ (~lost => InOrder)
  <1> SUFFICES ASSUME StopInv, TimeInv, [Next]_vars PROVE TimeInv' /\ (~lost => InOrder)
    OBVIOUS
  <1>0. /\ TypeOK /\ threads \in Seq(CaptureThreads)
        /\ DOMAIN threads = 1..Len(threads) /\ Len(threads) \in Nat
    BY SeqOfThreads, LenProperties DEF StopInv, StopWaitsForAll
  <1>1. ASSUME NEW i \in DOMAIN threads, CaptureStep(i)
        PROVE  TimeInv' /\ (~lost => InOrder)
    BY <1>0, <1>1, StampsOfStep
  <1>2. CASE UNCHANGED <<threads, samplesCaptured, sent, lost>>
    BY <1>2 DEF TimeInv, OneThread, StampInv, Stamped, Waiting, Running, InOrder
  <1>3. CASE Join
    <2> DEFINE e == [threads[joining] EXCEPT !.joined = TRUE]
    <2>0. joining \in DOMAIN threads /\ threads[joining] \in CaptureThreads
      BY <1>0, <1>3, ElementOfSeq DEF Join, StopInv, JoinInv, TypeOK
    <2>1. e \in CaptureThreads /\ e.pc = "finished" /\ threads[joining].pc = "finished"
          /\ e.camera = threads[joining].camera
          /\ threads' = [threads EXCEPT ![joining] = e]
      BY <1>3, <2>0 DEF Join, CaptureThreads
    <2> HIDE DEF e
    <2>2. /\ Len(threads') = Len(threads)
          /\ DOMAIN threads' = DOMAIN threads /\ threads'[joining] = e
          /\ \A j \in DOMAIN threads : j # joining => threads'[j] = threads[j]
      BY <1>0, <2>0, <2>1, ReplaceThread
    <2>3. UNCHANGED <<samplesCaptured, sent, lost>>
      BY <1>3 DEF Join, device
    <2>4. OneThread'
      BY <2>0, <2>1, <2>2 DEF TimeInv, OneThread, Running
    <2>5. \A j \in DOMAIN threads :
             /\ threads'[j].camera = threads[j].camera /\ threads'[j].pc = threads[j].pc
             /\ threads'[j] = threads[j] \/ threads[j].pc = "finished"
      BY <2>0, <2>1, <2>2
    <2>6. ~lost => StampInv'
      BY <2>2, <2>3, <2>5 DEF TimeInv, StampInv, Stamped, Waiting
    <2> QED
      BY <2>3, <2>4, <2>6 DEF TimeInv, InOrder
  <1>4. CASE Restart
    <2>1. /\ \A i \in DOMAIN threads : threads[i].pc = "finished"
          /\ UNCHANGED <<samplesCaptured, sent, lost>> /\ threads' = StartThreads(threads)
      BY <1>4 DEF Restart, StopInv, StopWaitsForAll, Running
    <2>2. /\ threads' \in Seq(CaptureThreads) /\ Len(threads') \in Nat
          /\ Len(threads') >= Len(threads)
          /\ \A i \in 1..Len(threads') : IF i <= Len(threads) THEN threads'[i] = threads[i]
                                          ELSE threads'[i].pc = "open"
          /\ \A i, j \in (Len(threads) + 1)..Len(threads') :
                threads'[i].camera = threads'[j].camera => i = j
      <3>1. Cardinality(Cameras) \in Nat
        BY FS_CardinalityType, CameraDeviceAssumption
      <3>2. Len(threads) + Cardinality(Cameras) >= Len(threads)
        BY <1>0, <3>1
      <3> QED
        BY <1>0, <2>1, <3>2, StartType
    <2>3. DOMAIN threads' = 1..Len(threads')
      BY <2>2, LenProperties
    <2>4. \A i \in DOMAIN threads' : threads'[i].pc \in {"open", "finished"}
      BY <1>0, <2>1, <2>2, <2>3
    <2>5. \A i \in DOMAIN threads' :
             threads'[i].pc # "finished" => i \in (Len(threads) + 1)..Len(threads')
      BY <1>0, <2>1, <2>2, <2>3
    <2>6. OneThread'
      BY <2>2, <2>5 DEF OneThread, Running
    <2>7. ~lost => StampInv'
      <3>1. ~lost => \A c \in Cameras : sent[c].end <= samplesCaptured
        BY <2>1 DEF TimeInv, StampInv, Waiting
      <3> QED
        BY <2>1, <2>4, <3>1 DEF StampInv, Stamped
    <2> QED
      BY <2>1, <2>6, <2>7 DEF TimeInv, InOrder
  <1>5. /\ PropertyChanged \/ Destroy \/ JoinThrows \/ AllJoined \/ EndDestroy \/ UNCHANGED vars
              => UNCHANGED <<threads, samplesCaptured, sent, lost>>
        /\ \A i \in DOMAIN threads : SendThrows(i) => UNCHANGED <<threads, samplesCaptured, sent, lost>>
    BY DEF PropertyChanged, Destroy, JoinThrows, AllJoined, EndDestroy, SendThrows, vars, device
  <1> QED
    BY <1>1, <1>2, <1>3, <1>4, <1>5 DEF Next, ControlStep

LEMMA TimeHolds == Spec => []TimeInv
  <1> QED
    BY TimeInit, TimeNext, StopHolds, PTL DEF Spec

(* The domain packets of a device with any number of cameras: no packet of  *)
(* a camera starts before its previous one ended, also across changes of    *)
(* the sample rate and however the capture threads interleave at the        *)
(* counter they share, until one has overwritten another's update of it.    *)
THEOREM SharedCounterTimes == Spec => TimesNeverOverlap
  <1>1. StopInv /\ TimeInv /\ [Next]_vars => [~lost => InOrder]_vars
    BY TimeNext
  <1>2. Spec => [][~lost => InOrder]_vars
    BY <1>1, TimeHolds, StopHolds, PTL DEF Spec
  <1> QED
    BY <1>2 DEF TimesNeverOverlap, InOrder

-----------------------------------------------------------------------------
(* A device with one camera                                                 *)

(* One thread runs, so what it has loaded is current when it stores.        *)
LoadsCurrent ==
    ~lost /\ \A i \in DOMAIN threads : threads[i].pc = "store" => threads[i].load = samplesCaptured

LEMMA LoadsNext ==
    Cardinality(Cameras) = 1 /\ StopInv /\ TimeInv /\ LoadsCurrent /\ [Next]_vars => LoadsCurrent'
  <1> SUFFICES ASSUME Cardinality(Cameras) = 1, StopInv, TimeInv, LoadsCurrent, [Next]_vars
               PROVE  LoadsCurrent'
    OBVIOUS
  <1>0. /\ TypeOK /\ threads \in Seq(CaptureThreads)
        /\ DOMAIN threads = 1..Len(threads) /\ Len(threads) \in Nat
        /\ \A i \in DOMAIN threads : threads[i] \in CaptureThreads
    BY SeqOfThreads, LenProperties, ElementOfSeq DEF StopInv, StopWaitsForAll
  <1>1. \A i, j \in DOMAIN threads : Running(i) /\ Running(j) => i = j
    <2>1. PICK c : Cameras = {c}
      BY CameraDeviceAssumption, FS_Singleton
    <2>2. \A i \in DOMAIN threads : threads[i].camera = c
      BY <1>0, <2>1 DEF CaptureThreads
    <2> QED
      BY <2>2 DEF TimeInv, OneThread
  <1>2. ASSUME NEW i \in DOMAIN threads, CaptureStep(i) PROVE LoadsCurrent'
    <2>1. PICK e \in CaptureThreads : threads' = [threads EXCEPT ![i] = e]
      BY <1>0, <1>2, CaptureStepThread
    <2>2. /\ DOMAIN threads' = DOMAIN threads
          /\ \A j \in DOMAIN threads : j # i => threads'[j] = threads[j]
      BY <1>0, <2>1, ReplaceThread
    <2>3. \A j \in DOMAIN threads : j # i => threads'[j].pc = "finished"
      BY <1>0, <1>1, <1>2, <2>2, CaptureStepThread DEF Running
    <2>0. threads[i] \in CaptureThreads
      BY <1>0
    <2>4. ~lost' /\ (threads'[i].pc = "store" => threads'[i].load = samplesCaptured')
      <3>1. CASE LoadCaptured(i)
        <4>1. threads'[i].load = samplesCaptured /\ UNCHANGED <<samplesCaptured, lost>>
          BY <2>0, <3>1 DEF LoadCaptured, CaptureThreads
        <4> QED
          BY <4>1 DEF LoadsCurrent
      <3>2. CASE StoreCaptured(i)
        <4>1. threads[i].load = samplesCaptured /\ threads'[i].pc = "loop"
          BY <2>0, <3>2 DEF StoreCaptured, LoadsCurrent, CaptureThreads
        <4> QED
          BY <3>2, <4>1 DEF StoreCaptured, LoadsCurrent
      <3>3. CASE EndOfFrames(i) \/ OpenCamera(i) \/ CheckQuit(i) \/ CaptureUnsent(i) \/ SendPacket(i)
        <4>1. threads'[i].pc # "store" /\ UNCHANGED lost
          BY <2>0, <3>3 DEF EndOfFrames, OpenCamera, CheckQuit, CaptureUnsent, SendPacket, Step, CaptureThreads
        <4> QED
          BY <4>1 DEF LoadsCurrent
      <3>4. CASE Capture(i)
        <4>1. threads'[i].pc # "store" /\ UNCHANGED lost
          BY <2>0, <3>4 DEF Capture, CaptureThreads
        <4> QED
          BY <4>1 DEF LoadsCurrent
      <3> QED
        BY <1>2, <3>1, <3>2, <3>3, <3>4 DEF CaptureStep
    <2> QED
      BY <2>2, <2>3, <2>4 DEF LoadsCurrent
  <1>3. CASE UNCHANGED <<threads, samplesCaptured, lost>>
    BY <1>3 DEF LoadsCurrent
  <1>4. CASE Join
    <2>0. joining \in DOMAIN threads /\ threads[joining].pc = "finished"
      BY <1>0, <1>4 DEF Join, StopInv, JoinInv, TypeOK
    <2> DEFINE e == [threads[joining] EXCEPT !.joined = TRUE]
    <2>1. threads' = [threads EXCEPT ![joining] = e] /\ e \in CaptureThreads /\ e.pc = "finished"
      BY <1>0, <1>4, <2>0 DEF Join, CaptureThreads
    <2> HIDE DEF e
    <2>2. /\ DOMAIN threads' = DOMAIN threads /\ threads'[joining] = e
          /\ \A j \in DOMAIN threads : j # joining => threads'[j] = threads[j]
      BY <1>0, <2>0, <2>1, ReplaceThread
    <2> QED
      BY <1>4, <2>1, <2>2 DEF Join, LoadsCurrent, device
  <1>5. CASE Restart
    <2>1. /\ threads' = StartThreads(threads) /\ UNCHANGED <<samplesCaptured, lost>>
          /\ \A i \in DOMAIN threads : threads[i].pc = "finished"
      BY <1>5 DEF Restart, StopInv, StopWaitsForAll, Running
    <2>2. /\ threads' \in Seq(CaptureThreads)
          /\ \A i \in 1..Len(threads') : IF i <= Len(threads) THEN threads'[i] = threads[i]
                                          ELSE threads'[i].pc = "open"
      BY <1>0, <2>1, StartType
    <2>3. \A i \in DOMAIN threads' : threads'[i].pc # "store"
      BY <1>0, <2>1, <2>2, LenProperties
    <2> QED
      BY <2>1, <2>3 DEF LoadsCurrent
  <1>6. /\ PropertyChanged \/ Destroy \/ JoinThrows \/ AllJoined \/ EndDestroy \/ UNCHANGED vars
              => UNCHANGED <<threads, samplesCaptured, lost>>
        /\ \A i \in DOMAIN threads : SendThrows(i) => UNCHANGED <<threads, samplesCaptured, lost>>
    BY DEF PropertyChanged, Destroy, JoinThrows, AllJoined, EndDestroy, SendThrows, vars, device
  <1> QED
    BY <1>2, <1>3, <1>4, <1>5, <1>6 DEF Next, ControlStep

(* With one camera no update of the counter is lost: the threads of earlier *)
(* starts have ended before a new one runs.                                 *)
THEOREM OneCameraLosesNothing == Cardinality(Cameras) = 1 /\ Spec => []~lost
  <1>1. Init => LoadsCurrent
    <2> SUFFICES ASSUME Init PROVE LoadsCurrent
      OBVIOUS
    <2> DEFINE none == <<>>
    <2>0. none \in Seq(CaptureThreads) /\ Len(none) = 0 /\ threads = StartThreads(none)
      BY EmptySeq DEF Init
    <2> HIDE DEF none
    <2>1. /\ threads \in Seq(CaptureThreads)
          /\ \A i \in 1..Len(threads) : IF i <= Len(none) THEN threads[i] = none[i]
                                         ELSE threads[i].pc = "open"
      BY <2>0, StartType
    <2>2. \A i \in DOMAIN threads : threads[i].pc # "store"
      BY <2>0, <2>1, LenProperties
    <2> QED
      BY <2>2 DEF Init, LoadsCurrent
  <1>2. LoadsCurrent => ~lost
    BY DEF LoadsCurrent
  <1>3. CASE Cardinality(Cameras) = 1
    <2>1. StopInv /\ TimeInv /\ LoadsCurrent /\ [Next]_vars => LoadsCurrent'
      BY <1>3, LoadsNext
    <2> QED
      BY <1>1, <1>2, <2>1, StopHolds, TimeHolds, PTL DEF Spec
  <1>4. CASE Cardinality(Cameras) # 1
    BY <1>4
  <1> QED
    BY <1>3, <1>4

-----------------------------------------------------------------------------
(* The MTIG710 device                                                      *)

AnyRate == Rates \cup {0, Mtig!DefaultRate}
Devices == [localId : Nat, rate : AnyRate, delta : Nat, captured : Nat]
Packets == [call : Nat, offset : Nat, count : Nat, receivers : Nat]

Got(t, r) == received[t][r]
Last(t, r) == Got(t, r)[Len(Got(t, r))]
Sending(t) == adding[t] = "send"

(* Receiver r has the packet that the driver is sending.                    *)
Has(t, r) == Sending(t) /\ r <= packet[t].receivers

(* The call under way, and else the next one.                               *)
CallOf(t) == IF Sending(t) THEN packet[t].call ELSE calls[t]

MtigTypeOK ==
    /\ mtig \in [Drivers -> Devices]
    /\ adding \in [Drivers -> {"new", "idle", "send"}]
    /\ packet \in [Drivers -> Packets]
    /\ received \in [Drivers -> [1..Receivers -> Seq(Packets)]]
    /\ failed \in [Drivers -> SUBSET Nat]
    /\ calls \in [Drivers -> Nat]
    /\ m_deviceIndex \in Nat

(* The packet under way starts at the device's count; the calls that threw  *)
(* are past ones.                                                           *)
SendInv(t) ==
    /\ \A c \in failed[t] : c < CallOf(t)
    /\ Sending(t) => /\ packet[t].offset = mtig[t].captured
                     /\ packet[t].call + 1 = calls[t]
                     /\ packet[t].receivers <= Receivers

(* A receiver's packets come from past calls, and the last of them ends at  *)
(* the device's count, unless it is the one under way.                      *)
ReceiverInv(t, r) ==
    /\ \A k \in DOMAIN Got(t, r) : Got(t, r)[k].call < CallOf(t) \/ (Has(t, r) /\ k = Len(Got(t, r)))
    /\ IF Has(t, r)
       THEN /\ Got(t, r) # <<>>
            /\ Last(t, r).call = packet[t].call
            /\ Last(t, r).offset = packet[t].offset
            /\ Last(t, r).count = packet[t].count
       ELSE mtig[t].captured = IF Got(t, r) = <<>> THEN 0
                               ELSE Last(t, r).offset + Mtig!Counted(t, Last(t, r))

ContiguousAt(t, r) ==
    \A k \in DOMAIN Got(t, r) :
        Got(t, r)[k].offset = IF k = 1 THEN 0
                              ELSE Got(t, r)[k - 1].offset + Mtig!Counted(t, Got(t, r)[k - 1])

DriverInv(t) == SendInv(t) /\ \A r \in 1..Receivers : ReceiverInv(t, r) /\ ContiguousAt(t, r)

ContiguousInv == MtigTypeOK /\ \A t \in Drivers : DriverInv(t)

(* What the invariant of a driver reads of the state.                       *)
Of(t) == <<mtig[t].captured, adding[t], packet[t], received[t], failed[t], calls[t]>>

LEMMA LastElement ==
    ASSUME NEW S, NEW s \in Seq(S)
    PROVE  /\ DOMAIN s = 1..Len(s) /\ Len(s) \in Nat /\ \A k \in 1..Len(s) : s[k] \in S
           /\ s = <<>> <=> Len(s) = 0
           /\ s # <<>> => Len(s) \in 1..Len(s) /\ s[Len(s)] \in S
  <1>1. DOMAIN s = 1..Len(s) /\ Len(s) \in Nat /\ \A k \in 1..Len(s) : s[k] \in S
    BY LenProperties, ElementOfSeq
  <1>2. s = <<>> <=> Len(s) = 0
    BY EmptySeq
  <1> QED
    BY <1>1, <1>2

LEMMA Configuring ==
    ASSUME NEW d \in Devices, NEW i \in Nat, NEW x \in AnyRate
    PROVE  /\ Mtig!Configured(d, x) \in Devices
           /\ Mtig!Configured([d EXCEPT !.localId = i], x) \in Devices
           /\ Mtig!Configured([d EXCEPT !.localId = i], x).captured = d.captured
           /\ Mtig!Configured(d, x).captured = d.captured
  BY DEF Devices, Mtig!Configured

LEMMA Counting ==
    ASSUME NEW d \in Devices, NEW n \in Nat
    PROVE  /\ [d EXCEPT !.captured = @ + n] \in Devices
           /\ [d EXCEPT !.captured = @ + n].captured = d.captured + n
           /\ d.captured \in Nat
  BY DEF Devices

LEMMA PacketType ==
    ASSUME NEW p \in Packets
    PROVE  /\ p.call \in Nat /\ p.offset \in Nat /\ p.count \in Nat /\ p.receivers \in Nat
           /\ \A r \in Nat : /\ [p EXCEPT !.receivers = r] \in Packets
                             /\ [p EXCEPT !.receivers = r].receivers = r
                             /\ [p EXCEPT !.receivers = r].call = p.call
                             /\ [p EXCEPT !.receivers = r].offset = p.offset
                             /\ [p EXCEPT !.receivers = r].count = p.count
  BY DEF Packets

LEMMA MtigInit == Mtig!Init => ContiguousInv
  <1> SUFFICES ASSUME Mtig!Init PROVE ContiguousInv
    OBVIOUS
  <1>1. MtigTypeOK
    <2>1. Mtig!NoPacket \in Packets
      BY DEF Packets, Mtig!NoPacket
    <2>2. [r \in 1..Receivers |-> <<>>] \in [1..Receivers -> Seq(Packets)]
      BY EmptySeq
    <2> QED
      BY <2>1, <2>2 DEF Mtig!Init, MtigTypeOK, Mtig!NoDevice, Devices, AnyRate
  <1>2. ASSUME NEW t \in Drivers PROVE DriverInv(t)
    BY <1>2 DEF DriverInv, SendInv, ReceiverInv, ContiguousAt, Sending, Has, CallOf, Got,
                Mtig!Init, Mtig!NoDevice
  <1> QED
    BY <1>1, <1>2 DEF ContiguousInv

LEMMA MtigTypeNext == MtigTypeOK /\ [Mtig!Next]_Mtig!mvars => MtigTypeOK'
  <1> SUFFICES ASSUME MtigTypeOK, [Mtig!Next]_Mtig!mvars PROVE MtigTypeOK'
    OBVIOUS
  <1> USE MtigAssumption DEF MtigTypeOK
  <1>1. ASSUME NEW t \in Drivers, Mtig!CreateDevice(t) PROVE MtigTypeOK'
    <2> DEFINE d == Mtig!Configured([mtig[t] EXCEPT !.localId = m_deviceIndex], Mtig!DefaultRate)
    <2>1. mtig[t] \in Devices /\ m_deviceIndex \in Nat /\ Mtig!DefaultRate \in AnyRate
      BY <1>1 DEF AnyRate
    <2>2. d \in Devices
      BY <2>1, Configuring
    <2>3. mtig' = [mtig EXCEPT ![t] = d]
      BY <1>1 DEF Mtig!CreateDevice
    <2>4. mtig' \in [Drivers -> Devices]
      BY <2>2, <2>3
    <2> QED
      BY <1>1, <2>4 DEF Mtig!CreateDevice, Mtig!Goto
  <1>2. ASSUME NEW t \in Drivers, NEW x \in Rates, Mtig!PropertyChanged(t, x) PROVE MtigTypeOK'
    <2> DEFINE d == Mtig!Configured(mtig[t], x)
    <2>1. mtig[t] \in Devices /\ x \in AnyRate
      BY <1>2 DEF AnyRate
    <2>2. d \in Devices
      BY <2>1, Configuring
    <2>3. mtig' = [mtig EXCEPT ![t] = d]
      BY <1>2 DEF Mtig!PropertyChanged
    <2>4. mtig' \in [Drivers -> Devices]
      BY <2>2, <2>3
    <2> QED
      BY <1>2, <2>4 DEF Mtig!PropertyChanged
  <1>3. ASSUME NEW t \in Drivers, NEW n \in Counts, Mtig!AddData(t, n) PROVE MtigTypeOK'
    <2>1. [call |-> calls[t], offset |-> mtig[t].captured, count |-> n, receivers |-> 0] \in Packets
      BY <1>3 DEF Packets, Devices
    <2> QED
      BY <1>3, <2>1 DEF Mtig!AddData, Mtig!Goto, Devices
  <1>4. ASSUME NEW t \in Drivers, Mtig!Deliver(t) PROVE MtigTypeOK'
    <2> DEFINE r == packet[t].receivers + 1
               p == [packet[t] EXCEPT !.receivers = r]
    <2>0. p \in Packets
      <3>1. packet[t] \in Packets
        BY <1>4
      <3>2. r \in Nat
        BY <3>1, PacketType
      <3> QED
        BY <3>1, <3>2, PacketType
    <2>1. packet' \in [Drivers -> Packets]
      <3>1. packet' = [packet EXCEPT ![t] = p]
        BY <1>4 DEF Mtig!Deliver
      <3> QED
        BY <2>0, <3>1
    <2>2. r \in 1..Receivers
      BY <1>4 DEF Mtig!Deliver, Packets
    <2>3. Append(received[t][r], packet'[t]) \in Seq(Packets)
      BY <2>1, <2>2
    <2>4. received' = [received EXCEPT ![t] = [received[t] EXCEPT ![r] = Append(received[t][r], packet'[t])]]
      BY <1>4, <2>2 DEF Mtig!Deliver
    <2>5. received' \in [Drivers -> [1..Receivers -> Seq(Packets)]]
      BY <2>2, <2>3, <2>4
    <2> QED
      BY <1>4, <2>1, <2>5 DEF Mtig!Deliver
  <1>5. ASSUME NEW t \in Drivers, Mtig!ReceiverThrows(t) PROVE MtigTypeOK'
    BY <1>5 DEF Mtig!ReceiverThrows, Mtig!Goto, Mtig!NoPacket, Packets
  <1>6. ASSUME NEW t \in Drivers, Mtig!Sent(t) PROVE MtigTypeOK'
    <2>1. [mtig[t] EXCEPT !.captured = @ + packet[t].count] \in Devices
      <3>1. mtig[t] \in Devices /\ packet[t] \in Packets
        BY <1>6
      <3>2. packet[t].count \in Nat
        BY <3>1, PacketType
      <3> QED
        BY <3>1, <3>2, Counting
    <2>2. Mtig!NoPacket \in Packets
      BY DEF Mtig!NoPacket, Packets
    <2>3. mtig' \in [Drivers -> Devices] /\ packet' \in [Drivers -> Packets]
      BY <1>6, <2>1, <2>2 DEF Mtig!Sent, Mtig!CountSamples
    <2> QED
      BY <1>6, <2>3 DEF Mtig!Sent, Mtig!Goto
  <1> QED
    BY <1>1, <1>2, <1>3, <1>4, <1>5, <1>6 DEF Mtig!Next, Mtig!DriverStep, Mtig!mvars

LEMMA Undisturbed ==
    ASSUME NEW u \in Drivers, DriverInv(u), Of(u)' = Of(u)
    PROVE  DriverInv(u)'
  BY DEF Of, DriverInv, SendInv, ReceiverInv, ContiguousAt, Sending, Has, CallOf, Got, Last,
         Mtig!Counted

(* A step of driver t.                                                      *)
LEMMA DriverNext ==
    ASSUME MtigTypeOK, NEW t \in Drivers, DriverInv(t), Mtig!DriverStep(t)
    PROVE  DriverInv(t)'
  <1>0. /\ received[t] \in [1..Receivers -> Seq(Packets)] /\ packet[t] \in Packets
        /\ mtig[t] \in Devices /\ calls[t] \in Nat /\ failed[t] \subseteq Nat
    BY DEF MtigTypeOK
  <1>9. ASSUME NEW r \in 1..Receivers
        PROVE  /\ Got(t, r) \in Seq(Packets)
               /\ Got(t, r) # <<>> => Last(t, r) \in Packets
    <2>1. Got(t, r) \in Seq(Packets)
      BY <1>0, <1>9 DEF Got
    <2> QED
      BY <2>1, LastElement DEF Last
  <1>1. CASE Mtig!CreateDevice(t)
    <2>1. /\ adding[t] = "new" /\ adding'[t] = "idle" /\ mtig'[t].captured = mtig[t].captured
          /\ packet' = packet /\ received' = received /\ failed' = failed /\ calls' = calls
      BY <1>0, <1>1 DEF MtigTypeOK, Mtig!CreateDevice, Mtig!Goto, Mtig!Configured, Devices
    <2>2. SendInv(t)'
      BY <2>1 DEF DriverInv, SendInv, Sending, CallOf
    <2>3. ASSUME NEW r \in 1..Receivers PROVE ReceiverInv(t, r)' /\ ContiguousAt(t, r)'
      BY <2>1, <2>3 DEF DriverInv, ReceiverInv, ContiguousAt, Sending, Has, CallOf, Got, Last, Mtig!Counted
    <2> QED
      BY <2>2, <2>3 DEF DriverInv
  <1>2. ASSUME NEW n \in Counts, Mtig!AddData(t, n) PROVE DriverInv(t)'
    <2>1. /\ adding[t] = "idle" /\ adding'[t] = "send" /\ calls'[t] = calls[t] + 1
          /\ packet'[t].call = calls[t] /\ packet'[t].offset = mtig[t].captured
          /\ packet'[t].receivers = 0
          /\ mtig' = mtig /\ received' = received /\ failed' = failed
      BY <1>2 DEF MtigTypeOK, Mtig!AddData, Mtig!Goto
    <2>2. SendInv(t)'
      BY <1>0, <2>1, MtigAssumption DEF DriverInv, SendInv, Sending, CallOf
    <2>3. ASSUME NEW r \in 1..Receivers PROVE ReceiverInv(t, r)' /\ ContiguousAt(t, r)'
      <3>1. ~Has(t, r) /\ ~Has(t, r)' /\ CallOf(t)' = CallOf(t) /\ Got(t, r)' = Got(t, r)
        BY <2>1, <2>3, MtigAssumption DEF Has, Sending, CallOf, Got
      <3>2. ReceiverInv(t, r) /\ ContiguousAt(t, r)
        BY <2>3 DEF DriverInv
      <3> QED
        BY <2>1, <3>1, <3>2 DEF ReceiverInv, ContiguousAt, Last, Mtig!Counted
    <2> QED
      BY <2>2, <2>3 DEF DriverInv
  <1>3. CASE Mtig!Deliver(t)
    <2>1. PICK q \in 1..Receivers : q = packet[t].receivers + 1
      BY <1>0, <1>3, MtigAssumption DEF Mtig!Deliver, Packets
    <2>2. /\ adding[t] = "send" /\ adding' = adding /\ calls' = calls /\ mtig' = mtig /\ failed' = failed
          /\ packet'[t] = [packet[t] EXCEPT !.receivers = q]
          /\ \A r \in 1..Receivers : Got(t, r)' = IF r = q THEN Append(Got(t, r), packet'[t]) ELSE Got(t, r)
      BY <1>0, <1>3, <2>1 DEF MtigTypeOK, Mtig!Deliver, Got
    <2>3. /\ q \in Nat /\ packet'[t].receivers = q /\ packet'[t].call = packet[t].call
          /\ packet'[t].offset = packet[t].offset /\ packet'[t].count = packet[t].count
      BY <1>0, <2>1, <2>2, PacketType
    <2>4. SendInv(t)'
      BY <2>1, <2>2, <2>3, MtigAssumption DEF DriverInv, SendInv, Sending, CallOf
    <2>5. ASSUME NEW r \in 1..Receivers, r # q PROVE ReceiverInv(t, r)' /\ ContiguousAt(t, r)'
      <3>1. Has(t, r)' <=> Has(t, r)
        BY <1>0, <2>1, <2>2, <2>3, <2>5, MtigAssumption DEF Has, Sending, Packets
      <3>2. Got(t, r)' = Got(t, r)
        BY <2>2, <2>5
      <3>3. ReceiverInv(t, r) /\ ContiguousAt(t, r)
        BY <2>4 DEF DriverInv
      <3> QED
        BY <2>2, <2>3, <3>1, <3>2, <3>3
           DEF ReceiverInv, ContiguousAt, Sending, CallOf, Last, Mtig!Counted
    <2>6. ReceiverInv(t, q)' /\ ContiguousAt(t, q)'
      <3> DEFINE p == packet'[t]
      <3>0. PICK s : s = Got(t, q)
        OBVIOUS
      <3>1. /\ Got(t, q)' = Append(s, p) /\ s \in Seq(Packets)
            /\ Len(Append(s, p)) = Len(s) + 1 /\ DOMAIN Append(s, p) = 1..(Len(s) + 1)
            /\ DOMAIN s = 1..Len(s) /\ Len(s) \in Nat
            /\ \A k \in 1..Len(s) : Append(s, p)[k] = s[k]
            /\ Append(s, p)[Len(s) + 1] = p
        <4>1. s \in Seq(Packets)
          BY <1>9, <3>0
        <4>2. p \in Packets
          BY <1>0, <2>2, <2>3, PacketType
        <4>3. Got(t, q)' = Append(s, p)
          BY <2>2, <3>0
        <4> QED
          BY <4>1, <4>2, <4>3, LastElement
      <3>2. ~Has(t, q) /\ Has(t, q)' /\ CallOf(t)' = CallOf(t) /\ CallOf(t) = packet[t].call
        BY <1>0, <2>1, <2>2, <2>3, PacketType DEF Has, Sending, CallOf
      <3>3. /\ \A k \in DOMAIN s : s[k].call < CallOf(t)
            /\ p.offset = IF s = <<>> THEN 0 ELSE s[Len(s)].offset + Mtig!Counted(t, s[Len(s)])
            /\ \A k \in DOMAIN s : s[k].offset =
                  IF k = 1 THEN 0 ELSE s[k - 1].offset + Mtig!Counted(t, s[k - 1])
        BY <2>1, <2>2, <2>3, <3>0, <3>2
           DEF DriverInv, SendInv, ReceiverInv, ContiguousAt, Sending, Last
      <3>4. ReceiverInv(t, q)'
        BY <2>3, <3>1, <3>2, <3>3 DEF ReceiverInv, Last
      <3>5. \A k \in 1..(Len(s) + 1) :
               Append(s, p)[k].offset = IF k = 1 THEN 0
                   ELSE Append(s, p)[k - 1].offset + Mtig!Counted(t, Append(s, p)[k - 1])
        <4> SUFFICES ASSUME NEW k \in 1..(Len(s) + 1)
                     PROVE  Append(s, p)[k].offset = IF k = 1 THEN 0
                              ELSE Append(s, p)[k - 1].offset + Mtig!Counted(t, Append(s, p)[k - 1])
          OBVIOUS
        <4>1. CASE k <= Len(s)
          <5>1. k \in 1..Len(s) /\ (k # 1 => k - 1 \in 1..Len(s))
            BY <3>1, <4>1
          <5> QED
            BY <3>1, <3>3, <5>1 DEF Mtig!Counted
        <4>2. CASE k = Len(s) + 1
          <5>1. s = <<>> <=> Len(s) = 0
            BY <3>1, EmptySeq
          <5>2. k = 1 <=> s = <<>>
            BY <3>1, <4>2, <5>1
          <5>3. k # 1 => Append(s, p)[k - 1] = s[Len(s)]
            <6>1. k - 1 = Len(s) /\ (k # 1 => Len(s) \in 1..Len(s))
              BY <3>1, <4>2
            <6> QED
              BY <3>1, <6>1
          <5>4. Append(s, p)[k] = p
            BY <3>1, <4>2
          <5> QED
            BY <3>3, <5>2, <5>3, <5>4 DEF Mtig!Counted
        <4> QED
          BY <3>1, <4>1, <4>2
      <3>6. ContiguousAt(t, q)'
        BY <2>2, <3>1, <3>5 DEF ContiguousAt, Mtig!Counted
      <3> QED
        BY <3>4, <3>6
    <2>7. ASSUME NEW r \in 1..Receivers PROVE ReceiverInv(t, r)' /\ ContiguousAt(t, r)'
      <3>1. CASE r = q
        BY <2>6, <3>1
      <3> QED
        BY <2>5, <2>7, <3>1
    <2> QED
      BY <2>4, <2>7 DEF DriverInv
  <1>4. CASE Mtig!ReceiverThrows(t)
    <2>1. /\ adding[t] = "send" /\ adding'[t] = "idle" /\ calls' = calls /\ mtig' = mtig
          /\ received' = received /\ failed'[t] = failed[t] \cup {packet[t].call}
      BY <1>4 DEF MtigTypeOK, Mtig!ReceiverThrows, Mtig!Goto
    <2>2. packet[t].call + 1 = calls[t] /\ packet[t].call \in Nat
      BY <1>0, <2>1 DEF DriverInv, SendInv, Sending, Packets
    <2>3. SendInv(t)'
      BY <1>0, <2>1, <2>2 DEF DriverInv, SendInv, Sending, CallOf
    <2>4. ASSUME NEW r \in 1..Receivers PROVE ReceiverInv(t, r)' /\ ContiguousAt(t, r)'
      <3>1. ~Has(t, r)' /\ CallOf(t)' = calls[t] /\ CallOf(t) = packet[t].call /\ Got(t, r)' = Got(t, r)
        BY <2>1 DEF Has, Sending, CallOf, Got
      <3>2. /\ Got(t, r) \in Seq(Packets) /\ DOMAIN Got(t, r) = 1..Len(Got(t, r)) /\ Len(Got(t, r)) \in Nat
            /\ Got(t, r) # <<>> => Len(Got(t, r)) >= 1
            /\ \A k \in 1..Len(Got(t, r)) : Got(t, r)[k] \in Packets
        BY <1>9, <2>4, LastElement
      <3>3. ReceiverInv(t, r) /\ ContiguousAt(t, r)
        BY <2>4 DEF DriverInv
      <3>4. \A k \in DOMAIN Got(t, r) : Got(t, r)[k].call \in Nat /\ Got(t, r)[k].offset \in Nat
        BY <3>2 DEF Packets
      <3>5. \A k \in DOMAIN Got(t, r) : Got(t, r)[k].call < calls[t]
        BY <2>1, <2>2, <3>1, <3>2, <3>3, <3>4 DEF ReceiverInv, Has, Last
      <3>6. \A k \in DOMAIN Got(t, r) : k < Len(Got(t, r)) =>
               Mtig!Counted(t, Got(t, r)[k])' = Mtig!Counted(t, Got(t, r)[k])
        BY <2>1, <2>2, <3>1, <3>2, <3>3, <3>4 DEF ReceiverInv, Mtig!Counted, Got
      <3>7. ContiguousAt(t, r)'
        <4>1. PICK g : g = Got(t, r)
          OBVIOUS
        <4>2. \A k \in DOMAIN g : g[k].offset =
                  IF k = 1 THEN 0 ELSE g[k - 1].offset + Mtig!Counted(t, g[k - 1])
          BY <3>3, <4>1 DEF ContiguousAt
        <4>3. \A k \in DOMAIN g : k < Len(g) => Mtig!Counted(t, g[k])' = Mtig!Counted(t, g[k])
          BY <3>1, <3>6, <4>1 DEF Mtig!Counted
        <4>4. \A k \in DOMAIN g : k # 1 => k - 1 \in DOMAIN g /\ k - 1 < Len(g)
          BY <3>2, <4>1
        <4>5. \A k \in DOMAIN g : g[k].offset =
                  IF k = 1 THEN 0 ELSE g[k - 1].offset + Mtig!Counted(t, g[k - 1])'
          BY <4>2, <4>3, <4>4
        <4> QED
          BY <3>1, <4>1, <4>5 DEF ContiguousAt, Mtig!Counted
      <3>8. ReceiverInv(t, r)'
        <4>1. CASE Got(t, r) = <<>>
          BY <2>1, <3>1, <3>3, <3>5, <4>1 DEF ReceiverInv
        <4>2. CASE Got(t, r) # <<>> /\ Has(t, r)
          BY <1>0, <2>1, <3>1, <3>2, <3>3, <3>4, <3>5, <4>2
             DEF ReceiverInv, Last, Mtig!Counted, DriverInv, SendInv, Has
        <4>3. CASE Got(t, r) # <<>> /\ ~Has(t, r)
          <5>1. Last(t, r).call < packet[t].call
            BY <3>1, <3>2, <3>3, <4>3 DEF ReceiverInv, Last
          <5> QED
            BY <2>1, <2>2, <3>1, <3>2, <3>3, <3>4, <3>5, <4>3, <5>1 DEF ReceiverInv, Last, Mtig!Counted
        <4> QED
          BY <4>1, <4>2, <4>3
      <3> QED
        BY <3>7, <3>8
    <2> QED
      BY <2>3, <2>4 DEF DriverInv
  <1>5. CASE Mtig!Sent(t)
    <2>1. /\ adding[t] = "send" /\ adding'[t] = "idle" /\ calls' = calls
          /\ received' = received /\ failed' = failed /\ packet[t].receivers = Receivers
          /\ mtig'[t].captured = mtig[t].captured + packet[t].count
      BY <1>0, <1>5 DEF MtigTypeOK, Mtig!Sent, Mtig!Goto, Mtig!CountSamples, Devices
    <2>2. packet[t].call + 1 = calls[t] /\ packet[t].call \in Nat /\ packet[t].call \notin failed[t]
      BY <1>0, <2>1 DEF DriverInv, SendInv, Sending, Packets, CallOf
    <2>3. SendInv(t)'
      BY <1>0, <2>1, <2>2 DEF DriverInv, SendInv, Sending, CallOf
    <2>4. ASSUME NEW r \in 1..Receivers PROVE ReceiverInv(t, r)' /\ ContiguousAt(t, r)'
      <3>1. /\ Has(t, r) /\ ~Has(t, r)' /\ CallOf(t)' = calls[t] /\ CallOf(t) = packet[t].call
            /\ Got(t, r)' = Got(t, r)
        BY <2>1, MtigAssumption DEF Has, Sending, CallOf, Got
      <3>2. /\ Got(t, r) \in Seq(Packets) /\ DOMAIN Got(t, r) = 1..Len(Got(t, r)) /\ Len(Got(t, r)) \in Nat
            /\ \A k \in 1..Len(Got(t, r)) : Got(t, r)[k] \in Packets
        BY <1>9, <2>4, LastElement
      <3>3. ReceiverInv(t, r) /\ ContiguousAt(t, r) /\ SendInv(t)
        BY <2>4 DEF DriverInv
      <3>4. \A k \in DOMAIN Got(t, r) : Got(t, r)[k].call \in Nat
        BY <3>2 DEF Packets
      <3>5. \A k \in DOMAIN Got(t, r) : Got(t, r)[k].call < calls[t]
        BY <2>2, <3>1, <3>2, <3>3, <3>4 DEF ReceiverInv, Last
      <3>6. mtig'[t].captured = Last(t, r).offset + Mtig!Counted(t, Last(t, r))
        BY <2>1, <2>2, <3>1, <3>3 DEF ReceiverInv, SendInv, Sending, Mtig!Counted
      <3> QED
        BY <2>1, <3>1, <3>3, <3>5, <3>6 DEF ReceiverInv, ContiguousAt, Last, Mtig!Counted
    <2> QED
      BY <2>3, <2>4 DEF DriverInv
  <1> QED
    BY <1>1, <1>2, <1>3, <1>4, <1>5 DEF Mtig!DriverStep

LEMMA ContiguousNext == ContiguousInv /\ [Mtig!Next]_Mtig!mvars => ContiguousInv'
  <1> SUFFICES ASSUME ContiguousInv, [Mtig!Next]_Mtig!mvars PROVE ContiguousInv'
    OBVIOUS
  <1>0. MtigTypeOK /\ MtigTypeOK'
    BY MtigTypeNext DEF ContiguousInv
  <1>1. ASSUME NEW t \in Drivers, Mtig!DriverStep(t), NEW u \in Drivers, u # t
        PROVE  Of(u)' = Of(u)
    BY <1>0, <1>1 DEF MtigTypeOK, Of, Mtig!DriverStep, Mtig!CreateDevice, Mtig!AddData, Mtig!Deliver,
          Mtig!ReceiverThrows, Mtig!Sent, Mtig!Goto, Mtig!CountSamples
  <1>2. ASSUME NEW t \in Drivers, NEW x \in Rates, Mtig!PropertyChanged(t, x), NEW u \in Drivers
        PROVE  Of(u)' = Of(u)
    BY <1>0, <1>2 DEF MtigTypeOK, Of, Mtig!PropertyChanged, Mtig!Configured, Devices
  <1>3. ASSUME NEW u \in Drivers PROVE DriverInv(u)'
    <2>1. DriverInv(u)
      BY DEF ContiguousInv
    <2>2. ASSUME NEW t \in Drivers, Mtig!DriverStep(t) PROVE DriverInv(u)'
      BY <1>0, <1>1, <2>1, <2>2, DriverNext, Undisturbed
    <2>3. ASSUME NEW t \in Drivers, NEW x \in Rates, Mtig!PropertyChanged(t, x) PROVE DriverInv(u)'
      BY <1>2, <2>1, <2>3, Undisturbed
    <2>4. CASE UNCHANGED Mtig!mvars
      BY <2>1, <2>4, Undisturbed DEF Mtig!mvars, Of
    <2> QED
      BY <2>2, <2>3, <2>4 DEF Mtig!Next
  <1> QED
    BY <1>0, <1>3 DEF ContiguousInv

(* addData of the MTIG710 device: its packets are contiguous in time to     *)
(* every receiver, for any drivers, receivers, counts and bounds, whatever  *)
(* receivers throw and whenever SampleRate is written.                      *)
THEOREM SamplesContiguous == Mtig!Spec => []TimesContiguous
  <1>1. ContiguousInv => TimesContiguous
    BY DEF ContiguousInv, DriverInv, ContiguousAt, Got, TimesContiguous, Mtig!TimesContiguous
  <1> QED
    BY <1>1, MtigInit, ContiguousNext, PTL DEF Mtig!Spec
=============================================================================
