------------------------ MODULE PlaybackDeviceProofs ------------------------
(* Theorems about PlaybackDevice, for any number of channels, loop times    *)
(* and time bound, and about PlaybackLog, for any chunk sizes and bounds.   *)
EXTENDS MCPlaybackDevice, SequenceTheorems, TLAPS

Channels == [index : Nat, born : Nat, played : Nat]

(* Who has the mutex, and what cannot be under way because of it.           *)
LockInv ==
    /\ mutex = "acq" <=> acq \in {"check", "collect"}
    /\ mutex = "user" <=> user \in {"shrink", "grow"}
    /\ owner # "alive" => user = "idle"
    /\ stopAcq => owner \in {"joining", "gone"} /\ acq # "collect"

(* The vector is a first part of the channels, never too long but between   *)
(* the write of the property and the removal of what is too much.           *)
VectorInv ==
    /\ \A i \in DOMAIN channels : channels[i].index = i - 1
    /\ user = "grow" => Len(channels) <= numberOfChannels
    /\ user = "idle" => Len(channels) = numberOfChannels

(* No channel is from the future, none that is created in a write has       *)
(* missed a round, and a thread that has just started waits for nothing.    *)
TimeInv ==
    /\ acq = "started" => waitLeft = 0
    /\ lastCollectTime <= now
    /\ \A i \in DOMAIN channels : channels[i].born <= now
    /\ acq = "collect" => curTime <= now /\ \A i \in DOMAIN channels : channels[i].born <= curTime
    /\ user = "grow" => lastCollectTime <= grown /\ grown <= now

(* In a round, the channels before `collecting' have the new time.          *)
RoundInv ==
    IF acq = "collect"
    THEN /\ collecting >= 1
         /\ \A i \in DOMAIN channels :
               i < collecting => channels[i].played = curTime - channels[i].born
    ELSE \A i \in DOMAIN channels :
             channels[i].played = MaxOf(0, lastCollectTime - channels[i].born)

DeviceInv == TypeOK /\ LockInv /\ VectorInv /\ TimeInv /\ RoundInv

-----------------------------------------------------------------------------
LEMMA SeqOfChannels ==
    ASSUME TypeOK
    PROVE  /\ channels \in Seq(Channels) /\ Len(channels) \in Nat
           /\ DOMAIN channels = 1..Len(channels)
           /\ \A i \in DOMAIN channels : channels[i] \in Channels
  <1>1. channels \in Seq(Channels)
    BY DEF TypeOK, Channels
  <1> QED
    BY <1>1, LenProperties, ElementOfSeq

LEMMA LoopTimeFacts ==
    ASSUME TypeOK
    PROVE  /\ loopTime \in Nat /\ sinceLoop \in Nat /\ waitLeft \in Nat
           /\ sinceLoop <= loopTime /\ waitLeft <= loopTime /\ now \in Nat /\ MaxTime \in Nat
  <1>1. loopTime \in Nat
    BY PlaybackDeviceAssumption DEF TypeOK
  <1> QED
    BY <1>1, PlaybackDeviceAssumption DEF TypeOK

LEMMA DeviceInit == Init => DeviceInv
  <1> SUFFICES ASSUME Init PROVE DeviceInv
    OBVIOUS
  <1> USE PlaybackDeviceAssumption
  <1>1. FirstChannels \in Nat /\ \A i \in 1..FirstChannels : Channel(i - 1, 0) \in Channels
    BY DEF Channel, Channels
  <1>2. channels \in [1..FirstChannels -> Channels]
    BY <1>1 DEF Init
  <1>3. channels \in Seq(Channels) /\ Len(channels) = FirstChannels /\ DOMAIN channels = 1..FirstChannels
    BY <1>1, <1>2, LenProperties
  <1>4. TypeOK
    <2>1. 0 \in 0..MaxTime /\ FirstChannels \in 1..MaxChannels /\ 0 \in Nat /\ 0 \in 0..0
      OBVIOUS
    <2> QED
      BY <1>3, <2>1 DEF Init, TypeOK, Channels
  <1>5. \A i \in DOMAIN channels :
           channels[i].index = i - 1 /\ channels[i].born = 0 /\ channels[i].played = 0
    BY <1>3 DEF Init, Channel
  <1> QED
    BY <1>3, <1>4, <1>5 DEF Init, DeviceInv, LockInv, VectorInv, TimeInv, RoundInv, MaxOf

LEMMA DeviceNext == DeviceInv /\ [Next]_vars => DeviceInv'
  <1> SUFFICES ASSUME DeviceInv, [Next]_vars PROVE DeviceInv'
    OBVIOUS
  <1> USE PlaybackDeviceAssumption
  <1>0. /\ TypeOK /\ LockInv /\ VectorInv /\ TimeInv /\ RoundInv
        /\ channels \in Seq(Channels) /\ Len(channels) \in Nat
        /\ DOMAIN channels = 1..Len(channels)
        /\ \A i \in DOMAIN channels : channels[i] \in Channels
    BY SeqOfChannels DEF DeviceInv
  <1>00. /\ loopTime \in Nat /\ sinceLoop \in Nat /\ waitLeft \in Nat
         /\ sinceLoop <= loopTime /\ waitLeft <= loopTime /\ now \in Nat /\ MaxTime \in Nat
         /\ numberOfChannels \in Nat /\ now <= MaxTime
    BY <1>0, LoopTimeFacts DEF TypeOK
  <1>1. CASE Tick
    <2>1. now' \in 0..MaxTime /\ now' >= now
      BY <1>00, <1>1 DEF Tick, MinOf
    <2>2. sinceLoop' \in 0..loopTime /\ waitLeft' \in 0..loopTime
      BY <1>00, <1>1 DEF Tick, MinOf, MaxOf
    <2>3. UNCHANGED <<mutex, props, channels, stopAcq, loop, user, grown, owner>>
      BY <1>1 DEF Tick
    <2>4. TypeOK'
      BY <1>0, <2>1, <2>2, <2>3 DEF TypeOK, props, loop
    <2>5. LockInv' /\ VectorInv' /\ RoundInv'
      BY <1>0, <2>3 DEF LockInv, VectorInv, RoundInv, props, loop
    <2>6. TimeInv'
      <3>1. \A i \in DOMAIN channels : channels[i].born \in Nat
        BY <1>0 DEF Channels
      <3>2. lastCollectTime \in Nat /\ curTime \in Nat /\ grown \in Nat /\ now' \in Nat
        BY <1>0, <2>1 DEF TypeOK
      <3>3. waitLeft = 0 => waitLeft' = 0
        BY <1>1 DEF Tick, MaxOf
      <3> QED
        BY <1>0, <1>00, <2>1, <2>3, <3>1, <3>2, <3>3 DEF TimeInv, loop
    <2> QED
      BY <2>4, <2>5, <2>6 DEF DeviceInv
  <1>2. CASE ReadLoopTime
    <2>1. acqLoopTime \in Nat /\ waitLeft = 0
      BY <1>0, <1>2 DEF ReadLoopTime, TypeOK, TimeInv
    <2>2. sinceLoop' \in 0..loopTime' /\ waitLeft' \in 0..loopTime'
      BY <1>2, <2>1 DEF ReadLoopTime
    <2>3. TypeOK'
      BY <1>0, <1>2, <2>2 DEF ReadLoopTime, props, TypeOK
    <2> QED
      BY <1>0, <1>2, <2>3
         DEF ReadLoopTime, props, DeviceInv, LockInv, VectorInv, TimeInv, RoundInv
  <1>3. CASE LockLoop
    BY <1>0, <1>3
       DEF LockLoop, Acquire, props, clock, DeviceInv, TypeOK, LockInv, VectorInv, TimeInv, RoundInv
  <1>4. CASE BeginWait
    <2>1. waitLeft' \in 0..loopTime /\ sinceLoop' \in 0..loopTime
      BY <1>00, <1>4 DEF BeginWait
    <2> QED
      BY <1>0, <1>4, <2>1
         DEF BeginWait, Release, props, DeviceInv, TypeOK, LockInv, VectorInv, TimeInv, RoundInv
  <1>5. CASE EndLoop
    BY <1>0, <1>5
       DEF EndLoop, Release, props, clock, DeviceInv, TypeOK, LockInv, VectorInv, TimeInv, RoundInv
  <1>6. CASE Wake
    <2>1. TypeOK'
      BY <1>0, <1>00, <1>6 DEF Wake, Acquire, props, clock, TypeOK
    <2>2. LockInv' /\ VectorInv'
      BY <1>0, <1>6 DEF Wake, Acquire, props, clock, LockInv, VectorInv
    <2>3. TimeInv'
      BY <1>0, <1>00, <1>6 DEF Wake, clock, TimeInv
    <2>4. RoundInv'
      <3>1. ASSUME acq' = "collect", NEW i \in DOMAIN channels PROVE ~(i < collecting')
        BY <1>0, <1>6, <3>1 DEF Wake
      <3> QED
        BY <1>6, <1>0, <3>1 DEF Wake, RoundInv
    <2> QED
      BY <2>1, <2>2, <2>3, <2>4 DEF DeviceInv
  <1>7. CASE CollectSamples
    <2> DEFINE e == [channels[collecting] EXCEPT !.played = curTime - channels[collecting].born]
    <2>0. collecting \in DOMAIN channels /\ collecting \in Nat /\ acq = "collect"
      BY <1>0, <1>7 DEF CollectSamples, TypeOK, RoundInv
    <2>1. curTime - channels[collecting].born \in Nat
      <3>1. channels[collecting].born <= curTime /\ curTime \in Nat
        BY <1>0, <2>0 DEF TimeInv, TypeOK
      <3>2. channels[collecting].born \in Nat
        BY <1>0, <2>0 DEF Channels
      <3> QED
        BY <3>1, <3>2
    <2>2. /\ e \in Channels /\ e.played = curTime - channels[collecting].born
          /\ e.born = channels[collecting].born /\ e.index = channels[collecting].index
      BY <1>0, <2>0, <2>1 DEF Channels
    <2>3. channels' = [channels EXCEPT ![collecting] = e]
      BY <1>7 DEF CollectSamples
    <2> HIDE DEF e
    <2>4. /\ channels' \in Seq(Channels) /\ Len(channels') = Len(channels)
          /\ \A j \in 1..Len(channels) :
                channels'[j] = IF j = collecting THEN e ELSE channels[j]
      BY <1>0, <2>0, <2>2, <2>3, ExceptSeq
    <2>5. DOMAIN channels' = DOMAIN channels
      BY <1>0, <2>4, LenProperties
    <2>6. collecting' = collecting + 1 /\ UNCHANGED <<mutex, props, stopAcq, clock, acq, loopTime,
                curTime, lastCollectTime, user, grown, owner>>
      BY <1>7 DEF CollectSamples
    <2>7. TypeOK'
      BY <1>0, <2>0, <2>4, <2>6 DEF props, clock, TypeOK, Channels
    <2>8. LockInv' /\ VectorInv'
      BY <1>0, <2>2, <2>4, <2>5, <2>6 DEF props, LockInv, VectorInv
    <2>9. TimeInv'
      BY <1>0, <2>2, <2>4, <2>5, <2>6 DEF clock, TimeInv
    <2>10. RoundInv'
      <3>1. ASSUME NEW j \in DOMAIN channels, j < collecting + 1
            PROVE  channels'[j].played = curTime - channels'[j].born
        <4>1. j < collecting \/ j = collecting
          BY <1>0, <2>0, <3>1
        <4> QED
          BY <1>0, <2>0, <2>2, <2>4, <4>1 DEF RoundInv
      <3> QED
        BY <2>0, <2>5, <2>6, <3>1 DEF RoundInv
    <2> QED
      BY <2>7, <2>8, <2>9, <2>10 DEF DeviceInv
  <1>8. CASE EndCollect
    <2>1. TypeOK' /\ LockInv' /\ VectorInv'
      BY <1>0, <1>8 DEF EndCollect, props, clock, TypeOK, LockInv, VectorInv
    <2>2. TimeInv'
      BY <1>0, <1>00, <1>8 DEF EndCollect, clock, LockInv, TimeInv
    <2>3. RoundInv'
      <3>1. ASSUME NEW i \in DOMAIN channels
            PROVE  channels[i].played = MaxOf(0, curTime - channels[i].born)
        <4>1. i < collecting /\ acq = "collect" /\ curTime \in Nat /\ channels[i].born \in Nat
          BY <1>0, <1>8 DEF EndCollect, TypeOK, Channels
        <4>2. channels[i].born <= curTime /\ channels[i].played = curTime - channels[i].born
          BY <1>0, <4>1 DEF TimeInv, RoundInv
        <4> QED
          BY <4>1, <4>2 DEF MaxOf
      <3> QED
        BY <1>8, <3>1 DEF EndCollect, RoundInv
    <2> QED
      BY <2>1, <2>2, <2>3 DEF DeviceInv
  <1>9. ASSUME NEW n \in 1..MaxChannels, SetNumberOfChannels(n) PROVE DeviceInv'
    BY <1>0, <1>9
       DEF SetNumberOfChannels, Acquire, clock, loop, DeviceInv, TypeOK, LockInv, VectorInv,
           TimeInv, RoundInv
  <1>10. CASE ShrinkChannels
    <2> DEFINE n == MinOf(numberOfChannels, Len(channels))
    <2>1. n \in Nat /\ n <= Len(channels) /\ n <= numberOfChannels
      BY <1>0, <1>00 DEF MinOf
    <2> HIDE DEF n
    <2>2. /\ channels' \in Seq(Channels) /\ Len(channels') = n
          /\ \A i \in 1..n : channels'[i] = channels[i]
      <3>1. channels' = SubSeq(channels, 1, n)
        BY <1>10 DEF ShrinkChannels, n
      <3>2. \A i \in 1..n : channels[i] \in Channels
        BY <1>0, <2>1
      <3>3. /\ SubSeq(channels, 1, n) \in Seq(Channels)
            /\ Len(SubSeq(channels, 1, n)) = IF 1 <= n THEN n - 1 + 1 ELSE 0
            /\ \A i \in 1..(n - 1 + 1) : SubSeq(channels, 1, n)[i] = channels[1 + i - 1]
        BY <2>1, <3>2, SubSeqProperties
      <3> QED
        BY <2>1, <3>1, <3>3
    <2>3. DOMAIN channels' = 1..n /\ 1..n \subseteq DOMAIN channels
      BY <1>0, <2>1, <2>2, LenProperties
    <2>4. TypeOK'
      BY <1>0, <1>00, <1>10, <2>2 DEF ShrinkChannels, props, clock, loop, TypeOK, Channels
    <2>5. LockInv' /\ VectorInv'
      BY <1>0, <1>10, <2>1, <2>2, <2>3 DEF ShrinkChannels, props, loop, LockInv, VectorInv
    <2>6. acq # "collect"
      BY <1>0, <1>10 DEF ShrinkChannels, LockInv
    <2>7. TimeInv' /\ RoundInv'
      BY <1>0, <1>00, <1>10, <2>2, <2>3, <2>6 DEF ShrinkChannels, clock, loop, TimeInv, RoundInv
    <2> QED
      BY <2>4, <2>5, <2>7 DEF DeviceInv
  <1>11. CASE GrowChannels
    <2> DEFINE e == Channel(Len(channels), grown)
    <2>1. e \in Channels /\ e.index = Len(channels) /\ e.born = grown /\ e.played = 0
      BY <1>0 DEF Channel, Channels, TypeOK
    <2> HIDE DEF e
    <2>2. /\ channels' \in Seq(Channels) /\ Len(channels') = Len(channels) + 1
          /\ \A i \in 1..Len(channels) : channels'[i] = channels[i]
          /\ channels'[Len(channels) + 1] = e
      BY <1>0, <1>11, <2>1, AppendProperties DEF GrowChannels, e
    <2>3. DOMAIN channels' = 1..(Len(channels) + 1)
      BY <2>2, LenProperties
    <2>4. TypeOK'
      BY <1>0, <1>11, <2>2 DEF GrowChannels, props, clock, loop, TypeOK, Channels
    <2>5. LockInv'
      BY <1>0, <1>11 DEF GrowChannels, loop, LockInv
    <2>6. acq # "collect" /\ user = "grow" /\ lastCollectTime <= grown /\ grown <= now
      BY <1>0, <1>11 DEF GrowChannels, LockInv, TimeInv
    <2>7. VectorInv'
      BY <1>0, <1>00, <1>11, <2>1, <2>2, <2>3 DEF GrowChannels, props, VectorInv
    <2>8. TimeInv'
      BY <1>0, <1>11, <2>1, <2>2, <2>3, <2>6 DEF GrowChannels, clock, loop, TimeInv
    <2>9. RoundInv'
      <3>1. MaxOf(0, lastCollectTime - grown) = 0
        BY <1>0, <2>6 DEF TypeOK, MaxOf
      <3> QED
        BY <1>0, <1>11, <2>1, <2>2, <2>3, <2>6, <3>1 DEF GrowChannels, loop, RoundInv
    <2> QED
      BY <2>4, <2>5, <2>7, <2>8, <2>9 DEF DeviceInv
  <1>12. CASE EndWrite
    <2>1. TypeOK' /\ LockInv' /\ TimeInv' /\ RoundInv'
      BY <1>0, <1>12
         DEF EndWrite, Release, props, clock, loop, TypeOK, LockInv, TimeInv, RoundInv
    <2>3. /\ UNCHANGED <<channels, numberOfChannels>> /\ user = "grow" /\ user' = "idle"
          /\ Len(channels) >= numberOfChannels
      BY <1>12 DEF EndWrite, props
    <2>4. VectorInv /\ Len(channels) \in Nat /\ numberOfChannels \in Nat
      BY <1>0, <1>00
    <2>5. Len(channels) = numberOfChannels
      BY <2>3, <2>4 DEF VectorInv
    <2>2. VectorInv'
      BY <2>3, <2>4, <2>5 DEF VectorInv
    <2> QED
      BY <2>1, <2>2 DEF DeviceInv
  <1>13. ASSUME NEW t \in LoopTimes, SetAcqLoopTime(t) PROVE DeviceInv'
    BY <1>0, <1>13
       DEF SetAcqLoopTime, clock, loop, DeviceInv, TypeOK, LockInv, VectorInv, TimeInv, RoundInv
  <1>14. CASE BeginDestroy
    BY <1>0, <1>14
       DEF BeginDestroy, props, clock, loop, DeviceInv, TypeOK, LockInv, VectorInv, TimeInv, RoundInv
  <1>15. CASE StopAcq
    BY <1>0, <1>15
       DEF StopAcq, props, clock, loop, DeviceInv, TypeOK, LockInv, VectorInv, TimeInv, RoundInv
  <1>16. CASE Join
    BY <1>0, <1>16
       DEF Join, props, clock, loop, DeviceInv, TypeOK, LockInv, VectorInv, TimeInv, RoundInv
  <1>17. CASE UNCHANGED vars
    BY <1>0, <1>17
       DEF vars, props, clock, loop, DeviceInv, TypeOK, LockInv, VectorInv, TimeInv, RoundInv
  <1> QED
    BY <1>1, <1>2, <1>3, <1>4, <1>5, <1>6, <1>7, <1>8, <1>9, <1>10, <1>11, <1>12, <1>13, <1>14,
       <1>15, <1>16, <1>17 DEF Next, AcqLoop, UserStep, Destroy

LEMMA DeviceHolds == Spec => []DeviceInv
  <1> QED
    BY DeviceInit, DeviceNext, PTL DEF Spec

-----------------------------------------------------------------------------
(* updateNumberOfChannels: between writes the vector holds the channels     *)
(* 0..n-1 of the property, in order.                                        *)
THEOREM ChannelsAsConfigured == Spec => []ChannelsMatchProperty
  <1>1. DeviceInv => ChannelsMatchProperty
    BY DEF DeviceInv, VectorInv, ChannelsMatchProperty
  <1> QED
    BY <1>1, DeviceHolds, PTL

(* collectSamples: between rounds all channels have played to one time.     *)
THEOREM OneTimeForAll == Spec => []CollectedTogether
  <1>1. DeviceInv => CollectedTogether
    BY DEF DeviceInv, RoundInv, CollectedTogether
  <1> QED
    BY <1>1, DeviceHolds, PTL

(* The destructor: after it asked the thread to stop, no channel plays on.  *)
THEOREM StopIsQuiet == Spec => QuietAfterStop
  <1>1. ASSUME DeviceInv, [Next]_vars, stopAcq PROVE channels' = channels
    <2>1. user = "idle" /\ acq # "collect"
      BY <1>1 DEF DeviceInv, LockInv
    <2> QED
      BY <1>1, <2>1
         DEF Next, AcqLoop, UserStep, Destroy, vars, props, clock, loop, Tick, ReadLoopTime, LockLoop,
             BeginWait, EndLoop, Wake, CollectSamples, EndCollect, SetNumberOfChannels,
             ShrinkChannels, GrowChannels, EndWrite, SetAcqLoopTime, BeginDestroy, StopAcq, Join
  <1>2. DeviceInv /\ [Next]_vars =>
           [stopAcq => \A i \in DOMAIN channels : channels'[i] = channels[i]]_vars
    BY <1>1
  <1> QED
    BY <1>2, DeviceHolds, PTL DEF Spec, QuietAfterStop

-----------------------------------------------------------------------------
(* The log                                                                 *)

LogPcs == {"start", "infos", "exists", "size", "time", "chunk", "check", "open", "tell",
           "read", "ended", "threw"}

LogTypeOK ==
    /\ loggingEnabled \in BOOLEAN /\ disturbed \in BOOLEAN /\ wasOn \in BOOLEAN
    /\ content \in Seq(Seq(Nat)) /\ bytes \in Nat
    /\ path \in 0..Len(content) /\ handle \in 0..Len(content)
    /\ pc \in LogPcs
    /\ request \in Nat \cup {-1}
    /\ fileSize \in Nat /\ announced \in Nat
    /\ downloaded \in Seq(Nat)

(* The infos have been found to exist, and no chunk has been refused.       *)
Downloading == pc \in {"chunk", "check", "open", "tell", "read"}

(* Undisturbed, what the client has is in the file, which is the one that   *)
(* is open and at least as long as was announced.                           *)
DownloadInv ==
    /\ downloaded # <<>> => path # 0
    /\ \A k \in 1..Len(downloaded) : k <= Len(content[path]) /\ downloaded[k] = content[path][k]
    /\ Downloading \/ pc \in {"exists", "size", "time"} => loggingEnabled
    /\ Downloading => path # 0 /\ announced <= Len(content[path])
    /\ pc = "time" => path # 0 /\ fileSize <= Len(content[path])
    /\ pc \in {"tell", "read"} => handle = path
    /\ pc = "read" => Len(downloaded) < fileSize /\ fileSize <= Len(content[path])
    /\ pc = "ended" => announced <= Len(downloaded)

LogInv ==
    /\ LogTypeOK
    /\ pc \in {"tell", "read"} => handle # 0
    /\ pc = "read" => Len(downloaded) < fileSize
    /\ ~disturbed => DownloadInv

(* When logging was on, in a call of onGetLog.                              *)
SwitchInv ==
    /\ loggingEnabled => wasOn
    /\ pc \in {"open", "tell", "read"} => wasOn

LEMMA PrefixElements ==
    ASSUME NEW s \in Seq(Nat), NEW t \in Seq(Nat),
           \A k \in 1..Len(s) : k <= Len(t) /\ s[k] = t[k]
    PROVE  Log!IsPrefix(s, t)
  <1>1. Len(s) \in Nat /\ Len(t) \in Nat /\ Len(s) <= Len(t)
    <2>1. Len(s) \in Nat /\ Len(t) \in Nat
      BY LenProperties
    <2>2. CASE Len(s) = 0
      BY <2>1, <2>2
    <2>3. CASE Len(s) # 0
      <3>1. Len(s) \in 1..Len(s)
        BY <2>1, <2>3
      <3> QED
        BY <2>1, <3>1
    <2> QED
      BY <2>1, <2>2, <2>3
  <1>2. SubSeq(s, 1, Len(s)) = [k \in 1..Len(s) |-> s[k]]
    BY <1>1
  <1>3. SubSeq(t, 1, Len(s)) = [k \in 1..Len(s) |-> t[k]]
    BY <1>1
  <1>4. SubSeq(s, 1, Len(s)) = SubSeq(t, 1, Len(s))
    BY <1>2, <1>3
  <1> QED
    BY <1>1, <1>4 DEF Log!IsPrefix

(* What a call hands out.                                                   *)
ChunkLength == IF request = -1 \/ request > fileSize - Log!Offset THEN fileSize - Log!Offset ELSE request
Chunk == [k \in 1..ChunkLength |->
             IF Log!ReadFrom(k) \in DOMAIN content[handle] THEN content[handle][Log!ReadFrom(k)] ELSE 0]

LEMMA ChunkType ==
    ASSUME LogTypeOK, handle # 0, Len(downloaded) < fileSize
    PROVE  /\ ChunkLength \in Nat /\ ChunkLength <= fileSize - Len(downloaded)
           /\ Chunk \in Seq(Nat) /\ Len(Chunk) = ChunkLength
           /\ downloaded \o Chunk \in Seq(Nat)
           /\ Len(downloaded \o Chunk) = Len(downloaded) + ChunkLength
           /\ \A k \in 1..Len(downloaded) : (downloaded \o Chunk)[k] = downloaded[k]
           /\ \A k \in 1..ChunkLength : (downloaded \o Chunk)[Len(downloaded) + k] = Chunk[k]
           /\ content[handle] \in Seq(Nat)
  <1>1. Len(downloaded) \in Nat /\ fileSize \in Nat /\ request \in Nat \cup {-1}
    BY LenProperties DEF LogTypeOK
  <1>2. ChunkLength \in Nat /\ ChunkLength <= fileSize - Len(downloaded)
    BY <1>1 DEF ChunkLength, Log!Offset
  <1>3. content[handle] \in Seq(Nat)
    BY ElementOfSeq, LenProperties DEF LogTypeOK
  <1>4. \A k \in DOMAIN content[handle] : content[handle][k] \in Nat
    BY <1>3
  <1>5. Chunk \in [1..ChunkLength -> Nat]
    BY <1>4 DEF Chunk
  <1>6. Chunk \in Seq(Nat) /\ Len(Chunk) = ChunkLength
    BY <1>2, <1>5
  <1>7. downloaded \in Seq(Nat)
    BY DEF LogTypeOK
  <1>8. PICK c \in Seq(Nat) : c = Chunk
    BY <1>6
  <1>9. /\ downloaded \o c \in Seq(Nat) /\ Len(downloaded \o c) = Len(downloaded) + Len(c)
        /\ \A k \in 1..Len(downloaded) : (downloaded \o c)[k] = downloaded[k]
        /\ \A k \in 1..Len(c) : (downloaded \o c)[Len(downloaded) + k] = c[k]
    BY <1>7
  <1> HIDE DEF Chunk, ChunkLength
  <1> QED
    BY <1>1, <1>2, <1>3, <1>6, <1>7, <1>8, <1>9

LEMMA LogInit == Log!Init => LogInv /\ SwitchInv
  <1> SUFFICES ASSUME Log!Init PROVE LogInv /\ SwitchInv
    OBVIOUS
  <1>1. LogTypeOK
    <2>1. content \in Seq(Seq(Nat)) /\ Len(content) = 0 /\ downloaded \in Seq(Nat)
      BY EmptySeq DEF Log!Init
    <2>2. path = 0 /\ handle = 0 /\ 0 \in 0..Len(content)
      BY <2>1 DEF Log!Init
    <2> QED
      BY <2>1, <2>2 DEF Log!Init, LogTypeOK, LogPcs
  <1>2. DownloadInv
    BY EmptySeq DEF Log!Init, DownloadInv, Downloading
  <1> QED
    BY <1>1, <1>2 DEF Log!Init, LogInv, SwitchInv

LEMMA FilesType ==
    ASSUME LogTypeOK
    PROVE  /\ content \in Seq(Seq(Nat)) /\ Len(content) \in Nat /\ path \in 0..Len(content)
           /\ path # 0 => content[path] \in Seq(Nat) /\ Len(content[path]) \in Nat
           /\ handle # 0 => content[handle] \in Seq(Nat) /\ Len(content[handle]) \in Nat
  <1>1. /\ content \in Seq(Seq(Nat)) /\ Len(content) \in Nat
        /\ path \in 0..Len(content) /\ handle \in 0..Len(content)
    BY LenProperties DEF LogTypeOK
  <1>2. ASSUME NEW i \in 0..Len(content), i # 0
        PROVE  content[i] \in Seq(Nat) /\ Len(content[i]) \in Nat
    <2>1. i \in 1..Len(content)
      BY <1>1, <1>2
    <2>2. content[i] \in Seq(Nat)
      BY <1>1, <2>1, ElementOfSeq
    <2> QED
      BY <2>2, LenProperties
  <1> QED
    BY <1>1, <1>2

LEMMA LogTypeNext ==
    LogTypeOK /\ (pc \in {"tell", "read"} => handle # 0) /\ (pc = "read" => Len(downloaded) < fileSize)
    /\ [Log!Next]_Log!lvars
    => LogTypeOK' /\ (pc' \in {"tell", "read"} => handle' # 0)
       /\ (pc' = "read" => Len(downloaded') < fileSize')
  <1> DEFINE I == /\ LogTypeOK /\ (pc \in {"tell", "read"} => handle # 0)
                  /\ (pc = "read" => Len(downloaded) < fileSize)
  <1> SUFFICES ASSUME I, [Log!Next]_Log!lvars PROVE I'
    OBVIOUS
  <1>0. content \in Seq(Seq(Nat)) /\ Len(content) \in Nat /\ path \in 0..Len(content)
        /\ (path # 0 => content[path] \in Seq(Nat) /\ Len(content[path]) \in Nat)
        /\ (handle # 0 => content[handle] \in Seq(Nat) /\ Len(content[handle]) \in Nat)
    BY FilesType
  <1>1. CASE Log!AskForInfos
    BY <1>1, EmptySeq DEF Log!AskForInfos, LogTypeOK, LogPcs, Log!Goto, Log!log
  <1>2. CASE Log!InfosIfEnabled \/ Log!InfosIfExists \/ Log!Check
    BY <1>2 DEF Log!InfosIfEnabled, Log!InfosIfExists, Log!Check, LogTypeOK, LogPcs, Log!Goto,
                Log!log, Log!client, Log!environment
  <1>3. CASE Log!FileSize
    <2>1. fileSize' \in Nat
      BY <1>0, <1>3 DEF Log!FileSize
    <2> QED
      BY <1>3, <2>1 DEF Log!FileSize, LogTypeOK, LogPcs, Log!Goto, Log!log, Log!environment
  <1>15. CASE Log!LastWriteTime
    BY <1>15 DEF Log!LastWriteTime, LogTypeOK, LogPcs, Log!Goto, Log!log, Log!environment
  <1>4. ASSUME NEW size \in Sizes, Log!GetLog(size) PROVE I'
    BY <1>4, SizesAssumption DEF Log!GetLog, LogTypeOK, LogPcs, Log!Goto, Log!log
  <1>5. CASE Log!Open
    BY <1>0, <1>5 DEF Log!Open, LogTypeOK, LogPcs, Log!Goto, Log!log, Log!environment
  <1>6. CASE Log!Tell
    <2>1. handle # 0 /\ fileSize' = Len(content[handle]) /\ downloaded' = downloaded /\ handle' = handle
          /\ pc' \in {"ended", "read"} /\ (pc' = "read" => ~(Len(downloaded) >= fileSize'))
      BY <1>6 DEF Log!Tell, Log!AtEnd, Log!Offset
    <2>2. Len(downloaded) \in Nat /\ fileSize' \in Nat
      BY <1>0, <2>1, LenProperties DEF LogTypeOK
    <2> QED
      BY <1>6, <2>1, <2>2 DEF Log!Tell, LogTypeOK, LogPcs, Log!log, Log!environment
  <1>7. CASE Log!Read
    <2>1. downloaded' = downloaded \o Chunk /\ pc' = "chunk" /\ handle # 0 /\ Len(downloaded) < fileSize
      BY <1>7 DEF Log!Read, Log!Goto, Chunk, ChunkLength
    <2>2. downloaded' \in Seq(Nat)
      BY <2>1, ChunkType
    <2> QED
      BY <1>7, <2>1, <2>2 DEF Log!Read, LogTypeOK, LogPcs, Log!log, Log!environment
  <1>8. CASE Log!Again
    BY <1>8 DEF Log!Again, LogTypeOK, LogPcs, Log!log, Log!client, Log!environment
  <1>9. ASSUME NEW on \in BOOLEAN, Log!EnableLogging(on) PROVE I'
    BY <1>9 DEF Log!EnableLogging, LogTypeOK, Log!log, Log!client
  <1>10. CASE Log!LogByte
    <2>1. Append(content[path], bytes') \in Seq(Nat) /\ path \in 1..Len(content) /\ bytes' \in Nat
      BY <1>0, <1>10 DEF Log!LogByte, LogTypeOK
    <2>2. content' = [content EXCEPT ![path] = Append(content[path], bytes')]
      BY <1>10 DEF Log!LogByte
    <2>3. content' \in Seq(Seq(Nat)) /\ Len(content') = Len(content)
      BY <1>0, <2>1, <2>2, ExceptSeq
    <2> QED
      BY <1>10, <2>1, <2>3 DEF Log!LogByte, LogTypeOK, Log!client
  <1>11. CASE Log!CreateLog
    <2>1. content' \in Seq(Seq(Nat)) /\ Len(content') = Len(content) + 1
      BY <1>0, <1>11, EmptySeq DEF Log!CreateLog
    <2> QED
      BY <1>0, <1>11, <2>1 DEF Log!CreateLog, LogTypeOK, Log!client
  <1>12. CASE Log!TruncateLog
    <2>1. content' = [content EXCEPT ![path] = <<>>] /\ path \in 1..Len(content) /\ <<>> \in Seq(Nat)
      BY <1>0, <1>12, EmptySeq DEF Log!TruncateLog
    <2>2. content' \in Seq(Seq(Nat)) /\ Len(content') = Len(content)
      BY <1>0, <2>1, ExceptSeq
    <2> QED
      BY <1>12, <2>2 DEF Log!TruncateLog, LogTypeOK, Log!client
  <1>13. CASE Log!RemoveLog
    BY <1>0, <1>13 DEF Log!RemoveLog, LogTypeOK, Log!client
  <1>14. CASE UNCHANGED Log!lvars
    BY <1>14 DEF Log!lvars, Log!log, Log!client, LogTypeOK
  <1> QED
    BY <1>1, <1>2, <1>3, <1>4, <1>5, <1>6, <1>7, <1>8, <1>9, <1>10, <1>11, <1>12, <1>13, <1>14, <1>15
       DEF Log!Next, Log!InGetLog, Log!InGetLogFileInfos

(* A file that is not truncated keeps what it has.                          *)
LEMMA FileGrows ==
    ASSUME DownloadInv, downloaded' = downloaded, announced' = announced, fileSize' = fileSize,
           pc' = pc, handle' = handle, loggingEnabled' = loggingEnabled,
           path # 0 => path' = path,
           path # 0 => /\ Len(content[path]) \in Nat /\ Len(content'[path]) \in Nat
                       /\ Len(content[path]) <= Len(content'[path])
                       /\ \A k \in 1..Len(content[path]) : content'[path][k] = content[path][k],
           LogTypeOK
    PROVE  DownloadInv'
  <1>1. Len(downloaded) \in Nat /\ announced \in Nat /\ fileSize \in Nat
        /\ (downloaded = <<>> => Len(downloaded) = 0)
    BY LenProperties, EmptySeq DEF LogTypeOK
  <1>2. \A k \in 1..Len(downloaded) : k \in Nat /\ k >= 1
    BY <1>1
  <1>3. CASE path # 0
    BY <1>1, <1>2, <1>3 DEF DownloadInv, Downloading
  <1>4. CASE path = 0
    <2>1. downloaded = <<>> /\ ~Downloading /\ pc # "time"
      BY <1>4 DEF DownloadInv
    <2> QED
      BY <1>1, <2>1 DEF DownloadInv, Downloading
  <1> QED
    BY <1>3, <1>4

LEMMA LogNext == LogInv /\ [Log!Next]_Log!lvars => LogInv'
  <1> SUFFICES ASSUME LogInv, [Log!Next]_Log!lvars PROVE LogInv'
    OBVIOUS
  <1>a. /\ LogTypeOK /\ LogTypeOK' /\ (pc \in {"tell", "read"} => handle # 0)
        /\ (pc = "read" => Len(downloaded) < fileSize)
        /\ (pc' \in {"tell", "read"} => handle' # 0)
        /\ (pc' = "read" => Len(downloaded') < fileSize')
    BY LogTypeNext DEF LogInv
  <1> SUFFICES ASSUME ~disturbed' PROVE DownloadInv'
    BY <1>a DEF LogInv
  <1>0. content \in Seq(Seq(Nat)) /\ Len(content) \in Nat /\ path \in 0..Len(content)
        /\ (path # 0 => content[path] \in Seq(Nat) /\ Len(content[path]) \in Nat)
        /\ (handle # 0 => content[handle] \in Seq(Nat) /\ Len(content[handle]) \in Nat)
        /\ Len(downloaded) \in Nat /\ announced \in Nat /\ fileSize \in Nat /\ disturbed \in BOOLEAN
    <2>1. Len(downloaded) \in Nat /\ announced \in Nat /\ fileSize \in Nat /\ disturbed \in BOOLEAN
      BY <1>a, LenProperties DEF LogTypeOK
    <2> QED
      BY <1>a, <2>1, FilesType
  <1>1. CASE Log!AskForInfos
    BY <1>1, EmptySeq DEF Log!AskForInfos, Log!Goto, Log!log, DownloadInv, Downloading
  <1>b. ASSUME ~Log!AskForInfos PROVE ~disturbed /\ DownloadInv
    <2>1. CASE Log!TruncateLog \/ Log!RemoveLog
      BY <2>1 DEF Log!TruncateLog, Log!RemoveLog
    <2>2. CASE Log!InGetLogFileInfos
      BY <2>2, <1>0 DEF Log!InGetLogFileInfos, Log!InfosIfEnabled, Log!InfosIfExists, Log!FileSize, Log!LastWriteTime,
           Log!environment, LogInv
    <2>3. CASE Log!InGetLog \/ Log!Again
      BY <2>3, <1>0 DEF Log!InGetLog, Log!Check, Log!Open, Log!Tell, Log!Read, Log!Again, Log!environment, LogInv
    <2>4. ASSUME NEW size \in Sizes, Log!GetLog(size) PROVE ~disturbed /\ DownloadInv
      BY <2>4 DEF Log!GetLog, LogInv
    <2>5. ASSUME NEW on \in BOOLEAN, Log!EnableLogging(on) PROVE ~disturbed /\ DownloadInv
      BY <2>5, <1>0 DEF Log!EnableLogging, LogInv
    <2>6. CASE Log!LogByte \/ Log!CreateLog \/ UNCHANGED Log!lvars
      BY <2>6, <1>0 DEF Log!LogByte, Log!CreateLog, Log!lvars, LogInv
    <2> QED
      BY <1>b, <2>1, <2>2, <2>3, <2>4, <2>5, <2>6 DEF Log!Next
  <1> SUFFICES ASSUME ~Log!AskForInfos PROVE DownloadInv'
    BY <1>1
  <1>c. ~disturbed /\ DownloadInv
    BY <1>b
  <1>2. CASE Log!InfosIfEnabled \/ Log!InfosIfExists \/ Log!Check
    BY <1>2, <1>c DEF Log!InfosIfEnabled, Log!InfosIfExists, Log!Check, Log!LogAllowed, Log!Goto,
                Log!log, Log!client, Log!environment, DownloadInv, Downloading
  <1>3. CASE Log!FileSize \/ Log!LastWriteTime
    BY <1>0, <1>3, <1>c DEF Log!FileSize, Log!LastWriteTime, Log!Goto, Log!log, Log!environment,
                DownloadInv, Downloading
  <1>4. ASSUME NEW size \in Sizes, Log!GetLog(size) PROVE DownloadInv'
    BY <1>4, <1>c DEF Log!GetLog, Log!Goto, Log!log, DownloadInv, Downloading
  <1>5. CASE Log!Open
    BY <1>0, <1>5, <1>c DEF Log!Open, Log!Goto, Log!log, Log!environment, DownloadInv, Downloading
  <1>6. CASE Log!Tell
    <2>1. /\ pc = "tell" /\ handle = path /\ fileSize' = Len(content[path]) /\ downloaded' = downloaded
          /\ handle' = handle /\ announced' = announced /\ content' = content /\ path' = path
          /\ loggingEnabled' = loggingEnabled /\ path # 0 /\ announced <= Len(content[path])
          /\ (pc' = "ended" /\ Len(downloaded) >= fileSize') \/ (pc' = "read" /\ ~(Len(downloaded) >= fileSize'))
      BY <1>6, <1>c DEF Log!Tell, Log!AtEnd, Log!Offset, Log!log, Log!environment, DownloadInv, Downloading
    <2> QED
      BY <1>0, <1>c, <2>1 DEF DownloadInv, Downloading
  <1>7. CASE Log!Read
    <2>1. /\ downloaded' = downloaded \o Chunk /\ pc = "read" /\ pc' = "chunk" /\ handle # 0
          /\ handle = path /\ Len(downloaded) < fileSize /\ fileSize <= Len(content[path])
          /\ announced' = announced /\ content' = content /\ path' = path /\ handle' = handle
          /\ loggingEnabled' = loggingEnabled /\ loggingEnabled /\ announced <= Len(content[path])
      BY <1>7, <1>a, <1>c DEF Log!Read, Log!Goto, Log!log, Log!environment, Chunk, ChunkLength, DownloadInv, Downloading
    <2>2. /\ ChunkLength \in Nat /\ ChunkLength <= fileSize - Len(downloaded)
          /\ Len(downloaded') = Len(downloaded) + ChunkLength
          /\ \A k \in 1..Len(downloaded) : downloaded'[k] = downloaded[k]
          /\ \A k \in 1..ChunkLength : downloaded'[Len(downloaded) + k] = Chunk[k]
      BY <1>a, <2>1, ChunkType
    <2>3. \A k \in 1..ChunkLength : Len(downloaded) + k <= Len(content[path])
                                    /\ Chunk[k] = content[path][Len(downloaded) + k]
      <3> SUFFICES ASSUME NEW k \in 1..ChunkLength
                   PROVE  Len(downloaded) + k <= Len(content[path])
                          /\ Chunk[k] = content[path][Len(downloaded) + k]
        OBVIOUS
      <3>1. Log!ReadFrom(k) = Len(downloaded) + k
        BY DEF Log!ReadFrom, Log!Offset
      <3>2. Len(downloaded) + k \in 1..Len(content[path])
        BY <1>0, <2>1, <2>2
      <3>3. Len(downloaded) + k \in DOMAIN content[handle]
        BY <1>0, <2>1, <3>2
      <3> QED
        BY <2>1, <3>1, <3>2, <3>3 DEF Chunk
    <2>4. ASSUME NEW k \in 1..Len(downloaded')
          PROVE  k <= Len(content[path]) /\ downloaded'[k] = content[path][k]
      <3>1. CASE k <= Len(downloaded)
        <4>1. k \in 1..Len(downloaded)
          BY <1>0, <2>2, <2>4, <3>1
        <4> QED
          BY <1>c, <2>2, <4>1 DEF DownloadInv
      <3>2. CASE k > Len(downloaded)
        <4>1. PICK j \in 1..ChunkLength : k = Len(downloaded) + j
          <5>1. k - Len(downloaded) \in 1..ChunkLength /\ k = Len(downloaded) + (k - Len(downloaded))
            BY <1>0, <2>2, <2>4, <3>2
          <5> QED
            BY <5>1
        <4> QED
          BY <2>2, <2>3, <4>1
      <3> QED
        BY <1>0, <2>2, <2>4, <3>1, <3>2
    <2> QED
      BY <1>0, <2>1, <2>4 DEF DownloadInv, Downloading
  <1>8. CASE Log!Again
    BY <1>8, <1>c DEF Log!Again, Log!log, Log!client, Log!environment, DownloadInv, Downloading
  <1>9. ASSUME NEW on \in BOOLEAN, Log!EnableLogging(on) PROVE DownloadInv'
    BY <1>9, <1>c DEF Log!EnableLogging, Log!log, Log!client, DownloadInv, Downloading
  <1>10. CASE Log!LogByte
    <2>1. path # 0 /\ path \in 1..Len(content)
          /\ content' = [content EXCEPT ![path] = Append(content[path], bytes')]
          /\ bytes' \in Nat
      BY <1>0, <1>10, <1>a DEF Log!LogByte, LogTypeOK
    <2>2. content'[path] = Append(content[path], bytes')
      BY <1>0, <2>1
    <2>3. /\ Len(content'[path]) = Len(content[path]) + 1
          /\ \A k \in 1..Len(content[path]) : content'[path][k] = content[path][k]
      BY <1>0, <2>1, <2>2
    <2> QED
      BY <1>0, <1>10, <1>a, <1>c, <2>1, <2>3, FileGrows DEF Log!LogByte, Log!client
  <1>11. CASE Log!CreateLog
    BY <1>0, <1>11, <1>a, <1>c, FileGrows DEF Log!CreateLog, Log!client
  <1>12. CASE Log!TruncateLog \/ Log!RemoveLog
    BY <1>12 DEF Log!TruncateLog, Log!RemoveLog
  <1>13. CASE UNCHANGED Log!lvars
    BY <1>13, <1>c DEF Log!lvars, Log!log, Log!client, DownloadInv, Downloading
  <1> QED
    BY <1>2, <1>3, <1>4, <1>5, <1>6, <1>7, <1>8, <1>9, <1>10, <1>11, <1>12, <1>13
       DEF Log!Next, Log!InGetLog, Log!InGetLogFileInfos

LEMMA LogHolds == Log!Spec => []LogInv
  BY LogInit, LogNext, PTL DEF Log!Spec

(* onGetLogFileInfos and onGetLog: the chunks of an undisturbed download    *)
(* are the beginning of the log, as much of it as was announced.            *)
THEOREM DownloadIsLog == Log!Spec => []ChunksFitTogether
  <1>1. LogInv => ChunksFitTogether
    <2> SUFFICES ASSUME LogInv, ~disturbed
                 PROVE  /\ downloaded # <<>> => path # 0 /\ Log!IsPrefix(downloaded, content[path])
                        /\ pc = "ended" => Len(downloaded) >= announced
      BY DEF ChunksFitTogether, Log!ChunksFitTogether
    <2>1. DownloadInv /\ downloaded \in Seq(Nat) /\ announced \in Nat /\ Len(downloaded) \in Nat
      BY LenProperties DEF LogInv, LogTypeOK
    <2>2. ASSUME downloaded # <<>> PROVE path # 0 /\ Log!IsPrefix(downloaded, content[path])
      <3>1. path # 0 /\ \A k \in 1..Len(downloaded) : k <= Len(content[path]) /\ downloaded[k] = content[path][k]
        BY <2>1, <2>2 DEF DownloadInv
      <3>2. content[path] \in Seq(Nat)
        BY <3>1, ElementOfSeq, LenProperties DEF LogInv, LogTypeOK
      <3> QED
        BY <2>1, <3>1, <3>2, PrefixElements
    <2> QED
      BY <2>1, <2>2 DEF DownloadInv
  <1> QED
    BY <1>1, LogHolds, PTL

LEMMA SwitchNext == LogTypeOK /\ SwitchInv /\ [Log!Next]_Log!lvars => SwitchInv'
  <1> SUFFICES ASSUME LogTypeOK, SwitchInv, [Log!Next]_Log!lvars PROVE SwitchInv'
    OBVIOUS
  <1> USE DEF SwitchInv
  <1>1. CASE Log!AskForInfos
    BY <1>1 DEF Log!AskForInfos, Log!Goto
  <1>2. CASE Log!InGetLogFileInfos
    BY <1>2 DEF Log!InGetLogFileInfos, Log!InfosIfEnabled, Log!InfosIfExists, Log!FileSize, Log!LastWriteTime,
                Log!Goto, Log!environment
  <1>3. CASE Log!InGetLog \/ Log!Again
    BY <1>3 DEF Log!InGetLog, Log!Check, Log!Open, Log!Tell, Log!Read, Log!Again, Log!LogAllowed,
                Log!Goto, Log!environment
  <1>4. ASSUME NEW size \in Sizes, Log!GetLog(size) PROVE SwitchInv'
    BY <1>4 DEF Log!GetLog, Log!Goto
  <1>5. ASSUME NEW on \in BOOLEAN, Log!EnableLogging(on) PROVE SwitchInv'
    BY <1>5 DEF Log!EnableLogging
  <1>6. CASE Log!LogByte \/ Log!CreateLog \/ Log!TruncateLog \/ Log!RemoveLog \/ UNCHANGED Log!lvars
    BY <1>6 DEF Log!LogByte, Log!CreateLog, Log!TruncateLog, Log!RemoveLog, Log!lvars
  <1> QED
    BY <1>1, <1>2, <1>3, <1>4, <1>5, <1>6 DEF Log!Next

(* onGetLog: a call that begins after logging was switched off hands out    *)
(* nothing.                                                                 *)
THEOREM OffMeansNothing == Log!Spec => NothingIfOff
  <1>1. LogInv => LogTypeOK
    BY DEF LogInv
  <1>2. SwitchInv /\ [Log!Next]_Log!lvars
           => [downloaded' # downloaded /\ downloaded' # <<>> => wasOn]_Log!lvars
    <2> SUFFICES ASSUME SwitchInv, Log!Next, downloaded' # downloaded, downloaded' # <<>> PROVE wasOn
      OBVIOUS
    <2>1. Log!Read
      BY DEF Log!Next, Log!AskForInfos, Log!InGetLogFileInfos, Log!InfosIfEnabled, Log!InfosIfExists,
             Log!FileSize, Log!LastWriteTime, Log!GetLog, Log!InGetLog, Log!Check, Log!Open, Log!Tell,
             Log!Again, Log!EnableLogging, Log!LogByte, Log!CreateLog, Log!TruncateLog, Log!RemoveLog, Log!client
    <2> QED
      BY <2>1 DEF Log!Read, Log!Goto, SwitchInv
  <1> QED
    BY <1>1, <1>2, LogHolds, LogInit, SwitchNext, PTL DEF Log!Spec, NothingIfOff, Log!NothingIfOff
=============================================================================
