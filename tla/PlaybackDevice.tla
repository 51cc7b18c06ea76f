--------------------------- MODULE PlaybackDevice ---------------------------
(***************************************************************************)
(* A playback device: its acquisition thread, the user thread that writes  *)
(* its properties, and the owner that destroys it.  The device's mutex is  *)
(* taken by getUniqueLock in acqLoop, by every property write, and by the  *)
(* destructor; cv.wait_for gives it up while it waits.                     *)
(*                                                                         *)
(* What a channel does with the time it is given is in PlaybackChannel;    *)
(* here it is the time it was created at and the time it has played.       *)
(***************************************************************************)
EXTENDS Integers, Sequences

CONSTANTS
    MaxChannels,        \* largest value written to NumberOfChannels
    FirstChannels,      \* value of NumberOfChannels in the configuration
    LoopTimes,          \* values of AcquisitionLoopTime
    MaxTime             \* bound: the channels' clock stops there

ASSUME PlaybackDeviceAssumption ==
    /\ MaxChannels \in Nat \ {0}
    /\ FirstChannels \in 1..MaxChannels
    /\ LoopTimes \subseteq Nat \ {0} /\ LoopTimes # {}
    /\ MaxTime \in Nat

VARIABLES
    now,                \* microseconds since the device's start
    mutex,              \* who holds the device's mutex
    numberOfChannels, acqLoopTime,      \* the properties
    channels,           \* the vector: [index, born, played]
    stopAcq,
    acq,                \* where the acquisition thread is
    loopTime,           \* its copy of acqLoopTime
    sinceLoop,          \* now - startLoopTime, at most loopTime
    waitLeft,           \* what is left of waitTime
    curTime, collecting, lastCollectTime,
    user, grown,        \* where the user's write is; time read by it
    owner               \* where the destructor is

props == <<numberOfChannels, acqLoopTime>>
clock == <<now, sinceLoop, waitLeft>>
loop == <<acq, loopTime, curTime, collecting, lastCollectTime>>
vars == <<mutex, props, channels, stopAcq, clock, loop, user, grown, owner>>

MinOf(a, b) == IF a < b THEN a ELSE b
MaxOf(a, b) == IF a > b THEN a ELSE b

Channel(i, t) == [index |-> i, born |-> t, played |-> 0]

(* The constructor: it has the object to itself.                            *)
Init ==
    /\ now = 0
    /\ mutex = "free"
    /\ numberOfChannels = FirstChannels
    /\ acqLoopTime \in LoopTimes
    /\ channels = [i \in 1..FirstChannels |-> Channel(i - 1, 0)]
    /\ stopAcq = FALSE
    /\ acq = "started" /\ loopTime = 0 /\ sinceLoop = 0 /\ waitLeft = 0
    /\ curTime = 0 /\ collecting = 0 /\ lastCollectTime = 0
    /\ user = "idle" /\ grown = 0
    /\ owner = "alive"

Acquire(who) == mutex = "free" /\ mutex' = who
Release(who) == mutex = who /\ mutex' = "free"

Tick ==
    /\ now' = MinOf(now + 1, MaxTime)
    /\ sinceLoop' = MinOf(sinceLoop + 1, loopTime)
    /\ waitLeft' = MaxOf(waitLeft - 1, 0)
    /\ UNCHANGED <<mutex, props, channels, stopAcq, loop, user, grown, owner>>

-----------------------------------------------------------------------------
(* acqLoop                                                                  *)

(* loopTime is read before the lock is taken.                               *)
ReadLoopTime ==
    /\ acq = "started"
    /\ loopTime' = acqLoopTime
    /\ sinceLoop' = 0
    /\ acq' = "locking"
    /\ UNCHANGED <<now, waitLeft, mutex, props, channels, stopAcq, curTime, collecting,
                   lastCollectTime, user, grown, owner>>

LockLoop ==
    /\ acq = "locking"
    /\ Acquire("acq")
    /\ acq' = "check"
    /\ UNCHANGED <<props, channels, stopAcq, clock, loopTime, curTime, collecting,
                   lastCollectTime, user, grown, owner>>

(* while (!stopAcq): compute the wait and give the mutex up.                *)
BeginWait ==
    /\ acq = "check" /\ ~stopAcq
    /\ waitLeft' = loopTime - sinceLoop
    /\ sinceLoop' = 0
    /\ Release("acq")
    /\ acq' = "waiting"
    /\ UNCHANGED <<now, props, channels, stopAcq, loopTime, curTime, collecting,
                   lastCollectTime, user, grown, owner>>

EndLoop ==
    /\ acq = "check" /\ stopAcq
    /\ Release("acq")
    /\ acq' = "ended"
    /\ UNCHANGED <<props, channels, stopAcq, clock, loopTime, curTime, collecting,
                   lastCollectTime, user, grown, owner>>

(* Mutant of Wake: stopAcq is not looked at.                                *)
WakeAndCollect ==
    /\ acq = "waiting"
    /\ Acquire("acq")
    /\ acq' = "collect" /\ curTime' = now /\ collecting' = 1
    /\ UNCHANGED <<props, channels, stopAcq, clock, loopTime, lastCollectTime, user, grown, owner>>

(* wait_for returns with the mutex: timed out, notified, or spuriously.     *)
Wake ==
    /\ acq = "waiting"
    /\ Acquire("acq")
    /\ IF stopAcq
       THEN acq' = "check" /\ UNCHANGED <<curTime, collecting>>
       ELSE acq' = "collect" /\ curTime' = now /\ collecting' = 1
    /\ UNCHANGED <<props, channels, stopAcq, clock, loopTime, lastCollectTime, user, grown, owner>>

(* Mutant of CollectSamples: every channel reads the clock itself.          *)
CollectAtOwnTime ==
    /\ acq = "collect" /\ collecting <= Len(channels)
    /\ channels' = [channels EXCEPT ![collecting].played = now - channels[collecting].born]
    /\ collecting' = collecting + 1
    /\ UNCHANGED <<mutex, props, stopAcq, clock, acq, loopTime, curTime, lastCollectTime,
                   user, grown, owner>>

CollectSamples ==
    /\ acq = "collect" /\ collecting <= Len(channels)
    /\ channels' = [channels EXCEPT ![collecting].played = curTime - channels[collecting].born]
    /\ collecting' = collecting + 1
    /\ UNCHANGED <<mutex, props, stopAcq, clock, acq, loopTime, curTime, lastCollectTime,
                   user, grown, owner>>

EndCollect ==
    /\ acq = "collect" /\ collecting > Len(channels)
    /\ lastCollectTime' = curTime
    /\ acq' = "check"
    /\ UNCHANGED <<mutex, props, channels, stopAcq, clock, loopTime, curTime, collecting,
                   user, grown, owner>>

-----------------------------------------------------------------------------
(* Property writes, under the lock                                          *)

SetNumberOfChannels(n) ==
    /\ user = "idle" /\ owner = "alive"
    /\ Acquire("user")
    /\ numberOfChannels' = n
    /\ user' = "shrink"
    /\ UNCHANGED <<acqLoopTime, channels, stopAcq, clock, loop, grown, owner>>

(* Mutant of ShrinkChannels: the channels at the front are removed.         *)
ShrinkAtFront ==
    /\ user = "shrink"
    /\ channels' = SubSeq(channels, 1 + MaxOf(0, Len(channels) - numberOfChannels), Len(channels))
    /\ grown' = now
    /\ user' = "grow"
    /\ UNCHANGED <<mutex, props, stopAcq, clock, loop, owner>>

(* updateNumberOfChannels: remove the channels beyond num, read the clock,  *)
ShrinkChannels ==
    /\ user = "shrink"
    /\ channels' = SubSeq(channels, 1, MinOf(numberOfChannels, Len(channels)))
    /\ grown' = now
    /\ user' = "grow"
    /\ UNCHANGED <<mutex, props, stopAcq, clock, loop, owner>>

(* and create the missing ones, one after the other.                        *)
GrowChannels ==
    /\ user = "grow" /\ Len(channels) < numberOfChannels
    /\ channels' = Append(channels, Channel(Len(channels), grown))
    /\ UNCHANGED <<mutex, props, stopAcq, clock, loop, user, grown, owner>>

EndWrite ==
    /\ user = "grow" /\ Len(channels) >= numberOfChannels
    /\ Release("user")
    /\ user' = "idle"
    /\ UNCHANGED <<props, channels, stopAcq, clock, loop, grown, owner>>

(* updateAcqLoopTime                                                        *)
SetAcqLoopTime(t) ==
    /\ user = "idle" /\ owner = "alive"
    /\ mutex = "free"
    /\ acqLoopTime' = t
    /\ UNCHANGED <<mutex, numberOfChannels, channels, stopAcq, clock, loop, user, grown, owner>>

-----------------------------------------------------------------------------
(* The destructor: nobody else holds a reference to the device.             *)

BeginDestroy ==
    /\ owner = "alive" /\ user = "idle"
    /\ owner' = "locking"
    /\ UNCHANGED <<mutex, props, channels, stopAcq, clock, loop, user, grown>>

(* Mutant of StopAcq: the flag is not set.                                  *)
NotifyOnly ==
    /\ owner = "locking"
    /\ mutex = "free"
    /\ owner' = "joining"
    /\ UNCHANGED <<mutex, props, channels, stopAcq, clock, loop, user, grown>>

(* The scope of the lock: stopAcq = true.  cv.notify_one wakes the thread   *)
(* like any other end of its wait.                                          *)
StopAcq ==
    /\ owner = "locking"
    /\ mutex = "free"
    /\ stopAcq' = TRUE
    /\ owner' = "joining"
    /\ UNCHANGED <<mutex, props, channels, clock, loop, user, grown>>

Join ==
    /\ owner = "joining" /\ acq = "ended"
    /\ owner' = "gone"
    /\ UNCHANGED <<mutex, props, channels, stopAcq, clock, loop, user, grown>>

-----------------------------------------------------------------------------
AcqLoop == ReadLoopTime \/ LockLoop \/ BeginWait \/ EndLoop \/ Wake \/ CollectSamples \/ EndCollect

UserStep ==
    \/ \E n \in 1..MaxChannels : SetNumberOfChannels(n)
    \/ ShrinkChannels \/ GrowChannels \/ EndWrite
    \/ \E t \in LoopTimes : SetAcqLoopTime(t)

Destroy == BeginDestroy \/ StopAcq \/ Join

Next == Tick \/ AcqLoop \/ UserStep \/ Destroy

Spec == Init /\ [][Next]_vars

(* Every started thread keeps running, time passes, a wait that timed out   *)
(* returns, and nobody is kept for ever from a mutex that is released again *)
(* and again.  No user has to write.                                        *)
Fairness ==
    /\ WF_vars(Tick)
    /\ SF_vars(LockLoop) /\ SF_vars(waitLeft = 0 /\ Wake) /\ SF_vars(StopAcq)
    /\ WF_vars(ReadLoopTime \/ BeginWait \/ EndLoop \/ CollectSamples \/ EndCollect)
    /\ WF_vars(ShrinkChannels \/ GrowChannels \/ EndWrite)
    /\ WF_vars(Join)

-----------------------------------------------------------------------------
(* Properties                                                              *)

TypeOK ==
    /\ now \in 0..MaxTime
    /\ mutex \in {"free", "acq", "user"}
    /\ numberOfChannels \in 1..MaxChannels /\ acqLoopTime \in LoopTimes
    /\ channels \in Seq([index : Nat, born : Nat, played : Nat])
    /\ stopAcq \in BOOLEAN
    /\ acq \in {"started", "locking", "check", "waiting", "collect", "ended"}
    /\ loopTime \in LoopTimes \cup {0}
    /\ sinceLoop \in 0..loopTime /\ waitLeft \in 0..loopTime
    /\ curTime \in Nat /\ collecting \in Nat /\ lastCollectTime \in Nat /\ grown \in Nat
    /\ user \in {"idle", "shrink", "grow"}
    /\ owner \in {"alive", "locking", "joining", "gone"}

(* Between property writes the vector holds exactly the channels 0..n-1 the *)
(* property names, in order: addressing by index and local id stays right   *)
(* whatever sequence of sizes was written.  Besides, every variable keeps   *)
(* its type: no wait is negative or longer than the loop time, and no       *)
(* channel is told of a time before its creation.                           *)
ChannelsMatchProperty ==
    /\ TypeOK
    /\ user = "idle" =>
           /\ Len(channels) = numberOfChannels
           /\ \A i \in DOMAIN channels : channels[i].index = i - 1

(* A round of collectSamples gives one time to all channels: between rounds *)
(* no channel is behind another, however they came and went.                *)
CollectedTogether ==
    acq # "collect" =>
        \A i \in DOMAIN channels :
            channels[i].played = MaxOf(0, lastCollectTime - channels[i].born)

(* Once the destructor has asked the thread to stop, no sample is sent.     *)
QuietAfterStop == [][stopAcq => \A i \in DOMAIN channels : channels'[i] = channels[i]]_vars

(* The destructor's join returns: no lost wake-up, no deadlock.             *)
DestroyEnds == (owner = "locking") ~> (owner = "gone")
=============================================================================
