----------------------- MODULE PlaybackModuleProofs ------------------------
(* Theorems about PlaybackRegistry, the table of devices, for any threads,  *)
(* devices, table size and connection strings, and about PlaybackChannel,   *)
(* for all arrays, files and targets, with files that fail to parse and     *)
(* Zero calls at any time.                                                  *)
EXTENDS PlaybackChannel, PlaybackRegistry, SequenceTheorems, TLAPS

-----------------------------------------------------------------------------
(* The table of devices                                                     *)

Owning == InCall \ {"enter"}

(* One thread at a time is behind the lock, with a number of the table.     *)
LockInv ==
    /\ \A t, u \in Threads : pc[t] \in Owning /\ pc[u] \in Owning => t = u
    /\ \A t \in Threads :
          /\ pc[t] \in Owning => request[t] \in Slots
          /\ pc[t] \in {"clear", "ask"} => slot[t] \in Slots

(* The table leads to every device that can be used, and a device in the    *)
(* table has the number of its slot.                                        *)
TableInv ==
    /\ \A d \in Devices : Available(d) => number[d] \in Slots /\ devices[number[d]] = d
    /\ \A s \in Slots : devices[s] \in Devices => number[devices[s]] = s

(* The slot for a device about to be created leads to none.                 *)
SlotIsFree == \A t \in Threads : pc[t] = "create" => devices[request[t]] \notin alive

RegistryInv == ModuleTypeOK /\ LockInv /\ TableInv /\ SlotIsFree

(* The loop of clearRemovedDevices has been past the slot of the request.   *)
Passed(t) == pc[t] = "check" \/ (pc[t] \in {"clear", "ask"} /\ slot[t] > request[t])

(* `taken' tells the truth about the calls under way, a device that         *)
(* survived the clearing was in use, and a refusal has its reason.          *)
TakenInv ==
    \A t \in Threads :
        /\ pc[t] \in InCall /\ InUse(request[t]) => taken[t]
        /\ Passed(t) /\ devices[request[t]] \in alive => taken[t]
        /\ outcome[t] = "AlreadyExists" => taken[t]
        /\ outcome[t] = "NotFound" => request[t] \notin Slots

-----------------------------------------------------------------------------
(* The table                                                                *)

LEMMA RegistryInit == ModuleInit => RegistryInv
  BY PlaybackRegistryAssumption
     DEF ModuleInit, RegistryInv, ModuleTypeOK, LockInv, TableInv, SlotIsFree, Available, Owning, InCall,
         Slots, Requests

LEMMA SlotFacts ==
    /\ Slots \subseteq 0..MaxNumberOfDevices /\ Slots \subseteq Nat
    /\ \A s \in Slots : s + 1 \in 0..MaxNumberOfDevices
    /\ Null \notin Devices
    /\ Slots \cap {BadId} = {}
  BY PlaybackRegistryAssumption DEF Slots

LEMMA NextSlotKeeps ==
    ASSUME ModuleTypeOK, LockInv, NEW t \in Threads, pc[t] \in {"clear", "ask"}, NextSlot(t),
           request' = request
    PROVE  /\ pc' \in [Threads -> {"idle"} \cup InCall]
           /\ slot' \in [Threads -> 0..MaxNumberOfDevices]
           /\ outcome' = outcome
           /\ LockInv'
           /\ pc'[t] \in {"clear", "check"}
           /\ \A u \in Threads \ {t} : pc'[u] = pc[u] /\ pc[u] \notin Owning
  BY SlotFacts DEF ModuleTypeOK, LockInv, NextSlot, Goto, Owning, InCall

LEMMA RegistryNext == RegistryInv /\ [ModuleNext]_moduleVars => RegistryInv'
  <1> SUFFICES ASSUME RegistryInv, [ModuleNext]_moduleVars PROVE RegistryInv'
    OBVIOUS
  <1> USE SlotFacts DEF RegistryInv
  <1>1. ASSUME NEW t \in Threads, NEW r \in Requests, Call(t, r) PROVE RegistryInv'
    <2>0. InUse(r) \in BOOLEAN
      BY DEF InUse
    <2>1. taken' \in [Threads -> BOOLEAN]
      BY <1>1, <2>0 DEF Call, ModuleTypeOK
    <2>2. ModuleTypeOK'
      BY <1>1, <2>1 DEF Call, Finish, ModuleTypeOK, device, InCall
    <2>3. LockInv'
      BY <1>1 DEF Call, Finish, ModuleTypeOK, LockInv, Owning, InCall
    <2>4. TableInv' /\ SlotIsFree'
      BY <1>1 DEF Call, Finish, ModuleTypeOK, device, TableInv, SlotIsFree, Available
    <2> QED
      BY <2>2, <2>3, <2>4
  <1>2. ASSUME NEW t \in Threads, Enter(t) PROVE RegistryInv'
    <2>0. request[t] \in Slots => 0 \in Slots /\ 0 \in 0..MaxNumberOfDevices
      BY PlaybackRegistryAssumption DEF Slots
    <2>1. ModuleTypeOK'
      BY <1>2, <2>0 DEF Enter, Goto, Finish, ModuleTypeOK, device, InCall
    <2>2. LockInv'
      BY <1>2, <2>0 DEF Enter, Goto, Finish, ModuleTypeOK, LockInv, Locked, Owning, InCall
    <2>3. TableInv' /\ SlotIsFree'
      BY <1>2 DEF Enter, Goto, Finish, ModuleTypeOK, device, TableInv, SlotIsFree, Available
    <2> QED
      BY <2>1, <2>2, <2>3
  <1>3. ASSUME NEW t \in Threads, ClearNull(t) PROVE RegistryInv'
    <2>0. request' = request /\ slot[t] \in Slots /\ pc[t] \in Owning
      BY <1>3 DEF ClearNull, LockInv, Owning, InCall
    <2>1. ModuleTypeOK' /\ LockInv'
      BY <1>3, <2>0, NextSlotKeeps DEF ClearNull, ModuleTypeOK, device
    <2>2. TableInv'
      BY <1>3, <2>0 DEF ClearNull, ModuleTypeOK, device, TableInv, Available
    <2>3. SlotIsFree'
      BY <1>3, <2>0, NextSlotKeeps DEF ClearNull, SlotIsFree, Owning, InCall
    <2> QED
      BY <2>1, <2>2, <2>3
  <1>4. ASSUME NEW t \in Threads, KeepNonNull(t) PROVE RegistryInv'
    <2>1. ModuleTypeOK'
      BY <1>4 DEF KeepNonNull, Goto, ModuleTypeOK, device, InCall
    <2>2. LockInv'
      BY <1>4 DEF KeepNonNull, Goto, ModuleTypeOK, LockInv, Owning, InCall
    <2>3. TableInv' /\ SlotIsFree'
      BY <1>4 DEF KeepNonNull, Goto, ModuleTypeOK, device, TableInv, SlotIsFree, Available
    <2> QED
      BY <2>1, <2>2, <2>3
  <1>5. ASSUME NEW t \in Threads, ClearRemoved(t) PROVE RegistryInv'
    <2>0. request' = request /\ slot[t] \in Slots /\ pc[t] \in Owning
      BY <1>5 DEF ClearRemoved, LockInv, Owning, InCall
    <2>1. CASE devices[slot[t]] \notin alive
      BY <1>5, <2>1
         DEF ClearRemoved, Finish, ModuleTypeOK, LockInv, Owning, InCall, device, TableInv, SlotIsFree,
             Available
    <2>2. CASE devices[slot[t]] \in alive
      <3>1. ModuleTypeOK' /\ LockInv'
        BY <1>5, <2>0, <2>2, NextSlotKeeps DEF ClearRemoved, ModuleTypeOK, device
      <3>2. TableInv'
        BY <1>5, <2>0, <2>2 DEF ClearRemoved, ModuleTypeOK, device, TableInv, Available
      <3>3. SlotIsFree'
        BY <1>5, <2>0, <2>2, NextSlotKeeps DEF ClearRemoved, SlotIsFree, Owning, InCall
      <3> QED
        BY <3>1, <3>2, <3>3
    <2> QED
      BY <2>1, <2>2
  <1>6. ASSUME NEW t \in Threads, Check(t) PROVE RegistryInv'
    <2>1. ModuleTypeOK'
      BY <1>6 DEF Check, Goto, Finish, ModuleTypeOK, device, InCall
    <2>2. LockInv'
      BY <1>6 DEF Check, Goto, Finish, ModuleTypeOK, LockInv, Owning, InCall
    <2>3. TableInv'
      BY <1>6 DEF Check, ModuleTypeOK, device, TableInv, Available
    <2>4. SlotIsFree'
      BY <1>6 DEF Check, Goto, Finish, ModuleTypeOK, device, SlotIsFree
    <2> QED
      BY <2>1, <2>2, <2>3, <2>4
  <1>7. ASSUME NEW t \in Threads, Create(t) PROVE RegistryInv'
    <2>0. /\ request[t] \in Slots /\ pc[t] = "create" /\ devices[request[t]] \notin alive
          /\ \A u \in Threads \ {t} : pc[u] \notin Owning
      BY <1>7 DEF Create, LockInv, SlotIsFree, Owning, InCall
    <2>1. PICK d \in FreeNames :
             /\ alive' = alive \cup {d}
             /\ removed' = removed \ {d}
             /\ GiveNumber(d, request[t])
             /\ devices' = [devices EXCEPT ![request[t]] = d]
      BY <1>7 DEF Create
    <2>2. d \in Devices /\ d \notin alive /\ \A s \in Slots : devices[s] # d
      BY <2>1 DEF FreeNames
    <2>3. ModuleTypeOK'
      BY <1>7, <2>0, <2>1, <2>2 DEF Create, Finish, GiveNumber, ModuleTypeOK, InCall
    <2>4. LockInv'
      BY <1>7 DEF Create, Finish, ModuleTypeOK, LockInv, Owning, InCall
    <2>5. TableInv'
      BY <2>0, <2>1, <2>2 DEF GiveNumber, ModuleTypeOK, TableInv, Available
    <2>6. SlotIsFree'
      BY <1>7, <2>0 DEF Create, Finish, ModuleTypeOK, SlotIsFree, Owning, InCall
    <2> QED
      BY <2>3, <2>4, <2>5, <2>6
  <1>8. ASSUME NEW d \in Devices, RemoveDevice(d) \/ DropLastReference(d) PROVE RegistryInv'
    BY <1>8 DEF RemoveDevice, DropLastReference, Available, ModuleTypeOK, LockInv, TableInv, SlotIsFree
  <1>9. CASE UNCHANGED moduleVars
    BY <1>9 DEF moduleVars, device, ModuleTypeOK, LockInv, TableInv, SlotIsFree, Available
  <1> QED
    BY <1>1, <1>2, <1>3, <1>4, <1>5, <1>6, <1>7, <1>8, <1>9 DEF ModuleNext, CreateDevice

LEMMA RegistryHolds == ModuleSpec => []RegistryInv
  <1> QED
    BY RegistryInit, RegistryNext, PTL DEF ModuleSpec

(* onCreateDevice, AlreadyExistsException: no two devices in use have one   *)
(* number, however calls, removals and destructions interleave.             *)
THEOREM OneNumberOneDevice == ModuleSpec => []OneDevicePerNumber
  <1>1. RegistryInv => OneDevicePerNumber
    BY DEF RegistryInv, TableInv, OneDevicePerNumber
  <1> QED
    BY <1>1, RegistryHolds, PTL
-----------------------------------------------------------------------------
(* Refusals                                                                 *)

LEMMA TakenInit == ModuleInit => TakenInv
  BY DEF ModuleInit, TakenInv, Passed, InCall

(* A device that is entered into a slot other than t's, or leaves the table *)
(* or existence, puts no number in use.                                     *)
LEMMA InUseOfTable ==
    ASSUME RegistryInv, NEW n \in Slots, devices[n] \in alive \ removed
    PROVE  InUse(n)
  BY DEF RegistryInv, ModuleTypeOK, TableInv, InUse, Available

LEMMA SameInUse ==
    ASSUME UNCHANGED device, NEW n
    PROVE  InUse(n)' <=> InUse(n)
  BY DEF device, InUse, Available

LEMMA TakenNext == RegistryInv /\ TakenInv /\ [ModuleNext]_moduleVars => TakenInv'
  <1> SUFFICES ASSUME RegistryInv, TakenInv, [ModuleNext]_moduleVars PROVE TakenInv'
    OBVIOUS
  <1> DEFINE Told(t) ==
        /\ pc[t] \in InCall /\ InUse(request[t]) => taken[t]
        /\ Passed(t) /\ devices[request[t]] \in alive => taken[t]
        /\ outcome[t] = "AlreadyExists" => taken[t]
        /\ outcome[t] = "NotFound" => request[t] \notin Slots
  <1>0. ModuleTypeOK /\ LockInv
    BY DEF RegistryInv
  <1> SUFFICES ASSUME NEW u \in Threads, Told(u) PROVE Told(u)'
    BY DEF TakenInv
  <1> USE SlotFacts, <1>0
  <1>1. ASSUME NEW t \in Threads, NEW r \in Requests, Call(t, r) PROVE Told(u)'
    <2>0. UNCHANGED device /\ UNCHANGED devices /\ \A n : InUse(n)' <=> InUse(n)
      BY <1>1, SameInUse DEF Call
    <2>1. CASE u = t
      BY <1>1, <2>0, <2>1 DEF Call, Finish, ModuleTypeOK, Passed, InCall, device
    <2>2. CASE u # t
      BY <1>1, <2>0, <2>2 DEF Call, Finish, ModuleTypeOK, Passed, InCall, device
    <2> QED
      BY <2>1, <2>2
  <1>2. ASSUME NEW t \in Threads, Enter(t) PROVE Told(u)'
    <2>0. UNCHANGED <<device, devices, request, taken>> /\ \A n : InUse(n)' <=> InUse(n)
      BY <1>2, SameInUse DEF Enter
    <2>1. CASE u = t
      BY <1>2, <2>0, <2>1, PlaybackRegistryAssumption
         DEF Enter, Goto, Finish, ModuleTypeOK, Passed, InCall, device, Slots
    <2>2. CASE u # t
      BY <1>2, <2>0, <2>2 DEF Enter, Goto, Finish, ModuleTypeOK, Passed, InCall, device
    <2> QED
      BY <2>1, <2>2
  <1>3. ASSUME NEW t \in Threads, ClearNull(t) PROVE Told(u)'
    <2>0. UNCHANGED <<device, request, taken, outcome>> /\ \A n : InUse(n)' <=> InUse(n)
      BY <1>3, SameInUse DEF ClearNull, NextSlot, Goto
    <2>1. CASE u = t
      <3>1. slot[t] \in Slots /\ request[t] \in Slots
        BY <1>3 DEF ClearNull, LockInv, Owning, InCall
      <3>2. slot[t] = request[t] => devices'[request[t]] \notin alive
        BY <1>3, <3>1 DEF ClearNull, ModuleTypeOK
      <3>3. slot[t] # request[t] => devices'[request[t]] = devices[request[t]]
        BY <1>3, <3>1 DEF ClearNull, ModuleTypeOK
      <3>4. Passed(t)' => Passed(t) \/ slot[t] = request[t]
        BY <1>3, <2>0, <3>1, PlaybackRegistryAssumption
           DEF ClearNull, NextSlot, Goto, ModuleTypeOK, Passed, Slots
      <3> QED
        BY <1>3, <2>0, <2>1, <3>2, <3>3, <3>4 DEF ClearNull, InCall, device
    <2>2. CASE u # t
      BY <1>3, <2>0, <2>2 DEF ClearNull, NextSlot, Goto, ModuleTypeOK, LockInv, Owning, Passed, InCall, device
    <2> QED
      BY <2>1, <2>2
  <1>4. ASSUME NEW t \in Threads, KeepNonNull(t) PROVE Told(u)'
    <2>0. UNCHANGED <<device, devices, request, taken, outcome, slot>> /\ \A n : InUse(n)' <=> InUse(n)
      BY <1>4, SameInUse DEF KeepNonNull, Goto
    <2> QED
      BY <1>4, <2>0 DEF KeepNonNull, Goto, ModuleTypeOK, Passed, InCall, device
  <1>5. ASSUME NEW t \in Threads, ClearRemoved(t) PROVE Told(u)'
    <2>0. UNCHANGED <<device, request, taken>> /\ \A n : InUse(n)' <=> InUse(n)
      BY <1>5, SameInUse DEF ClearRemoved
    <2>1. CASE devices[slot[t]] \notin alive
      BY <1>5, <2>0, <2>1 DEF ClearRemoved, Finish, ModuleTypeOK, Passed, InCall, device
    <2>2. CASE devices[slot[t]] \in alive
      <3>1. NextSlot(t) /\ UNCHANGED outcome /\ slot[t] \in Slots /\ request[t] \in Slots
        BY <1>5, <2>2 DEF ClearRemoved, NextSlot, Goto, LockInv, Owning, InCall
      <3>2. CASE u # t
        BY <1>5, <2>0, <2>2, <3>1, <3>2
           DEF ClearRemoved, NextSlot, Goto, ModuleTypeOK, LockInv, Owning, Passed, InCall, device
      <3>3. CASE u = t /\ slot[t] = request[t]
        <4>1. devices[request[t]] \in removed => devices'[request[t]] = Null
          BY <1>5, <2>2, <3>1, <3>3 DEF ClearRemoved, ModuleTypeOK
        <4>2. devices[request[t]] \notin removed => taken[t]
          BY <1>5, <2>2, <3>1, <3>3, InUseOfTable DEF ClearRemoved, InCall
        <4>3. devices'[request[t]] \in alive => taken[t]
          BY <1>5, <2>2, <3>1, <4>1, <4>2 DEF ModuleTypeOK
        <4> QED
          BY <1>5, <2>0, <3>1, <3>3, <4>3 DEF ClearRemoved, InCall, device
      <3>4. CASE u = t /\ slot[t] # request[t]
        <4>1. devices'[request[t]] = devices[request[t]]
          BY <1>5, <2>2, <3>1, <3>4 DEF ClearRemoved, ModuleTypeOK
        <4>2. Passed(t)' => Passed(t)
          BY <1>5, <2>0, <3>1, <3>4, PlaybackRegistryAssumption
             DEF ClearRemoved, NextSlot, Goto, ModuleTypeOK, Passed, Slots
        <4> QED
          BY <1>5, <2>0, <3>1, <3>4, <4>1, <4>2 DEF ClearRemoved, InCall, device
      <3> QED
        BY <3>2, <3>3, <3>4
    <2> QED
      BY <2>1, <2>2
  <1>6. ASSUME NEW t \in Threads, Check(t) PROVE Told(u)'
    <2>0. UNCHANGED <<device, devices, request, taken, slot>> /\ \A n : InUse(n)' <=> InUse(n)
      BY <1>6, SameInUse DEF Check
    <2> QED
      BY <1>6, <2>0 DEF Check, Goto, Finish, ModuleTypeOK, Passed, InCall, device
  <1>7. ASSUME NEW t \in Threads, Create(t) PROVE Told(u)'
    <2>0. /\ request[t] \in Slots /\ pc[t] = "create"
          /\ \A v \in Threads \ {t} : pc[v] \notin Owning
      BY <1>7 DEF Create, LockInv, Owning, InCall
    <2>1. PICK d \in FreeNames :
             /\ alive' = alive \cup {d}
             /\ removed' = removed \ {d}
             /\ GiveNumber(d, request[t])
      BY <1>7 DEF Create
    <2>2. d \in Devices
      BY <2>1 DEF FreeNames
    <2>3. ASSUME NEW n, InUse(n)' PROVE InUse(n) \/ n = request[t]
      BY <2>1, <2>2, <2>3 DEF InUse, Available, GiveNumber, ModuleTypeOK
    <2>4. taken'[u] = (taken[u] \/ (pc[u] \in InCall /\ request[u] = request[t]))
      BY <1>7 DEF Create
    <2>5. CASE u = t
      BY <1>7, <2>0, <2>3, <2>4, <2>5 DEF Create, Finish, ModuleTypeOK, Passed, InCall
    <2>6. CASE u # t
      BY <1>7, <2>0, <2>3, <2>4, <2>6 DEF Create, Finish, ModuleTypeOK, Passed, InCall, Owning
    <2> QED
      BY <2>5, <2>6
  <1>8. ASSUME NEW d \in Devices, RemoveDevice(d) \/ DropLastReference(d) PROVE Told(u)'
    <2>1. \A n : InUse(n)' => InUse(n)
      BY <1>8 DEF RemoveDevice, DropLastReference, InUse, Available
    <2> QED
      BY <1>8, <2>1 DEF RemoveDevice, DropLastReference, Passed
  <1>9. CASE UNCHANGED moduleVars
    <2>1. \A n : InUse(n)' <=> InUse(n)
      BY <1>9, SameInUse DEF moduleVars
    <2> QED
      BY <1>9, <2>1 DEF moduleVars, device, Passed, InCall, ModuleTypeOK
  <1> QED
    BY <1>1, <1>2, <1>3, <1>4, <1>5, <1>6, <1>7, <1>8, <1>9 DEF ModuleNext, CreateDevice

(* onCreateDevice: AlreadyExists is only said of a number that was in use   *)
(* while the call ran, and a number that discovery offers is known.         *)
THEOREM RefusalsAreJust == ModuleSpec => []RefusedOnlyIfTaken
  <1>1. TakenInv => RefusedOnlyIfTaken
    BY PlaybackRegistryAssumption DEF TakenInv, RefusedOnlyIfTaken, AvailableDevices, Slots
  <1>2. ModuleSpec => []TakenInv
    BY RegistryHolds, TakenInit, TakenNext, PTL DEF ModuleSpec
  <1> QED
    BY <1>1, <1>2, PTL

-----------------------------------------------------------------------------
(* A channel                                                                *)

(* The position in the buffer.                                              *)
PositionInv == dataBuffer # <<>> => dataBufferIndex < Len(dataBuffer)

(* The rate never exceeds its bound, so counts of samples stay far          *)
(* from the width of the counter.                                           *)
CountInv ==
    /\ sampleRate <= MaxRate
    /\ samplesGenerated <= MaxTime * MaxRate

(* A packet is generated from data, and no count runs ahead of it.          *)
JobInv ==
    job.step = "generate" =>
        /\ dataBuffer # <<>>
        /\ samplesGenerated <= job.until /\ job.until <= MaxTime * MaxRate

ChannelInv == TypeOK /\ PositionInv /\ CountInv /\ JobInv /\ SignalsDescribeData

Jobs == [step : {"none", "generate"}, todo : Nat, until : Nat, first : Int, zeroed : BOOLEAN]

-----------------------------------------------------------------------------
(* Numbers and data                                                         *)

LEMMA Bounds ==
    /\ Clock \in Nat /\ Clock > 0 /\ MaxRate \in Nat /\ MaxTime \in Nat /\ Word \in Nat
    /\ MaxTime * MaxRate \in Nat /\ MaxTime * MaxRate < Word /\ 2 * (MaxTime * MaxRate) < Word
  <1>1. MaxTime * MaxRate \in Nat
    BY PlaybackChannelAssumption
  <1> DEFINE m == MaxTime * MaxRate
  <1>2. m \in Nat /\ Word \in Nat /\ m < Word \div 2
    BY <1>1, PlaybackChannelAssumption
  <1> HIDE DEF m
  <1>3. m < Word /\ 2 * m < Word
    BY <1>2
  <1> QED
    BY <1>1, <1>3, PlaybackChannelAssumption DEF m

LEMMA SmallCounts == \A n \in Nat : n <= MaxTime * MaxRate => n \in 0..(Word - 1)
  <1> DEFINE m == MaxTime * MaxRate
  <1>1. m \in Nat /\ Word \in Nat /\ m < Word
    BY Bounds
  <1> HIDE DEF m
  <1>2. \A n \in Nat : n <= m => n \in 0..(Word - 1)
    BY <1>1
  <1> QED
    BY <1>2 DEF m

LEMMA ProductGrows ==
    ASSUME NEW a \in Nat, NEW b \in Nat, NEW c \in Nat, NEW d \in Nat, a <= c, b <= d
    PROVE  a * b \in Nat /\ a * b <= c * d
  <1>1. a * b <= c * b
    BY SMT
  <1>2. c * b <= c * d
    BY SMT
  <1> QED
    BY <1>1, <1>2

LEMMA Quotient ==
    ASSUME NEW a \in Nat, NEW b \in Nat, b > 0
    PROVE  a \div b \in Nat /\ a \div b <= a
  BY SMT

LEMMA DataIsSamples == \A s \in AllData : s \in Seq(Samples)
  <1> SUFFICES ASSUME NEW s \in AllData PROVE s \in Seq(Samples)
    OBVIOUS
  <1>1. s \in Seq(Int)
    BY PlaybackChannelAssumption DEF AllData
  <1>2. \A i \in 1..Len(s) : s[i] \in Samples
    BY <1>1, LenProperties DEF Samples
  <1> QED
    BY <1>1, <1>2, LenProperties, SeqDef

LEMMA SamplesAreNumbers == Samples \subseteq Int
  <1> SUFFICES ASSUME NEW s \in AllData, NEW i \in DOMAIN s PROVE s[i] \in Int
    BY DEF Samples
  <1>1. s \in Seq(Int)
    BY PlaybackChannelAssumption DEF AllData
  <1> QED
    BY <1>1, LenProperties, ElementOfSeq

LEMMA NumberConstants ==
    /\ DefaultDeltaT \in Nat \ {0} /\ Targets \subseteq Int
    /\ DefaultArray \in Seq(Samples) \ {<<>>} /\ Arrays \subseteq Seq(Samples)
    /\ \A csv \in CsvFiles : csv.data \in Seq(Samples)
    /\ EpochToStart \in Nat /\ DefaultResolution \in Resolutions
  BY PlaybackChannelAssumption, DataIsSamples DEF AllData, Resolutions

LEMMA ResolutionsType ==
    \A res \in Resolutions : /\ res.num \in Nat \ {0} /\ res.den \in Nat \ {0}
                             /\ res = [num |-> res.num, den |-> res.den]
                             /\ res.den * res.num <= MaxRate
  BY PlaybackChannelAssumption

(* The metadata after a file's are metadata: the file's, or those before.   *)
LEMMA MetadataOf ==
    ASSUME TypeOK, NEW csv \in CsvFiles
    PROVE  /\ DeltaTOf(csv) \in Nat \ {0} /\ ResolutionOf(csv) \in Resolutions
           /\ DeltaTOf(csv) = deltaT \/ (csv.deltaT # NoDeltaT /\ DeltaTOf(csv) = csv.deltaT)
           /\ \/ ResolutionOf(csv) = resolution
              \/ csv.resolution # NoResolution /\ ResolutionOf(csv) = csv.resolution
  <1>1. csv.deltaT \in Nat /\ deltaT \in Nat \ {0} /\ resolution \in Resolutions
    BY PlaybackChannelAssumption DEF TypeOK
  <1>2. csv.resolution # NoResolution => csv.resolution \in Resolutions
    BY DEF Resolutions
  <1> QED
    BY <1>1, <1>2 DEF DeltaTOf, ResolutionOf, NoDeltaT

LEMMA RateForType ==
    ASSUME NEW dt \in Nat \ {0}, NEW res \in Resolutions
    PROVE  RateFor(dt, res) \in Nat /\ RateFor(dt, res) <= MaxRate
  <1>1. res.num \in Nat /\ res.den \in Nat /\ res.den * res.num <= MaxRate /\ MaxRate \in Nat
    BY ResolutionsType, Bounds
  <1> DEFINE q == res.den \div dt
  <1>2. q \in Nat /\ q <= res.den
    BY <1>1, Quotient
  <1> HIDE DEF q
  <1>3. q * res.num \in Nat /\ q * res.num <= res.den * res.num
    BY <1>1, <1>2, ProductGrows
  <1>4. res.den * res.num \in Nat
    BY <1>1, ProductGrows
  <1> QED
    BY <1>1, <1>3, <1>4 DEF RateFor, q

(* A descriptor of a positive spacing is one.                               *)
LEMMA DescriptorType ==
    ASSUME NEW dt \in Nat \ {0}, NEW res \in Resolutions
    PROVE  /\ Descriptor(dt, res) \in [deltaT : Nat, resolution : Resolutions]
           /\ Descriptor(dt, res) # NoDescriptor
           /\ Descriptor(dt, res).deltaT = dt /\ Descriptor(dt, res).resolution = res
           /\ NoDescriptor \in [deltaT : Nat, resolution : Resolutions]
  BY NumberConstants DEF Descriptor, NoDescriptor

(* As much as is due is counted in the width of the counter.                *)
LEMMA DueSamples ==
    ASSUME TypeOK, CountInv
    PROVE  SamplesSinceStart \in Nat /\ SamplesSinceStart <= MaxTime * MaxRate
  <1>1. now \in Nat /\ now <= MaxTime /\ sampleRate \in Nat /\ sampleRate <= MaxRate
    BY Bounds DEF TypeOK, CountInv
  <1>2. now * sampleRate \in Nat /\ now * sampleRate <= MaxTime * MaxRate
    BY <1>1, Bounds, ProductGrows
  <1> DEFINE n == now * sampleRate
  <1>3. n \div Clock \in Nat /\ n \div Clock <= n
    <2> HIDE DEF n
    <2>1. n \in Nat
      BY <1>2 DEF n
    <2> QED
      BY <2>1, Bounds, Quotient
  <1> QED
    BY <1>2, <1>3, Bounds DEF SamplesSinceStart

(* What a wrapped difference would be is too much to allocate.              *)
LEMMA NewSamplesBounds ==
    ASSUME TypeOK, CountInv
    PROVE  /\ NewSamples \in Nat
           /\ ~TooMany(NewSamples) => samplesGenerated <= SamplesSinceStart
  <1> DEFINE s == SamplesSinceStart
             m == MaxTime * MaxRate
  <1>1. /\ s \in Nat /\ s <= m /\ m \in Nat /\ 2 * m < Word /\ Word \in Nat
        /\ samplesGenerated \in Nat /\ samplesGenerated <= m
    BY DueSamples, Bounds DEF TypeOK, CountInv
  <1> HIDE DEF s, m
  <1>2. (s - samplesGenerated) % Word \in Nat
    BY <1>1
  <1>3. ASSUME s < samplesGenerated PROVE (s - samplesGenerated) % Word >= Word \div 2
    <2>1. (s - samplesGenerated) % Word = Word + (s - samplesGenerated)
      BY <1>1, <1>3
    <2> QED
      BY <1>1, <1>3, <2>1
  <1> QED
    BY <1>1, <1>2, <1>3 DEF NewSamples, TooMany, s

-----------------------------------------------------------------------------
(* The inductive invariant                                                  *)

(* What every write of a property that loads data does.                     *)
LEMMA Loaded ==
    ASSUME ChannelInv, Unlocked, NEW source \in {"Array", "File"},
           NEW array \in Seq(Samples), NEW fileData \in Seq(Samples), NEW dt \in Nat \ {0},
           NEW res \in Resolutions,
           DataSourceChanged(source, array, fileData, dt, res),
           dataSource' = source, valueArrayBuffer' = array, fileDataBuffer' = fileData,
           deltaT' = dt, resolution' = res, UNCHANGED untouched
    PROVE  ChannelInv'
  <1> DEFINE data == IF source = "Array" THEN array ELSE fileData
             described == Descriptor(dt, res)
             rate == RateFor(dt, res)
  <1>1. data \in Seq(Samples) /\ dataBuffer' = data
    BY DEF DataSourceChanged
  <1>2. /\ rate \in Nat /\ rate <= MaxRate
        /\ described \in [deltaT : Nat, resolution : Resolutions] /\ described # NoDescriptor
        /\ NoDescriptor \in [deltaT : Nat, resolution : Resolutions]
    BY RateForType, DescriptorType
  <1>3. job' = job /\ job.step = "none"
    BY DEF untouched, Unlocked
  <1>4. CASE data = <<>>
    <2>1. descriptor' = NoDescriptor /\ UNCHANGED <<dataBufferIndex, sampleRate, active, unapplied>>
      BY <1>4 DEF DataSourceChanged
    <2> HIDE DEF data, described, rate
    <2> QED
      BY <1>1, <1>2, <1>3, <1>4, <2>1
         DEF ChannelInv, TypeOK, PositionInv, CountInv, JobInv, SignalsDescribeData, HasSignals, untouched
  <1>5. CASE data # <<>>
    <2>1. /\ dataBufferIndex' = 0 /\ sampleRate' = rate /\ descriptor' = described
          /\ active' = TRUE /\ unapplied' = FALSE
      BY <1>5 DEF DataSourceChanged
    <2>2. Len(data) > 0
      BY <1>1, <1>5, EmptySeq, LenProperties
    <2>3. SignalsDescribeData'
      BY <1>1, <1>2, <1>5, <2>1 DEF SignalsDescribeData, HasSignals
    <2> HIDE DEF data, described, rate
    <2> QED
      BY <1>1, <1>2, <1>3, <1>5, <2>1, <2>2, <2>3
         DEF ChannelInv, TypeOK, PositionInv, CountInv, JobInv, untouched
  <1> QED
    BY <1>4, <1>5

LEMMA ChannelInit == Init => ChannelInv
  <1> SUFFICES ASSUME Init PROVE ChannelInv
    OBVIOUS
  <1> DEFINE none == <<>>
  <1>1. none \in Seq(Samples) /\ Len(DefaultArray) > 0
    BY NumberConstants, EmptySeq, LenProperties
  <1>2. TypeOK
    <2>1. {valueArrayBuffer, fileDataBuffer, dataBuffer} \subseteq Seq(Samples)
      BY <1>1, NumberConstants DEF Init
    <2>2. /\ now \in 0..MaxTime /\ samplesGenerated \in 0..(Word - 1)
          /\ deltaT \in Nat \ {0} /\ sampleRate \in Nat /\ resolution \in Resolutions
          /\ descriptor \in [deltaT : Nat, resolution : Resolutions]
      <3>1. 0 \in 0..MaxTime /\ 0 \in 0..(Word - 1)
        <4>1. MaxTime \in Nat /\ Word \in Nat /\ Word > 0
          BY Bounds
        <4> QED
          BY <4>1
      <3>2. now = 0 /\ samplesGenerated = 0 /\ deltaT = DefaultDeltaT
            /\ descriptor = Descriptor(DefaultDeltaT, DefaultResolution)
            /\ resolution = DefaultResolution /\ sampleRate = RateFor(DefaultDeltaT, DefaultResolution)
        BY DEF Init
      <3>3. /\ RateFor(DefaultDeltaT, DefaultResolution) \in Nat
            /\ Descriptor(DefaultDeltaT, DefaultResolution) \in [deltaT : Nat, resolution : Resolutions]
        BY NumberConstants, RateForType, DescriptorType
      <3> QED
        BY <3>1, <3>2, <3>3, NumberConstants
    <2>3. /\ job \in Jobs /\ zeroed \in [target : Int, offset : Int, clean : BOOLEAN]
          /\ sent \in [start : Nat, end : Nat, deltaT : Nat, resolution : Resolutions, applied : BOOLEAN]
      BY NumberConstants DEF Init, NoJob, Jobs
    <2> QED
      BY <2>1, <2>2, <2>3 DEF Init, TypeOK, Jobs
  <1>3. CountInv /\ JobInv /\ SignalsDescribeData /\ PositionInv
    BY <1>1, NumberConstants, RateForType, DescriptorType, Bounds
       DEF Init, CountInv, JobInv, SignalsDescribeData, HasSignals, PositionInv, NoJob
  <1> QED
    BY <1>2, <1>3 DEF ChannelInv

(* One sample: read at the position, which then moves on within the buffer. *)
LEMMA GenerateKeeps == ASSUME ChannelInv, GenerateSample PROVE ChannelInv'
  <1>1. /\ job \in Jobs /\ job.step = "generate" /\ job.todo > 0 /\ dataBuffer # <<>>
        /\ dataBuffer \in Seq(Samples) /\ dataBufferIndex \in Nat
        /\ dataBufferIndex < Len(dataBuffer) /\ zeroOffset \in Int
    BY DEF ChannelInv, TypeOK, Jobs, GenerateSample, PositionInv, JobInv
  <1>2. Len(dataBuffer) \in Nat /\ Len(dataBuffer) > 0
    BY <1>1, LenProperties
  <1>3. dataBuffer[dataBufferIndex + 1] \in Int
    <2>1. dataBufferIndex + 1 \in 1..Len(dataBuffer)
      BY <1>1, <1>2
    <2>2. dataBuffer[dataBufferIndex + 1] \in Samples
      BY <1>1, <2>1, ElementOfSeq
    <2> QED
      BY <2>2, SamplesAreNumbers
  <1>4. (dataBufferIndex + 1) % Len(dataBuffer) \in 0..(Len(dataBuffer) - 1)
    BY <1>1, <1>2
  <1>5. dataBufferIndex' \in Nat /\ dataBufferIndex' < Len(dataBuffer)
    BY <1>2, <1>4 DEF GenerateSample
  <1> DEFINE first == IF job.until - samplesGenerated = job.todo
                      THEN dataBuffer[dataBufferIndex + 1] + zeroOffset ELSE job.first
  <1>6. first \in Int
    BY <1>1, <1>3 DEF Jobs
  <1>7. job' = [job EXCEPT !.todo = @ - 1, !.first = first]
    BY DEF GenerateSample
  <1> HIDE DEF first
  <1>8. job' \in Jobs /\ job'.step = job.step /\ job'.until = job.until
    <2>1. job.todo - 1 \in Nat
      BY <1>1 DEF Jobs
    <2>2. job' = [step |-> job.step, todo |-> job.todo - 1, until |-> job.until,
                  first |-> first, zeroed |-> job.zeroed]
      BY <1>1, <1>7 DEF Jobs
    <2>3. job.step \in {"none", "generate"} /\ job.until \in Nat /\ job.zeroed \in BOOLEAN
      BY <1>1 DEF Jobs
    <2> QED
      BY <1>6, <2>1, <2>2, <2>3 DEF Jobs
  <1> QED
    BY <1>5, <1>8
       DEF GenerateSample, ChannelInv, TypeOK, PositionInv, CountInv, JobInv, SignalsDescribeData,
           HasSignals, Jobs, buffers, history

LEMMA SendKeeps == ASSUME ChannelInv, SendPacket PROVE ChannelInv'
  <1>1. /\ job \in Jobs /\ job.until \in Nat /\ samplesGenerated \in Nat /\ deltaT \in Nat
        /\ descriptor.deltaT \in Nat /\ descriptor.resolution \in Resolutions
        /\ EpochToStart \in Nat
        /\ samplesGenerated <= job.until /\ job.until <= MaxTime * MaxRate
    BY Bounds, NumberConstants DEF ChannelInv, TypeOK, Jobs, SendPacket, JobInv
  <1>2. /\ samplesGenerated * deltaT \in Nat
        /\ (job.until - samplesGenerated) * descriptor.deltaT \in Nat
    BY <1>1
  <1>3. sent' \in [start : Nat, end : Nat, deltaT : Nat, resolution : Resolutions, applied : BOOLEAN]
    <2> DEFINE start == PacketTime
               length == (job.until - samplesGenerated) * descriptor.deltaT
    <2>1. sent' = [start |-> start, end |-> start + length, deltaT |-> deltaT,
                  resolution |-> descriptor.resolution, applied |-> ~unapplied]
      BY DEF SendPacket
    <2>2. start \in Nat /\ length \in Nat
      BY <1>1, <1>2 DEF PacketTime
    <2> HIDE DEF start, length
    <2> QED
      BY <1>1, <2>1, <2>2
  <1>4. lastValue' \in Int /\ raced' \in BOOLEAN
    <2>1. job.first \in Int /\ job.zeroed \in BOOLEAN /\ zeroOffset \in Int
      BY DEF ChannelInv, TypeOK
    <2>2. lastValue' = job.first - zeroOffset /\ raced' = job.zeroed
      BY DEF SendPacket, FirstValue
    <2> QED
      BY <2>1, <2>2
  <1>5. samplesGenerated' \in 0..(Word - 1) /\ samplesGenerated' <= MaxTime * MaxRate
    <2>1. samplesGenerated' = job.until
      BY <1>1 DEF SendPacket, CountSamples
    <2>2. \A n \in Nat : n <= MaxTime * MaxRate => n \in 0..(Word - 1)
      BY SmallCounts
    <2> QED
      BY <1>1, <2>1, <2>2
  <1>6. job' \in Jobs /\ job'.step = "none"
    BY DEF SendPacket, NoJob, Jobs
  <1> QED
    BY <1>3, <1>4, <1>5, <1>6
       DEF SendPacket, ChannelInv, TypeOK, PositionInv, CountInv, JobInv, SignalsDescribeData,
           HasSignals, Jobs, buffers, playing

LEMMA ChannelNext == ChannelInv /\ [Next]_vars => ChannelInv'
  <1> SUFFICES ASSUME ChannelInv, [Next]_vars PROVE ChannelInv'
    OBVIOUS
  <1>0. /\ dataSource \in {"Array", "File"} /\ valueArrayBuffer \in Seq(Samples)
        /\ fileDataBuffer \in Seq(Samples) /\ deltaT \in Nat \ {0} /\ job \in Jobs
        /\ resolution \in Resolutions /\ TypeOK
    BY DEF ChannelInv, TypeOK, Jobs
  <1>1. ASSUME NEW source \in {"Array", "File"}, SetDataSource(source) PROVE ChannelInv'
    BY <1>0, <1>1, Loaded DEF SetDataSource
  <1>2. ASSUME NEW array \in Arrays, SetValueArray(array) PROVE ChannelInv'
    BY <1>0, <1>2, Loaded, NumberConstants DEF SetValueArray
  <1>3. ASSUME NEW csv \in CsvFiles, SetFilePath(csv) PROVE ChannelInv'
    <2>1. DeltaTOf(csv) \in Nat \ {0} /\ ResolutionOf(csv) \in Resolutions
      BY <1>0, MetadataOf
    <2> QED
      BY <1>0, <1>3, <2>1, Loaded, NumberConstants DEF SetFilePath
  <1>4. CASE SetBadFilePath
    BY <1>0, <1>4, Loaded DEF SetBadFilePath, buffers
  <1>5. ASSUME NEW csv \in CsvFiles, FilePathThrows(csv) PROVE ChannelInv'
    <2>1. PICK n \in 0..Len(csv.data) : fileDataBuffer' = SubSeq(csv.data, 1, n)
      BY <1>5 DEF FilePathThrows
    <2>2. fileDataBuffer' \in Seq(Samples)
      <3>1. csv.data \in Seq(Samples) /\ n \in Nat /\ n <= Len(csv.data)
        BY NumberConstants, LenProperties
      <3>2. \A i \in 1..n : csv.data[i] \in Samples
        BY <3>1, ElementOfSeq
      <3> QED
        BY <2>1, <3>1, <3>2, SubSeqProperties
    <2>3. /\ deltaT' \in Nat \ {0} /\ resolution' \in Resolutions
          /\ (deltaT' = deltaT /\ resolution' = resolution) \/ unapplied'
      BY <1>0, <1>5, MetadataOf DEF FilePathThrows
    <2>4. /\ UNCHANGED <<dataSource, valueArrayBuffer, dataBuffer, dataBufferIndex, sampleRate>>
          /\ UNCHANGED <<descriptor, active, now, samplesGenerated, lastValue, zeroOffset, job>>
          /\ UNCHANGED <<sent, zeroed, raced, crashed>>
          /\ unapplied' \in BOOLEAN /\ (unapplied => unapplied')
      BY <1>5 DEF FilePathThrows, untouched, ChannelInv, TypeOK
    <2>5. TypeOK'
      BY <2>2, <2>3, <2>4 DEF ChannelInv, TypeOK
    <2>6. PositionInv' /\ CountInv' /\ JobInv'
      BY <2>4 DEF ChannelInv, PositionInv, CountInv, JobInv
    <2>7. SignalsDescribeData'
      BY <2>3, <2>4 DEF ChannelInv, SignalsDescribeData, HasSignals
    <2> QED
      BY <2>5, <2>6, <2>7 DEF ChannelInv
  <1>6. ASSUME NEW b \in BOOLEAN, SetActive(b) PROVE ChannelInv'
    BY <1>6 DEF SetActive, buffers, untouched, ChannelInv, TypeOK, PositionInv, CountInv, JobInv,
                SignalsDescribeData, HasSignals
  <1>7. ASSUME NEW target \in Targets, Zero(target) PROVE ChannelInv'
    <2>1. target \in Int /\ lastValue \in Int
      BY NumberConstants DEF ChannelInv, TypeOK
    <2>2. zeroOffset' \in Int /\ zeroed' \in [target : Int, offset : Int, clean : BOOLEAN]
      <3>1. /\ zeroOffset' = target - lastValue
            /\ zeroed' = [target |-> target, offset |-> zeroOffset', clean |-> ~raced]
        BY <1>7 DEF Zero
      <3>2. zeroOffset' \in Int
        BY <2>1, <3>1
      <3> QED
        BY <2>1, <3>1, <3>2
    <2>3. job' \in Jobs /\ job'.step = job.step /\ job'.until = job.until
      BY <1>0, <1>7 DEF Zero, Jobs, NoJob
    <2> QED
      BY <1>7, <2>2, <2>3
         DEF Zero, buffers, playing, ChannelInv, TypeOK, PositionInv, CountInv, JobInv,
             SignalsDescribeData, HasSignals, Jobs
  <1>8. CASE Tick
    BY <1>8, Bounds DEF Tick, buffers, playing, history, ChannelInv, TypeOK, PositionInv, CountInv, JobInv,
                SignalsDescribeData, HasSignals
  <1>9. CASE SkipSamples
    <2>1. job' = job /\ job.step = "none" /\ samplesGenerated' = SamplesSinceStart
      BY <1>9 DEF SkipSamples, Unlocked
    <2>2. samplesGenerated' \in 0..(Word - 1) /\ samplesGenerated' <= MaxTime * MaxRate
      BY <2>1, DueSamples, Bounds DEF ChannelInv
    <2> QED
      BY <1>9, <2>1, <2>2
         DEF SkipSamples, buffers, playing, history, ChannelInv, TypeOK, PositionInv, CountInv, JobInv,
             SignalsDescribeData, HasSignals
  <1>10. CASE StartPacket
    <2>1. CASE TooMany(NewSamples)
      BY <1>10, <2>1
         DEF StartPacket, buffers, playing, history, ChannelInv, TypeOK, PositionInv, CountInv,
             JobInv, SignalsDescribeData, HasSignals
    <2>2. CASE ~TooMany(NewSamples)
      <3> DEFINE new == [step |-> "generate", todo |-> NewSamples, until |-> SamplesSinceStart,
                         first |-> 0, zeroed |-> FALSE]
      <3>1. job' = new /\ crashed' = crashed /\ HasSignals
        BY <1>10, <2>2 DEF StartPacket
      <3>2. /\ NewSamples \in Nat /\ SamplesSinceStart \in Nat
            /\ samplesGenerated <= SamplesSinceStart /\ SamplesSinceStart <= MaxTime * MaxRate
        BY <2>2, NewSamplesBounds, DueSamples DEF ChannelInv
      <3>3. new \in Jobs /\ new.until = SamplesSinceStart
        BY <3>2 DEF Jobs
      <3> HIDE DEF new
      <3>4. dataBuffer # <<>>
        BY <3>1 DEF ChannelInv, SignalsDescribeData
      <3> QED
        BY <1>10, <3>1, <3>2, <3>3, <3>4
           DEF StartPacket, buffers, playing, history, ChannelInv, TypeOK, PositionInv, CountInv,
               JobInv, SignalsDescribeData, HasSignals, Jobs
    <2> QED
      BY <2>1, <2>2
  <1>11. CASE GenerateSample
    BY <1>11, GenerateKeeps
  <1>12. CASE SendPacket
    BY <1>12, SendKeeps
  <1>13. CASE UNCHANGED vars
    BY <1>13 DEF vars, buffers, playing, history, ChannelInv, TypeOK, PositionInv, CountInv, JobInv,
                 SignalsDescribeData, HasSignals
  <1> QED
    BY <1>1, <1>2, <1>3, <1>4, <1>5, <1>6, <1>7, <1>8, <1>9, <1>10, <1>11, <1>12, <1>13
       DEF Next, UserStep, Collect

LEMMA ChannelHolds == Spec => []ChannelInv
  <1> QED
    BY ChannelInit, ChannelNext, PTL DEF Spec

(* IndexInBuffer: generateSamples never reads outside its buffer, whatever  *)
(* a user loads and however a file fails.                                   *)
THEOREM IndexStaysInBuffer == Spec => []IndexInBuffer
  <1>1. ChannelInv => IndexInBuffer
    BY DEF ChannelInv, PositionInv, IndexInBuffer
  <1> QED
    BY <1>1, ChannelHolds, PTL

(* SignalsDescribeData: signals exist exactly when there is data, and their *)
(* descriptor has the spacing and the resolution that packets are timed     *)
(* with, unless a file that failed to parse left metadata nobody applied.   *)
THEOREM SignalsFollowData == Spec => []SignalsDescribeData
  <1>1. ChannelInv => SignalsDescribeData
    BY DEF ChannelInv
  <1> QED
    BY <1>1, ChannelHolds, PTL

-----------------------------------------------------------------------------
(* Zero                                                                     *)

(* The first sample of a packet is generated first, and until a Zero comes  *)
(* in between it is a sample of the data plus the offset.                   *)
FirstInv ==
    job.step = "generate" =>
        /\ 0 < job.until - samplesGenerated /\ job.todo <= job.until - samplesGenerated
        /\ ~job.zeroed /\ job.todo < job.until - samplesGenerated =>
              job.first - zeroOffset \in Samples

LastValueInv == ~raced => lastValue \in Samples \cup {0}

ZeroInv == FirstInv /\ LastValueInv /\ ZeroHitsTarget

LEMMA NoWrap ==
    ASSUME TypeOK, CountInv, ~TooMany(NewSamples)
    PROVE  NewSamples = SamplesSinceStart - samplesGenerated
  <1> DEFINE s == SamplesSinceStart
             m == MaxTime * MaxRate
  <1>1. /\ s \in Nat /\ s <= m /\ m \in Nat /\ 2 * m < Word /\ Word \in Nat
        /\ samplesGenerated \in Nat /\ samplesGenerated <= s
    BY DueSamples, Bounds, NewSamplesBounds DEF TypeOK, CountInv
  <1> HIDE DEF s, m
  <1>2. (s - samplesGenerated) % Word = s - samplesGenerated
    BY <1>1
  <1> QED
    BY <1>2 DEF NewSamples, s

LEMMA ZeroIdle ==
    ASSUME ZeroInv, UNCHANGED <<zeroOffset, lastValue, zeroed, raced>>,
           UNCHANGED <<job, samplesGenerated>> \/ job'.step # "generate"
    PROVE  ZeroInv'
  BY DEF ZeroInv, FirstInv, LastValueInv, ZeroHitsTarget

LEMMA ZeroNext == ChannelInv /\ ZeroInv /\ [Next]_vars => ZeroInv'
  <1> SUFFICES ASSUME ChannelInv, ZeroInv, [Next]_vars PROVE ZeroInv'
    OBVIOUS
  <1>0. job \in Jobs /\ zeroOffset \in Int /\ samplesGenerated \in Nat /\ lastValue \in Int
    BY Bounds DEF ChannelInv, TypeOK, Jobs
  <1>1. ASSUME NEW source \in {"Array", "File"}, SetDataSource(source) PROVE ZeroInv'
    BY <1>1, ZeroIdle DEF SetDataSource, untouched
  <1>2. ASSUME NEW array \in Arrays, SetValueArray(array) PROVE ZeroInv'
    BY <1>2, ZeroIdle DEF SetValueArray, untouched
  <1>3. ASSUME NEW csv \in CsvFiles, SetFilePath(csv) PROVE ZeroInv'
    BY <1>3, ZeroIdle DEF SetFilePath, untouched
  <1>4. CASE SetBadFilePath
    BY <1>4, ZeroIdle DEF SetBadFilePath, untouched
  <1>5. ASSUME NEW csv \in CsvFiles, FilePathThrows(csv) PROVE ZeroInv'
    BY <1>5, ZeroIdle DEF FilePathThrows, untouched
  <1>6. ASSUME NEW b \in BOOLEAN, SetActive(b) PROVE ZeroInv'
    BY <1>6, ZeroIdle DEF SetActive, untouched
  <1>7. ASSUME NEW target \in Targets, Zero(target) PROVE ZeroInv'
    <2>1. target \in Int
      BY NumberConstants
    <2>2. zeroed'.clean => zeroed'.target - zeroed'.offset = lastValue /\ ~raced
      <3>1. zeroed' = [target |-> target, offset |-> target - lastValue, clean |-> ~raced]
        BY <1>7 DEF Zero
      <3>2. target - (target - lastValue) = lastValue
        BY <1>0, <2>1
      <3> QED
        BY <3>1, <3>2
    <2>3. job'.step = "generate" =>
             /\ job.step = "generate" /\ job'.zeroed /\ job'.until = job.until
             /\ job'.todo = job.todo
      BY <1>0, <1>7 DEF Zero, Jobs, NoJob
    <2>4. FirstInv'
      BY <1>7, <2>3 DEF Zero, ZeroInv, FirstInv
    <2>5. LastValueInv' /\ ZeroHitsTarget'
      BY <1>7, <2>2 DEF Zero, ZeroInv, LastValueInv, ZeroHitsTarget
    <2> QED
      BY <2>4, <2>5 DEF ZeroInv
  <1>8. CASE Tick
    BY <1>8, ZeroIdle DEF Tick, history
  <1>9. CASE SkipSamples
    BY <1>9, ZeroIdle DEF SkipSamples, Unlocked, history
  <1>10. CASE StartPacket
    <2>1. CASE TooMany(NewSamples)
      BY <1>10, <2>1, ZeroIdle DEF StartPacket, history
    <2>2. CASE ~TooMany(NewSamples)
      <3>1. job' = [step |-> "generate", todo |-> NewSamples, until |-> SamplesSinceStart,
                    first |-> 0, zeroed |-> FALSE]
        BY <1>10, <2>2 DEF StartPacket
      <3>2. job'.todo = job'.until - samplesGenerated /\ 0 < job'.todo /\ job'.todo \in Nat
        BY <1>10, <2>2, <3>1, NoWrap, NewSamplesBounds DEF ChannelInv, StartPacket
      <3> QED
        BY <1>10, <3>2, <1>0 DEF StartPacket, history, ZeroInv, FirstInv, LastValueInv, ZeroHitsTarget
    <2> QED
      BY <2>1, <2>2
  <1>11. CASE GenerateSample
    <2>1. /\ job.step = "generate" /\ dataBuffer # <<>> /\ dataBuffer \in Seq(Samples)
          /\ dataBufferIndex \in Nat /\ dataBufferIndex < Len(dataBuffer)
      BY <1>11 DEF GenerateSample, ChannelInv, TypeOK, PositionInv, JobInv
    <2> DEFINE value == dataBuffer[dataBufferIndex + 1]
    <2>2. value \in Samples /\ value \in Int
      <3>1. dataBufferIndex + 1 \in 1..Len(dataBuffer)
        BY <2>1, LenProperties
      <3> QED
        BY <2>1, <3>1, ElementOfSeq, SamplesAreNumbers
    <2> HIDE DEF value
    <2>3. /\ job'.step = "generate" /\ job'.until = job.until /\ job'.zeroed = job.zeroed
          /\ job'.todo = job.todo - 1
          /\ job'.first = IF job.until - samplesGenerated = job.todo THEN value + zeroOffset
                          ELSE job.first
      BY <1>0, <1>11 DEF GenerateSample, Jobs, value
    <2>4. /\ job.todo \in Nat /\ job.until \in Nat /\ job.first \in Int
          /\ 0 < job.until - samplesGenerated /\ job.todo <= job.until - samplesGenerated
          /\ ~job.zeroed /\ job.todo < job.until - samplesGenerated =>
                job.first - zeroOffset \in Samples
      BY <1>0, <2>1 DEF Jobs, ZeroInv, FirstInv
    <2>5. (value + zeroOffset) - zeroOffset = value
      BY <1>0, <2>2
    <2>6. ~job'.zeroed => job'.first - zeroOffset \in Samples
      <3>1. CASE job.until - samplesGenerated = job.todo
        BY <2>2, <2>3, <2>5, <3>1
      <3>2. CASE job.until - samplesGenerated # job.todo
        BY <1>0, <2>3, <2>4, <3>2
      <3> QED
        BY <3>1, <3>2
    <2>7. 0 < job'.until - samplesGenerated /\ job'.todo <= job'.until - samplesGenerated
      BY <1>0, <2>3, <2>4
    <2> QED
      BY <1>11, <2>6, <2>7
         DEF GenerateSample, history, ZeroInv, FirstInv, LastValueInv, ZeroHitsTarget
  <1>12. CASE SendPacket
    <2>1. job'.step = "none" /\ raced' = job.zeroed /\ lastValue' = job.first - zeroOffset
      BY <1>12 DEF SendPacket, NoJob, FirstValue
    <2>2. ~job.zeroed => job.first - zeroOffset \in Samples
      BY <1>0, <1>12 DEF SendPacket, ZeroInv, FirstInv, Jobs
    <2> QED
      BY <1>12, <2>1, <2>2 DEF SendPacket, ZeroInv, FirstInv, LastValueInv, ZeroHitsTarget
  <1>13. CASE UNCHANGED vars
    BY <1>13, ZeroIdle DEF vars, history
  <1> QED
    BY <1>1, <1>2, <1>3, <1>4, <1>5, <1>6, <1>7, <1>8, <1>9, <1>10, <1>11, <1>12, <1>13
       DEF Next, UserStep, Collect

(* ZeroHitsTarget: a Zero takes the target minus a sample of the data as    *)
(* the offset, whatever the data and however often it was replaced, unless  *)
(* an earlier Zero came while the last packet was generated.                *)
THEOREM ZeroIsExact == Spec => []ZeroHitsTarget
  <1>1. Init => ZeroInv
    BY DEF Init, ZeroInv, FirstInv, LastValueInv, ZeroHitsTarget, NoJob
  <1>2. ZeroInv => ZeroHitsTarget
    BY DEF ZeroInv
  <1> QED
    BY <1>1, <1>2, ChannelHolds, ZeroNext, PTL DEF Spec

-----------------------------------------------------------------------------
(* Rates that never drop: all files that give a spacing give one, the       *)
(* default or less, and all that give a resolution give one, with a         *)
(* numerator and a denominator no less than the default's.                  *)

RatesNeverDrop ==
    \A c \in CsvFiles :
        /\ c.deltaT # NoDeltaT =>
              /\ c.deltaT <= DefaultDeltaT
              /\ \A d \in CsvFiles : d.deltaT \in {NoDeltaT, c.deltaT}
        /\ c.resolution # NoResolution =>
              /\ c.resolution.num >= DefaultResolution.num
              /\ c.resolution.den >= DefaultResolution.den
              /\ \A d \in CsvFiles : d.resolution \in {NoResolution, c.resolution}

(* The second metadata are no slower than the first.                        *)
NoSlower(dt, res, faster, finer) ==
    faster <= dt /\ res.num <= finer.num /\ res.den <= finer.den

(* What no file would slow down.                                            *)
Slowest(dt, res) ==
    \A c \in CsvFiles :
        /\ c.deltaT # NoDeltaT => c.deltaT <= dt
        /\ c.resolution # NoResolution =>
              res.num <= c.resolution.num /\ res.den <= c.resolution.den

(* A reload never lowers the rate; and the signals' rate is that of their   *)
(* metadata.                                                                *)
RateInv ==
    /\ sampleRate <= RateFor(deltaT, resolution)
    /\ Slowest(deltaT, resolution)
    /\ HasSignals /\ ~unapplied => sampleRate = RateFor(deltaT, resolution)

(* Samples that span no more than the time: their ticks, in clock units.    *)
InTime(n) == (n * deltaT) * Clock <= now * (resolution.den * resolution.num)

(* What is counted, and what is being generated, is due.                    *)
DueInv ==
    /\ samplesGenerated <= SamplesSinceStart
    /\ job.step = "generate" =>
          job.until <= SamplesSinceStart /\ (~unapplied => InTime(job.until))

(* What was sent is counted.                                                *)
SentInv == sent.applied => sent.end <= samplesGenerated * sent.deltaT + EpochToStart

NoDropInv == RateInv /\ DueInv /\ SentInv /\ CollectSurvives

LEMMA DivisionBounds ==
    ASSUME NEW a \in Nat, NEW b \in Nat, b > 0
    PROVE  (a \div b) * b <= a /\ a < (a \div b) * b + b
  BY SMT

LEMMA DivisionGrows ==
    ASSUME NEW a \in Nat, NEW b \in Nat, b > 0, NEW c \in Nat, a <= c
    PROVE  a \div b <= c \div b
  BY SMT

(* A smaller spacing holds more in a second.                                *)
LEMMA QuotientGrows ==
    ASSUME NEW a \in Nat, NEW d \in Nat \ {0}, NEW e \in Nat \ {0}, d <= e
    PROVE  a \div e <= a \div d
  <1> DEFINE q == a \div e
             r == a \div d
  <1>1. q \in Nat /\ r \in Nat
    BY Quotient
  <1>2. q * e <= a /\ a < r * d + d
    BY DivisionBounds
  <1> HIDE DEF q, r
  <1>3. q * d <= q * e /\ q * d \in Nat /\ q * e \in Nat
    BY <1>1, ProductGrows
  <1>4. r * d + d = (r + 1) * d
    BY <1>1
  <1>5. q * d < (r + 1) * d
    BY <1>1, <1>2, <1>3, <1>4
  <1>6. ASSUME q >= r + 1 PROVE FALSE
    <2>1. (r + 1) * d <= q * d
      BY <1>1, <1>6, ProductGrows
    <2> QED
      BY <1>1, <1>3, <1>5, <2>1
  <1>7. q <= r
    BY <1>1, <1>6
  <1> QED
    BY <1>7 DEF q, r

(* Metadata that are no slower give no lower rate.                          *)
LEMMA RateGrows ==
    ASSUME NEW dt \in Nat \ {0}, NEW res \in Resolutions, NEW faster \in Nat \ {0},
           NEW finer \in Resolutions, NoSlower(dt, res, faster, finer)
    PROVE  RateFor(dt, res) <= RateFor(faster, finer)
  <1>1. /\ res.num \in Nat /\ res.den \in Nat /\ finer.num \in Nat /\ finer.den \in Nat
        /\ faster <= dt /\ res.num <= finer.num /\ res.den <= finer.den
    BY ResolutionsType DEF NoSlower
  <1> DEFINE q == res.den \div dt
             r == finer.den \div faster
             mixed == finer.den \div dt
  <1>2. q <= mixed /\ mixed <= r
    <2>1. q <= mixed
      BY <1>1, DivisionGrows
    <2>2. mixed <= r
      BY <1>1, QuotientGrows
    <2> QED
      BY <2>1, <2>2
  <1>3. q \in Nat /\ r \in Nat /\ mixed \in Nat
    BY <1>1, Quotient
  <1> HIDE DEF mixed
  <1> HIDE DEF q, r
  <1>4. q <= r
    BY <1>2, <1>3
  <1>5. q * res.num <= r * finer.num
    BY <1>1, <1>3, <1>4, ProductGrows
  <1> QED
    BY <1>5 DEF RateFor, q, r

(* More time and a higher rate: no fewer samples are due.                   *)
LEMMA DueGrows ==
    ASSUME NEW n \in Nat, NEW m \in Nat, NEW r \in Nat, NEW s \in Nat, n <= m, r <= s
    PROVE  (n * r) \div Clock <= (m * s) \div Clock
  <1>1. n * r \in Nat /\ m * s \in Nat /\ n * r <= m * s
    BY ProductGrows
  <1> DEFINE a == n * r
             c == m * s
  <1> HIDE DEF a, c
  <1>2. a \in Nat /\ c \in Nat /\ a <= c
    BY <1>1 DEF a, c
  <1>3. a \div Clock <= c \div Clock
    BY <1>2, Bounds, DivisionGrows
  <1> QED
    BY <1>3 DEF a, c

(* The samples due at the rate of the metadata span no more than the time.  *)
LEMMA DueInTime ==
    ASSUME NEW n \in Nat, NEW d \in Nat \ {0}, NEW res \in Resolutions
    PROVE  (((n * RateFor(d, res)) \div Clock) * d) * Clock <= n * (res.den * res.num)
  <1> DEFINE q == res.den \div d
  <1>1. /\ q \in Nat /\ q * d <= res.den /\ Clock \in Nat /\ Clock > 0
        /\ res.den \in Nat /\ res.num \in Nat
    BY Bounds, ResolutionsType, Quotient, DivisionBounds
  <1> DEFINE k == res.num
             e == res.den
             r == q * k
             u == (n * r) \div Clock
  <1>2. k \in Nat /\ e \in Nat /\ q * d <= e
    BY <1>1
  <1> HIDE DEF q, k, e
  <1>3. r \in Nat /\ n * r \in Nat
    BY <1>1, <1>2, ProductGrows
  <1>4. r * d <= e * k
    <2>1. q * d \in Nat /\ (q * d) * k <= e * k
      BY <1>1, <1>2, ProductGrows
    <2>2. (q * d) * k = r * d
      BY <1>1, <1>2
    <2> QED
      BY <2>1, <2>2
  <1> HIDE DEF r
  <1>5. u \in Nat /\ u * Clock <= n * r
    <2> DEFINE p == n * r
    <2>1. p \in Nat
      BY <1>3
    <2> HIDE DEF p
    <2>2. p \div Clock \in Nat /\ (p \div Clock) * Clock <= p
      BY <1>1, <2>1, Quotient, DivisionBounds
    <2> QED
      BY <2>2 DEF p
  <1> HIDE DEF u
  <1>6. u * Clock \in Nat /\ r * d \in Nat /\ e * k \in Nat
    BY <1>1, <1>2, <1>3, <1>5, ProductGrows
  <1>7. (u * Clock) * d <= (n * r) * d
    BY <1>3, <1>5, <1>6, ProductGrows
  <1>8. n * (r * d) <= n * (e * k)
    BY <1>4, <1>6, ProductGrows
  <1>9. (u * d) * Clock = (u * Clock) * d /\ (n * r) * d = n * (r * d)
    BY <1>1, <1>3, <1>5
  <1>10. (u * Clock) * d \in Nat /\ (n * r) * d \in Nat /\ n * (e * k) \in Nat
    BY <1>3, <1>6, ProductGrows
  <1>11. (u * d) * Clock <= n * (e * k)
    BY <1>7, <1>8, <1>9, <1>10
  <1> QED
    BY <1>11 DEF RateFor, u, r, q, k, e

LEMMA NoRateDropsInit == RatesNeverDrop /\ Init => NoDropInv
  <1> SUFFICES ASSUME RatesNeverDrop, Init PROVE NoDropInv
    OBVIOUS
  <1>1. ChannelInv
    BY ChannelInit
  <1>2. RateFor(DefaultDeltaT, DefaultResolution) \in Nat
    BY NumberConstants, RateForType
  <1>3. Slowest(DefaultDeltaT, DefaultResolution)
    BY DEF RatesNeverDrop, Slowest
  <1>4. RateInv
    BY <1>2, <1>3 DEF Init, RateInv
  <1>5. DueInv
    BY <1>1, DueSamples DEF ChannelInv, Init, DueInv, NoJob
  <1>6. SentInv /\ CollectSurvives
    BY NumberConstants DEF Init, SentInv, CollectSurvives
  <1> QED
    BY <1>4, <1>5, <1>6 DEF NoDropInv

(* What is due does not fall, and the packet in progress stays.             *)
LEMMA DueStays ==
    ASSUME ChannelInv, ChannelInv', DueInv, now <= now', sampleRate <= sampleRate',
           samplesGenerated' = samplesGenerated,
           job'.step = "generate" =>
               job.step = "generate" /\ job'.until = job.until /\ UNCHANGED <<deltaT, resolution, unapplied>>
    PROVE  DueInv'
  <1>1. /\ now \in Nat /\ now' \in Nat /\ sampleRate \in Nat /\ sampleRate' \in Nat
        /\ samplesGenerated \in Nat /\ job \in Jobs /\ deltaT \in Nat /\ resolution \in Resolutions
    BY Bounds DEF ChannelInv, TypeOK, Jobs
  <1>2. SamplesSinceStart <= SamplesSinceStart'
    BY <1>1, DueGrows DEF SamplesSinceStart
  <1>3. SamplesSinceStart \in Nat /\ SamplesSinceStart' \in Nat
    <2>1. now' * sampleRate' \in Nat /\ now * sampleRate \in Nat
      <3>1. \A a, b \in Nat : a * b \in Nat
        OBVIOUS
      <3> QED
        BY <1>1, <3>1
    <2> DEFINE p == now * sampleRate
               q == now' * sampleRate'
    <2> HIDE DEF p, q
    <2>2. p \div Clock \in Nat /\ q \div Clock \in Nat
      BY <2>1, Bounds, Quotient DEF p, q
    <2> QED
      BY <2>2 DEF SamplesSinceStart, p, q
  <1>4. samplesGenerated' <= SamplesSinceStart'
    BY <1>1, <1>2, <1>3 DEF DueInv
  <1>5. ASSUME job'.step = "generate"
        PROVE  job'.until <= SamplesSinceStart' /\ (~unapplied' => InTime(job.until)')
    <2>1. /\ job'.until = job.until /\ deltaT' = deltaT /\ resolution' = resolution
          /\ unapplied' = unapplied
          /\ job.until <= SamplesSinceStart /\ job.until \in Nat
          /\ ~unapplied => InTime(job.until)
      BY <1>1, <1>5 DEF DueInv, Jobs
    <2> DEFINE t == (job.until * deltaT) * Clock
               rate == resolution.den * resolution.num
    <2>2. t \in Nat /\ rate \in Nat
      BY <1>1, <2>1, Bounds, ResolutionsType, ProductGrows
    <2>3. (InTime(job.until) <=> t <= now * rate) /\ (InTime(job.until)' <=> t <= now' * rate)
      BY <2>1 DEF InTime
    <2> HIDE DEF t, rate
    <2>4. now * rate <= now' * rate /\ now * rate \in Nat /\ now' * rate \in Nat
      <3>1. \A a, b \in Nat : a * b \in Nat
        OBVIOUS
      <3>2. now \in Nat /\ now' \in Nat /\ rate \in Nat /\ now <= now' /\ rate <= rate
        BY <1>1, <2>2
      <3>3. now * rate <= now' * rate
        BY ONLY <3>2, ProductGrows
      <3> QED
        BY <1>1, <2>2, <3>1, <3>3
    <2>5. job'.until <= SamplesSinceStart'
      BY <1>2, <1>3, <2>1
    <2> DEFINE p == now * rate
               q == now' * rate
    <2> HIDE DEF p, q
    <2>6. (InTime(job.until) <=> t <= p) /\ (InTime(job.until)' <=> t <= q)
      BY <2>3 DEF p, q
    <2>7. p <= q /\ p \in Nat /\ q \in Nat
      BY <2>4 DEF p, q
    <2>8. t <= p => t <= q
      BY <2>2, <2>7
    <2> QED
      BY <2>1, <2>5, <2>6, <2>8
  <1> QED
    BY <1>4, <1>5 DEF DueInv

(* Loading data of a spacing that is no larger.                             *)
LEMMA LoadedFaster ==
    ASSUME ChannelInv, ChannelInv', NoDropInv, Unlocked, NEW source, NEW array, NEW fileData,
           NEW dt \in Nat \ {0}, NEW res \in Resolutions,
           NoSlower(deltaT, resolution, dt, res), Slowest(dt, res),
           DataSourceChanged(source, array, fileData, dt, res), deltaT' = dt, resolution' = res,
           UNCHANGED untouched
    PROVE  NoDropInv'
  <1> DEFINE before == RateFor(deltaT, resolution)
             after == RateFor(dt, res)
  <1>1. /\ sampleRate \in Nat /\ before \in Nat /\ after \in Nat /\ now \in Nat
        /\ sampleRate <= before /\ before <= after
    <2>1. /\ deltaT \in Nat \ {0} /\ resolution \in Resolutions /\ sampleRate \in Nat /\ now \in Nat
      BY Bounds DEF ChannelInv, TypeOK
    <2>2. before \in Nat /\ after \in Nat
      BY <2>1, RateForType
    <2>3. before <= after
      BY <2>1, RateGrows
    <2>4. sampleRate <= before
      BY DEF NoDropInv, RateInv
    <2> QED
      BY <2>1, <2>2, <2>3, <2>4
  <1>2. /\ sampleRate' \in {sampleRate, after}
        /\ descriptor' # NoDescriptor => sampleRate' = after
    BY DEF DataSourceChanged
  <1>3. RateFor(deltaT, resolution)' = after /\ Slowest(deltaT, resolution)'
    BY DEF RateFor, Slowest
  <1> HIDE DEF before, after
  <1>4. sampleRate <= sampleRate' /\ sampleRate' <= after
    BY <1>1, <1>2
  <1>5. RateInv'
    BY <1>2, <1>3, <1>4 DEF RateInv, HasSignals
  <1>6. DueInv'
    BY <1>1, <1>4, DueStays DEF NoDropInv, untouched, Unlocked
  <1>7. SentInv' /\ CollectSurvives'
    BY DEF NoDropInv, SentInv, CollectSurvives, untouched
  <1> QED
    BY <1>5, <1>6, <1>7 DEF NoDropInv

(* Steps that load nothing, send nothing and count nothing.                 *)
LEMMA RatesIdle ==
    ASSUME ChannelInv, ChannelInv', NoDropInv, now <= now',
           UNCHANGED <<deltaT, resolution, sampleRate, descriptor, unapplied, samplesGenerated,
                       sent, crashed>>,
           job'.step = "generate" => job.step = "generate" /\ job'.until = job.until
    PROVE  NoDropInv'
  <1>1. sampleRate <= sampleRate'
    BY DEF ChannelInv, TypeOK
  <1>2. DueInv'
    BY <1>1, DueStays DEF NoDropInv
  <1> QED
    BY <1>2 DEF NoDropInv, RateInv, Slowest, HasSignals, SentInv, CollectSurvives

(* What is due and not yet counted can be allocated.                        *)
LEMMA AllocationFits ==
    ASSUME TypeOK, CountInv, samplesGenerated <= SamplesSinceStart
    PROVE  ~TooMany(NewSamples)
  <1> DEFINE s == SamplesSinceStart
             m == MaxTime * MaxRate
  <1>1. /\ s \in Nat /\ s <= m /\ m \in Nat /\ 2 * m < Word /\ Word \in Nat
        /\ samplesGenerated \in Nat /\ samplesGenerated <= s
    BY DueSamples, Bounds DEF TypeOK, CountInv
  <1> HIDE DEF s, m
  <1>2. (s - samplesGenerated) % Word = s - samplesGenerated
    BY <1>1
  <1>3. s - samplesGenerated < Word \div 2
    BY <1>1, PlaybackChannelAssumption DEF m
  <1> QED
    BY <1>1, <1>2, <1>3 DEF NewSamples, TooMany, s

(* While rates never drop, a file read to any point leaves metadata that    *)
(* are no slower than those before, and that no file would slow down.       *)
LEMMA MetadataSlows ==
    ASSUME RatesNeverDrop, TypeOK, Slowest(deltaT, resolution), NEW csv \in CsvFiles,
           NEW dt \in {deltaT, DeltaTOf(csv)}, NEW res \in {resolution, ResolutionOf(csv)}
    PROVE  /\ dt \in Nat \ {0} /\ res \in Resolutions
           /\ Slowest(dt, res) /\ NoSlower(deltaT, resolution, dt, res)
  <1>1. /\ deltaT \in Nat \ {0} /\ resolution \in Resolutions
        /\ dt \in Nat \ {0} /\ res \in Resolutions
        /\ dt = deltaT \/ (csv.deltaT # NoDeltaT /\ dt = csv.deltaT)
        /\ res = resolution \/ (csv.resolution # NoResolution /\ res = csv.resolution)
    BY MetadataOf DEF TypeOK
  <1>2. /\ resolution.num \in Nat /\ resolution.den \in Nat
        /\ res.num \in Nat /\ res.den \in Nat
    BY <1>1, ResolutionsType
  <1>3. NoSlower(deltaT, resolution, dt, res)
    BY <1>1, <1>2 DEF NoSlower, Slowest
  <1>4. ASSUME NEW c \in CsvFiles
        PROVE  /\ c.deltaT # NoDeltaT => c.deltaT <= dt
               /\ c.resolution # NoResolution =>
                     res.num <= c.resolution.num /\ res.den <= c.resolution.den
    BY <1>1, <1>2 DEF Slowest, RatesNeverDrop
  <1> QED
    BY <1>1, <1>3, <1>4 DEF Slowest

LEMMA NoRateDropsNext ==
    RatesNeverDrop /\ ChannelInv /\ ChannelInv' /\ NoDropInv /\ [Next]_vars => NoDropInv'
  <1> SUFFICES ASSUME RatesNeverDrop, ChannelInv, ChannelInv', NoDropInv, [Next]_vars
               PROVE  NoDropInv'
    OBVIOUS
  <1>0. /\ deltaT \in Nat \ {0} /\ job \in Jobs /\ now \in Nat /\ samplesGenerated \in Nat
        /\ sampleRate \in Nat /\ resolution \in Resolutions /\ TypeOK
        /\ Slowest(deltaT, resolution) /\ NoSlower(deltaT, resolution, deltaT, resolution)
    <2>1. /\ deltaT \in Nat \ {0} /\ job \in Jobs /\ now \in Nat /\ samplesGenerated \in Nat
          /\ sampleRate \in Nat /\ resolution \in Resolutions
      BY Bounds DEF ChannelInv, TypeOK, Jobs
    <2>2. resolution.num \in Nat /\ resolution.den \in Nat
      BY <2>1, ResolutionsType
    <2>3. NoSlower(deltaT, resolution, deltaT, resolution)
      BY <2>1, <2>2 DEF NoSlower
    <2> QED
      BY <2>1, <2>3 DEF ChannelInv, NoDropInv, RateInv
  <1>f. ASSUME NEW csv \in CsvFiles, NEW dt \in {deltaT, DeltaTOf(csv)},
               NEW res \in {resolution, ResolutionOf(csv)}
        PROVE  /\ dt \in Nat \ {0} /\ res \in Resolutions
               /\ Slowest(dt, res) /\ NoSlower(deltaT, resolution, dt, res)
    BY <1>0, <1>f, MetadataSlows
  <1>1. ASSUME NEW source \in {"Array", "File"}, SetDataSource(source) PROVE NoDropInv'
    BY <1>0, <1>1, LoadedFaster DEF SetDataSource
  <1>2. ASSUME NEW array \in Arrays, SetValueArray(array) PROVE NoDropInv'
    BY <1>0, <1>2, LoadedFaster DEF SetValueArray
  <1>3. ASSUME NEW csv \in CsvFiles, SetFilePath(csv) PROVE NoDropInv'
    <2>1. /\ DeltaTOf(csv) \in Nat \ {0} /\ ResolutionOf(csv) \in Resolutions
          /\ Slowest(DeltaTOf(csv), ResolutionOf(csv))
          /\ NoSlower(deltaT, resolution, DeltaTOf(csv), ResolutionOf(csv))
      BY <1>f
    <2> QED
      BY <1>0, <1>3, <2>1, LoadedFaster DEF SetFilePath
  <1>4. CASE SetBadFilePath
    BY <1>0, <1>4, LoadedFaster DEF SetBadFilePath
  <1>5. ASSUME NEW csv \in CsvFiles, FilePathThrows(csv) PROVE NoDropInv'
    <2>1. /\ deltaT' \in {deltaT, DeltaTOf(csv)} /\ resolution' \in {resolution, ResolutionOf(csv)}
          /\ ~unapplied' => ~unapplied /\ deltaT' = deltaT /\ resolution' = resolution
          /\ UNCHANGED <<sampleRate, descriptor, untouched>> /\ job.step = "none"
      BY <1>5 DEF FilePathThrows, Unlocked, ChannelInv, TypeOK
    <2> DEFINE before == RateFor(deltaT, resolution)
               after == RateFor(deltaT', resolution')
    <2>2. /\ deltaT' \in Nat \ {0} /\ resolution' \in Resolutions
          /\ Slowest(deltaT', resolution') /\ NoSlower(deltaT, resolution, deltaT', resolution')
      BY <2>1, <1>f
    <2>3. before \in Nat /\ after \in Nat /\ before <= after /\ (~unapplied' => after = before)
      BY <1>0, <2>1, <2>2, RateForType, RateGrows
    <2>5. RateFor(deltaT, resolution)' = after /\ Slowest(deltaT, resolution)'
      BY <2>2 DEF RateFor, Slowest
    <2> HIDE DEF after
    <2>6. sampleRate <= before /\ (HasSignals /\ ~unapplied => sampleRate = before)
      BY DEF NoDropInv, RateInv
    <2> HIDE DEF before
    <2>7. RateInv'
      BY <1>0, <2>1, <2>3, <2>5, <2>6 DEF RateInv, HasSignals
    <2>4. DueInv'
      BY <1>0, <2>1, DueStays DEF NoDropInv, untouched
    <2> QED
      BY <2>1, <2>4, <2>7 DEF NoDropInv, SentInv, CollectSurvives, untouched
  <1>6. ASSUME NEW b \in BOOLEAN, SetActive(b) PROVE NoDropInv'
    BY <1>0, <1>6, RatesIdle DEF SetActive, untouched
  <1>7. ASSUME NEW target \in Targets, Zero(target) PROVE NoDropInv'
    <2>1. job'.step = "generate" => job.step = "generate" /\ job'.until = job.until
      BY <1>0, <1>7 DEF Zero, Jobs, NoJob
    <2> QED
      BY <1>0, <1>7, <2>1, RatesIdle DEF Zero, playing
  <1>8. CASE Tick
    BY <1>0, <1>8, RatesIdle DEF Tick, playing, history
  <1>9. CASE SkipSamples
    <2>1. /\ samplesGenerated' = SamplesSinceStart /\ SamplesSinceStart \in Nat
          /\ samplesGenerated <= SamplesSinceStart /\ SamplesSinceStart' = SamplesSinceStart
          /\ job'.step = "none"
      BY <1>9, DueSamples
         DEF SkipSamples, ChannelInv, NoDropInv, DueInv, playing, SamplesSinceStart, Unlocked
    <2>2. SentInv'
      <3>1. sent.end \in Nat /\ sent.deltaT \in Nat
        BY DEF ChannelInv, TypeOK
      <3>2. /\ samplesGenerated * sent.deltaT <= SamplesSinceStart * sent.deltaT
            /\ samplesGenerated * sent.deltaT \in Nat /\ SamplesSinceStart * sent.deltaT \in Nat
        BY <1>0, <2>1, <3>1, ProductGrows
      <3>3. sent' = sent
        BY <1>9 DEF SkipSamples
      <3> QED
        BY <2>1, <3>1, <3>2, <3>3, NumberConstants DEF NoDropInv, SentInv
    <2> QED
      BY <1>9, <2>1, <2>2
         DEF SkipSamples, NoDropInv, RateInv, Slowest, HasSignals, DueInv, CollectSurvives, playing, history
  <1>10. CASE StartPacket
    <2>1. ~TooMany(NewSamples) /\ SamplesSinceStart \in Nat
      BY AllocationFits, DueSamples DEF ChannelInv, NoDropInv, DueInv
    <2>2. /\ job'.until = SamplesSinceStart /\ SamplesSinceStart' = SamplesSinceStart /\ HasSignals
          /\ UNCHANGED <<now, playing, samplesGenerated, sent, unapplied, crashed>>
      BY <1>10, <2>1 DEF StartPacket, SamplesSinceStart, playing, history
    <2>3. ~unapplied => InTime(SamplesSinceStart)
      BY <1>0, <2>2, DueInTime DEF NoDropInv, RateInv, SamplesSinceStart, InTime
    <2>4. InTime(job.until)' <=> InTime(SamplesSinceStart)
      BY <2>2 DEF InTime, playing
    <2>5. DueInv'
      BY <2>1, <2>2, <2>3, <2>4 DEF NoDropInv, DueInv
    <2> QED
      BY <2>2, <2>5 DEF NoDropInv, RateInv, Slowest, HasSignals, SentInv, CollectSurvives, playing
  <1>11. CASE GenerateSample
    <2>1. job'.until = job.until
      BY <1>0, <1>11 DEF GenerateSample, Jobs
    <2> QED
      BY <1>0, <1>11, <2>1, RatesIdle DEF GenerateSample, history
  <1>12. CASE SendPacket
    <2>1. /\ job.step = "generate" /\ job.until \in Nat /\ job.until <= SamplesSinceStart
          /\ samplesGenerated <= job.until /\ HasSignals
      BY <1>0, <1>12
         DEF SendPacket, NoDropInv, DueInv, Jobs, ChannelInv, JobInv, SignalsDescribeData
    <2>2. /\ job'.step = "none" /\ samplesGenerated' = job.until
          /\ UNCHANGED <<now, playing, unapplied, crashed>>
      BY <1>12 DEF SendPacket, NoJob, CountSamples
    <2>3. DueInv'
      BY <2>1, <2>2 DEF DueInv, SamplesSinceStart, playing
    <2>4. SentInv'
      <3>1. sent' = [start |-> PacketTime,
                     end |-> PacketTime + (job.until - samplesGenerated) * descriptor.deltaT,
                     deltaT |-> deltaT, resolution |-> descriptor.resolution,
                     applied |-> ~unapplied]
        BY <1>12 DEF SendPacket
      <3>2. SUFFICES ASSUME ~unapplied
                     PROVE  sent'.end <= samplesGenerated' * sent'.deltaT + EpochToStart
        BY <3>1 DEF SentInv
      <3>3. descriptor.deltaT = deltaT
        BY <2>1, <3>2 DEF ChannelInv, SignalsDescribeData, Descriptor
      <3>4. /\ samplesGenerated * deltaT + (job.until - samplesGenerated) * deltaT = job.until * deltaT
            /\ samplesGenerated * deltaT \in Nat /\ (job.until - samplesGenerated) * deltaT \in Nat
            /\ job.until * deltaT \in Nat /\ EpochToStart \in Nat
        BY <1>0, <2>1, NumberConstants
      <3> DEFINE t == job.until * deltaT
                 a == samplesGenerated * deltaT
                 b == (job.until - samplesGenerated) * deltaT
      <3>5. sent'.end = (a + EpochToStart) + b /\ samplesGenerated' * sent'.deltaT = t
        BY <2>2, <3>1, <3>3 DEF PacketTime
      <3> HIDE DEF t, a, b
      <3>6. a + b = t /\ a \in Nat /\ b \in Nat /\ t \in Nat
        BY <3>4 DEF t, a, b
      <3> QED
        BY <3>4, <3>5, <3>6
    <2> QED
      BY <2>2, <2>3, <2>4 DEF NoDropInv, RateInv, Slowest, HasSignals, CollectSurvives, playing
  <1>13. CASE UNCHANGED vars
    BY <1>0, <1>13, RatesIdle DEF vars, playing, history
  <1> QED
    BY <1>1, <1>2, <1>3, <1>4, <1>5, <1>6, <1>7, <1>8, <1>9, <1>10, <1>11, <1>12, <1>13
       DEF Next, UserStep, Collect

LEMMA NoRateDrops == RatesNeverDrop /\ Spec => []NoDropInv
  <1> SUFFICES ASSUME RatesNeverDrop PROVE Spec => []NoDropInv
    OBVIOUS
  <1>1. Init => NoDropInv
    BY NoRateDropsInit
  <1>2. ChannelInv /\ ChannelInv' /\ NoDropInv /\ [Next]_vars => NoDropInv'
    BY NoRateDropsNext
  <1> QED
    BY <1>1, <1>2, ChannelHolds, PTL DEF Spec

(* CollectSurvives: if all files that give a spacing give one, the default  *)
(* or a smaller one, and all that give a resolution give one, the default   *)
(* or a finer one, then collecting samples never kills the acquisition      *)
(* thread, whatever is loaded in whatever order, wherever a file fails to   *)
(* parse and however the signals come and go.                               *)
THEOREM CollectingSurvives == RatesNeverDrop /\ Spec => []CollectSurvives
  <1>1. NoDropInv => CollectSurvives
    BY DEF NoDropInv
  <1> QED
    BY <1>1, NoRateDrops, PTL

TimesStep ==
    sent' # sent /\ sent'.applied =>
        /\ sent'.deltaT = sent.deltaT /\ sent'.resolution = sent.resolution /\ sent.applied =>
              sent'.start >= sent.end
        /\ sent'.resolution.num = 1 =>
              (sent'.end - EpochToStart) * Clock <= now * sent'.resolution.den

(* Only SendPacket sends; its times begin at or after what was counted.     *)
LEMMA TimesOfPacket == ChannelInv /\ NoDropInv /\ [Next]_vars => TimesStep
  <1> SUFFICES ASSUME ChannelInv, NoDropInv, [Next]_vars, sent' # sent, sent'.applied
               PROVE  /\ sent'.deltaT = sent.deltaT /\ sent.applied => sent'.start >= sent.end
                      /\ sent'.resolution.num = 1 =>
                            (sent'.end - EpochToStart) * Clock <= now * sent'.resolution.den
    BY DEF TimesStep
  <1>1. SendPacket
    BY DEF Next, UserStep, Collect, SetDataSource, SetValueArray, SetFilePath, SetBadFilePath,
           FilePathThrows, SetActive, Zero, Tick, SkipSamples, StartPacket, GenerateSample,
           untouched, vars
  <1>2. /\ job.step = "generate" /\ job.until \in Nat /\ samplesGenerated \in Nat
        /\ deltaT \in Nat /\ now \in Nat /\ HasSignals
        /\ sent.end \in Nat /\ EpochToStart \in Nat /\ resolution \in Resolutions
    BY <1>1, Bounds, NumberConstants
       DEF SendPacket, ChannelInv, TypeOK, JobInv, SignalsDescribeData
  <1>3. sent' = [start |-> PacketTime,
                 end |-> PacketTime + (job.until - samplesGenerated) * descriptor.deltaT,
                 deltaT |-> deltaT, resolution |-> descriptor.resolution, applied |-> ~unapplied]
    BY <1>1 DEF SendPacket
  <1>4. /\ ~unapplied /\ descriptor.deltaT = deltaT /\ descriptor.resolution = resolution
        /\ InTime(job.until)
    <2>1. ~unapplied
      BY <1>3
    <2>2. descriptor = Descriptor(deltaT, resolution)
      BY <1>2, <2>1 DEF ChannelInv, SignalsDescribeData
    <2>3. InTime(job.until)
      BY <1>2, <2>1 DEF NoDropInv, DueInv
    <2> QED
      BY <2>1, <2>2, <2>3 DEF Descriptor
  <1>5. ASSUME sent'.resolution.num = 1
        PROVE  (sent'.end - EpochToStart) * Clock <= now * sent'.resolution.den
    <2>1. /\ samplesGenerated * deltaT + (job.until - samplesGenerated) * deltaT = job.until * deltaT
          /\ samplesGenerated * deltaT \in Int /\ (job.until - samplesGenerated) * deltaT \in Int
          /\ job.until * deltaT \in Int
      BY <1>2
    <2> DEFINE t == job.until * deltaT
               a == samplesGenerated * deltaT
               b == (job.until - samplesGenerated) * deltaT
    <2>2. sent'.end = (a + EpochToStart) + b /\ t * Clock <= now * (resolution.den * resolution.num)
      BY <1>3, <1>4 DEF PacketTime, InTime
    <2> HIDE DEF t, a, b
    <2>3. sent'.end - EpochToStart = t
      BY <1>2, <2>1, <2>2 DEF t, a, b
    <2>4. resolution.num = 1 /\ sent'.resolution = resolution /\ resolution.den \in Nat
      BY <1>2, <1>3, <1>4, <1>5, ResolutionsType
    <2>5. resolution.den * resolution.num = resolution.den
      BY <2>4
    <2> QED
      BY <2>2, <2>3, <2>4, <2>5
  <1>6. ASSUME sent.applied, sent'.deltaT = sent.deltaT PROVE sent'.start >= sent.end
    <2>1. sent.end <= samplesGenerated * sent.deltaT + EpochToStart
      BY <1>6 DEF NoDropInv, SentInv
    <2>2. sent'.start = samplesGenerated * sent.deltaT + EpochToStart
      BY <1>3, <1>6 DEF PacketTime
    <2>3. samplesGenerated * sent.deltaT \in Nat
      BY <1>2, <1>3, <1>6
    <2> QED
      BY <1>2, <2>1, <2>2, <2>3
  <1> QED
    BY <1>5, <1>6

(* TimesNeverOverlap: for files as above, packets of one spacing and        *)
(* resolution follow each other in time, also over periods without signals  *)
(* or listeners; and where the numerator is 1, the ticks counted from the   *)
(* start span no more than the time since the start.  The stamps add the    *)
(* start in clock units to these ticks, see TimesNeverOverlap.              *)
THEOREM TimesAreOrdered == RatesNeverDrop /\ Spec => TimesNeverOverlap
  <1>1. ChannelInv /\ NoDropInv /\ [Next]_vars => [TimesStep]_vars
    BY TimesOfPacket
  <1>2. RatesNeverDrop /\ Spec => [][TimesStep]_vars
    BY <1>1, ChannelHolds, NoRateDrops, PTL DEF Spec
  <1> QED
    BY <1>2 DEF TimesNeverOverlap, TimesStep
=============================================================================
