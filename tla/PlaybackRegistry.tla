-------------------------- MODULE PlaybackRegistry --------------------------
(***************************************************************************)
(* The playback module's table of devices: one weak reference per device   *)
(* number.  Threads ask for devices by connection string; the owner of a   *)
(* device removes it and drops its reference whenever it likes, without    *)
(* the module's lock.                                                      *)
(***************************************************************************)
EXTENDS Integers, FiniteSets

CONSTANTS
    Threads,            \* threads that create devices
    Devices,            \* names for devices: a bound on how many exist
    MaxNumberOfDevices, \* the module option
    SerialNumberOption, \* TRUE iff the module option SerialNumber is set
    BadId,              \* a connection string with another prefix, or no number
    Null                \* no device

ASSUME PlaybackRegistryAssumption ==
    /\ MaxNumberOfDevices \in Nat
    /\ BadId \notin Int /\ Null \notin Devices

Slots == 0..(MaxNumberOfDevices - 1)

(* -1 stands for the numbers stoi makes a huge size_t of.                   *)
Requests == {-1} \cup 0..MaxNumberOfDevices \cup {BadId}

(* The numbers in the connection strings that discovery offers: two,        *)
(* whatever the size of the table.                                          *)
AvailableDevices == IF SerialNumberOption THEN {0} ELSE 0..1

VARIABLES
    devices,            \* slot -> device last created for it, or Null
    alive,              \* devices some reference keeps in existence
    removed,            \* devices whose isRemoved() answers true
    number,             \* device -> its number
    pc, request, slot,  \* of each thread; `slot' is clearRemovedDevices' loop
    outcome,            \* how its last call ended
    taken               \* history: the number was in use at some time of the call

device == <<alive, removed, number>>
moduleVars == <<devices, device, pc, request, slot, outcome, taken>>

Available(d) == d \in alive \ removed

InUse(n) == \E d \in Devices : number[d] = n /\ Available(d)

(* Names of no device and in no slot.                                       *)
FreeNames == Devices \ (alive \cup {devices[s] : s \in Slots})

InCall == {"enter", "clear", "ask", "check", "create"}
Locked == \E t \in Threads : pc[t] \in InCall \ {"enter"}

ModuleInit ==
    /\ devices = [s \in Slots |-> Null]
    /\ alive = {} /\ removed = {}
    /\ number = [d \in Devices |-> 0]
    /\ pc = [t \in Threads |-> "idle"]
    /\ request = [t \in Threads |-> BadId]
    /\ slot = [t \in Threads |-> 0]
    /\ outcome = [t \in Threads |-> "none"]
    /\ taken = [t \in Threads |-> FALSE]

Finish(t, what) ==
    /\ pc' = [pc EXCEPT ![t] = "idle"]
    /\ outcome' = [outcome EXCEPT ![t] = what]

Goto(t, where) == pc' = [pc EXCEPT ![t] = where] /\ UNCHANGED outcome

-----------------------------------------------------------------------------
(* onCreateDevice                                                           *)

(* getIdFromConnectionString, before the lock.  Bound: a call only starts    *)
(* while there is a name for every device the open calls may create.        *)
Call(t, r) ==
    /\ pc[t] = "idle"
    /\ Cardinality({u \in Threads : pc[u] \in InCall}) < Cardinality(FreeNames)
    /\ IF r = BadId
       THEN /\ Finish(t, "InvalidParameter")
            /\ UNCHANGED <<request, taken>>
       ELSE /\ pc' = [pc EXCEPT ![t] = "enter"]
            /\ outcome' = [outcome EXCEPT ![t] = "none"]
            /\ request' = [request EXCEPT ![t] = r]
            /\ taken' = [taken EXCEPT ![t] = InUse(r)]
    /\ UNCHANGED <<devices, device, slot>>

(* Mutant of Enter: no lock is taken.                                       *)
EnterUnlocked(t) ==
    /\ pc[t] = "enter"
    /\ IF request[t] \in Slots
       THEN Goto(t, "clear") /\ slot' = [slot EXCEPT ![t] = 0]
       ELSE Finish(t, "NotFound") /\ UNCHANGED slot
    /\ UNCHANGED <<devices, device, request, taken>>

(* The lock is taken; a number beyond the table is refused.                 *)
Enter(t) ==
    /\ pc[t] = "enter" /\ ~Locked
    /\ IF request[t] \in Slots
       THEN Goto(t, "clear") /\ slot' = [slot EXCEPT ![t] = 0]
       ELSE Finish(t, "NotFound") /\ UNCHANGED slot
    /\ UNCHANGED <<devices, device, request, taken>>

(* Mutant of NextSlot: the loop never leaves the first slot.                *)
SameSlot(t) == Goto(t, "clear") /\ UNCHANGED slot

NextSlot(t) ==
    /\ slot' = [slot EXCEPT ![t] = @ + 1]
    /\ Goto(t, IF slot[t] + 1 \in Slots THEN "clear" ELSE "check")

(* clearRemovedDevices, one slot: is the device gone?                       *)
ClearNull(t) ==
    /\ pc[t] = "clear" /\ devices[slot[t]] \notin alive
    /\ devices' = [devices EXCEPT ![slot[t]] = Null]
    /\ NextSlot(t)
    /\ UNCHANGED <<device, request, taken>>

KeepNonNull(t) ==
    /\ pc[t] = "clear" /\ devices[slot[t]] \in alive
    /\ Goto(t, "ask")
    /\ UNCHANGED <<devices, device, request, slot, taken>>

(* Mutant of ClearRemoved: isRemoved is not asked.                          *)
KeepRemoved(t) ==
    /\ pc[t] = "ask"
    /\ NextSlot(t)
    /\ UNCHANGED <<devices, device, request, taken>>

(* device.getRef().isRemoved(): the weak reference is asked again, and a     *)
(* call through an unassigned pointer throws.                               *)
ClearRemoved(t) ==
    /\ pc[t] = "ask"
    /\ IF devices[slot[t]] \notin alive
       THEN Finish(t, "NullReference") /\ UNCHANGED <<devices, slot>>
       ELSE /\ devices' = IF devices[slot[t]] \in removed
                          THEN [devices EXCEPT ![slot[t]] = Null] ELSE devices
            /\ NextSlot(t)
    /\ UNCHANGED <<device, request, taken>>

Check(t) ==
    /\ pc[t] = "check"
    /\ IF devices[request[t]] \in alive
       THEN Finish(t, "AlreadyExists")
       ELSE Goto(t, "create")
    /\ UNCHANGED <<devices, device, request, slot, taken>>

GiveNumber(d, n) == number' = [number EXCEPT ![d] = n]

(* The device is constructed and entered into its slot; the lock is left.   *)
Create(t) ==
    /\ pc[t] = "create"
    /\ \E d \in FreeNames :
          /\ alive' = alive \cup {d}
          /\ removed' = removed \ {d}
          /\ GiveNumber(d, request[t])
          /\ devices' = [devices EXCEPT ![request[t]] = d]
    /\ taken' = [u \in Threads |-> taken[u] \/ (pc[u] \in InCall /\ request[u] = request[t])]
    /\ Finish(t, "created")
    /\ UNCHANGED <<request, slot>>

-----------------------------------------------------------------------------
(* The owner of a device (external)                                         *)

RemoveDevice(d) ==
    /\ Available(d)
    /\ removed' = removed \cup {d}
    /\ UNCHANGED <<devices, alive, number, pc, request, slot, outcome, taken>>

DropLastReference(d) ==
    /\ d \in alive
    /\ alive' = alive \ {d}
    /\ UNCHANGED <<devices, removed, number, pc, request, slot, outcome, taken>>

CreateDevice(t) ==
    Enter(t) \/ ClearNull(t) \/ KeepNonNull(t) \/ ClearRemoved(t) \/ Check(t) \/ Create(t)

ModuleNext ==
    \/ \E t \in Threads : CreateDevice(t) \/ \E r \in Requests : Call(t, r)
    \/ \E d \in Devices : RemoveDevice(d) \/ DropLastReference(d)

ModuleSpec == ModuleInit /\ [][ModuleNext]_moduleVars

(* A thread in a call keeps running, and the lock is not kept from it.       *)
ModuleFairSpec ==
    ModuleSpec /\ \A t \in Threads : WF_moduleVars(CreateDevice(t) /\ pc[t] # "enter") /\ SF_moduleVars(Enter(t))

-----------------------------------------------------------------------------
(* Properties                                                              *)

ModuleTypeOK ==
    /\ devices \in [Slots -> Devices \cup {Null}]
    /\ alive \subseteq Devices /\ removed \subseteq Devices
    /\ number \in [Devices -> Nat]
    /\ pc \in [Threads -> {"idle"} \cup InCall]
    /\ request \in [Threads -> Requests]
    /\ slot \in [Threads -> 0..MaxNumberOfDevices]
    /\ outcome \in [Threads -> {"none", "created", "InvalidParameter", "NotFound",
                                "AlreadyExists", "NullReference"}]
    /\ taken \in [Threads -> BOOLEAN]

(* AlreadyExistsException: no two available devices have one number (and    *)
(* one default local id), however requests, removals and destructions       *)
(* interleave (and every variable keeps its type).                          *)
OneDevicePerNumber ==
    /\ ModuleTypeOK
    /\ \A d, e \in Devices : Available(d) /\ Available(e) /\ number[d] = number[e] => d = e

(* A number that was free during the whole call is not refused with         *)
(* AlreadyExists: a device removed before the call is out of the way, even  *)
(* if somebody still holds a reference to it.  And a device that discovery  *)
(* offered is not refused as unknown, provided the table has the default    *)
(* size or more.                                                            *)
RefusedOnlyIfTaken ==
    \A t \in Threads :
        /\ outcome[t] = "AlreadyExists" => taken[t]
        /\ outcome[t] = "NotFound" /\ MaxNumberOfDevices >= 2 =>
               request[t] \notin AvailableDevices

(* Every call returns.                                                      *)
CallReturns == \A t \in Threads : pc[t] = "enter" ~> pc[t] = "idle"
=============================================================================
