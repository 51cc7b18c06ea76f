------------------------------ MODULE Mtig710 ------------------------------
(***************************************************************************)
(* The MTIG710 device module.  A device is created under the module's      *)
(* mutex; its driver then hands it data (addData) while the device's owner *)
(* may write the protected SampleRate.  What a device sends goes to its    *)
(* receivers, one after the other, in the driver's thread, and a receiver  *)
(* may throw.                                                              *)
(***************************************************************************)
EXTENDS Naturals, Sequences

CONSTANTS
    Drivers,        \* threads that create a device and then drive it
    Receivers,      \* number of connections of a value signal
    MayFail,        \* TRUE iff a receiver may throw
    Counts,         \* numbers of samples the driver hands over
    Rates,          \* sample rates the owner writes
    MaxPackets,     \* bound on the calls of addData of one device
    MaxWrites       \* bound on the writes of SampleRate

VARIABLES
    m_deviceIndex,  \* the module's counter of devices
    mtig,           \* the device of each driver: [localId, rate, delta, captured]
    adding,         \* what each driver is doing
    packet,         \* the packet it is sending
    received,       \* history: what each receiver of each device got
    failed,         \* history: the calls of addData that threw
    calls, writes   \* bounds only

mvars == <<m_deviceIndex, mtig, adding, packet, received, failed, calls, writes>>

DefaultRate == 10000
NoDevice == [localId |-> 0, rate |-> 0, delta |-> 0, captured |-> 0]
NoPacket == [call |-> 0, offset |-> 0, count |-> 0, receivers |-> 0]

Init ==
    /\ m_deviceIndex = 0
    /\ mtig = [t \in Drivers |-> NoDevice]
    /\ adding = [t \in Drivers |-> "new"]
    /\ packet = [t \in Drivers |-> NoPacket]
    /\ received = [t \in Drivers |-> [r \in 1..Receivers |-> <<>>]]
    /\ failed = [t \in Drivers |-> {}]
    /\ calls = [t \in Drivers |-> 0]
    /\ writes = 0

Goto(t, from, to) == adding[t] = from /\ adding' = [adding EXCEPT ![t] = to]

(* start -> configure -> configureTimeSignal: the linear rule of the time   *)
(* signal has a delta of one tick, whatever the rate.                       *)
Configured(d, rate) == [d EXCEPT !.rate = rate, !.delta = 1]

(* onCreateDevice, under the module's mutex.                                *)
CreateDevice(t) ==
    /\ Goto(t, "new", "idle")
    /\ mtig' = [mtig EXCEPT ![t] = Configured([@ EXCEPT !.localId = m_deviceIndex], DefaultRate)]
    /\ m_deviceIndex' = m_deviceIndex + 1
    /\ UNCHANGED <<packet, received, failed, calls, writes>>

(* SampleRate is read-only to clients.  propertyChanged stops (nothing: the *)
(* device is never marked started), reads the rate and configures again.    *)
PropertyChanged(t, x) ==
    /\ adding[t] # "new" /\ writes < MaxWrites
    /\ mtig' = [mtig EXCEPT ![t] = Configured(@, x)]
    /\ writes' = writes + 1
    /\ UNCHANGED <<m_deviceIndex, adding, packet, received, failed, calls>>

(* addData: a packet with the domain of the device and the channel's data.  *)
AddData(t, n) ==
    /\ calls[t] < MaxPackets
    /\ Goto(t, "idle", "send")
    /\ calls' = [calls EXCEPT ![t] = @ + 1]
    /\ packet' = [packet EXCEPT ![t] =
                    [call |-> calls[t], offset |-> mtig[t].captured, count |-> n, receivers |-> 0]]
    /\ UNCHANGED <<m_deviceIndex, mtig, received, failed, writes>>

(* sendPacket: the next receiver gets the packet.                           *)
Deliver(t) ==
    /\ adding[t] = "send"
    /\ packet[t].receivers < Receivers
    /\ LET r == packet[t].receivers + 1
       IN  /\ packet' = [packet EXCEPT ![t].receivers = r]
           /\ received' = [received EXCEPT ![t][r] = Append(@, packet'[t])]
    /\ UNCHANGED <<m_deviceIndex, mtig, adding, failed, calls, writes>>

(* It throws out of addData, which logs, rethrows, and has counted nothing. *)
ReceiverThrows(t) ==
    /\ MayFail
    /\ packet[t].receivers > 0
    /\ Goto(t, "send", "idle")
    /\ failed' = [failed EXCEPT ![t] = @ \cup {packet[t].call}]
    /\ packet' = [packet EXCEPT ![t] = NoPacket]
    /\ UNCHANGED <<m_deviceIndex, mtig, received, calls, writes>>

(* Mutant of CountSamples: one is left out.                                 *)
CountAllButOne(t) == mtig' = [mtig EXCEPT ![t].captured = @ + packet[t].count - 1]

CountSamples(t) == mtig' = [mtig EXCEPT ![t].captured = @ + packet[t].count]

Sent(t) ==
    /\ packet[t].receivers = Receivers
    /\ Goto(t, "send", "idle")
    /\ CountSamples(t)
    /\ packet' = [packet EXCEPT ![t] = NoPacket]
    /\ UNCHANGED <<m_deviceIndex, received, failed, calls, writes>>

DriverStep(t) ==
    \/ CreateDevice(t)
    \/ \E n \in Counts : AddData(t, n)
    \/ Deliver(t)
    \/ ReceiverThrows(t)
    \/ Sent(t)

Next == \E t \in Drivers : DriverStep(t) \/ \E x \in Rates : PropertyChanged(t, x)

Spec == Init /\ [][Next]_mvars

-----------------------------------------------------------------------------
(* Properties                                                              *)

(* The samples of a packet that its device counted: none if a receiver threw.*)
Counted(t, p) == IF p.call \in failed[t] THEN 0 ELSE p.count

(* To every receiver the samples of a device are contiguous in time: the    *)
(* first packet starts at zero and each next one where the last one ended,  *)
(* except that the time of a call in which a receiver threw is given to the *)
(* next call's samples too.                                                 *)
TimesContiguous ==
    \A t \in Drivers, r \in 1..Receivers : \A k \in DOMAIN received[t][r] :
        LET this == received[t][r][k]
            last == received[t][r][k - 1]
        IN  this.offset = IF k = 1 THEN 0 ELSE last.offset + Counted(t, last)
=============================================================================
