---------------------------- MODULE RecorderApp ----------------------------
(***************************************************************************)
(* The program advanced_recorder_test: one thread, main, is the only user  *)
(* of an advanced recorder; it connects three signals of a reference       *)
(* device, records for a second and returns.  The device's threads send    *)
(* packets all the while.  An exception main does not catch terminates the *)
(* process.                                                                *)
(***************************************************************************)
EXTENDS AdvancedRecorder

CONSTANTS
    Main,           \* the user that main is
    AI0, AI1, CAN,  \* the signals it connects
    NoName,         \* the file name a recorder starts with
    TestFile        \* <current directory>/test.sie

(* Main is alone, with these signals and files.                             *)
RecorderAppConstants ==
    /\ Users = {Main}
    /\ Sources = {AI0, AI1, CAN}
    /\ Files = {NoName, TestFile}
    /\ MaxPorts > 3

VARIABLE main       \* where main is, and the port it comes to

rvars == <<vars, main>>

Wanted == <<AI0, AI1, CAN>>

At(step) == main.at = step
Goto(step) == main' = [main EXCEPT !.at = step]

AppInit ==
    /\ Init
    /\ filename = NoName
    /\ main = [at |-> "start", port |-> 1]

(* Without the module of the reference device there is no configuration to  *)
(* set EnableCANChannel in, which throws.                                   *)
Discover ==
    /\ At("start")
    /\ Goto("device") \/ Goto("terminated")
    /\ UNCHANGED vars

NameFile ==
    /\ At("device")
    /\ SetFilename(Main, TestFile)
    /\ Goto("connect")

(* getInputPorts(Value<k>)[0] exists; otherwise taking it would throw, which *)
(* NeverWithoutPort shows does not happen.                                  *)
HasPort == main.port <= portCount

ConnectNext ==
    /\ At("connect") /\ main.port \in DOMAIN Wanted /\ HasPort
    /\ Connect(Main, main.port, Wanted[main.port])
    /\ Goto("connecting")

(* connect() calls onConnected before it returns.                           *)
ConnectReturns ==
    /\ At("connecting")
    /\ OnConnected(Main)
    /\ main' = [at |-> "connect", port |-> main.port + 1]

(* No connected port has a signal object iff reconfigure has thrown.        *)
StartThrew == \A p \in Ports : signals'[p] = NoSignal

Start ==
    /\ At("connect") /\ main.port \notin DOMAIN Wanted
    /\ StartRecording(Main)
    /\ Goto(IF StartThrew THEN "terminated" ELSE "recording")

(* ... after a second.                                                      *)
Stop ==
    /\ At("recording")
    /\ StopRecording(Main)
    /\ Goto("stopped")

Return ==
    /\ At("stopped")
    /\ Goto("done")
    /\ UNCHANGED vars

MainStep ==
    \/ Discover \/ NameFile
    \/ ConnectNext \/ ConnectReturns
    \/ Start \/ Stop \/ Return

(* The device's threads, until the device is destroyed with the instance;   *)
(* what has begun by then is completed.                                     *)
BeginPacket(s) == ~At("done") /\ \E p \in Ports : FindSignal(s, p)
EndPacket(s) == GetConnection(s) \/ QueueEmpty(s)

DeviceStep(s) ==
    /\ ~At("terminated")
    /\ BeginPacket(s) \/ EndPacket(s) \/ DeliverPacket(s)
    /\ UNCHANGED main

AppNext == MainStep \/ \E s \in Senders : DeviceStep(s)

(* Main goes on, and a thread that empties a queue comes to its end: one    *)
(* second of data is finite.                                                *)
AppSpec ==
    /\ AppInit /\ [][AppNext]_rvars
    /\ WF_rvars(MainStep)
    /\ \A s \in Senders : WF_rvars(~At("terminated") /\ EndPacket(s) /\ UNCHANGED main)

-----------------------------------------------------------------------------
(* Properties                                                              *)

(* advanced_recorder_test.cpp, 66-76: each connection has made the recorder *)
(* add the port that the next [0] takes from the list of ports.  And while  *)
(* main sleeps, each of the three signals is recorded, all into the one     *)
(* file test.sie, whatever packets came while it was connected.             *)
RecordsAllThree ==
    /\ At("connect") => HasPort
    /\ At("recording") =>
           /\ \A k \in DOMAIN Wanted : signals[k] = [source |-> Wanted[k], writer |-> 1]
           /\ Len(opened) = 1 /\ opened[1].file = TestFile

(* A run ends with every file closed, so that its last index block is       *)
(* written, unless an exception terminates it.                              *)
EndsWithClosedFile ==
    <>[](At("terminated") \/ (At("done") /\ LiveWriters = {}))
=============================================================================
