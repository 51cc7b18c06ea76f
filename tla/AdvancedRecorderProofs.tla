----------------------- MODULE AdvancedRecorderProofs -----------------------
(* Theorems about AdvancedRecorder, for any users, senders, signals, files  *)
(* and bounds, with failures of the file allowed; and about the program     *)
(* that uses it, for any threads of its device.                             *)
EXTENDS AdvancedRecorderHistory, RecorderApp, SequenceTheorems, TLAPS

UserStates == [step : {"idle", "connected", "disconnected", "trimming", "removing"},
               port : Ports]
SenderStates == [step : {"idle", "found", "dequeue"}, port : Ports, signal : SignalObjects]
WriterObjects == [file : Files, data : BOOLEAN]

LEMMA AppendType ==
    ASSUME NEW S, NEW s \in Seq(S), NEW e \in S
    PROVE  /\ Append(s, e) \in Seq(S)
           /\ Len(Append(s, e)) = Len(s) + 1
  OBVIOUS

(* What recording, and with it the length of `opened', looks like.          *)
TypeInv == TypeOK /\ Len(opened) <= MaxWriters /\ writer <= Len(opened)

(* A user whose disconnect callback runs has the lock, and no port is        *)
(* removed but the ones above the first.                                    *)
LockInv ==
    \A u \in Users :
        /\ user[u].step \in {"trimming", "removing"} => lock = u
        /\ user[u].step = "removing" => portCount >= 2

RecordingTypes ==
    /\ writer \in 0..MaxWriters /\ writer <= Len(opened) /\ Len(opened) <= MaxWriters
    /\ opened \in Seq(WriterObjects)
    /\ signals \in [Ports -> SignalObjects]

LEMMA NoSignalType == NoSignal \in SignalObjects
  BY AdvancedRecorderAssumption DEF NoSignal, SignalObjects, NoWriter

LEMMA RefreshType ==
    ASSUME TypeInv, NEW w \in 0..MaxWriters, NEW n \in Nat, Refresh(w, n)
    PROVE  signals' \in [Ports -> SignalObjects]
  <1>1. ASSUME NEW p \in Ports
        PROVE  [source |-> connection[p], writer |-> w] \in SignalObjects
    BY DEF TypeInv, TypeOK, SignalObjects
  <1> QED
    BY <1>1, NoSignalType DEF Refresh, TypeInv, TypeOK

LEMMA ReconfigureType ==
    ASSUME TypeInv, NEW active \in BOOLEAN, NEW f \in Files, NEW n \in Nat,
           Reconfigure(active, f, n)
    PROVE  RecordingTypes'
  <1> USE AdvancedRecorderAssumption
  <1>0. Len(opened) \in Nat /\ opened \in Seq(WriterObjects)
    BY DEF TypeInv, TypeOK, WriterObjects
  <1>1. CASE StopAll
    <2>1. signals' \in [Ports -> SignalObjects]
      BY <1>1, NoSignalType DEF StopAll
    <2> QED
      BY <1>0, <1>1, <2>1 DEF StopAll, RecordingTypes, TypeInv, NoWriter
  <1>2. CASE KeepWriter(n)
    <2>1. signals' \in [Ports -> SignalObjects]
      BY <1>2, RefreshType DEF KeepWriter, TypeInv, TypeOK
    <2> QED
      BY <1>0, <1>2, <2>1 DEF KeepWriter, RecordingTypes, TypeInv, TypeOK
  <1>3. ASSUME Len(opened) < MaxWriters,
               opened' = Append(opened, NewWriter(f)), writer' = Len(opened')
        PROVE  /\ writer' \in 0..MaxWriters /\ writer' <= Len(opened') /\ Len(opened') <= MaxWriters
               /\ opened' \in Seq(WriterObjects)
    <2>1. NewWriter(f) \in WriterObjects
      BY DEF NewWriter, WriterObjects
    <2>2. opened' \in Seq(WriterObjects) /\ Len(opened') = Len(opened) + 1
      BY <1>0, <1>3, <2>1, AppendType
    <2> QED
      BY <1>0, <1>3, <2>2
  <1>4. CASE OpenWriter(f, n)
    <2>1. /\ writer' \in 0..MaxWriters /\ writer' <= Len(opened') /\ Len(opened') <= MaxWriters
          /\ opened' \in Seq(WriterObjects)
      BY <1>3, <1>4 DEF OpenWriter
    <2>2. signals' \in [Ports -> SignalObjects]
      BY <1>4, <2>1, RefreshType DEF OpenWriter
    <2> QED
      BY <2>1, <2>2 DEF RecordingTypes
  <1>5. CASE OpenFails
    BY <1>0, <1>5 DEF OpenFails, recording, RecordingTypes, TypeInv, TypeOK
  <1>6. CASE PreambleFails(f)
    <2>1. /\ writer' \in 0..MaxWriters /\ writer' <= Len(opened') /\ Len(opened') <= MaxWriters
          /\ opened' \in Seq(WriterObjects)
      BY <1>3, <1>6 DEF PreambleFails
    <2> QED
      BY <1>6, <2>1 DEF PreambleFails, RecordingTypes, TypeInv, TypeOK
  <1> QED
    BY <1>1, <1>2, <1>4, <1>5, <1>6 DEF Reconfigure

LEMMA TypeInit == Init => TypeInv
  <1> SUFFICES ASSUME Init PROVE TypeInv
    OBVIOUS
  <1> USE AdvancedRecorderAssumption
  <1>1. 1 \in Ports
    BY DEF Ports
  <1>2. AtRest \in UserStates /\ Quiet \in SenderStates
    BY <1>1, NoSignalType DEF AtRest, Quiet, UserStates, SenderStates
  <1>3. opened \in Seq(WriterObjects) /\ Len(opened) = 0
    BY EmptySeq DEF Init
  <1>4. user \in [Users -> UserStates] /\ sender \in [Senders -> SenderStates]
    BY <1>2 DEF Init
  <1>5. signals \in [Ports -> SignalObjects] /\ connection \in [Ports -> Sources \cup {NoSource}]
    BY NoSignalType DEF Init
  <1>6. writer \in 0..MaxWriters /\ writer <= Len(opened) /\ Len(opened) <= MaxWriters
    BY <1>3 DEF Init, NoWriter
  <1>7. portCount \in Ports /\ filename \in Files /\ lock \in Users \cup {Nobody}
    BY <1>1 DEF Init
  <1>8. recordingActive \in BOOLEAN
    BY DEF Init
  <1> QED
    BY <1>3, <1>4, <1>5, <1>6, <1>7, <1>8
       DEF TypeInv, TypeOK, UserStates, SenderStates, WriterObjects

LEMMA TypeNext == TypeInv /\ LockInv /\ [Next]_vars => TypeInv'
  <1> SUFFICES ASSUME TypeInv, LockInv, [Next]_vars PROVE TypeInv'
    OBVIOUS
  <1> USE AdvancedRecorderAssumption
  <1>0. /\ portCount \in Ports /\ portCount \in Nat /\ filename \in Files
        /\ recordingActive \in BOOLEAN /\ AtRest \in UserStates /\ Quiet \in SenderStates
    BY NoSignalType DEF TypeInv, TypeOK, Ports, AtRest, Quiet, UserStates, SenderStates
  <1>r. RecordingTypes /\ user \in [Users -> UserStates] /\ sender \in [Senders -> SenderStates]
    BY DEF RecordingTypes, TypeInv, TypeOK, UserStates, SenderStates, WriterObjects
  <1>q. ASSUME portCount' \in Ports, connection' \in [Ports -> Sources \cup {NoSource}],
               recordingActive' \in BOOLEAN, filename' \in Files, RecordingTypes',
               lock' \in Users \cup {Nobody}, user' \in [Users -> UserStates],
               sender' \in [Senders -> SenderStates]
        PROVE  TypeInv'
    BY <1>q DEF TypeInv, TypeOK, RecordingTypes, UserStates, SenderStates, WriterObjects
  <1>1. ASSUME NEW u \in Users, StartRecording(u) \/ StopRecording(u) PROVE TypeInv'
    <2>1. RecordingTypes'
      BY <1>0, <1>1, ReconfigureType DEF StartRecording, StopRecording
    <2>2. recordingActive' \in BOOLEAN
      BY <1>1 DEF StartRecording, StopRecording
    <2> QED
      BY <1>1, <1>q, <1>r, <2>1, <2>2 DEF StartRecording, StopRecording, ports, TypeInv, TypeOK
  <1>2. ASSUME NEW u \in Users, NEW f \in Files, SetFilename(u, f) PROVE TypeInv'
    <2>1. RecordingTypes'
      BY <1>0, <1>2, ReconfigureType DEF SetFilename
    <2> QED
      BY <1>2, <1>q, <1>r, <2>1 DEF SetFilename, ports, TypeInv, TypeOK
  <1>3. ASSUME NEW u \in Users, NEW p \in Ports, NEW src \in Sources, Connect(u, p, src) PROVE TypeInv'
    <2>1. [step |-> "connected", port |-> p] \in UserStates
      BY DEF UserStates
    <2>2. user' \in [Users -> UserStates]
      BY <1>3, <1>r, <2>1 DEF Connect
    <2>3. connection' \in [Ports -> Sources \cup {NoSource}]
      BY <1>3 DEF Connect, TypeInv, TypeOK
    <2> QED
      BY <1>3, <1>q, <1>r, <2>2, <2>3 DEF Connect, config, recording, RecordingTypes, TypeInv, TypeOK
  <1>4. ASSUME NEW u \in Users, OnConnected(u) PROVE TypeInv'
    <2>1. portCount' \in Ports /\ portCount' \in Nat
      BY <1>0, <1>4 DEF OnConnected, Ports
    <2>2. RecordingTypes'
      BY <1>0, <1>4, <2>1, ReconfigureType DEF OnConnected
    <2>3. user' \in [Users -> UserStates]
      BY <1>0, <1>4, <1>r DEF OnConnected
    <2> QED
      BY <1>4, <1>q, <1>r, <2>1, <2>2, <2>3 DEF OnConnected, config, TypeInv, TypeOK
  <1>5. ASSUME NEW u \in Users, NEW p \in Ports, Disconnect(u, p) PROVE TypeInv'
    <2>1. [step |-> "disconnected", port |-> p] \in UserStates
      BY DEF UserStates
    <2>2. user' \in [Users -> UserStates]
      BY <1>5, <1>r, <2>1 DEF Disconnect
    <2>3. connection' \in [Ports -> Sources \cup {NoSource}]
      BY <1>5 DEF Disconnect, TypeInv, TypeOK
    <2> QED
      BY <1>5, <1>q, <1>r, <2>2, <2>3 DEF Disconnect, config, recording, RecordingTypes, TypeInv, TypeOK
  <1>6. ASSUME NEW u \in Users, OnDisconnected(u) \/ CheckPorts(u) PROVE TypeInv'
    <2>1. user' \in [Users -> UserStates]
      BY <1>6, <1>r DEF OnDisconnected, CheckPorts, UserStates
    <2> QED
      BY <1>6, <1>q, <1>r, <2>1 DEF OnDisconnected, CheckPorts, ports, config, recording, RecordingTypes, TypeInv, TypeOK
  <1>7. ASSUME NEW u \in Users, RemoveInputPort(u) PROVE TypeInv'
    <2>1. portCount' \in Ports
      BY <1>0, <1>7 DEF RemoveInputPort, LockInv, Ports
    <2>2. user' \in [Users -> UserStates]
      BY <1>7, <1>r DEF RemoveInputPort, UserStates
    <2>3. connection' \in [Ports -> Sources \cup {NoSource}]
      BY <1>7 DEF RemoveInputPort, TypeInv, TypeOK
    <2> QED
      BY <1>7, <1>q, <1>r, <2>1, <2>2, <2>3
         DEF RemoveInputPort, config, recording, RecordingTypes, TypeInv, TypeOK
  <1>8. ASSUME NEW u \in Users, OnDisconnectedEnds(u) PROVE TypeInv'
    <2>1. RecordingTypes'
      BY <1>0, <1>8, ReconfigureType DEF OnDisconnectedEnds
    <2>2. user' \in [Users -> UserStates]
      BY <1>0, <1>8, <1>r DEF OnDisconnectedEnds
    <2> QED
      BY <1>8, <1>q, <1>r, <2>1, <2>2 DEF OnDisconnectedEnds, ports, config, TypeInv, TypeOK
  <1>9. ASSUME NEW s \in Senders, NEW p \in Ports, FindSignal(s, p) PROVE TypeInv'
    <2>1. [step |-> "found", port |-> p, signal |-> signals[p]] \in SenderStates
      BY <1>r DEF SenderStates, RecordingTypes
    <2>2. sender' \in [Senders -> SenderStates]
      BY <1>9, <1>r, <2>1 DEF FindSignal
    <2> QED
      BY <1>9, <1>q, <1>r, <2>2 DEF FindSignal, ports, config, recording, RecordingTypes, TypeInv, TypeOK
  <1>10. ASSUME NEW s \in Senders, GetConnection(s) \/ QueueEmpty(s) PROVE TypeInv'
    <2>1. [sender[s] EXCEPT !.step = "dequeue"] \in SenderStates
      BY <1>r DEF SenderStates
    <2>2. sender' \in [Senders -> SenderStates]
      BY <1>0, <1>10, <1>r, <2>1 DEF GetConnection, QueueEmpty
    <2> QED
      BY <1>10, <1>q, <1>r, <2>2
         DEF GetConnection, QueueEmpty, ports, config, recording, RecordingTypes, TypeInv, TypeOK
  <1>11. ASSUME NEW s \in Senders, DeliverPacket(s) PROVE TypeInv'
    <2>1. opened' \in Seq(WriterObjects) /\ Len(opened') = Len(opened)
      <3> DEFINE w == sender[s].signal.writer
                 wobj == [opened[w] EXCEPT !.data = TRUE]
      <3>1. opened' = [opened EXCEPT ![w] = wobj]
        BY <1>11 DEF DeliverPacket
      <3>2. opened \in Seq(WriterObjects) /\ DOMAIN opened = 1..Len(opened)
        BY <1>r DEF RecordingTypes
      <3>3. CASE w \in 1..Len(opened)
        <4>1. opened[w] \in WriterObjects
          BY <3>2, <3>3, ElementOfSeq
        <4>2. wobj \in WriterObjects
          BY <4>1 DEF WriterObjects
        <4> HIDE DEF wobj, w
        <4> QED
          BY <3>1, <3>2, <3>3, <4>2, ExceptSeq
      <3>4. CASE w \notin 1..Len(opened)
        <4> HIDE DEF wobj, w
        <4>1. opened' = opened
          BY <3>1, <3>2, <3>4
        <4> QED
          BY <3>2, <4>1
      <3> QED
        BY <3>3, <3>4
    <2> QED
      BY <1>11, <1>q, <1>r, <2>1 DEF DeliverPacket, ports, config, RecordingTypes, TypeInv, TypeOK
  <1>12. CASE UNCHANGED vars
    BY <1>12 DEF vars, TypeInv, TypeOK
  <1> QED
    BY <1>1, <1>2, <1>3, <1>4, <1>5, <1>6, <1>7, <1>8, <1>9, <1>10, <1>11, <1>12
       DEF Next, UserStep, SenderStep

LEMMA LockInit == Init => LockInv
  <1> SUFFICES ASSUME Init PROVE LockInv
    OBVIOUS
  <1>1. \A u \in Users : user[u].step = "idle"
    BY DEF Init, AtRest
  <1> QED
    BY <1>1 DEF LockInv

LEMMA LockNext == TypeInv /\ LockInv /\ [Next]_vars => LockInv'
  <1> SUFFICES ASSUME TypeInv, LockInv, [Next]_vars PROVE LockInv'
    OBVIOUS
  <1> USE AdvancedRecorderAssumption DEF LockInv
  <1>0. user \in [Users -> UserStates] /\ portCount \in Nat
    BY DEF TypeInv, TypeOK, UserStates, Ports
  <1>1. ASSUME NEW u \in Users, OnDisconnected(u) PROVE LockInv'
    <2>1. \A v \in Users : user[v].step \notin {"trimming", "removing"}
      BY <1>1 DEF OnDisconnected, LockFree
    <2>2. /\ lock' = u /\ user'[u].step = "trimming"
          /\ \A v \in Users : v # u => user'[v] = user[v]
      BY <1>0, <1>1 DEF OnDisconnected, UserStates
    <2> QED
      BY <2>1, <2>2
  <1>2. ASSUME NEW u \in Users, CheckPorts(u) \/ RemoveInputPort(u) PROVE LockInv'
    <2>1. /\ lock = u /\ lock' = u
          /\ \A v \in Users : v # u => user[v].step \notin {"trimming", "removing"}
      BY <1>2 DEF CheckPorts, RemoveInputPort
    <2>2. \A v \in Users : v # u => user'[v] = user[v]
      BY <1>0, <1>2 DEF CheckPorts, RemoveInputPort
    <2>3. user'[u].step = "removing" => portCount' >= 2
      BY <1>0, <1>2 DEF CheckPorts, RemoveInputPort, Removable, UserStates, ports
    <2> QED
      BY <2>1, <2>2, <2>3
  <1>3. ASSUME NEW u \in Users, OnDisconnectedEnds(u) PROVE LockInv'
    <2>1. \A v \in Users : v # u => user[v].step \notin {"trimming", "removing"}
      BY <1>3 DEF OnDisconnectedEnds
    <2>2. \A v \in Users : IF v = u THEN user'[v] = AtRest ELSE user'[v] = user[v]
      BY <1>0, <1>3 DEF OnDisconnectedEnds
    <2> QED
      BY <2>1, <2>2 DEF AtRest
  <1>4. ASSUME NEW u \in Users,
               \/ OnConnected(u)
               \/ \E p \in Ports : Disconnect(u, p) \/ \E src \in Sources : Connect(u, p, src)
        PROVE  LockInv'
    BY <1>0, <1>4 DEF OnConnected, Connect, Disconnect, LockFree, UserIdle, AtRest
  <1>5. ASSUME UNCHANGED <<portCount, lock, user>>
        PROVE  LockInv'
    BY <1>5
  <1>6. ASSUME NEW u \in Users,
               StartRecording(u) \/ StopRecording(u) \/ \E f \in Files : SetFilename(u, f)
        PROVE  LockInv'
    BY <1>5, <1>6 DEF StartRecording, StopRecording, SetFilename, ports
  <1>7. ASSUME NEW s \in Senders, SenderStep(s)
        PROVE  LockInv'
    BY <1>5, <1>7 DEF SenderStep, FindSignal, GetConnection, DeliverPacket, QueueEmpty, ports
  <1> QED
    BY <1>1, <1>2, <1>3, <1>4, <1>5, <1>6, <1>7 DEF Next, UserStep, vars

(* Every variable of the recorder keeps its type.                          *)
THEOREM TypeCorrect == Spec => []TypeOK
  <1>1. TypeInv => TypeOK
    BY DEF TypeInv
  <1> QED
    BY <1>1, TypeInit, TypeNext, LockInit, LockNext, PTL DEF Spec

-----------------------------------------------------------------------------
(* The last port                                                           *)

(* Ports that do not exist (yet, or any more) are not connected.            *)
NoStrayConnection == \A p \in Ports : p > portCount => ~Connected(p)

(* While the last port is removed, the one before it is free, unless it was *)
(* connected since it was checked.                                          *)
RemovalLeavesFree ==
    \A u \in Users : user[u].step = "removing" /\ Connected(portCount - 1) =>
        \E v \in Users : user[v].step = "connected"

PortInv == LastPortFree /\ NoStrayConnection /\ RemovalLeavesFree

LEMMA PortInit == Init => PortInv
  <1> SUFFICES ASSUME Init PROVE PortInv
    OBVIOUS
  <1>1. 1 \in Ports
    BY AdvancedRecorderAssumption DEF Ports
  <1> QED
    BY <1>1 DEF Init, PortInv, LastPortFree, NoStrayConnection, RemovalLeavesFree, Connected, AtRest

LEMMA PortNext == TypeInv /\ LockInv /\ PortInv /\ [Next]_vars => PortInv'
  <1> SUFFICES ASSUME TypeInv, LockInv, PortInv, [Next]_vars PROVE PortInv'
    OBVIOUS
  <1> USE AdvancedRecorderAssumption
      DEF LastPortFree, NoStrayConnection, RemovalLeavesFree, Connected
  <1>0. /\ portCount \in Ports /\ connection \in [Ports -> Sources \cup {NoSource}]
        /\ user \in [Users -> UserStates]
        /\ Ports \subseteq Int
    BY DEF TypeInv, TypeOK, UserStates, Ports
  <1>1. ASSUME NEW u \in Users, NEW p \in Ports, NEW src \in Sources, Connect(u, p, src)
        PROVE  PortInv'
    <2>1. user'[u].step = "connected" /\ portCount' = portCount
      BY <1>0, <1>1 DEF Connect
    <2>2. NoStrayConnection'
      BY <1>0, <1>1 DEF Connect, PortInv
    <2> QED
      BY <2>1, <2>2 DEF PortInv
  <1>2. ASSUME NEW u \in Users, OnConnected(u)
        PROVE  PortInv'
    <2>1. portCount' = portCount + 1 /\ connection' = connection /\ portCount' \in Ports
      BY <1>0, <1>2 DEF OnConnected, Ports
    <2>2. NoStrayConnection' /\ LastPortFree'
      BY <1>0, <2>1 DEF PortInv, Ports
    <2>3. \A v \in Users : user'[v].step # "removing"
      BY <1>0, <1>2 DEF OnConnected, LockFree, LockInv, AtRest
    <2> QED
      BY <2>2, <2>3 DEF PortInv
  <1>3. ASSUME portCount' = portCount,
               \A q \in Ports : connection'[q] # NoSource => connection[q] # NoSource,
               \A v \in Users : /\ user[v].step = "connected" => user'[v].step = "connected"
                                /\ user'[v].step = "removing" => user[v].step = "removing"
        PROVE  PortInv'
    <2>1. LastPortFree' /\ NoStrayConnection'
      BY <1>0, <1>3 DEF PortInv
    <2>2. ASSUME NEW v \in Users, user'[v].step = "removing"
          PROVE  portCount - 1 \in Ports
      BY <1>0, <1>3, <2>2 DEF LockInv, Ports
    <2>3. RemovalLeavesFree'
      BY <1>3, <2>2 DEF PortInv
    <2> QED
      BY <2>1, <2>3 DEF PortInv
  <1>4. ASSUME NEW u \in Users, NEW p \in Ports, Disconnect(u, p)
        PROVE  PortInv'
    <2>1. \A q \in Ports : connection'[q] # NoSource => connection[q] # NoSource
      BY <1>0, <1>4 DEF Disconnect
    <2>2. \A v \in Users : /\ user[v].step = "connected" => user'[v].step = "connected"
                           /\ user'[v].step = "removing" => user[v].step = "removing"
      BY <1>0, <1>4 DEF Disconnect, UserIdle
    <2> QED
      BY <1>3, <1>4, <2>1, <2>2 DEF Disconnect
  <1>5. ASSUME NEW u \in Users, OnDisconnected(u) \/ OnDisconnectedEnds(u)
        PROVE  PortInv'
    <2>1. UNCHANGED ports
      BY <1>5 DEF OnDisconnected, OnDisconnectedEnds
    <2>2. \A v \in Users : /\ user[v].step = "connected" => user'[v].step = "connected"
                           /\ user'[v].step = "removing" => user[v].step = "removing"
      <3>1. /\ user[u].step # "connected" /\ user'[u].step # "removing"
            /\ \A v \in Users : v # u => user'[v] = user[v]
        <4>1. CASE OnDisconnected(u)
          BY <1>0, <4>1 DEF OnDisconnected, UserStates
        <4>2. CASE OnDisconnectedEnds(u)
          BY <1>0, <4>2 DEF OnDisconnectedEnds, AtRest
        <4> QED
          BY <1>5, <4>1, <4>2
      <3> QED
        BY <3>1
    <2> QED
      BY <1>3, <2>1, <2>2 DEF ports
  <1>6. ASSUME NEW u \in Users, CheckPorts(u)
        PROVE  PortInv'
    <2>1. UNCHANGED ports /\ ~Connected(portCount) /\ ~Connected(portCount - 1)
      BY <1>6 DEF CheckPorts, Removable
    <2> QED
      BY <1>0, <2>1 DEF ports, PortInv
  <1>7. ASSUME NEW u \in Users, RemoveInputPort(u)
        PROVE  PortInv'
    <2>1. /\ portCount' = portCount - 1
          /\ connection' = [connection EXCEPT ![portCount] = NoSource]
      BY <1>7 DEF RemoveInputPort
    <2>2. \A v \in Users : user[v].step = "connected" => user'[v].step = "connected"
      BY <1>0, <1>7 DEF RemoveInputPort
    <2>3. \A v \in Users : user'[v].step # "removing"
      BY <1>0, <1>7 DEF RemoveInputPort, LockInv
    <2>4. LastPortFree'
      BY <1>0, <1>7, <2>1, <2>2 DEF RemoveInputPort, LockInv, PortInv, Ports
    <2>5. NoStrayConnection'
      BY <1>0, <2>1 DEF PortInv, Ports
    <2> QED
      BY <2>3, <2>4, <2>5 DEF PortInv
  <1>8. ASSUME UNCHANGED ports, UNCHANGED user
        PROVE  PortInv'
    BY <1>8 DEF ports, PortInv
  <1>9. ASSUME NEW u \in Users,
               StartRecording(u) \/ StopRecording(u) \/ \E f \in Files : SetFilename(u, f)
        PROVE  PortInv'
    BY <1>8, <1>9 DEF StartRecording, StopRecording, SetFilename
  <1>10. ASSUME NEW s \in Senders, SenderStep(s)
         PROVE  PortInv'
    BY <1>8, <1>10 DEF SenderStep, FindSignal, GetConnection, DeliverPacket, QueueEmpty
  <1> QED
    BY <1>1, <1>2, <1>4, <1>5, <1>6, <1>7, <1>8, <1>9, <1>10 DEF Next, UserStep, vars, ports

(* However many users connect and disconnect however many signals,          *)
(* concurrently: the last input port is free, unless the callback that adds *)
(* the next port is still due.                                              *)
THEOREM LastPortIsFree == Spec => []LastPortFree
  <1>1. PortInv => LastPortFree
    BY DEF PortInv
  <1> QED
    BY <1>1, PortInit, PortNext, TypeInit, TypeNext, LockInit, LockNext, PTL DEF Spec

-----------------------------------------------------------------------------
(* The lifetime of writers                                                 *)

WriterInv ==
    /\ ~recordingActive => writer = NoWriter
    /\ SignalsUseCurrentWriter
    /\ \A s \in Senders : sender[s].step = "idle" => sender[s].signal = NoSignal

LEMMA WriterInit == Init => WriterInv
  BY DEF Init, WriterInv, SignalsUseCurrentWriter, Quiet

(* reconfigure leaves the signal objects with the current writer.           *)
LEMMA ReconfigureWriter ==
    ASSUME TypeInv, SignalsUseCurrentWriter, NEW active \in BOOLEAN, NEW f, NEW n \in Nat,
           Reconfigure(active, f, n)
    PROVE  SignalsUseCurrentWriter' /\ (~active => writer' = NoWriter)
  <1>0. writer \in Nat /\ Len(opened) \in Nat /\ opened \in Seq(WriterObjects)
    BY DEF TypeInv, TypeOK, WriterObjects
  <1>1. ASSUME opened' = Append(opened, NewWriter(f)), writer' = Len(opened')
        PROVE  writer' # NoWriter
    BY <1>0, <1>1 DEF NoWriter
  <1>2. CASE StopAll
    BY <1>2 DEF StopAll, SignalsUseCurrentWriter
  <1>3. CASE active /\ KeepWriter(n)
    BY <1>3 DEF KeepWriter, Refresh, SignalsUseCurrentWriter
  <1>4. CASE active /\ OpenWriter(f, n)
    <2>1. writer' # NoWriter
      BY <1>1, <1>4 DEF OpenWriter
    <2>2. \A p \in Ports : signals[p] = NoSignal
      BY <1>4 DEF OpenWriter, SignalsUseCurrentWriter
    <2> QED
      BY <1>4, <2>1, <2>2 DEF OpenWriter, Refresh, SignalsUseCurrentWriter
  <1>5. CASE active /\ OpenFails
    BY <1>5 DEF OpenFails, recording, SignalsUseCurrentWriter
  <1>6. CASE active /\ PreambleFails(f)
    BY <1>6 DEF PreambleFails, SignalsUseCurrentWriter
  <1> QED
    BY <1>2, <1>3, <1>4, <1>5, <1>6 DEF Reconfigure

LEMMA WriterNext == TypeInv /\ WriterInv /\ [Next]_vars => WriterInv'
  <1> SUFFICES ASSUME TypeInv, WriterInv, [Next]_vars PROVE WriterInv'
    OBVIOUS
  <1>0. /\ portCount \in Nat /\ recordingActive \in BOOLEAN /\ SignalsUseCurrentWriter
        /\ sender \in [Senders -> SenderStates]
    BY DEF TypeInv, TypeOK, WriterInv, Ports, SenderStates
  <1>1. ASSUME NEW active \in BOOLEAN, NEW f, NEW n \in Nat, Reconfigure(active, f, n),
               recordingActive' = active, sender' = sender
        PROVE  WriterInv'
    BY <1>0, <1>1, ReconfigureWriter DEF WriterInv
  <1>2. ASSUME NEW u \in Users,
               \/ StartRecording(u) \/ StopRecording(u) \/ OnDisconnectedEnds(u)
               \/ \E f \in Files : SetFilename(u, f)
        PROVE  WriterInv'
    BY <1>0, <1>1, <1>2 DEF StartRecording, StopRecording, SetFilename, OnDisconnectedEnds, config
  <1>3. ASSUME NEW u \in Users, OnConnected(u) PROVE WriterInv'
    BY <1>0, <1>1, <1>3 DEF OnConnected, config
  <1>4. ASSUME UNCHANGED recordingActive, UNCHANGED writer, UNCHANGED signals,
               \A s \in Senders : sender'[s].step = "idle" =>
                  sender'[s] = Quiet \/ sender'[s] = sender[s]
        PROVE  WriterInv'
    BY <1>4 DEF WriterInv, SignalsUseCurrentWriter, Quiet
  <1>5. ASSUME NEW u \in Users,
               \/ OnDisconnected(u) \/ CheckPorts(u) \/ RemoveInputPort(u)
               \/ \E p \in Ports : Disconnect(u, p) \/ \E src \in Sources : Connect(u, p, src)
        PROVE  WriterInv'
    BY <1>4, <1>5 DEF Connect, Disconnect, OnDisconnected, CheckPorts, RemoveInputPort,
                           config, recording
  <1>6. ASSUME NEW s \in Senders, SenderStep(s) PROVE WriterInv'
    <2>1. UNCHANGED <<recordingActive, writer, signals>>
      BY <1>6 DEF SenderStep, FindSignal, GetConnection, DeliverPacket, QueueEmpty, config, recording
    <2>2. \A r \in Senders : sender'[r].step = "idle" =>
             sender'[r] = Quiet \/ sender'[r] = sender[r]
      BY <1>0, <1>6 DEF SenderStep, FindSignal, GetConnection, DeliverPacket, QueueEmpty, SenderStates
    <2> QED
      BY <1>4, <2>1, <2>2
  <1>7. CASE UNCHANGED vars
    BY <1>4, <1>7 DEF vars
  <1> QED
    BY <1>2, <1>3, <1>5, <1>6, <1>7 DEF Next, UserStep

(* Whatever the users do and whatever fails: all signal objects record into *)
(* the recorder's current writer.                                           *)
THEOREM OneWriterForAll == Spec => []SignalsUseCurrentWriter
  <1>1. WriterInv => SignalsUseCurrentWriter
    BY DEF WriterInv
  <1> QED
    BY <1>1, WriterInit, WriterNext, TypeInit, TypeNext, LockInit, LockNext, PTL DEF Spec

(* Whatever fails: once recording has stopped and the packets in flight are *)
(* through, nothing keeps a writer open.                                    *)
THEOREM StoppedFilesClose == Spec => []StoppedFileIsClosed
  <1>1. WriterInv => StoppedFileIsClosed
    <2> SUFFICES ASSUME WriterInv, ~recordingActive,
                        \A s \in Senders : sender[s].step = "idle"
                 PROVE  LiveWriters = {}
      BY DEF StoppedFileIsClosed
    <2>1. writer = NoWriter
      BY DEF WriterInv
    <2>2. \A p \in Ports : signals[p].writer = NoWriter
      BY <2>1 DEF WriterInv, SignalsUseCurrentWriter, NoSignal
    <2>3. \A s \in Senders : sender[s].signal.writer = NoWriter
      BY DEF WriterInv, NoSignal
    <2> QED
      BY <2>1, <2>2, <2>3 DEF LiveWriters
  <1> QED
    BY <1>1, WriterInit, WriterNext, TypeInit, TypeNext, LockInit, LockNext, PTL DEF Spec

-----------------------------------------------------------------------------
(* What a step may never do                                                 *)

(* The only writer that reconfigure brings up is one that it opens.         *)
LEMMA ReconfigureOpensNew ==
    ASSUME TypeInv, NEW active \in BOOLEAN, NEW f \in Files, NEW n \in Nat,
           Reconfigure(active, f, n), NEW w \in DOMAIN opened
    PROVE  /\ opened'[w] = opened[w]
           /\ writer' = w => writer = w
           /\ \A p \in Ports : signals'[p].writer = w => writer = w \/ signals[p].writer = w
  <1>0. opened \in Seq(WriterObjects) /\ Len(opened) \in Nat /\ w \in 1..Len(opened)
    BY LenProperties DEF TypeInv, TypeOK, WriterObjects
  <1>1. w # NoWriter /\ NoSignal.writer # w
    BY <1>0 DEF NoWriter, NoSignal
  <1>2. ASSUME opened' = Append(opened, NewWriter(f)), writer' = Len(opened')
        PROVE  opened'[w] = opened[w] /\ writer' # w
    <2>1. NewWriter(f) \in WriterObjects
      BY DEF NewWriter, WriterObjects
    <2>2. Len(opened') = Len(opened) + 1 /\ opened'[w] = opened[w]
      BY <1>0, <1>2, <2>1, AppendProperties
    <2> QED
      BY <1>0, <1>2, <2>2
  <1>3. CASE StopAll
    BY <1>1, <1>3 DEF StopAll
  <1>4. CASE KeepWriter(n)
    BY <1>1, <1>4 DEF KeepWriter, Refresh
  <1>5. CASE OpenWriter(f, n)
    BY <1>1, <1>2, <1>5 DEF OpenWriter, Refresh
  <1>6. CASE OpenFails
    BY <1>6 DEF OpenFails, recording
  <1>7. CASE PreambleFails(f)
    BY <1>2, <1>7 DEF PreambleFails
  <1> QED
    BY <1>3, <1>4, <1>5, <1>6, <1>7 DEF Reconfigure

LEMMA ClosedNext ==
    TypeInv /\ [Next]_vars =>
        \A w \in DOMAIN opened :
            w \notin LiveWriters => w \notin LiveWriters' /\ opened'[w] = opened[w]
  <1> SUFFICES ASSUME TypeInv, [Next]_vars, NEW w \in DOMAIN opened, w \notin LiveWriters
               PROVE  w \notin LiveWriters' /\ opened'[w] = opened[w]
    OBVIOUS
  <1>0. /\ opened \in Seq(WriterObjects) /\ w \in Nat /\ w # NoWriter
        /\ filename \in Files /\ recordingActive \in BOOLEAN /\ portCount \in Nat
        /\ sender \in [Senders -> SenderStates]
    BY LenProperties DEF TypeInv, TypeOK, WriterObjects, NoWriter, Ports, SenderStates
  <1>1. /\ writer # w /\ \A p \in Ports : signals[p].writer # w
        /\ \A s \in Senders : sender[s].signal.writer # w
    BY <1>0 DEF LiveWriters
  (* It is enough that nothing that may hold a writer has come to hold w.   *)
  <1>2. ASSUME writer' # w, \A p \in Ports : signals'[p].writer # w,
               \A s \in Senders : sender'[s].signal.writer # w
        PROVE  w \notin LiveWriters'
    BY <1>2 DEF LiveWriters
  <1>3. ASSUME NEW active \in BOOLEAN, NEW f \in Files, NEW n \in Nat,
               Reconfigure(active, f, n), sender' = sender
        PROVE  w \notin LiveWriters' /\ opened'[w] = opened[w]
    BY <1>1, <1>2, <1>3, ReconfigureOpensNew
  <1>4. ASSUME UNCHANGED <<recording, sender>>
        PROVE  w \notin LiveWriters' /\ opened'[w] = opened[w]
    BY <1>1, <1>2, <1>4 DEF recording
  <1>5. ASSUME NEW u \in Users, UserStep(u)
        PROVE  w \notin LiveWriters' /\ opened'[w] = opened[w]
    <2>1. CASE StartRecording(u) \/ StopRecording(u) \/ \E f \in Files : SetFilename(u, f)
      BY <1>0, <1>3, <2>1 DEF StartRecording, StopRecording, SetFilename
    <2>2. CASE OnConnected(u)
      <3>1. portCount' \in Nat
        BY <1>0, <2>2 DEF OnConnected
      <3> QED
        BY <1>0, <1>3, <2>2, <3>1 DEF OnConnected
    <2>3. CASE OnDisconnectedEnds(u)
      BY <1>0, <1>3, <2>3 DEF OnDisconnectedEnds
    <2>4. CASE \/ OnDisconnected(u) \/ CheckPorts(u) \/ RemoveInputPort(u)
               \/ \E p \in Ports : Disconnect(u, p) \/ \E src \in Sources : Connect(u, p, src)
      BY <1>4, <2>4 DEF Connect, Disconnect, OnDisconnected, CheckPorts, RemoveInputPort
    <2> QED
      BY <1>5, <2>1, <2>2, <2>3, <2>4 DEF UserStep
  <1>6. ASSUME NEW s \in Senders, SenderStep(s)
        PROVE  w \notin LiveWriters' /\ opened'[w] = opened[w]
    <2>1. ASSUME NEW p \in Ports, FindSignal(s, p)
          PROVE  w \notin LiveWriters' /\ opened'[w] = opened[w]
      <3>1. UNCHANGED recording /\ \A r \in Senders : sender'[r].signal \in {sender[r].signal, signals[p]}
        BY <1>0, <2>1 DEF FindSignal
      <3> QED
        BY <1>1, <1>2, <3>1 DEF recording
    <2>2. CASE GetConnection(s) \/ QueueEmpty(s)
      <3>1. UNCHANGED recording /\ \A r \in Senders : sender'[r].signal \in {sender[r].signal, NoSignal}
        BY <1>0, <2>2 DEF GetConnection, QueueEmpty, Quiet, SenderStates
      <3> QED
        BY <1>0, <1>1, <1>2, <3>1 DEF recording, NoSignal
    <2>3. CASE DeliverPacket(s)
      <3>1. /\ UNCHANGED <<writer, signals, sender>> /\ sender[s].signal.writer # w
            /\ opened' = [opened EXCEPT ![sender[s].signal.writer].data = TRUE]
        BY <1>1, <2>3 DEF DeliverPacket
      <3> QED
        BY <1>0, <1>1, <1>2, <3>1
    <2> QED
      BY <1>6, <2>1, <2>2, <2>3 DEF SenderStep
  <1>7. CASE UNCHANGED vars
    BY <1>4, <1>7 DEF vars, recording
  <1> QED
    BY <1>5, <1>6, <1>7 DEF Next

(* ClosedStaysClosed: a file nothing keeps open is never opened or written  *)
(* again, whatever users, senders and failures do.                          *)
THEOREM ClosedFilesStay == Spec => ClosedStaysClosed
  <1>1. TypeInv /\ [Next]_vars =>
            [\A w \in DOMAIN opened :
                w \notin LiveWriters => w \notin LiveWriters' /\ opened'[w] = opened[w]]_vars
    BY ClosedNext
  <1> QED
    BY <1>1, TypeInit, TypeNext, LockInit, LockNext, PTL DEF Spec, ClosedStaysClosed

-----------------------------------------------------------------------------
(* The refinement of RecorderFiles                                          *)

LEMMA LiveMembers ==
    \A w : w \in LiveWriters <=>
              /\ w # NoWriter
              /\ \/ writer = w
                 \/ \E p \in Ports : signals[p].writer = w
                 \/ \E s \in Senders : sender[s].signal.writer = w
  BY DEF LiveWriters

LEMMA LiveMembersNext ==
    \A w : w \in LiveWriters' <=>
              /\ w # NoWriter
              /\ \/ writer' = w
                 \/ \E p \in Ports : signals'[p].writer = w
                 \/ \E s \in Senders : sender'[s].signal.writer = w
  BY DEF LiveWriters

(* A signal object keeps no writer open but the current one.                *)
LEMMA ObjectsKeepCurrent ==
    ASSUME SignalsUseCurrentWriter, NEW p \in Ports
    PROVE  signals[p].writer \in {NoWriter, writer}
  BY DEF SignalsUseCurrentWriter, NoSignal

LEMMA FilesInitially == Init => Recordings!FilesInit
  <1> SUFFICES ASSUME Init PROVE Recordings!FilesInit
    OBVIOUS
  <1>1. /\ writer = NoWriter /\ \A p \in Ports : signals[p].writer = NoWriter
        /\ \A s \in Senders : sender[s].signal.writer = NoWriter
    BY DEF Init, Quiet, NoSignal
  <1>2. LiveWriters = {}
    BY <1>1, LiveMembers
  <1> QED
    BY <1>2 DEF Init, Recordings!FilesInit, NoWriter

(* A step that changes neither a file nor what is kept open is a stutter.   *)
LEMMA ReconfigureFiles ==
    ASSUME TypeInv, WriterInv, NEW active \in BOOLEAN, NEW f \in Files, NEW n \in Nat,
           Reconfigure(active, f, n), sender' = sender
    PROVE  [Recordings!FilesNext]_(Recordings!filesVars)
  <1>0. /\ SignalsUseCurrentWriter
        /\ \A p \in Ports : signals[p].writer \in {NoWriter, writer}
    BY ObjectsKeepCurrent DEF WriterInv
  <1>1. CASE StopAll
    <2>1. /\ writer' = NoWriter /\ opened' = opened
          /\ \A p \in Ports : signals'[p].writer = NoWriter
      BY <1>1 DEF StopAll, NoSignal
    <2>2. \A w : w \in LiveWriters' <=> w # NoWriter /\ \E s \in Senders : sender[s].signal.writer = w
      BY <2>1, LiveMembersNext
    <2>3. \A w : w \in LiveWriters <=>
                    w # NoWriter /\ (writer = w \/ \E s \in Senders : sender[s].signal.writer = w)
      BY <1>0, LiveMembers
    <2>4. CASE writer = NoWriter
      <3>1. LiveWriters' = LiveWriters
        BY <2>2, <2>3, <2>4
      <3> QED
        BY <2>1, <2>4, <3>1 DEF Recordings!filesVars
    <2>5. CASE writer # NoWriter
      <3>1. LiveWriters' \in {LiveWriters, LiveWriters \ {writer}}
        BY <2>2, <2>3
      <3> QED
        BY <2>1, <2>5, <3>1 DEF Recordings!FilesNext, Recordings!StopRecording, NoWriter
    <2> QED
      BY <2>4, <2>5
  <1>2. CASE KeepWriter(n)
    <2>1. /\ writer' = writer /\ opened' = opened
          /\ \A p \in Ports : signals'[p].writer \in {NoWriter, writer}
      BY <1>0, <1>2 DEF KeepWriter, Refresh, NoSignal
    <2>2. LiveWriters' = LiveWriters
      BY <1>0, <2>1, LiveMembers, LiveMembersNext
    <2> QED
      BY <2>1, <2>2 DEF Recordings!filesVars
  <1>3. ASSUME writer = NoWriter, opened' = Append(opened, NewWriter(f)), writer' = Len(opened'),
               \A p \in Ports : signals'[p].writer \in {NoWriter, writer'}
        PROVE  Recordings!OpenFile
    <2>1. writer' # NoWriter
      <3>1. opened \in Seq(WriterObjects) /\ NewWriter(f) \in WriterObjects
        BY DEF TypeInv, TypeOK, WriterObjects, NewWriter
      <3>2. Len(opened') = Len(opened) + 1 /\ Len(opened) \in Nat
        BY <1>3, <3>1, AppendProperties, LenProperties
      <3> QED
        BY <1>3, <3>2 DEF NoWriter
    <2>2. LiveWriters' = LiveWriters \cup {writer'}
      BY <1>0, <1>3, <2>1, LiveMembers, LiveMembersNext
    <2> QED
      BY <1>3, <2>2 DEF Recordings!OpenFile, NewWriter, NoWriter
  <1>4. CASE OpenWriter(f, n)
    <2>1. \A p \in Ports : signals'[p].writer \in {NoWriter, writer'}
      BY <1>0, <1>4 DEF OpenWriter, Refresh, NoSignal, SignalsUseCurrentWriter
    <2> QED
      BY <1>3, <1>4, <2>1 DEF OpenWriter, Recordings!FilesNext
  <1>5. CASE OpenFails
    <2>1. LiveWriters' = LiveWriters
      BY <1>5 DEF OpenFails, recording, LiveWriters
    <2> QED
      BY <1>5, <2>1 DEF OpenFails, recording, Recordings!filesVars
  <1>6. CASE PreambleFails(f)
    <2>1. \A p \in Ports : signals'[p].writer \in {NoWriter, writer'}
      BY <1>0, <1>6 DEF PreambleFails
    <2> QED
      BY <1>3, <1>6, <2>1 DEF PreambleFails, Recordings!FilesNext
  <1> QED
    BY <1>1, <1>2, <1>4, <1>5, <1>6 DEF Reconfigure

LEMMA SenderFiles ==
    ASSUME TypeInv, WriterInv, NEW s \in Senders, SenderStep(s)
    PROVE  [Recordings!FilesNext]_(Recordings!filesVars)
  <1>0. /\ sender \in [Senders -> SenderStates]
        /\ sender[s].step = "idle" => sender[s].signal.writer = NoWriter
    BY DEF TypeInv, TypeOK, SenderStates, WriterInv, NoSignal
  <1>1. ASSUME NEW p \in Ports, FindSignal(s, p)
        PROVE  UNCHANGED Recordings!filesVars
    <2>1. /\ UNCHANGED <<writer, opened, signals>> /\ sender[s].signal.writer = NoWriter
          /\ sender'[s].signal = signals[p]
          /\ \A r \in Senders : r # s => sender'[r] = sender[r]
      BY <1>0, <1>1 DEF FindSignal, recording
    <2>2. ASSUME NEW w
          PROVE  w \in LiveWriters' <=> w \in LiveWriters
      BY <2>1, LiveMembers, LiveMembersNext
    <2>3. LiveWriters' = LiveWriters
      BY <2>2
    <2> QED
      BY <2>1, <2>3 DEF Recordings!filesVars
  (* The sender keeps its signal object, or lets go of it and perhaps of    *)
  (* the last reference to a writer.                                        *)
  <1>2. CASE GetConnection(s) \/ QueueEmpty(s)
    <2> DEFINE w == sender[s].signal.writer
    <2>1. /\ UNCHANGED <<writer, opened, signals>>
          /\ sender'[s].signal.writer \in {w, NoWriter}
          /\ \A r \in Senders : r # s => sender'[r] = sender[r]
      BY <1>0, <1>2 DEF GetConnection, QueueEmpty, recording, Quiet, NoSignal, SenderStates
    <2> HIDE DEF w
    <2>2. \A x : x \in LiveWriters' => x \in LiveWriters
      <3> SUFFICES ASSUME NEW x, x \in LiveWriters' PROVE x \in LiveWriters
        OBVIOUS
      <3> QED
        BY <2>1, LiveMembers, LiveMembersNext DEF w
    <2>3. \A x : x \in LiveWriters /\ x # w => x \in LiveWriters'
      <3> SUFFICES ASSUME NEW x, x \in LiveWriters, x # w PROVE x \in LiveWriters'
        OBVIOUS
      <3> QED
        BY <2>1, LiveMembers, LiveMembersNext DEF w
    <2>4. CASE w \in LiveWriters /\ w \notin LiveWriters'
      <3>1. LiveWriters' = LiveWriters \ {w} /\ w # writer
        BY <2>1, <2>2, <2>3, <2>4, LiveMembers, LiveMembersNext
      <3> QED
        BY <2>1, <2>4, <3>1 DEF Recordings!FilesNext, Recordings!CloseOld
    <2>5. CASE ~(w \in LiveWriters /\ w \notin LiveWriters')
      <3>1. LiveWriters' = LiveWriters
        BY <2>2, <2>3, <2>5
      <3> QED
        BY <2>1, <3>1 DEF Recordings!filesVars
    <2> QED
      BY <2>4, <2>5
  <1>3. CASE DeliverPacket(s)
    <2>1. /\ sender[s].signal.writer # NoWriter
          /\ opened' = [opened EXCEPT ![sender[s].signal.writer].data = TRUE]
          /\ UNCHANGED <<writer, signals, sender>>
      BY <1>3 DEF DeliverPacket
    <2>2. sender[s].signal.writer \in LiveWriters
      BY <2>1, LiveMembers
    <2>3. LiveWriters' = LiveWriters
      BY <2>1 DEF LiveWriters
    <2> QED
      BY <2>1, <2>2, <2>3 DEF Recordings!FilesNext, Recordings!WriteData
  <1> QED
    BY <1>1, <1>2, <1>3 DEF SenderStep

LEMMA FilesStep ==
    TypeInv /\ WriterInv /\ [Next]_vars => [Recordings!FilesNext]_(Recordings!filesVars)
  <1> SUFFICES ASSUME TypeInv, WriterInv, [Next]_vars
               PROVE  [Recordings!FilesNext]_(Recordings!filesVars)
    OBVIOUS
  <1>0. filename \in Files /\ recordingActive \in BOOLEAN /\ portCount \in Nat
    BY DEF TypeInv, TypeOK, Ports
  <1>1. ASSUME UNCHANGED <<recording, sender>>
        PROVE  UNCHANGED Recordings!filesVars
    <2>1. LiveWriters' = LiveWriters
      BY <1>1 DEF LiveWriters, recording
    <2> QED
      BY <1>1, <2>1 DEF Recordings!filesVars, recording
  <1>2. ASSUME NEW u \in Users, UserStep(u)
        PROVE  [Recordings!FilesNext]_(Recordings!filesVars)
    <2>1. CASE StartRecording(u) \/ StopRecording(u) \/ \E f \in Files : SetFilename(u, f)
      BY <1>0, <2>1, ReconfigureFiles DEF StartRecording, StopRecording, SetFilename
    <2>2. CASE OnConnected(u)
      <3>1. portCount' \in Nat
        BY <1>0, <2>2 DEF OnConnected
      <3> QED
        BY <1>0, <2>2, <3>1, ReconfigureFiles DEF OnConnected
    <2>3. CASE OnDisconnectedEnds(u)
      BY <1>0, <2>3, ReconfigureFiles DEF OnDisconnectedEnds
    <2>4. CASE \/ OnDisconnected(u) \/ CheckPorts(u) \/ RemoveInputPort(u)
               \/ \E p \in Ports : Disconnect(u, p) \/ \E src \in Sources : Connect(u, p, src)
      BY <1>1, <2>4 DEF Connect, Disconnect, OnDisconnected, CheckPorts, RemoveInputPort
    <2> QED
      BY <1>2, <2>1, <2>2, <2>3, <2>4 DEF UserStep
  <1>3. CASE UNCHANGED vars
    BY <1>1, <1>3 DEF vars, recording
  <1> QED
    BY <1>2, <1>3, SenderFiles DEF Next

(* ImplementsRecorderFiles: whatever users, senders and failures do, each   *)
(* step of the recorder opens a new file, ends a recording, closes an old   *)
(* file, adds data to an open one, or does nothing to files.                *)
THEOREM FilesAsPromised == Spec => ImplementsRecorderFiles
  <1>1. TypeInv /\ WriterInv /\ [Next]_vars => [Recordings!FilesNext]_(Recordings!filesVars)
    BY FilesStep
  <1> QED
    BY <1>1, FilesInitially, WriterInit, WriterNext, TypeInit, TypeNext, LockInit, LockNext, PTL
       DEF Spec, ImplementsRecorderFiles, Recordings!FilesSpec

-----------------------------------------------------------------------------
LEMMA UndisturbedNext ==
    [Next]_vars =>
        \A p \in Ports : signals[p] # NoSignal /\ signals'[p] # signals[p] =>
            ~recordingActive' \/ ~Connected(p)' \/ p > portCount'
  <1> SUFFICES ASSUME [Next]_vars, NEW p \in Ports, signals[p] # NoSignal, signals'[p] # signals[p]
               PROVE  ~recordingActive' \/ ~Connected(p)' \/ p > portCount'
    OBVIOUS
  <1>1. ASSUME NEW f, Reconfigure(recordingActive', f, portCount'), UNCHANGED connection
        PROVE  ~recordingActive' \/ ~Connected(p)' \/ p > portCount'
    BY <1>1 DEF Reconfigure, KeepWriter, OpenWriter, OpenFails, PreambleFails, Refresh,
                recording, Connected
  <1>2. ASSUME NEW u \in Users, UserStep(u)
        PROVE  ~recordingActive' \/ ~Connected(p)' \/ p > portCount'
    <2>1. signals' = signals \/ \E f : Reconfigure(recordingActive', f, portCount') /\ UNCHANGED connection
      BY <1>2 DEF UserStep, StartRecording, StopRecording, SetFilename, Connect, OnConnected,
                  Disconnect, OnDisconnected, CheckPorts, RemoveInputPort, OnDisconnectedEnds,
                  ports, config, recording
    <2> QED
      BY <1>1, <2>1
  <1>3. ASSUME NEW s \in Senders, SenderStep(s) PROVE signals' = signals
    BY <1>3 DEF SenderStep, FindSignal, GetConnection, DeliverPacket, QueueEmpty, recording
  <1>4. UNCHANGED vars => signals' = signals
    BY DEF vars
  <1> QED
    BY <1>2, <1>3, <1>4 DEF Next

(* Undisturbed: nobody's connecting or disconnecting takes away the signal  *)
(* object of a port that stays connected while recording goes on.           *)
THEOREM OthersUndisturbed == Spec => Undisturbed
  <1>1. [Next]_vars =>
            [\A p \in Ports : signals[p] # NoSignal /\ signals'[p] # signals[p] =>
                ~recordingActive' \/ ~Connected(p)' \/ p > portCount']_vars
    BY UndisturbedNext
  <1> QED
    BY <1>1, PTL DEF Spec, Undisturbed

LEMMA TrimmedNext ==
    TypeInv /\ PortInv' /\ [Next]_vars =>
        \A u \in Users :
            user[u].step = "trimming" /\ user'[u].step = "idle" /\ ~CallbackDue' =>
                (portCount = 1 \/ Connected(portCount - 1))'
  <1> SUFFICES ASSUME TypeInv, PortInv', [Next]_vars, NEW u \in Users,
                      user[u].step = "trimming", user'[u].step = "idle", ~CallbackDue'
               PROVE  (portCount = 1 \/ Connected(portCount - 1))'
    OBVIOUS
  <1>0. user \in [Users -> UserStates] /\ portCount \in Nat \ {0}
    BY DEF TypeInv, TypeOK, UserStates, Ports
  (* Only the end of the disconnect callback takes a user from here to rest. *)
  <1>1. OnDisconnectedEnds(u)
    <2>1. ASSUME NEW v \in Users, UserStep(v), ~OnDisconnectedEnds(u) PROVE FALSE
      <3>1. CASE user' = user
        BY <3>1
      <3>2. CASE \/ OnDisconnected(v) \/ CheckPorts(v) \/ RemoveInputPort(v)
                 \/ \E p \in Ports : Disconnect(v, p) \/ \E src \in Sources : Connect(v, p, src)
        BY <1>0, <3>2 DEF OnDisconnected, CheckPorts, RemoveInputPort, Connect, Disconnect, UserStates
      <3>3. CASE OnConnected(v) \/ OnDisconnectedEnds(v)
        BY <1>0, <2>1, <3>3 DEF OnConnected, OnDisconnectedEnds
      <3> QED
        BY <2>1, <3>1, <3>2, <3>3 DEF UserStep, StartRecording, StopRecording, SetFilename
    <2>2. ASSUME NEW s \in Senders, SenderStep(s) PROVE user' = user
      BY <2>2 DEF SenderStep, FindSignal, GetConnection, DeliverPacket, QueueEmpty
    <2>3. UNCHANGED vars => user' = user
      BY DEF vars
    <2> QED
      BY <2>1, <2>2, <2>3 DEF Next
  <1>2. ~Removable /\ portCount' = portCount /\ connection' = connection
    BY <1>1 DEF OnDisconnectedEnds, ports
  (* Since no connect callback is due either, the last port is free.        *)
  <1>3. ~Connected(portCount)
    <2>1. \A v \in Users : user'[v].step # "connected"
      BY DEF CallbackDue
    <2>2. Connected(portCount)' => \E v \in Users : user'[v].step = "connected"
      BY DEF PortInv, LastPortFree
    <2> QED
      BY <1>2, <2>1, <2>2 DEF Connected
  <1>4. portCount = 1 \/ Connected(portCount - 1)
    BY <1>0, <1>2, <1>3 DEF Removable
  <1> QED
    BY <1>2, <1>4 DEF Connected

(* OneFreePortAfterDisconnect: when a disconnect callback returns and no    *)
(* other callback is due, there is one free port at the end, however many   *)
(* there had been and however the users' callbacks had overtaken each       *)
(* other.                                                                   *)
THEOREM TrimmedAfterDisconnect == Spec => OneFreePortAfterDisconnect
  <1>1. TypeInv /\ PortInv' /\ [Next]_vars =>
            [\A u \in Users :
                user[u].step = "trimming" /\ user'[u].step = "idle" /\ ~CallbackDue' =>
                    (portCount = 1 \/ Connected(portCount - 1))']_vars
    BY TrimmedNext
  <1> QED
    BY <1>1, TypeInit, TypeNext, LockInit, LockNext, PortInit, PortNext, PTL
       DEF Spec, OneFreePortAfterDisconnect

-----------------------------------------------------------------------------
(* What is recorded, once callbacks have run                               *)

(* The signal objects are those of the connected ports while recording.     *)
ObjectsMatch ==
    \A p \in Ports : signals[p] # NoSignal <=> recordingActive /\ p <= portCount /\ Connected(p)

(* An object records the signal its port is connected to, or the port was   *)
(* disconnected and its callback is due.                                    *)
SourcesMatch ==
    \A p \in Ports : signals[p] # NoSignal =>
        /\ signals[p].source # NoSource
        /\ signals[p].source = connection[p] \/ (~Connected(p) /\ CallbackDue)

MatchInv ==
    /\ ~failed => (recordingActive => writer # NoWriter) /\ (CallbackDue \/ ObjectsMatch)
    /\ ~stale => (recordingActive => ~CallbacksOverlap) /\ SourcesMatch

HVars == <<vars, history>>
RecorderInv == TypeInv /\ LockInv /\ WriterInv

LEMMA MatchInit == HInit => MatchInv
  BY DEF HInit, Init, MatchInv, ObjectsMatch, SourcesMatch, AtRest, CallbacksOverlap

(* After reconfigure every object belongs to a connected port, and every    *)
(* connected port has one unless the file failed.                           *)
LEMMA ReconfigureMatches ==
    ASSUME RecorderInv, RecorderInv', NEW active \in BOOLEAN, NEW f, Reconfigure(active, f, portCount'),
           recordingActive' = active, connection' = connection, ~FileFails \/ ~active
    PROVE  ObjectsMatch'
  <1>0. writer' = NoWriter => \A p \in Ports : signals'[p] = NoSignal
    BY DEF RecorderInv, WriterInv, SignalsUseCurrentWriter
  <1>1. CASE ~active
    BY <1>0, <1>1 DEF RecorderInv, WriterInv, ObjectsMatch
  <1>2. ASSUME active, NEW w, w # NoWriter, Refresh(w, portCount') PROVE ObjectsMatch'
    <2>1. \A p \in Ports : [source |-> connection[p], writer |-> w] # NoSignal
      BY <1>2 DEF NoSignal
    <2>2. portCount' \in Int /\ Ports \subseteq Int /\ recordingActive'
      BY <1>2 DEF RecorderInv, TypeInv, TypeOK, Ports
    <2> QED
      BY <1>2, <2>1, <2>2 DEF Refresh, ObjectsMatch, Connected
  <1>3. CASE active /\ KeepWriter(portCount')
    BY <1>2, <1>3 DEF KeepWriter
  <1>4. CASE active /\ OpenWriter(f, portCount')
    <2>1. writer' # NoWriter
      BY <1>4 DEF FileFails
    <2> QED
      BY <1>2, <1>4, <2>1 DEF OpenWriter
  <1>5. CASE active /\ PreambleFails(f)
    <2>1. \A p \in Ports : signals'[p] = NoSignal
      BY <1>5 DEF PreambleFails, RecorderInv, WriterInv, SignalsUseCurrentWriter
    <2>2. \A p \in 1..portCount' : ~Connected(p)'
      <3>1. portCount' \in Ports
        BY DEF RecorderInv, TypeInv, TypeOK
      <3>2. 1..portCount' \subseteq Ports
        BY <3>1, AdvancedRecorderAssumption DEF Ports
      <3>3. ~\E p \in 1..portCount' : Connected(p)' /\ signals'[p] = NoSignal
        BY <1>5 DEF PreambleFails, FileFails
      <3> QED
        BY <2>1, <3>2, <3>3
    <2> QED
      BY <2>1, <2>2 DEF ObjectsMatch, RecorderInv, TypeInv, TypeOK, Ports
  <1>6. CASE active /\ OpenFails
    BY <1>6 DEF OpenFails, recording, FileFails
  <1> QED
    BY <1>1, <1>3, <1>4, <1>5, <1>6 DEF Reconfigure

LEMMA ReconfigureSources ==
    ASSUME RecorderInv, SourcesMatch, NEW active, NEW f, NEW n,
           Reconfigure(active, f, n), connection' = connection
    PROVE  SourcesMatch'
  <1>1. ASSUME NEW w, Refresh(w, n) PROVE SourcesMatch'
    <2>1. ASSUME NEW p \in Ports, signals'[p] # NoSignal
          PROVE  /\ connection[p] # NoSource
                 /\ signals'[p].source = connection[p]
      <3>1. Connected(p) /\ (signals'[p] = signals[p] \/ signals'[p] = [source |-> connection[p], writer |-> w])
        BY <1>1, <2>1 DEF Refresh
      <3>2. signals'[p] = signals[p] => signals'[p].source = connection[p]
        BY <2>1, <3>1 DEF SourcesMatch
      <3> QED
        BY <3>1, <3>2 DEF Connected
    <2> QED
      BY <2>1 DEF SourcesMatch
  <1>2. ASSUME writer = NoWriter, signals' = signals PROVE SourcesMatch'
    BY <1>2 DEF RecorderInv, WriterInv, SignalsUseCurrentWriter, SourcesMatch
  <1>3. StopAll => SourcesMatch'
    BY DEF StopAll, SourcesMatch
  <1>4. KeepWriter(n) \/ OpenWriter(f, n) => SourcesMatch'
    BY <1>1 DEF KeepWriter, OpenWriter
  <1>5. OpenFails \/ PreambleFails(f) => SourcesMatch'
    BY <1>2 DEF OpenFails, PreambleFails, recording
  <1> QED
    BY <1>3, <1>4, <1>5 DEF Reconfigure

(* A user whose callback is due stays so when another user starts one.      *)
LEMMA SourcesNext ==
    ASSUME RecorderInv, SourcesMatch, NEW u \in Users, ~CallbacksOverlap' \/ ~recordingActive,
           \/ OnDisconnected(u) \/ CheckPorts(u) \/ RemoveInputPort(u)
           \/ \E p \in Ports : Disconnect(u, p) \/ \E src \in Sources : Connect(u, p, src)
    PROVE  CallbackDue' /\ SourcesMatch'
  <1>0. /\ user \in [Users -> UserStates] /\ connection \in [Ports -> Sources \cup {NoSource}]
        /\ signals' = signals
        /\ ~recordingActive => \A p \in Ports : signals[p] = NoSignal
    BY DEF RecorderInv, TypeInv, TypeOK, UserStates, WriterInv, SignalsUseCurrentWriter, recording,
           OnDisconnected, CheckPorts, RemoveInputPort, Disconnect, Connect
  <1>1. user'[u].step # "idle" /\ \A v \in Users : v # u => user'[v] = user[v]
    BY <1>0 DEF OnDisconnected, CheckPorts, RemoveInputPort, Disconnect, Connect, UserStates
  <1>2. CallbackDue'
    BY <1>1 DEF CallbackDue
  <1>3. ASSUME NEW p \in Ports, Disconnect(u, p) \/ RemoveInputPort(u) \/ UNCHANGED connection
        PROVE  SourcesMatch'
    <2>1. \A q \in Ports : connection'[q] \in {connection[q], NoSource}
      BY <1>0, <1>3 DEF Disconnect, RemoveInputPort
    <2> QED
      BY <1>0, <1>2, <2>1 DEF SourcesMatch, Connected
  (* A port that is connected now had no object to lose its signal: else    *)
  (* another user's callback would be due.                                  *)
  <1>4. ASSUME NEW p \in Ports, NEW src \in Sources, Connect(u, p, src)
        PROVE  SourcesMatch'
    <2>1. signals[p] = NoSignal
      <3>1. SUFFICES ASSUME signals[p] # NoSignal PROVE FALSE
        OBVIOUS
      <3>2. PICK v \in Users : user[v].step # "idle"
        BY <1>4, <3>1 DEF Connect, SourcesMatch, Connected, CallbackDue
      <3>3. v # u
        BY <1>4, <3>2 DEF Connect, UserIdle
      <3>4. user'[v].step # "idle"
        BY <1>1, <3>2, <3>3
      <3> QED
        BY <1>0, <1>1, <3>1, <3>3, <3>4 DEF CallbacksOverlap
    <2>2. \A q \in Ports : q # p => connection'[q] = connection[q]
      BY <1>0, <1>4 DEF Connect
    <2> QED
      BY <1>0, <1>2, <2>1, <2>2 DEF SourcesMatch, Connected
  <1>5. 1 \in Ports
    BY AdvancedRecorderAssumption DEF Ports
  <1>6. OnDisconnected(u) \/ CheckPorts(u) => UNCHANGED connection
    BY DEF OnDisconnected, CheckPorts, ports
  <1>7. OnDisconnected(u) \/ CheckPorts(u) \/ RemoveInputPort(u) => SourcesMatch'
    BY <1>3, <1>5, <1>6
  <1>8. (\E p \in Ports : Disconnect(u, p) \/ \E src \in Sources : Connect(u, p, src)) => SourcesMatch'
    BY <1>3, <1>4
  <1> QED
    BY <1>2, <1>7, <1>8

LEMMA MatchNext ==
    RecorderInv /\ RecorderInv' /\ MatchInv /\ [HNext]_HVars => MatchInv'
  <1> SUFFICES ASSUME RecorderInv, RecorderInv', MatchInv, [HNext]_HVars PROVE MatchInv'
    OBVIOUS
  <1>1. CASE UNCHANGED HVars
    BY <1>1 DEF HVars, vars, history, MatchInv, ObjectsMatch, SourcesMatch, CallbackDue,
                CallbacksOverlap, Connected
  <1>2. ASSUME HNext, ~recordingActive' PROVE MatchInv'
    BY <1>2 DEF RecorderInv, WriterInv, SignalsUseCurrentWriter, MatchInv, ObjectsMatch, SourcesMatch
  <1>3. ASSUME HNext, recordingActive' PROVE MatchInv'
    <2>1. ~failed' => ~failed /\ ~FileFails
      BY <1>3 DEF HNext
    <2>2. ~stale' => ~stale /\ ~CallbacksOverlap'
      BY <1>3 DEF HNext
    <2>3. ~failed' => writer' # NoWriter
      BY <2>1 DEF FileFails
    <2>4. ASSUME ~failed' => CallbackDue' \/ ObjectsMatch', ~stale' => SourcesMatch'
          PROVE  MatchInv'
      BY <2>2, <2>3, <2>4 DEF MatchInv
    <2>5. ASSUME NEW f, Reconfigure(recordingActive', f, portCount'), connection' = connection
          PROVE  MatchInv'
      <3>1. ~failed' => ObjectsMatch'
        BY <2>1, <2>5, ReconfigureMatches DEF RecorderInv, TypeInv, TypeOK
      <3>2. ~stale' => SourcesMatch'
        BY <2>2, <2>5, ReconfigureSources DEF MatchInv
      <3> QED
        BY <2>4, <3>1, <3>2
    <2>6. ASSUME NEW u \in Users, UserStep(u) PROVE MatchInv'
      <3>1. CASE \/ OnDisconnected(u) \/ CheckPorts(u) \/ RemoveInputPort(u)
                 \/ \E p \in Ports : Disconnect(u, p) \/ \E src \in Sources : Connect(u, p, src)
        <4>1. ~stale' => SourcesMatch'
          BY <2>2, <2>6, <3>1, SourcesNext DEF MatchInv
        <4>2. CallbackDue'
          <5>1. user \in [Users -> UserStates]
            BY DEF RecorderInv, TypeInv, TypeOK, UserStates
          <5>2. user'[u].step # "idle"
            BY <3>1, <5>1 DEF OnDisconnected, CheckPorts, RemoveInputPort, Disconnect, Connect, UserStates
          <5> QED
            BY <5>2 DEF CallbackDue
        <4> QED
          BY <2>4, <4>1, <4>2
      <3>2. CASE \/ StartRecording(u) \/ StopRecording(u) \/ OnConnected(u) \/ OnDisconnectedEnds(u)
                 \/ \E f \in Files : SetFilename(u, f)
        <4>1. connection' = connection /\ \E f : Reconfigure(recordingActive', f, portCount')
          BY <3>2 DEF StartRecording, StopRecording, OnConnected, OnDisconnectedEnds, SetFilename,
                      ports, config
        <4> QED
          BY <2>5, <4>1
      <3> QED
        BY <2>6, <3>1, <3>2 DEF UserStep
    <2>7. ASSUME NEW s \in Senders, SenderStep(s) PROVE MatchInv'
      <3>1. UNCHANGED <<portCount, connection, recordingActive, writer, signals, user>>
        BY <2>7 DEF SenderStep, FindSignal, GetConnection, DeliverPacket, QueueEmpty, ports, config,
                    recording
      <3>2. CallbackDue' = CallbackDue /\ ObjectsMatch' = ObjectsMatch /\ SourcesMatch' = SourcesMatch
        BY <3>1 DEF CallbackDue, ObjectsMatch, SourcesMatch, Connected
      <3> QED
        BY <2>1, <2>2, <2>4, <3>2 DEF MatchInv
    <2> QED
      BY <1>3, <2>6, <2>7 DEF HNext, Next
  <1> QED
    BY <1>1, <1>2, <1>3

(* RecordingMatchesState: with any number of users, once every callback has *)
(* run and if the file did not fail, exactly the connected ports have an    *)
(* object while recording; it records the port's signal unless callbacks of *)
(* two users were due at once in this recording.                            *)
THEOREM RecordingIsAsConfigured == HSpec => []RecordingMatchesState
  <1>1. HInit => RecorderInv /\ MatchInv
    BY MatchInit, TypeInit, LockInit, WriterInit DEF HInit, RecorderInv
  <1>2. RecorderInv /\ [HNext]_HVars => RecorderInv'
    <2>1. [HNext]_HVars => [Next]_vars
      BY DEF HNext, HVars
    <2> QED
      BY <2>1, TypeNext, LockNext, WriterNext DEF RecorderInv
  <1>3. RecorderInv /\ MatchInv => RecordingMatchesState
    <2> SUFFICES ASSUME RecorderInv, MatchInv, ~CallbackDue, ~failed PROVE RecordingMatchesState
      BY DEF RecordingMatchesState
    <2>1. recordingActive <=> writer # NoWriter
      BY DEF RecorderInv, WriterInv, MatchInv
    <2>2. ObjectsMatch
      BY DEF MatchInv
    <2>3. ~stale => \A p \in Ports : signals[p] # NoSignal => signals[p].source = connection[p]
      BY DEF MatchInv, SourcesMatch
    <2> QED
      BY <2>1, <2>2, <2>3 DEF ObjectsMatch, RecordingMatchesState
  <1> QED
    BY <1>1, <1>2, <1>3, MatchNext, PTL DEF HSpec, HVars

-----------------------------------------------------------------------------
(* The program advanced_recorder_test                                      *)

LEMMA AppSteps == RecorderAppConstants /\ [AppNext]_rvars => [Next]_vars
  <1> SUFFICES ASSUME RecorderAppConstants, [AppNext]_rvars PROVE [Next]_vars
    OBVIOUS
  <1>0. Main \in Users /\ TestFile \in Files /\ \A k \in DOMAIN Wanted : Wanted[k] \in Sources /\ k \in Ports
    BY AdvancedRecorderAssumption DEF RecorderAppConstants, Wanted, Ports
  <1>1. CASE Discover \/ Return \/ UNCHANGED rvars
    BY <1>1 DEF Discover, Return, rvars
  <1>2. CASE NameFile \/ ConnectNext \/ ConnectReturns \/ Start \/ Stop
    <2>1. UserStep(Main)
      BY <1>0, <1>2 DEF NameFile, ConnectNext, ConnectReturns, Start, Stop, UserStep
    <2> QED
      BY <1>0, <2>1 DEF Next
  <1>3. ASSUME NEW s \in Senders, DeviceStep(s) PROVE Next
    <2>1. SenderStep(s)
      BY <1>3 DEF DeviceStep, BeginPacket, EndPacket, SenderStep
    <2> QED
      BY <2>1 DEF Next
  <1> QED
    BY <1>1, <1>2, <1>3 DEF AppNext, MainStep

(* The program is a user of the recorder: what is proved of the recorder    *)
(* holds while the program runs.                                            *)
THEOREM AppUsesRecorder == RecorderAppConstants /\ AppSpec => Spec
  <1>1. CASE RecorderAppConstants
    <2>1. AppInit => Init
      BY DEF AppInit
    <2>2. [AppNext]_rvars => [Next]_vars
      BY <1>1, AppSteps
    <2> QED
      BY <2>1, <2>2, PTL DEF AppSpec, Spec
  <1>2. CASE ~RecorderAppConstants
    BY <1>2
  <1> QED
    BY <1>1, <1>2

BeforeRecording == main.at \in {"start", "device", "connect", "connecting"}

(* The ports main has connected, and the one it comes to.                   *)
MainInv ==
    /\ main \in [at : {"start", "device", "connect", "connecting", "recording", "stopped",
                       "done", "terminated"}, port : 1..4]
    /\ main.at \in {"start", "device"} => main.port = 1
    /\ main.at = "connecting" => main.port \in 1..3
    /\ BeforeRecording =>
          /\ portCount = main.port
          /\ \A p \in Ports : p < main.port \/ (p = main.port /\ main.at = "connecting")
                => connection[p] = Wanted[p]
          /\ \A p \in Ports : p > main.port \/ (p = main.port /\ main.at # "connecting")
                => connection[p] = NoSource
    /\ user[Main].step = IF main.at = "connecting" THEN "connected" ELSE "idle"
    /\ main.at \notin {"start", "device", "terminated"} => filename = TestFile

(* Until main starts the recording nothing has been opened, and the packets *)
(* that are under way go nowhere.                                           *)
NothingYet ==
    BeforeRecording =>
        /\ ~recordingActive /\ writer = NoWriter /\ opened = <<>>
        /\ \A p \in Ports : signals[p] = NoSignal
        /\ \A s \in Senders : sender[s].signal = NoSignal

ThreeRecorded ==
    main.at = "recording" =>
        /\ \A k \in 1..3 : signals[k] = [source |-> Wanted[k], writer |-> 1]
        /\ Len(opened) = 1 /\ opened[1].file = TestFile

LEMMA AppInitInv == RecorderAppConstants /\ AppInit => MainInv /\ NothingYet /\ ThreeRecorded
  <1> SUFFICES ASSUME RecorderAppConstants, AppInit PROVE MainInv /\ NothingYet /\ ThreeRecorded
    OBVIOUS
  <1>1. main = [at |-> "start", port |-> 1] /\ portCount = 1 /\ user[Main] = AtRest
    BY DEF AppInit, Init, RecorderAppConstants
  <1>2. MainInv
    BY <1>1, AdvancedRecorderAssumption DEF AppInit, Init, MainInv, BeforeRecording, AtRest, Ports
  <1>3. NothingYet /\ ThreeRecorded
    BY <1>1 DEF AppInit, Init, NothingYet, ThreeRecorded, Quiet
  <1> QED
    BY <1>2, <1>3

(* While nothing is recorded, reconfigure leaves it so.                     *)
LEMMA NothingReconfigured ==
    ASSUME BeforeRecording, NothingYet, NEW f, NEW n, Reconfigure(recordingActive, f, n)
    PROVE  UNCHANGED <<writer, opened>> /\ \A p \in Ports : signals'[p] = NoSignal
  BY DEF NothingYet, Reconfigure, StopAll, KeepWriter, OpenWriter, OpenFails, PreambleFails

LEMMA MainStepInv ==
    ASSUME RecorderAppConstants, TypeInv, MainInv, NothingYet, ThreeRecorded, MainStep
    PROVE  MainInv' /\ NothingYet' /\ ThreeRecorded'
  <1>0. /\ 1 \in Ports /\ 2 \in Ports /\ 3 \in Ports /\ 4 \in Ports /\ MaxPorts \in Nat
        /\ Main \in Users /\ DOMAIN Wanted = 1..3 /\ user \in [Users -> UserStates]
        /\ signals \in [Ports -> SignalObjects] /\ connection \in [Ports -> Sources \cup {NoSource}]
        /\ \A k \in 1..3 : Wanted[k] \in Sources
    BY AdvancedRecorderAssumption DEF RecorderAppConstants, Ports, Wanted, TypeInv, TypeOK, UserStates
  <1>1. CASE Discover
    <2>1. /\ main.at = "start" /\ main'.port = main.port /\ main'.at \in {"device", "terminated"}
          /\ main' \in [at : {"start", "device", "connect", "connecting", "recording", "stopped",
                              "done", "terminated"}, port : 1..4]
      BY <1>1 DEF Discover, At, Goto, MainInv
    <2> QED
      BY <1>1, <2>1 DEF Discover, vars, MainInv, NothingYet, ThreeRecorded, BeforeRecording
  <1>2. CASE NameFile
    <2>1. /\ main.at = "device" /\ main' = [at |-> "connect", port |-> main.port] /\ main.port \in 1..4
      BY <1>2 DEF NameFile, At, Goto, MainInv
    <2>2. /\ UNCHANGED <<writer, opened>> /\ \A p \in Ports : signals'[p] = NoSignal
      BY <1>2, <2>1, NothingReconfigured DEF NameFile, SetFilename, BeforeRecording
    <2>3. /\ filename' = TestFile
          /\ UNCHANGED <<portCount, connection, recordingActive, user, sender>>
      BY <1>2 DEF NameFile, SetFilename, ports
    <2> QED
      BY <2>1, <2>2, <2>3 DEF MainInv, NothingYet, ThreeRecorded, BeforeRecording
  <1>3. CASE ConnectNext
    <2>1. /\ main.at = "connect" /\ main' = [at |-> "connecting", port |-> main.port] /\ main.port \in 1..3
      BY <1>0, <1>3 DEF ConnectNext, At, Goto, MainInv
    <2>2. /\ connection' = [connection EXCEPT ![main.port] = Wanted[main.port]]
          /\ user'[Main].step = "connected"
          /\ UNCHANGED <<portCount, recordingActive, filename, writer, opened, signals, sender>>
      BY <1>0, <1>3 DEF ConnectNext, Connect, config, recording
    <2>3. ASSUME NEW p \in Ports
          PROVE  /\ p <= main.port => connection'[p] = Wanted[p]
                 /\ p > main.port => connection'[p] = NoSource
      BY <1>0, <2>1, <2>2 DEF MainInv, BeforeRecording, Ports
    <2>4. MainInv'
      BY <2>1, <2>2, <2>3 DEF MainInv, BeforeRecording, Ports
    <2> QED
      BY <2>1, <2>2, <2>4 DEF NothingYet, ThreeRecorded, BeforeRecording
  <1>4. CASE ConnectReturns
    <2>1. /\ main.at = "connecting" /\ main' = [at |-> "connect", port |-> main.port + 1]
          /\ main.port \in 1..3 /\ portCount = main.port
      BY <1>4 DEF ConnectReturns, At, MainInv, BeforeRecording
    <2>2. /\ portCount' = portCount + 1 /\ user'[Main].step = "idle"
          /\ UNCHANGED <<connection, recordingActive, filename, sender>>
      BY <1>0, <1>4 DEF ConnectReturns, OnConnected, config, AtRest
    <2>3. /\ UNCHANGED <<writer, opened>> /\ \A p \in Ports : signals'[p] = NoSignal
      BY <1>4, <2>1, NothingReconfigured DEF ConnectReturns, OnConnected, BeforeRecording
    <2>4. ASSUME NEW p \in Ports
          PROVE  /\ p < main.port + 1 => connection'[p] = Wanted[p]
                 /\ p >= main.port + 1 => connection'[p] = NoSource
      BY <2>1, <2>2 DEF MainInv, BeforeRecording, Ports
    <2>5. MainInv'
      BY <2>1, <2>2, <2>4 DEF MainInv, BeforeRecording, Ports
    <2> QED
      BY <2>1, <2>2, <2>3, <2>5 DEF NothingYet, ThreeRecorded, BeforeRecording
  <1>5. CASE Start
    <2>1. main.at = "connect" /\ main.port = 4 /\ portCount = 4 /\ user[Main].step = "idle" /\ filename = TestFile
      BY <1>0, <1>5 DEF Start, At, MainInv, BeforeRecording
    <2>2. writer = NoWriter /\ opened = <<>> /\ \A p \in Ports : signals[p] = NoSignal
      BY <2>1 DEF NothingYet, BeforeRecording
    <2>3. /\ Reconfigure(TRUE, filename, portCount)
          /\ UNCHANGED <<portCount, connection, filename, user, sender>>
          /\ main'.port = 4
          /\ main' \in [at : {"start", "device", "connect", "connecting", "recording", "stopped",
                              "done", "terminated"}, port : 1..4]
          /\ main'.at = IF StartThrew THEN "terminated" ELSE "recording"
      BY <1>5, <2>1 DEF Start, StartRecording, ports, Goto, MainInv
    <2>4. MainInv' /\ NothingYet'
      BY <2>1, <2>3 DEF MainInv, NothingYet, BeforeRecording
    <2>5. CASE OpenWriter(filename, portCount)
      <3>1. opened' = <<NewWriter(TestFile)>> /\ writer' = 1 /\ Refresh(1, 4)
        BY <2>1, <2>2, <2>5 DEF OpenWriter
      <3>2. ASSUME NEW k \in 1..3 PROVE signals'[k] = [source |-> Wanted[k], writer |-> 1]
        <4>1. k \in Ports /\ connection[k] = Wanted[k] /\ signals[k] = NoSignal /\ Wanted[k] # NoSource
          BY <1>0, <2>1, <2>2, <3>2, AdvancedRecorderAssumption DEF MainInv, BeforeRecording, Ports
        <4>2. k <= 4
          BY <3>2
        <4> QED
          BY <3>1, <4>1, <4>2 DEF Refresh, Connected
      <3> QED
        BY <2>4, <3>1, <3>2 DEF ThreeRecorded, NewWriter
    <2>6. CASE KeepWriter(portCount) \/ OpenFails \/ PreambleFails(filename)
      <3>1. StartThrew
        BY <2>2, <2>6 DEF KeepWriter, OpenFails, PreambleFails, recording, StartThrew
      <3> QED
        BY <2>3, <2>4, <3>1 DEF ThreeRecorded
    <2> QED
      BY <2>3, <2>5, <2>6 DEF Reconfigure
  <1>6. CASE Stop \/ Return
    <2>1. /\ main'.at \in {"stopped", "done"} /\ main'.port = main.port /\ main.at \in {"recording", "stopped"}
          /\ main' \in [at : {"start", "device", "connect", "connecting", "recording", "stopped",
                              "done", "terminated"}, port : 1..4]
      BY <1>6 DEF Stop, Return, At, Goto, MainInv
    <2>2. UNCHANGED <<filename, user>>
      BY <1>6 DEF Stop, StopRecording, Return, vars
    <2> QED
      BY <2>1, <2>2 DEF MainInv, NothingYet, ThreeRecorded, BeforeRecording
  <1> QED
    BY <1>1, <1>2, <1>3, <1>4, <1>5, <1>6 DEF MainStep

LEMMA DeviceStepInv ==
    ASSUME TypeInv, MainInv, NothingYet, ThreeRecorded, NEW s \in Senders, DeviceStep(s)
    PROVE  MainInv' /\ NothingYet' /\ ThreeRecorded'
  <1>0. sender \in [Senders -> SenderStates] /\ opened \in Seq(WriterObjects)
    BY DEF TypeInv, TypeOK, SenderStates, WriterObjects
  <1>1. UNCHANGED <<portCount, connection, recordingActive, filename, writer, signals, user, main>>
    BY DEF DeviceStep, BeginPacket, EndPacket, FindSignal, GetConnection, QueueEmpty, DeliverPacket,
           ports, config, recording
  <1>2. MainInv'
    BY <1>1 DEF MainInv, BeforeRecording
  <1>3. CASE DeliverPacket(s)
    <2>1. ~BeforeRecording /\ sender' = sender
      BY <1>3 DEF DeliverPacket, NothingYet, NoSignal
    <2>2. PICK w : opened' = [opened EXCEPT ![w].data = TRUE]
      BY <1>3 DEF DeliverPacket
    <2>3. ASSUME Len(opened) = 1 PROVE Len(opened') = 1 /\ opened'[1].file = opened[1].file
      <3>1. opened[1] \in WriterObjects /\ 1 \in 1..Len(opened) /\ DOMAIN opened = 1..1
        <4>1. DOMAIN opened = 1..Len(opened) /\ 1 \in 1..Len(opened)
          BY <1>0, <2>3, LenProperties
        <4>2. opened[1] \in WriterObjects
          BY <1>0, <4>1, ElementOfSeq
        <4> QED
          BY <2>3, <4>1, <4>2
      <3>2. CASE w = 1
        <4> DEFINE e == [opened[1] EXCEPT !.data = TRUE]
        <4>1. e \in WriterObjects /\ e.file = opened[1].file
          BY <3>1 DEF WriterObjects
        <4>2. opened' = [opened EXCEPT ![1] = e]
          BY <2>2, <3>2
        <4>3. Len(opened') = Len(opened) /\ opened'[1] = e
          BY <1>0, <3>1, <4>1, <4>2, ExceptSeq
        <4> QED
          BY <2>3, <4>1, <4>3
      <3>3. CASE w # 1
        <4>1. opened' = opened
          BY <1>0, <2>2, <3>1, <3>3
        <4> QED
          BY <2>3, <4>1
      <3> QED
        BY <3>2, <3>3
    <2> QED
      BY <1>1, <1>2, <2>1, <2>3 DEF NothingYet, ThreeRecorded, BeforeRecording
  <1>4. CASE BeginPacket(s) \/ EndPacket(s)
    <2>1. opened' = opened
      BY <1>4 DEF BeginPacket, EndPacket, FindSignal, GetConnection, QueueEmpty, recording
    <2>2. ASSUME BeforeRecording, NEW t \in Senders PROVE sender'[t].signal = NoSignal
      <3>1. \A p \in Ports : signals[p] = NoSignal
        BY <2>2 DEF NothingYet
      <3>2. sender[t].signal = NoSignal /\ sender[t] \in SenderStates
        BY <1>0, <2>2 DEF NothingYet
      <3>3. CASE \E p \in Ports : FindSignal(s, p)
        BY <1>0, <3>1, <3>2, <3>3 DEF FindSignal
      <3>4. CASE GetConnection(s)
        <4>1. sender'[t] = sender[t] \/ sender'[t] = [sender[t] EXCEPT !.step = "dequeue"] \/ sender'[t] = Quiet
          BY <1>0, <2>2, <3>4 DEF GetConnection
        <4> QED
          BY <3>2, <4>1 DEF SenderStates, Quiet
      <3>5. CASE QueueEmpty(s)
        BY <1>0, <2>2, <3>2, <3>5 DEF QueueEmpty, Quiet
      <3> QED
        BY <1>4, <3>3, <3>4, <3>5 DEF BeginPacket, EndPacket
    <2> QED
      BY <1>1, <1>2, <2>1, <2>2 DEF NothingYet, ThreeRecorded, BeforeRecording
  <1> QED
    BY <1>3, <1>4 DEF DeviceStep

LEMMA AppNextInv ==
    RecorderAppConstants /\ TypeInv /\ MainInv /\ NothingYet /\ ThreeRecorded /\ [AppNext]_rvars
    => MainInv' /\ NothingYet' /\ ThreeRecorded'
  <1>1. CASE UNCHANGED rvars
    BY <1>1 DEF rvars, vars, MainInv, NothingYet, ThreeRecorded, BeforeRecording
  <1> QED
    BY <1>1, MainStepInv, DeviceStepInv DEF AppNext

(* main of advanced_recorder_test: whatever fails and whatever packets come *)
(* while the signals are connected, there is a port for each of the three,  *)
(* and while main sleeps all three are recorded into test.sie.              *)
THEOREM ThreeSignalsRecorded == RecorderAppConstants /\ AppSpec => []RecordsAllThree
  <1>1. CASE RecorderAppConstants
    <2> DEFINE Inv == MainInv /\ NothingYet /\ ThreeRecorded
    <2>1. AppInit => Init
      BY DEF AppInit
    <2>2. AppInit => Inv
      BY <1>1, AppInitInv
    <2>3. [AppNext]_rvars => [Next]_vars
      BY <1>1, AppSteps
    <2>4. TypeInv /\ Inv /\ [AppNext]_rvars => Inv'
      BY <1>1, AppNextInv
    <2>5. TypeInv /\ Inv => RecordsAllThree
      BY DEF MainInv, ThreeRecorded, BeforeRecording, RecordsAllThree, At, HasPort, Wanted
    <2> QED
      BY <2>1, <2>2, <2>3, <2>4, <2>5, TypeInit, TypeNext, LockInit, LockNext, PTL DEF AppSpec
  <1>2. CASE ~RecorderAppConstants
    BY <1>2
  <1> QED
    BY <1>1, <1>2
=============================================================================
