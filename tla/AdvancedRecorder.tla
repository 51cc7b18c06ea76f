-------------------------- MODULE AdvancedRecorder --------------------------
(***************************************************************************)
(* The advanced recorder function block: its dynamic input ports, its      *)
(* configuration (recordingActive, Filename) and the lifetime of the       *)
(* writer and of the AdvancedRecorderSignal objects that share it.         *)
(*                                                                         *)
(* Users connect and disconnect signals and call startRecording etc. from  *)
(* threads of their own; a connection changes in the port first and the    *)
(* callback runs later, under the recorder's lock.  Senders are the        *)
(* threads that deliver packets (same-thread notification).  They take the *)
(* lock only to look their signal up.                                      *)
(*                                                                         *)
(* What a writer writes into its file is the subject of SieWriter and      *)
(* RecorderSignals; here a writer has the file it was opened on, and       *)
(* whether data was written to it.                                         *)
(***************************************************************************)
EXTENDS Integers, Sequences

CONSTANTS
    Users,          \* threads that use the recorder
    Senders,        \* threads that send packets
    Sources,        \* signals that may be connected
    Files,          \* values of the Filename property
    NoSource,       \* "not connected"
    Nobody,         \* "the lock is free"
    OpenMayFail,    \* TRUE iff opening the file may fail
    PreambleMayFail,\* TRUE iff writing the preamble may fail
    MaxPorts,       \* bound on the number of input ports
    MaxWriters      \* bound on the number of files opened

Ports == 1..MaxPorts

ASSUME AdvancedRecorderAssumption ==
    /\ NoSource \notin Sources
    /\ Nobody \notin Users
    /\ MaxPorts \in Nat \ {0}
    /\ MaxWriters \in Nat
    /\ OpenMayFail \in BOOLEAN
    /\ PreambleMayFail \in BOOLEAN

VARIABLES
    portCount,      \* the input ports are Value1 .. Value<portCount>
    connection,     \* the signal each port is connected to (openDAQ)
    recordingActive,
    filename,       \* the Filename property
    writer,         \* the current writer, NoWriter if none
    opened,         \* every writer ever opened, in that order
    signals,        \* the AdvancedRecorderSignal of each port
    lock,           \* who holds the recorder's lock across steps
    user,           \* what each user is doing
    sender          \* what each sender is doing

vars == <<portCount, connection, recordingActive, filename, writer, opened,
          signals, lock, user, sender>>
ports == <<portCount, connection>>
config == <<recordingActive, filename>>
recording == <<writer, opened, signals>>

NoWriter == 0
NoSignal == [source |-> NoSource, writer |-> NoWriter]

AtRest == [step |-> "idle", port |-> 1]
Quiet == [step |-> "idle", port |-> 1, signal |-> NoSignal]

Connected(p) == connection[p] # NoSource
LockFree == lock = Nobody

-----------------------------------------------------------------------------
(* reconfigure(), for the given new values of recordingActive, Filename and *)
(* portCount.                                                               *)

NewWriter(f) == [file |-> f, data |-> FALSE]

(* Mutants of Refresh: the object of a disconnected port stays; only new     *)
(* connections get an object.                                               *)
RefreshKeepingOld(w, n) ==
    signals' = [p \in Ports |->
                   IF signals[p] # NoSignal THEN signals[p]
                   ELSE IF p > n \/ ~Connected(p) THEN NoSignal
                   ELSE [source |-> connection[p], writer |-> w]]

RefreshNewOnly(w, n) ==
    signals' = [p \in Ports |->
                   IF p > n \/ ~Connected(p) \/ signals[p] # NoSignal THEN NoSignal
                   ELSE [source |-> connection[p], writer |-> w]]

(* Mutant of Refresh: only the first new connection gets an object.         *)
RefreshFirstNew(w, n) ==
    signals' = [p \in Ports |->
                   IF p > n \/ ~Connected(p) THEN NoSignal
                   ELSE IF \E q \in 1..(p - 1) : Connected(q) /\ signals[q] = NoSignal
                   THEN signals[p]
                   ELSE IF signals[p] # NoSignal THEN signals[p]
                   ELSE [source |-> connection[p], writer |-> w]]

(* Connected ports keep their signal object or get one for writer w; the    *)
(* objects of other ports are destroyed.                                    *)
Refresh(w, n) ==
    signals' = [p \in Ports |->
                   IF p > n \/ ~Connected(p) THEN NoSignal
                   ELSE IF signals[p] # NoSignal THEN signals[p]
                   ELSE [source |-> connection[p], writer |-> w]]

(* Mutant of StopAll: the signal objects are not destroyed.                 *)
StopKeepingSignals ==
    /\ writer' = NoWriter
    /\ UNCHANGED <<signals, opened>>

StopAll ==
    /\ signals' = [p \in Ports |-> NoSignal]
    /\ writer' = NoWriter
    /\ UNCHANGED opened

(* Mutant of KeepWriter: a writer is opened again.                          *)
KeepWriterReopening(n) ==
    /\ writer # NoWriter
    /\ opened' = IF Len(opened) < MaxWriters THEN Append(opened, NewWriter(filename)) ELSE opened
    /\ writer' = Len(opened')
    /\ Refresh(writer', n)

KeepWriter(n) ==
    /\ writer # NoWriter
    /\ Refresh(writer, n)
    /\ UNCHANGED <<writer, opened>>

(* Mutant of OpenWriter: the writer of an earlier recording is used again.  *)
ReuseWriter(f, n) ==
    /\ writer = NoWriter
    /\ opened' = IF opened = <<>> THEN <<NewWriter(f)>> ELSE opened
    /\ writer' = Len(opened')
    /\ Refresh(writer', n)

OpenWriter(f, n) ==
    /\ writer = NoWriter
    /\ Len(opened) < MaxWriters
    /\ opened' = Append(opened, NewWriter(f))
    /\ writer' = Len(opened')
    /\ Refresh(writer', n)

(* The file cannot be opened: the exception leaves reconfigure.             *)
OpenFails ==
    /\ OpenMayFail
    /\ writer = NoWriter
    /\ UNCHANGED recording

(* The preamble cannot be written: `writer' is set by then.                 *)
PreambleFails(f) ==
    /\ PreambleMayFail
    /\ writer = NoWriter
    /\ Len(opened) < MaxWriters
    /\ opened' = Append(opened, NewWriter(f))
    /\ writer' = Len(opened')
    /\ UNCHANGED signals

Reconfigure(active, f, n) ==
    \/ ~active /\ StopAll
    \/ active /\ (KeepWriter(n) \/ OpenWriter(f, n) \/ OpenFails \/ PreambleFails(f))

-----------------------------------------------------------------------------
Init ==
    /\ portCount = 1
    /\ connection = [p \in Ports |-> NoSource]
    /\ recordingActive = FALSE
    /\ filename \in Files
    /\ writer = NoWriter
    /\ opened = <<>>
    /\ signals = [p \in Ports |-> NoSignal]
    /\ lock = Nobody
    /\ user = [u \in Users |-> AtRest]
    /\ sender = [s \in Senders |-> Quiet]

UserIdle(u) == user[u].step = "idle"

StartRecording(u) ==
    /\ UserIdle(u) /\ LockFree
    /\ recordingActive' = TRUE
    /\ Reconfigure(TRUE, filename, portCount)
    /\ UNCHANGED <<ports, filename, lock, user, sender>>

(* stopRecording, and activeChanged when the component was deactivated.     *)
StopRecording(u) ==
    /\ UserIdle(u) /\ LockFree
    /\ recordingActive' = FALSE
    /\ Reconfigure(FALSE, filename, portCount)
    /\ UNCHANGED <<ports, filename, lock, user, sender>>

SetFilename(u, f) ==
    /\ UserIdle(u) /\ LockFree
    /\ filename' = f
    /\ Reconfigure(recordingActive, f, portCount)
    /\ UNCHANGED <<ports, recordingActive, lock, user, sender>>

(* The port is connected, outside the recorder's lock; its callback is due. *)
Connect(u, p, src) ==
    /\ UserIdle(u)
    /\ p <= portCount /\ ~Connected(p)
    /\ portCount < MaxPorts
    /\ connection' = [connection EXCEPT ![p] = src]
    /\ user' = [user EXCEPT ![u] = [step |-> "connected", port |-> p]]
    /\ UNCHANGED <<portCount, config, recording, lock, sender>>

OnConnected(u) ==
    /\ user[u].step = "connected" /\ LockFree
    /\ portCount < MaxPorts
    /\ portCount' = portCount + 1
    /\ Reconfigure(recordingActive, filename, portCount')
    /\ user' = [user EXCEPT ![u] = AtRest]
    /\ UNCHANGED <<connection, config, lock, sender>>

Disconnect(u, p) ==
    /\ UserIdle(u)
    /\ p <= portCount /\ Connected(p)
    /\ connection' = [connection EXCEPT ![p] = NoSource]
    /\ user' = [user EXCEPT ![u] = [step |-> "disconnected", port |-> p]]
    /\ UNCHANGED <<portCount, config, recording, lock, sender>>

OnDisconnected(u) ==
    /\ user[u].step = "disconnected" /\ LockFree
    /\ lock' = u
    /\ user' = [user EXCEPT ![u].step = "trimming"]
    /\ UNCHANGED <<ports, config, recording, sender>>

(* Mutants of Removable: the last free port may go; the first two stay.     *)
RemovableIfFree == portCount >= 2 /\ ~Connected(portCount)
RemovableAboveTwo == portCount >= 3 /\ ~Connected(portCount) /\ ~Connected(portCount - 1)

(* The loop of onDisconnected goes on.                                      *)
Removable == portCount >= 2 /\ ~Connected(portCount) /\ ~Connected(portCount - 1)

CheckPorts(u) ==
    /\ user[u].step = "trimming"
    /\ Removable
    /\ user' = [user EXCEPT ![u].step = "removing"]
    /\ UNCHANGED <<ports, config, recording, lock, sender>>

(* The last port goes, with the connection another user may have made since *)
(* the check (openDAQ disconnects a removed port, without a callback).       *)
RemoveInputPort(u) ==
    /\ user[u].step = "removing"
    /\ portCount' = portCount - 1
    /\ connection' = [connection EXCEPT ![portCount] = NoSource]
    /\ user' = [user EXCEPT ![u].step = "trimming"]
    /\ UNCHANGED <<config, recording, lock, sender>>

OnDisconnectedEnds(u) ==
    /\ user[u].step = "trimming"
    /\ ~Removable
    /\ Reconfigure(recordingActive, filename, portCount)
    /\ lock' = Nobody
    /\ user' = [user EXCEPT ![u] = AtRest]
    /\ UNCHANGED <<ports, config, sender>>

-----------------------------------------------------------------------------
(* onPacketReceived: findSignal copies the shared_ptr under the lock ...     *)
FindSignal(s, p) ==
    /\ sender[s].step = "idle" /\ LockFree
    /\ p <= portCount /\ Connected(p)
    /\ sender' = [sender EXCEPT ![s] = [step |-> "found", port |-> p, signal |-> signals[p]]]
    /\ UNCHANGED <<ports, config, recording, lock, user>>

(* ... then the connection is read, without the lock ...                     *)
GetConnection(s) ==
    /\ sender[s].step = "found"
    /\ sender' = [sender EXCEPT ![s] =
                     IF Connected(sender[s].port) THEN [@ EXCEPT !.step = "dequeue"] ELSE Quiet]
    /\ UNCHANGED <<ports, config, recording, lock, user>>

(* ... a packet goes to the signal object that was found ...                 *)
DeliverPacket(s) ==
    LET w == sender[s].signal.writer IN
    /\ sender[s].step = "dequeue"
    /\ w # NoWriter
    /\ opened' = [opened EXCEPT ![w].data = TRUE]
    /\ UNCHANGED <<ports, config, writer, signals, lock, user, sender>>

(* ... until the queue is empty, when the shared_ptr goes.                   *)
QueueEmpty(s) ==
    /\ sender[s].step = "dequeue"
    /\ sender' = [sender EXCEPT ![s] = Quiet]
    /\ UNCHANGED <<ports, config, recording, lock, user>>

UserStep(u) ==
    \/ StartRecording(u)
    \/ StopRecording(u)
    \/ \E f \in Files : SetFilename(u, f)
    \/ \E p \in Ports, src \in Sources : Connect(u, p, src)
    \/ OnConnected(u)
    \/ \E p \in Ports : Disconnect(u, p)
    \/ OnDisconnected(u)
    \/ CheckPorts(u)
    \/ RemoveInputPort(u)
    \/ OnDisconnectedEnds(u)

SenderStep(s) ==
    \/ \E p \in Ports : FindSignal(s, p)
    \/ GetConnection(s)
    \/ DeliverPacket(s)
    \/ QueueEmpty(s)

Next == (\E u \in Users : UserStep(u)) \/ (\E s \in Senders : SenderStep(s))

Spec == Init /\ [][Next]_vars

-----------------------------------------------------------------------------
(* Properties                                                              *)

SignalObjects == [source : Sources \cup {NoSource}, writer : 0..MaxWriters]

(* Every variable keeps its type.                                          *)
TypeOK ==
    /\ portCount \in Ports
    /\ connection \in [Ports -> Sources \cup {NoSource}]
    /\ recordingActive \in BOOLEAN
    /\ filename \in Files
    /\ writer \in 0..MaxWriters
    /\ opened \in Seq([file : Files, data : BOOLEAN])
    /\ signals \in [Ports -> SignalObjects]
    /\ lock \in Users \cup {Nobody}
    /\ user \in [Users -> [step : {"idle", "connected", "disconnected", "trimming",
                             "removing"}, port : Ports]]
    /\ sender \in [Senders -> [step : {"idle", "found", "dequeue"}, port : Ports,
                               signal : SignalObjects]]

CallbackDue == \E u \in Users : user[u].step # "idle"

(* advanced_recorder_impl.h: ports are added "so that at least one          *)
(* unconnected input port is always available".  The last port is free,     *)
(* except while the callback that adds the next one is still due; also when *)
(* several users connect and disconnect concurrently.                       *)
LastPortFree ==
    Connected(portCount) => \E u \in Users : user[u].step = "connected"

(* advanced_recorder_impl.h, onDisconnected: ports are removed "so that     *)
(* only one unconnected port is always present at the end".  So it is when  *)
(* a disconnect callback returns and no other callback is due, however many *)
(* free ports connects and overtaken callbacks had left there.              *)
OneFreePortAfterDisconnect ==
    [][\A u \in Users :
          user[u].step = "trimming" /\ user'[u].step = "idle" /\ ~CallbackDue' =>
              (portCount = 1 \/ Connected(portCount - 1))']_vars

(* Also when Filename is written while recording, when users overtake each  *)
(* other's callbacks, and when opening a file or writing its preamble has   *)
(* failed before: every signal object records into the recorder's current   *)
(* writer, never into one of an earlier recording or of another file.       *)
SignalsUseCurrentWriter ==
    \A p \in Ports : signals[p] # NoSignal => writer # NoWriter /\ signals[p].writer = writer

(* The writers some shared_ptr still keeps open.                           *)
LiveWriters ==
    ({writer} \cup {signals[p].writer : p \in Ports}
              \cup {sender[s].signal.writer : s \in Senders}) \ {NoWriter}

(* After stopRecording, and once the packets in flight are done, the file   *)
(* is closed: nothing keeps a writer (and its last index block) back.       *)
StoppedFileIsClosed ==
    ~recordingActive /\ (\A s \in Senders : sender[s].step = "idle") => LiveWriters = {}

(* A file that is closed stays closed: no later recording, and no packet    *)
(* that was in flight, ever writes to it again.                             *)
ClosedStaysClosed ==
    [][\A w \in DOMAIN opened :
          w \notin LiveWriters => w \notin LiveWriters' /\ opened'[w] = opened[w]]_vars

(* The recorder, its users, senders and failures do to files what           *)
(* RecorderFiles allows: a recording gets a file of its own, and a packet   *)
(* in flight adds to no file but the open one it was sent for.              *)
Recordings == INSTANCE RecorderFiles WITH
                 files <- opened, open <- LiveWriters, current <- writer

ImplementsRecorderFiles == Recordings!FilesSpec

(* advanced_recorder_impl.h: connecting or disconnecting "does not disturb  *)
(* ongoing recording of other signals".  A signal object goes away only     *)
(* when its own port is disconnected or gone, or when recording stops.      *)
Undisturbed ==
    [][\A p \in Ports :
          signals[p] # NoSignal /\ signals'[p] # signals[p] =>
              ~recordingActive' \/ ~Connected(p)' \/ p > portCount']_vars

=============================================================================
