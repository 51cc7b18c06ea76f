---------------------------- MODULE PlaybackLog ----------------------------
(***************************************************************************)
(* The log file of a playback device, offered by onGetLogFileInfos and     *)
(* handed out in chunks by onGetLog.  A client asks for the infos and then *)
(* downloads the file; meanwhile whoever writes the log appends to it,     *)
(* truncates it, removes it and starts a new one, and a user switches      *)
(* EnableLogging.  Neither method holds a lock while it looks at the file. *)
(*                                                                         *)
(* The bytes of the log are numbered; a file that is open can be read      *)
(* after it has been removed.                                              *)
(***************************************************************************)
EXTENDS Integers, SequencesExt

CONSTANTS
    Sizes,          \* the chunk sizes a client asks for; -1 is all the rest
    MaxBytes,       \* bound on the bytes ever logged
    MaxFiles        \* bound on the log files ever created

VARIABLES
    loggingEnabled,
    path,           \* the file loggingPath names; 0: none
    content,        \* of every file there has been
    bytes,          \* bytes logged so far
    pc,             \* where the client is
    request,        \* the chunk size it asked for
    handle,         \* the file onGetLog has open
    fileSize,       \* fileSize of onGetLog, size of onGetLogFileInfos
    downloaded,     \* what the client has got
    announced,      \* history: the size in the log file info
    disturbed,      \* history: since the infos were asked for, the file was
                    \* truncated or removed, or logging switched off
    wasOn           \* history: since the client's call of onGetLog, logging
                    \* was enabled at some time

log == <<path, content, bytes>>
client == <<request, handle, fileSize, downloaded, announced>>
lvars == <<loggingEnabled, log, pc, client, disturbed, wasOn>>

(* A configuration without EnableLogging leaves loggingEnabled undefined     *)
(* when it is made the default of the property.                             *)
Init ==
    /\ loggingEnabled \in BOOLEAN
    /\ path = 0 /\ content = <<>> /\ bytes = 0
    /\ pc = "start"
    /\ request = 0 /\ handle = 0 /\ fileSize = 0
    /\ downloaded = <<>> /\ announced = 0
    /\ disturbed = FALSE /\ wasOn = loggingEnabled

Goto(from, to) == pc = from /\ pc' = to
Offset == Len(downloaded)
environment == <<loggingEnabled, log, disturbed, wasOn>>

-----------------------------------------------------------------------------
(* onGetLogFileInfos                                                        *)

AskForInfos ==
    /\ Goto("start", "infos")
    /\ downloaded' = <<>> /\ announced' = 0
    /\ disturbed' = FALSE
    /\ UNCHANGED <<loggingEnabled, log, wasOn, request, handle, fileSize>>

InfosIfEnabled ==
    /\ Goto("infos", IF loggingEnabled THEN "exists" ELSE "start")
    /\ UNCHANGED <<client, environment>>

InfosIfExists ==
    /\ Goto("exists", IF path # 0 THEN "size" ELSE "start")
    /\ UNCHANGED <<client, environment>>

(* file_size and last_write_time throw if the file is gone by now.          *)
FileSize ==
    /\ Goto("size", IF path = 0 THEN "threw" ELSE "time")
    /\ fileSize' = IF path = 0 THEN 0 ELSE Len(content[path])
    /\ UNCHANGED <<request, handle, downloaded, announced, environment>>

LastWriteTime ==
    /\ Goto("time", IF path = 0 THEN "threw" ELSE "chunk")
    /\ announced' = IF path = 0 THEN 0 ELSE fileSize
    /\ UNCHANGED <<request, handle, fileSize, downloaded, environment>>

-----------------------------------------------------------------------------
(* onGetLog(loggingPath, size, offset), with the offset the client has come *)
(* to; an empty answer ends the download.                                   *)

GetLog(size) ==
    /\ Goto("chunk", "check")
    /\ request' = size
    /\ wasOn' = loggingEnabled
    /\ UNCHANGED <<loggingEnabled, log, disturbed, handle, fileSize, downloaded, announced>>

(* Mutant of LogAllowed: the switch is not looked at.                       *)
LogAllowedAlways == TRUE

LogAllowed == loggingEnabled

Check ==
    /\ Goto("check", IF LogAllowed THEN "open" ELSE "ended")
    /\ UNCHANGED <<client, environment>>

Open ==
    /\ Goto("open", IF path = 0 THEN "ended" ELSE "tell")
    /\ handle' = path
    /\ UNCHANGED <<request, fileSize, downloaded, announced, environment>>

(* Mutant of AtEnd: an empty chunk is handed out for ever.                  *)
PastEnd(size) == Offset > size

AtEnd(size) == Offset >= size

Tell ==
    /\ pc = "tell"
    /\ fileSize' = Len(content[handle])
    /\ pc' = IF AtEnd(fileSize') THEN "ended" ELSE "read"
    /\ UNCHANGED <<request, handle, downloaded, announced, environment>>

(* Mutant of ReadFrom: the file is read from the start.                     *)
ReadFromStart(k) == k

ReadFrom(k) == Offset + k

(* Bytes that are no longer there stay zero in the buffer.                  *)
Read ==
    /\ Goto("read", "chunk")
    /\ LET rest == fileSize - Offset
           size == IF request = -1 \/ request > rest THEN rest ELSE request
       IN  downloaded' = downloaded \o
               [k \in 1..size |-> IF ReadFrom(k) \in DOMAIN content[handle]
                                  THEN content[handle][ReadFrom(k)] ELSE 0]
    /\ UNCHANGED <<request, handle, fileSize, announced, environment>>

Again ==
    /\ pc \in {"ended", "threw"}
    /\ pc' = "start"
    /\ UNCHANGED <<client, environment>>

-----------------------------------------------------------------------------
(* The user, and the writer of the log (external).                          *)

EnableLogging(on) ==
    /\ loggingEnabled' = on
    /\ disturbed' = (disturbed \/ ~on)
    /\ wasOn' = (wasOn \/ on)
    /\ UNCHANGED <<log, pc, client>>

LogByte ==
    /\ path # 0 /\ bytes < MaxBytes
    /\ bytes' = bytes + 1
    /\ content' = [content EXCEPT ![path] = Append(@, bytes')]
    /\ UNCHANGED <<loggingEnabled, path, pc, client, disturbed, wasOn>>

CreateLog ==
    /\ path = 0 /\ Len(content) < MaxFiles
    /\ content' = Append(content, <<>>)
    /\ path' = Len(content')
    /\ UNCHANGED <<loggingEnabled, bytes, pc, client, disturbed, wasOn>>

TruncateLog ==
    /\ path # 0 /\ content[path] # <<>>
    /\ content' = [content EXCEPT ![path] = <<>>]
    /\ disturbed' = TRUE
    /\ UNCHANGED <<loggingEnabled, path, bytes, pc, client, wasOn>>

RemoveLog ==
    /\ path # 0
    /\ path' = 0
    /\ disturbed' = TRUE
    /\ UNCHANGED <<loggingEnabled, content, bytes, pc, client, wasOn>>

InGetLog == Check \/ Open \/ Tell \/ Read
InGetLogFileInfos == InfosIfEnabled \/ InfosIfExists \/ FileSize \/ LastWriteTime

Next ==
    \/ AskForInfos \/ InGetLogFileInfos
    \/ \E size \in Sizes : GetLog(size)
    \/ InGetLog \/ Again
    \/ \E on \in BOOLEAN : EnableLogging(on)
    \/ LogByte \/ CreateLog \/ TruncateLog \/ RemoveLog

Spec == Init /\ [][Next]_lvars

(* Calls return, and a client that got a chunk asks for the next.           *)
Fairness ==
    /\ WF_lvars(InGetLogFileInfos) /\ WF_lvars(InGetLog)
    /\ WF_lvars(\E size \in Sizes : GetLog(size))

-----------------------------------------------------------------------------
(* Properties                                                              *)

(* The chunks a client puts together are the beginning of the log, without  *)
(* a gap or a repetition, also while the log grows under the download; and  *)
(* a download that ends undisturbed has at least what the log file info     *)
(* announced.                                                               *)
ChunksFitTogether ==
    ~disturbed =>
        /\ downloaded # <<>> => path # 0 /\ IsPrefix(downloaded, content[path])
        /\ pc = "ended" => Len(downloaded) >= announced

(* A call that begins after logging was switched off hands out nothing,     *)
(* whatever the undefined first value was and whatever infos the client has. *)
NothingIfOff == [][downloaded' # downloaded /\ downloaded' # <<>> => wasOn]_lvars

(* A download ends, at the latest when the log stops growing.               *)
DownloadEnds == pc = "chunk" ~> pc = "ended"
=============================================================================
