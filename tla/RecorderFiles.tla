--------------------------- MODULE RecorderFiles ---------------------------
(***************************************************************************)
(* What the recorder does to files, as a user sees it (from                *)
(* advanced_recorder_impl.h, "records data from its input signals into an  *)
(* SIE file", and reconfigure()).  Starting opens a new file, never one of *)
(* before, and only when none is being recorded into; stopping leaves it   *)
(* to the packets in flight, which may still add to it; and once it is     *)
(* closed it is closed for good.                                           *)
(***************************************************************************)
EXTENDS Naturals, Sequences

CONSTANT Files      \* names of files

VARIABLES
    files,          \* every file, in the order they were opened
    open,           \* those that are not closed
    current         \* the one that is recorded into, 0 if none

filesVars == <<files, open, current>>

FilesInit == files = <<>> /\ open = {} /\ current = 0

OpenFile ==
    /\ current = 0
    /\ \E f \in Files : files' = Append(files, [file |-> f, data |-> FALSE])
    /\ current' = Len(files')
    /\ open' = open \cup {current'}

(* Recording ends; the file may be closed with it.                          *)
StopRecording ==
    /\ current # 0
    /\ current' = 0
    /\ open' \in {open, open \ {current}}
    /\ UNCHANGED files

(* The last packet for a file of an earlier recording has been dealt with.  *)
CloseOld ==
    /\ \E w \in open \ {current} : open' = open \ {w}
    /\ UNCHANGED <<files, current>>

WriteData ==
    /\ \E w \in open : files' = [files EXCEPT ![w].data = TRUE]
    /\ UNCHANGED <<open, current>>

FilesNext == OpenFile \/ StopRecording \/ CloseOld \/ WriteData

FilesSpec == FilesInit /\ [][FilesNext]_filesVars
=============================================================================
