---------------------------- MODULE SieWriterLog ----------------------------
(* SieWriter implements IndexedLog when callers take turns, until a failed  *)
(* write does damage.                                                       *)
EXTENDS SieWriter

(* How many blocks of the file are covered by index blocks: the entries in  *)
(* memory stand for the blocks at the end of the file that are not, except  *)
(* that an entry is in memory before its block is in the file, and that the *)
(* entries of a written index block are cleared only after it.              *)
Covered ==
    IF \E t \in Threads : pc[t] \in {"loadIndexed", "storeIndexed"}
    THEN Len(file)
    ELSE IF \E t \in Threads : pc[t] = "write"
    THEN Len(file) - Len(index) + 1
    ELSE Len(file) - Len(index)

IndexBlockBytes(n) == BlockSize(EntrySize * n)

Log == INSTANCE IndexedLog WITH
          blocks <- file, indexed <- Covered,
          IndexGroup <- INDEX, IndexSize <- IndexBlockBytes

(* Every behaviour of the writer stack is, step by step, one of the         *)
(* abstract indexed log, up to the step in which a failed write leaves      *)
(* bytes in the file or an entry without a block.  An index block that      *)
(* could not be written and left no byte is made up for later.              *)
ImplementsIndexedLog ==
    Log!LogInit /\ [][damaged' \/ Log!LogNext]_(Log!logVars)

-----------------------------------------------------------------------------
(* The inductive invariant behind the index properties.                    *)

Busy(t) == pc[t] # "idle"

(* Callers take turns.                                                     *)
OneCaller == \A s, t \in Threads : Busy(s) /\ Busy(t) => s = t

(* `offset' is the end of the file, or lags by the block just written, and  *)
(* what a thread has loaded is still current.                               *)
OffsetInSync ==
    /\ AllIdle => offset = fileLen
    /\ \A t \in Threads :
          /\ pc[t] \in {"emplace", "write", "flush", "done", "threw"} => offset = fileLen
          /\ pc[t] \in {"load", "store", "loadIndexed", "storeIndexed"} =>
                offset + call[t].size = fileLen
          /\ pc[t] \in {"store", "storeIndexed"} => regs[t].offset = offset
          /\ pc[t] = "emplace" => regs[t].index = index /\ regs[t].offset = offset
          /\ pc[t] \in {"emplace", "write"} => call[t].group # INDEX

(* The entries in memory name, in order, the blocks that no index block     *)
(* covers; the entry of a block that is about to be written names the end   *)
(* of the file.                                                             *)
PendingMatches ==
    /\ Covered \in 0..Len(file)
    /\ \A j \in 1..(Len(file) - Covered) :
          /\ j \in 1..Len(index)
          /\ Names(index[j], Covered + j)
          /\ file[Covered + j].group # INDEX
    /\ \A t \in Threads :
          pc[t] = "write" => /\ index # <<>>
                            /\ index[Len(index)] = Entry(fileLen, call[t].group)

(* The file ends where its last block ends.                                *)
NoGapAtEnd == fileLen = Log!End

Undamaged == OffsetInSync /\ PendingMatches /\ NoGapAtEnd /\ IndexIsAccurate

SerialInv == Serialised => OneCaller /\ (~damaged => Undamaged)
=============================================================================
