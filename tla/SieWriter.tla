----------------------------- MODULE SieWriter -----------------------------
(***************************************************************************)
(* The writer stack of the advanced recorder: basic_writer on top of       *)
(* basic_indexed_writer on top of basic_block_writer on top of a file.     *)
(*                                                                         *)
(* A block of the file is abstracted to where it starts, how long it is,   *)
(* its group, the group its XML declares (metadata blocks) and the entries *)
(* it holds (index blocks).  Payload bytes and the CRC are left out.       *)
(*                                                                         *)
(* No lock protects the writer.  Each thread that is inside write_block is *)
(* stepped through the memory accesses of the compiled code, so that       *)
(* concurrent calls may lose an update of `offset' or of `index'.  Memory  *)
(* corruption by a racing reallocation of `index' is not modelled.         *)
(***************************************************************************)
EXTENDS Integers, Sequences, FiniteSets

CONSTANTS
    Threads,        \* threads that may call write_block
    INDEX_EVERY,    \* an index block is due after this many other blocks
    Payloads,       \* payload sizes, in bytes, that clients write
    TornLengths,    \* bytes that reach the file when a write fails
    MayFail,        \* TRUE iff a write to the file may fail
    Serialised,     \* TRUE iff the callers never overlap in time
    MaxCalls,       \* bound on the number of write_block calls
    MaxGroup        \* bound on the group numbers in use

ASSUME SieWriterAssumption ==
    /\ INDEX_EVERY \in Nat \ {0}
    /\ Payloads \subseteq Nat
    /\ TornLengths \subseteq Nat
    /\ MayFail \in BOOLEAN
    /\ Serialised \in BOOLEAN
    /\ MaxCalls \in Nat
    /\ MaxGroup \in Nat \ {0, 1}

VARIABLES
    file,       \* the complete blocks in the file, in file order
    fileLen,    \* the position at which the next write lands
    index,      \* indexed_writer::index
    offset,     \* indexed_writer::offset
    pc,         \* where each thread is inside write_block
    call,       \* the arguments of each thread's current call
    regs,       \* what each thread has loaded from `index' and `offset'
    calls,      \* number of write_block calls so far (bound only)
    damaged,    \* history: some failed write made index or offset wrong
    closed      \* the destructor has run

vars == <<file, fileLen, index, offset, pc, call, regs, calls, damaged, closed>>

METADATA == 0
INDEX == 1
HeaderSize == 12        \* sizeof(block_header)
FooterSize == 8         \* sizeof(block_footer)
EntrySize == 12         \* sizeof(index_entry)

BlockSize(payload) == HeaderSize + payload + FooterSize

Entry(off, g) == [offset |-> off, group |-> g]
Block(at, size, g, decl, entries) ==
    [at |-> at, size |-> size, group |-> g, declares |-> decl, entries |-> entries]

NoCall == [group |-> METADATA, size |-> 0, declares |-> METADATA]
Groups == 0..MaxGroup
UserGroups == Groups \ {INDEX}

(* Only the XML of a metadata block declares a group (METADATA: none).      *)
Declarable(g) == IF g = METADATA THEN UserGroups ELSE {METADATA}

NoRegs == [index |-> <<>>, offset |-> 0]

Idle(t) == pc[t] = "idle"
AllIdle == \A t \in Threads : Idle(t)

Goto(t, label) == pc' = [pc EXCEPT ![t] = label]

-----------------------------------------------------------------------------
Init ==
    /\ file = <<>>
    /\ fileLen = 0
    /\ index = <<>>
    /\ offset = 0
    /\ pc = [t \in Threads |-> "idle"]
    /\ call = [t \in Threads |-> NoCall]
    /\ regs = [t \in Threads |-> NoRegs]
    /\ calls = 0
    /\ damaged = FALSE
    /\ closed = FALSE

(* Appends one block to the file: the successful return of file.write().   *)
AppendBlock(size, g, decl, entries) ==
    /\ file' = Append(file, Block(fileLen, size, g, decl, entries))
    /\ fileLen' = fileLen + size

(* file.write() throws after k of the size bytes of the block were written. *)
WriteTorn(size, k) ==
    /\ MayFail
    /\ k \in TornLengths
    /\ k < size
    /\ fileLen' = fileLen + k
    /\ UNCHANGED file

(* write_block(group, payload) is entered: emplace_back loads `offset' and  *)
(* the end of the vector.                                                   *)
Enter(t, g, payload, decl) ==
    /\ ~closed
    /\ Idle(t)
    /\ Serialised => AllIdle
    /\ calls < MaxCalls
    /\ calls' = calls + 1
    /\ call' = [call EXCEPT ![t] =
                    [group |-> g, size |-> BlockSize(payload), declares |-> decl]]
    /\ regs' = [regs EXCEPT ![t] = [index |-> index, offset |-> offset]]
    /\ Goto(t, "emplace")
    /\ UNCHANGED <<file, fileLen, index, offset, damaged, closed>>

(* emplace_back stores the entry and the new end of the vector.             *)
EmplaceEntry(t) ==
    /\ pc[t] = "emplace"
    /\ index' = Append(regs[t].index, Entry(regs[t].offset, call[t].group))
    /\ Goto(t, "write")
    /\ UNCHANGED <<file, fileLen, offset, call, regs, calls, damaged, closed>>

WriteBlock(t) ==
    /\ pc[t] = "write"
    /\ AppendBlock(call[t].size, call[t].group, call[t].declares, <<>>)
    /\ Goto(t, "load")
    /\ UNCHANGED <<index, offset, call, regs, calls, damaged, closed>>

(* The exception leaves write_block: the entry stays in `index' and         *)
(* `offset' is not advanced, whatever reached the file.                     *)
WriteBlockFails(t) ==
    /\ pc[t] = "write"
    /\ \E k \in TornLengths : WriteTorn(call[t].size, k)
    /\ damaged' = TRUE
    /\ Goto(t, "threw")
    /\ UNCHANGED <<index, offset, call, regs, calls, closed>>

(* offset += ... is a load and a store.                                     *)
LoadOffset(t) ==
    /\ pc[t] \in {"load", "loadIndexed"}
    /\ regs' = [regs EXCEPT ![t].offset = offset]
    /\ Goto(t, IF pc[t] = "load" THEN "store" ELSE "storeIndexed")
    /\ UNCHANGED <<file, fileLen, index, offset, call, calls, damaged, closed>>

(* Mutant of AdvanceOffset: the size is not added.                          *)
KeepOffset(t) == offset' = regs[t].offset

AdvanceOffset(t) == offset' = regs[t].offset + call[t].size

IndexDue == Len(index) >= INDEX_EVERY

StoreOffset(t) ==
    /\ pc[t] = "store"
    /\ AdvanceOffset(t)
    /\ Goto(t, IF IndexDue THEN "flush" ELSE "done")
    /\ UNCHANGED <<file, fileLen, index, call, regs, calls, damaged, closed>>

-----------------------------------------------------------------------------
(* flush_index                                                              *)
(* Mutant of IndexBlockSize: the entries are forgotten.                     *)
EmptyIndexBlockSize == BlockSize(0)

IndexBlockSize == BlockSize(EntrySize * Len(index))

FlushNothing(t) ==
    /\ pc[t] = "flush"
    /\ index = <<>>
    /\ Goto(t, "done")
    /\ UNCHANGED <<file, fileLen, index, offset, call, regs, calls, damaged, closed>>

WriteIndex(t) ==
    /\ pc[t] = "flush"
    /\ index # <<>>
    /\ AppendBlock(IndexBlockSize, INDEX, METADATA, index)
    /\ call' = [call EXCEPT ![t].size = IndexBlockSize]
    /\ Goto(t, "loadIndexed")
    /\ UNCHANGED <<index, offset, regs, calls, damaged, closed>>

(* The index may be empty when it is looked at again: an overlapping call   *)
(* has flushed it in between.                                               *)
FlushIndex(t) == IF index = <<>> THEN FlushNothing(t) ELSE WriteIndex(t)

(* The entries are kept and the next call tries again, so a failure that    *)
(* leaves no byte behind does no damage.                                    *)
FlushIndexFails(t) ==
    /\ pc[t] = "flush"
    /\ index # <<>>
    /\ \E k \in TornLengths :
          /\ WriteTorn(IndexBlockSize, k)
          /\ damaged' = (damaged \/ k > 0)
    /\ Goto(t, "threw")
    /\ UNCHANGED <<index, offset, call, regs, calls, closed>>

(* Mutant of ClearEntries: the written entries stay.                        *)
KeepEntries == UNCHANGED index

ClearEntries == index' = <<>>

ClearIndex(t) ==
    /\ pc[t] = "storeIndexed"
    /\ AdvanceOffset(t)
    /\ ClearEntries
    /\ Goto(t, "done")
    /\ UNCHANGED <<file, fileLen, call, regs, calls, damaged, closed>>

(* The call is back in its caller, with a result or with an exception.      *)
Return(t) ==
    /\ pc[t] \in {"done", "threw"}
    /\ Goto(t, "idle")
    /\ call' = [call EXCEPT ![t] = NoCall]
    /\ regs' = [regs EXCEPT ![t] = NoRegs]
    /\ UNCHANGED <<file, fileLen, index, offset, calls, damaged, closed>>

(* The destructor, run when the last shared_ptr to the writer is gone and   *)
(* so when no call is in progress.  It swallows a failed flush.             *)
Close ==
    /\ ~closed
    /\ AllIdle
    /\ closed' = TRUE
    /\ \/ /\ index = <<>>
          /\ UNCHANGED <<file, fileLen, index, offset, damaged>>
       \/ /\ index # <<>>
          /\ AppendBlock(IndexBlockSize, INDEX, METADATA, index)
          /\ offset' = offset + IndexBlockSize
          /\ index' = <<>>
          /\ UNCHANGED damaged
       \/ /\ index # <<>>
          /\ \E k \in TornLengths : WriteTorn(IndexBlockSize, k)
          /\ damaged' = TRUE
          /\ UNCHANGED <<index, offset>>
    /\ UNCHANGED <<pc, call, regs, calls>>

WriterStep(t) ==
    \/ EmplaceEntry(t)
    \/ WriteBlock(t)
    \/ WriteBlockFails(t)
    \/ LoadOffset(t)
    \/ StoreOffset(t)
    \/ FlushIndex(t)
    \/ FlushIndexFails(t)
    \/ ClearIndex(t)

Next ==
    \/ \E t \in Threads :
          \/ \E g \in UserGroups, p \in Payloads : \E d \in Declarable(g) : Enter(t, g, p, d)
          \/ WriterStep(t)
          \/ Return(t)
    \/ Close

Spec == Init /\ [][Next]_vars

-----------------------------------------------------------------------------
(* Properties                                                              *)

Labels == {"idle", "emplace", "write", "load", "store", "flush",
           "loadIndexed", "storeIndexed", "done", "threw"}
Entries == [offset : Nat, group : Nat]
Blocks == [at : Nat, size : Nat, group : Nat, declares : Nat, entries : Seq(Entries)]

(* Every variable keeps its type whatever the threads and the failures do. *)
TypeOK ==
    /\ file \in Seq(Blocks)
    /\ fileLen \in Nat
    /\ index \in Seq(Entries)
    /\ offset \in Nat
    /\ pc \in [Threads -> Labels]
    /\ call \in [Threads -> [group : Nat, size : Nat, declares : Nat]]
    /\ regs \in [Threads -> [index : Seq(Entries), offset : Nat]]
    /\ calls \in Nat
    /\ damaged \in BOOLEAN
    /\ closed \in BOOLEAN

(* Entry e names the k-th block of the file: its absolute offset and group. *)
Names(e, k) == e.offset = file[k].at /\ e.group = file[k].group

(* format.h: each entry of an index block "specifies the file offset of a   *)
(* preceding block" and carries that block's group.  IndexIsAccurate is the *)
(* claim without qualification.                                             *)
IndexIsAccurate ==
    \A i \in DOMAIN file : \A j \in DOMAIN file[i].entries :
        \E k \in 1..(i - 1) : Names(file[i].entries[j], k)

(* The claim for callers that take turns, for as long as no failed write    *)
(* has left bytes in the file or an entry for a block that is not there.    *)
IndexAccurateUntilDamaged == ~damaged => IndexIsAccurate

(* The references to block k: index entries in the file, and entries of    *)
(* the index that is still in memory.                                       *)
FileRefs(k) ==
    UNION {{<<i, j>> : j \in {j \in DOMAIN file[i].entries : Names(file[i].entries[j], k)}}
               : i \in DOMAIN file}
PendingRefs(k) == {j \in DOMAIN index : Names(index[j], k)}

(* basic_indexed_writer.h: index blocks hold the group and offset of "each  *)
(* previously-written block".  Between calls every block is referenced      *)
(* exactly once, by an index block or by the index in memory; after the     *)
(* destructor no reference is left in memory.                               *)
EveryBlockIndexedOnce ==
    (~damaged /\ AllIdle) =>
        /\ \A k \in DOMAIN file :
              file[k].group # INDEX =>
                  Cardinality(FileRefs(k)) + Cardinality(PendingRefs(k)) = 1
        /\ closed => index = <<>>
=============================================================================
