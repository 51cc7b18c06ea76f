----------------------- MODULE RecorderSignalsProofs -----------------------
(***************************************************************************)
(* Theorems about the writer stack (SieWriter), for any set of threads and *)
(* any bounds, and about the signals that share it (RecorderSignals, which *)
(* extends it): any number of signals whose threads overlap in the writer  *)
(* as they like, with writes that fail.                                    *)
(***************************************************************************)
EXTENDS RecorderSignals, SieWriterLog, SequenceTheorems, FiniteSetTheorems, TLAPS

-----------------------------------------------------------------------------
(* The writer stack                                                         *)

USE DEF METADATA, INDEX, HeaderSize, FooterSize, EntrySize

LEMMA TypeInit == Init => TypeOK
  <1> SUFFICES ASSUME Init PROVE TypeOK
    OBVIOUS
  <1>1. NoCall \in [group : Nat, size : Nat, declares : Nat]
    BY DEF NoCall
  <1>2. NoRegs \in [index : Seq(Entries), offset : Nat]
    BY EmptySeq DEF NoRegs
  <1>3. /\ file \in Seq(Blocks) /\ index \in Seq(Entries)
        /\ fileLen \in Nat /\ offset \in Nat /\ calls \in Nat
        /\ damaged \in BOOLEAN /\ closed \in BOOLEAN
    BY EmptySeq DEF Init
  <1>4. pc \in [Threads -> Labels]
    BY DEF Init, Labels
  <1>5. call \in [Threads -> [group : Nat, size : Nat, declares : Nat]]
    BY <1>1 DEF Init
  <1>6. regs \in [Threads -> [index : Seq(Entries), offset : Nat]]
    BY <1>2 DEF Init
  <1> QED
    BY <1>3, <1>4, <1>5, <1>6 DEF TypeOK

LEMMA AppendType ==
    ASSUME NEW S, NEW s \in Seq(S), NEW e \in S
    PROVE  /\ Append(s, e) \in Seq(S)
           /\ Len(Append(s, e)) = Len(s) + 1
           /\ \A i \in 1..Len(s) : Append(s, e)[i] = s[i]
           /\ Append(s, e)[Len(s) + 1] = e
  OBVIOUS

(* The block that a write appends is a block.                              *)
LEMMA BlockType ==
    ASSUME NEW at \in Nat, NEW size \in Nat, NEW g \in Nat, NEW decl \in Nat,
           NEW es \in Seq(Entries)
    PROVE  Block(at, size, g, decl, es) \in Blocks
  BY DEF Block, Blocks

(* What TypeOK says of the numbers a call works with.                      *)
LEMMA CallTypes ==
    ASSUME TypeOK, NEW t \in Threads
    PROVE  /\ call[t].size \in Nat /\ call[t].group \in Nat /\ call[t].declares \in Nat
           /\ Len(file) \in Nat /\ Len(index) \in Nat /\ fileLen \in Nat
           /\ index \in Seq(Entries) /\ <<>> \in Seq(Entries)
  <1>1. call \in [Threads -> [group : Nat, size : Nat, declares : Nat]]
    BY DEF TypeOK
  <1>2. file \in Seq(Blocks) /\ index \in Seq(Entries) /\ fileLen \in Nat
    BY DEF TypeOK
  <1>3. Len(file) \in Nat /\ Len(index) \in Nat
    BY <1>2, LenProperties
  <1>4. call[t].size \in Nat /\ call[t].group \in Nat /\ call[t].declares \in Nat
    BY <1>1
  <1> QED
    BY <1>2, <1>3, <1>4, EmptySeq

LEMMA IndexBlockSizeType ==
    ASSUME index \in Seq(Entries)
    PROVE  IndexBlockSize \in Nat
  BY DEF IndexBlockSize, BlockSize

LEMMA TypeNext == TypeOK /\ [Next]_vars => TypeOK'
  <1> SUFFICES ASSUME TypeOK, [Next]_vars PROVE TypeOK'
    OBVIOUS
  <1> USE SieWriterAssumption
  <1>1. ASSUME NEW t \in Threads, NEW g \in UserGroups, NEW p \in Payloads,
               NEW d \in Declarable(g), Enter(t, g, p, d)
        PROVE  TypeOK'
    <2>1. [group |-> g, size |-> BlockSize(p), declares |-> d] \in [group : Nat, size : Nat, declares : Nat]
      BY DEF UserGroups, Groups, Declarable, BlockSize
    <2>2. [index |-> index, offset |-> offset] \in [index : Seq(Entries), offset : Nat]
      BY DEF TypeOK
    <2> QED
      BY <1>1, <2>1, <2>2 DEF Enter, Goto, TypeOK, Labels
  <1>2. ASSUME NEW t \in Threads, EmplaceEntry(t)
        PROVE  TypeOK'
    <2>1. Entry(regs[t].offset, call[t].group) \in Entries /\ regs[t].index \in Seq(Entries)
      BY DEF TypeOK, Entry, Entries
    <2> QED
      BY <1>2, <2>1 DEF EmplaceEntry, Goto, TypeOK, Labels
  <1>3. ASSUME NEW t \in Threads, WriteBlock(t)
        PROVE  TypeOK'
    <2>1. Block(fileLen, call[t].size, call[t].group, call[t].declares, <<>>) \in Blocks
      <3>1. <<>> \in Seq(Entries)
        BY EmptySeq
      <3> QED
        BY <3>1, BlockType DEF TypeOK
    <2> QED
      BY <1>3, <2>1 DEF WriteBlock, AppendBlock, Goto, TypeOK, Labels
  <1>4. ASSUME NEW t \in Threads, WriteBlockFails(t)
        PROVE  TypeOK'
    <2>1. fileLen' \in Nat
      BY <1>4 DEF WriteBlockFails, WriteTorn, TypeOK
    <2>2. file' = file
      BY <1>4 DEF WriteBlockFails, WriteTorn
    <2>3. damaged' \in BOOLEAN
      BY <1>4 DEF WriteBlockFails
    <2> QED
      BY <1>4, <2>1, <2>2, <2>3 DEF WriteBlockFails, Goto, TypeOK, Labels
  <1>5. ASSUME NEW t \in Threads, LoadOffset(t)
        PROVE  TypeOK'
    <2>1. regs' \in [Threads -> [index : Seq(Entries), offset : Nat]]
      BY <1>5 DEF LoadOffset, TypeOK
    <2> QED
      BY <1>5, <2>1 DEF LoadOffset, Goto, TypeOK, Labels
  <1>6. ASSUME NEW t \in Threads, StoreOffset(t)
        PROVE  TypeOK'
    <2>1. offset' \in Nat
      BY <1>6 DEF StoreOffset, AdvanceOffset, TypeOK
    <2> QED
      BY <1>6, <2>1 DEF StoreOffset, AdvanceOffset, Goto, TypeOK, Labels
  <1>7. ASSUME NEW t \in Threads, FlushNothing(t)
        PROVE  TypeOK'
    BY <1>7 DEF FlushNothing, Goto, TypeOK, Labels
  <1>8. ASSUME NEW t \in Threads, WriteIndex(t)
        PROVE  TypeOK'
    <2>1. IndexBlockSize \in Nat
      BY IndexBlockSizeType DEF TypeOK
    <2>2. Block(fileLen, IndexBlockSize, INDEX, METADATA, index) \in Blocks
      BY BlockType, <2>1 DEF TypeOK
    <2>3. call' \in [Threads -> [group : Nat, size : Nat, declares : Nat]]
      BY <1>8, <2>1 DEF WriteIndex, TypeOK
    <2>4. fileLen' \in Nat
      <3>1. fileLen' = fileLen + IndexBlockSize
        BY <1>8 DEF WriteIndex, AppendBlock
      <3> QED
        BY <2>1, <3>1 DEF TypeOK
    <2>5. file' \in Seq(Blocks)
      BY <1>8, <2>2, AppendType DEF WriteIndex, AppendBlock, TypeOK
    <2> QED
      BY <1>8, <2>3, <2>4, <2>5 DEF WriteIndex, Goto, TypeOK, Labels
  <1>9. ASSUME NEW t \in Threads, FlushIndexFails(t)
        PROVE  TypeOK'
    <2>1. fileLen' \in Nat
      BY <1>9 DEF FlushIndexFails, WriteTorn, TypeOK
    <2>2. file' = file /\ damaged' \in BOOLEAN
      BY <1>9 DEF FlushIndexFails, WriteTorn
    <2> QED
      BY <1>9, <2>1, <2>2 DEF FlushIndexFails, Goto, TypeOK, Labels
  <1>10. ASSUME NEW t \in Threads, ClearIndex(t)
         PROVE  TypeOK'
    <2>1. offset' \in Nat
      BY <1>10 DEF ClearIndex, AdvanceOffset, ClearEntries, TypeOK
    <2>2. index' \in Seq(Entries)
      BY <1>10, EmptySeq DEF ClearIndex, AdvanceOffset, ClearEntries
    <2> QED
      BY <1>10, <2>1, <2>2 DEF ClearIndex, AdvanceOffset, ClearEntries, Goto, TypeOK, Labels
  <1>11. ASSUME NEW t \in Threads, Return(t)
         PROVE  TypeOK'
    <2>1. /\ NoCall \in [group : Nat, size : Nat, declares : Nat]
          /\ NoRegs \in [index : Seq(Entries), offset : Nat]
      BY EmptySeq DEF NoCall, NoRegs
    <2> QED
      BY <1>11, <2>1 DEF Return, Goto, TypeOK, Labels
  <1>12. CASE Close
    <2>1. IndexBlockSize \in Nat
      BY IndexBlockSizeType DEF TypeOK
    <2>2. Block(fileLen, IndexBlockSize, INDEX, METADATA, index) \in Blocks
      BY BlockType, <2>1 DEF TypeOK
    <2>3. fileLen' \in Nat /\ offset' \in Nat
      BY <1>12, <2>1 DEF Close, AppendBlock, WriteTorn, TypeOK
    <2>4. file' \in Seq(Blocks)
      <3>1. Append(file, Block(fileLen, IndexBlockSize, INDEX, METADATA, index)) \in Seq(Blocks)
        BY <2>2, AppendType DEF TypeOK
      <3> QED
        BY <1>12, <3>1 DEF Close, AppendBlock, WriteTorn, TypeOK
    <2>5. index' \in Seq(Entries) /\ damaged' \in BOOLEAN /\ closed' \in BOOLEAN
      BY <1>12, EmptySeq DEF Close, TypeOK
    <2> QED
      BY <1>12, <2>3, <2>4, <2>5 DEF Close, TypeOK
  <1>13. CASE UNCHANGED vars
    BY <1>13 DEF vars, TypeOK
  <1> QED
    BY <1>1, <1>2, <1>3, <1>4, <1>5, <1>6, <1>7, <1>8, <1>9, <1>10, <1>11, <1>12, <1>13
       DEF Next, WriterStep, FlushIndex

(* Every variable of the writer stack keeps its type.                      *)
THEOREM TypeCorrect == Spec => []TypeOK
  BY TypeInit, TypeNext, PTL DEF Spec

-----------------------------------------------------------------------------
(* Callers that take turns                                                 *)

LEMMA OneCallerInit == Init => OneCaller
  BY DEF Init, OneCaller, Busy

(* A busy thread is the only one, and stays the only one when it moves on.  *)
LEMMA OnlyOne ==
    ASSUME TypeOK, OneCaller, NEW t \in Threads, Busy(t), NEW label \in Labels, Goto(t, label)
    PROVE  /\ OneCaller'
           /\ pc'[t] = label
           /\ \A s \in Threads : s # t => pc[s] = "idle" /\ pc'[s] = "idle"
  BY DEF TypeOK, OneCaller, Busy, Goto

LEMMA OneCallerNext ==
    ASSUME TypeOK, OneCaller, Serialised, [Next]_vars
    PROVE  OneCaller'
  <1>1. ASSUME NEW t \in Threads, NEW g \in UserGroups, NEW p \in Payloads,
               NEW d \in Declarable(g), Enter(t, g, p, d)
        PROVE  OneCaller'
    BY <1>1 DEF Enter, Goto, AllIdle, Idle, OneCaller, Busy, TypeOK
  <1>2. ASSUME NEW t \in Threads, WriterStep(t) \/ Return(t)
        PROVE  OneCaller'
    <2>1. Busy(t)
      BY <1>2 DEF WriterStep, FlushIndex, EmplaceEntry, WriteBlock, WriteBlockFails, LoadOffset, StoreOffset, AdvanceOffset,
                  FlushNothing, WriteIndex, FlushIndexFails, ClearIndex, ClearEntries, Return, Busy
    <2>2. \E label \in Labels : Goto(t, label)
      BY <1>2 DEF WriterStep, FlushIndex, EmplaceEntry, WriteBlock, WriteBlockFails, LoadOffset, StoreOffset, AdvanceOffset,
                  FlushNothing, WriteIndex, FlushIndexFails, ClearIndex, ClearEntries, Return, Labels
    <2> QED
      BY <2>1, <2>2, OnlyOne
  <1>3. CASE Close
    BY <1>3 DEF Close, OneCaller, Busy
  <1>4. CASE UNCHANGED vars
    BY <1>4 DEF vars, OneCaller, Busy
  <1> QED
    BY <1>1, <1>2, <1>3, <1>4 DEF Next

-----------------------------------------------------------------------------
(* The index stays accurate                                                *)

(* How much of the file is covered, seen from the one busy thread.          *)
LEMMA CoveredBusy ==
    ASSUME TypeOK, NEW t \in Threads, Busy(t),
           \A s \in Threads : s # t => pc[s] = "idle"
    PROVE  Covered = IF pc[t] \in {"loadIndexed", "storeIndexed"} THEN Len(file)
                     ELSE IF pc[t] = "write" THEN Len(file) - Len(index) + 1
                     ELSE Len(file) - Len(index)
  BY DEF Covered, Busy

LEMMA CoveredIdle ==
    ASSUME AllIdle PROVE Covered = Len(file) - Len(index)
  BY DEF AllIdle, Idle, Covered

LEMMA UndamagedInit == Init => Undamaged
  <1> SUFFICES ASSUME Init PROVE Undamaged
    OBVIOUS
  <1>1. AllIdle /\ file = <<>> /\ index = <<>> /\ offset = 0 /\ fileLen = 0
    BY DEF Init, AllIdle, Idle
  <1>2. Len(file) = 0 /\ Len(index) = 0
    BY <1>1
  <1>3. Covered = 0
    BY <1>1, <1>2, CoveredIdle
  <1>4. OffsetInSync
    BY <1>1 DEF OffsetInSync, AllIdle, Idle
  <1>5. PendingMatches
    BY <1>1, <1>2, <1>3 DEF PendingMatches, AllIdle, Idle
  <1>6. NoGapAtEnd
    BY <1>1 DEF NoGapAtEnd, Log!End
  <1>7. IndexIsAccurate
    BY <1>1 DEF IndexIsAccurate
  <1> QED
    BY <1>4, <1>5, <1>6, <1>7 DEF Undamaged

LEMMA CoveredNext ==
    ASSUME NEW t \in Threads, NEW label, pc'[t] = label,
           \A s \in Threads : s # t => pc'[s] = "idle"
    PROVE  Covered' = IF label \in {"loadIndexed", "storeIndexed"} THEN Len(file')
                      ELSE IF label = "write" THEN Len(file') - Len(index') + 1
                      ELSE Len(file') - Len(index')
  BY DEF Covered

(* A step that leaves the file and the index alone moves only the caller.   *)
LEMMA PendingUnmoved ==
    ASSUME TypeOK, PendingMatches, Covered' = Covered,
           UNCHANGED <<file, index>>,
           \A t \in Threads : pc'[t] # "write"
    PROVE  PendingMatches'
  BY DEF PendingMatches, Names

LEMMA FileUnmoved ==
    ASSUME NoGapAtEnd, IndexIsAccurate, UNCHANGED <<file, fileLen>>
    PROVE  NoGapAtEnd' /\ IndexIsAccurate'
  BY DEF NoGapAtEnd, Log!End, IndexIsAccurate, Names

LEMMA EnterUndamaged ==
    ASSUME TypeOK, OneCaller, Undamaged, Serialised,
           NEW t \in Threads, NEW g \in UserGroups, NEW p \in Payloads,
           NEW d \in Declarable(g), Enter(t, g, p, d)
    PROVE  Undamaged'
  <1>1. /\ AllIdle /\ UNCHANGED <<file, fileLen, index, offset>>
        /\ pc'[t] = "emplace" /\ \A s \in Threads : s # t => pc'[s] = "idle"
    BY DEF Enter, AllIdle, Idle, Goto, TypeOK
  <1>2. Covered' = Covered
    BY <1>1, CoveredIdle, CoveredNext
  <1>3. OffsetInSync'
    <2>1. /\ call'[t].group = g /\ regs'[t].index = index /\ regs'[t].offset = offset
      BY DEF Enter, TypeOK
    <2>2. g # INDEX
      BY DEF UserGroups
    <2> QED
      BY <1>1, <2>1, <2>2 DEF OffsetInSync, Undamaged, AllIdle, Idle
  <1>4. PendingMatches'
    BY <1>1, <1>2, PendingUnmoved DEF Undamaged
  <1> QED
    BY <1>1, <1>3, <1>4, FileUnmoved DEF Undamaged

LEMMA EmplaceUndamaged ==
    ASSUME TypeOK, OneCaller, Undamaged, NEW t \in Threads, EmplaceEntry(t)
    PROVE  Undamaged'
  <1>1. /\ pc[t] = "emplace" /\ pc'[t] = "write"
        /\ \A s \in Threads : s # t => pc[s] = "idle" /\ pc'[s] = "idle"
        /\ UNCHANGED <<file, fileLen, offset, call>>
    BY OnlyOne DEF EmplaceEntry, Busy, Labels
  <1>2. /\ offset = fileLen /\ call[t].group # INDEX
        /\ index' = Append(index, Entry(fileLen, call[t].group))
    BY <1>1 DEF EmplaceEntry, Undamaged, OffsetInSync
  <1>3. Entry(fileLen, call[t].group) \in Entries
    BY DEF Entry, Entries, TypeOK
  <1>4. /\ Len(index') = Len(index) + 1
        /\ index'[Len(index')] = Entry(fileLen, call[t].group)
        /\ \A j \in 1..Len(index) : index'[j] = index[j]
        /\ index' # <<>>
    BY <1>2, <1>3, AppendType, EmptySeq DEF TypeOK
  <1>5. Covered = Len(file) - Len(index) /\ Covered' = Len(file) - Len(index)
    <2>1. Len(file) \in Nat /\ Len(index) \in Nat
      BY DEF TypeOK
    <2>2. Covered = Len(file) - Len(index)
      BY <1>1, CoveredBusy DEF Busy
    <2>3. Covered' = Len(file') - Len(index') + 1
      BY <1>1, CoveredNext
    <2> QED
      BY <2>1, <2>2, <2>3, <1>1, <1>4
  <1>6. OffsetInSync'
    BY <1>1, <1>2 DEF OffsetInSync, AllIdle, Idle
  <1>7. PendingMatches'
    <2>1. Covered' \in 0..Len(file')
      BY <1>1, <1>5 DEF PendingMatches, Undamaged
    <2>2. ASSUME NEW j \in 1..(Len(file') - Covered')
          PROVE  /\ j \in 1..Len(index')
                 /\ index'[j].offset = file'[Covered' + j].at
                 /\ index'[j].group = file'[Covered' + j].group
                 /\ file'[Covered' + j].group # INDEX
      <3>1. j \in 1..(Len(file) - Covered) /\ Covered' = Covered
        BY <1>1, <1>5
      <3>2. j \in 1..Len(index) /\ Names(index[j], Covered + j) /\ file[Covered + j].group # INDEX
        BY <3>1 DEF PendingMatches, Undamaged
      <3>3. Len(index) \in Nat
        BY DEF TypeOK
      <3> QED
        BY <1>1, <1>4, <3>1, <3>2, <3>3 DEF Names
    <2>3. \A s \in Threads : pc'[s] = "write" =>
             index' # <<>> /\ index'[Len(index')] = Entry(fileLen', call'[s].group)
      BY <1>1, <1>4
    <2> QED
      BY <2>1, <2>2, <2>3 DEF PendingMatches, Names
  <1> QED
    BY <1>1, <1>6, <1>7, FileUnmoved DEF Undamaged
(* Appending a block keeps the older blocks where they are, and the file    *)
(* without a gap.                                                           *)
LEMMA AppendedBlock ==
    ASSUME TypeOK, NEW size \in Nat, NEW g \in Nat, NEW d \in Nat, NEW es \in Seq(Entries),
           AppendBlock(size, g, d, es)
    PROVE  /\ Len(file') = Len(file) + 1
           /\ \A i \in 1..Len(file) : file'[i] = file[i]
           /\ file'[Len(file) + 1] = Block(fileLen, size, g, d, es)
           /\ NoGapAtEnd'
  <1>1. Block(fileLen, size, g, d, es) \in Blocks
    BY BlockType DEF TypeOK
  <1>2. /\ Len(file') = Len(file) + 1
        /\ \A i \in 1..Len(file) : file'[i] = file[i]
        /\ file'[Len(file) + 1] = Block(fileLen, size, g, d, es)
        /\ file' # <<>>
    <2>1. file \in Seq(Blocks) /\ file' = Append(file, Block(fileLen, size, g, d, es))
      BY DEF AppendBlock, TypeOK
    <2> HIDE DEF Block, Blocks
    <2>2. /\ Len(file') = Len(file) + 1
          /\ \A i \in 1..Len(file) : file'[i] = file[i]
          /\ file'[Len(file) + 1] = Block(fileLen, size, g, d, es)
      BY <1>1, <2>1, AppendType
    <2>3. Len(file) \in Nat
      BY <2>1
    <2> QED
      BY <2>2, <2>3
  <1>3. file'[Len(file')].at + file'[Len(file')].size = fileLen'
    BY <1>2 DEF Block, AppendBlock
  <1> QED
    BY <1>2, <1>3 DEF NoGapAtEnd, Log!End

(* The older index blocks stay accurate when a block is appended.           *)
LEMMA AccurateAfterAppend ==
    ASSUME TypeOK, TypeOK', IndexIsAccurate,
           Len(file') = Len(file) + 1,
           \A i \in 1..Len(file) : file'[i] = file[i],
           \A j \in DOMAIN file'[Len(file) + 1].entries :
              \E k \in 1..Len(file) : Names(file'[Len(file) + 1].entries[j], k)
    PROVE  IndexIsAccurate'
  <1>1. Len(file) \in Nat /\ DOMAIN file = 1..Len(file) /\ DOMAIN file' = 1..(Len(file) + 1)
    BY DEF TypeOK
  <1> SUFFICES ASSUME NEW i \in 1..(Len(file) + 1), NEW j \in DOMAIN file'[i].entries
               PROVE  \E k \in 1..(i - 1) :
                         /\ file'[i].entries[j].offset = file'[k].at
                         /\ file'[i].entries[j].group = file'[k].group
    BY <1>1 DEF IndexIsAccurate, Names
  <1>2. CASE i \in 1..Len(file)
    <2>1. PICK k \in 1..(i - 1) : Names(file[i].entries[j], k)
      BY <1>1, <1>2 DEF IndexIsAccurate
    <2>2. k \in 1..Len(file)
      BY <1>1, <1>2
    <2> QED
      BY <1>2, <2>1, <2>2 DEF Names
  <1>3. CASE i = Len(file) + 1
    <2>1. PICK k \in 1..Len(file) : Names(file'[i].entries[j], k)
      BY <1>3
    <2>2. k \in 1..(i - 1)
      BY <1>1, <1>3
    <2> QED
      BY <2>1, <2>2 DEF Names
  <1> QED
    BY <1>1, <1>2, <1>3

LEMMA WrittenBlock ==
    ASSUME TypeOK, NEW t \in Threads, WriteBlock(t)
    PROVE  /\ Len(file') = Len(file) + 1
           /\ \A i \in 1..Len(file) : file'[i] = file[i]
           /\ file'[Len(file) + 1] = Block(fileLen, call[t].size, call[t].group, call[t].declares, <<>>)
           /\ NoGapAtEnd'
  <1>1. /\ call[t].size \in Nat /\ call[t].group \in Nat /\ call[t].declares \in Nat
        /\ <<>> \in Seq(Entries)
    BY CallTypes
  <1>2. AppendBlock(call[t].size, call[t].group, call[t].declares, <<>>)
    BY DEF WriteBlock
  <1> QED
    BY <1>1, <1>2, AppendedBlock

LEMMA WriteUndamaged ==
    ASSUME TypeOK, TypeOK', OneCaller, Undamaged, NEW t \in Threads, WriteBlock(t)
    PROVE  Undamaged'
  <1>1. /\ pc[t] = "write" /\ pc'[t] = "load"
        /\ \A s \in Threads : s # t => pc[s] = "idle" /\ pc'[s] = "idle"
        /\ UNCHANGED <<index, offset, call, regs>>
    BY OnlyOne DEF WriteBlock, Busy, Labels
  <1>2. /\ call[t].size \in Nat /\ call[t].group \in Nat /\ call[t].declares \in Nat
        /\ Len(file) \in Nat /\ Len(index) \in Nat /\ fileLen \in Nat
    BY CallTypes
  <1>3. /\ Len(file') = Len(file) + 1
        /\ \A i \in 1..Len(file) : file'[i] = file[i]
        /\ file'[Len(file) + 1] = Block(fileLen, call[t].size, call[t].group, call[t].declares, <<>>)
        /\ NoGapAtEnd'
    BY WrittenBlock
  <1>4. /\ fileLen' = fileLen + call[t].size /\ offset = fileLen /\ call[t].group # INDEX
        /\ index # <<>> /\ index[Len(index)] = Entry(fileLen, call[t].group)
    BY <1>1 DEF WriteBlock, AppendBlock, Undamaged, OffsetInSync, PendingMatches
  <1>5. Covered = Len(file) - Len(index) + 1 /\ Covered' = Covered
    <2>1. Covered = Len(file) - Len(index) + 1
      BY <1>1, CoveredBusy DEF Busy
    <2>2. Covered' = Len(file') - Len(index')
      BY <1>1, CoveredNext
    <2> QED
      BY <2>1, <2>2, <1>1, <1>2, <1>3
  <1>6. OffsetInSync'
    BY <1>1, <1>2, <1>4 DEF OffsetInSync, AllIdle, Idle
  <1>7. PendingMatches'
    <2>1. Covered' \in 0..Len(file')
      BY <1>2, <1>3, <1>5 DEF PendingMatches, Undamaged
    <2>2. ASSUME NEW j \in 1..(Len(file') - Covered')
          PROVE  /\ j \in 1..Len(index')
                 /\ index'[j].offset = file'[Covered' + j].at
                 /\ index'[j].group = file'[Covered' + j].group
                 /\ file'[Covered' + j].group # INDEX
      <3>0. j \in 1..Len(index) /\ Covered \in Nat
        BY <1>2, <1>3, <1>5, <2>1
      <3>1. CASE j \in 1..(Len(file) - Covered)
        <4>1. Names(index[j], Covered + j) /\ file[Covered + j].group # INDEX
          BY <3>1 DEF PendingMatches, Undamaged
        <4>2. file'[Covered + j] = file[Covered + j]
          <5>1. Covered + j \in 1..Len(file)
            BY <1>2, <3>0, <3>1
          <5> QED
            BY <1>3, <5>1
        <4> QED
          BY <1>1, <1>5, <3>0, <4>1, <4>2 DEF Names
      <3>2. CASE j = Len(index)
        <4>1. Covered + j = Len(file) + 1
          BY <1>2, <1>5, <3>2
        <4> QED
          BY <1>1, <1>3, <1>4, <1>5, <3>0, <3>2, <4>1 DEF Entry, Block
      <3> QED
        BY <1>2, <1>5, <3>0, <3>1, <3>2
    <2> QED
      BY <1>1, <2>1, <2>2 DEF PendingMatches, Names
  <1>8. IndexIsAccurate'
    <2>1. DOMAIN file'[Len(file) + 1].entries = {}
      BY <1>3 DEF Block
    <2> QED
      BY <1>3, <2>1, AccurateAfterAppend DEF Undamaged
  <1> QED
    BY <1>3, <1>6, <1>7, <1>8 DEF Undamaged

(* Steps that leave the file and the index alone.                          *)
LEMMA QuietUndamaged ==
    ASSUME TypeOK, OneCaller, Undamaged, NEW t \in Threads,
           LoadOffset(t) \/ StoreOffset(t) \/ FlushNothing(t) \/ FlushIndexFails(t) \/ Return(t),
           ~damaged'
    PROVE  Undamaged'
  <1>1. PICK label \in Labels : Goto(t, label) /\ label # "write"
    BY DEF LoadOffset, StoreOffset, AdvanceOffset, FlushNothing, FlushIndexFails, Return, Labels
  <1>2. /\ pc'[t] = label
        /\ \A s \in Threads : s # t => pc[s] = "idle" /\ pc'[s] = "idle"
    BY <1>1, OnlyOne DEF LoadOffset, StoreOffset, AdvanceOffset, FlushNothing, FlushIndexFails, Return, Busy
  <1>3. UNCHANGED <<file, fileLen, index>>
    <2>1. ASSUME FlushIndexFails(t) PROVE fileLen' = fileLen
      <3>1. PICK k \in TornLengths : WriteTorn(IndexBlockSize, k) /\ ~(k > 0)
        BY <2>1 DEF FlushIndexFails
      <3>2. k \in Nat
        BY SieWriterAssumption
      <3> QED
        BY <3>1, <3>2 DEF WriteTorn, TypeOK
    <2> QED
      BY <2>1 DEF LoadOffset, StoreOffset, AdvanceOffset, FlushNothing, FlushIndexFails, Return, WriteTorn
  <1>4. Covered' = Covered
    <2>1. Busy(t)
      BY DEF LoadOffset, StoreOffset, AdvanceOffset, FlushNothing, FlushIndexFails, Return, Busy
    <2>2. Covered = IF pc[t] \in {"loadIndexed", "storeIndexed"} THEN Len(file)
                    ELSE IF pc[t] = "write" THEN Len(file) - Len(index) + 1
                    ELSE Len(file) - Len(index)
      BY <1>2, <2>1, CoveredBusy
    <2>3. Covered' = IF label \in {"loadIndexed", "storeIndexed"} THEN Len(file')
                     ELSE IF label = "write" THEN Len(file') - Len(index') + 1
                     ELSE Len(file') - Len(index')
      BY <1>2, CoveredNext
    <2>4. pc[t] # "write" /\ (label \in {"loadIndexed", "storeIndexed"} <=> pc[t] \in {"loadIndexed", "storeIndexed"})
      BY <1>2 DEF LoadOffset, StoreOffset, AdvanceOffset, FlushNothing, FlushIndexFails, Return, Goto, TypeOK
    <2> QED
      BY <1>1, <1>3, <2>2, <2>3, <2>4
  <1>5. OffsetInSync'
    <2>1. CASE LoadOffset(t)
      BY <2>1, <1>2, <1>3 DEF LoadOffset, Undamaged, OffsetInSync, AllIdle, Idle, Goto, TypeOK
    <2>2. CASE StoreOffset(t)
      BY <2>2, <1>2, <1>3 DEF StoreOffset, AdvanceOffset, Undamaged, OffsetInSync, AllIdle, Idle, Goto, TypeOK
    <2>3. CASE FlushNothing(t)
      BY <2>3, <1>2, <1>3 DEF FlushNothing, Undamaged, OffsetInSync, AllIdle, Idle, Goto, TypeOK
    <2>4. CASE FlushIndexFails(t)
      BY <2>4, <1>2, <1>3 DEF FlushIndexFails, Undamaged, OffsetInSync, AllIdle, Idle, Goto, TypeOK
    <2>5. CASE Return(t)
      BY <2>5, <1>2, <1>3 DEF Return, Undamaged, OffsetInSync, AllIdle, Idle, Goto, TypeOK
    <2> QED
      BY <2>1, <2>2, <2>3, <2>4, <2>5
  <1>6. PendingMatches'
    BY <1>1, <1>2, <1>3, <1>4, PendingUnmoved DEF Undamaged
  <1> QED
    BY <1>3, <1>5, <1>6, FileUnmoved DEF Undamaged

LEMMA FlushUndamaged ==
    ASSUME TypeOK, TypeOK', OneCaller, Undamaged, NEW t \in Threads, WriteIndex(t)
    PROVE  Undamaged'
  <1>1. /\ pc[t] = "flush" /\ pc'[t] = "loadIndexed"
        /\ \A s \in Threads : s # t => pc[s] = "idle" /\ pc'[s] = "idle"
        /\ UNCHANGED <<index, offset, regs>>
        /\ call'[t].size = IndexBlockSize
    <2>1. Goto(t, "loadIndexed") /\ Busy(t) /\ "loadIndexed" \in Labels
      BY DEF WriteIndex, Busy, Labels
    <2>2. /\ pc[t] = "flush" /\ pc'[t] = "loadIndexed"
          /\ \A s \in Threads : s # t => pc[s] = "idle" /\ pc'[s] = "idle"
      BY <2>1, OnlyOne DEF WriteIndex
    <2>3. call'[t].size = IndexBlockSize
      BY DEF WriteIndex, TypeOK
    <2> QED
      BY <2>2, <2>3 DEF WriteIndex
  <1>2. /\ IndexBlockSize \in Nat /\ index \in Seq(Entries)
        /\ Len(file) \in Nat /\ Len(index) \in Nat /\ fileLen \in Nat
    BY IndexBlockSizeType, CallTypes
  <1>3. /\ Len(file') = Len(file) + 1
        /\ \A i \in 1..Len(file) : file'[i] = file[i]
        /\ file'[Len(file) + 1] = Block(fileLen, IndexBlockSize, INDEX, METADATA, index)
        /\ NoGapAtEnd'
    BY <1>2, AppendedBlock DEF WriteIndex
  <1>4. fileLen' = fileLen + IndexBlockSize /\ offset = fileLen
    BY <1>1 DEF WriteIndex, AppendBlock, Undamaged, OffsetInSync
  <1>5. Covered = Len(file) - Len(index) /\ Covered' = Len(file')
    BY <1>1, CoveredBusy, CoveredNext DEF Busy
  <1>6. OffsetInSync'
    BY <1>1, <1>2, <1>4 DEF OffsetInSync, AllIdle, Idle
  <1>7. PendingMatches'
    BY <1>1, <1>2, <1>3, <1>5 DEF PendingMatches
  <1>8. IndexIsAccurate'
    <2>1. file'[Len(file) + 1].entries = index
      BY <1>3 DEF Block
    <2>2. ASSUME NEW j \in DOMAIN index
          PROVE  \E k \in 1..Len(file) : Names(index[j], k)
      <3>1. j \in 1..(Len(file) - Covered) /\ Covered \in 0..Len(file)
        BY <1>2, <1>5 DEF Undamaged, PendingMatches
      <3>2. Names(index[j], Covered + j)
        BY <3>1 DEF Undamaged, PendingMatches
      <3> QED
        BY <1>2, <3>1, <3>2
    <2> QED
      BY <1>3, <2>1, <2>2, AccurateAfterAppend DEF Undamaged
  <1> QED
    BY <1>3, <1>6, <1>7, <1>8 DEF Undamaged

LEMMA ClearUndamaged ==
    ASSUME TypeOK, TypeOK', OneCaller, Undamaged, NEW t \in Threads, ClearIndex(t)
    PROVE  Undamaged'
  <1>1. /\ pc[t] = "storeIndexed" /\ pc'[t] = "done"
        /\ \A s \in Threads : s # t => pc[s] = "idle" /\ pc'[s] = "idle"
        /\ UNCHANGED <<file, fileLen, call>> /\ index' = <<>>
        /\ offset' = regs[t].offset + call[t].size
    BY OnlyOne DEF ClearIndex, AdvanceOffset, ClearEntries, Busy, Labels
  <1>2. offset' = fileLen'
    BY <1>1 DEF Undamaged, OffsetInSync
  <1>3. Covered' = Len(file') /\ Len(file') \in Nat
    <2>1. Len(index') = 0 /\ Len(file') \in Nat
      BY <1>1 DEF TypeOK
    <2>2. Covered' = Len(file') - Len(index')
      BY <1>1, CoveredNext
    <2> QED
      BY <2>1, <2>2
  <1>4. OffsetInSync'
    BY <1>1, <1>2 DEF OffsetInSync, AllIdle, Idle
  <1>5. PendingMatches'
    BY <1>1, <1>3 DEF PendingMatches
  <1> QED
    BY <1>1, <1>4, <1>5, FileUnmoved DEF Undamaged

LEMMA CloseUndamaged ==
    ASSUME TypeOK, TypeOK', Undamaged, Close, ~damaged'
    PROVE  Undamaged'
  <1>1. AllIdle /\ AllIdle' /\ UNCHANGED <<pc, call, regs>> /\ offset = fileLen
    BY DEF Close, AllIdle, Idle, Undamaged, OffsetInSync
  <1>2. Covered = Len(file) - Len(index) /\ Covered' = Len(file') - Len(index')
    BY <1>1 DEF Covered, AllIdle, Idle
  <1>3. CASE index = <<>> /\ UNCHANGED <<file, fileLen, index, offset, damaged>>
    <2>1. Covered' = Covered /\ \A t \in Threads : pc'[t] # "write"
      BY <1>1, <1>2, <1>3 DEF AllIdle, Idle
    <2>2. PendingMatches'
      BY <1>3, <2>1, PendingUnmoved DEF Undamaged
    <2>3. OffsetInSync'
      BY <1>1, <1>3 DEF OffsetInSync, AllIdle, Idle
    <2> QED
      BY <1>3, <2>2, <2>3, FileUnmoved DEF Undamaged
  <1>4. CASE /\ index # <<>>
             /\ AppendBlock(IndexBlockSize, INDEX, METADATA, index)
             /\ offset' = offset + IndexBlockSize
             /\ index' = <<>>
    <2>1. /\ IndexBlockSize \in Nat /\ index \in Seq(Entries)
          /\ Len(file) \in Nat /\ Len(index) \in Nat
      BY IndexBlockSizeType DEF TypeOK
    <2>2. /\ Len(file') = Len(file) + 1
          /\ \A i \in 1..Len(file) : file'[i] = file[i]
          /\ file'[Len(file) + 1] = Block(fileLen, IndexBlockSize, INDEX, METADATA, index)
          /\ NoGapAtEnd'
      BY <1>4, <2>1, AppendedBlock
    <2>3. OffsetInSync'
      BY <1>1, <1>4 DEF OffsetInSync, AllIdle, Idle, AppendBlock
    <2>4. PendingMatches'
      <3>1. Covered' = Len(file')
        BY <1>2, <1>4, <2>1, <2>2
      <3> QED
        BY <1>1, <2>1, <2>2, <3>1 DEF PendingMatches, AllIdle, Idle
    <2>5. IndexIsAccurate'
      <3>1. file'[Len(file) + 1].entries = index
        BY <2>2 DEF Block
      <3>2. ASSUME NEW j \in DOMAIN index
            PROVE  \E k \in 1..Len(file) : Names(index[j], k)
        <4>1. j \in 1..(Len(file) - Covered) /\ Covered \in 0..Len(file)
          BY <1>2, <2>1 DEF Undamaged, PendingMatches
        <4>2. Names(index[j], Covered + j)
          BY <4>1 DEF Undamaged, PendingMatches
        <4> QED
          BY <2>1, <4>1, <4>2
      <3> QED
        BY <2>2, <3>1, <3>2, AccurateAfterAppend DEF Undamaged
    <2> QED
      BY <2>2, <2>3, <2>4, <2>5 DEF Undamaged
  <1> QED
    BY <1>3, <1>4 DEF Close

-----------------------------------------------------------------------------
LEMMA SerialInvNext == TypeOK /\ TypeOK' /\ SerialInv /\ [Next]_vars => SerialInv'
  <1> SUFFICES ASSUME TypeOK, TypeOK', SerialInv, [Next]_vars, Serialised
               PROVE  OneCaller' /\ (~damaged' => Undamaged')
    BY DEF SerialInv
  <1>1. OneCaller'
    BY OneCallerNext DEF SerialInv
  <1> SUFFICES ASSUME ~damaged' PROVE Undamaged'
    BY <1>1
  <1>2. ~damaged
    BY DEF Next, vars, Enter, WriterStep, FlushIndex, EmplaceEntry, WriteBlock, WriteBlockFails, LoadOffset,
           StoreOffset, AdvanceOffset, FlushNothing, WriteIndex, FlushIndexFails, ClearIndex, ClearEntries, Return, Close
  <1>3. OneCaller /\ Undamaged
    BY <1>2 DEF SerialInv
  <1>4. ASSUME NEW t \in Threads, NEW g \in UserGroups, NEW p \in Payloads,
               NEW d \in Declarable(g), Enter(t, g, p, d)
        PROVE  Undamaged'
    BY <1>3, <1>4, EnterUndamaged
  <1>5. ASSUME NEW t \in Threads, WriterStep(t) \/ Return(t)
        PROVE  Undamaged'
    <2>1. CASE EmplaceEntry(t)
      BY <1>3, <2>1, EmplaceUndamaged
    <2>2. CASE WriteBlock(t)
      BY <1>3, <2>2, WriteUndamaged
    <2>3. CASE WriteBlockFails(t)
      BY <2>3 DEF WriteBlockFails
    <2>4. CASE LoadOffset(t) \/ StoreOffset(t) \/ FlushNothing(t) \/ FlushIndexFails(t) \/ Return(t)
      BY <1>3, <2>4, QuietUndamaged
    <2>5. CASE WriteIndex(t)
      BY <1>3, <2>5, FlushUndamaged
    <2>6. CASE ClearIndex(t)
      BY <1>3, <2>6, ClearUndamaged
    <2> QED
      BY <1>5, <2>1, <2>2, <2>3, <2>4, <2>5, <2>6 DEF WriterStep, FlushIndex
  <1>6. CASE Close
    BY <1>3, <1>6, CloseUndamaged
  <1>7. CASE UNCHANGED vars
    <2>1. PendingMatches' /\ OffsetInSync'
      BY <1>3, <1>7 DEF vars, Undamaged, PendingMatches, Covered, Names, OffsetInSync, AllIdle, Idle
    <2> QED
      BY <1>3, <1>7, <2>1, FileUnmoved DEF vars, Undamaged
  <1> QED
    BY <1>4, <1>5, <1>6, <1>7 DEF Next

(* For callers that take turns, every index block of the file names only    *)
(* preceding blocks, with their offset and group, until a failed write has  *)
(* done damage: whatever the number of threads, the block sizes and         *)
(* INDEX_EVERY, and also when writes of index blocks fail and are retried.  *)
THEOREM IndexAccuracy == Serialised /\ Spec => []IndexAccurateUntilDamaged
  <1> SUFFICES ASSUME Serialised PROVE Spec => []IndexAccurateUntilDamaged
    OBVIOUS
  <1>1. Init => SerialInv
    BY OneCallerInit, UndamagedInit DEF SerialInv
  <1>2. SerialInv => IndexAccurateUntilDamaged
    BY DEF SerialInv, Undamaged, IndexAccurateUntilDamaged
  <1>3. Spec => []SerialInv
    BY <1>1, SerialInvNext, TypeCorrect, PTL DEF Spec
  <1> QED
    BY <1>2, <1>3, PTL

-----------------------------------------------------------------------------
(* The abstract indexed log                                                *)

(* Damage is not undone.                                                    *)
LEMMA DamageStays == damaged /\ [Next]_vars => damaged'
  <1> SUFFICES ASSUME damaged, [Next]_vars PROVE damaged'
    OBVIOUS
  <1>1. ASSUME NEW t \in Threads, NEW g \in UserGroups, NEW p \in Payloads,
               NEW d \in Declarable(g), Enter(t, g, p, d)
        PROVE  damaged'
    BY <1>1 DEF Enter
  <1>2. ASSUME NEW t \in Threads, WriterStep(t) \/ Return(t)
        PROVE  damaged'
    BY <1>2 DEF WriterStep, FlushIndex, EmplaceEntry, WriteBlock, WriteBlockFails, LoadOffset,
                StoreOffset, AdvanceOffset, FlushNothing, WriteIndex, FlushIndexFails, ClearIndex, ClearEntries, Return
  <1>3. CASE Close
    BY <1>3 DEF Close
  <1> QED
    BY <1>1, <1>2, <1>3 DEF Next, vars

(* The entries in memory are the entries the abstract log asks for.         *)
LEMMA IndexIsTail ==
    ASSUME TypeOK, PendingMatches, Covered = Len(file) - Len(index)
    PROVE  index = [k \in 1..(Len(file) - Covered) |->
                      [offset |-> file[Covered + k].at, group |-> file[Covered + k].group]]
  <1> DEFINE tail == [k \in 1..(Len(file) - Covered) |->
                        [offset |-> file[Covered + k].at, group |-> file[Covered + k].group]]
  <1>1. Len(file) \in Nat /\ Len(index) \in Nat /\ index \in Seq(Entries)
    BY DEF TypeOK
  <1>2. index \in [1..Len(index) -> Entries] /\ Len(file) - Covered = Len(index)
    BY <1>1, LenProperties
  <1>3. ASSUME NEW k \in 1..Len(index) PROVE index[k] = tail[k]
    <2>1. Names(index[k], Covered + k)
      BY <1>2 DEF PendingMatches
    <2>2. index[k] \in Entries
      BY <1>2
    <2>3. index[k] = [offset |-> index[k].offset, group |-> index[k].group]
      BY <2>2 DEF Entries
    <2> QED
      BY <1>2, <2>1, <2>3 DEF Names
  <1>4. tail = [k \in 1..Len(index) |-> tail[k]]
    BY <1>2
  <1>5. index = [k \in 1..Len(index) |-> index[k]]
    BY <1>2
  <1> HIDE DEF tail
  <1>6. index = tail
    BY <1>3, <1>4, <1>5
  <1> QED
    BY <1>6 DEF tail

(* An index block written from the index in memory is an abstract one.      *)
LEMMA IndexBlockStep ==
    ASSUME TypeOK, PendingMatches, NoGapAtEnd, Covered = Len(file) - Len(index),
           index # <<>>, AppendBlock(IndexBlockSize, INDEX, METADATA, index),
           Covered' = Len(file')
    PROVE  Log!AppendIndexBlock
  <1>1. /\ IndexBlockSize \in Nat /\ index \in Seq(Entries)
        /\ Len(file) \in Nat /\ Len(index) \in Nat \ {0}
    BY IndexBlockSizeType, EmptySeq DEF TypeOK
  <1>2. /\ Len(file') = Len(file) + 1
        /\ file'[Len(file) + 1] = Block(fileLen, IndexBlockSize, INDEX, METADATA, index)
    BY <1>1, AppendedBlock
  <1>3. Len(file) - Covered = Len(index)
    BY <1>1
  <1>4. IndexBlockSize = IndexBlockBytes(Len(file) - Covered)
    BY <1>3 DEF IndexBlockSize, IndexBlockBytes
  <1>5. file' = Append(file, file'[Len(file')])
    BY <1>2 DEF AppendBlock
  <1>6. file'[Len(file')].at = Log!End
    BY <1>2 DEF NoGapAtEnd, Block
  <1>7. file'[Len(file')].entries = index /\ file'[Len(file')].group = INDEX
        /\ file'[Len(file')].size = IndexBlockSize
    BY <1>2 DEF Block
  <1>8. index = [k \in 1..(Len(file) - Covered) |->
                   [offset |-> file[Covered + k].at, group |-> file[Covered + k].group]]
    BY IndexIsTail
  <1>9. Len(file) - Covered > 0 /\ Len(file') = Len(file) + 1
    BY <1>1, <1>2, <1>3
  <1>10. file'[Len(file')].entries =
            [k \in 1..(Len(file) - Covered) |->
               [offset |-> file[Covered + k].at, group |-> file[Covered + k].group]]
    BY <1>7, <1>8
  <1>11. file'[Len(file')].size = IndexBlockBytes(Len(file) - Covered)
    BY <1>4, <1>7
  <1> HIDE DEF Log!End, Covered, IndexBlockBytes
  <1> QED
    BY <1>5, <1>6, <1>7, <1>9, <1>10, <1>11 DEF Log!AppendIndexBlock

LEMMA LogStep ==
    TypeOK /\ TypeOK' /\ OneCaller /\ Undamaged /\ ~damaged' /\ Serialised /\ [Next]_vars
        => [Log!LogNext]_(Log!logVars)
  <1> SUFFICES ASSUME TypeOK, TypeOK', OneCaller, Undamaged, ~damaged', Serialised, [Next]_vars
               PROVE  Log!LogNext \/ (file' = file /\ Covered' = Covered)
    BY DEF Log!logVars
  <1>1. ASSUME NEW t \in Threads, NEW g \in UserGroups, NEW p \in Payloads,
               NEW d \in Declarable(g), Enter(t, g, p, d)
        PROVE  file' = file /\ Covered' = Covered
    <2>1. AllIdle /\ pc'[t] = "emplace" /\ \A s \in Threads : s # t => pc'[s] = "idle"
      BY <1>1 DEF Enter, AllIdle, Idle, Goto, TypeOK
    <2> QED
      BY <1>1, <2>1, CoveredIdle, CoveredNext DEF Enter
  <1>2. ASSUME NEW t \in Threads, EmplaceEntry(t)
        PROVE  file' = file /\ Covered' = Covered
    <2>1. /\ pc[t] = "emplace" /\ pc'[t] = "write"
          /\ \A s \in Threads : s # t => pc[s] = "idle" /\ pc'[s] = "idle"
      BY <1>2, OnlyOne DEF EmplaceEntry, Busy, Labels
    <2>2. index' = Append(index, Entry(regs[t].offset, call[t].group))
      BY <1>2, <2>1 DEF EmplaceEntry, Undamaged, OffsetInSync
    <2>3. Entry(regs[t].offset, call[t].group) \in Entries
      BY DEF Entry, Entries, TypeOK
    <2>4. Len(index') = Len(index) + 1
      BY <2>2, <2>3, AppendType DEF TypeOK
    <2>5. Covered = Len(file) - Len(index) /\ Covered' = Len(file') - Len(index') + 1
      BY <2>1, CoveredBusy, CoveredNext DEF Busy
    <2>6. Len(file) \in Nat /\ Len(index) \in Nat /\ file' = file
      BY <1>2 DEF EmplaceEntry, TypeOK
    <2> QED
      BY <2>4, <2>5, <2>6
  <1>3. ASSUME NEW t \in Threads, WriteBlock(t)
        PROVE  Log!AppendClient
    <2>1. /\ pc[t] = "write" /\ pc'[t] = "load"
          /\ \A s \in Threads : s # t => pc[s] = "idle" /\ pc'[s] = "idle"
          /\ index' = index
      BY <1>3, OnlyOne DEF WriteBlock, Busy, Labels
    <2>2. /\ call[t].size \in Nat /\ call[t].group \in Nat /\ call[t].declares \in Nat
          /\ Len(file) \in Nat /\ Len(index) \in Nat /\ <<>> \in Seq(Entries)
      BY CallTypes
    <2>3. /\ Len(file') = Len(file) + 1
          /\ file'[Len(file) + 1] = Block(fileLen, call[t].size, call[t].group, call[t].declares, <<>>)
      BY <1>3, WrittenBlock
    <2>4. Covered' = Covered
      <3>1. Covered = Len(file) - Len(index) + 1 /\ Covered' = Len(file') - Len(index')
        BY <2>1, CoveredBusy, CoveredNext DEF Busy
      <3> QED
        BY <2>1, <2>2, <2>3, <3>1
    <2>5. file' = Append(file, file'[Len(file')])
      BY <1>3, <2>3 DEF WriteBlock, AppendBlock
    <2>6. file'[Len(file')].at = Log!End
      BY <2>3 DEF Undamaged, NoGapAtEnd, Block
    <2>7. file'[Len(file')].group # INDEX /\ file'[Len(file')].entries = <<>>
      BY <2>1, <2>3 DEF Undamaged, OffsetInSync, Block
    <2> HIDE DEF Log!End
    <2> QED
      BY <2>3, <2>4, <2>5, <2>6, <2>7 DEF Log!AppendClient
  <1>4. ASSUME NEW t \in Threads, LoadOffset(t) \/ StoreOffset(t) \/ FlushNothing(t) \/ Return(t)
        PROVE  file' = file /\ Covered' = Covered
    <2>1. PICK label \in Labels :
             /\ Goto(t, label) /\ Busy(t) /\ label # "write" /\ pc[t] # "write"
             /\ label \in {"loadIndexed", "storeIndexed"} <=> pc[t] \in {"loadIndexed", "storeIndexed"}
      BY <1>4 DEF LoadOffset, StoreOffset, AdvanceOffset, FlushNothing, Return, Labels, Busy
    <2>2. pc'[t] = label /\ \A s \in Threads : s # t => pc[s] = "idle" /\ pc'[s] = "idle"
      BY <2>1, OnlyOne
    <2>3. file' = file /\ index' = index
      BY <1>4 DEF LoadOffset, StoreOffset, AdvanceOffset, FlushNothing, Return
    <2> QED
      BY <2>1, <2>2, <2>3, CoveredBusy, CoveredNext
  <1>5. ASSUME NEW t \in Threads, WriteIndex(t)
        PROVE  Log!AppendIndexBlock
    <2>1. /\ pc[t] = "flush" /\ pc'[t] = "loadIndexed"
          /\ \A s \in Threads : s # t => pc[s] = "idle" /\ pc'[s] = "idle"
      BY <1>5, OnlyOne DEF WriteIndex, Busy, Labels
    <2>2. Covered = Len(file) - Len(index) /\ Covered' = Len(file')
      BY <2>1, CoveredBusy, CoveredNext DEF Busy
    <2> QED
      BY <1>5, <2>2, IndexBlockStep DEF WriteIndex, Undamaged
  <1>6. ASSUME NEW t \in Threads, ClearIndex(t)
        PROVE  file' = file /\ Covered' = Covered
    <2>1. /\ pc[t] = "storeIndexed" /\ pc'[t] = "done"
          /\ \A s \in Threads : s # t => pc[s] = "idle" /\ pc'[s] = "idle"
          /\ file' = file /\ index' = <<>>
      BY <1>6, OnlyOne DEF ClearIndex, AdvanceOffset, ClearEntries, Busy, Labels
    <2>2. Covered = Len(file) /\ Covered' = Len(file') - Len(index')
      BY <2>1, CoveredBusy, CoveredNext DEF Busy
    <2>3. Len(index') = 0 /\ Len(file) \in Nat
      BY <2>1 DEF TypeOK
    <2> QED
      BY <2>1, <2>2, <2>3
  <1>7. CASE Close
    <2>1. AllIdle /\ AllIdle'
      BY <1>7 DEF Close, AllIdle, Idle
    <2>2. Covered = Len(file) - Len(index) /\ Covered' = Len(file') - Len(index')
      BY <2>1 DEF Covered, AllIdle, Idle
    <2>3. CASE index = <<>> /\ UNCHANGED <<file, fileLen, index, offset, damaged>>
      BY <2>2, <2>3
    <2>4. CASE /\ index # <<>>
               /\ AppendBlock(IndexBlockSize, INDEX, METADATA, index)
               /\ index' = <<>>
      <3>1. Covered' = Len(file')
        BY <2>2, <2>4 DEF TypeOK
      <3> QED
        BY <2>2, <2>4, <3>1, IndexBlockStep DEF Undamaged, Log!LogNext
    <2> QED
      BY <1>7, <2>3, <2>4 DEF Close
  <1>8. CASE UNCHANGED vars
    BY <1>8 DEF vars, Covered
  <1>9. ASSUME NEW t \in Threads, WriteBlockFails(t) \/ FlushIndexFails(t)
        PROVE  file' = file /\ Covered' = Covered
    <2>1. FlushIndexFails(t)
      BY <1>9 DEF WriteBlockFails
    <2>2. /\ pc[t] = "flush" /\ pc'[t] = "threw"
          /\ \A s \in Threads : s # t => pc[s] = "idle" /\ pc'[s] = "idle"
          /\ file' = file /\ index' = index
      BY <2>1, OnlyOne DEF FlushIndexFails, WriteTorn, Busy, Labels
    <2>3. Covered = Len(file) - Len(index) /\ Covered' = Len(file') - Len(index')
      BY <2>2, CoveredBusy, CoveredNext DEF Busy
    <2> QED
      BY <2>2, <2>3
  <1> QED
    BY <1>1, <1>2, <1>3, <1>4, <1>5, <1>6, <1>7, <1>8, <1>9 DEF Next, WriterStep, FlushIndex, Log!LogNext

(* Callers that take turns: until a failed write does damage, the writer    *)
(* stack implements the indexed log.  Every block of the file is then       *)
(* listed exactly once, in file order, by the next index block.             *)
THEOREM Refinement == Serialised /\ Spec => ImplementsIndexedLog
  <1> SUFFICES ASSUME Serialised PROVE Spec => ImplementsIndexedLog
    OBVIOUS
  <1>1. Init => SerialInv
    BY OneCallerInit, UndamagedInit DEF SerialInv, Init
  <1>2. Init => Log!LogInit
    <2> SUFFICES ASSUME Init PROVE Log!LogInit
      OBVIOUS
    <2>1. AllIdle /\ file = <<>> /\ index = <<>>
      BY DEF Init, AllIdle, Idle
    <2>2. Len(file) = 0 /\ Len(index) = 0
      BY <2>1
    <2> QED
      BY <2>1, <2>2, CoveredIdle DEF Log!LogInit
  <1>3. TypeOK /\ TypeOK' /\ SerialInv /\ [Next]_vars
            => [damaged' \/ Log!LogNext]_(Log!logVars)
    <2> SUFFICES ASSUME TypeOK, TypeOK', SerialInv, [Next]_vars, ~damaged'
                 PROVE  [Log!LogNext]_(Log!logVars)
      OBVIOUS
    <2>1. ~damaged
      BY DamageStays
    <2> QED
      BY <2>1, LogStep DEF SerialInv
  <1> QED
    BY <1>1, <1>2, <1>3, SerialInvNext, TypeCorrect, PTL
       DEF Spec, ImplementsIndexedLog


-----------------------------------------------------------------------------
(* EveryBlockIndexedOnce follows from the steps of the abstract log.        *)

(* Blocks have positive sizes, so no two start at the same offset.          *)
PositionInv ==
    /\ \A t \in Threads : Busy(t) => call[t].size > 0
    /\ \A k \in DOMAIN file :
          /\ file[k].at < fileLen
          /\ \A i \in 1..(k - 1) : file[i].at < file[k].at

(* Entry j of block i of the file.                                          *)
IsEntry(i, j) == i \in DOMAIN file /\ j \in DOMAIN file[i].entries

(* The entries in the file name covered blocks only, all of them that are   *)
(* not index blocks, and no two name the same.                              *)
EntriesInv ==
    /\ \A i, j : IsEntry(i, j) => \E k \in 1..Covered : Names(file[i].entries[j], k)
    /\ \A k \in 1..Covered : file[k].group # INDEX =>
          \E i, j : IsEntry(i, j) /\ Names(file[i].entries[j], k)
    /\ \A i, j, m, n :
          /\ IsEntry(i, j) /\ IsEntry(m, n)
          /\ file[i].entries[j].offset = file[m].entries[n].offset
          => i = m /\ j = n

(* After the destructor no call is under way, and nothing is left to write. *)
ClosedInv == closed => AllIdle /\ (~damaged => index = <<>>)

-----------------------------------------------------------------------------
LEMMA SizesPositive ==
    /\ \A p \in Nat : BlockSize(p) > 0
    /\ index \in Seq(Entries) => IndexBlockSize > 0
  <1>1. \A p \in Nat : BlockSize(p) > 0
    BY DEF BlockSize, HeaderSize, FooterSize
  <1>2. index \in Seq(Entries) => EntrySize * Len(index) \in Nat
    BY LenProperties DEF EntrySize
  <1> QED
    BY <1>1, <1>2 DEF IndexBlockSize

LEMMA Positions ==
    ASSUME TypeOK
    PROVE  /\ Len(file) \in Nat /\ DOMAIN file = 1..Len(file)
           /\ \A i \in 1..Len(file) : file[i] \in Blocks /\ file[i].at \in Nat
  <1>1. file \in Seq(Blocks)
    BY DEF TypeOK
  <1>2. Len(file) \in Nat /\ DOMAIN file = 1..Len(file)
    BY <1>1, LenProperties
  <1>3. ASSUME NEW i \in 1..Len(file) PROVE file[i] \in Blocks
    BY <1>1, <1>3, ElementOfSeq
  <1> QED
    BY <1>2, <1>3 DEF Blocks

LEMMA PositionInit == Init => PositionInv
  <1> SUFFICES ASSUME Init PROVE PositionInv
    OBVIOUS
  <1>1. file = <<>> /\ DOMAIN file = {} /\ \A t \in Threads : ~Busy(t)
    BY DEF Init, Busy
  <1> QED
    BY <1>1 DEF PositionInv

(* A block of positive size is appended behind all the others.              *)
LEMMA PositionAppend ==
    ASSUME TypeOK, PositionInv, NEW size \in Nat, NEW g \in Nat, NEW d \in Nat,
           NEW es \in Seq(Entries), AppendBlock(size, g, d, es), size > 0,
           \A t \in Threads : Busy(t)' => call'[t].size > 0
    PROVE  PositionInv'
  <1>1. /\ Len(file') = Len(file) + 1 /\ Len(file) \in Nat /\ fileLen \in Nat
        /\ \A i \in 1..Len(file) : file'[i] = file[i]
        /\ file'[Len(file) + 1].at = fileLen /\ fileLen' = fileLen + size
    BY AppendedBlock, LenProperties DEF TypeOK, Block, AppendBlock
  <1>2. DOMAIN file = 1..Len(file) /\ DOMAIN file' = 1..(Len(file) + 1)
    <2>1. Block(fileLen, size, g, d, es) \in Blocks
      BY BlockType DEF TypeOK
    <2>2. file' \in Seq(Blocks)
      BY <2>1, AppendType DEF TypeOK, AppendBlock
    <2> QED
      BY <1>1, <2>2, LenProperties DEF TypeOK
  <1>3. \A k \in 1..Len(file) : file[k].at \in Nat
    BY Positions
  <1>4. ASSUME NEW k \in 1..(Len(file) + 1)
        PROVE  /\ file'[k].at < fileLen'
               /\ \A i \in 1..(k - 1) : file'[i].at < file'[k].at
    <2>1. CASE k = Len(file) + 1
      <3>1. file'[k].at < fileLen'
        BY <1>1, <2>1
      <3>2. ASSUME NEW i \in 1..(k - 1) PROVE file'[i].at < file'[k].at
        <4>1. i \in 1..Len(file)
          BY <1>1, <2>1
        <4> QED
          BY <1>1, <1>2, <2>1, <4>1 DEF PositionInv
      <3> QED
        BY <3>1, <3>2
    <2>2. CASE k # Len(file) + 1
      <3>1. k \in 1..Len(file) /\ \A i \in 1..(k - 1) : i \in 1..Len(file)
        BY <1>1, <2>2
      <3>2. file[k].at < fileLen /\ \A i \in 1..(k - 1) : file[i].at < file[k].at
        BY <1>2, <3>1 DEF PositionInv
      <3>3. file'[k] = file[k] /\ file[k].at \in Nat
        BY <1>1, <1>3, <3>1
      <3>4. file'[k].at < fileLen'
        BY <1>1, <3>2, <3>3
      <3>5. ASSUME NEW i \in 1..(k - 1) PROVE file'[i].at < file'[k].at
        BY <1>1, <3>1, <3>2, <3>3, <3>5
      <3> QED
        BY <3>4, <3>5
    <2> QED
      BY <2>1, <2>2
  <1> QED
    BY <1>2, <1>4 DEF PositionInv

LEMMA PositionNext == TypeOK /\ PositionInv /\ [Next]_vars => PositionInv'
  <1> SUFFICES ASSUME TypeOK, PositionInv, [Next]_vars PROVE PositionInv'
    OBVIOUS
  <1> USE SieWriterAssumption
  <1>1. ASSUME NEW t \in Threads, NEW g \in UserGroups, NEW p \in Payloads,
               NEW d \in Declarable(g), Enter(t, g, p, d)
        PROVE  PositionInv'
    <2>1. p \in Nat /\ BlockSize(p) > 0
      BY SizesPositive
    <2> QED
      BY <1>1, <2>1 DEF Enter, Goto, TypeOK, PositionInv, Busy
  <1>2. ASSUME NEW t \in Threads, WriteBlock(t) PROVE PositionInv'
    <2> DEFINE none == <<>>
    <2>1. none \in Seq(Entries)
      BY EmptySeq
    <2>2. AppendBlock(call[t].size, call[t].group, call[t].declares, none)
      BY <1>2 DEF WriteBlock
    <2> HIDE DEF none
    <2>3. /\ call[t].size \in Nat /\ call[t].group \in Nat /\ call[t].declares \in Nat
          /\ call[t].size > 0 /\ call' = call
          /\ \A s \in Threads : Busy(s)' => Busy(s)
      BY <1>2 DEF WriteBlock, TypeOK, PositionInv, Busy, Goto
    <2> QED
      BY <2>1, <2>2, <2>3, PositionAppend DEF PositionInv
  <1>3. ASSUME NEW t \in Threads, WriteIndex(t) PROVE PositionInv'
    <2>1. IndexBlockSize \in Nat /\ IndexBlockSize > 0 /\ index \in Seq(Entries)
      BY IndexBlockSizeType, SizesPositive DEF TypeOK
    <2>2. \A s \in Threads : Busy(s)' => call'[s].size > 0
      BY <1>3, <2>1 DEF WriteIndex, TypeOK, PositionInv, Busy, Goto
    <2> QED
      BY <1>3, <2>1, <2>2, PositionAppend DEF WriteIndex, INDEX, METADATA
  <1>4. CASE Close
    <2>1. IndexBlockSize \in Nat /\ IndexBlockSize > 0 /\ index \in Seq(Entries)
      BY IndexBlockSizeType, SizesPositive DEF TypeOK
    <2>2. \A s \in Threads : Busy(s)' => call'[s].size > 0
      BY <1>4 DEF Close, PositionInv, Busy
    <2>3. CASE AppendBlock(IndexBlockSize, INDEX, METADATA, index)
      BY <2>1, <2>2, <2>3, PositionAppend DEF INDEX, METADATA
    <2>4. CASE file' = file /\ fileLen' = fileLen
      BY <2>2, <2>4 DEF PositionInv
    <2>5. ASSUME NEW k \in TornLengths, WriteTorn(IndexBlockSize, k) PROVE PositionInv'
      <3>1. k \in Nat /\ \A i \in DOMAIN file : file[i].at \in Nat
        BY Positions
      <3> QED
        BY <2>2, <2>5, <3>1 DEF WriteTorn, PositionInv, TypeOK
    <2> QED
      BY <1>4, <2>3, <2>4, <2>5 DEF Close
  <1>5. ASSUME NEW t \in Threads, WriteBlockFails(t) \/ FlushIndexFails(t) PROVE PositionInv'
    <2>1. \E k \in TornLengths : WriteTorn(call[t].size, k) \/ WriteTorn(IndexBlockSize, k)
      BY <1>5 DEF WriteBlockFails, FlushIndexFails
    <2>4. PICK k \in TornLengths : file' = file /\ fileLen' = fileLen + k
      BY <2>1 DEF WriteTorn
    <2>2. call' = call /\ \A s \in Threads : Busy(s)' => Busy(s)
      BY <1>5 DEF WriteBlockFails, FlushIndexFails, Busy, Goto, TypeOK
    <2>3. k \in Nat /\ \A i \in DOMAIN file : file[i].at \in Nat
      BY Positions
    <2> QED
      BY <2>2, <2>3, <2>4 DEF PositionInv, TypeOK
  <1>6. ASSUME NEW t \in Threads,
               \/ EmplaceEntry(t) \/ LoadOffset(t) \/ StoreOffset(t)
               \/ FlushNothing(t) \/ ClearIndex(t) \/ Return(t)
        PROVE  PositionInv'
    <2>1. UNCHANGED <<file, fileLen>>
      BY <1>6 DEF EmplaceEntry, LoadOffset, StoreOffset, FlushNothing, ClearIndex, Return
    <2>2. \A s \in Threads : Busy(s)' => Busy(s) /\ call'[s] = call[s]
      BY <1>6 DEF EmplaceEntry, LoadOffset, StoreOffset, FlushNothing, ClearIndex, Return,
                  Busy, Goto, TypeOK
    <2> QED
      BY <2>1, <2>2 DEF PositionInv
  <1>7. CASE UNCHANGED vars
    BY <1>7 DEF vars, PositionInv, Busy
  <1> QED
    BY <1>1, <1>2, <1>3, <1>4, <1>5, <1>6, <1>7 DEF Next, WriterStep, FlushIndex

LEMMA ClosedNext == TypeOK /\ ClosedInv /\ [Next]_vars => ClosedInv'
  <1> SUFFICES ASSUME TypeOK, ClosedInv, [Next]_vars PROVE ClosedInv'
    OBVIOUS
  <1>1. ASSUME NEW t \in Threads, WriterStep(t) \/ Return(t) PROVE ~closed'
    BY <1>1 DEF ClosedInv, AllIdle, Idle, WriterStep, FlushIndex, EmplaceEntry, WriteBlock,
                WriteBlockFails, LoadOffset, StoreOffset, FlushNothing, WriteIndex,
                FlushIndexFails, ClearIndex, Return
  <1>2. ASSUME NEW t \in Threads, NEW g \in UserGroups, NEW p \in Payloads,
               NEW d \in Declarable(g), Enter(t, g, p, d)
        PROVE  ~closed'
    BY <1>2 DEF Enter
  <1>3. CASE Close
    BY <1>3 DEF Close, ClosedInv, AllIdle, Idle
  <1>4. CASE UNCHANGED vars
    BY <1>4 DEF vars, ClosedInv, AllIdle, Idle
  <1> QED
    BY <1>1, <1>2, <1>3, <1>4 DEF Next, ClosedInv

-----------------------------------------------------------------------------
(* Steps of the abstract log                                                *)

LEMMA EntriesInit == Init => EntriesInv
  <1> SUFFICES ASSUME Init PROVE EntriesInv
    OBVIOUS
  <1>1. AllIdle /\ DOMAIN file = {} /\ Len(file) = 0 /\ Len(index) = 0
    BY DEF Init, AllIdle, Idle
  <1>2. Covered = 0
    BY <1>1, CoveredIdle
  <1> QED
    BY <1>1, <1>2 DEF EntriesInv, IsEntry

(* A block b is appended: the entries are the old ones and b's.             *)
LEMMA AppendedEntries ==
    ASSUME TypeOK, TypeOK', Len(file') = Len(file) + 1,
           NEW b, b = file'[Len(file')], file' = Append(file, b)
    PROVE  /\ Len(file) \in Nat /\ DOMAIN file = 1..Len(file) /\ DOMAIN file' = 1..(Len(file) + 1)
           /\ b = file'[Len(file) + 1] /\ \A i \in 1..Len(file) : file'[i] = file[i]
           /\ \A i, j : IsEntry(i, j)' <=> \/ IsEntry(i, j)
                                           \/ i = Len(file) + 1 /\ j \in DOMAIN b.entries
           /\ \A i, j : IsEntry(i, j) => i \in 1..Len(file) /\ file'[i].entries[j] = file[i].entries[j]
  <1>1. /\ Len(file) \in Nat /\ DOMAIN file = 1..Len(file) /\ DOMAIN file' = 1..(Len(file) + 1)
        /\ b = file'[Len(file) + 1]
    BY LenProperties DEF TypeOK
  <1>2. \A i \in 1..Len(file) : file'[i] = file[i]
    <2>1. b \in Blocks
      BY <1>1, ElementOfSeq DEF TypeOK
    <2> QED
      BY <2>1, AppendType DEF TypeOK
  <1>3. ASSUME NEW i, NEW j
        PROVE  IsEntry(i, j)' <=> \/ IsEntry(i, j)
                                  \/ i = Len(file) + 1 /\ j \in DOMAIN b.entries
    BY <1>1, <1>2 DEF IsEntry
  <1>4. ASSUME NEW i, NEW j, IsEntry(i, j)
        PROVE  i \in 1..Len(file) /\ file'[i].entries[j] = file[i].entries[j]
    BY <1>1, <1>2, <1>4 DEF IsEntry
  <1> QED
    BY <1>1, <1>2, <1>3, <1>4

(* Two blocks at one position are one block.                                *)
LEMMA PositionsDiffer ==
    ASSUME TypeOK, PositionInv, NEW i \in 1..Len(file), NEW k \in 1..Len(file),
           file[i].at = file[k].at
    PROVE  i = k
  <1>1. /\ DOMAIN file = 1..Len(file) /\ Len(file) \in Nat
        /\ file[i].at \in Nat /\ file[k].at \in Nat
    BY Positions
  <1>2. CASE i < k
    <2>1. i \in 1..(k - 1)
      BY <1>1, <1>2
    <2> QED
      BY <1>1, <2>1 DEF PositionInv
  <1>3. CASE k < i
    <2>1. k \in 1..(i - 1)
      BY <1>1, <1>3
    <2> QED
      BY <1>1, <2>1 DEF PositionInv
  <1> QED
    BY <1>1, <1>2, <1>3

LEMMA ClientEntries ==
    ASSUME TypeOK, TypeOK', EntriesInv, Covered \in 0..Len(file), Log!AppendClient
    PROVE  EntriesInv'
  <1> DEFINE b == file'[Len(file')]
  <1>1. /\ Len(file') = Len(file) + 1 /\ file' = Append(file, b)
        /\ DOMAIN b.entries = {} /\ Covered' = Covered
    BY DEF Log!AppendClient
  <1> HIDE DEF b
  <1>2. /\ Len(file) \in Nat /\ \A i \in 1..Len(file) : file'[i] = file[i]
        /\ \A i, j : IsEntry(i, j)' <=> IsEntry(i, j)
        /\ \A i, j : IsEntry(i, j) => file'[i].entries[j] = file[i].entries[j]
    BY <1>1, AppendedEntries DEF b
  <1>3. \A k \in 1..Covered : k \in 1..Len(file)
    BY <1>2
  <1>4. ASSUME NEW i, NEW j, IsEntry(i, j), NEW k \in 1..Covered
        PROVE  Names(file[i].entries[j], k)' <=> Names(file[i].entries[j], k)
    BY <1>2, <1>3, <1>4 DEF Names
  <1> HIDE DEF Covered
  <1>5. ASSUME NEW i, NEW j, IsEntry(i, j)'
        PROVE  \E k \in 1..Covered' : Names(file[i].entries[j], k)'
    <2>1. IsEntry(i, j)
      BY <1>2, <1>5
    <2>2. PICK k \in 1..Covered : Names(file[i].entries[j], k)
      BY <2>1 DEF EntriesInv
    <2> QED
      BY <1>1, <1>4, <2>1, <2>2
  <1>6. ASSUME NEW k \in 1..Covered', file'[k].group # INDEX
        PROVE  \E i, j : IsEntry(i, j)' /\ Names(file[i].entries[j], k)'
    <2>1. k \in 1..Covered /\ file[k].group # INDEX
      BY <1>1, <1>2, <1>3, <1>6
    <2>2. PICK i, j : IsEntry(i, j) /\ Names(file[i].entries[j], k)
      BY <2>1 DEF EntriesInv
    <2>3. IsEntry(i, j)' /\ Names(file[i].entries[j], k)'
      BY <1>2, <1>4, <2>1, <2>2
    <2> QED
      BY <2>3
  <1>7. ASSUME NEW i, NEW j, NEW m, NEW l, IsEntry(i, j)', IsEntry(m, l)',
               file'[i].entries[j].offset = file'[m].entries[l].offset
        PROVE  i = m /\ j = l
    <2>1. IsEntry(i, j) /\ IsEntry(m, l)
      BY <1>2, <1>7
    <2>2. file[i].entries[j].offset = file[m].entries[l].offset
      BY <1>2, <1>7, <2>1
    <2> QED
      BY <2>1, <2>2 DEF EntriesInv
  <1> QED
    BY <1>5, <1>6, <1>7 DEF EntriesInv

LEMMA IndexEntries ==
    ASSUME TypeOK, TypeOK', EntriesInv, PositionInv, Covered \in 0..Len(file), Log!AppendIndexBlock
    PROVE  EntriesInv'
  <1> DEFINE b == file'[Len(file')]
             c == Covered
             n == Len(file) - c
  <1>1. /\ Len(file') = Len(file) + 1 /\ file' = Append(file, b) /\ b.group = INDEX
        /\ b.entries = [k \in 1..n |-> [offset |-> file[c + k].at, group |-> file[c + k].group]]
        /\ Covered' = Len(file')
    BY DEF Log!AppendIndexBlock
  <1> HIDE DEF b
  <1>2. /\ Len(file) \in Nat /\ b = file'[Len(file) + 1]
        /\ \A i \in 1..Len(file) : file'[i] = file[i]
        /\ \A i, j : IsEntry(i, j)' <=> \/ IsEntry(i, j)
                                        \/ i = Len(file) + 1 /\ j \in DOMAIN b.entries
        /\ \A i, j : IsEntry(i, j) => /\ i \in 1..Len(file)
                                      /\ file'[i].entries[j] = file[i].entries[j]
    BY <1>1, AppendedEntries DEF b
  <1>3. c \in Nat /\ c <= Len(file) /\ n \in Nat /\ DOMAIN b.entries = 1..n
    BY <1>1, <1>2
  <1> HIDE DEF c
  <1>4. ASSUME NEW k \in 1..n
        PROVE  /\ c + k \in 1..Len(file) /\ c + k > c
               /\ b.entries[k].offset = file[c + k].at /\ b.entries[k].group = file[c + k].group
    BY <1>1, <1>2, <1>3
  <1>5. ASSUME NEW i, NEW j, IsEntry(i, j)
        PROVE  \E k \in 1..c : Names(file[i].entries[j], k)
    BY <1>5 DEF EntriesInv, c
  <1>6. \A k \in 1..c : k \in 1..Len(file)
    BY <1>2, <1>3
  <1>7. ASSUME NEW i, NEW j, IsEntry(i, j)'
        PROVE  \E k \in 1..Len(file') : Names(file[i].entries[j], k)'
    <2>1. CASE IsEntry(i, j)
      <3>1. PICK k \in 1..c : Names(file[i].entries[j], k)
        BY <1>5, <2>1
      <3>2. k \in 1..Len(file) /\ k \in 1..Len(file')
        BY <1>1, <1>2, <1>6
      <3> QED
        BY <1>2, <2>1, <3>1, <3>2 DEF Names
    <2>2. CASE i = Len(file) + 1 /\ j \in 1..n
      <3>1. c + j \in 1..Len(file) /\ c + j \in 1..Len(file')
        BY <1>1, <1>2, <1>4, <2>2
      <3> QED
        BY <1>2, <1>4, <2>2, <3>1 DEF Names
    <2> QED
      BY <1>2, <1>3, <1>7, <2>1, <2>2
  <1>8. ASSUME NEW k \in 1..Len(file'), file'[k].group # INDEX
        PROVE  \E i, j : IsEntry(i, j)' /\ Names(file[i].entries[j], k)'
    <2>1. k \in 1..Len(file)
      BY <1>1, <1>2, <1>8
    <2>2. CASE k <= c
      <3>1. PICK i, j : IsEntry(i, j) /\ Names(file[i].entries[j], k)
        <4>1. k \in 1..c /\ file[k].group # INDEX
          BY <1>2, <1>3, <1>8, <2>1, <2>2
        <4> QED
          BY <4>1 DEF EntriesInv, c
      <3>2. IsEntry(i, j)' /\ Names(file[i].entries[j], k)'
        BY <1>2, <2>1, <3>1 DEF Names
      <3> QED
        BY <3>2
    <2>3. CASE k > c
      <3>1. PICK j \in 1..n : c + j = k
        BY <1>2, <1>3, <2>1, <2>3
      <3>2. PICK i : i = Len(file) + 1
        OBVIOUS
      <3>3. IsEntry(i, j)' /\ file'[i] = b
        BY <1>2, <1>3, <3>1, <3>2
      <3>4. b.entries[j].offset = file'[k].at /\ b.entries[j].group = file'[k].group
        BY <1>2, <1>4, <2>1, <3>1
      <3>5. Names(file[i].entries[j], k)'
        BY <3>3, <3>4 DEF Names
      <3> QED
        BY <3>3, <3>5
    <2> QED
      BY <1>3, <2>1, <2>2, <2>3
  <1>9. ASSUME NEW i, NEW j, NEW m, NEW l, IsEntry(i, j)', IsEntry(m, l)',
               file'[i].entries[j].offset = file'[m].entries[l].offset
        PROVE  i = m /\ j = l
    <2>1. CASE IsEntry(i, j) /\ IsEntry(m, l)
      BY <1>2, <1>9, <2>1 DEF EntriesInv
    (* An old entry names a block that was covered, a new one never does.   *)
    <2>2. ASSUME NEW x, NEW y, IsEntry(x, y), NEW z \in 1..n
          PROVE  file[x].entries[y].offset # b.entries[z].offset
      <3>1. PICK k \in 1..c : Names(file[x].entries[y], k)
        BY <1>5, <2>2
      <3>2. k \in 1..Len(file) /\ k # c + z /\ c + z \in 1..Len(file)
        BY <1>3, <1>4, <1>6
      <3>3. file[k].at # file[c + z].at
        BY <3>2, PositionsDiffer
      <3> QED
        BY <1>4, <3>1, <3>3 DEF Names
    <2>3. CASE IsEntry(i, j) /\ m = Len(file) + 1 /\ l \in 1..n
      BY <1>2, <1>9, <2>2, <2>3
    <2>4. CASE i = Len(file) + 1 /\ j \in 1..n /\ IsEntry(m, l)
      BY <1>2, <1>9, <2>2, <2>4
    <2>5. CASE i = Len(file) + 1 /\ m = Len(file) + 1 /\ j \in 1..n /\ l \in 1..n
      <3>1. file[c + j].at = file[c + l].at
        BY <1>2, <1>4, <1>9, <2>5
      <3>2. c + j = c + l
        BY <1>4, <2>5, <3>1, PositionsDiffer
      <3> QED
        BY <1>3, <2>5, <3>2
    <2> QED
      BY <1>2, <1>3, <1>9, <2>1, <2>3, <2>4, <2>5
  <1> QED
    BY <1>1, <1>7, <1>8, <1>9 DEF EntriesInv

LEMMA EntriesNext ==
    ASSUME TypeOK, TypeOK', Serialised, SerialInv, PositionInv, ~damaged => EntriesInv, [Next]_vars
    PROVE  ~damaged' => EntriesInv'
  <1> SUFFICES ASSUME ~damaged' PROVE EntriesInv'
    OBVIOUS
  <1>1. ~damaged
    BY DamageStays
  <1>2. OneCaller /\ Undamaged /\ EntriesInv
    BY <1>1 DEF SerialInv
  <1>3. Covered \in 0..Len(file)
    BY <1>2 DEF Undamaged, PendingMatches
  <1>4. Log!LogNext \/ (file' = file /\ Covered' = Covered)
    BY <1>2, LogStep DEF Log!logVars
  <1>5. CASE file' = file /\ Covered' = Covered
    BY <1>2, <1>5 DEF EntriesInv, IsEntry, Names
  <1> QED
    BY <1>2, <1>3, <1>4, <1>5, ClientEntries, IndexEntries DEF Log!LogNext

-----------------------------------------------------------------------------
(* References to a block                                                    *)

LEMMA FileRefsAre ==
    ASSUME NEW k, NEW x
    PROVE  x \in FileRefs(k) <=> \E i, j : /\ IsEntry(i, j) /\ Names(file[i].entries[j], k)
                                           /\ x = <<i, j>>
  BY DEF FileRefs, IsEntry

LEMMA ReferredOnce ==
    ASSUME TypeOK, Undamaged, EntriesInv, PositionInv, AllIdle,
           NEW k \in DOMAIN file, file[k].group # INDEX
    PROVE  Cardinality(FileRefs(k)) + Cardinality(PendingRefs(k)) = 1
  <1> DEFINE c == Covered
  <1>1. /\ k \in 1..Len(file) /\ Len(file) \in Nat /\ Len(index) \in Nat
        /\ DOMAIN index = 1..Len(index)
    BY Positions, LenProperties DEF TypeOK
  <1>2. c = Len(file) - Len(index) /\ c \in 0..Len(file)
    BY CoveredIdle DEF Undamaged, PendingMatches
  <1>3. ASSUME NEW j \in 1..Len(index)
        PROVE  c + j \in 1..Len(file) /\ index[j].offset = file[c + j].at /\ Names(index[j], c + j)
    <2>1. j \in 1..(Len(file) - Covered)
      BY <1>1, <1>2
    <2> QED
      BY <1>1, <1>2, <2>1 DEF Undamaged, PendingMatches, Names
  <1>4. ASSUME NEW i, NEW j, IsEntry(i, j)
        PROVE  \E m \in 1..c : Names(file[i].entries[j], m)
    BY <1>4 DEF EntriesInv
  <1>5. k <= c => \E i, j : IsEntry(i, j) /\ Names(file[i].entries[j], k)
    BY <1>1, <1>2 DEF EntriesInv
  <1> HIDE DEF c
  <1>6. CASE k <= c
    <2>1. PICK i, j : IsEntry(i, j) /\ Names(file[i].entries[j], k)
      BY <1>5, <1>6
    <2>2. ASSUME NEW m, NEW n, IsEntry(m, n), Names(file[m].entries[n], k)
          PROVE  m = i /\ n = j
      BY <2>1, <2>2 DEF Names, EntriesInv
    <2>3. FileRefs(k) = {<<i, j>>}
      BY <2>1, <2>2, FileRefsAre
    <2>4. ASSUME NEW n \in PendingRefs(k) PROVE FALSE
      <3>1. n \in 1..Len(index) /\ index[n].offset = file[k].at
        BY <1>1 DEF PendingRefs, Names
      <3>2. c + n = k
        BY <1>1, <1>3, <3>1, PositionsDiffer
      <3> QED
        BY <1>1, <1>2, <1>6, <3>1, <3>2
    <2>5. PendingRefs(k) = {}
      BY <2>4
    <2>6. Cardinality(FileRefs(k)) = 1 /\ Cardinality(PendingRefs(k)) = 0
      BY <2>3, <2>5, FS_EmptySet, FS_Singleton
    <2> QED
      BY <2>6
  <1>7. CASE k > c
    <2>1. ASSUME NEW x \in FileRefs(k) PROVE FALSE
      <3>1. PICK i, j : IsEntry(i, j) /\ Names(file[i].entries[j], k)
        BY FileRefsAre
      <3>2. PICK m \in 1..c : Names(file[i].entries[j], m)
        BY <1>4, <3>1
      <3>3. m \in 1..Len(file) /\ file[m].at = file[k].at
        BY <1>1, <1>2, <3>1, <3>2 DEF Names
      <3>4. m = k
        BY <1>1, <3>3, PositionsDiffer
      <3> QED
        BY <1>1, <1>2, <1>7, <3>4
    <2>2. FileRefs(k) = {}
      BY <2>1
    <2>3. PICK n \in 1..Len(index) : c + n = k
      <3>1. k - c \in 1..Len(index) /\ c + (k - c) = k
        BY <1>1, <1>2, <1>7
      <3> QED
        BY <3>1
    <2>4. n \in PendingRefs(k)
      BY <1>1, <1>3, <2>3 DEF PendingRefs
    <2>5. ASSUME NEW m \in PendingRefs(k) PROVE m = n
      <3>1. m \in 1..Len(index) /\ index[m].offset = file[k].at
        BY <1>1 DEF PendingRefs, Names
      <3>2. c + m = k
        BY <1>1, <1>3, <3>1, PositionsDiffer
      <3> QED
        BY <1>1, <1>2, <2>3, <3>1, <3>2
    <2>6. PendingRefs(k) = {n}
      BY <2>4, <2>5
    <2>7. Cardinality(FileRefs(k)) = 0 /\ Cardinality(PendingRefs(k)) = 1
      BY <2>2, <2>6, FS_EmptySet, FS_Singleton
    <2> QED
      BY <2>7
  <1> QED
    BY <1>1, <1>2, <1>6, <1>7

(* EveryBlockIndexedOnce for callers that take turns: between calls, every  *)
(* block written so far is named by exactly one entry, in an index block of *)
(* the file or in memory, and after the destructor none is left in memory;  *)
(* until a failed write does damage.                                        *)
THEOREM AllIndexedOnce == Serialised /\ Spec => []EveryBlockIndexedOnce
  <1> SUFFICES ASSUME Serialised PROVE Spec => []EveryBlockIndexedOnce
    OBVIOUS
  <1> DEFINE Inv == SerialInv /\ PositionInv /\ ClosedInv /\ (~damaged => EntriesInv)
  <1>1. Init => Inv
    BY OneCallerInit, UndamagedInit, PositionInit, EntriesInit DEF SerialInv, ClosedInv, Init
  <1>2. TypeOK /\ TypeOK' /\ Inv /\ [Next]_vars => Inv'
    BY SerialInvNext, PositionNext, ClosedNext, EntriesNext
  <1>3. TypeOK /\ Inv => EveryBlockIndexedOnce
    BY ReferredOnce DEF EveryBlockIndexedOnce, SerialInv, ClosedInv
  <1> QED
    BY <1>1, <1>2, <1>3, TypeCorrect, PTL DEF Spec

-----------------------------------------------------------------------------
(* The signals                                                              *)

HIDE DEF METADATA, INDEX, HeaderSize, FooterSize, EntrySize

Active(s) == task[s].step # "none"

(* Signal s uses group g, or is about to.                                   *)
Has(s, g) == g # NoHandler /\ (handler[s] = g \/ (Active(s) /\ task[s].group = g))

(* What is used was allocated, and by one signal.                           *)
GroupInv ==
    /\ nextGroup >= 2
    /\ \A s \in Signals :
          /\ Active(s) => task[s].group >= 2
          /\ \A g \in Groups : Has(s, g) => 2 <= g /\ g < nextGroup
          /\ task[s].step \in {"declare", "declaring"} => handler[s] = NoHandler
    /\ \A s, r \in Signals : s # r => \A g \in Groups : ~(Has(s, g) /\ Has(r, g))

(* What a thread is doing in the writer is what its signal asked for.       *)
CallInv ==
    \A s \in Signals :
        /\ task[s].step \in {"none", "declare", "record"} => pc[s] = "idle"
        /\ task[s].step = "declaring" =>
              pc[s] # "idle" /\ call[s].group = METADATA /\ call[s].declares = task[s].group
        /\ task[s].step = "recording" =>
              pc[s] # "idle" /\ call[s].group = task[s].group /\ call[s].declares = METADATA

InFile(g) == \E i \in DOMAIN file : file[i].declares = g

DeclaredOnce ==
    \A i, k \in DOMAIN file :
        i # k /\ file[i].declares # METADATA => file[i].declares # file[k].declares

BeforeWrite(s) == task[s].step = "declare" \/ (task[s].step = "declaring" /\ pc[s] \in {"emplace", "write"})

AfterWrite(s) ==
    \/ task[s].step \in {"record", "recording"}
    \/ task[s].step = "declaring" /\ pc[s] \in Labels \ {"idle", "emplace", "write", "threw"}

(* The metadata of a group is in the file exactly when it should be: not    *)
(* before it is written, and as soon as a handler may use the group.        *)
MetadataInv ==
    /\ \A g \in Groups : g # METADATA /\ InFile(g) => g < nextGroup
    /\ \A s \in Signals :
          /\ BeforeWrite(s) => ~InFile(task[s].group)
          /\ AfterWrite(s) => InFile(task[s].group)
          /\ handler[s] # NoHandler => InFile(handler[s])

FileInv == DeclaredOnce /\ DeclaredBeforeData /\ MetadataInv

DescriptorInv ==
    \A s \in Signals :
        /\ handler[s] # NoHandler => declaredAs[handler[s]] = lastDescriptor[s]
        /\ Active(s) => task[s].descriptor = lastDescriptor[s]
        /\ task[s].step \in {"declaring", "record", "recording"} =>
              declaredAs[task[s].group] = lastDescriptor[s]

ControlInv == TypeOK /\ RTypeOK /\ GroupInv /\ CallInv

Tasks == [step : Steps, descriptor : MaybeDescriptors, usable : BOOLEAN, group : Groups]

-----------------------------------------------------------------------------
(* The recorder's signals use the writer as its specification allows        *)

LEMMA GroupFacts ==
    /\ NoHandler = 0 /\ METADATA = 0 /\ INDEX = 1 /\ MaxGroup \in Nat /\ NoHandler \in Groups
    /\ Groups \subseteq Nat /\ NoTask \in Tasks /\ NoDescriptor \in MaybeDescriptors
    /\ \A g \in Groups : g >= 2 => g \in UserGroups
  BY SieWriterAssumption
     DEF NoHandler, METADATA, INDEX, Groups, UserGroups, NoTask, Tasks, Steps, MaybeDescriptors

LEMMA WriterNext == ControlInv /\ [RNext]_rvars => [Next]_vars
  <1> SUFFICES ASSUME ControlInv, [RNext]_rvars PROVE [Next]_vars
    OBVIOUS
  <1> USE GroupFacts
  <1>1. ASSUME NEW s \in Signals, Declare(s) PROVE Next
    <2>1. task[s].group \in UserGroups
      BY <1>1 DEF Declare, ControlInv, GroupInv, Active, RTypeOK
    <2>2. METADATA \in UserGroups /\ task[s].group \in Declarable(METADATA)
      BY <2>1 DEF UserGroups, Groups, METADATA, INDEX, Declarable
    <2> QED
      BY <1>1, <2>2 DEF Declare, Next, Signals
  <1>2. ASSUME NEW s \in Signals, Record(s) PROVE Next
    <2>1. task[s].group \in UserGroups /\ task[s].group # METADATA
      BY <1>2 DEF Record, ControlInv, GroupInv, Active, RTypeOK
    <2>2. METADATA \in Declarable(task[s].group)
      BY <2>1 DEF Declarable
    <2> QED
      BY <1>2, <2>1, <2>2 DEF Record, Next, Signals
  <1>3. ASSUME NEW s \in Signals, Declared(s) \/ DeclareFailed(s) \/ Recorded(s) \/ InWriter(s)
        PROVE  Next
    BY <1>3 DEF Declared, DeclareFailed, Recorded, InWriter, Next, Signals
  <1>4. ASSUME NEW s \in Signals, NEW d \in Descriptors, NEW usable \in BOOLEAN,
               NewDescriptor(s, d, usable) \/ SameDescriptor(s, usable)
        PROVE  UNCHANGED vars
    BY <1>4 DEF NewDescriptor, SameDescriptor
  <1>5. ASSUME NEW s \in Signals, NEW usable \in BOOLEAN, SameDescriptor(s, usable)
        PROVE  UNCHANGED vars
    BY <1>5 DEF SameDescriptor
  <1>6. CloseFile => Next
    BY DEF CloseFile, Next
  <1>7. UNCHANGED rvars => UNCHANGED vars
    BY DEF rvars
  <1> QED
    BY <1>1, <1>2, <1>3, <1>4, <1>5, <1>6, <1>7 DEF RNext

(* What a writer call of the signal may change for its control.             *)
LEMMA WriterStepControl ==
    ASSUME TypeOK, NEW s \in Threads, WriterStep(s)
    PROVE  /\ pc[s] \notin {"idle", "done", "threw"}
           /\ pc'[s] \in Labels \ {"idle", "emplace"}
           /\ pc'[s] = "write" => pc[s] = "emplace"
           /\ pc[s] = "emplace" => pc'[s] = "write"
           /\ call'[s].group = call[s].group /\ call'[s].declares = call[s].declares
           /\ \A r \in Threads : r # s => pc'[r] = pc[r] /\ call'[r] = call[r]
  BY DEF TypeOK, WriterStep, EmplaceEntry, WriteBlock, WriteBlockFails, LoadOffset, StoreOffset,
         FlushIndex, FlushNothing, WriteIndex, FlushIndexFails, ClearIndex, Goto, Labels

LEMMA ControlInit == RInit => ControlInv
  <1> SUFFICES ASSUME RInit PROVE ControlInv
    OBVIOUS
  <1> USE GroupFacts
  <1>1. TypeOK
    BY TypeInit DEF RInit
  <1>2. RTypeOK
    BY DEF RInit, RTypeOK, Tasks
  <1> QED
    BY <1>1, <1>2 DEF RInit, Init, Signals, ControlInv, GroupInv, CallInv, Active, Has, NoTask

(* One step per action: a signal's own step keeps what it has or takes a    *)
(* fresh group, and changes nothing of what another signal has.             *)
LEMMA ControlNext == ControlInv /\ [RNext]_rvars => ControlInv'
  <1> SUFFICES ASSUME ControlInv, [RNext]_rvars PROVE ControlInv'
    OBVIOUS
  <1> USE GroupFacts
  <1>0. TypeOK /\ RTypeOK /\ GroupInv /\ CallInv /\ task \in [Signals -> Tasks] /\ Signals = Threads
    BY DEF ControlInv, RTypeOK, Tasks, Signals
  <1>00. TypeOK'
    BY <1>0, WriterNext, TypeNext
  <1>1. ASSUME NEW s \in Signals, NEW d \in Descriptors, NEW usable \in BOOLEAN,
               NewDescriptor(s, d, usable)
        PROVE  ControlInv'
    <2>0. /\ d \in MaybeDescriptors /\ task[s].step = "none" /\ pc' = pc /\ call' = call
          /\ lastDescriptor' = [lastDescriptor EXCEPT ![s] = d]
          /\ handler' = [handler EXCEPT ![s] = NoHandler]
          /\ packets' = [packets EXCEPT ![s] = @ + 1] /\ declaredAs' = declaredAs
      BY <1>1, RecorderSignalsAssumption
         DEF NewDescriptor, Arrives, Free, ResetHandler, MaybeDescriptors, vars
    <2>1. CASE Supported(d) /\ ~ConstructorThrows(d)
      <3> DEFINE new == [step |-> "declare", descriptor |-> d, usable |-> usable, group |-> nextGroup]
      <3>1. /\ nextGroup \in Groups /\ nextGroup' = nextGroup + 1
            /\ task' = [task EXCEPT ![s] = new]
        BY <1>1, <2>1 DEF NewDescriptor, AllocateGroup
      <3>2. new \in Tasks
        BY <2>0, <3>1 DEF Tasks, Steps
      <3>3. RTypeOK'
        BY <1>0, <2>0, <3>1, <3>2 DEF RTypeOK, Tasks
      <3>4. GroupInv'
        BY <1>0, <2>0, <3>1 DEF GroupInv, Active, Has, RTypeOK
      <3>5. CallInv'
        BY <1>0, <2>0, <3>1 DEF CallInv
      <3> QED
        BY <1>00, <3>3, <3>4, <3>5 DEF ControlInv
    <2>2. CASE Supported(d) /\ ConstructorThrows(d)
      <3>1. /\ nextGroup \in Groups /\ nextGroup' = nextGroup + 1
            /\ task' = [task EXCEPT ![s] = NoTask]
        BY <1>1, <2>2 DEF NewDescriptor, AllocateGroup
      <3>2. RTypeOK'
        BY <1>0, <2>0, <3>1 DEF RTypeOK, Tasks
      <3>3. GroupInv' /\ CallInv'
        BY <1>0, <2>0, <3>1 DEF GroupInv, CallInv, Active, Has, RTypeOK, NoTask
      <3> QED
        BY <1>00, <3>2, <3>3 DEF ControlInv
    <2>3. CASE ~Supported(d)
      <3>1. UNCHANGED <<nextGroup, task>>
        BY <1>1, <2>3 DEF NewDescriptor
      <3>2. RTypeOK'
        BY <1>0, <2>0, <3>1 DEF RTypeOK
      <3>3. GroupInv' /\ CallInv'
        BY <1>0, <2>0, <3>1 DEF GroupInv, CallInv, Active, Has, RTypeOK
      <3> QED
        BY <1>00, <3>2, <3>3 DEF ControlInv
    <2> QED
      BY <2>1, <2>2, <2>3
  <1>2. ASSUME NEW s \in Signals, NEW usable \in BOOLEAN, SameDescriptor(s, usable)
        PROVE  ControlInv'
    <2>0. /\ task[s].step = "none" /\ UNCHANGED <<pc, call, nextGroup, handler, lastDescriptor, declaredAs>>
          /\ packets' = [packets EXCEPT ![s] = @ + 1]
      BY <1>2 DEF SameDescriptor, Arrives, Free, vars
    <2>1. CASE handler[s] # NoHandler /\ usable
      <3> DEFINE new == [step |-> "record", descriptor |-> lastDescriptor[s],
                         usable |-> TRUE, group |-> handler[s]]
      <3>1. task' = [task EXCEPT ![s] = new]
        BY <1>2, <2>1 DEF SameDescriptor
      <3>2. new \in Tasks
        BY <1>0 DEF Tasks, Steps, RTypeOK
      <3>3. RTypeOK'
        BY <1>0, <2>0, <3>1, <3>2 DEF RTypeOK, Tasks
      <3>4. GroupInv'
        <4>1. \A g \in Groups, r \in Signals : Has(r, g)' => Has(r, g)
          BY <1>0, <2>0, <2>1, <3>1 DEF Has, Active
        <4>2. handler[s] >= 2
          BY <1>0, <2>1 DEF GroupInv, Has, RTypeOK
        <4>3. \A r \in Signals : r # s => task'[r] = task[r]
          BY <1>0, <3>1
        <4>4. task'[s].step = "record" /\ task'[s].group = handler[s]
          BY <1>0, <3>1
        <4> QED
          <5>1. nextGroup' >= 2 /\ nextGroup' = nextGroup /\ GroupInv
            BY <1>0, <2>0 DEF GroupInv
          <5>2. ASSUME NEW r \in Signals
                PROVE  /\ Active(r)' => task'[r].group >= 2
                       /\ task'[r].step \in {"declare", "declaring"} => handler'[r] = NoHandler
            <6>1. CASE r = s
              BY <4>2, <4>4, <6>1
            <6>2. CASE r # s
              BY <2>0, <4>3, <5>1, <6>2 DEF GroupInv, Active
            <6> QED
              BY <6>1, <6>2
          <5>3. ASSUME NEW r \in Signals, NEW g \in Groups, Has(r, g)'
                PROVE  2 <= g /\ g < nextGroup'
            BY <4>1, <5>1, <5>3 DEF GroupInv
          <5>4. ASSUME NEW r \in Signals, NEW q \in Signals, r # q, NEW g \in Groups
                PROVE  ~(Has(r, g)' /\ Has(q, g)')
            BY <4>1, <5>1, <5>4 DEF GroupInv
          <5> QED
            BY <5>1, <5>2, <5>3, <5>4 DEF GroupInv
      <3>5. CallInv'
        BY <1>0, <2>0, <3>1 DEF CallInv
      <3> QED
        BY <1>00, <3>3, <3>4, <3>5 DEF ControlInv
    <2>2. CASE ~(handler[s] # NoHandler /\ usable)
      <3>1. task' = task
        BY <1>2, <2>2 DEF SameDescriptor
      <3> QED
        BY <1>0, <1>00, <2>0, <3>1 DEF ControlInv, RTypeOK, GroupInv, CallInv, Active, Has
    <2> QED
      BY <2>1, <2>2
  (* The steps of a task under way: another step, the same group.           *)
  <1>3. ASSUME NEW s \in Signals, Declare(s) PROVE ControlInv'
    <2>0. /\ task' = [task EXCEPT ![s].step = "declaring"] /\ task[s].step = "declare"
          /\ declaredAs' = [declaredAs EXCEPT ![task[s].group] = task[s].descriptor]
          /\ UNCHANGED <<nextGroup, handler, lastDescriptor, packets>>
          /\ pc'[s] = "emplace" /\ call'[s].group = METADATA /\ call'[s].declares = task[s].group
          /\ \A r \in Signals : r # s => pc'[r] = pc[r] /\ call'[r] = call[r]
      BY <1>0, <1>3 DEF Declare, Enter, Goto, TypeOK
    <2>1. RTypeOK'
      BY <1>0, <2>0 DEF RTypeOK, Steps
    <2>2. GroupInv'
      BY <1>0, <2>0 DEF GroupInv, Active, Has, Tasks
    <2>3. CallInv'
      BY <1>0, <2>0 DEF CallInv, Tasks
    <2> QED
      BY <1>00, <2>1, <2>2, <2>3 DEF ControlInv
  <1>4. ASSUME NEW s \in Signals, Declared(s) PROVE ControlInv'
    <2>0. /\ task[s].step = "declaring" /\ handler' = [handler EXCEPT ![s] = task[s].group]
          /\ task' = [task EXCEPT ![s] = IF task[s].usable THEN [@ EXCEPT !.step = "record"] ELSE NoTask]
          /\ UNCHANGED <<nextGroup, lastDescriptor, packets, declaredAs>>
          /\ pc'[s] = "idle" /\ \A r \in Signals : r # s => pc'[r] = pc[r] /\ call'[r] = call[r]
      BY <1>0, <1>4 DEF Declared, Return, Goto, TypeOK
    <2> DEFINE new == IF task[s].usable THEN [task[s] EXCEPT !.step = "record"] ELSE NoTask
    <2>1. /\ new \in Tasks /\ new.step \in {"record", "none"}
          /\ new.step = "record" => new.group = task[s].group
      BY <1>0 DEF Tasks, Steps, NoTask
    <2>2. task' = [task EXCEPT ![s] = new]
      BY <2>0
    <2> HIDE DEF new
    <2>3. RTypeOK'
      <3>1. task' \in [Signals -> Tasks]
        BY <1>0, <2>1, <2>2
      <3>2. task[s].group \in Groups
        BY <1>0 DEF Tasks
      <3> QED
        BY <1>0, <2>0, <3>1, <3>2 DEF RTypeOK, Tasks
    <2>4. GroupInv'
      <3>1. ASSUME NEW r \in Signals, NEW g \in Groups, Has(r, g)' PROVE Has(r, g)
        BY <1>0, <2>0, <2>1, <2>2, <3>1 DEF Has, Active, RTypeOK
      <3>2. /\ Active(s) /\ task'[s] = new
            /\ \A r \in Signals : r # s => task'[r] = task[r] /\ handler'[r] = handler[r]
        BY <1>0, <2>0, <2>2 DEF Active, RTypeOK
      <3>3. \A r \in Signals : Active(r)' => task'[r].group >= 2
        BY <1>0, <2>1, <3>2 DEF GroupInv, Active
      <3>4. \A r \in Signals : task'[r].step \in {"declare", "declaring"} => handler'[r] = NoHandler
        BY <1>0, <2>1, <3>2 DEF GroupInv
      <3> QED
        BY <1>0, <2>0, <3>1, <3>3, <3>4 DEF GroupInv
    <2>5. CallInv'
      BY <1>0, <2>0, <2>1, <2>2 DEF CallInv
    <2> QED
      BY <1>00, <2>3, <2>4, <2>5 DEF ControlInv
  <1>5. ASSUME NEW s \in Signals, DeclareFailed(s) PROVE ControlInv'
    <2>0. /\ task[s].step = "declaring" /\ handler' = [handler EXCEPT ![s] = NoHandler]
          /\ task' = [task EXCEPT ![s] = NoTask]
          /\ UNCHANGED <<nextGroup, lastDescriptor, packets, declaredAs>>
          /\ pc'[s] = "idle" /\ \A r \in Signals : r # s => pc'[r] = pc[r] /\ call'[r] = call[r]
      BY <1>0, <1>5 DEF DeclareFailed, ResetHandler, Return, Goto, TypeOK
    <2>1. RTypeOK'
      BY <1>0, <2>0 DEF RTypeOK, Tasks
    <2>2. CallInv'
      BY <1>0, <2>0 DEF CallInv, RTypeOK, NoTask
    <2>3. GroupInv'
      <3>1. \A r \in Signals : \A g \in Groups : Has(r, g)' => Has(r, g)
        BY <1>0, <2>0 DEF Active, Has, RTypeOK, NoTask
      <3>2. \A r \in Signals : Active(r)' => task'[r].group >= 2
        BY <1>0, <2>0 DEF GroupInv, Active, RTypeOK, NoTask
      <3>3. \A r \in Signals : task'[r].step \in {"declare", "declaring"} => handler'[r] = NoHandler
        BY <1>0, <2>0 DEF GroupInv, RTypeOK, NoTask
      <3> QED
        BY <1>0, <2>0, <3>1, <3>2, <3>3 DEF GroupInv
    <2> QED
      BY <1>00, <2>1, <2>2, <2>3 DEF ControlInv
  <1>6. ASSUME NEW s \in Signals, Record(s) PROVE ControlInv'
    <2>0. /\ task' = [task EXCEPT ![s].step = "recording"] /\ task[s].step = "record"
          /\ UNCHANGED <<nextGroup, handler, lastDescriptor, packets, declaredAs>>
          /\ pc'[s] = "emplace" /\ call'[s].group = task[s].group /\ call'[s].declares = METADATA
          /\ \A r \in Signals : r # s => pc'[r] = pc[r] /\ call'[r] = call[r]
      BY <1>0, <1>6 DEF Record, Enter, Goto, TypeOK
    <2>1. RTypeOK'
      BY <1>0, <2>0 DEF RTypeOK, Steps
    <2>2. GroupInv'
      BY <1>0, <2>0 DEF GroupInv, Active, Has, Tasks
    <2>3. CallInv'
      BY <1>0, <2>0 DEF CallInv, Tasks
    <2> QED
      BY <1>00, <2>1, <2>2, <2>3 DEF ControlInv
  <1>7. ASSUME NEW s \in Signals, Recorded(s) PROVE ControlInv'
    <2>0. /\ task[s].step = "recording" /\ task' = [task EXCEPT ![s] = NoTask]
          /\ UNCHANGED <<nextGroup, handler, lastDescriptor, packets, declaredAs>>
          /\ pc'[s] = "idle" /\ \A r \in Signals : r # s => pc'[r] = pc[r] /\ call'[r] = call[r]
      BY <1>0, <1>7 DEF Recorded, Return, Goto, TypeOK
    <2>1. RTypeOK'
      BY <1>0, <2>0 DEF RTypeOK, Tasks
    <2>2. GroupInv'
      BY <1>0, <2>0 DEF GroupInv, Active, Has, NoTask
    <2>3. CallInv'
      BY <1>0, <2>0 DEF CallInv, NoTask
    <2> QED
      BY <1>00, <2>1, <2>2, <2>3 DEF ControlInv
  <1>8. ASSUME NEW s \in Signals, InWriter(s) PROVE ControlInv'
    <2>1. UNCHANGED signalVars /\ WriterStep(s)
      BY <1>8 DEF InWriter
    <2>2. RTypeOK' /\ GroupInv'
      BY <1>0, <2>1 DEF signalVars, RTypeOK, GroupInv, Active, Has
    <2>3. CallInv'
      BY <1>0, <2>1, WriterStepControl DEF signalVars, CallInv
    <2> QED
      BY <1>00, <2>2, <2>3 DEF ControlInv
  <1>9. CASE CloseFile
    BY <1>0, <1>00, <1>9
       DEF CloseFile, Close, signalVars, ControlInv, RTypeOK, GroupInv, CallInv, Active, Has
  <1>10. CASE UNCHANGED rvars
    BY <1>0, <1>00, <1>10
       DEF rvars, vars, signalVars, ControlInv, RTypeOK, GroupInv, CallInv, Active, Has
  <1> QED
    BY <1>1, <1>2, <1>3, <1>4, <1>5, <1>6, <1>7, <1>8, <1>9, <1>10 DEF RNext

LEMMA ControlHolds == RSpec => []ControlInv
  <1> QED
    BY ControlInit, ControlNext, PTL DEF RSpec

(* Signals, handlers and threads together do nothing with the writer that   *)
(* its own specification does not allow, so its theorems apply.             *)
THEOREM SignalsUseWriter == RSpec => Spec
  <1>1. RInit => Init
    BY DEF RInit
  <1> QED
    BY <1>1, WriterNext, ControlHolds, PTL DEF RSpec, Spec

-----------------------------------------------------------------------------
(* Metadata in the file                                                     *)

LEMMA AppendedMetadata ==
    ASSUME TypeOK, DeclaredOnce, DeclaredBeforeData,
           NEW size \in Nat, NEW g \in Nat, NEW d \in Nat, NEW es \in Seq(Entries),
           AppendBlock(size, g, d, es),
           d # METADATA => ~InFile(d),
           g \notin {METADATA, INDEX} => InFile(g)
    PROVE  /\ DeclaredOnce' /\ DeclaredBeforeData'
           /\ \A x : InFile(x)' <=> InFile(x) \/ x = d
  <1> DEFINE n == Len(file) + 1
             b == Block(fileLen, size, g, d, es)
  <1>1. /\ Len(file') = n /\ Len(file) \in Nat
        /\ \A i \in 1..Len(file) : file'[i] = file[i]
        /\ file'[n] = b
    BY AppendedBlock, LenProperties DEF TypeOK
  <1>2. file \in Seq(Blocks) /\ file' \in Seq(Blocks)
    <2>1. b \in Blocks
      BY BlockType DEF TypeOK
    <2> QED
      BY <2>1, AppendType DEF TypeOK, AppendBlock
  <1>3. DOMAIN file' = 1..n /\ DOMAIN file = 1..Len(file)
    BY <1>1, <1>2, LenProperties
  <1>4. b.group = g /\ b.declares = d
    BY DEF Block
  <1> HIDE DEF b
  <1>5. \A x : InFile(x)' <=> InFile(x) \/ x = d
    <2>1. ASSUME NEW x, InFile(x) PROVE InFile(x)'
      BY <1>1, <1>3, <2>1 DEF InFile
    <2>2. InFile(d)'
      BY <1>1, <1>3, <1>4 DEF InFile
    <2>3. ASSUME NEW x, InFile(x)' PROVE InFile(x) \/ x = d
      <3>1. PICK i \in 1..n : file'[i].declares = x
        BY <1>3, <2>3 DEF InFile
      <3>2. CASE i = n
        BY <1>1, <1>4, <3>1, <3>2
      <3>3. CASE i # n
        <4>1. i \in 1..Len(file)
          BY <1>1, <3>3
        <4> QED
          BY <1>1, <1>3, <3>1, <4>1 DEF InFile
      <3> QED
        BY <3>2, <3>3
    <2> QED
      BY <2>1, <2>2, <2>3
  <1>6. DeclaredOnce'
    <2> SUFFICES ASSUME NEW i \in 1..n, NEW k \in 1..n, i # k, file'[i].declares # METADATA
                 PROVE  file'[i].declares # file'[k].declares
      BY <1>3 DEF DeclaredOnce
    <2>1. CASE i # n /\ k # n
      <3>1. i \in 1..Len(file) /\ k \in 1..Len(file)
        BY <1>1, <2>1
      <3> QED
        BY <1>1, <1>3, <3>1 DEF DeclaredOnce
    <2>2. CASE i = n
      <3>1. k \in 1..Len(file)
        BY <1>1, <2>2
      <3> QED
        BY <1>1, <1>3, <1>4, <2>2, <3>1 DEF InFile
    <2>3. CASE k = n
      <3>1. i \in 1..Len(file)
        BY <1>1, <2>3
      <3> QED
        BY <1>1, <1>3, <1>4, <2>3, <3>1 DEF InFile
    <2> QED
      BY <2>1, <2>2, <2>3
  <1>7. DeclaredBeforeData'
    <2> SUFFICES ASSUME NEW k \in 1..n, file'[k].group \notin {METADATA, INDEX}
                 PROVE  \E i \in 1..(k - 1) : file'[i].declares = file'[k].group
      BY <1>3 DEF DeclaredBeforeData
    <2>1. CASE k = n
      <3>1. InFile(g) /\ file'[k].group = g
        BY <1>1, <1>4, <2>1
      <3>2. PICK i \in 1..Len(file) : file[i].declares = g
        BY <1>3, <3>1 DEF InFile
      <3>3. i \in 1..(k - 1) /\ file'[i] = file[i]
        BY <1>1, <2>1
      <3> QED
        BY <3>1, <3>2, <3>3
    <2>2. CASE k # n
      <3>1. k \in 1..Len(file)
        BY <1>1, <2>2
      <3>2. file[k].group \notin {METADATA, INDEX}
        BY <1>1, <3>1
      <3>3. PICK i \in 1..(k - 1) : file[i].declares = file[k].group
        BY <1>3, <3>1, <3>2 DEF DeclaredBeforeData
      <3>4. i \in 1..Len(file)
        BY <3>1
      <3> QED
        BY <1>1, <3>1, <3>3, <3>4
    <2> QED
      BY <2>1, <2>2
  <1> QED
    BY <1>5, <1>6, <1>7

AfterLabels == Labels \ {"idle", "emplace", "write", "threw"}

(* The steps in the writer, told apart by what they do to the file.         *)
LEMMA WriterStepFile ==
    ASSUME TypeOK, NEW s \in Threads, WriterStep(s)
    PROVE  \/ WriteBlock(s) /\ pc[s] = "write" /\ pc'[s] = "load"
           \/ WriteIndex(s) /\ pc[s] = "flush" /\ pc'[s] = "loadIndexed"
           \/ /\ file' = file
              /\ \/ pc[s] = "emplace" /\ pc'[s] = "write"
                 \/ pc[s] = "write" /\ pc'[s] = "threw"
                 \/ pc[s] \in AfterLabels /\ pc'[s] \in AfterLabels \cup {"threw"}
  BY DEF TypeOK, WriterStep, EmplaceEntry, WriteBlock, WriteBlockFails, LoadOffset, StoreOffset,
         FlushIndex, FlushNothing, WriteIndex, FlushIndexFails, WriteTorn, ClearIndex, Goto,
         Labels, AfterLabels

LEMMA FileInit == RInit => FileInv
  <1> SUFFICES ASSUME RInit PROVE FileInv
    OBVIOUS
  <1>1. file = <<>> /\ DOMAIN file = {}
    BY DEF RInit, Init
  <1> QED
    BY <1>1 DEF RInit, NoTask, FileInv, DeclaredOnce, DeclaredBeforeData, MetadataInv, InFile,
                BeforeWrite, AfterWrite

(* Steps of the signals that leave the file alone.                          *)
LEMMA SameFile ==
    ASSUME DeclaredOnce, DeclaredBeforeData, file' = file
    PROVE  DeclaredOnce' /\ DeclaredBeforeData' /\ \A x : InFile(x)' <=> InFile(x)
  BY DEF DeclaredOnce, DeclaredBeforeData, InFile

(* A signal that only moves on: it needs no less metadata than it has.      *)
LEMMA MetadataKept ==
    ASSUME MetadataInv, ControlInv, \A x : InFile(x)' <=> InFile(x),
           nextGroup' >= nextGroup, nextGroup' \in Nat, NEW s \in Signals,
           \A r \in Signals : r # s => /\ task'[r] = task[r] /\ pc'[r] = pc[r]
                                       /\ handler'[r] = handler[r],
           BeforeWrite(s)' => ~InFile(task'[s].group),
           AfterWrite(s)' => InFile(task'[s].group),
           handler'[s] # NoHandler => InFile(handler'[s])
    PROVE  MetadataInv'
  <1>1. ASSUME NEW g \in Groups, g # METADATA, InFile(g)' PROVE g < nextGroup'
    BY <1>1, GroupFacts DEF MetadataInv, ControlInv, RTypeOK
  <1>2. ASSUME NEW r \in Signals
        PROVE  /\ BeforeWrite(r)' => ~InFile(task'[r].group)
               /\ AfterWrite(r)' => InFile(task'[r].group)
               /\ handler'[r] # NoHandler => InFile(handler'[r])
    BY <1>2 DEF MetadataInv, BeforeWrite, AfterWrite
  <1> QED
    BY <1>1, <1>2 DEF MetadataInv

LEMMA WriterStepMetadata ==
    ASSUME ControlInv, FileInv, NEW s \in Signals, InWriter(s)
    PROVE  FileInv'
  <1> USE GroupFacts DEF FileInv
  <1>0. /\ WriterStep(s) /\ UNCHANGED signalVars /\ TypeOK /\ s \in Threads
        /\ \A r \in Signals : r # s => pc'[r] = pc[r]
        /\ nextGroup \in Nat /\ task \in [Signals -> Tasks] /\ handler \in [Signals -> Groups]
    BY WriterStepControl DEF InWriter, ControlInv, RTypeOK, Tasks, Signals
  <1>1. CASE file' = file /\ ~WriteBlock(s) /\ ~WriteIndex(s)
    <2>1. \/ pc[s] = "emplace" /\ pc'[s] = "write"
          \/ pc[s] = "write" /\ pc'[s] = "threw"
          \/ pc[s] \in AfterLabels /\ pc'[s] \in AfterLabels \cup {"threw"}
      BY <1>0, <1>1, WriterStepFile
    <2>2. DeclaredOnce' /\ DeclaredBeforeData' /\ \A x : InFile(x)' <=> InFile(x)
      BY <1>1, SameFile
    <2>3. BeforeWrite(s)' => BeforeWrite(s)
      BY <1>0, <2>1 DEF signalVars, BeforeWrite, AfterLabels, Labels
    <2>4. AfterWrite(s)' => AfterWrite(s)
      BY <1>0, <2>1 DEF signalVars, AfterWrite, AfterLabels, Labels
    <2>5. MetadataInv'
      BY <1>0, <2>2, <2>3, <2>4, MetadataKept DEF signalVars, MetadataInv
    <2> QED
      BY <2>2, <2>5
  <1>2. CASE WriteBlock(s)
    <2> DEFINE none == <<>>
    <2>0. /\ pc[s] = "write" /\ pc'[s] = "load" /\ task[s].step \in {"declaring", "recording"}
          /\ call[s].size \in Nat /\ call[s].group \in Nat /\ call[s].declares \in Nat
          /\ AppendBlock(call[s].size, call[s].group, call[s].declares, none)
      BY <1>0, <1>2 DEF WriteBlock, ControlInv, CallInv, TypeOK, Goto, Tasks, Steps
    <2>1. none \in Seq(Entries)
      BY EmptySeq
    <2> HIDE DEF none
    <2>2. task[s].group \in Groups /\ task[s].group >= 2 /\ task[s].group < nextGroup
      <3>1. task[s].group \in Groups
        BY <1>0 DEF Tasks
      <3>2. task[s].group >= 2 /\ Active(s)
        BY <2>0 DEF ControlInv, GroupInv, Active
      <3>3. Has(s, task[s].group)
        BY <3>1, <3>2 DEF Has
      <3> QED
        BY <3>1, <3>2, <3>3 DEF ControlInv, GroupInv
    <2>3. CASE task[s].step = "declaring"
      <3> DEFINE d == task[s].group
      <3>1. call[s].group = METADATA /\ call[s].declares = d /\ ~InFile(d)
        BY <2>0, <2>3 DEF ControlInv, CallInv, MetadataInv, BeforeWrite
      <3>2. DeclaredOnce' /\ DeclaredBeforeData' /\ \A x : InFile(x)' <=> InFile(x) \/ x = d
        <4>1. AppendBlock(call[s].size, METADATA, d, none) /\ d \in Nat /\ METADATA \in Nat
          BY <2>0, <2>2, <3>1
        <4> HIDE DEF d
        <4> QED
          BY <1>0, <2>0, <2>1, <3>1, <4>1, AppendedMetadata
      <3>3. ASSUME NEW r \in Signals, r # s, BeforeWrite(r) PROVE task[r].group # d
        <4>1. Has(s, d)
          BY <2>0, <2>2 DEF Has, Active
        <4>2. task[r].group = d => Has(r, d)
          BY <2>2, <3>3 DEF BeforeWrite, Has, Active
        <4> QED
          BY <2>2, <3>3, <4>1, <4>2 DEF ControlInv, GroupInv
      <3>4. ~BeforeWrite(s)'
        BY <1>0, <2>0, <2>3 DEF BeforeWrite, signalVars
      <3>5. MetadataInv'
        <4>1. \A g \in Groups : g # METADATA /\ InFile(g)' => g < nextGroup'
          BY <1>0, <2>2, <3>2 DEF MetadataInv, signalVars
        <4>2. \A r \in Signals : handler'[r] # NoHandler => InFile(handler[r])'
          BY <1>0, <3>2 DEF MetadataInv, signalVars
        <4>3. \A r \in Signals : AfterWrite(r)' => InFile(task[r].group)'
          BY <1>0, <3>2 DEF MetadataInv, signalVars, AfterWrite
        <4>4. \A r \in Signals : BeforeWrite(r)' => ~InFile(task[r].group)'
          BY <1>0, <3>2, <3>3, <3>4 DEF MetadataInv, signalVars, BeforeWrite
        <4> QED
          BY <1>0, <4>1, <4>2, <4>3, <4>4 DEF MetadataInv, signalVars
      <3> QED
        BY <3>2, <3>5
    <2>4. CASE task[s].step = "recording"
      <3>1. call[s].group = task[s].group /\ call[s].declares = METADATA /\ InFile(task[s].group)
        BY <2>0, <2>4 DEF ControlInv, CallInv, MetadataInv, AfterWrite
      <3>2. DeclaredOnce' /\ DeclaredBeforeData' /\ \A x : InFile(x)' <=> InFile(x) \/ x = METADATA
        <4>1. AppendBlock(call[s].size, call[s].group, METADATA, none) /\ METADATA \in Nat
          BY <2>0, <3>1
        <4>2. InFile(call[s].group)
          BY <3>1
        <4> QED
          BY <1>0, <2>0, <2>1, <4>1, <4>2, AppendedMetadata
      <3>3. ASSUME NEW r \in Signals, BeforeWrite(r) PROVE task[r].group # METADATA
        BY <1>0, <3>3 DEF ControlInv, GroupInv, Active, BeforeWrite
      <3>4. MetadataInv'
        BY <1>0, <2>0, <2>4, <3>2, <3>3 DEF MetadataInv, signalVars, BeforeWrite, AfterWrite
      <3> QED
        BY <3>2, <3>4
    <2> QED
      BY <2>0, <2>3, <2>4
  <1>3. CASE WriteIndex(s)
    <2>0. /\ pc[s] = "flush" /\ pc'[s] = "loadIndexed" /\ index \in Seq(Entries)
          /\ AppendBlock(IndexBlockSize, INDEX, METADATA, index) /\ IndexBlockSize \in Nat
      BY <1>0, <1>3, IndexBlockSizeType DEF WriteIndex, TypeOK, Goto
    <2>1. DeclaredOnce' /\ DeclaredBeforeData' /\ \A x : InFile(x)' <=> InFile(x) \/ x = METADATA
      BY <1>0, <2>0, AppendedMetadata
    <2>2. ASSUME NEW r \in Signals, BeforeWrite(r) PROVE task[r].group # METADATA
      BY <1>0, <2>2 DEF ControlInv, GroupInv, Active, BeforeWrite
    <2>3. MetadataInv'
      BY <1>0, <2>0, <2>1, <2>2 DEF MetadataInv, signalVars, BeforeWrite, AfterWrite, Labels
    <2> QED
      BY <2>1, <2>3
  <1> QED
    BY <1>0, <1>1, <1>2, <1>3, WriterStepFile

LEMMA FileNext == ControlInv /\ FileInv /\ [RNext]_rvars => FileInv'
  <1> SUFFICES ASSUME ControlInv, FileInv, [RNext]_rvars PROVE FileInv'
    OBVIOUS
  <1> USE GroupFacts DEF FileInv
  <1>0. /\ TypeOK /\ RTypeOK /\ GroupInv /\ CallInv /\ Signals = Threads /\ nextGroup \in Nat
        /\ task \in [Signals -> Tasks] /\ handler \in [Signals -> Groups]
    BY DEF ControlInv, RTypeOK, Tasks, Signals
  (* A step of s that leaves the file alone, from what s has to show.       *)
  <1>1. ASSUME NEW s \in Signals, file' = file, nextGroup' \in {nextGroup, nextGroup + 1},
               \A r \in Signals : r # s => /\ task'[r] = task[r] /\ pc'[r] = pc[r]
                                           /\ handler'[r] = handler[r],
               BeforeWrite(s)' => ~InFile(task'[s].group),
               AfterWrite(s)' => InFile(task'[s].group),
               handler'[s] # NoHandler => InFile(handler'[s])
        PROVE  FileInv'
    <2>1. DeclaredOnce' /\ DeclaredBeforeData' /\ \A x : InFile(x)' <=> InFile(x)
      BY <1>1, SameFile
    <2>2. nextGroup' >= nextGroup /\ nextGroup' \in Nat
      BY <1>0, <1>1
    <2> QED
      BY <1>1, <2>1, <2>2, MetadataKept
  <1>2. ASSUME NEW s \in Signals, NEW d \in Descriptors, NEW usable \in BOOLEAN,
               NewDescriptor(s, d, usable)
        PROVE  FileInv'
    <2>0. /\ file' = file /\ pc' = pc /\ handler' = [handler EXCEPT ![s] = NoHandler]
          /\ task[s].step = "none" /\ pc[s] = "idle"
      BY <1>2 DEF NewDescriptor, Arrives, Free, Idle, ResetHandler, vars
    <2>1. CASE Supported(d) /\ ~ConstructorThrows(d)
      <3>1. /\ nextGroup \in Groups /\ nextGroup' = nextGroup + 1
            /\ task' = [task EXCEPT ![s] = [step |-> "declare", descriptor |-> d,
                                            usable |-> usable, group |-> nextGroup]]
        BY <1>2, <2>1 DEF NewDescriptor, AllocateGroup
      <3>2. ~InFile(nextGroup)
        BY <1>0, <3>1 DEF MetadataInv, GroupInv
      <3>3. task'[s].step = "declare" /\ task'[s].group = nextGroup /\ handler'[s] = NoHandler
        BY <1>0, <2>0, <3>1
      <3>4. ~AfterWrite(s)'
        BY <3>3 DEF AfterWrite
      <3> QED
        BY <1>0, <1>1, <2>0, <3>1, <3>2, <3>3, <3>4
    <2>2. CASE ~(Supported(d) /\ ~ConstructorThrows(d))
      <3>1. /\ nextGroup' \in {nextGroup, nextGroup + 1}
            /\ task' = task \/ task' = [task EXCEPT ![s] = NoTask]
        BY <1>2, <2>2 DEF NewDescriptor, AllocateGroup
      <3>2. task'[s].step = "none" /\ handler'[s] = NoHandler
        BY <1>0, <2>0, <3>1 DEF NoTask
      <3>3. ~BeforeWrite(s)' /\ ~AfterWrite(s)'
        BY <3>2 DEF BeforeWrite, AfterWrite
      <3> QED
        BY <1>0, <1>1, <2>0, <3>1, <3>2, <3>3
    <2> QED
      BY <2>1, <2>2
  <1>3. ASSUME NEW s \in Signals, NEW usable \in BOOLEAN, SameDescriptor(s, usable)
        PROVE  FileInv'
    <2>0. /\ file' = file /\ pc' = pc /\ handler' = handler /\ nextGroup' = nextGroup
          /\ task[s].step = "none" /\ pc[s] = "idle"
      BY <1>3 DEF SameDescriptor, Arrives, Free, Idle, vars
    <2>1. \/ task' = task
          \/ /\ handler[s] # NoHandler
             /\ task' = [task EXCEPT ![s] = [step |-> "record", descriptor |-> lastDescriptor[s],
                                             usable |-> TRUE, group |-> handler[s]]]
      BY <1>3 DEF SameDescriptor
    <2>2. \/ task'[s] = task[s]
          \/ /\ task'[s].step = "record" /\ task'[s].group = handler[s] /\ handler[s] # NoHandler
      BY <1>0, <2>1
    <2>3. handler[s] # NoHandler => InFile(handler[s])
      BY DEF MetadataInv
    <2>4. ~BeforeWrite(s)' /\ (AfterWrite(s)' => InFile(task'[s].group))
      BY <2>0, <2>2, <2>3 DEF BeforeWrite, AfterWrite
    <2> QED
      BY <1>0, <1>1, <2>0, <2>1, <2>3, <2>4
  <1>4. ASSUME NEW s \in Signals, Declare(s) PROVE FileInv'
    <2>0. /\ task' = [task EXCEPT ![s].step = "declaring"] /\ task[s].step = "declare"
          /\ UNCHANGED <<file, nextGroup, handler>> /\ pc'[s] = "emplace"
          /\ \A r \in Signals : r # s => pc'[r] = pc[r]
      BY <1>0, <1>4 DEF Declare, Enter, Goto, TypeOK
    <2>1. task'[s].step = "declaring" /\ task'[s].group = task[s].group
      BY <1>0, <2>0 DEF Tasks
    <2>2. BeforeWrite(s) /\ ~AfterWrite(s)'
      BY <2>0, <2>1 DEF BeforeWrite, AfterWrite
    <2>3. ~InFile(task[s].group) /\ (handler[s] # NoHandler => InFile(handler[s]))
      BY <2>2 DEF MetadataInv
    <2> QED
      BY <1>0, <1>1, <2>0, <2>1, <2>2, <2>3
  <1>5. ASSUME NEW s \in Signals, Declared(s) PROVE FileInv'
    <2> DEFINE new == IF task[s].usable THEN [task[s] EXCEPT !.step = "record"] ELSE NoTask
    <2>0. /\ task[s].step = "declaring" /\ handler' = [handler EXCEPT ![s] = task[s].group]
          /\ task' = [task EXCEPT ![s] = new] /\ pc[s] = "done"
          /\ UNCHANGED <<file, nextGroup>> /\ \A r \in Signals : r # s => pc'[r] = pc[r]
      BY <1>0, <1>5 DEF Declared, Return, Goto, TypeOK
    <2>1. new.step = "none" \/ (new.step = "record" /\ new.group = task[s].group)
      BY <1>0 DEF Tasks, NoTask
    <2> HIDE DEF new
    <2>2. task'[s] = new /\ handler'[s] = task[s].group
      BY <1>0, <2>0
    <2>3. InFile(task[s].group)
      BY <2>0 DEF MetadataInv, AfterWrite, Labels
    <2>4. ~BeforeWrite(s)' /\ (AfterWrite(s)' => InFile(task'[s].group))
      BY <2>1, <2>2, <2>3 DEF BeforeWrite, AfterWrite
    <2> QED
      BY <1>0, <1>1, <2>0, <2>2, <2>3, <2>4
  <1>6. ASSUME NEW s \in Signals, DeclareFailed(s) \/ Recorded(s) PROVE FileInv'
    <2>0. /\ task' = [task EXCEPT ![s] = NoTask]
          /\ handler' = handler \/ handler' = [handler EXCEPT ![s] = NoHandler]
          /\ UNCHANGED <<file, nextGroup>> /\ \A r \in Signals : r # s => pc'[r] = pc[r]
      BY <1>0, <1>6 DEF DeclareFailed, Recorded, ResetHandler, Return, Goto, TypeOK
    <2>1. task'[s].step = "none" /\ handler'[s] \in {handler[s], NoHandler}
      BY <1>0, <2>0 DEF NoTask
    <2>2. ~BeforeWrite(s)' /\ ~AfterWrite(s)' /\ (handler'[s] # NoHandler => InFile(handler'[s]))
      BY <2>1 DEF BeforeWrite, AfterWrite, MetadataInv
    <2> QED
      BY <1>0, <1>1, <2>0, <2>2
  <1>7. ASSUME NEW s \in Signals, Record(s) PROVE FileInv'
    <2>0. /\ task' = [task EXCEPT ![s].step = "recording"] /\ task[s].step = "record"
          /\ UNCHANGED <<file, nextGroup, handler>>
          /\ \A r \in Signals : r # s => pc'[r] = pc[r]
      BY <1>0, <1>7 DEF Record, Enter, Goto, TypeOK
    <2>1. task'[s].step = "recording" /\ task'[s].group = task[s].group
      BY <1>0, <2>0 DEF Tasks
    <2>2. ~BeforeWrite(s)' /\ AfterWrite(s)
      BY <2>0, <2>1 DEF BeforeWrite, AfterWrite
    <2>3. InFile(task[s].group) /\ (handler[s] # NoHandler => InFile(handler[s]))
      BY <2>2 DEF MetadataInv
    <2> QED
      BY <1>0, <1>1, <2>0, <2>1, <2>2, <2>3
  <1>8. ASSUME NEW s \in Signals, InWriter(s) PROVE FileInv'
    BY <1>8, WriterStepMetadata
  <1>9. CASE CloseFile
    <2>0. /\ UNCHANGED <<signalVars, pc>>
          /\ \A s \in Signals : task[s].step = "none"
      BY <1>9 DEF CloseFile, Close, Free
    <2>1. \A s \in Signals : ~BeforeWrite(s)' /\ ~AfterWrite(s)'
      BY <2>0 DEF BeforeWrite, AfterWrite, signalVars
    <2>2. CASE file' = file
      <3>1. DeclaredOnce' /\ DeclaredBeforeData' /\ \A x : InFile(x)' <=> InFile(x)
        BY <2>2, SameFile
      <3> QED
        BY <2>0, <2>1, <3>1 DEF MetadataInv, signalVars
    <2>3. CASE AppendBlock(IndexBlockSize, INDEX, METADATA, index)
      <3>1. index \in Seq(Entries) /\ IndexBlockSize \in Nat
        BY <1>0, IndexBlockSizeType DEF TypeOK
      <3>2. DeclaredOnce' /\ DeclaredBeforeData' /\ \A x : InFile(x)' <=> InFile(x) \/ x = METADATA
        BY <1>0, <2>3, <3>1, AppendedMetadata
      <3> QED
        BY <2>0, <2>1, <3>2 DEF MetadataInv, signalVars
    <2>4. file' = file \/ AppendBlock(IndexBlockSize, INDEX, METADATA, index)
      BY <1>9 DEF CloseFile, Close, WriteTorn
    <2> QED
      BY <2>2, <2>3, <2>4
  <1>10. CASE UNCHANGED rvars
    BY <1>10, SameFile DEF rvars, vars, signalVars, MetadataInv, BeforeWrite, AfterWrite
  <1> QED
    BY <1>2, <1>3, <1>4, <1>5, <1>6, <1>7, <1>8, <1>9, <1>10 DEF RNext

LEMMA FileHolds == RSpec => []FileInv
  <1> QED
    BY FileInit, FileNext, ControlHolds, PTL DEF RSpec

(* DeclaredBeforeData for any number of signals, senders' threads and       *)
(* descriptors, with blocks that fail or are torn: metadata comes first.    *)
THEOREM MetadataFirst == RSpec => []DeclaredBeforeData
  <1>1. FileInv => DeclaredBeforeData
    BY DEF FileInv
  <1> QED
    BY <1>1, FileHolds, PTL

(* GroupsAreOwn: allocate_group gives each handler a group of its own, and  *)
(* the file never declares one twice.                                       *)
THEOREM OwnGroups == RSpec => []GroupsAreOwn
  <1>1. ControlInv /\ FileInv => GroupsAreOwn
    <2> SUFFICES ASSUME ControlInv, FileInv PROVE GroupsAreOwn
      OBVIOUS
    <2> USE GroupFacts
    <2>1. RTypeOK /\ GroupInv /\ DeclaredOnce
      BY DEF ControlInv, FileInv
    <2>2. ASSUME NEW s \in Signals, NEW r \in Signals, s # r, handler[s] # NoHandler
          PROVE  handler[s] # handler[r]
      BY <2>1, <2>2 DEF RTypeOK, GroupInv, Has
    <2>3. ASSUME NEW s \in Signals, task[s].step # "none"
          PROVE  task[s].group \notin {METADATA, INDEX}
      BY <2>1, <2>3 DEF GroupInv, Active, METADATA, INDEX
    <2> QED
      BY <2>1, <2>2, <2>3 DEF GroupsAreOwn, DeclaredOnce
  <1> QED
    BY <1>1, ControlHolds, FileHolds, PTL

-----------------------------------------------------------------------------
(* Descriptors                                                              *)

LEMMA DescriptorInit == RInit => DescriptorInv
  BY DEF RInit, DescriptorInv, Active, NoTask

(* A step after which declaredAs is what it was, from what s has to show.   *)
LEMMA DescriptorKept ==
    ASSUME DescriptorInv, NEW s \in Signals, declaredAs' = declaredAs,
           \A r \in Signals : r # s => /\ task'[r] = task[r] /\ handler'[r] = handler[r]
                                       /\ lastDescriptor'[r] = lastDescriptor[r],
           handler'[s] # NoHandler => declaredAs[handler'[s]] = lastDescriptor'[s],
           task'[s].step # "none" => task'[s].descriptor = lastDescriptor'[s],
           task'[s].step \in {"declaring", "record", "recording"} =>
               declaredAs[task'[s].group] = lastDescriptor'[s]
    PROVE  DescriptorInv'
  <1> SUFFICES ASSUME NEW r \in Signals
               PROVE  /\ handler'[r] # NoHandler => declaredAs[handler'[r]] = lastDescriptor'[r]
                      /\ task'[r].step # "none" => task'[r].descriptor = lastDescriptor'[r]
                      /\ task'[r].step \in {"declaring", "record", "recording"} =>
                            declaredAs[task'[r].group] = lastDescriptor'[r]
    BY DEF DescriptorInv, Active
  <1>1. CASE r = s
    BY <1>1
  <1>2. CASE r # s
    BY <1>2 DEF DescriptorInv, Active
  <1> QED
    BY <1>1, <1>2

(* A declaration does not touch another signal's: groups are not shared.    *)
LEMMA DescriptorDeclare ==
    ASSUME ControlInv, DescriptorInv, NEW s \in Signals, Declare(s)
    PROVE  DescriptorInv'
  <1> USE GroupFacts
  <1>1. /\ RTypeOK /\ GroupInv /\ task \in [Signals -> Tasks] /\ task[s].step = "declare"
        /\ task' = [task EXCEPT ![s].step = "declaring"]
        /\ declaredAs' = [declaredAs EXCEPT ![task[s].group] = task[s].descriptor]
        /\ UNCHANGED <<handler, lastDescriptor>>
    BY DEF ControlInv, RTypeOK, Tasks, Declare
  <1>2. /\ Active(s) /\ task[s].group \in Groups /\ task[s].group >= 2 /\ handler[s] = NoHandler
        /\ task[s].descriptor = lastDescriptor[s] /\ Has(s, task[s].group)
    BY <1>1 DEF Active, GroupInv, Has, Tasks, DescriptorInv
  <1>3. declaredAs'[task[s].group] = lastDescriptor[s]
    BY <1>1, <1>2 DEF RTypeOK
  <1>4. /\ task'[s].step = "declaring" /\ task'[s].group = task[s].group
        /\ task'[s].descriptor = task[s].descriptor
        /\ \A r \in Signals : r # s => task'[r] = task[r]
    BY <1>1 DEF Tasks
  <1>5. ASSUME NEW r \in Signals, r # s, NEW g \in Groups, Has(r, g)
        PROVE  declaredAs'[g] = declaredAs[g]
    <2>1. g # task[s].group
      BY <1>1, <1>2, <1>5 DEF GroupInv
    <2> QED
      BY <1>1, <2>1 DEF RTypeOK
  <1>6. ASSUME NEW r \in Signals
        PROVE  /\ handler'[r] # NoHandler => declaredAs'[handler'[r]] = lastDescriptor'[r]
               /\ task'[r].step # "none" => task'[r].descriptor = lastDescriptor'[r]
               /\ task'[r].step \in {"declaring", "record", "recording"} =>
                     declaredAs'[task'[r].group] = lastDescriptor'[r]
    <2>1. CASE r = s
      BY <1>1, <1>2, <1>3, <1>4, <2>1
    <2>2. CASE r # s
      <3>1. handler[r] \in Groups /\ task[r].group \in Groups
        BY <1>1 DEF RTypeOK, Tasks
      <3>2. handler[r] # NoHandler => declaredAs'[handler[r]] = lastDescriptor[r]
        BY <1>5, <2>2, <3>1 DEF Has, DescriptorInv
      <3>3. task[r].step # "none" => task[r].group # NoHandler
        BY <1>1, <3>1 DEF GroupInv, Active
      <3>4. task[r].step \in {"declaring", "record", "recording"} =>
               declaredAs'[task[r].group] = lastDescriptor[r]
        BY <1>5, <2>2, <3>1, <3>3 DEF Has, Active, DescriptorInv
      <3> QED
        BY <1>1, <1>4, <2>2, <3>2, <3>4 DEF DescriptorInv, Active
    <2> QED
      BY <2>1, <2>2
  <1> QED
    BY <1>6 DEF DescriptorInv, Active

LEMMA DescriptorNext == ControlInv /\ DescriptorInv /\ [RNext]_rvars => DescriptorInv'
  <1> SUFFICES ASSUME ControlInv, DescriptorInv, [RNext]_rvars PROVE DescriptorInv'
    OBVIOUS
  <1> USE GroupFacts
  <1>0. /\ RTypeOK /\ GroupInv /\ task \in [Signals -> Tasks] /\ handler \in [Signals -> Groups]
        /\ lastDescriptor \in [Signals -> MaybeDescriptors]
    BY DEF ControlInv, RTypeOK, Tasks
  <1>1. ASSUME NEW s \in Signals, NEW d \in Descriptors, NEW usable \in BOOLEAN,
               NewDescriptor(s, d, usable)
        PROVE  DescriptorInv'
    <2>1. /\ declaredAs' = declaredAs /\ task[s].step = "none"
          /\ lastDescriptor' = [lastDescriptor EXCEPT ![s] = d]
          /\ handler' = [handler EXCEPT ![s] = NoHandler]
      BY <1>1 DEF NewDescriptor, Arrives, Free, ResetHandler
    <2>2. /\ \A r \in Signals : r # s => task'[r] = task[r]
          /\ task'[s].step \in {"none", "declare"}
          /\ task'[s].step # "none" => task'[s].descriptor = d
      BY <1>0, <1>1, <2>1 DEF NewDescriptor, NoTask
    <2> QED
      BY <1>0, <2>1, <2>2, DescriptorKept
  <1>2. ASSUME NEW s \in Signals, NEW usable \in BOOLEAN, SameDescriptor(s, usable)
        PROVE  DescriptorInv'
    <2>1. /\ UNCHANGED <<declaredAs, handler, lastDescriptor>> /\ task[s].step = "none"
      BY <1>2 DEF SameDescriptor, Arrives, Free
    <2>2. /\ \A r \in Signals : r # s => task'[r] = task[r]
          /\ \/ task'[s].step = "none"
             \/ /\ handler[s] # NoHandler /\ task'[s].group = handler[s]
                /\ task'[s].descriptor = lastDescriptor[s]
      BY <1>0, <1>2, <2>1 DEF SameDescriptor
    <2> QED
      BY <2>1, <2>2, DescriptorKept DEF DescriptorInv
  <1>3. ASSUME NEW s \in Signals, Declared(s) PROVE DescriptorInv'
    <2>1. /\ UNCHANGED <<declaredAs, lastDescriptor>> /\ task[s].step = "declaring"
          /\ handler' = [handler EXCEPT ![s] = task[s].group]
          /\ declaredAs[task[s].group] = lastDescriptor[s]
          /\ task[s].descriptor = lastDescriptor[s]
      BY <1>3 DEF Declared, DescriptorInv, Active
    <2>2. /\ \A r \in Signals : r # s => task'[r] = task[r]
          /\ \/ task'[s].step = "none"
             \/ task'[s].group = task[s].group /\ task'[s].descriptor = task[s].descriptor
      BY <1>0, <1>3 DEF Declared, NoTask, Tasks
    <2> QED
      BY <1>0, <2>1, <2>2, DescriptorKept
  <1>4. ASSUME NEW s \in Signals, DeclareFailed(s) \/ Recorded(s) PROVE DescriptorInv'
    <2>1. /\ UNCHANGED <<declaredAs, lastDescriptor>> /\ task' = [task EXCEPT ![s] = NoTask]
          /\ handler' = handler \/ handler' = [handler EXCEPT ![s] = NoHandler]
      BY <1>4 DEF DeclareFailed, Recorded, ResetHandler
    <2>2. task'[s].step = "none" /\ \A r \in Signals : r # s => task'[r] = task[r]
      BY <1>0, <2>1 DEF NoTask
    <2> QED
      BY <1>0, <2>1, <2>2, DescriptorKept DEF DescriptorInv
  <1>5. ASSUME NEW s \in Signals, Record(s) PROVE DescriptorInv'
    <2>1. /\ UNCHANGED <<declaredAs, lastDescriptor, handler>> /\ task[s].step = "record"
          /\ task' = [task EXCEPT ![s].step = "recording"]
      BY <1>5 DEF Record
    <2>2. /\ task'[s].group = task[s].group /\ task'[s].descriptor = task[s].descriptor
          /\ \A r \in Signals : r # s => task'[r] = task[r]
      BY <1>0, <2>1 DEF Tasks
    <2> QED
      BY <2>1, <2>2, DescriptorKept DEF DescriptorInv, Active
  <1>6. ASSUME NEW s \in Signals, InWriter(s) PROVE DescriptorInv'
    BY <1>6 DEF InWriter, signalVars, DescriptorInv, Active
  <1>7. CASE CloseFile \/ UNCHANGED rvars
    BY <1>7 DEF CloseFile, rvars, signalVars, DescriptorInv, Active
  <1> QED
    BY <1>1, <1>2, <1>3, <1>4, <1>5, <1>6, <1>7, DescriptorDeclare DEF RNext

(* DataMatchesDeclaration: a change of descriptors never lets the metadata  *)
(* of the old ones describe new data.                                       *)
THEOREM DescriptorsMatch == RSpec => []DataMatchesDeclaration
  <1>1. ControlInv /\ DescriptorInv => DataMatchesDeclaration
    BY DEF ControlInv, CallInv, DescriptorInv, DataMatchesDeclaration
  <1>2. RSpec => []DescriptorInv
    BY DescriptorInit, DescriptorNext, ControlHolds, PTL DEF RSpec
  <1> QED
    BY <1>1, <1>2, ControlHolds, PTL
=============================================================================
