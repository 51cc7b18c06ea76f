----------------------------- MODULE IndexedLog -----------------------------
(***************************************************************************)
(* What the indexing layer promises (basic_indexed_writer.h, "keeps track  *)
(* of the offset of each block written to it ... periodically emits index  *)
(* blocks containing the group number and offset of each                   *)
(* previously-written block"): the file is an append-only sequence of      *)
(* adjacent blocks, and an index block lists, in order, exactly the blocks *)
(* that follow the previous index block.                                   *)
(***************************************************************************)
EXTENDS Integers, Sequences

CONSTANTS
    IndexGroup,     \* the group of index blocks
    IndexSize(_)    \* the size of an index block of n entries

VARIABLES
    blocks,     \* the file
    indexed     \* how many blocks of the file are covered by index blocks

logVars == <<blocks, indexed>>

(* The first free position of the file.                                    *)
End == IF blocks = <<>> THEN 0
       ELSE blocks[Len(blocks)].at + blocks[Len(blocks)].size

LogInit == blocks = <<>> /\ indexed = 0

(* A client's block.                                                       *)
AppendClient ==
    /\ Len(blocks') = Len(blocks) + 1
    /\ blocks' = Append(blocks, blocks'[Len(blocks')])
    /\ LET b == blocks'[Len(blocks')] IN
          /\ b.at = End
          /\ b.group # IndexGroup
          /\ b.entries = <<>>
    /\ UNCHANGED indexed

(* An index block for all the blocks that are not covered yet.             *)
AppendIndexBlock ==
    LET n == Len(blocks) - indexed IN
    /\ n > 0
    /\ Len(blocks') = Len(blocks) + 1
    /\ blocks' = Append(blocks, blocks'[Len(blocks')])
    /\ LET b == blocks'[Len(blocks')] IN
          /\ b.at = End
          /\ b.group = IndexGroup
          /\ b.size = IndexSize(n)
          /\ b.entries = [k \in 1..n |-> [offset |-> blocks[indexed + k].at,
                                          group  |-> blocks[indexed + k].group]]
    /\ indexed' = Len(blocks')

LogNext == AppendClient \/ AppendIndexBlock
=============================================================================
