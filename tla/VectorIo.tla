------------------------------ MODULE VectorIo ------------------------------
(***************************************************************************)
(* One vectored write of the SIE file classes: posix_vector_io_file::write *)
(* (writev in a loop, resumed after a short write) and                     *)
(* fallback_vector_io_file::write (fwrite, segment by segment).  Every     *)
(* block of the SIE file goes through one of them.                         *)
(*                                                                         *)
(* A byte is the pair <<segment, position in it>>, so that a byte written  *)
(* twice, out of order or not at all shows in the file.                    *)
(***************************************************************************)
EXTENDS Integers, Sequences

CONSTANTS
    Calls,              \* the calls: each a sequence of segment lengths
    MayFail             \* TRUE iff the operating system may refuse a write

(* A call is a block.                                                       *)
ASSUME VectorIoAssumption ==
    /\ Calls \subseteq Seq(Nat) \ {<<>>}
    /\ \A c \in Calls : c[Len(c)] > 0     \* a block ends with its footer
    /\ MayFail \in BOOLEAN

VARIABLES
    form,               \* which class: "posix" or "fallback"
    lengths,            \* the segments of the call
    base, left,         \* iov_base and iov_len of each segment
    current,            \* current_segment
    written,            \* bytes of the last writev not yet accounted for
    pc,                 \* "write", "account", "done" or "threw"
    file

vars == <<form, lengths, base, left, current, written, pc, file>>

Segments == DOMAIN lengths

(* The bytes still described by segments i..last, in order: what writev is  *)
(* given.  Remaining[i] of them.                                            *)
Bytes(i) == [j \in 1..left[i] |-> <<i, base[i] + j>>]

Gather[i \in Nat] == IF i > Len(lengths) THEN <<>> ELSE Bytes(i) \o Gather[i + 1]

(* populate_iovs: every segment at its beginning.                           *)
PopulateIovs(c) ==
    /\ lengths = c
    /\ base = [i \in DOMAIN c |-> 0]
    /\ left = c

Init ==
    /\ form \in {"posix", "fallback"}
    /\ \E c \in Calls : PopulateIovs(c)
    /\ current = 1
    /\ written = 0
    /\ pc = "write"
    /\ file = <<>>

-----------------------------------------------------------------------------
(* posix_vector_io_file::write                                              *)

(* writev writes a first part of the bytes it is given, at least one.       *)
Writev ==
    /\ form = "posix" /\ pc = "write" /\ current \in Segments
    /\ \E n \in 1..Len(Gather[current]) :
          /\ file' = file \o SubSeq(Gather[current], 1, n)
          /\ written' = n
    /\ pc' = "account"
    /\ UNCHANGED <<form, lengths, base, left, current>>

(* writev returns an error, or 0: write() throws.                           *)
WritevFails ==
    /\ MayFail
    /\ form = "posix" /\ pc = "write" /\ current \in Segments
    /\ pc' = "threw"
    /\ UNCHANGED <<form, lengths, base, left, current, written, file>>

AfterAccount(rest) == IF rest = 0 THEN "write" ELSE "account"

(* One turn of do ... while (written): the segment is finished, ...         *)
SegmentDone ==
    /\ pc = "account"
    /\ written >= left[current]
    /\ written' = written - left[current]
    /\ current' = current + 1
    /\ pc' = AfterAccount(written')
    /\ UNCHANGED <<form, lengths, base, left, file>>

(* Mutants of SegmentCut: iov_base stays, or `written' does.                *)
SegmentCutKeepingBase ==
    /\ pc = "account"
    /\ written < left[current]
    /\ left' = [left EXCEPT ![current] = @ - written]
    /\ written' = 0
    /\ pc' = AfterAccount(written')
    /\ UNCHANGED <<form, lengths, base, current, file>>

SegmentCutForEver ==
    /\ pc = "account"
    /\ written < left[current]
    /\ UNCHANGED vars

(* ... or the next writev starts in the middle of it.                       *)
SegmentCut ==
    /\ pc = "account"
    /\ written < left[current]
    /\ base' = [base EXCEPT ![current] = @ + written]
    /\ left' = [left EXCEPT ![current] = @ - written]
    /\ written' = 0
    /\ pc' = AfterAccount(written')
    /\ UNCHANGED <<form, lengths, current, file>>

-----------------------------------------------------------------------------
(* fallback_vector_io_file::write, one segment.  The C standard lets fwrite *)
(* return a short count only with the error indicator set, and then write() *)
(* throws: its loop never goes round, although it would not advance `data'. *)
Fwrite ==
    /\ form = "fallback" /\ pc = "write" /\ current \in Segments
    /\ file' = file \o Bytes(current)
    /\ current' = current + 1
    /\ UNCHANGED <<form, lengths, base, left, written, pc>>

FwriteFails ==
    /\ MayFail
    /\ form = "fallback" /\ pc = "write" /\ current \in Segments
    /\ left[current] > 0
    /\ \E n \in 0..(left[current] - 1) : file' = file \o SubSeq(Bytes(current), 1, n)
    /\ pc' = "threw"
    /\ UNCHANGED <<form, lengths, base, left, current, written>>

Return ==
    /\ pc = "write" /\ current \notin Segments
    /\ pc' = "done"
    /\ UNCHANGED <<form, lengths, base, left, current, written, file>>

Next == Writev \/ WritevFails \/ SegmentDone \/ SegmentCut \/ Fwrite \/ FwriteFails \/ Return

Spec == Init /\ [][Next]_vars

(* The thread that called write() keeps running.                            *)
Fairness == WF_vars(Next)

FairSpec == Spec /\ Fairness

-----------------------------------------------------------------------------
(* Properties                                                              *)

(* The bytes of the whole call, in order.                                   *)
WholeFrom[i \in Nat] ==
    IF i > Len(lengths) THEN <<>> ELSE [j \in 1..lengths[i] |-> <<i, j>>] \o WholeFrom[i + 1]

Payload == WholeFrom[1]

TypeOK ==
    /\ form \in {"posix", "fallback"}
    /\ lengths \in Calls
    /\ base \in [Segments -> Nat] /\ left \in [Segments -> Nat]
    /\ current \in 1..(Len(lengths) + 1)
    /\ written \in Nat
    /\ pc \in {"write", "account", "done", "threw"}
    /\ pc = "account" => current \in Segments

(* "@throws ... before completely writing all specified data": a write that *)
(* returns has put every byte into the file once and in order, however the  *)
(* operating system cut it up; one that throws leaves a first part of the   *)
(* bytes, a torn block but never a scrambled one.  On the way               *)
(* current_segment never leaves the array while it is read.                 *)
WritesInOrder ==
    /\ TypeOK
    /\ Len(file) <= Len(Payload)
    /\ file = SubSeq(Payload, 1, Len(file))
    /\ pc = "done" => file = Payload

(* The retry loop ends: a write returns or throws.                          *)
WriteEnds == <>(pc \in {"done", "threw"})
=============================================================================
