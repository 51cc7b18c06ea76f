----------------------------- MODULE MCSieFile ------------------------------
(***************************************************************************)
(* Instances of three specifications of what gets into an SIE file: the    *)
(* samples that the signal handlers write (SieSamples), the XML their      *)
(* metadata is written in (SieXml), and the bytes of a block on their way  *)
(* into the file (VectorIo).  SieSamples takes the elements as they are    *)
(* built, SieXml takes any elements and VectorIo any bytes, so the three   *)
(* share nothing: `part' says which it is, and the others rest.            *)
(***************************************************************************)
EXTENDS VectorIo

CONSTANTS Signals, Descriptors, Offsets, Counts, VariableNames, DIGITS, MaxPackets, MaxHandlers
VARIABLES next, handler, metadata, blocks, declaredAs, sent, values

sieVars == <<next, handler, metadata, blocks, declaredAs, sent, values>>

Sie == INSTANCE SieSamples

CONSTANTS s1, s2
SignalPair == {s1, s2}

Scalar(type, rawType, start, delta, den) ==
    [kind |-> "scalar", type |-> type, rawType |-> rawType, start |-> start, delta |-> delta,
     num |-> 1, den |-> den, domainType |-> "Int64", fields |-> <<>>]
Array(type, items) == [type |-> type, items |-> items, linear |-> TRUE]
Can(domainType, octets) ==
    [Scalar("Struct", "Struct", 0, 1, 10) EXCEPT !.kind = "can", !.domainType = domainType,
     !.fields = << Array("UInt32", 0), Array("UInt8", 0), Array("UInt8", octets) >>]

(* Two scales whose rounding errs by much and by little, and for CAN one     *)
(* that is exact; CAN messages of the supported size, with and without      *)
(* an array of other items than octets, smaller ones, narrow domains, and a *)
(* field no decoder can read.                                               *)
MCVariableNames == <<"v0", "v1", "v2", "v3">>

MCDescriptors ==
    { Scalar("Float64", "Float64", 0, 1, 93), Scalar("Int16", "Int16", -5, 3, 91),
      Can("Int64", 64), Can("Int32", 64),
      [Can("Int64", 64) EXCEPT !.fields[1] = Array("UInt16", 2)],
      [Can("Int64", 8) EXCEPT !.fields[3].linear = FALSE],
      [Can("Int64", 64) EXCEPT !.fields[2].type = "Struct"] }

ASSUME SamplesAssumed == Sie!SieSamplesAssumption

-----------------------------------------------------------------------------
CONSTANTS Characters, Texts, Names, Ids, MaxDepth, MaxCalls

(* The texts hold every special character, alone or followed by others, and *)
(* one that looks like an entity.                                           *)
MCCharacters == {"a", "\"", "'", "<", ">", "&", "lt", ";"}
MCTexts == { <<>>, <<"a", "\"", "'">>, <<"<", ">">>, <<"&", "lt", ";">> }

VARIABLES elements, stream, serialized, calls

xmlVars == <<elements, stream, serialized, calls>>

Xml == INSTANCE SieXml WITH written <- serialized

ASSUME XmlAssumed == Xml!SieXmlAssumption

-----------------------------------------------------------------------------
(* Blocks of a header, up to two payload segments and a footer; a segment   *)
(* of the payload may be empty.                                             *)
MCCalls ==
    {<<3>>} \cup {<<2, a, 2>> : a \in 0..3} \cup {<<2, a, b, 1>> : a \in 0..2, b \in 0..2}

-----------------------------------------------------------------------------
VARIABLE part           \* "samples", "xml" or "bytes"

(* One initial state is enough of the write that rests.                     *)
MCInit ==
    /\ Init /\ Sie!Init /\ Xml!Init
    /\ \/ part \in {"samples", "xml"} /\ form = "posix" /\ lengths = <<3>>
       \/ part = "bytes"

MCNext ==
    /\ UNCHANGED part
    /\ \/ part = "samples" /\ Sie!Next /\ UNCHANGED <<xmlVars, vars>>
       \/ part = "xml" /\ Xml!Next /\ UNCHANGED <<sieVars, vars>>
       \/ part = "bytes" /\ Next /\ UNCHANGED <<sieVars, xmlVars>>

MCSpec ==
    /\ MCInit /\ [][MCNext]_<<part, sieVars, xmlVars, vars>>
    /\ part = "bytes" => Fairness

(* SieXml: a reader of the serialised text gets the elements back, whatever *)
(* characters names and descriptions contain.                               *)
ReadsBack == Xml!ReadsBack

(* SieSamples: the decoder a handler declared reads every later payload as *)
(* the samples its packets held; too small CAN messages are read as none.  *)
SamplesReadBack == Sie!SamplesReadBack

(* SieSamples: less than 10^DIGITS ticks from the origin, the time a reader *)
(* computes from the scale as it is written lies nearest to the right tick. *)
TicksReadBack == Sie!TicksReadBack

(* VectorIo: a write returns or throws.                                     *)
BytesEnd == part = "bytes" => WriteEnds
=============================================================================
