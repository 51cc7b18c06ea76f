----------------------------- MODULE SieSamples -----------------------------
(***************************************************************************)
(* What a reader of an SIE file gets back.  The constructors of the two    *)
(* signal handlers write metadata: a decoder, which is a program for the   *)
(* reader, and a channel that refers to it.  Their onDataPacketReceived    *)
(* writes payloads, in the layout that program expects.  The reader is     *)
(* modelled as an interpreter of decoders.                                 *)
(*                                                                         *)
(* A payload is a sequence of octets; an octet knows of which number it is *)
(* which part, so that a reader who is out of step gets garbage.  Calls to *)
(* the writer are atomic and succeed here: RecorderSignals interleaves     *)
(* them and lets them fail.                                                *)
(***************************************************************************)
EXTENDS SieElements

CONSTANTS
    Signals,
    Descriptors,    \* descriptor pairs the handlers support
    Offsets,        \* domain offsets of packets
    Counts,         \* sample counts of packets
    VariableNames,  \* v0, v1, ...: the variables of a decoder, one for each dimension
    DIGITS,         \* digits of a scale after the point: 6 in the code
    MaxPackets,     \* bound on the packets of all signals
    MaxHandlers     \* bound on the handlers that are constructed

VARIABLES
    next,           \* writer::next_channel, next_decoder, next_group
    handler,        \* the group of each signal's handler
    metadata,       \* the elements in group 0, after the preamble
    blocks,         \* the blocks of the other groups: group and payload
    declaredAs,     \* history: the descriptors of each group
    sent,           \* history: the samples of each group's packets
    values          \* sample values used so far, and bound on the packets

svars == <<next, handler, metadata, blocks, declaredAs, sent, values>>

NoHandler == 0

-----------------------------------------------------------------------------
(* Sample types.                                                           *)

SampleTypes == {"Float32", "Float64", "UInt8", "Int8", "UInt16", "Int16",
                "UInt32", "Int32", "UInt64", "Int64"}

SieFormat(t) ==
    CASE t \in {"Float32", "Float64"} -> "float"
      [] t \in {"UInt8", "UInt16", "UInt32", "UInt64"} -> "uint"
      [] t \in {"Int8", "Int16", "Int32", "Int64"} -> "int"

SieBits(t) ==
    CASE t \in {"UInt8", "Int8"} -> 8
      [] t \in {"UInt16", "Int16"} -> 16
      [] t \in {"Float32", "UInt32", "Int32"} -> 32
      [] t \in {"Float64", "UInt64", "Int64"} -> 64

SieReadType(t) == <<SieFormat(t), SieBits(t)>>

(* A field of a CAN struct is a scalar (no items) or an array of items of a  *)
(* type; `linear' says that its one dimension has a linear rule.  A decoder *)
(* reads such an array of octets whole, and of any other the first item.    *)
IsRaw(f) == f.type \in {"Int8", "UInt8"} /\ f.items > 0 /\ f.linear
FieldOctets(f) == IF IsRaw(f) THEN f.items ELSE SieBits(f.type) \div 8
FieldFormat(f) == IF IsRaw(f) THEN "raw" ELSE SieFormat(f.type)
Readable(f) == f.type \in SampleTypes

(* How many of what a decoder reads of it a field holds.                    *)
Pieces(f) == IF IsRaw(f) \/ f.items = 0 THEN 1 ELSE f.items

CAN_MESSAGE == 69       \* sizeof(opendaq_can_message)

(* The variables of a decoder: those of the dimensions, the number of       *)
(* messages, the loop over them, and the offset of a packet.                *)
V(k) == VariableNames[k + 1]
Variables == Range(VariableNames) \cup {"n", "i", "offset"}

SieSamplesAssumption ==
    /\ VariableNames \in Seq(Range(VariableNames)) /\ Len(VariableNames) >= 2
    /\ IsInjective(VariableNames) /\ {"n", "i", "offset"} \cap Range(VariableNames) = {}
    /\ \A d \in Descriptors :
          /\ d.kind \in {"scalar", "can"} /\ {d.start, d.delta} \subseteq Int
          /\ {d.num, d.den} \subseteq Nat /\ 0 < d.num /\ d.num <= d.den /\ d.den <= d.num * TenTo[9]
          /\ d.fields \in Seq(Range(d.fields)) /\ Len(d.fields) < Len(VariableNames)
          /\ \A k \in DOMAIN d.fields : d.fields[k].items \in Nat
          /\ d.kind = "scalar" => {d.type, d.rawType} \subseteq SampleTypes
    /\ Offsets \subseteq Nat /\ Counts \subseteq Nat /\ DIGITS \in Nat

-----------------------------------------------------------------------------
(* The metadata.                                                           *)

(* getLinearRuleStartDelta                                                  *)
DomainStart(d) == Expression(d.start, [offset |-> 1])

TickResolutionToTransform(d) == Transform(d.num, d.den, DIGITS)

ScalarDecoder(d, id) ==
    LET loop == AddAttributes(Element("loop"),
                    << <<"var", V(0)>>, <<"start", DomainStart(d)>>, <<"increment", Number(d.delta)>> >>)
        type == SieReadType(d.type)
    IN  AddChildren(Decoder(id),
            << ReadScalar("offset", "int", 64),
               AddChildren(loop, << ReadScalar(V(1), type[1], type[2]), SampleElement >>) >>)

ScalarChannel(d, id, group, decoder) ==
    AddChildren(Channel(id, group, "name"),
        << Tag("core:uuid", "uuid"), Tag("data_type", SieReadType(d.type)),
           Tag("somat:data_format", SieFormat(d.type)), Tag("somat:data_bits", SieBits(d.type)),
           Tag("core:schema", "somat:sequential"),
           AddChildren(Dimension(0),
               << TickResolutionToTransform(d), Data(decoder, 0), Units("unit") >>),
           AddChildren(Dimension(1),
               << Data(decoder, 1), Units("unit"), Tag("FS_Min", "low"), Tag("FS_Max", "high") >>) >>)

(* Mutant of BackToDomain: the length of the message count is left out.     *)
BackToDomainFromStart(bytes) == Expression(bytes, [i |-> bytes])

(* The seek after a sample, to the next domain value.                       *)
BackToDomain(bytes) == Expression(4 + bytes, [i |-> bytes])

CanDecoder(d, id) ==
    LET type == SieReadType(d.domainType)
        bytes == type[2] \div 8
        field(k) == IF IsRaw(d.fields[k]) THEN ReadRaw(V(k), d.fields[k].items)
                    ELSE ReadScalar(V(k), SieFormat(d.fields[k].type), SieBits(d.fields[k].type))
        loop == AddAttributes(Element("loop"),
                    << <<"var", "i">>, <<"start", Number(0)>>, <<"end", Expression(0, [n |-> 1])>> >>)
        body == << ReadScalar(V(0), type[1], type[2]),
                   SeekElement("start", Expression(4, [n |-> bytes, i |-> CAN_MESSAGE])) >>
                \o [k \in DOMAIN d.fields |-> field(k)]
                \o << SampleElement, SeekElement("start", BackToDomain(bytes)) >>
    IN  AddChildren(Decoder(id), << ReadScalar("n", "uint", 32), AddChildren(loop, body) >>)

CanChannel(d, id, group, decoder) ==
    AddChildren(Channel(id, group, "name"),
        << Tag("core:description", "Raw CAN messages"), Tag("data_type", "message_can"),
           Tag("core:schema", "somat:message"),
           AddChildren(Dimension(0),
               << TickResolutionToTransform(d), Data(decoder, 0), Units("unit") >>) >>
        \o [k \in DOMAIN d.fields |->
               AddChildren(Dimension(k), << Tag("openDAQ:fieldName", "field"), Data(decoder, k) >>)])

-----------------------------------------------------------------------------
(* The payloads.                                                           *)

Octets(number, format, octets) ==
    [k \in 1..octets |-> [of |-> number, format |-> format, octet |-> k, octets |-> octets]]

ScalarPayload(d, p) ==
    Octets(p.offset, "int", 8)
        \o FlattenSeq([k \in 1..p.count |->
               Octets(values + k, SieFormat(d.rawType), SieBits(d.rawType) \div 8)])

DomainRaw(d, p) ==
    FlattenSeq([k \in 1..p.count |->
        Octets(p.offset + k, SieFormat(d.domainType), SieBits(d.domainType) \div 8)])

(* A CAN struct whose fields and their items all hold the number x.         *)
Field(f, x) == FlattenSeq([k \in 1..Pieces(f) |-> Octets(x, FieldFormat(f), FieldOctets(f))])
Message(d, x) == FlattenSeq([f \in DOMAIN d.fields |-> Field(d.fields[f], x)])

MessagesRaw(d, p) == FlattenSeq([k \in 1..p.count |-> Message(d, values + k)])

CanPayload(d, p) == Octets(p.count, "uint", 4) \o DomainRaw(d, p) \o MessagesRaw(d, p)

TooShort(d, p) ==
    Len(MessagesRaw(d, p)) < p.count * CAN_MESSAGE \/ Len(DomainRaw(d, p)) < p.count * 8

(* The samples a packet holds: the time, in ticks, and the value or fields. *)
PacketSamples(d, p) ==
    [k \in 1..p.count |->
        IF d.kind = "scalar" THEN <<p.offset + d.start + (k - 1) * d.delta, values + k>>
        ELSE <<p.offset + k>> \o [f \in DOMAIN d.fields |-> values + k]]

-----------------------------------------------------------------------------
Init ==
    /\ next = [channel |-> 0, decoder |-> 2, group |-> 2]
    /\ handler = [s \in Signals |-> NoHandler]
    /\ metadata = <<>>
    /\ blocks = <<>>
    /\ declaredAs = <<>>
    /\ sent = <<>>
    /\ values = 0

With(f, x, y) == [z \in DOMAIN f \cup {x} |-> IF z = x THEN y ELSE f[z]]

AllocateIds == next' = [channel |-> next.channel + 1, decoder |-> next.decoder + 1,
                        group |-> next.group + 1]

(* A handler is constructed.  It throws, its ids spent, when a decoder can   *)
(* not read the domain or a field.                                          *)
Construct(s, d) ==
    /\ next.channel < MaxHandlers
    /\ handler[s] # NoHandler => declaredAs[handler[s]] # d
    /\ AllocateIds
    /\ IF d.kind = "scalar"
       THEN /\ metadata' = metadata \o
                   << ScalarDecoder(d, next.decoder),
                      AddChild(Test(0), ScalarChannel(d, next.channel, next.group, next.decoder)) >>
            /\ handler' = [handler EXCEPT ![s] = next.group]
       ELSE IF d.domainType \in SampleTypes /\ \A k \in DOMAIN d.fields : Readable(d.fields[k])
       THEN /\ metadata' = metadata \o
                   << CanDecoder(d, next.decoder),
                      AddChild(Test(0), CanChannel(d, next.channel, next.group, next.decoder)) >>
            /\ handler' = [handler EXCEPT ![s] = next.group]
       ELSE UNCHANGED metadata /\ handler' = [handler EXCEPT ![s] = NoHandler]
    /\ declaredAs' = With(declaredAs, next.group, d)
    /\ sent' = With(sent, next.group, <<>>)
    /\ UNCHANGED <<blocks, values>>

(* onDataPacketReceived: packets without what the handler needs are dropped. *)
Packet(s, p) ==
    /\ handler[s] # NoHandler
    /\ values < MaxPackets * 10
    /\ values' = (values \div 10 + 1) * 10
    /\ LET g == handler[s]
           d == declaredAs[g]
           write(payload) == blocks' = Append(blocks, [group |-> g, payload |-> payload])
           usable == p.hasDomain /\ (d.kind = "can" \/ p.hasOffset)
       IN  /\ IF ~usable THEN UNCHANGED blocks
              ELSE IF d.kind = "scalar" THEN write(ScalarPayload(d, p))
              ELSE IF TooShort(d, p) THEN UNCHANGED blocks
              ELSE write(CanPayload(d, p))
           /\ sent' = IF usable THEN [sent EXCEPT ![g] = @ \o PacketSamples(d, p)] ELSE sent
    /\ UNCHANGED <<next, handler, metadata, declaredAs>>

Packets == [hasDomain : BOOLEAN, hasOffset : BOOLEAN, offset : Offsets, count : Counts]

Next ==
    \E s \in Signals :
        \/ \E d \in Descriptors : Construct(s, d)
        \/ \E p \in Packets : Packet(s, p)

Spec == Init /\ [][Next]_svars

-----------------------------------------------------------------------------
(* The reader.                                                             *)

Garbage == -1

Has(e, id) == \E i \in DOMAIN e.attributes : e.attributes[i].id = id
Attribute(e, id) == e.attributes[CHOOSE i \in DOMAIN e.attributes : e.attributes[i].id = id].value
First(name, elements) == elements[SelectInSeq(elements, LAMBDA e : e.name = name)]
Named(name, elements) ==
    FlattenSeq([i \in DOMAIN elements |-> IF elements[i].name = name THEN <<elements[i]>> ELSE <<>>])

(* The expressions of a decoder use no other variables.                     *)
Term(x, v, env) == IF v \in DOMAIN x.factors THEN x.factors[v] * env[v] ELSE 0
Evaluate(x, env) == x.constant + Term(x, "n", env) + Term(x, "i", env) + Term(x, "offset", env)

(* The number that the octets hold, if they are all of one number.          *)
NumberOf(octets, format) ==
    IF octets # <<>> /\ octets = Octets(octets[1].of, format, Len(octets)) THEN octets[1].of
    ELSE Garbage

ReadStep(c, st) ==
    LET n == IF Has(c, "octets") THEN Attribute(c, "octets") ELSE Attribute(c, "bits") \div 8
        octets == SubSeq(st.data, st.at + 1, Min({st.at + n, Len(st.data)}))
    IN  [st EXCEPT !.at = @ + n, !.env[Attribute(c, "var")] = NumberOf(octets, Attribute(c, "type"))]

(* One element of a decoder that is not a loop.                             *)
Step(st, c) ==
    CASE c.name = "read" -> ReadStep(c, st)
      [] c.name = "sample" -> [st EXCEPT !.samples = Append(@, st.env)]
      [] c.name = "seek" -> [st EXCEPT !.at = Evaluate(Attribute(c, "offset"), st.env)]

Steps(st, body) == FoldLeft(Step, st, body)

(* A loop, whose body holds none.  Without an end it runs to the end of the *)
(* data, of which every turn reads an octet.                                *)
Ended(c, st) ==
    IF Has(c, "end") THEN st.env[Attribute(c, "var")] >= Evaluate(Attribute(c, "end"), st.env)
    ELSE st.at >= Len(st.data)

Turn(c, st) ==
    LET increment == IF Has(c, "increment") THEN Attribute(c, "increment").constant ELSE 1
    IN  IF Ended(c, st) THEN st
        ELSE [Steps(st, c.children) EXCEPT !.env[Attribute(c, "var")] = @ + increment]

Loop(st, c) ==
    LET begun == [st EXCEPT !.env[Attribute(c, "var")] = Evaluate(Attribute(c, "start"), st.env)]
        turns[k \in Nat] == IF k = 0 THEN begun ELSE Turn(c, turns[k - 1])
    IN  turns[CHOOSE k \in 0..Len(st.data) : Ended(c, turns[k])]

Run(decoder, data) ==
    FoldLeft(LAMBDA st, c : IF c.name = "loop" THEN Loop(st, c) ELSE Step(st, c),
             [at |-> 0, env |-> [v \in Variables |-> Garbage], samples |-> <<>>, data |-> data],
             decoder.children).samples

Channels == FlattenSeq([i \in DOMAIN metadata |->
    IF metadata[i].name = "test" THEN metadata[i].children ELSE <<>>])
DataOf(dim) == First("data", dim.children)
Dimensions(ch) == Named("dim", ch.children)

(* What a channel shows: for each sample of its blocks, every dimension.    *)
ReadChannel(ch) ==
    LET dims == Dimensions(ch)
        decoder == metadata[SelectInSeq(metadata, LAMBDA e :
                       e.name = "decoder" /\ Attribute(e, "id") = Attribute(DataOf(dims[1]), "decoder"))]
        shown(samples) ==
            [k \in DOMAIN samples |-> [i \in DOMAIN dims |-> samples[k][V(Attribute(DataOf(dims[i]), "v"))]]]
    IN  FlattenSeq([k \in DOMAIN blocks |->
            IF blocks[k].group = Attribute(ch, "group") THEN shown(Run(decoder, blocks[k].payload)) ELSE <<>>])

-----------------------------------------------------------------------------
(* Properties                                                              *)

ChannelsOf(what(_)) ==
    {i \in DOMAIN Channels : what(declaredAs[Attribute(Channels[i], "group")])}

ReadsWhatWasSent(i) == ReadChannel(Channels[i]) = sent[Attribute(Channels[i], "group")]

StructOctets(d) == Len(Message(d, 0))

Unscaled(d) == d.kind = "scalar" /\ d.type = d.rawType
Size69(d) == StructOctets(d) = CAN_MESSAGE /\ SieBits(d.domainType) = 64
Message69(d) == d.kind = "can" /\ Size69(d) /\ \A k \in DOMAIN d.fields : Pieces(d.fields[k]) = 1
ShortMessage(d) == d.kind = "can" /\ StructOctets(d) <= CAN_MESSAGE /\ ~Size69(d)

(* The decoder a handler writes when it is constructed reads every later    *)
(* payload as the samples the packets held, with their times: for values    *)
(* stored in their own type and for CAN structs of the one supported size   *)
(* without arrays other than of octets (of such an array the decoder reads  *)
(* one item, and every later field from the wrong place), through changes   *)
(* of descriptors and with the signals' blocks interleaved.                 *)
(* A CAN signal whose struct or domain is smaller than the layout the       *)
(* decoder assumes loses its packets, but none is read as something else.   *)
SamplesReadBack ==
    /\ \A i \in ChannelsOf(Unscaled) \cup ChannelsOf(Message69) : ReadsWhatWasSent(i)
    /\ \A i \in ChannelsOf(ShortMessage) : ReadChannel(Channels[i]) = <<>>

(* A scale is written with DIGITS digits after the point.  Less than        *)
(* 10^DIGITS ticks from the origin, the time a reader computes still lies   *)
(* nearest to the right tick.                                               *)
TicksReadBack ==
    \A i \in DOMAIN Channels :
        LET g == Attribute(Channels[i], "group")
            d == declaredAs[g]
            scale == Attribute(First("xform", First("dim", Channels[i].children).children), "scale")
            one == d.num * TenTo[scale.exponent]        \* one tick
            written == d.den * scale.mantissa           \* one tick, as written
            off(t) == 2 * t * (written - one)
        IN  \A k \in DOMAIN sent[g] :
               LET t == sent[g][k][1]
               IN  -TenTo[DIGITS] < t /\ t < TenTo[DIGITS] => -one < off(t) /\ off(t) < one
=============================================================================
