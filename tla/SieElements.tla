---------------------------- MODULE SieElements ----------------------------
(***************************************************************************)
(* The XML elements of an SIE file's metadata: the fluent interface of     *)
(* xml::element, and the functions that build the elements of the SIE      *)
(* vocabulary.                                                             *)
(*                                                                         *)
(* Numbers and expressions in attributes of the vocabulary stay numbers    *)
(* and expressions: how they are spelt is left out, except for             *)
(* `transform', which rounds.                                              *)
(***************************************************************************)
EXTENDS Integers, SequencesExt

Element(name) == [name |-> name, attributes |-> <<>>, children |-> <<>>, content |-> <<>>]

AddAttribute(e, id, value) == [e EXCEPT !.attributes = Append(@, [id |-> id, value |-> value])]
AddChild(e, child) == [e EXCEPT !.children = Append(@, child)]
SetContent(e, text) == [e EXCEPT !.content = text]

-----------------------------------------------------------------------------
(* The SIE vocabulary                                                      *)

(* An expression over decoder variables: a constant and factors.            *)
Expression(constant, factors) == [constant |-> constant, factors |-> factors]
Number(n) == Expression(n, [v \in {} |-> 0])

AddChildren(e, children) == [e EXCEPT !.children = @ \o children]
AddAttributes(e, pairs) ==
    [e EXCEPT !.attributes = @ \o [i \in DOMAIN pairs |-> [id |-> pairs[i][1], value |-> pairs[i][2]]]]

Channel(id, group, name) ==
    AddAttributes(Element("ch"), << <<"id", id>>, <<"group", group>>, <<"name", name>> >>)
Data(decoder, variable) == AddAttributes(Element("data"), << <<"decoder", decoder>>, <<"v", variable>> >>)
Decoder(id) == AddAttribute(Element("decoder"), "id", id)
Dimension(index) == AddAttribute(Element("dim"), "index", index)
ReadScalar(var, type, bits) ==
    AddAttributes(Element("read"), << <<"var", var>>, <<"type", type>>, <<"bits", bits>> >>)
ReadRaw(var, octets) ==
    AddAttributes(Element("read"), << <<"var", var>>, <<"type", "raw">>, <<"octets", octets>> >>)
SampleElement == Element("sample")
SeekElement(from, offset) == AddAttributes(Element("seek"), << <<"from", from>>, <<"offset", offset>> >>)
Tag(id, value) == SetContent(AddAttribute(Element("tag"), "id", id), value)
Units(name) == SetContent(Element("units"), name)
Test(id) == AddAttribute(Element("test"), "id", id)

TenTo[n \in Nat] == IF n = 0 THEN 1 ELSE 10 * TenTo[n - 1]

(* Mutant of Scientific: the digits that do not fit are cut off.            *)
ScientificCut(num, den, digits) ==
    LET e == CHOOSE k \in 0..9 : num * TenTo[k] >= den /\ (k = 0 \/ num * TenTo[k - 1] < den)
    IN  [mantissa |-> (num * TenTo[e + digits]) \div den, exponent |-> e + digits]

(* std::scientific writes num / den <= 1 with `digits' digits after the      *)
(* point (6 unless set): mantissa * 10^-exponent, rounded to nearest.       *)
Scientific(num, den, digits) ==
    LET e == CHOOSE k \in 0..9 : num * TenTo[k] >= den /\ (k = 0 \/ num * TenTo[k - 1] < den)
    IN  [mantissa |-> (2 * (num * TenTo[e + digits]) + den) \div (2 * den), exponent |-> e + digits]

Transform(num, den, digits) ==
    AddAttributes(Element("xform"), << <<"scale", Scientific(num, den, digits)>>, <<"offset", Number(0)>> >>)
=============================================================================
