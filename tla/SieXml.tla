------------------------------- MODULE SieXml -------------------------------
(***************************************************************************)
(* A client of xml::element: it builds elements step by step with the      *)
(* fluent interface, moves one into another, and serialises finished ones  *)
(* into one stream, as the signal handlers do.                             *)
(*                                                                         *)
(* A text is a sequence of characters.  Names of elements and attributes   *)
(* count as one character, since nothing is ever inside them; indentation  *)
(* and line ends are left out.                                             *)
(***************************************************************************)
EXTENDS SieElements

CONSTANTS
    Characters,     \* of texts
    Names,          \* names of elements
    Ids,            \* names of attributes
    Texts,          \* attribute values and contents
    MaxDepth,       \* bound on the nesting of elements
    MaxCalls        \* bound on the calls of the client

(* No element is called like the sign that ends one.                        *)
SieXmlAssumption ==
    /\ "/" \notin Names
    /\ Texts \subseteq Seq(Characters) /\ MaxDepth \in Nat

VARIABLES
    elements,       \* the elements in the client's hands
    stream,         \* the text in the std::ostringstream
    written,        \* history: the elements that were serialised
    calls           \* calls so far (bound only)

xvars == <<elements, stream, written, calls>>

-----------------------------------------------------------------------------
(* Serialisation                                                           *)

(* The elements with at most n levels of elements below them.               *)
Nested[n \in Nat] ==
    [ name : Names, attributes : Seq([id : Ids, value : Texts]),
      children : IF n = 0 THEN {<<>>} ELSE Seq(Nested[n - 1]), content : Texts \cup {<<>>} ]

(* Mutant of Entity: the quotation mark, which ends an attribute, is kept.  *)
EntityForContent == [c \in {"'", "<", ">", "&"} |->
    CASE c = "'" -> "apos" [] c = "<" -> "lt" [] c = ">" -> "gt" [] OTHER -> "amp"]

Entity == [c \in {"\"", "'", "<", ">", "&"} |->
    CASE c = "\"" -> "quot" [] c = "'" -> "apos" [] c = "<" -> "lt" [] c = ">" -> "gt"
      [] OTHER -> "amp"]

EscapedChar(c) == IF c \in DOMAIN Entity THEN <<"&", Entity[c], ";">> ELSE <<c>>

Escaped(text) == FlattenSeq([i \in DOMAIN text |-> EscapedChar(text[i])])

Start(e) ==
    LET attribute(a) == <<" ", a.id, "=", "\"">> \o Escaped(a.value) \o <<"\"">>
    IN  <<"<", e.name>> \o FlattenSeq([i \in DOMAIN e.attributes |-> attribute(e.attributes[i])])

(* The text of an element in Nested[n].  With content it does not write its *)
(* children.                                                                *)
Serialize[n \in Nat] == [e \in Nested[n] |->
    IF e.content = <<>> /\ e.children = <<>> THEN Start(e) \o <<"/", ">">>
    ELSE Start(e) \o <<">">>
            \o (IF e.content # <<>> THEN Escaped(e.content)
                ELSE FlattenSeq([i \in DOMAIN e.children |-> Serialize[n - 1][e.children[i]]]))
            \o <<"<", "/", e.name, ">">>]

-----------------------------------------------------------------------------
(* The client                                                              *)

Init ==
    /\ elements = <<>>
    /\ stream = <<>>
    /\ written = <<>>
    /\ calls = 0

Call == calls < MaxCalls /\ calls' = calls + 1

(* xml::element(name)                                                       *)
Construct(name) ==
    /\ Call
    /\ elements' = Append(elements, Element(name))
    /\ UNCHANGED <<stream, written>>

(* The calls on the element constructed last.                               *)
Fluent(e) ==
    /\ Call
    /\ e \in Nested[MaxDepth]
    /\ elements' = Append(Front(elements), e)
    /\ UNCHANGED <<stream, written>>

CallAddAttribute(id, text) == elements # <<>> /\ Fluent(AddAttribute(Last(elements), id, text))
CallContent(text) == elements # <<>> /\ Fluent(SetContent(Last(elements), text))
CallAddChild(name) == elements # <<>> /\ Fluent(AddChild(Last(elements), Element(name)))

(* add_child(std::move(element))                                            *)
MoveIn ==
    /\ Call
    /\ Len(elements) >= 2
    /\ LET e == AddChild(elements[Len(elements) - 1], Last(elements))
       IN  /\ e \in Nested[MaxDepth]
           /\ elements' = Append(SubSeq(elements, 1, Len(elements) - 2), e)
    /\ UNCHANGED <<stream, written>>

Finish ==
    /\ Call
    /\ elements # <<>>
    /\ stream' = stream \o Serialize[MaxDepth][Last(elements)]
    /\ written' = Append(written, Last(elements))
    /\ elements' = Front(elements)

Next ==
    \/ \E name \in Names : Construct(name) \/ CallAddChild(name)
    \/ \E id \in Ids, text \in Texts : CallAddAttribute(id, text)
    \/ \E text \in Texts : CallContent(text)
    \/ MoveIn
    \/ Finish

Spec == Init /\ [][Next]_xvars

-----------------------------------------------------------------------------
(* A reader of XML, as lenient as they come: it knows the five entities,   *)
(* ends a value at the quote and a content at the next tag, and overlooks   *)
(* text in front of a child.  It reads character by character; its state   *)
(* is where it is (mode), whether inside an entity, the element that is    *)
(* open, what is open around it (outer), and the name and the text of what  *)
(* is being read.                                                          *)

Char == [quot |-> "\"", apos |-> "'", lt |-> "<", gt |-> ">", amp |-> "&"]

Reader(mode, entity, element, outer, id, text) ==
    [mode |-> mode, entity |-> entity, element |-> element, outer |-> outer, id |-> id, text |-> text]

(* Between two elements.                                                    *)
Between(element, outer) == Reader("content", "none", element, outer, "", <<>>)

Document == Element("document")

Malformed(r) == [r EXCEPT !.mode = "malformed"]

ReadText(r, c) ==
    IF r.entity = "none"
    THEN IF c = "&" THEN [r EXCEPT !.entity = "name"] ELSE [r EXCEPT !.text = Append(@, c)]
    ELSE IF r.entity = "name" /\ c \in DOMAIN Char
         THEN [r EXCEPT !.entity = "end", !.text = Append(@, Char[c])]
    ELSE IF r.entity = "end" /\ c = ";" THEN [r EXCEPT !.entity = "none"]
    ELSE Malformed(r)

Expect(r, c, char, mode) == IF c = char THEN [r EXCEPT !.mode = mode] ELSE Malformed(r)

(* The end of the open element, which becomes a child of the one around it. *)
Close(r, c) ==
    IF c = ">" THEN Between(AddChild(r.outer[1], r.element), r.outer[2]) ELSE Malformed(r)

ReadChar(r, c) ==
    CASE r.mode = "content" ->
            IF c = "<" /\ r.entity = "none" THEN [r EXCEPT !.mode = "markup"] ELSE ReadText(r, c)
      [] r.mode = "markup" ->
            IF c = "/"
            THEN [r EXCEPT !.mode = "name", !.element = SetContent(@, r.text), !.text = <<>>]
            ELSE Reader("tag", "none", Element(c), <<r.element, r.outer>>, "", <<>>)
      [] r.mode = "tag" ->
            IF c = " " THEN [r EXCEPT !.mode = "id"]
            ELSE IF c = ">" THEN [r EXCEPT !.mode = "content"]
            ELSE Expect(r, c, "/", "end")
      [] r.mode = "id" -> [r EXCEPT !.mode = "equals", !.id = c]
      [] r.mode = "equals" -> Expect(r, c, "=", "quote")
      [] r.mode = "quote" -> Expect(r, c, "\"", "value")
      [] r.mode = "value" ->
            IF c = "\"" /\ r.entity = "none"
            THEN Reader("tag", "none", AddAttribute(r.element, r.id, r.text), r.outer, "", <<>>)
            ELSE ReadText(r, c)
      [] r.mode = "name" -> Expect(r, c, r.element.name, "end")
      [] r.mode = "end" -> IF r.outer = <<>> THEN Malformed(r) ELSE Close(r, c)
      [] OTHER -> r

(* The reader after k characters of the stream.                             *)
ReadTo[k \in Nat] ==
    IF k = 0 THEN Between(Document, <<>>) ELSE ReadChar(ReadTo[k - 1], stream[k])

-----------------------------------------------------------------------------
(* Properties                                                              *)

(* The elements of Nested[n] in which nothing has both content and          *)
(* children.                                                                *)
Unmixed[n \in Nat] ==
    {e \in Nested[n] : /\ e.content = <<>> \/ e.children = <<>>
                       /\ \A i \in DOMAIN e.children : e.children[i] \in Unmixed[n - 1]}

(* Whatever characters signal names, units and descriptions contain, a      *)
(* reader of the stream sees as many elements as were serialised, in order, *)
(* and gets each back with every attribute, content and child as it was     *)
(* set, except those with both content and children somewhere: operator<<   *)
(* leaves such children out (xml.cpp:80), though serialize is documented    *)
(* to write them (xml.h:151).                                               *)
ReadsBack ==
    LET read == ReadTo[Len(stream)].element.children
    IN  /\ ReadTo[Len(stream)] = Between(AddChildren(Document, read), <<>>)
        /\ Len(read) = Len(written)
        /\ \A i \in DOMAIN written : written[i] \in Unmixed[MaxDepth] => read[i] = written[i]
=============================================================================
