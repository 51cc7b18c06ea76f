--------------------------- MODULE SieFileProofs ---------------------------
(***************************************************************************)
(* Theorems about what a reader of an SIE file gets back, for any texts    *)
(* and any descriptors: the elements of the metadata (SieXml), the ticks   *)
(* of the samples (SieSamples), and the bytes of a vectored write          *)
(* (VectorIo).                                                             *)
(*                                                                         *)
(* Texts are concatenations, so the proofs are inductions over numbers:    *)
(* the characters of a text, the children of an element, the depth of the  *)
(* nesting.  An instance of Recursion says that a recursive function of    *)
(* the models obeys its equation, and NatRec!SetInduction is the           *)
(* induction, over a set of numbers, which the provers can instantiate.    *)
(*                                                                         *)
(* Leads(r, t, q), reading t takes the reader from r to q, carries the     *)
(* first part: it composes over concatenation, so what holds of an         *)
(* attribute and a character gives what holds of an element, which in      *)
(* turn gives the invariant of the stream (StreamInv).                     *)
(***************************************************************************)
EXTENDS MCSieFile, SequenceTheorems, TLAPS

-----------------------------------------------------------------------------
(* Concatenations from the first part to the last                           *)

(* Induction over the numbers: SetInduction of any instance.                *)
NatRec == INSTANCE Recursion WITH Base <- 0, Step <- LAMBDA x, n : x

(* f[i] is the concatenation of s[1] to s[i].                               *)
IsFlatten(f, s, m) == f = [i \in 1..m |-> IF i = 1 THEN s[i] ELSE f[i - 1] \o s[i]]

(* There is such a function for a part of s of any length.                  *)
LEMMA FlattenExists ==
    ASSUME NEW s
    PROVE  \A m \in Nat : \E f : IsFlatten(f, s, m)
  <1> DEFINE S == {m \in Nat : \E f : IsFlatten(f, s, m)}
  <1>1. 0 \in S
    <2>1. IsFlatten(<<>>, s, 0)
      BY DEF IsFlatten
    <2> QED
      BY <2>1
  <1>2. ASSUME NEW m \in Nat, m \in S
        PROVE  m + 1 \in S
    <2>1. PICK f : IsFlatten(f, s, m)
      BY <1>2
    <2> DEFINE h == [i \in 1..(m + 1) |-> IF i = m + 1 THEN (IF i = 1 THEN s[i] ELSE f[i - 1] \o s[i])
                                          ELSE f[i]]
    <2>2. ASSUME NEW i \in 1..(m + 1)
          PROVE  h[i] = IF i = 1 THEN s[i] ELSE h[i - 1] \o s[i]
      <3>1. i # 1 => h[i - 1] = f[i - 1]
        BY <2>2
      <3>2. i # m + 1 => i \in 1..m
        BY <2>2
      <3>3. i # m + 1 => h[i] = f[i]
        BY <2>2
      <3>4. i # m + 1 => f[i] = IF i = 1 THEN s[i] ELSE f[i - 1] \o s[i]
        BY <2>1, <3>2 DEF IsFlatten
      <3>5. i = m + 1 => h[i] = IF i = 1 THEN s[i] ELSE f[i - 1] \o s[i]
        BY <2>2, Zenon
      <3> HIDE DEF h
      <3> QED
        BY <3>1, <3>3, <3>4, <3>5
    <2>3. h = [i \in 1..(m + 1) |-> h[i]]
      OBVIOUS
    <2> HIDE DEF h
    <2>4. IsFlatten(h, s, m + 1)
      BY <2>2, <2>3, Zenon DEF IsFlatten
    <2> QED
      BY <2>4
  <1>3. Nat \subseteq S
    <2> HIDE DEF S
    <2> QED
      BY <1>1, <1>2, NatRec!SetInduction
  <1> QED
    BY <1>3

(* FlattenSeq appends one sequence after the other.                         *)
LEMMA FlattenSeqPrefixes ==
    ASSUME NEW T, NEW s \in Seq(Seq(T))
    PROVE  \E g : /\ g[0] = <<>>
                  /\ \A i \in 0..Len(s) : g[i] \in Seq(T)
                  /\ \A i \in 1..Len(s) : g[i] = g[i - 1] \o s[i]
                  /\ g[Len(s)] = Xml!FlattenSeq(s)
  <1>1. Len(s) \in Nat /\ \A i \in 1..Len(s) : s[i] \in Seq(T)
    BY LenProperties, ElementOfSeq
  <1>2. CASE Len(s) = 0
    <2>1. s = <<>> /\ <<>> \in Seq(T)
      BY <1>2, EmptySeq
    <2>2. Xml!FlattenSeq(s) = <<>>
      BY <1>2, <2>1 DEF Xml!FlattenSeq
    <2> DEFINE g == [i \in {0} |-> <<>>]
    <2>3. g[0] = <<>>
      OBVIOUS
    <2> HIDE DEF g
    <2>4. /\ \A i \in 0..Len(s) : g[i] \in Seq(T)
          /\ \A i \in 1..Len(s) : g[i] = g[i - 1] \o s[i]
      <3>1. \A i \in 0..Len(s) : i = 0
        BY <1>2
      <3>2. g[0] \in Seq(T)
        BY <2>1, <2>3, Zenon
      <3>3. \A i \in 1..Len(s) : FALSE
        BY <1>2
      <3> QED
        BY <3>1, <3>2, <3>3, Zenon
    <2>5. g[Len(s)] = Xml!FlattenSeq(s)
      BY <1>2, <2>2, <2>3
    <2> QED
      BY <2>3, <2>4, <2>5
  <1>3. CASE Len(s) # 0
    <2>1. PICK f : IsFlatten(f, s, Len(s)) /\ Xml!FlattenSeq(s) = f[Len(s)]
      <3> DEFINE F == CHOOSE f : IsFlatten(f, s, Len(s))
      <3>1. IsFlatten(F, s, Len(s))
        BY <1>1, FlattenExists
      <3>2. Xml!FlattenSeq(s) = F[Len(s)]
        BY <1>3, Zenon DEF Xml!FlattenSeq, IsFlatten
      <3> QED
        BY <3>1, <3>2
    <2> DEFINE g == [i \in 0..Len(s) |-> IF i = 0 THEN <<>> ELSE f[i]]
    <2>2. \A i \in 1..Len(s) : f[i] = IF i = 1 THEN s[i] ELSE f[i - 1] \o s[i]
      BY <2>1, Zenon DEF IsFlatten
    <2>3. g[0] = <<>> /\ \A i \in 1..Len(s) : g[i] = f[i]
      BY <1>1
    <2> HIDE DEF g
    <2>4. ASSUME NEW i \in 1..Len(s)
          PROVE  g[i] = g[i - 1] \o s[i]
      <3>1. CASE i = 1
        <4>1. <<>> \o s[1] = s[1]
          BY <1>1, <3>1, ConcatEmptySeq
        <4>2. g[i] = s[1] /\ g[i - 1] = <<>>
          BY <2>2, <2>3, <3>1
        <4> QED
          BY <3>1, <4>1, <4>2
      <3>2. CASE i # 1
        <4>1. i - 1 \in 1..Len(s)
          BY <1>1, <3>2
        <4> QED
          BY <2>2, <2>3, <3>2, <4>1
      <3> QED
        BY <3>1, <3>2
    <2>5. \A i \in 0..Len(s) : g[i] \in Seq(T)
      <3> DEFINE S == {i \in Nat : i <= Len(s) => g[i] \in Seq(T)}
      <3>1. 0 \in S
        BY <2>3, EmptySeq
      <3>2. ASSUME NEW i \in Nat, i \in S
            PROVE  i + 1 \in S
        <4>1. SUFFICES ASSUME i + 1 <= Len(s)
                       PROVE  g[i + 1] \in Seq(T)
          OBVIOUS
        <4>2. i + 1 \in 1..Len(s) /\ (i + 1) - 1 = i /\ i <= Len(s)
          BY <1>1, <4>1
        <4>3. g[i + 1] = g[i] \o s[i + 1]
          <5>1. g[i + 1] = g[(i + 1) - 1] \o s[i + 1]
            BY <2>4, <4>2
          <5> QED
            BY <4>2, <5>1
        <4>4. g[i] \in Seq(T) /\ s[i + 1] \in Seq(T)
          BY <1>1, <3>2, <4>2
        <4> QED
          BY <4>3, <4>4, ConcatProperties
      <3>3. Nat \subseteq S
        <4> HIDE DEF S
        <4> QED
          BY <3>1, <3>2, NatRec!SetInduction
      <3> QED
        BY <3>3
    <2>6. g[Len(s)] = Xml!FlattenSeq(s)
      BY <1>1, <1>3, <2>1, <2>3
    <2> QED
      BY <2>3, <2>4, <2>5, <2>6
  <1> QED
    BY <1>2, <1>3

-----------------------------------------------------------------------------
(* The reader of XML                                                        *)

(* Reading t takes the reader from r to q.                                  *)
Leads(r, t, q) ==
    \E run : /\ run[0] = r /\ run[Len(t)] = q
             /\ \A k \in 1..Len(t) : run[k] = Xml!ReadChar(run[k - 1], t[k])

(* Reading nothing, reading one character, and reading one text after       *)
(* another.                                                                 *)
LEMMA LeadsNothing == \A r : Leads(r, <<>>, r)
  <1> TAKE r
  <1> DEFINE run == [i \in {0} |-> r]
  <1>1. run[0] = r /\ Len(<<>>) = 0 /\ \A k \in 1..0 : FALSE
    OBVIOUS
  <1> HIDE DEF run
  <1> QED
    BY <1>1 DEF Leads

LEMMA LeadsChar == \A r, c : Leads(r, <<c>>, Xml!ReadChar(r, c))
  <1> TAKE r, c
  <1> DEFINE q == Xml!ReadChar(r, c)
             run == [i \in 0..1 |-> IF i = 0 THEN r ELSE q]
  <1>1. run[0] = r /\ run[1] = q
    OBVIOUS
  <1>2. Len(<<c>>) = 1 /\ <<c>>[1] = c /\ \A k \in 1..1 : k = 1
    OBVIOUS
  <1> HIDE DEF run
  <1>3. \A k \in 1..Len(<<c>>) : run[k] = Xml!ReadChar(run[k - 1], <<c>>[k])
    <2> TAKE k \in 1..Len(<<c>>)
    <2>1. k = 1 /\ k - 1 = 0
      BY <1>2
    <2> QED
      BY <1>1, <1>2, <2>1
  <1> HIDE DEF q
  <1>4. Leads(r, <<c>>, q)
    BY <1>1, <1>2, <1>3 DEF Leads
  <1> QED
    BY <1>4 DEF q

LEMMA LeadsConcat ==
    ASSUME NEW T, NEW s \in Seq(T), NEW t \in Seq(T), NEW r, NEW q, NEW p,
           Leads(r, s, q), Leads(q, t, p)
    PROVE  Leads(r, s \o t, p)
  <1>1. PICK f : /\ f[0] = r /\ f[Len(s)] = q
                 /\ \A k \in 1..Len(s) : f[k] = Xml!ReadChar(f[k - 1], s[k])
    BY DEF Leads
  <1>2. PICK g : /\ g[0] = q /\ g[Len(t)] = p
                 /\ \A k \in 1..Len(t) : g[k] = Xml!ReadChar(g[k - 1], t[k])
    BY DEF Leads
  <1> DEFINE m == Len(s)
             n == Len(t)
             u == s \o t
             run == [k \in 0..(m + n) |-> IF k <= m THEN f[k] ELSE g[k - m]]
  <1>3. m \in Nat /\ n \in Nat
    BY LenProperties
  <1>4. Len(u) = m + n /\ \A k \in 1..(m + n) : u[k] = IF k <= m THEN s[k] ELSE t[k - m]
    BY ConcatProperties
  <1> HIDE DEF m, n, u
  <1>5. \A k \in 0..m : run[k] = f[k]
    BY <1>3
  <1>6. \A k \in 0..n : run[m + k] = g[k]
    <2> TAKE k \in 0..n
    <2>1. m + k \in 0..(m + n) /\ (m + k) - m = k
      BY <1>3
    <2>2. CASE k = 0
      <3>1. m + k = m /\ m \in 0..m
        BY <1>3, <2>2
      <3> QED
        BY <1>1, <1>2, <1>5, <2>2, <3>1 DEF m
    <2>3. CASE k # 0
      <3>1. ~(m + k <= m)
        BY <1>3, <2>3
      <3> QED
        BY <2>1, <3>1
    <2> QED
      BY <2>2, <2>3
  <1> HIDE DEF run
  <1>7. run[0] = r /\ run[Len(u)] = p
    <2>1. 0 \in 0..m /\ n \in 0..n
      BY <1>3
    <2> QED
      BY <1>1, <1>2, <1>4, <1>5, <1>6, <2>1 DEF n
  <1>8. ASSUME NEW k \in 1..Len(u)
        PROVE  run[k] = Xml!ReadChar(run[k - 1], u[k])
    <2>1. k \in 1..(m + n)
      BY <1>4
    <2>2. CASE k <= m
      <3>1. k \in 1..m /\ k \in 0..m /\ k - 1 \in 0..m
        BY <1>3, <2>1, <2>2
      <3>2. f[k] = Xml!ReadChar(f[k - 1], s[k])
        BY <1>1, <3>1 DEF m
      <3>3. u[k] = s[k]
        BY <1>4, <2>1, <2>2
      <3>4. run[k] = f[k] /\ run[k - 1] = f[k - 1]
        BY <1>5, <3>1
      <3> QED
        BY <3>2, <3>3, <3>4
    <2>3. CASE ~(k <= m)
      <3>1. k - m \in 1..n /\ (k - m) - 1 \in 0..n /\ k - m \in 0..n
        BY <1>3, <2>1, <2>3
      <3>2. g[k - m] = Xml!ReadChar(g[(k - m) - 1], t[k - m])
        BY <1>2, <3>1 DEF n
      <3>3. u[k] = t[k - m]
        BY <1>4, <2>1, <2>3
      <3>4. m + (k - m) = k /\ m + ((k - m) - 1) = k - 1
        BY <1>3, <2>1
      <3>5. run[m + (k - m)] = g[k - m] /\ run[m + ((k - m) - 1)] = g[(k - m) - 1]
        BY <1>6, <3>1
      <3> QED
        BY <3>2, <3>3, <3>4, <3>5
    <2> QED
      BY <2>2, <2>3
  <1>9. Leads(r, u, p)
    BY <1>7, <1>8 DEF Leads
  <1> QED
    BY <1>9 DEF u

-----------------------------------------------------------------------------
(* The reader of the stream                                                 *)

(* ReadTo is a recursive function of the number of characters read.         *)
ReadStep(r, k) == Xml!ReadChar(r, stream[k])

ReadRec == INSTANCE Recursion
    WITH Base <- Xml!Between(Xml!Document, <<>>), Step <- ReadStep

(* What the reader is at the start of the stream and after one more         *)
(* character.                                                               *)
LEMMA ReadToValues ==
    /\ Xml!ReadTo[0] = Xml!Between(Xml!Document, <<>>)
    /\ \A k \in Nat : Xml!ReadTo[k + 1] = Xml!ReadChar(Xml!ReadTo[k], stream[k + 1])
  <1> DEFINE Start == Xml!Between(Xml!Document, <<>>)
             Eqn(f) == f = [k \in Nat |-> IF k = 0 THEN Start ELSE Xml!ReadChar(f[k - 1], stream[k])]
  <1>1. \A f : ReadRec!IsRecursive(f) <=> Eqn(f)
    BY Zenon DEF ReadRec!IsRecursive, ReadStep
  <1>2. \E f : Eqn(f)
    BY <1>1, ReadRec!RecursiveExists, Zenon
  <1>3. Eqn(Xml!ReadTo)
    <2>1. Xml!ReadTo = CHOOSE f : Eqn(f)
      BY Zenon DEF Xml!ReadTo
    <2> HIDE DEF Eqn
    <2> QED
      BY <1>2, <2>1, Zenon
  <1>4. ReadRec!IsRecursive(Xml!ReadTo)
    BY <1>1, <1>3, Zenon
  <1> QED
    BY <1>4, ReadRec!RecursiveValues, Zenon DEF ReadStep

(* The run of the reader over the whole stream ends where ReadTo says.      *)
LEMMA LeadsRead ==
    ASSUME NEW T, stream \in Seq(T), NEW q, Leads(Xml!Between(Xml!Document, <<>>), stream, q)
    PROVE  Xml!ReadTo[Len(stream)] = q
  <1>1. PICK run : /\ run[0] = Xml!Between(Xml!Document, <<>>) /\ run[Len(stream)] = q
                   /\ \A k \in 1..Len(stream) : run[k] = Xml!ReadChar(run[k - 1], stream[k])
    BY DEF Leads
  <1>2. Len(stream) \in Nat
    BY LenProperties
  <1> DEFINE S == {k \in Nat : k <= Len(stream) => Xml!ReadTo[k] = run[k]}
  <1>3. 0 \in S
    BY <1>1, ReadToValues
  <1>4. ASSUME NEW k \in Nat, k \in S
        PROVE  k + 1 \in S
    <2>1. SUFFICES ASSUME k + 1 <= Len(stream)
                   PROVE  Xml!ReadTo[k + 1] = run[k + 1]
      OBVIOUS
    <2>2. k + 1 \in 1..Len(stream) /\ (k + 1) - 1 = k /\ k <= Len(stream)
      BY <1>2, <2>1
    <2>3. Xml!ReadTo[k] = run[k]
      BY <1>4, <2>2
    <2>4. run[k + 1] = Xml!ReadChar(run[(k + 1) - 1], stream[k + 1])
      BY <1>1, <2>2
    <2> QED
      BY <2>2, <2>3, <2>4, ReadToValues
  <1>5. Nat \subseteq S
    <2> HIDE DEF S
    <2> QED
      BY <1>3, <1>4, NatRec!SetInduction
  <1> QED
    BY <1>1, <1>2, <1>5

(* The reader at a < and after it: another element, or the end of this      *)
(* one.                                                                     *)
LEMMA ReadMarkup ==
    ASSUME NEW e, NEW o, NEW i, NEW t, NEW c
    PROVE  /\ Xml!ReadChar(Xml!Reader("content", "none", e, o, i, t), "<")
                = Xml!Reader("markup", "none", e, o, i, t)
           /\ c # "/" => Xml!ReadChar(Xml!Reader("markup", "none", e, o, i, t), c)
                = Xml!Reader("tag", "none", Xml!Element(c), <<e, o>>, "", <<>>)
           /\ Xml!ReadChar(Xml!Reader("markup", "none", e, o, i, t), "/")
                = Xml!Reader("name", "none", Xml!SetContent(e, t), o, i, <<>>)
  BY DEF Xml!ReadChar, Xml!Reader, Xml!ReadText, Xml!Expect

(* In a tag: another attribute, the end of the tag, the end of the          *)
(* element.                                                                 *)
LEMMA ReadTag ==
    ASSUME NEW e, NEW o, NEW i, NEW t
    PROVE  /\ Xml!ReadChar(Xml!Reader("tag", "none", e, o, i, t), " ")
                = Xml!Reader("id", "none", e, o, i, t)
           /\ Xml!ReadChar(Xml!Reader("tag", "none", e, o, i, t), ">")
                = Xml!Reader("content", "none", e, o, i, t)
           /\ Xml!ReadChar(Xml!Reader("tag", "none", e, o, i, t), "/")
                = Xml!Reader("end", "none", e, o, i, t)
  BY DEF Xml!ReadChar, Xml!Reader, Xml!Expect

(* The parts of an attribute around its value.                              *)
LEMMA ReadAttribute ==
    ASSUME NEW e, NEW o, NEW i, NEW t, NEW c
    PROVE  /\ Xml!ReadChar(Xml!Reader("id", "none", e, o, i, t), c)
                = Xml!Reader("equals", "none", e, o, c, t)
           /\ Xml!ReadChar(Xml!Reader("equals", "none", e, o, i, t), "=")
                = Xml!Reader("quote", "none", e, o, i, t)
           /\ Xml!ReadChar(Xml!Reader("quote", "none", e, o, i, t), "\"")
                = Xml!Reader("value", "none", e, o, i, t)
           /\ Xml!ReadChar(Xml!Reader("value", "none", e, o, i, t), "\"")
                = Xml!Reader("tag", "none", Xml!AddAttribute(e, i, t), o, "", <<>>)
  BY DEF Xml!ReadChar, Xml!Reader, Xml!Expect

(* The name and the end of an end tag: the element is added to its          *)
(* parent.                                                                  *)
LEMMA ReadEnd ==
    ASSUME NEW e, NEW p, NEW o, NEW i, NEW t
    PROVE  /\ Xml!ReadChar(Xml!Reader("name", "none", e, o, i, t), e.name)
                = Xml!Reader("end", "none", e, o, i, t)
           /\ Xml!ReadChar(Xml!Reader("end", "none", e, <<p, o>>, i, t), ">")
                = Xml!Between(Xml!AddChild(p, e), o)
  BY DEF Xml!ReadChar, Xml!Reader, Xml!Expect, Xml!Close

(* A character, plain or in an entity.                                      *)
LEMMA LeadsEscapedChar ==
    ASSUME NEW m \in {"content", "value"}, NEW e, NEW o, NEW i, NEW t, NEW c
    PROVE  Leads(Xml!Reader(m, "none", e, o, i, t), Xml!EscapedChar(c),
                 Xml!Reader(m, "none", e, o, i, Append(t, c)))
  <1> DEFINE R(entity, text) == Xml!Reader(m, entity, e, o, i, text)
  <1>1. CASE c \in DOMAIN Xml!Entity
    <2>1. /\ Xml!Entity[c] \in DOMAIN Xml!Char /\ Xml!Char[Xml!Entity[c]] = c
          /\ Xml!EscapedChar(c) = <<"&", Xml!Entity[c], ";">>
      BY <1>1 DEF Xml!Entity, Xml!Char, Xml!EscapedChar
    <2>2. Xml!ReadChar(R("none", t), "&") = R("name", t)
      BY DEF Xml!ReadChar, Xml!Reader, Xml!ReadText
    <2>3. Xml!ReadChar(R("name", t), Xml!Entity[c]) = R("end", Append(t, c))
      BY <2>1 DEF Xml!ReadChar, Xml!Reader, Xml!ReadText
    <2>4. Xml!ReadChar(R("end", Append(t, c)), ";") = R("none", Append(t, c))
      BY DEF Xml!ReadChar, Xml!Reader, Xml!ReadText
    <2> DEFINE n == Xml!Entity[c]
               run == [k \in 0..3 |-> IF k = 0 THEN R("none", t) ELSE IF k = 1 THEN R("name", t)
                                      ELSE IF k = 2 THEN R("end", Append(t, c)) ELSE R("none", Append(t, c))]
    <2> HIDE DEF R, n
    <2>5. /\ run[0] = R("none", t) /\ run[1] = R("name", t) /\ run[2] = R("end", Append(t, c))
          /\ run[3] = R("none", Append(t, c))
      OBVIOUS
    <2>6. Len(<<"&", n, ";">>) = 3 /\ <<"&", n, ";">>[1] = "&" /\ <<"&", n, ";">>[2] = n /\ <<"&", n, ";">>[3] = ";"
      OBVIOUS
    <2> HIDE DEF run
    <2>7. \A k \in 1..3 : run[k] = Xml!ReadChar(run[k - 1], <<"&", n, ";">>[k])
      <3>1. \A k \in 1..3 : k \in {1, 2, 3} /\ 1 - 1 = 0 /\ 2 - 1 = 1 /\ 3 - 1 = 2
        OBVIOUS
      <3> QED
        BY <2>2, <2>3, <2>4, <2>5, <2>6, <3>1 DEF n
    <2>8. Leads(R("none", t), <<"&", n, ";">>, R("none", Append(t, c)))
      BY <2>5, <2>6, <2>7 DEF Leads
    <2> QED
      BY <2>1, <2>8 DEF R, n
  <1>2. CASE c \notin DOMAIN Xml!Entity
    <2>1. c # "<" /\ c # "\"" /\ c # "&" /\ Xml!EscapedChar(c) = <<c>>
      BY <1>2 DEF Xml!Entity, Xml!EscapedChar
    <2>2. Xml!ReadChar(R("none", t), c) = R("none", Append(t, c))
      BY <2>1 DEF Xml!ReadChar, Xml!Reader, Xml!ReadText
    <2>3. Leads(R("none", t), <<c>>, Xml!ReadChar(R("none", t), c))
      BY LeadsChar, Zenon
    <2> QED
      BY <2>1, <2>2, <2>3, Zenon
  <1> QED
    BY <1>1, <1>2

-----------------------------------------------------------------------------
(* Escaped texts                                                            *)

(* Reading a concatenation, part by part.                                   *)
LEMMA LeadsFlatten ==
    ASSUME NEW T, NEW s \in Seq(Seq(T)), NEW q, \A k \in 1..Len(s) : Leads(q[k - 1], s[k], q[k])
    PROVE  Xml!FlattenSeq(s) \in Seq(T) /\ Leads(q[0], Xml!FlattenSeq(s), q[Len(s)])
  <1>1. PICK g : /\ g[0] = <<>>
                 /\ \A k \in 0..Len(s) : g[k] \in Seq(T)
                 /\ \A k \in 1..Len(s) : g[k] = g[k - 1] \o s[k]
                 /\ g[Len(s)] = Xml!FlattenSeq(s)
    BY FlattenSeqPrefixes
  <1>2. Len(s) \in Nat /\ \A k \in 1..Len(s) : s[k] \in Seq(T)
    BY LenProperties, ElementOfSeq
  <1> DEFINE S == {k \in Nat : k <= Len(s) => Leads(q[0], g[k], q[k])}
  <1>3. 0 \in S
    BY <1>1, LeadsNothing
  <1>4. ASSUME NEW k \in Nat, k \in S
        PROVE  k + 1 \in S
    <2>1. SUFFICES ASSUME k + 1 <= Len(s)
                   PROVE  Leads(q[0], g[k + 1], q[k + 1])
      OBVIOUS
    <2>2. k + 1 \in 1..Len(s) /\ (k + 1) - 1 = k /\ k <= Len(s) /\ k \in 0..Len(s)
      BY <1>2, <2>1
    <2>3. Leads(q[0], g[k], q[k])
      BY <1>4, <2>2
    <2>4. g[k + 1] = g[k] \o s[k + 1] /\ Leads(q[k], s[k + 1], q[k + 1])
      <3>1. g[k + 1] = g[(k + 1) - 1] \o s[k + 1] /\ Leads(q[(k + 1) - 1], s[k + 1], q[k + 1])
        BY <1>1, <2>2
      <3> QED
        BY <2>2, <3>1
    <2>5. g[k] \in Seq(T) /\ s[k + 1] \in Seq(T)
      BY <1>1, <1>2, <2>2
    <2>6. Leads(q[0], g[k] \o s[k + 1], q[k + 1])
      BY <2>3, <2>4, <2>5, LeadsConcat
    <2> QED
      BY <2>4, <2>6
  <1>5. Nat \subseteq S
    <2> HIDE DEF S
    <2> QED
      BY <1>3, <1>4, NatRec!SetInduction
  <1>6. Leads(q[0], g[Len(s)], q[Len(s)])
    BY <1>2, <1>5
  <1>7. g[Len(s)] \in Seq(T)
    BY <1>1, <1>2
  <1> QED
    BY <1>1, <1>6, <1>7

(* The characters of the stream.                                            *)
Chars == Characters \cup Names \cup Ids
    \cup {"<", ">", "/", " ", "=", "\"", "&", ";", "quot", "apos", "lt", "gt", "amp"}

(* The type of a sequence of up to four members.                            *)
LEMMA ShortSequences ==
    ASSUME NEW T
    PROVE  /\ \A a \in T : <<a>> \in Seq(T)
           /\ \A a, b \in T : <<a, b>> \in Seq(T)
           /\ \A a, b, c \in T : <<a, b, c>> \in Seq(T)
           /\ \A a, b, c, d \in T : <<a, b, c, d>> \in Seq(T)
  OBVIOUS

(* A character is written in characters of the stream.                      *)
LEMMA EscapedCharType == \A c \in Characters : Xml!EscapedChar(c) \in Seq(Chars)
  <1> TAKE c \in Characters
  <1>1. c \in DOMAIN Xml!Entity => Xml!Entity[c] \in Chars
    BY DEF Xml!Entity, Chars
  <1>2. c \in Chars /\ "&" \in Chars /\ ";" \in Chars
    BY DEF Chars
  <1>3. c \in DOMAIN Xml!Entity => <<"&", Xml!Entity[c], ";">> \in Seq(Chars)
    BY <1>1, <1>2, ShortSequences, Zenon
  <1>4. <<c>> \in Seq(Chars)
    BY <1>2, ShortSequences, Zenon
  <1> QED
    BY <1>3, <1>4 DEF Xml!EscapedChar

(* A text, escaped: the reader has it back.                                 *)
LEMMA LeadsEscaped ==
    ASSUME NEW m \in {"content", "value"}, NEW e, NEW o, NEW i, NEW text \in Seq(Characters)
    PROVE  /\ Xml!Escaped(text) \in Seq(Chars)
           /\ Leads(Xml!Reader(m, "none", e, o, i, <<>>), Xml!Escaped(text),
                    Xml!Reader(m, "none", e, o, i, text))
  <1> DEFINE s == [k \in DOMAIN text |-> Xml!EscapedChar(text[k])]
             first(k) == [j \in 1..k |-> text[j]]
             q == [k \in 0..Len(text) |-> Xml!Reader(m, "none", e, o, i, first(k))]
  <1>1. Len(text) \in Nat /\ DOMAIN text = 1..Len(text) /\ \A k \in 1..Len(text) : text[k] \in Characters
    BY LenProperties, ElementOfSeq
  <1>2. s \in Seq(Seq(Chars)) /\ Len(s) = Len(text) /\ \A k \in 1..Len(text) : s[k] = Xml!EscapedChar(text[k])
    <2>1. \A k \in 1..Len(text) : Xml!EscapedChar(text[k]) \in Seq(Chars)
      BY <1>1, EscapedCharType
    <2>2. s = [k \in 1..Len(text) |-> Xml!EscapedChar(text[k])]
      BY <1>1
    <2> QED
      BY <1>1, <2>1, <2>2
  <1>3. /\ first(0) = <<>> /\ first(Len(text)) = text
        /\ \A k \in 0..Len(text) : k + 1 <= Len(text) => first(k + 1) = Append(first(k), text[k + 1])
    <2>1. first(0) = <<>>
      OBVIOUS
    <2>2. first(Len(text)) = text
      BY <1>1
    <2>3. ASSUME NEW k \in 0..Len(text), k + 1 <= Len(text)
          PROVE  first(k + 1) = Append(first(k), text[k + 1])
      <3>1. first(k) \in Seq(Characters) /\ Len(first(k)) = k
        BY <1>1, <2>3
      <3> QED
        BY <1>1, <2>3, <3>1
    <2> QED
      BY <2>1, <2>2, <2>3
  <1>4. ASSUME NEW k \in 1..Len(s)
        PROVE  Leads(q[k - 1], s[k], q[k])
    <2>1. k \in 1..Len(text) /\ k - 1 \in 0..Len(text) /\ (k - 1) + 1 = k /\ k \in 0..Len(text) /\ k <= Len(text)
      BY <1>1, <1>2
    <2>2. first(k) = Append(first(k - 1), text[k])
      <3> HIDE DEF first
      <3>1. first((k - 1) + 1) = Append(first(k - 1), text[(k - 1) + 1])
        BY <1>3, <2>1
      <3> QED
        BY <2>1, <3>1
    <2> HIDE DEF first
    <2>3. Leads(Xml!Reader(m, "none", e, o, i, first(k - 1)), Xml!EscapedChar(text[k]),
                Xml!Reader(m, "none", e, o, i, first(k)))
      BY <2>2, LeadsEscapedChar
    <2>4. q[k - 1] = Xml!Reader(m, "none", e, o, i, first(k - 1)) /\ q[k] = Xml!Reader(m, "none", e, o, i, first(k))
      BY <2>1
    <2> HIDE DEF q, s
    <2> QED
      BY <1>2, <2>1, <2>3, <2>4
  <1>5. q[0] = Xml!Reader(m, "none", e, o, i, <<>>) /\ q[Len(s)] = Xml!Reader(m, "none", e, o, i, text)
    <2> HIDE DEF first, s
    <2> QED
      BY <1>1, <1>2, <1>3
  <1>6. Xml!Escaped(text) = Xml!FlattenSeq(s)
    BY DEF Xml!Escaped
  <1> HIDE DEF q, s
  <1>7. Xml!FlattenSeq(s) \in Seq(Chars) /\ Leads(q[0], Xml!FlattenSeq(s), q[Len(s)])
    BY <1>2, <1>4, LeadsFlatten
  <1> QED
    BY <1>5, <1>6, <1>7

-----------------------------------------------------------------------------
(* Attributes and starts                                                    *)

(* Two characters, and four.                                                *)
LEMMA LeadsTwo ==
    ASSUME NEW r, NEW a, NEW b, NEW p, NEW q, Xml!ReadChar(r, a) = p, Xml!ReadChar(p, b) = q
    PROVE  Leads(r, <<a, b>>, q)
  <1> DEFINE run == [k \in 0..2 |-> IF k = 0 THEN r ELSE IF k = 1 THEN p ELSE q]
             t == <<a, b>>
  <1>1. run[0] = r /\ run[1] = p /\ run[2] = q
    OBVIOUS
  <1>2. Len(t) = 2 /\ t[1] = a /\ t[2] = b
    OBVIOUS
  <1>3. \A k \in 1..2 : k \in {1, 2} /\ 1 - 1 = 0 /\ 2 - 1 = 1
    OBVIOUS
  <1> HIDE DEF run, t
  <1>4. \A k \in 1..2 : run[k] = Xml!ReadChar(run[k - 1], t[k])
    BY <1>1, <1>2, <1>3
  <1>5. Leads(r, t, q)
    BY <1>1, <1>2, <1>4 DEF Leads
  <1> QED
    BY <1>5 DEF t

(* The members of a concatenation of two pairs.                             *)
LEMMA ConcatTwoTwo ==
    ASSUME NEW T, NEW s \in Seq(T), NEW t \in Seq(T), Len(s) = 2, Len(t) = 2
    PROVE  /\ s \o t \in Seq(T) /\ Len(s \o t) = 4
           /\ (s \o t)[1] = s[1] /\ (s \o t)[2] = s[2] /\ (s \o t)[3] = t[1] /\ (s \o t)[4] = t[2]
  <1> DEFINE w == s \o t
  <1>1. w \in Seq(T) /\ Len(w) = 4 /\ \A k \in 1..4 : w[k] = IF k <= 2 THEN s[k] ELSE t[k - 2]
    <2>1. Len(s) + Len(t) = 4
      OBVIOUS
    <2>2. /\ w \in Seq(T) /\ Len(w) = Len(s) + Len(t)
          /\ \A k \in 1..(Len(s) + Len(t)) : w[k] = IF k <= Len(s) THEN s[k] ELSE t[k - Len(s)]
      BY ConcatProperties, Zenon
    <2> QED
      BY <2>1, <2>2, Zenon
  <1> HIDE DEF w
  <1>2. w[1] = s[1] /\ w[2] = s[2] /\ w[3] = t[1] /\ w[4] = t[2]
    BY <1>1
  <1> QED
    BY <1>1, <1>2 DEF w

(* Four characters: two and two.                                            *)
LEMMA LeadsFour ==
    ASSUME NEW r, NEW a, NEW b, NEW c, NEW d, NEW r1, NEW r2, NEW r3, NEW q,
           Xml!ReadChar(r, a) = r1, Xml!ReadChar(r1, b) = r2,
           Xml!ReadChar(r2, c) = r3, Xml!ReadChar(r3, d) = q
    PROVE  Leads(r, <<a, b, c, d>>, q)
  <1> DEFINE T == {a, b, c, d}
  <1>1. Leads(r, <<a, b>>, r2) /\ Leads(r2, <<c, d>>, q)
    BY LeadsTwo, Zenon
  <1>2. <<a, b>> \in Seq(T) /\ <<c, d>> \in Seq(T)
    OBVIOUS
  <1>3. <<a, b>> \o <<c, d>> = <<a, b, c, d>>
    <2> DEFINE s == <<a, b>>
               t == <<c, d>>
               u == <<a, b, c, d>>
    <2>1. /\ s \in Seq(T) /\ t \in Seq(T) /\ u \in Seq(T)
          /\ Len(s) = 2 /\ Len(t) = 2 /\ Len(u) = 4
          /\ s[1] = a /\ s[2] = b /\ t[1] = c /\ t[2] = d
          /\ u[1] = a /\ u[2] = b /\ u[3] = c /\ u[4] = d
      OBVIOUS
    <2> HIDE DEF s, t, u, T
    <2>2. /\ s \o t \in Seq(T) /\ Len(s \o t) = 4
          /\ (s \o t)[1] = a /\ (s \o t)[2] = b /\ (s \o t)[3] = c /\ (s \o t)[4] = d
      BY <2>1, ConcatTwoTwo
    <2> DEFINE v == s \o t
    <2> HIDE DEF v
    <2>3. v \in Seq(T) /\ Len(v) = 4 /\ v[1] = a /\ v[2] = b /\ v[3] = c /\ v[4] = d
      BY <2>2 DEF v
    <2>4. \A k \in 1..4 : k = 1 \/ k = 2 \/ k = 3 \/ k = 4
      OBVIOUS
    <2>5. \A k \in 1..Len(u) : u[k] = v[k]
      BY <2>1, <2>3, <2>4
    <2>6. u = v
      BY <2>1, <2>3, <2>5, SeqEqual
    <2> QED
      BY <2>6 DEF s, t, u, v
  <1> HIDE DEF T
  <1>4. Leads(r, <<a, b>> \o <<c, d>>, q)
    BY <1>1, <1>2, LeadsConcat
  <1> QED
    BY <1>3, <1>4

-----------------------------------------------------------------------------
(* The start of an element                                                  *)

(* An attribute as Start writes it.                                         *)
AttributeText(a) == <<" ", a.id, "=", "\"">> \o Xml!Escaped(a.value) \o <<"\"">>

(* Reading an attribute adds it to the element, whatever its value holds:   *)
(* a quote in the value is escaped and does not end it.                     *)
LEMMA LeadsAttribute ==
    ASSUME Texts \subseteq Seq(Characters), NEW a \in [id : Ids, value : Texts], NEW e, NEW o
    PROVE  /\ AttributeText(a) \in Seq(Chars)
           /\ Leads(Xml!Reader("tag", "none", e, o, "", <<>>), AttributeText(a),
                    Xml!Reader("tag", "none", Xml!AddAttribute(e, a.id, a.value), o, "", <<>>))
  <1> DEFINE R(mode, id, text) == Xml!Reader(mode, "none", e, o, id, text)
             q == Xml!Reader("tag", "none", Xml!AddAttribute(e, a.id, a.value), o, "", <<>>)
             s == <<" ", a.id, "=", "\"">>
             u == Xml!Escaped(a.value)
  <1>1. a.id \in Ids /\ a.value \in Seq(Characters)
    OBVIOUS
  <1>2. Leads(R("tag", "", <<>>), s, R("value", a.id, <<>>))
    <2>1. /\ Xml!ReadChar(R("tag", "", <<>>), " ") = R("id", "", <<>>)
          /\ Xml!ReadChar(R("id", "", <<>>), a.id) = R("equals", a.id, <<>>)
          /\ Xml!ReadChar(R("equals", a.id, <<>>), "=") = R("quote", a.id, <<>>)
          /\ Xml!ReadChar(R("quote", a.id, <<>>), "\"") = R("value", a.id, <<>>)
      BY DEF Xml!ReadChar, Xml!Reader, Xml!Expect
    <2> HIDE DEF R
    <2> QED
      BY <2>1, LeadsFour, Zenon
  <1>3. u \in Seq(Chars) /\ Leads(R("value", a.id, <<>>), u, R("value", a.id, a.value))
    <2>1. "value" \in {"content", "value"}
      OBVIOUS
    <2> QED
      BY <1>1, <2>1, LeadsEscaped
  <1>4. Leads(R("value", a.id, a.value), <<"\"">>, q)
    <2>1. Xml!ReadChar(R("value", a.id, a.value), "\"") = q
      BY DEF Xml!ReadChar, Xml!Reader
    <2> QED
      BY <2>1, LeadsChar, Zenon
  <1>5. s \in Seq(Chars) /\ <<"\"">> \in Seq(Chars)
    <2>1. " " \in Chars /\ a.id \in Chars /\ "=" \in Chars /\ "\"" \in Chars
      BY <1>1 DEF Chars
    <2> QED
      BY <2>1, ShortSequences, Zenon
  <1>6. AttributeText(a) = s \o u \o <<"\"">>
    BY DEF AttributeText
  <1> HIDE DEF R, q, s, u
  <1>7. s \o u \in Seq(Chars) /\ Leads(R("tag", "", <<>>), s \o u, R("value", a.id, a.value))
    BY <1>2, <1>3, <1>5, LeadsConcat, ConcatProperties
  <1> DEFINE v == s \o u
  <1> HIDE DEF v
  <1>8. v \o <<"\"">> \in Seq(Chars) /\ Leads(R("tag", "", <<>>), v \o <<"\"">>, q)
    <2>1. v \in Seq(Chars) /\ Leads(R("tag", "", <<>>), v, R("value", a.id, a.value))
      BY <1>7 DEF v
    <2> QED
      BY <2>1, <1>4, <1>5, LeadsConcat, ConcatProperties
  <1> QED
    BY <1>6, <1>8 DEF R, q, v

(* An element that has a name and attributes so far.                        *)
Opened(name, attributes) ==
    [name |-> name, attributes |-> attributes, children |-> <<>>, content |-> <<>>]

(* Such an element with one more attribute.                                 *)
LEMMA AddAttributeOpened ==
    ASSUME NEW n, NEW before, NEW id, NEW v
    PROVE  Xml!AddAttribute(Opened(n, before), id, v)
           = Opened(n, Append(before, [id |-> id, value |-> v]))
  <1> DEFINE r == Opened(n, before)
             new == Append(before, [id |-> id, value |-> v])
  <1>1. r.attributes = before
    BY DEF Opened
  <1>2. Xml!AddAttribute(r, id, v) = [r EXCEPT !.attributes = new]
    <2> HIDE DEF r
    <2> QED
      BY <1>1 DEF Xml!AddAttribute
  <1> HIDE DEF new
  <1>3. [r EXCEPT !.attributes = new] = Opened(n, new)
    BY DEF Opened
  <1> QED
    BY <1>2, <1>3 DEF new

(* Reading the start of an element opens it with its attributes.  No name   *)
(* is a slash, which would begin an end tag.                                *)
LEMMA LeadsStart ==
    ASSUME Texts \subseteq Seq(Characters), "/" \notin Names,
           NEW e, e.name \in Names, e.attributes \in Seq([id : Ids, value : Texts]), NEW p, NEW o
    PROVE  /\ Xml!Start(e) \in Seq(Chars)
           /\ Leads(Xml!Between(p, o), Xml!Start(e),
                    Xml!Reader("tag", "none", Opened(e.name, e.attributes), <<p, o>>, "", <<>>))
  <1> DEFINE A == e.attributes
             n == Len(A)
             R(k) == Xml!Reader("tag", "none", Opened(e.name, [j \in 1..k |-> A[j]]), <<p, o>>, "", <<>>)
             q == [k \in 0..n |-> R(k)]
             s == [k \in DOMAIN A |-> AttributeText(A[k])]
  <1>1. n \in Nat /\ DOMAIN A = 1..n /\ \A k \in 1..n : A[k] \in [id : Ids, value : Texts]
    BY LenProperties, ElementOfSeq
  <1>2. \A k \in 1..n : /\ AttributeText(A[k]) \in Seq(Chars)
                        /\ A[k].id \in Ids
    BY <1>1, LeadsAttribute
  <1>3. s \in Seq(Seq(Chars)) /\ Len(s) = n /\ \A k \in 1..n : s[k] = AttributeText(A[k])
    <2>1. s = [k \in 1..n |-> AttributeText(A[k])]
      BY <1>1
    <2> HIDE DEF n
    <2> QED
      BY <1>1, <1>2, <2>1
  <1>4. ASSUME NEW k \in 1..n
        PROVE  Leads(R(k - 1), s[k], R(k))
    <2> DEFINE before == [j \in 1..(k - 1) |-> A[j]]
    <2>1. [j \in 1..k |-> A[j]] = Append(before, A[k])
      <3>1. before \in Seq([id : Ids, value : Texts]) /\ Len(before) = k - 1
        BY <1>1, <1>4
      <3> HIDE DEF n
      <3> QED
        BY <1>1, <1>4, <3>1
    <2>2. A[k] = [id |-> A[k].id, value |-> A[k].value]
      BY <1>1, <1>4
    <2> HIDE DEF before
    <2>3. Xml!AddAttribute(Opened(e.name, before), A[k].id, A[k].value)
          = Opened(e.name, Append(before, A[k]))
      <3> DEFINE ak == A[k]
      <3>1. [id |-> ak.id, value |-> ak.value] = ak
        BY <2>2
      <3> HIDE DEF ak
      <3>2. Xml!AddAttribute(Opened(e.name, before), ak.id, ak.value)
            = Opened(e.name, Append(before, [id |-> ak.id, value |-> ak.value]))
        BY AddAttributeOpened
      <3> QED
        BY <3>1, <3>2 DEF ak
    <2>4. Leads(Xml!Reader("tag", "none", Opened(e.name, before), <<p, o>>, "", <<>>), AttributeText(A[k]),
                Xml!Reader("tag", "none",
                           Xml!AddAttribute(Opened(e.name, before), A[k].id, A[k].value), <<p, o>>, "", <<>>))
      <3>1. A[k] \in [id : Ids, value : Texts]
        BY <1>1, <1>4
      <3> DEFINE ak == A[k]
                 el == Opened(e.name, before)
                 po == <<p, o>>
      <3> HIDE DEF ak, el, po
      <3>2. Leads(Xml!Reader("tag", "none", el, po, "", <<>>), AttributeText(ak),
                  Xml!Reader("tag", "none", Xml!AddAttribute(el, ak.id, ak.value), po, "", <<>>))
        BY <3>1, LeadsAttribute DEF ak
      <3> QED
        BY <3>2 DEF ak, el, po
    <2>5. s[k] = AttributeText(A[k])
      BY <1>3, <1>4
    <2> HIDE DEF s
    <2> QED
      BY <2>1, <2>3, <2>4, <2>5, Zenon DEF before
  <1>5. \A k \in 1..Len(s) : Leads(q[k - 1], s[k], q[k])
    <2>1. \A k \in 1..n : k \in 0..n /\ k - 1 \in 0..n
      BY <1>1
    <2>2. \A k \in 0..n : q[k] = R(k)
      OBVIOUS
    <2> HIDE DEF q, R, s, n
    <2> QED
      BY <1>3, <1>4, <2>1, <2>2
  <1>6. q[0] = Xml!Reader("tag", "none", Xml!Element(e.name), <<p, o>>, "", <<>>)
    <2>0. q[0] = R(0)
      <3> HIDE DEF R
      <3> QED
        BY <1>1
    <2>1. q[0] = R(0) /\ [j \in 1..0 |-> A[j]] = <<>>
      <3> HIDE DEF q, R
      <3> QED
        BY <2>0
    <2>2. Opened(e.name, <<>>) = Xml!Element(e.name)
      BY DEF Opened, Xml!Element
    <2> HIDE DEF q
    <2> QED
      BY <2>1, <2>2, Zenon
  <1>7. q[Len(s)] = Xml!Reader("tag", "none", Opened(e.name, A), <<p, o>>, "", <<>>)
    <2>0. q[n] = R(n)
      <3> HIDE DEF R
      <3> QED
        BY <1>1
    <2>1. q[n] = R(n) /\ [j \in 1..n |-> A[j]] = A
      <3> HIDE DEF q, R, n
      <3>1. [j \in 1..n |-> A[j]] = A
        BY <1>1
      <3> QED
        BY <2>0, <3>1
    <2> HIDE DEF q, s
    <2> QED
      BY <1>3, <2>1, Zenon
  <1>8. Leads(Xml!Between(p, o), <<"<", e.name>>, q[0])
    <2>1. /\ Xml!ReadChar(Xml!Reader("content", "none", p, o, "", <<>>), "<")
             = Xml!Reader("markup", "none", p, o, "", <<>>)
          /\ Xml!ReadChar(Xml!Reader("markup", "none", p, o, "", <<>>), e.name)
             = Xml!Reader("tag", "none", Xml!Element(e.name), <<p, o>>, "", <<>>)
      <3>1. e.name # "/"
        OBVIOUS
      <3> DEFINE nm == e.name
      <3> HIDE DEF nm
      <3>2. nm # "/"
        BY <3>1 DEF nm
      <3>3. /\ Xml!ReadChar(Xml!Reader("content", "none", p, o, "", <<>>), "<")
               = Xml!Reader("markup", "none", p, o, "", <<>>)
            /\ Xml!ReadChar(Xml!Reader("markup", "none", p, o, "", <<>>), nm)
               = Xml!Reader("tag", "none", Xml!Element(nm), <<p, o>>, "", <<>>)
        BY <3>2 DEF Xml!ReadChar, Xml!Reader
      <3> QED
        BY <3>3 DEF nm
    <2> HIDE DEF q
    <2> QED
      BY <1>6, <2>1, LeadsTwo, Zenon DEF Xml!Between
  <1>9. Xml!Start(e) = <<"<", e.name>> \o Xml!FlattenSeq(s)
    BY Zenon DEF Xml!Start, AttributeText
  <1>10. <<"<", e.name>> \in Seq(Chars)
    <2>1. "<" \in Chars /\ e.name \in Chars
      BY DEF Chars
    <2> QED
      BY <2>1, ShortSequences, Zenon
  <1> HIDE DEF q, s, n, A, R
  <1>11. Xml!FlattenSeq(s) \in Seq(Chars) /\ Leads(q[0], Xml!FlattenSeq(s), q[Len(s)])
    BY <1>3, <1>5, LeadsFlatten
  <1>12. /\ <<"<", e.name>> \o Xml!FlattenSeq(s) \in Seq(Chars)
         /\ Leads(Xml!Between(p, o), <<"<", e.name>> \o Xml!FlattenSeq(s), q[Len(s)])
    <2> DEFINE f == Xml!FlattenSeq(s)
               h == <<"<", e.name>>
    <2> HIDE DEF f, h
    <2>1. h \in Seq(Chars) /\ f \in Seq(Chars) /\ Leads(Xml!Between(p, o), h, q[0]) /\ Leads(q[0], f, q[Len(s)])
      BY <1>8, <1>10, <1>11 DEF f, h
    <2>2. h \o f \in Seq(Chars) /\ Leads(Xml!Between(p, o), h \o f, q[Len(s)])
      BY <2>1, LeadsConcat, ConcatProperties
    <2> QED
      BY <2>2 DEF f, h
  <1> QED
    BY <1>7, <1>9, <1>12 DEF A

-----------------------------------------------------------------------------
(* Elements                                                                 *)

(* Elements whose list of children is one of childLists.                    *)
Elements(childLists) ==
    [ name : Names, attributes : Seq([id : Ids, value : Texts]),
      children : childLists, content : Texts \cup {<<>>} ]

(* An element of the given parts.                                           *)
Made(name, attributes, children, content) ==
    [name |-> name, attributes |-> attributes, children |-> children, content |-> content]

(* What the setters make of an element of given parts.                      *)
LEMMA MadeChanges ==
    ASSUME NEW n, NEW a, NEW c, NEW t
    PROVE  /\ \A child : Xml!AddChild(Made(n, a, c, t), child) = Made(n, a, Append(c, child), t)
           /\ \A text : Xml!SetContent(Made(n, a, c, t), text) = Made(n, a, c, text)
           /\ Made(n, a, c, t).name = n
           /\ Opened(n, a) = Made(n, a, <<>>, <<>>)
  <1> DEFINE r == Made(n, a, c, t)
  <1>1. r.name = n /\ r.children = c
    BY DEF Made
  <1>2. ASSUME NEW child
        PROVE  Xml!AddChild(r, child) = Made(n, a, Append(c, child), t)
    <2> DEFINE new == Append(c, child)
    <2>1. Xml!AddChild(r, child) = [r EXCEPT !.children = new]
      <3> HIDE DEF r
      <3> QED
        BY <1>1 DEF Xml!AddChild
    <2> HIDE DEF new
    <2>2. [r EXCEPT !.children = new] = Made(n, a, new, t)
      BY DEF Made
    <2> QED
      BY <2>1, <2>2 DEF new
  <1>3. ASSUME NEW text
        PROVE  Xml!SetContent(r, text) = Made(n, a, c, text)
    BY DEF Xml!SetContent, Made
  <1>4. Opened(n, a) = Made(n, a, <<>>, <<>>)
    BY DEF Opened, Made
  <1> QED
    BY <1>1, <1>2, <1>3, <1>4

(* The end of an element that has a text or children.                       *)
LEMMA LeadsEnd ==
    ASSUME NEW n, NEW a, NEW c, NEW t, NEW p, NEW o
    PROVE  Leads(Xml!Reader("content", "none", Made(n, a, c, <<>>), <<p, o>>, "", t),
                 <<"<", "/", n, ">">>,
                 Xml!Between(Xml!AddChild(p, Made(n, a, c, t)), o))
  <1> DEFINE e == Made(n, a, c, <<>>)
             f == Made(n, a, c, t)
             po == <<p, o>>
  <1>1. Xml!SetContent(e, t) = f /\ f.name = n
    BY MadeChanges
  <1> HIDE DEF e, f
  <1>2. Xml!ReadChar(Xml!Reader("content", "none", e, po, "", t), "<")
        = Xml!Reader("markup", "none", e, po, "", t)
    BY DEF Xml!ReadChar, Xml!Reader
  <1>3. Xml!ReadChar(Xml!Reader("markup", "none", e, po, "", t), "/")
        = Xml!Reader("name", "none", f, po, "", <<>>)
    <2>1. Xml!ReadChar(Xml!Reader("markup", "none", e, po, "", t), "/")
          = Xml!Reader("name", "none", Xml!SetContent(e, t), po, "", <<>>)
      BY DEF Xml!ReadChar, Xml!Reader
    <2> QED
      BY <1>1, <2>1
  <1>4. Xml!ReadChar(Xml!Reader("name", "none", f, po, "", <<>>), n)
        = Xml!Reader("end", "none", f, po, "", <<>>)
    BY <1>1, ReadEnd
  <1>5. Xml!ReadChar(Xml!Reader("end", "none", f, po, "", <<>>), ">") = Xml!Between(Xml!AddChild(p, f), o)
    <2>1. po # <<>> /\ po[1] = p /\ po[2] = o
      OBVIOUS
    <2> HIDE DEF po
    <2> QED
      BY <2>1 DEF Xml!ReadChar, Xml!Reader, Xml!Close
  <1> HIDE DEF po
  <1>6. Leads(Xml!Reader("content", "none", e, po, "", t), <<"<", "/", n, ">">>,
              Xml!Between(Xml!AddChild(p, f), o))
    BY <1>2, <1>3, <1>4, <1>5, LeadsFour, Zenon
  <1> QED
    BY <1>6 DEF e, f, po

(* The text of an element whose children have these texts.                  *)
Body(e, parts) ==
    IF e.content = <<>> /\ e.children = <<>> THEN Xml!Start(e) \o <<"/", ">">>
    ELSE Xml!Start(e) \o <<">">>
            \o (IF e.content # <<>> THEN Xml!Escaped(e.content) ELSE Xml!FlattenSeq(parts))
            \o <<"<", "/", e.name, ">">>

(* What a reader sees of it when it sees these children.                    *)
ShownWith(e, children) == [e EXCEPT !.children = IF e.content # <<>> THEN <<>> ELSE children]

(* The children, one after the other.                                       *)
LEMMA LeadsChildren ==
    ASSUME NEW S, NEW shown \in Seq(S), NEW parts \in Seq(Seq(Chars)), Len(parts) = Len(shown),
           \A k \in 1..Len(shown) : \A q, r :
               Leads(Xml!Between(q, r), parts[k], Xml!Between(Xml!AddChild(q, shown[k]), r)),
           NEW n, NEW a, NEW o
    PROVE  /\ Xml!FlattenSeq(parts) \in Seq(Chars)
           /\ Leads(Xml!Between(Made(n, a, <<>>, <<>>), o), Xml!FlattenSeq(parts),
                    Xml!Between(Made(n, a, shown, <<>>), o))
  <1> DEFINE first(k) == [j \in 1..k |-> shown[j]]
             q == [k \in 0..Len(shown) |-> Xml!Between(Made(n, a, first(k), <<>>), o)]
  <1>1. Len(shown) \in Nat /\ DOMAIN shown = 1..Len(shown) /\ \A k \in 1..Len(shown) : shown[k] \in S
    BY LenProperties, ElementOfSeq
  <1>3. /\ first(0) = <<>> /\ first(Len(shown)) = shown
        /\ \A k \in 0..Len(shown) : k + 1 <= Len(shown) => first(k + 1) = Append(first(k), shown[k + 1])
    <2>1. first(0) = <<>>
      OBVIOUS
    <2>2. first(Len(shown)) = shown
      BY <1>1
    <2>3. ASSUME NEW k \in 0..Len(shown), k + 1 <= Len(shown)
          PROVE  first(k + 1) = Append(first(k), shown[k + 1])
      <3>1. first(k) \in Seq(S) /\ Len(first(k)) = k
        BY <1>1, <2>3
      <3> QED
        BY <1>1, <2>3, <3>1
    <2> QED
      BY <2>1, <2>2, <2>3
  <1> HIDE DEF first
  <1>4. ASSUME NEW k \in 1..Len(parts)
        PROVE  Leads(q[k - 1], parts[k], q[k])
    <2>1. k \in 1..Len(shown) /\ k - 1 \in 0..Len(shown) /\ (k - 1) + 1 = k /\ k \in 0..Len(shown) /\ k <= Len(shown)
      BY <1>1, <1>4
    <2>2. first(k) = Append(first(k - 1), shown[k])
      <3>1. first((k - 1) + 1) = Append(first(k - 1), shown[(k - 1) + 1])
        BY <1>3, <2>1
      <3> QED
        BY <2>1, <3>1
    <2>3. Xml!AddChild(Made(n, a, first(k - 1), <<>>), shown[k]) = Made(n, a, first(k), <<>>)
      BY <2>2, MadeChanges
    <2>4. Leads(Xml!Between(Made(n, a, first(k - 1), <<>>), o), parts[k],
                Xml!Between(Xml!AddChild(Made(n, a, first(k - 1), <<>>), shown[k]), o))
      BY <2>1, Zenon
    <2>5. /\ q[k - 1] = Xml!Between(Made(n, a, first(k - 1), <<>>), o)
          /\ q[k] = Xml!Between(Made(n, a, first(k), <<>>), o)
      BY <2>1
    <2> HIDE DEF q
    <2> QED
      BY <2>3, <2>4, <2>5, Zenon
  <1>5. /\ q[0] = Xml!Between(Made(n, a, <<>>, <<>>), o)
        /\ q[Len(parts)] = Xml!Between(Made(n, a, shown, <<>>), o)
    BY <1>1, <1>3
  <1> HIDE DEF q
  <1>6. Xml!FlattenSeq(parts) \in Seq(Chars) /\ Leads(q[0], Xml!FlattenSeq(parts), q[Len(parts)])
    BY <1>4, LeadsFlatten
  <1> QED
    BY <1>5, <1>6
(* Reading the text of an element adds what a reader sees of it to the      *)
(* open element, if that is so for its children.                            *)
LEMMA LeadsElement ==
    ASSUME Texts \subseteq Seq(Characters), "/" \notin Names,
           NEW childLists, NEW e \in Elements(childLists),
           NEW S, NEW shown \in Seq(S), NEW parts \in Seq(Seq(Chars)),
           Len(parts) = Len(shown), e.children = <<>> => shown = <<>>,
           \A k \in 1..Len(shown) : \A q, r :
               Leads(Xml!Between(q, r), parts[k], Xml!Between(Xml!AddChild(q, shown[k]), r)),
           NEW p, NEW o
    PROVE  /\ Body(e, parts) \in Seq(Chars)
           /\ Leads(Xml!Between(p, o), Body(e, parts),
                    Xml!Between(Xml!AddChild(p, ShownWith(e, shown)), o))
  <1> DEFINE n == e.name
             a == e.attributes
             c == IF e.content # <<>> THEN <<>> ELSE shown
             t == e.content
             po == <<p, o>>
             s == Xml!Start(e)
             x == IF e.content # <<>> THEN Xml!Escaped(e.content) ELSE Xml!FlattenSeq(parts)
             from == Xml!Between(p, o)
             to == Xml!Between(Xml!AddChild(p, Made(n, a, c, t)), o)
             tag == Xml!Reader("tag", "none", Made(n, a, <<>>, <<>>), po, "", <<>>)
             within == Xml!Between(Made(n, a, <<>>, <<>>), po)
  <1>1. /\ n \in Names /\ a \in Seq([id : Ids, value : Texts])
        /\ t \in Texts \cup {<<>>}
        /\ e = [name |-> n, attributes |-> a, children |-> e.children, content |-> t]
    BY DEF Elements
  <1>2. ShownWith(e, shown) = Made(n, a, c, t)
    <2> DEFINE ec == e.children
    <2>1. ShownWith(e, shown) = [e EXCEPT !.children = c]
      BY Zenon DEF ShownWith
    <2>2. e = Made(n, a, ec, t)
      BY <1>1 DEF Made
    <2> HIDE DEF n, a, c, t, ec
    <2>3. [Made(n, a, ec, t) EXCEPT !.children = c] = Made(n, a, c, t)
      BY DEF Made
    <2> QED
      BY <2>1, <2>2, <2>3
  <1>3. s \in Seq(Chars) /\ Leads(from, s, tag)
    <2>1. s \in Seq(Chars) /\ Leads(from, s, Xml!Reader("tag", "none", Opened(n, a), po, "", <<>>))
      BY <1>1, LeadsStart
    <2> QED
      BY <2>1, MadeChanges
  <1>4. /\ <<"/", ">">> \in Seq(Chars) /\ <<">">> \in Seq(Chars) /\ <<"<", "/", n, ">">> \in Seq(Chars)
    <2>1. "/" \in Chars /\ ">" \in Chars /\ "<" \in Chars /\ n \in Chars
      BY <1>1 DEF Chars
    <2> QED
      BY <2>1, ShortSequences, Zenon
  <1>5. CASE e.content = <<>> /\ e.children = <<>>
    <2>1. Made(n, a, c, t) = Made(n, a, <<>>, <<>>)
      BY <1>5
    <2>2. Leads(tag, <<"/", ">">>, to)
      <3> DEFINE el == Made(n, a, <<>>, <<>>)
      <3>0. po # <<>> /\ po[1] = p /\ po[2] = o
        OBVIOUS
      <3> HIDE DEF el, po
      <3>1. Xml!ReadChar(Xml!Reader("tag", "none", el, po, "", <<>>), "/") = Xml!Reader("end", "none", el, po, "", <<>>)
        BY ReadTag
      <3>2. Xml!ReadChar(Xml!Reader("end", "none", el, po, "", <<>>), ">") = Xml!Between(Xml!AddChild(p, el), o)
        BY <3>0 DEF Xml!ReadChar, Xml!Reader, Xml!Close
      <3>3. Leads(Xml!Reader("tag", "none", el, po, "", <<>>), <<"/", ">">>, Xml!Between(Xml!AddChild(p, el), o))
        BY <3>1, <3>2, LeadsTwo, Zenon
      <3> QED
        BY <2>1, <3>3, Zenon DEF el
    <2>3. Body(e, parts) = s \o <<"/", ">">>
      BY <1>5 DEF Body
    <2> DEFINE u == <<"/", ">">>
    <2> HIDE DEF u, from, to, tag, s
    <2>4. s \o u \in Seq(Chars) /\ Leads(from, s \o u, to)
      <3>1. s \in Seq(Chars) /\ u \in Seq(Chars) /\ Leads(from, s, tag) /\ Leads(tag, u, to)
        BY <1>3, <1>4, <2>2 DEF u
      <3> QED
        BY <3>1, LeadsConcat, ConcatProperties
    <2> QED
      BY <1>2, <2>3, <2>4, Zenon DEF from, to, u
  <1>6. CASE ~(e.content = <<>> /\ e.children = <<>>)
    <2>1. Leads(tag, <<">">>, within)
      <3>1. Xml!ReadChar(tag, ">") = within
        <4> DEFINE el == Made(n, a, <<>>, <<>>)
        <4> HIDE DEF el, po
        <4>1. Xml!ReadChar(Xml!Reader("tag", "none", el, po, "", <<>>), ">")
              = Xml!Reader("content", "none", el, po, "", <<>>)
          BY ReadTag
        <4> QED
          BY <4>1, Zenon DEF el, Xml!Between
      <3> QED
        BY <3>1, LeadsChar, Zenon
    <2>2. x \in Seq(Chars) /\ Leads(within, x, Xml!Reader("content", "none", Made(n, a, c, <<>>), po, "", t))
      <3>1. CASE t # <<>>
        <4>1. t \in Seq(Characters)
          BY <1>1, <3>1
        <4>2. c = <<>> /\ x = Xml!Escaped(t)
          BY <3>1
        <4> DEFINE el == Made(n, a, <<>>, <<>>)
        <4> HIDE DEF el, po
        <4>3. /\ Xml!Escaped(t) \in Seq(Chars)
              /\ Leads(Xml!Reader("content", "none", el, po, "", <<>>), Xml!Escaped(t),
                       Xml!Reader("content", "none", el, po, "", t))
          BY <4>1, LeadsEscaped
        <4> QED
          BY <4>2, <4>3, Zenon DEF el, Xml!Between
      <3>2. CASE t = <<>>
        <4>1. c = shown /\ x = Xml!FlattenSeq(parts)
          BY <3>2
        <4> HIDE DEF po
        <4>2. /\ Xml!FlattenSeq(parts) \in Seq(Chars)
              /\ Leads(Xml!Between(Made(n, a, <<>>, <<>>), po), Xml!FlattenSeq(parts),
                       Xml!Between(Made(n, a, shown, <<>>), po))
          BY LeadsChildren
        <4> QED
          BY <3>2, <4>1, <4>2, Zenon DEF Xml!Between
      <3> QED
        BY <3>1, <3>2
    <2>3. Leads(Xml!Reader("content", "none", Made(n, a, c, <<>>), po, "", t), <<"<", "/", n, ">">>, to)
      <3> HIDE DEF n, a, c, t
      <3> QED
        BY LeadsEnd
    <2>4. Body(e, parts) = s \o <<">">> \o x \o <<"<", "/", n, ">">>
      BY <1>6, Zenon DEF Body
    <2> DEFINE u == <<">">>
               v == <<"<", "/", n, ">">>
               before == Xml!Reader("content", "none", Made(n, a, c, <<>>), po, "", t)
    <2>5. /\ s \in Seq(Chars) /\ u \in Seq(Chars) /\ x \in Seq(Chars) /\ v \in Seq(Chars)
          /\ Leads(from, s, tag) /\ Leads(tag, u, within) /\ Leads(within, x, before) /\ Leads(before, v, to)
      BY <1>3, <1>4, <2>1, <2>2, <2>3, Zenon
    <2> HIDE DEF from, to, tag, within, before, s, u, v, x
    <2>6. s \o u \in Seq(Chars) /\ Leads(from, s \o u, within)
      BY ONLY <2>5, LeadsConcat, ConcatProperties
    <2> DEFINE su == s \o u
    <2>7. su \o x \in Seq(Chars) /\ Leads(from, su \o x, before)
      <3> HIDE DEF su
      <3>1. su \in Seq(Chars) /\ Leads(from, su, within)
        BY <2>6 DEF su
      <3> QED
        BY ONLY <2>5, <3>1, LeadsConcat, ConcatProperties
    <2> DEFINE sux == su \o x
    <2>8. sux \o v \in Seq(Chars) /\ Leads(from, sux \o v, to)
      <3> HIDE DEF sux
      <3>1. sux \in Seq(Chars) /\ Leads(from, sux, before)
        BY <2>7 DEF sux
      <3> QED
        BY ONLY <2>5, <3>1, LeadsConcat, ConcatProperties
    <2> QED
      BY <1>2, <2>4, <2>8, Zenon DEF from, to, u, v
  <1> QED
    BY <1>5, <1>6

-----------------------------------------------------------------------------
(* Nested elements                                                          *)

(* Nested is a recursive function of the depth.                             *)
NestedStep(below, n) == Elements(Seq(below))

NestedRec == INSTANCE Recursion WITH Base <- Elements({<<>>}), Step <- NestedStep

(* The equation of Nested has a solution, so Nested obeys it.               *)
LEMMA NestedRecursive == NestedRec!IsRecursive(Xml!Nested)
  <1> DEFINE Eqn(f) == f = [n \in Nat |->
          [ name : Names, attributes : Seq([id : Ids, value : Texts]),
            children : IF n = 0 THEN {<<>>} ELSE Seq(f[n - 1]), content : Texts \cup {<<>>} ]]
  <1>1. ASSUME NEW f
        PROVE  NestedRec!IsRecursive(f) <=> Eqn(f)
    <2>1. ASSUME NEW n \in Nat
          PROVE  (IF n = 0 THEN Elements({<<>>}) ELSE NestedStep(f[n - 1], n))
                 = [ name : Names, attributes : Seq([id : Ids, value : Texts]),
                     children : IF n = 0 THEN {<<>>} ELSE Seq(f[n - 1]), content : Texts \cup {<<>>} ]
      BY Zenon DEF Elements, NestedStep
    <2> QED
      BY <2>1, Zenon DEF NestedRec!IsRecursive
  <1>2. \E f : Eqn(f)
    BY <1>1, NestedRec!RecursiveExists, Zenon
  <1>3. Eqn(Xml!Nested)
    <2>1. Xml!Nested = CHOOSE f : Eqn(f)
      BY Zenon DEF Xml!Nested
    <2> HIDE DEF Eqn
    <2> QED
      BY <1>2, <2>1, Zenon
  <1> QED
    BY <1>1, <1>3, Zenon

(* Elements that have no children, and elements whose children are a        *)
(* level less deep.                                                         *)
LEMMA NestedValues ==
    /\ Xml!Nested[0] = Elements({<<>>})
    /\ \A n \in Nat : Xml!Nested[n + 1] = Elements(Seq(Xml!Nested[n]))
  BY NestedRecursive, NestedRec!RecursiveValues, Zenon DEF NestedStep

(* Elements of depth 0 have no children.                                    *)
LEMMA NoChildren == \A e \in Xml!Nested[0] : e.children = <<>>
  BY NestedValues DEF Elements

(* Serialize is a recursive function of the depth.                          *)
SerializeBase == [e \in Xml!Nested[0] |-> Body(e, <<>>)]
SerializeStep(below, n) ==
    [e \in Xml!Nested[n] |-> Body(e, [i \in DOMAIN e.children |-> below[e.children[i]]])]

SerializeRec == INSTANCE Recursion WITH Base <- SerializeBase, Step <- SerializeStep

(* The equation of Serialize has a solution, so Serialize obeys it.         *)
LEMMA SerializeRecursive == SerializeRec!IsRecursive(Xml!Serialize)
  <1> DEFINE parts(f, n, e) == [i \in DOMAIN e.children |-> f[n - 1][e.children[i]]]
             text(f, n, e) ==
                 IF e.content = <<>> /\ e.children = <<>> THEN Xml!Start(e) \o <<"/", ">">>
                 ELSE Xml!Start(e) \o <<">">>
                         \o (IF e.content # <<>> THEN Xml!Escaped(e.content)
                             ELSE Xml!FlattenSeq(parts(f, n, e)))
                         \o <<"<", "/", e.name, ">">>
             Eqn(f) == f = [n \in Nat |-> [e \in Xml!Nested[n] |-> text(f, n, e)]]
  <1>1. ASSUME NEW f
        PROVE  SerializeRec!IsRecursive(f) <=> Eqn(f)
    <2>1. ASSUME NEW n \in Nat
          PROVE  (IF n = 0 THEN SerializeBase ELSE SerializeStep(f[n - 1], n))
                 = [e \in Xml!Nested[n] |-> text(f, n, e)]
      <3>1. CASE n # 0
        BY <3>1, Zenon DEF SerializeStep, Body
      <3>2. CASE n = 0
        <4>1. ASSUME NEW e \in Xml!Nested[0]
              PROVE  text(f, 0, e) = Body(e, <<>>)
          <5>1. e.children = <<>>
            BY <4>1, NoChildren
          <5>2. parts(f, 0, e) = <<>>
            <6>1. DOMAIN e.children = {}
              BY <5>1
            <6> QED
              BY <6>1
          <5> HIDE DEF parts
          <5> QED
            BY <5>1, <5>2, Zenon DEF Body
        <4> HIDE DEF text
        <4> QED
          BY <3>2, <4>1, Zenon DEF SerializeBase
      <3> QED
        BY <3>1, <3>2, Zenon
    <2> HIDE DEF text
    <2> QED
      BY <2>1, Zenon DEF SerializeRec!IsRecursive
  <1>2. \E f : Eqn(f)
    <2> HIDE DEF Eqn
    <2> QED
      BY <1>1, SerializeRec!RecursiveExists, Zenon
  <1>3. Eqn(Xml!Serialize)
    <2>1. Xml!Serialize = CHOOSE f : Eqn(f)
      BY Zenon DEF Xml!Serialize
    <2> HIDE DEF Eqn
    <2> QED
      BY <1>2, <2>1, Zenon
  <1> HIDE DEF Eqn
  <1> QED
    BY <1>1, <1>3, Zenon

(* The text of an element, from the texts of its children.                  *)
LEMMA SerializeValues ==
    /\ \A e \in Xml!Nested[0] : Xml!Serialize[0][e] = Body(e, <<>>)
    /\ \A n \in Nat : \A e \in Xml!Nested[n + 1] :
           Xml!Serialize[n + 1][e] = Body(e, [i \in DOMAIN e.children |-> Xml!Serialize[n][e.children[i]]])
  <1>1. /\ Xml!Serialize[0] = SerializeBase
        /\ \A n \in Nat : Xml!Serialize[n + 1] = SerializeStep(Xml!Serialize[n], n + 1)
    BY SerializeRecursive, SerializeRec!RecursiveValues, Zenon
  <1> QED
    BY <1>1, Zenon DEF SerializeBase, SerializeStep

(* What is seen of an element in Nested[n].                                 *)
ShownBase == [e \in Xml!Nested[0] |-> ShownWith(e, <<>>)]
ShownStep(below, n) ==
    [e \in Xml!Nested[n] |-> ShownWith(e, [i \in DOMAIN e.children |-> below[e.children[i]]])]

ShownRec == INSTANCE Recursion WITH Base <- ShownBase, Step <- ShownStep

Visible == CHOOSE f : ShownRec!IsRecursive(f)

(* What is seen of an element, from what is seen of its children.           *)
LEMMA ShownValues ==
    /\ \A e \in Xml!Nested[0] : Visible[0][e] = ShownWith(e, <<>>)
    /\ \A n \in Nat : \A e \in Xml!Nested[n + 1] :
           Visible[n + 1][e] = ShownWith(e, [i \in DOMAIN e.children |-> Visible[n][e.children[i]]])
  <1>1. /\ Visible[0] = ShownBase
        /\ \A n \in Nat : Visible[n + 1] = ShownStep(Visible[n], n + 1)
    BY ShownRec!RecursiveExists, ShownRec!RecursiveValues, Zenon DEF Visible
  <1> QED
    BY <1>1, Zenon DEF ShownBase, ShownStep

(* Unmixed is a recursive function of the depth.                            *)
UnmixedStep(below, n) ==
    {e \in Xml!Nested[n] : /\ e.content = <<>> \/ e.children = <<>>
                           /\ \A i \in DOMAIN e.children : e.children[i] \in below}

UnmixedRec == INSTANCE Recursion WITH Base <- Xml!Nested[0], Step <- UnmixedStep

(* The equation of Unmixed has a solution, so Unmixed obeys it.             *)
LEMMA UnmixedRecursive == UnmixedRec!IsRecursive(Xml!Unmixed)
  <1> DEFINE below(f, n) ==
                 {e \in Xml!Nested[n] : /\ e.content = <<>> \/ e.children = <<>>
                                        /\ \A i \in DOMAIN e.children : e.children[i] \in f[n - 1]}
             Eqn(f) == f = [n \in Nat |-> below(f, n)]
  <1>1. ASSUME NEW f
        PROVE  UnmixedRec!IsRecursive(f) <=> Eqn(f)
    <2>1. ASSUME NEW n \in Nat
          PROVE  (IF n = 0 THEN Xml!Nested[0] ELSE UnmixedStep(f[n - 1], n)) = below(f, n)
      <3>1. CASE n # 0
        BY <3>1, Zenon DEF UnmixedStep
      <3>2. CASE n = 0
        <4>1. \A e \in Xml!Nested[0] : e.children = <<>> /\ DOMAIN e.children = {}
          BY NoChildren
        <4>2. below(f, 0) = Xml!Nested[0]
          BY <4>1
        <4> HIDE DEF below
        <4> QED
          BY <3>2, <4>2
      <3> QED
        BY <3>1, <3>2, Zenon
    <2> HIDE DEF below
    <2> QED
      BY <2>1, Zenon DEF UnmixedRec!IsRecursive
  <1>2. \E f : Eqn(f)
    <2> HIDE DEF Eqn
    <2> QED
      BY <1>1, UnmixedRec!RecursiveExists, Zenon
  <1>3. Eqn(Xml!Unmixed)
    <2>1. Xml!Unmixed = CHOOSE f : Eqn(f)
      BY Zenon DEF Xml!Unmixed
    <2> HIDE DEF Eqn
    <2> QED
      BY <1>2, <2>1, Zenon
  <1> HIDE DEF Eqn
  <1> QED
    BY <1>1, <1>3, Zenon

(* Of an element without a mixed one inside, everything is seen: by         *)
(* induction over the depth.                                                *)
LEMMA UnmixedShown == \A n \in Nat : \A e \in Xml!Unmixed[n] : Visible[n][e] = e
  <1> DEFINE S == {n \in Nat : \A e \in Xml!Unmixed[n] : Visible[n][e] = e}
  <1>0. /\ Xml!Unmixed[0] = Xml!Nested[0]
        /\ \A n \in Nat : Xml!Unmixed[n + 1] = UnmixedStep(Xml!Unmixed[n], n + 1)
    BY UnmixedRecursive, UnmixedRec!RecursiveValues, Zenon
  <1>s. \A P : \A e \in Elements(P) : [e EXCEPT !.children = e.children] = e
    BY DEF Elements
  <1>1. 0 \in S
    <2> SUFFICES ASSUME NEW e \in Xml!Nested[0] PROVE Visible[0][e] = e
      BY <1>0
    <2>1. Visible[0][e] = ShownWith(e, <<>>)
      BY ShownValues
    <2>2. ShownWith(e, <<>>) = [e EXCEPT !.children = e.children]
      BY NoChildren DEF ShownWith
    <2> QED
      BY <1>s, <2>1, <2>2, NestedValues
  <1>2. ASSUME NEW n \in Nat, n \in S
        PROVE  n + 1 \in S
    <2> SUFFICES ASSUME NEW e \in Xml!Unmixed[n + 1] PROVE Visible[n + 1][e] = e
      OBVIOUS
    <2> DEFINE c == e.children
               seen == [i \in DOMAIN e.children |-> Visible[n][e.children[i]]]
    <2>1. /\ e \in Xml!Nested[n + 1] /\ (e.content = <<>> \/ c = <<>>)
          /\ \A i \in DOMAIN c : c[i] \in Xml!Unmixed[n]
      BY <1>0, Zenon DEF UnmixedStep
    <2>2. e \in Elements(Seq(Xml!Nested[n])) /\ c \in Seq(Xml!Nested[n])
      <3>1. Xml!Nested[n + 1] = Elements(Seq(Xml!Nested[n]))
        BY NestedValues
      <3>2. e \in Elements(Seq(Xml!Nested[n]))
        BY <2>1, <3>1
      <3> QED
        BY <3>2 DEF Elements
    <2>3. \A i \in DOMAIN c : Visible[n][c[i]] = c[i]
      BY <1>2, <2>1
    <2>4. seen = [i \in DOMAIN c |-> c[i]]
      BY <2>3, Zenon
    <2>5. c = [i \in DOMAIN c |-> c[i]]
      <3> HIDE DEF c
      <3> QED
        BY <2>2
    <2>6. Visible[n + 1][e] = ShownWith(e, seen)
      BY <2>1, ShownValues
    <2>7. seen = c
      BY <2>4, <2>5
    <2> HIDE DEF seen
    <2>8. ShownWith(e, c) = [e EXCEPT !.children = e.children]
      BY <2>1 DEF ShownWith
    <2> QED
      BY <1>s, <2>2, <2>6, <2>7, <2>8
  <1>3. Nat \subseteq S
    <2> HIDE DEF S
    <2> QED
      BY <1>1, <1>2, NatRec!SetInduction
  <1> QED
    BY <1>3

-----------------------------------------------------------------------------
(* Reading the text of an element adds the element to the one that is open. *)
LeadsNested(n) ==
    \A e \in Xml!Nested[n] :
        /\ Xml!Serialize[n][e] \in Seq(Chars)
        /\ \A p, o : Leads(Xml!Between(p, o), Xml!Serialize[n][e],
                           Xml!Between(Xml!AddChild(p, Visible[n][e]), o))

(* It does so at every depth: by induction over the depth.                  *)
LEMMA LeadsSerialized ==
    ASSUME Texts \subseteq Seq(Characters), "/" \notin Names
    PROVE  \A n \in Nat : LeadsNested(n)
  <1> DEFINE S == {n \in Nat : LeadsNested(n)}
  <1>1. 0 \in S
    <2>1. ASSUME NEW e \in Xml!Nested[0]
          PROVE  /\ Xml!Serialize[0][e] \in Seq(Chars)
                 /\ \A p, o : Leads(Xml!Between(p, o), Xml!Serialize[0][e],
                                    Xml!Between(Xml!AddChild(p, Visible[0][e]), o))
      <3>1. e \in Elements({<<>>})
        BY <2>1, NestedValues
      <3>2. <<>> \in Seq(Seq(Chars)) /\ <<>> \in Seq({}) /\ Len(<<>>) = Len(<<>>) /\ Len(<<>>) = 0
        OBVIOUS
      <3>3. \A k \in 1..Len(<<>>) : FALSE
        BY <3>2
      <3>4. ASSUME NEW p, NEW o
            PROVE  /\ Body(e, <<>>) \in Seq(Chars)
                   /\ Leads(Xml!Between(p, o), Body(e, <<>>),
                            Xml!Between(Xml!AddChild(p, ShownWith(e, <<>>)), o))
        BY ONLY Texts \subseteq Seq(Characters), "/" \notin Names, <3>1, <3>2, <3>3, LeadsElement
      <3>5. Xml!Serialize[0][e] = Body(e, <<>>) /\ Visible[0][e] = ShownWith(e, <<>>)
        BY <2>1, SerializeValues, ShownValues
      <3> QED
        BY <3>4, <3>5, Zenon
    <2> QED
      BY <2>1 DEF LeadsNested
  <1>2. ASSUME NEW n \in Nat, n \in S
        PROVE  n + 1 \in S
    <2>1. LeadsNested(n)
      BY <1>2
    <2>2. ASSUME NEW e \in Xml!Nested[n + 1]
          PROVE  /\ Xml!Serialize[n + 1][e] \in Seq(Chars)
                 /\ \A p, o : Leads(Xml!Between(p, o), Xml!Serialize[n + 1][e],
                                    Xml!Between(Xml!AddChild(p, Visible[n + 1][e]), o))
      <3> DEFINE c == e.children
                 S1 == {Visible[n][x] : x \in Xml!Nested[n]}
                 shown == [i \in DOMAIN c |-> Visible[n][c[i]]]
                 parts == [i \in DOMAIN c |-> Xml!Serialize[n][c[i]]]
      <3>1. e \in Elements(Seq(Xml!Nested[n]))
        BY <2>2, NestedValues
      <3>2. c \in Seq(Xml!Nested[n])
        BY <3>1 DEF Elements
      <3>3. DOMAIN c = 1..Len(c) /\ Len(c) \in Nat /\ \A i \in 1..Len(c) : c[i] \in Xml!Nested[n]
        BY <3>2, LenProperties, ElementOfSeq
      <3> HIDE DEF c
      <3>4. \A i \in 1..Len(c) : Visible[n][c[i]] \in S1 /\ Xml!Serialize[n][c[i]] \in Seq(Chars)
        BY <2>1, <3>3 DEF LeadsNested
      <3> HIDE DEF S1
      <3>5. /\ shown \in Seq(S1) /\ Len(shown) = Len(c)
            /\ parts \in Seq(Seq(Chars)) /\ Len(parts) = Len(c)
            /\ \A i \in 1..Len(c) : shown[i] = Visible[n][c[i]] /\ parts[i] = Xml!Serialize[n][c[i]]
        <4>1. shown = [i \in 1..Len(c) |-> Visible[n][c[i]]] /\ parts = [i \in 1..Len(c) |-> Xml!Serialize[n][c[i]]]
          BY <3>3
        <4> QED
          BY <3>3, <3>4, <4>1
      <3>6. c = <<>> => shown = <<>>
        OBVIOUS
      <3> HIDE DEF shown, parts
      <3>7. \A k \in 1..Len(shown) : \A q, r :
               Leads(Xml!Between(q, r), parts[k], Xml!Between(Xml!AddChild(q, shown[k]), r))
        <4> TAKE k \in 1..Len(shown)
        <4> TAKE q, r
        <4>1. k \in 1..Len(c)
          BY <3>5
        <4>2. Leads(Xml!Between(q, r), Xml!Serialize[n][c[k]],
                    Xml!Between(Xml!AddChild(q, Visible[n][c[k]]), r))
          BY <2>1, <3>3, <4>1, Zenon DEF LeadsNested
        <4>3. shown[k] = Visible[n][c[k]] /\ parts[k] = Xml!Serialize[n][c[k]]
          BY <3>5, <4>1
        <4> QED
          BY <4>2, <4>3, Zenon
      <3>8. Xml!Serialize[n + 1][e] = Body(e, parts) /\ Visible[n + 1][e] = ShownWith(e, shown)
        BY <2>2, SerializeValues, ShownValues, Zenon DEF parts, shown, c
      <3>9. Len(parts) = Len(shown) /\ (e.children = <<>> => shown = <<>>)
        BY <3>5, <3>6 DEF c
      <3>10. ASSUME NEW p, NEW o
             PROVE  /\ Body(e, parts) \in Seq(Chars)
                    /\ Leads(Xml!Between(p, o), Body(e, parts),
                             Xml!Between(Xml!AddChild(p, ShownWith(e, shown)), o))
        BY ONLY Texts \subseteq Seq(Characters), "/" \notin Names, <3>1, <3>5, <3>7, <3>9, LeadsElement
      <3> QED
        BY <3>8, <3>10, Zenon
    <2>3. LeadsNested(n + 1)
      BY <2>2 DEF LeadsNested
    <2> QED
      BY <2>3
  <1>3. Nat \subseteq S
    <2> HIDE DEF S
    <2> QED
      BY <1>1, <1>2, NatRec!SetInduction
  <1> QED
    BY <1>3

-----------------------------------------------------------------------------
(* The stream                                                               *)

(* A new element belongs to every depth.                                    *)
LEMMA ElementNested == \A n \in Nat : \A name \in Names : Xml!Element(name) \in Xml!Nested[n]
  <1> TAKE n \in Nat
  <1> TAKE name \in Names
  <1>1. CASE n = 0
    <2>1. Xml!Element(name) \in Elements({<<>>})
      BY DEF Xml!Element, Elements
    <2> QED
      BY <1>1, <2>1, NestedValues
  <1>2. CASE n # 0
    <2>1. n - 1 \in Nat /\ (n - 1) + 1 = n
      BY <1>2
    <2>2. Xml!Nested[(n - 1) + 1] = Elements(Seq(Xml!Nested[n - 1]))
      BY <2>1, NestedValues
    <2>3. Xml!Element(name) \in Elements(Seq(Xml!Nested[n - 1]))
      BY DEF Xml!Element, Elements
    <2> QED
      BY <2>1, <2>2, <2>3
  <1> QED
    BY <1>1, <1>2

(* What a reader can see, and what it should have seen so far.              *)
AllShown == {Visible[MaxDepth][e] : e \in Xml!Nested[MaxDepth]}
ShownSoFar == [i \in DOMAIN serialized |-> Visible[MaxDepth][serialized[i]]]

(* What the stream holds is read as the elements that were serialised.      *)
StreamInv ==
    /\ elements \in Seq(Xml!Nested[MaxDepth])
    /\ serialized \in Seq(Xml!Nested[MaxDepth])
    /\ stream \in Seq(Chars)
    /\ Leads(Xml!Between(Xml!Document, <<>>), stream,
             Xml!Between(Xml!AddChildren(Xml!Document, ShownSoFar), <<>>))

(* The document with these elements.                                        *)
LEMMA DocumentChildren ==
    ASSUME NEW S, NEW s \in Seq(S)
    PROVE  Xml!AddChildren(Xml!Document, s) = Made("document", <<>>, s, <<>>)
  <1> DEFINE d == Xml!Document
  <1>1. d = Made("document", <<>>, <<>>, <<>>) /\ d.children = <<>>
    BY DEF Xml!Document, Xml!Element, Made
  <1>2. <<>> \o s = s
    BY ConcatEmptySeq
  <1>3. Xml!AddChildren(d, s) = [d EXCEPT !.children = s]
    <2> HIDE DEF d
    <2> QED
      BY <1>1, <1>2 DEF Xml!AddChildren
  <1>4. [Made("document", <<>>, <<>>, <<>>) EXCEPT !.children = s] = Made("document", <<>>, s, <<>>)
    BY DEF Made
  <1> HIDE DEF d
  <1> QED
    BY <1>1, <1>3, <1>4 DEF d

(* What should have been seen is a sequence.                                *)
LEMMA ShownSoFarType ==
    ASSUME serialized \in Seq(Xml!Nested[MaxDepth])
    PROVE  ShownSoFar \in Seq(AllShown)
  <1>1. /\ Len(serialized) \in Nat /\ DOMAIN serialized = 1..Len(serialized)
        /\ \A i \in 1..Len(serialized) : serialized[i] \in Xml!Nested[MaxDepth]
    BY LenProperties, ElementOfSeq
  <1>2. \A i \in 1..Len(serialized) : Visible[MaxDepth][serialized[i]] \in AllShown
    BY <1>1 DEF AllShown
  <1>3. ShownSoFar = [i \in 1..Len(serialized) |-> Visible[MaxDepth][serialized[i]]]
    BY <1>1 DEF ShownSoFar
  <1> QED
    BY <1>1, <1>2, <1>3

(* At first the stream is empty, and read as an empty document.             *)
LEMMA StreamInit == Xml!Init => StreamInv
  <1> SUFFICES ASSUME Xml!Init PROVE StreamInv
    OBVIOUS
  <1>1. elements = <<>> /\ stream = <<>> /\ serialized = <<>>
    BY DEF Xml!Init
  <1>2. ShownSoFar = <<>>
    BY <1>1 DEF ShownSoFar
  <1>3. Xml!AddChildren(Xml!Document, <<>>) = Xml!Document
    <2>1. <<>> \in Seq({})
      OBVIOUS
    <2>2. Xml!AddChildren(Xml!Document, <<>>) = Made("document", <<>>, <<>>, <<>>)
      BY <2>1, DocumentChildren
    <2> QED
      BY <2>2 DEF Xml!Document, Xml!Element, Made
  <1>4. Leads(Xml!Between(Xml!Document, <<>>), <<>>, Xml!Between(Xml!Document, <<>>))
    BY LeadsNothing
  <1> QED
    BY <1>1, <1>2, <1>3, <1>4 DEF StreamInv

(* An element that is finished is added to the stream, and to what is       *)
(* read.                                                                    *)
LEMMA FinishStep ==
    ASSUME StreamInv, Xml!Finish
    PROVE  StreamInv'
  <1> DEFINE N == Xml!Nested[MaxDepth]
             e == elements[Len(elements)]
             x == Visible[MaxDepth][e]
             t == Xml!Serialize[MaxDepth][e]
             from == Xml!Between(Xml!Document, <<>>)
             before == Xml!AddChildren(Xml!Document, ShownSoFar)
  <1>a. Texts \subseteq Seq(Characters) /\ "/" \notin Names /\ MaxDepth \in Nat
    BY XmlAssumed DEF Xml!SieXmlAssumption
  <1>1. /\ elements # <<>> /\ elements' = SubSeq(elements, 1, Len(elements) - 1)
        /\ stream' = stream \o t /\ serialized' = Append(serialized, e)
    BY DEF Xml!Finish, Xml!Front, Xml!Last
  <1>2. elements \in Seq(N) /\ serialized \in Seq(N) /\ stream \in Seq(Chars)
        /\ Leads(from, stream, Xml!Between(before, <<>>))
    BY DEF StreamInv
  <1>3. Len(elements) \in Nat \ {0} /\ e \in N
    <2> HIDE DEF N
    <2> QED
      BY <1>1, <1>2
  <1>4. elements' \in Seq(N) /\ serialized' \in Seq(N)
    <2> HIDE DEF N, e
    <2> QED
      BY <1>1, <1>2, <1>3
  <1>5. /\ t \in Seq(Chars)
        /\ \A p, o : Leads(Xml!Between(p, o), t, Xml!Between(Xml!AddChild(p, x), o))
    <2>1. LeadsNested(MaxDepth)
      BY <1>a, LeadsSerialized
    <2> HIDE DEF e
    <2> QED
      BY <1>3, <2>1, Zenon DEF LeadsNested
  <1>6. ShownSoFar \in Seq(AllShown) /\ ShownSoFar' = Append(ShownSoFar, x) /\ ShownSoFar' \in Seq(AllShown)
    <2>1. ShownSoFar \in Seq(AllShown)
      BY <1>2, ShownSoFarType
    <2>2. x \in AllShown
      BY <1>3 DEF AllShown
    <2>3. ShownSoFar' = Append(ShownSoFar, x)
      <3> DEFINE F(y) == Visible[MaxDepth][y]
                 n == Len(serialized)
      <3>1. ShownSoFar = [i \in 1..n |-> F(serialized[i])] /\ n \in Nat
        BY <1>2 DEF ShownSoFar
      <3>2. ShownSoFar' = [i \in DOMAIN serialized' |-> F(serialized'[i])]
        BY DEF ShownSoFar
      <3> HIDE DEF N, e, F
      <3>3. /\ DOMAIN serialized' = 1..(n + 1) /\ serialized'[n + 1] = e
            /\ \A i \in 1..n : serialized'[i] = serialized[i]
        BY <1>1, <1>2, <1>3
      <3>4. ShownSoFar' = [i \in 1..(n + 1) |-> IF i = n + 1 THEN F(e) ELSE F(serialized[i])]
        <4> HIDE DEF n
        <4>1. \A i \in 1..(n + 1) : i # n + 1 => i \in 1..n
          BY <3>1
        <4> QED
          BY <3>2, <3>3, <4>1
      <3>5. Len(ShownSoFar) = n
        BY <3>1, <2>1
      <3>6. Append(ShownSoFar, F(e)) = [i \in 1..(n + 1) |-> IF i = n + 1 THEN F(e) ELSE F(serialized[i])]
        <4> DEFINE s == ShownSoFar
        <4> HIDE DEF s, n
        <4>1. s \in Seq(AllShown) /\ Len(s) = n /\ n \in Nat /\ \A i \in 1..n : s[i] = F(serialized[i])
          BY <2>1, <3>1, <3>5 DEF s
        <4> DEFINE w == [i \in 1..(n + 1) |-> IF i = n + 1 THEN F(e) ELSE F(serialized[i])]
                   y == F(e)
        <4>2. y \in AllShown /\ n + 1 \in 1..(n + 1)
          BY <2>2, <4>1 DEF F
        <4>3. \A i \in 1..n : s[i] \in AllShown /\ i \in 1..(n + 1) /\ i # n + 1
          BY <4>1
        <4>4. \A i \in 1..(n + 1) : i # n + 1 => i \in 1..n
          BY <4>1
        <4>5. w[n + 1] = y /\ \A i \in 1..n : w[i] = s[i]
          BY <4>1, <4>2, <4>3
        <4>6. \A i \in 1..(n + 1) : w[i] \in AllShown
          BY <4>2, <4>3, <4>4, <4>5
        <4>7. w \in Seq(AllShown) /\ Len(w) = n + 1
          <5>1. w = [i \in 1..(n + 1) |-> w[i]] /\ n + 1 \in Nat
            BY <4>1
          <5> HIDE DEF w
          <5> QED
            BY <4>6, <5>1
        <4> HIDE DEF w, y
        <4>8. /\ Append(s, y) \in Seq(AllShown) /\ Len(Append(s, y)) = n + 1
              /\ Append(s, y)[n + 1] = y /\ \A i \in 1..n : Append(s, y)[i] = s[i]
          BY <4>1, <4>2, AppendProperties
        <4> DEFINE v == Append(s, y)
        <4> HIDE DEF v
        <4>9. v \in Seq(AllShown) /\ Len(v) = n + 1 /\ \A i \in 1..(n + 1) : v[i] = w[i]
          BY <4>4, <4>5, <4>8 DEF v
        <4>10. v = w
          BY <4>7, <4>9, SeqEqual
        <4> QED
          BY <4>10 DEF v, w, s, y
      <3> QED
        BY <3>4, <3>6 DEF F
    <2> HIDE DEF x
    <2> QED
      BY <2>1, <2>2, <2>3
  <1>7. Xml!AddChild(before, x) = Xml!AddChildren(Xml!Document, ShownSoFar')
    <2>1. before = Made("document", <<>>, ShownSoFar, <<>>)
      BY <1>6, DocumentChildren
    <2>2. Xml!AddChildren(Xml!Document, ShownSoFar') = Made("document", <<>>, ShownSoFar', <<>>)
      BY <1>6, DocumentChildren
    <2> HIDE DEF before, x
    <2>3. Xml!AddChild(Made("document", <<>>, ShownSoFar, <<>>), x)
          = Made("document", <<>>, Append(ShownSoFar, x), <<>>)
      BY MadeChanges
    <2> QED
      BY <1>6, <2>1, <2>2, <2>3
  <1> HIDE DEF N, e, x, t, from, before
  <1>8. stream' \in Seq(Chars) /\ Leads(from, stream', Xml!Between(Xml!AddChild(before, x), <<>>))
    <2>1. Leads(Xml!Between(before, <<>>), t, Xml!Between(Xml!AddChild(before, x), <<>>))
      BY <1>5, Zenon
    <2>2. stream \o t \in Seq(Chars)
      BY <1>2, <1>5, ConcatProperties
    <2>3. Leads(from, stream \o t, Xml!Between(Xml!AddChild(before, x), <<>>))
      BY <1>2, <1>5, <2>1, LeadsConcat
    <2> QED
      BY <1>1, <2>2, <2>3
  <1>9. Leads(Xml!Between(Xml!Document, <<>>), stream',
              Xml!Between(Xml!AddChildren(Xml!Document, ShownSoFar'), <<>>))
    BY <1>7, <1>8, Zenon DEF from
  <1> QED
    BY <1>4, <1>8, <1>9 DEF StreamInv, N

(* No other step changes the stream: it builds elements up to the depth.    *)
LEMMA StreamStep == StreamInv /\ [Xml!Next]_(Xml!xvars) => StreamInv'
  <1> SUFFICES ASSUME StreamInv, [Xml!Next]_(Xml!xvars)
               PROVE  StreamInv'
    OBVIOUS
  <1> DEFINE N == Xml!Nested[MaxDepth]
  <1>1. elements \in Seq(N) /\ MaxDepth \in Nat
    BY XmlAssumed DEF Xml!SieXmlAssumption, StreamInv
  <1>2. ASSUME UNCHANGED <<stream, serialized>>, elements' \in Seq(N)
        PROVE  StreamInv'
    BY <1>2 DEF StreamInv, ShownSoFar
  <1>3. ASSUME NEW e, Xml!Fluent(e)
        PROVE  StreamInv'
    <2>1. e \in N /\ elements' = Append(SubSeq(elements, 1, Len(elements) - 1), e)
          /\ UNCHANGED <<stream, serialized>>
      BY <1>3 DEF Xml!Fluent, Xml!Front
    <2>2. SubSeq(elements, 1, Len(elements) - 1) \in Seq(N)
      <3> HIDE DEF N
      <3> QED
        BY <1>1
    <2>3. elements' \in Seq(N)
      <3> HIDE DEF N
      <3> QED
        BY <2>1, <2>2
    <2> QED
      BY <1>2, <2>1, <2>3
  <1>4. ASSUME NEW name \in Names, Xml!Construct(name)
        PROVE  StreamInv'
    <2>1. Xml!Element(name) \in N /\ elements' = Append(elements, Xml!Element(name))
          /\ UNCHANGED <<stream, serialized>>
      BY <1>1, <1>4, ElementNested DEF Xml!Construct
    <2>2. elements' \in Seq(N)
      <3> HIDE DEF N
      <3> QED
        BY <1>1, <2>1
    <2> QED
      BY <1>2, <2>1, <2>2
  <1>5. ASSUME NEW name \in Names, Xml!CallAddChild(name)
        PROVE  StreamInv'
    BY <1>3, <1>5 DEF Xml!CallAddChild
  <1>6. ASSUME NEW id \in Ids, NEW text \in Texts, Xml!CallAddAttribute(id, text)
        PROVE  StreamInv'
    BY <1>3, <1>6 DEF Xml!CallAddAttribute
  <1>7. ASSUME NEW text \in Texts, Xml!CallContent(text)
        PROVE  StreamInv'
    BY <1>3, <1>7 DEF Xml!CallContent
  <1>8. CASE Xml!MoveIn
    <2>1. PICK e \in N : /\ elements' = Append(SubSeq(elements, 1, Len(elements) - 2), e)
                         /\ UNCHANGED <<stream, serialized>>
      BY <1>8 DEF Xml!MoveIn
    <2>2. elements' \in Seq(N)
      <3> HIDE DEF N
      <3>1. SubSeq(elements, 1, Len(elements) - 2) \in Seq(N)
        BY <1>1
      <3> QED
        BY <2>1, <3>1
    <2> QED
      BY <1>2, <2>1, <2>2
  <1>9. CASE Xml!Finish
    BY <1>9, FinishStep
  <1>10. CASE UNCHANGED Xml!xvars
    BY <1>1, <1>2, <1>10 DEF Xml!xvars
  <1> QED
    BY <1>4, <1>5, <1>6, <1>7, <1>8, <1>9, <1>10, Zenon DEF Xml!Next

(* A reader of the stream sees as many elements as were serialised, in      *)
(* order, whatever texts their attributes and contents hold, whatever calls *)
(* built them and however deep they are nested, as far as the bound goes;   *)
(* and it has back all those in which no element has both content and       *)
(* children.  (xml.h, element and operator<<.)                              *)
THEOREM XmlReadsBack == Xml!Spec => []ReadsBack
  <1>1. StreamInv => ReadsBack
    <2> SUFFICES ASSUME StreamInv PROVE ReadsBack
      OBVIOUS
    <2> DEFINE q == Xml!Between(Xml!AddChildren(Xml!Document, ShownSoFar), <<>>)
    <2>1. /\ stream \in Seq(Chars) /\ Leads(Xml!Between(Xml!Document, <<>>), stream, q)
          /\ serialized \in Seq(Xml!Nested[MaxDepth])
      BY DEF StreamInv
    <2>2. Xml!ReadTo[Len(stream)] = q
      <3> HIDE DEF q
      <3> QED
        BY <2>1, LeadsRead
    <2>3. q.element.children = ShownSoFar
      <3>1. Xml!AddChildren(Xml!Document, ShownSoFar) = Made("document", <<>>, ShownSoFar, <<>>)
        BY <2>1, ShownSoFarType, DocumentChildren
      <3> QED
        BY <3>1 DEF Xml!Between, Xml!Reader, Made
    <2>4. Len(ShownSoFar) = Len(serialized)
      <3>1. Len(serialized) \in Nat /\ DOMAIN serialized = 1..Len(serialized)
        BY <2>1, LenProperties
      <3> QED
        BY <3>1 DEF ShownSoFar
    <2>5. ASSUME NEW i \in DOMAIN serialized, serialized[i] \in Xml!Unmixed[MaxDepth]
          PROVE  ShownSoFar[i] = serialized[i]
      <3>1. Visible[MaxDepth][serialized[i]] = serialized[i]
        BY <2>5, UnmixedShown, XmlAssumed DEF Xml!SieXmlAssumption
      <3> QED
        BY <3>1 DEF ShownSoFar
    <2> DEFINE read == Xml!ReadTo[Len(stream)].element.children
    <2>6. read = ShownSoFar
      BY <2>2, <2>3
    <2>7. /\ Xml!ReadTo[Len(stream)] = Xml!Between(Xml!AddChildren(Xml!Document, read), <<>>)
          /\ Len(read) = Len(serialized)
          /\ \A i \in DOMAIN serialized : serialized[i] \in Xml!Unmixed[MaxDepth] => read[i] = serialized[i]
      <3> HIDE DEF read
      <3> QED
        BY <2>2, <2>4, <2>5, <2>6, Zenon
    <2> QED
      BY <2>7, Zenon DEF ReadsBack, Xml!ReadsBack
  <1> QED
    BY <1>1, StreamInit, StreamStep, PTL DEF Xml!Spec

-----------------------------------------------------------------------------
(* Scales                                                                   *)

(* TenTo is a recursive function of the exponent.                           *)
TenStep(below, n) == 10 * below
TenRec == INSTANCE Recursion WITH Base <- 1, Step <- TenStep

(* The powers of ten, one by one; they are positive, and they multiply.     *)
LEMMA TenToValues ==
    /\ Sie!TenTo[0] = 1
    /\ \A n \in Nat : Sie!TenTo[n + 1] = 10 * Sie!TenTo[n]
  <1> DEFINE Eqn(f) == f = [n \in Nat |-> IF n = 0 THEN 1 ELSE 10 * f[n - 1]]
  <1>1. \A f : TenRec!IsRecursive(f) <=> Eqn(f)
    BY Zenon DEF TenRec!IsRecursive, TenStep
  <1>2. \E f : Eqn(f)
    BY <1>1, TenRec!RecursiveExists, Zenon
  <1>3. Eqn(Sie!TenTo)
    <2>1. Sie!TenTo = CHOOSE f : Eqn(f)
      BY Zenon DEF Sie!TenTo
    <2> HIDE DEF Eqn
    <2> QED
      BY <1>2, <2>1, Zenon
  <1>4. TenRec!IsRecursive(Sie!TenTo)
    BY <1>1, <1>3, Zenon
  <1> QED
    BY <1>4, TenRec!RecursiveValues, Zenon DEF TenStep

(* A power of ten is a positive number.                                     *)
LEMMA TenToPositive == \A n \in Nat : Sie!TenTo[n] \in Nat \ {0}
  <1> DEFINE S == {n \in Nat : Sie!TenTo[n] \in Nat \ {0}}
  <1>1. 0 \in S
    BY TenToValues
  <1>2. ASSUME NEW n \in Nat, n \in S
        PROVE  n + 1 \in S
    <2> DEFINE t == Sie!TenTo[n]
    <2>1. t \in Nat \ {0}
      BY <1>2
    <2>2. Sie!TenTo[n + 1] = 10 * t
      BY TenToValues
    <2> HIDE DEF t
    <2>3. 10 * t \in Nat \ {0}
      BY <2>1
    <2> QED
      BY <2>2, <2>3
  <1>3. Nat \subseteq S
    <2> HIDE DEF S
    <2> QED
      BY <1>1, <1>2, NatRec!SetInduction
  <1> QED
    BY <1>3

(* The power of a sum is the product of the powers.                         *)
LEMMA TenToSum == \A m, n \in Nat : Sie!TenTo[m + n] = Sie!TenTo[m] * Sie!TenTo[n]
  <1> TAKE m \in Nat
  <1> DEFINE S == {n \in Nat : Sie!TenTo[m + n] = Sie!TenTo[m] * Sie!TenTo[n]}
             a == Sie!TenTo[m]
  <1>0. a \in Nat
    BY TenToPositive
  <1>1. 0 \in S
    <2>1. m + 0 = m /\ Sie!TenTo[0] = 1
      BY TenToValues
    <2>2. a * 1 = a
      BY <1>0
    <2> QED
      BY <2>1, <2>2
  <1>2. ASSUME NEW n \in Nat, n \in S
        PROVE  n + 1 \in S
    <2> DEFINE b == Sie!TenTo[n]
               c == Sie!TenTo[m + n]
    <2>1. c = a * b /\ b \in Nat /\ m + (n + 1) = (m + n) + 1
      BY <1>2, TenToPositive
    <2>2. Sie!TenTo[n + 1] = 10 * b /\ Sie!TenTo[(m + n) + 1] = 10 * c
      BY TenToValues
    <2> HIDE DEF a, b, c
    <2>3. 10 * (a * b) = a * (10 * b)
      BY <1>0, <2>1
    <2> QED
      BY <2>1, <2>2, <2>3 DEF a
  <1>3. Nat \subseteq S
    <2> HIDE DEF S
    <2> QED
      BY <1>1, <1>2, NatRec!SetInduction
  <1> QED
    BY <1>3

(* The exponent of the first digit.                                         *)
LEMMA ExponentExists ==
    ASSUME NEW num \in Nat, NEW den \in Nat, den <= num * Sie!TenTo[9]
    PROVE  \E k \in 0..9 : num * Sie!TenTo[k] >= den /\ (k = 0 \/ num * Sie!TenTo[k - 1] < den)
  <1> DEFINE P(k) == num * Sie!TenTo[k] >= den
             S == {n \in Nat : n <= 9 /\ P(n) => \E k \in 0..n : P(k) /\ (k = 0 \/ ~P(k - 1))}
  <1>t. \A k \in Nat : num * Sie!TenTo[k] \in Nat
    <2> TAKE k \in Nat
    <2> DEFINE t == Sie!TenTo[k]
    <2>1. t \in Nat
      BY TenToPositive
    <2> HIDE DEF t
    <2>2. num * t \in Nat
      BY <2>1
    <2> QED
      BY <2>2 DEF t
  <1>p. P(9)
    <2> DEFINE x == num * Sie!TenTo[9]
    <2>1. x \in Nat /\ den <= x
      BY <1>t
    <2> HIDE DEF x
    <2>2. x >= den
      BY <2>1
    <2> QED
      BY <2>2 DEF x
  <1>n. \A k \in Nat : ~P(k) => num * Sie!TenTo[k] < den
    <2> TAKE k \in Nat
    <2> DEFINE x == num * Sie!TenTo[k]
    <2>1. x \in Nat
      BY <1>t
    <2> HIDE DEF x
    <2>2. ~(x >= den) => x < den
      BY <2>1
    <2> QED
      BY <2>2 DEF x
  <1> HIDE DEF P
  <1>1. 0 \in S
    OBVIOUS
  <1>2. ASSUME NEW n \in Nat, n \in S
        PROVE  n + 1 \in S
    <2>1. SUFFICES ASSUME n + 1 <= 9, P(n + 1)
                   PROVE  \E k \in 0..(n + 1) : P(k) /\ (k = 0 \/ ~P(k - 1))
      OBVIOUS
    <2>2. CASE P(n)
      <3>1. n <= 9
        BY <2>1
      <3>2. PICK k \in 0..n : P(k) /\ (k = 0 \/ ~P(k - 1))
        BY <1>2, <2>2, <3>1
      <3>3. k \in 0..(n + 1)
        BY <3>2
      <3> QED
        BY <3>2, <3>3
    <2>3. CASE ~P(n)
      <3>1. n + 1 \in 0..(n + 1) /\ (n + 1) - 1 = n
        OBVIOUS
      <3>2. P(n + 1) /\ ~P((n + 1) - 1)
        BY <2>1, <2>3, <3>1
      <3> QED
        BY <3>1, <3>2
    <2> QED
      BY <2>2, <2>3
  <1>3. Nat \subseteq S
    <2> HIDE DEF S
    <2> QED
      BY <1>1, <1>2, NatRec!SetInduction
  <1>4. \E k \in 0..9 : P(k) /\ (k = 0 \/ ~P(k - 1))
    BY <1>p, <1>3
  <1>5. PICK k \in 0..9 : P(k) /\ (k = 0 \/ ~P(k - 1))
    BY <1>4
  <1>6. k = 0 \/ num * Sie!TenTo[k - 1] < den
    <2>1. k # 0 => k - 1 \in Nat
      OBVIOUS
    <2> QED
      BY <1>5, <1>n, <2>1
  <1> QED
    BY <1>5, <1>6 DEF P

(* Rounding errs by at most one half of the last digit.                     *)
LEMMA Rounding ==
    ASSUME NEW a \in Nat, NEW den \in Nat, den > 0
    PROVE  LET m == (2 * a + den) \div (2 * den)
           IN  m \in Nat /\ 2 * (den * m - a) <= den /\ -den <= 2 * (den * m - a)
  <1> DEFINE x == 2 * a + den
             y == 2 * den
             m == x \div y
  <1>1. x \in Nat /\ y \in Nat \ {0}
    OBVIOUS
  <1>2. m \in Nat /\ y * m <= x /\ x < y * m + y
    <2> HIDE DEF x, y
    <2> QED
      BY <1>1
  <1>3. y * m = 2 * (den * m)
    <2> HIDE DEF m, x
    <2> QED
      BY <1>2
  <1> DEFINE p == den * m
  <1>4. p \in Nat
    <2> HIDE DEF m
    <2> QED
      BY <1>2
  <1>5. 2 * p <= 2 * a + den /\ 2 * a + den < 2 * p + 2 * den
    BY <1>2, <1>3
  <1> HIDE DEF p
  <1>6. 2 * (p - a) <= den /\ -den <= 2 * (p - a)
    BY <1>4, <1>5
  <1> QED
    BY <1>2, <1>6 DEF p

(* The scale, multiplied by fewer ticks than it has digits.                 *)
LEMMA ScientificTicks ==
    ASSUME NEW num \in Nat, NEW den \in Nat, 0 < num, num <= den, den <= num * Sie!TenTo[9],
           NEW digits \in Nat, NEW t \in Int, -Sie!TenTo[digits] < t, t < Sie!TenTo[digits]
    PROVE  LET scale == Sie!Scientific(num, den, digits)
               one == num * Sie!TenTo[scale.exponent]
               off == 2 * t * (den * scale.mantissa - one)
           IN  -one < off /\ off < one
  <1> DEFINE e == CHOOSE k \in 0..9 : num * Sie!TenTo[k] >= den /\ (k = 0 \/ num * Sie!TenTo[k - 1] < den)
             a == num * Sie!TenTo[e + digits]
             m == (2 * a + den) \div (2 * den)
             b == den * m - a
             u == Sie!TenTo[digits]
  <1>1. e \in 0..9 /\ num * Sie!TenTo[e] >= den
    BY ExponentExists
  <1> HIDE DEF e
  <1>2. Sie!Scientific(num, den, digits) = [mantissa |-> m, exponent |-> e + digits]
    BY Zenon DEF Sie!Scientific, e
  <1>3. u \in Nat \ {0} /\ Sie!TenTo[e] \in Nat \ {0} /\ Sie!TenTo[e + digits] = Sie!TenTo[e] * u
    <2>1. e \in Nat
      BY <1>1
    <2>2. Sie!TenTo[e + digits] = Sie!TenTo[e] * Sie!TenTo[digits]
      BY <2>1, TenToSum, Zenon
    <2>3. Sie!TenTo[digits] \in Nat \ {0} /\ Sie!TenTo[e] \in Nat \ {0}
      BY <2>1, TenToPositive, Zenon
    <2> QED
      BY <2>2, <2>3, Zenon
  <1>4. a \in Nat /\ den * u <= a
    <2> DEFINE v == Sie!TenTo[e]
    <2>1. a = num * (v * u) /\ v \in Nat /\ num * v >= den
      BY <1>1, <1>3
    <2> HIDE DEF a, u, v
    <2> DEFINE w == num * v
    <2>2. w \in Nat /\ a = w * u
      BY <1>3, <2>1
    <2>3. w >= den
      BY <2>1
    <2> HIDE DEF w
    <2>4. w - den \in Nat /\ w * u = (w - den) * u + den * u
      BY <1>3, <2>2, <2>3
    <2> DEFINE z == (w - den) * u
    <2>5. z \in Nat /\ w * u \in Nat
      <3> DEFINE x == w - den
      <3>1. x \in Nat /\ u \in Nat
        BY <1>3, <2>4
      <3> HIDE DEF x
      <3>2. x * u \in Nat
        BY <3>1
      <3>3. w * u \in Nat
        BY <2>2, <3>1
      <3> QED
        BY <3>2, <3>3 DEF x
    <2>6. den * u \in Nat
      BY <1>3
    <2> HIDE DEF z
    <2> QED
      BY <2>2, <2>4, <2>5, <2>6 DEF z
  <1>5. m \in Nat /\ 2 * b <= den /\ -den <= 2 * b
    <2> HIDE DEF a
    <2>1. den > 0
      OBVIOUS
    <2> QED
      BY <1>4, <2>1, Rounding
  <1>6. b \in Int
    <2> HIDE DEF a, m
    <2> QED
      BY <1>4, <1>5
  <1> HIDE DEF a, m, b, u
  <1>7. -a < 2 * t * b /\ 2 * t * b < a
    <2> DEFINE s == IF t < 0 THEN -t ELSE t
               c == IF 2 * b < 0 THEN -(2 * b) ELSE 2 * b
               x == 2 * t * b
    <2>1. s \in Nat /\ c \in Nat /\ s < u /\ c <= den
      BY <1>3, <1>5, <1>6 DEF u
    <2>2. x = s * c \/ x = -(s * c)
      BY <1>6
    <2> HIDE DEF s, c, x
    <2>3. s * c <= s * den
      BY <2>1
    <2>4. s * den < u * den
      BY <1>3, <2>1
    <2>5. u * den = den * u
      BY <1>3
    <2> DEFINE sc == s * c
               sd == s * den
               ud == u * den
    <2>6. sc \in Nat /\ sd \in Nat /\ ud \in Nat
      BY <1>3, <2>1
    <2>7. sc <= sd /\ sd < ud /\ ud <= a /\ (x = sc \/ x = -sc)
      BY <1>4, <2>2, <2>3, <2>4, <2>5
    <2> HIDE DEF sc, sd, ud
    <2>8. -a < x /\ x < a
      BY <1>4, <2>6, <2>7
    <2> QED
      BY <2>8 DEF x
  <1> QED
    BY <1>2, <1>7 DEF a, b

(* Attributes made of pairs of an id and a value.                           *)
Attributes(pairs) == [i \in DOMAIN pairs |-> [id |-> pairs[i][1], value |-> pairs[i][2]]]

(* The parts of an element made of them.                                    *)
LEMMA MadeFields ==
    \A n, a, c, t :
        /\ Made(n, a, c, t).name = n /\ Made(n, a, c, t).attributes = a
        /\ Made(n, a, c, t).children = c /\ Made(n, a, c, t).content = t
  BY DEF Made

(* A new element has a name only.                                           *)
LEMMA NewElement == \A n : Sie!Element(n) = Made(n, <<>>, <<>>, <<>>)
  BY DEF Sie!Element, Made

(* What the setters of the metadata make of an element of given parts.      *)
LEMMA MoreParts ==
    \A n, a, c, t, x :
        /\ Sie!AddChildren(Made(n, a, c, t), x) = Made(n, a, c \o x, t)
        /\ Sie!AddAttributes(Made(n, a, c, t), x) = Made(n, a \o Attributes(x), c, t)
        /\ Sie!AddChild(Made(n, a, c, t), x) = Made(n, a, Append(c, x), t)
        /\ Sie!SetContent(Made(n, a, c, t), x) = Made(n, a, c, x)
        /\ \A v : Sie!AddAttribute(Made(n, a, c, t), x, v) = Made(n, Append(a, [id |-> x, value |-> v]), c, t)
  <1> TAKE n, a, c, t, x
  <1> DEFINE r == Made(n, a, c, t)
  <1>1. r.name = n /\ r.attributes = a /\ r.children = c
    BY DEF Made
  <1>2. /\ \A y : [r EXCEPT !.children = y] = Made(n, a, y, t)
        /\ \A y : [r EXCEPT !.attributes = y] = Made(n, y, c, t)
        /\ \A y : [r EXCEPT !.content = y] = Made(n, a, c, y)
    BY DEF Made
  <1> HIDE DEF r
  <1>3. Sie!AddChildren(r, x) = Made(n, a, c \o x, t)
    BY <1>1, <1>2, Zenon DEF Sie!AddChildren
  <1>4. Sie!AddAttributes(r, x) = Made(n, a \o Attributes(x), c, t)
    BY <1>1, <1>2, Zenon DEF Sie!AddAttributes, Attributes
  <1>5. Sie!AddChild(r, x) = Made(n, a, Append(c, x), t)
    BY <1>1, <1>2, Zenon DEF Sie!AddChild
  <1>6. Sie!SetContent(r, x) = Made(n, a, c, x)
    BY <1>2, Zenon DEF Sie!SetContent
  <1>7. \A v : Sie!AddAttribute(r, x, v) = Made(n, Append(a, [id |-> x, value |-> v]), c, t)
    BY <1>1, <1>2, Zenon DEF Sie!AddAttribute
  <1> QED
    BY <1>3, <1>4, <1>5, <1>6, <1>7 DEF r

(* A new element with these attributes.                                     *)
LEMMA WithAttributes ==
    ASSUME NEW n, NEW S, NEW pairs \in Seq(S)
    PROVE  Sie!AddAttributes(Sie!Element(n), pairs) = Made(n, Attributes(pairs), <<>>, <<>>)
  <1> DEFINE T == {[id |-> s[1], value |-> s[2]] : s \in S}
             f == Attributes(pairs)
  <1>1. Len(pairs) \in Nat /\ DOMAIN pairs = 1..Len(pairs) /\ \A i \in 1..Len(pairs) : pairs[i] \in S
    BY LenProperties, ElementOfSeq
  <1>2. \A i \in 1..Len(pairs) : [id |-> pairs[i][1], value |-> pairs[i][2]] \in T
    BY <1>1
  <1> HIDE DEF T
  <1>3. f = [i \in 1..Len(pairs) |-> [id |-> pairs[i][1], value |-> pairs[i][2]]]
    BY <1>1 DEF Attributes
  <1>4. f \in Seq(T)
    BY <1>1, <1>2, <1>3
  <1> HIDE DEF f
  <1>5. <<>> \o f = f
    BY <1>4, ConcatEmptySeq
  <1>6. Sie!AddAttributes(Made(n, <<>>, <<>>, <<>>), pairs) = Made(n, <<>> \o f, <<>>, <<>>)
    <2> DEFINE none == <<>>
    <2> HIDE DEF none
    <2>1. Sie!AddAttributes(Made(n, none, none, none), pairs) = Made(n, none \o Attributes(pairs), none, none)
      BY MoreParts
    <2> QED
      BY <2>1, Zenon DEF f, none
  <1>7. Sie!Element(n) = Made(n, <<>>, <<>>, <<>>)
    BY NewElement
  <1> QED
    BY <1>5, <1>6, <1>7, Zenon DEF f

(* An element without children, given these.                                *)
LEMMA WithChildren ==
    ASSUME NEW n, NEW a, NEW t, NEW S, NEW kids \in Seq(S)
    PROVE  Sie!AddChildren(Made(n, a, <<>>, t), kids) = Made(n, a, kids, t)
  <1>1. <<>> \o kids = kids
    BY ConcatEmptySeq
  <1>2. Sie!AddChildren(Made(n, a, <<>>, t), kids) = Made(n, a, <<>> \o kids, t)
    <2> DEFINE none == <<>>
    <2> HIDE DEF none
    <2>1. Sie!AddChildren(Made(n, a, none, t), kids) = Made(n, a, none \o kids, t)
      BY MoreParts
    <2> QED
      BY <2>1, Zenon DEF none
  <1> QED
    BY <1>1, <1>2, Zenon

(* An attribute is looked up by an id that no other attribute has.          *)
LEMMA AttributeValue ==
    ASSUME NEW e, NEW x, NEW j \in DOMAIN e.attributes, e.attributes[j].id = x,
           \A i \in DOMAIN e.attributes : e.attributes[i].id = x => i = j
    PROVE  Sie!Attribute(e, x) = e.attributes[j].value
  <1>1. (CHOOSE i \in DOMAIN e.attributes : e.attributes[i].id = x) = j
    OBVIOUS
  <1> QED
    BY <1>1, Zenon DEF Sie!Attribute

(* The first element of a name, if none before it has the name.             *)
LEMMA FirstNamed ==
    ASSUME NEW s, Len(s) \in Nat, NEW x, NEW j \in 1..Len(s), s[j].name = x,
           \A i \in 1..(j - 1) : s[i].name # x
    PROVE  Sie!First(x, s) = s[j]
  <1> DEFINE I == {i \in 1..Len(s) : s[i].name = x}
  <1>1. j \in I /\ I # {} /\ \A i \in I : i \in Int /\ j <= i
    <2>1. ASSUME NEW i \in I
          PROVE  i \in Int /\ j <= i
      <3>1. i \in 1..Len(s) /\ s[i].name = x
        BY <2>1
      <3>2. i \notin 1..(j - 1)
        BY <3>1
      <3> QED
        BY <3>1, <3>2
    <2> QED
      BY <2>1
  <1>2. Sie!Min(I) = j
    <2>1. Sie!Min(I) = CHOOSE y \in I : \A z \in I : y <= z
      BY Zenon DEF Sie!Min
    <2> HIDE DEF I
    <2>2. \A y \in I : (\A z \in I : y <= z) => y = j
      BY <1>1
    <2> QED
      BY <1>1, <2>1, <2>2
  <1>3. Sie!SelectInSeq(s, LAMBDA e : e.name = x) = j
    BY <1>1, <1>2 DEF Sie!SelectInSeq
  <1> QED
    BY <1>3, Zenon DEF Sie!First

-----------------------------------------------------------------------------
(* Channels and the scales a reader finds in them                           *)

(* No other of the pairs has the name of the j-th.                          *)
Alone(pairs, j) == \A i \in 1..Len(pairs) : pairs[i][1] = pairs[j][1] => i = j

(* The attribute made of a pair that is alone in its name.                  *)
LEMMA PairAttribute ==
    ASSUME NEW S, NEW n, NEW pairs \in Seq(S), NEW j \in 1..Len(pairs), Alone(pairs, j), NEW c
    PROVE  Sie!Attribute(Made(n, Attributes(pairs), c, <<>>), pairs[j][1]) = pairs[j][2]
  <1> DEFINE f == Attributes(pairs)
             e == Made(n, f, c, <<>>)
             x == pairs[j][1]
  <1>1. /\ DOMAIN f = 1..Len(pairs)
        /\ \A i \in 1..Len(pairs) : f[i].id = pairs[i][1] /\ f[i].value = pairs[i][2]
    <2>1. DOMAIN pairs = 1..Len(pairs)
      BY LenProperties
    <2> QED
      BY <2>1 DEF Attributes
  <1> HIDE DEF f
  <1>2. e.attributes = f
    BY MadeFields
  <1> HIDE DEF e
  <1>3. j \in DOMAIN e.attributes /\ e.attributes[j].id = x
        /\ \A i \in DOMAIN e.attributes : e.attributes[i].id = x => i = j
    BY <1>1, <1>2 DEF Alone
  <1> HIDE DEF x
  <1>4. Sie!Attribute(e, x) = e.attributes[j].value
    BY <1>3, AttributeValue
  <1> QED
    BY <1>1, <1>2, <1>4 DEF e, f, x

(* A transform says its scale.                                              *)
LEMMA TransformScale ==
    ASSUME NEW num, NEW den, NEW digits
    PROVE  /\ Sie!Transform(num, den, digits).name = "xform"
           /\ Sie!Attribute(Sie!Transform(num, den, digits), "scale") = Sie!Scientific(num, den, digits)
  <1> DEFINE v == Sie!Scientific(num, den, digits)
             w == Sie!Number(0)
             pairs == << <<"scale", v>>, <<"offset", w>> >>
             S == {<<"scale", v>>, <<"offset", w>>}
  <1>1. Sie!Transform(num, den, digits) = Sie!AddAttributes(Sie!Element("xform"), pairs)
    BY Zenon DEF Sie!Transform
  <1> HIDE DEF v, w
  <1>2. pairs \in Seq(S) /\ Len(pairs) = 2
    OBVIOUS
  <1>3. pairs[1][1] = "scale" /\ pairs[2][1] = "offset" /\ pairs[1][2] = v
    OBVIOUS
  <1>4. 1 \in 1..2 /\ \A i \in 1..2 : i # 1 => i = 2
    OBVIOUS
  <1> HIDE DEF pairs, S
  <1>5. Alone(pairs, 1)
    BY <1>2, <1>3, <1>4 DEF Alone
  <1>6. /\ Sie!AddAttributes(Sie!Element("xform"), pairs) = Made("xform", Attributes(pairs), <<>>, <<>>)
        /\ Sie!Attribute(Made("xform", Attributes(pairs), <<>>, <<>>), pairs[1][1]) = pairs[1][2]
    <2>1. Sie!AddAttributes(Sie!Element("xform"), pairs) = Made("xform", Attributes(pairs), <<>>, <<>>)
      BY <1>2, WithAttributes
    <2>2. 1 \in 1..Len(pairs)
      BY <1>2
    <2>3. \A c : Sie!Attribute(Made("xform", Attributes(pairs), c, <<>>), pairs[1][1]) = pairs[1][2]
      BY <1>2, <1>5, <2>2, PairAttribute
    <2> QED
      BY <2>1, <2>3, Zenon
  <1>7. Made("xform", Attributes(pairs), <<>>, <<>>).name = "xform"
    BY MadeFields
  <1> QED
    BY <1>1, <1>3, <1>6, <1>7 DEF v

(* The attributes and children of a channel.                                *)
LEMMA ChannelParts ==
    ASSUME NEW id, NEW group, NEW name, NEW S, NEW kids \in Seq(S)
    PROVE  LET ch == Sie!AddChildren(Sie!Channel(id, group, name), kids)
           IN  ch.children = kids /\ Sie!Attribute(ch, "group") = group
  <1> DEFINE pairs == << <<"id", id>>, <<"group", group>>, <<"name", name>> >>
             T == {<<"id", id>>, <<"group", group>>, <<"name", name>>}
             a == Attributes(pairs)
  <1>1. Sie!Channel(id, group, name) = Sie!AddAttributes(Sie!Element("ch"), pairs)
    BY Zenon DEF Sie!Channel
  <1>2. pairs \in Seq(T) /\ Len(pairs) = 3
    OBVIOUS
  <1>3. pairs[1][1] = "id" /\ pairs[2][1] = "group" /\ pairs[3][1] = "name" /\ pairs[2][2] = group
    OBVIOUS
  <1>4. 2 \in 1..3 /\ \A i \in 1..3 : i # 2 => i = 1 \/ i = 3
    OBVIOUS
  <1> HIDE DEF pairs, T
  <1>5. Alone(pairs, 2)
    BY <1>2, <1>3, <1>4 DEF Alone
  <1>6. /\ Sie!AddAttributes(Sie!Element("ch"), pairs) = Made("ch", a, <<>>, <<>>)
        /\ \A c : Sie!Attribute(Made("ch", a, c, <<>>), pairs[2][1]) = pairs[2][2]
    <2>1. Sie!AddAttributes(Sie!Element("ch"), pairs) = Made("ch", Attributes(pairs), <<>>, <<>>)
      BY <1>2, WithAttributes
    <2>2. 2 \in 1..Len(pairs)
      BY <1>2
    <2>3. \A c : Sie!Attribute(Made("ch", Attributes(pairs), c, <<>>), pairs[2][1]) = pairs[2][2]
      BY <1>2, <1>5, <2>2, PairAttribute
    <2> QED
      BY <2>1, <2>3, Zenon
  <1> HIDE DEF a
  <1>7. Sie!AddChildren(Made("ch", a, <<>>, <<>>), kids) = Made("ch", a, kids, <<>>)
    BY WithChildren
  <1>8. Made("ch", a, kids, <<>>).children = kids
    BY MadeFields
  <1> QED
    BY <1>1, <1>3, <1>6, <1>7, <1>8

(* A dimension that has a scale.                                            *)
TimeDimension(d, decoder) ==
    Sie!AddChildren(Sie!Dimension(0),
        << Sie!TickResolutionToTransform(d), Sie!Data(decoder, 0), Sie!Units("unit") >>)

(* A dimension is a dim and has the children it is given.                   *)
LEMMA DimensionMade ==
    ASSUME NEW k, NEW S, NEW kids \in Seq(S)
    PROVE  LET dim == Sie!AddChildren(Sie!Dimension(k), kids)
           IN  dim.name = "dim" /\ dim.children = kids
  <1> DEFINE none == <<>>
             a == Append(none, [id |-> "index", value |-> k])
  <1>1. Sie!Dimension(k) = Made("dim", a, none, none)
    <2>1. Sie!Element("dim") = Made("dim", none, none, none)
      BY NewElement
    <2> HIDE DEF none
    <2>2. \A v : Sie!AddAttribute(Made("dim", none, none, none), "index", v)
                 = Made("dim", Append(none, [id |-> "index", value |-> v]), none, none)
      BY MoreParts
    <2> QED
      BY <2>1, <2>2, Zenon DEF Sie!Dimension
  <1> HIDE DEF a
  <1>2. Sie!AddChildren(Made("dim", a, none, none), kids) = Made("dim", a, kids, none)
    BY WithChildren
  <1> QED
    BY <1>1, <1>2, MadeFields

(* The time dimension has the scale of its descriptor.                      *)
LEMMA TimeDimensionScale ==
    ASSUME NEW d, NEW decoder
    PROVE  /\ TimeDimension(d, decoder).name = "dim"
           /\ Sie!Attribute(Sie!First("xform", TimeDimension(d, decoder).children), "scale")
                = Sie!Scientific(d.num, d.den, DIGITS)
  <1> DEFINE x == Sie!TickResolutionToTransform(d)
             y == Sie!Data(decoder, 0)
             z == Sie!Units("unit")
             kids == <<x, y, z>>
             S == {x, y, z}
  <1>1. TimeDimension(d, decoder) = Sie!AddChildren(Sie!Dimension(0), kids)
    BY DEF TimeDimension
  <1>2. x.name = "xform" /\ Sie!Attribute(x, "scale") = Sie!Scientific(d.num, d.den, DIGITS)
    BY TransformScale DEF Sie!TickResolutionToTransform
  <1> HIDE DEF x, y, z
  <1>3. kids \in Seq(S) /\ Len(kids) = 3 /\ kids[1] = x
    OBVIOUS
  <1> HIDE DEF kids, S
  <1>4. TimeDimension(d, decoder).name = "dim" /\ TimeDimension(d, decoder).children = kids
    BY <1>1, <1>3, DimensionMade
  <1>5. Sie!First("xform", kids) = kids[1]
    <2>1. Len(kids) \in Nat /\ 1 \in 1..Len(kids) /\ kids[1].name = "xform" /\ \A i \in 1..(1 - 1) : FALSE
      BY <1>2, <1>3
    <2> QED
      BY <2>1, FirstNamed
  <1> QED
    BY <1>2, <1>3, <1>4, <1>5

(* A tag is no dimension.                                                   *)
LEMMA TagName == \A id, v : Sie!Tag(id, v).name = "tag"
  <1> TAKE id, v
  <1> DEFINE none == <<>>
             a == Append(none, [id |-> "id", value |-> id])
  <1>1. Sie!Element("tag") = Made("tag", none, none, none)
    BY NewElement
  <1> HIDE DEF none
  <1>2. Sie!AddAttribute(Made("tag", none, none, none), "id", id) = Made("tag", a, none, none)
    <2>1. \A w : Sie!AddAttribute(Made("tag", none, none, none), "id", w)
                 = Made("tag", Append(none, [id |-> "id", value |-> w]), none, none)
      BY MoreParts
    <2> QED
      BY <2>1, Zenon
  <1> HIDE DEF a
  <1>3. Sie!SetContent(Made("tag", a, none, none), v) = Made("tag", a, none, v)
    BY MoreParts
  <1> QED
    BY <1>1, <1>2, <1>3, MadeFields DEF Sie!Tag

(* What TicksReadBack looks up in a channel.                                *)
ReadsScale(ch, g, d) ==
    /\ Sie!Attribute(ch, "group") = g
    /\ Sie!Attribute(Sie!First("xform", Sie!First("dim", ch.children).children), "scale")
         = Sie!Scientific(d.num, d.den, DIGITS)

(* The first dim of a scalar channel is its time dimension.                 *)
LEMMA ScalarChannelScale ==
    ASSUME NEW d, NEW id, NEW g, NEW decoder
    PROVE  ReadsScale(Sie!ScalarChannel(d, id, g, decoder), g, d)
  <1> DEFINE c1 == Sie!Tag("core:uuid", "uuid")
             c2 == Sie!Tag("data_type", Sie!SieReadType(d.type))
             c3 == Sie!Tag("somat:data_format", Sie!SieFormat(d.type))
             c4 == Sie!Tag("somat:data_bits", Sie!SieBits(d.type))
             c5 == Sie!Tag("core:schema", "somat:sequential")
             c6 == TimeDimension(d, decoder)
             c7 == Sie!AddChildren(Sie!Dimension(1),
                       << Sie!Data(decoder, 1), Sie!Units("unit"), Sie!Tag("FS_Min", "low"), Sie!Tag("FS_Max", "high") >>)
             kids == <<c1, c2, c3, c4, c5, c6, c7>>
             S == {c1, c2, c3, c4, c5, c6, c7}
             ch == Sie!ScalarChannel(d, id, g, decoder)
  <1>1. ch = Sie!AddChildren(Sie!Channel(id, g, "name"), kids)
    BY Zenon DEF Sie!ScalarChannel, TimeDimension
  <1>2. c1.name = "tag" /\ c2.name = "tag" /\ c3.name = "tag" /\ c4.name = "tag" /\ c5.name = "tag"
    BY TagName, Zenon
  <1>3. c6.name = "dim" /\ Sie!Attribute(Sie!First("xform", c6.children), "scale") = Sie!Scientific(d.num, d.den, DIGITS)
    BY TimeDimensionScale, Zenon
  <1> HIDE DEF c1, c2, c3, c4, c5, c6, c7, ch
  <1>4. /\ kids \in Seq(S) /\ Len(kids) = 7
        /\ kids[1] = c1 /\ kids[2] = c2 /\ kids[3] = c3 /\ kids[4] = c4 /\ kids[5] = c5 /\ kids[6] = c6
    OBVIOUS
  <1> HIDE DEF kids, S
  <1>5. Sie!First("dim", kids) = kids[6]
    <2>1. \A i \in 1..(6 - 1) : i = 1 \/ i = 2 \/ i = 3 \/ i = 4 \/ i = 5
      OBVIOUS
    <2>2. \A i \in 1..(6 - 1) : kids[i].name = "tag"
      BY <1>2, <1>4, <2>1
    <2>3. Len(kids) \in Nat /\ 6 \in 1..Len(kids) /\ kids[6].name = "dim" /\ "tag" # "dim"
      BY <1>3, <1>4
    <2> QED
      BY <2>2, <2>3, FirstNamed
  <1>6. ch.children = kids /\ Sie!Attribute(ch, "group") = g
    BY <1>1, <1>4, ChannelParts
  <1> QED
    BY <1>3, <1>4, <1>5, <1>6 DEF ReadsScale, ch

(* The first dim of a CAN channel is its time dimension: it comes before    *)
(* those of the fields, however many they are.                              *)
LEMMA CanChannelScale ==
    ASSUME NEW d, NEW T, d.fields \in Seq(T), NEW id, NEW g, NEW decoder
    PROVE  ReadsScale(Sie!CanChannel(d, id, g, decoder), g, d)
  <1> DEFINE c1 == Sie!Tag("core:description", "Raw CAN messages")
             c2 == Sie!Tag("data_type", "message_can")
             c3 == Sie!Tag("core:schema", "somat:message")
             c4 == TimeDimension(d, decoder)
             first == <<c1, c2, c3, c4>>
             dim(k) == Sie!AddChildren(Sie!Dimension(k), << Sie!Tag("openDAQ:fieldName", "field"), Sie!Data(decoder, k) >>)
             rest == [k \in DOMAIN d.fields |-> dim(k)]
             S == {c1, c2, c3, c4} \cup {dim(k) : k \in Nat}
             kids == first \o rest
             ch == Sie!CanChannel(d, id, g, decoder)
  <1>1. ch = Sie!AddChildren(Sie!Channel(id, g, "name"), kids)
    BY Zenon DEF Sie!CanChannel, TimeDimension
  <1>2. c1.name = "tag" /\ c2.name = "tag" /\ c3.name = "tag"
    BY TagName, Zenon
  <1>3. c4.name = "dim" /\ Sie!Attribute(Sie!First("xform", c4.children), "scale") = Sie!Scientific(d.num, d.den, DIGITS)
    BY TimeDimensionScale, Zenon
  <1> HIDE DEF c1, c2, c3, c4, ch, dim
  <1>4. /\ first \in Seq(S) /\ Len(first) = 4
        /\ first[1] = c1 /\ first[2] = c2 /\ first[3] = c3 /\ first[4] = c4
    <2> HIDE DEF rest, kids
    <2>1. c1 \in S /\ c2 \in S /\ c3 \in S /\ c4 \in S
      OBVIOUS
    <2> HIDE DEF S
    <2> QED
      BY <2>1
  <1>5. rest \in Seq(S)
    <2>1. Len(d.fields) \in Nat /\ DOMAIN d.fields = 1..Len(d.fields)
      BY LenProperties
    <2>2. \A k \in 1..Len(d.fields) : dim(k) \in S
      BY <2>1
    <2>3. rest = [k \in 1..Len(d.fields) |-> dim(k)]
      BY <2>1
    <2> HIDE DEF S, rest
    <2> QED
      BY <2>1, <2>2, <2>3
  <1> HIDE DEF first, rest, S
  <1>6. /\ kids \in Seq(S) /\ Len(kids) \in Nat /\ 4 <= Len(kids)
        /\ kids[1] = c1 /\ kids[2] = c2 /\ kids[3] = c3 /\ kids[4] = c4
    <2>1. /\ kids \in Seq(S) /\ Len(kids) = Len(first) + Len(rest)
          /\ \A k \in 1..(Len(first) + Len(rest)) :
                 kids[k] = IF k <= Len(first) THEN first[k] ELSE rest[k - Len(first)]
      BY <1>4, <1>5, ConcatProperties, Zenon
    <2> HIDE DEF kids
    <2>2. Len(rest) \in Nat
      BY <1>5, LenProperties
    <2>3. \A k \in 1..4 : k \in 1..(Len(first) + Len(rest)) /\ k <= Len(first)
      BY <1>4, <2>2
    <2>4. \A k \in 1..4 : kids[k] = first[k]
      BY <2>1, <2>3, Zenon
    <2>5. 1 \in 1..4 /\ 2 \in 1..4 /\ 3 \in 1..4 /\ 4 \in 1..4
      OBVIOUS
    <2> QED
      BY <1>4, <2>1, <2>2, <2>4, <2>5
  <1> HIDE DEF kids
  <1>7. Sie!First("dim", kids) = kids[4]
    <2>1. \A i \in 1..(4 - 1) : i = 1 \/ i = 2 \/ i = 3
      OBVIOUS
    <2>2. \A i \in 1..(4 - 1) : kids[i].name = "tag"
      BY <1>2, <1>6, <2>1
    <2>3. Len(kids) \in Nat /\ 4 \in 1..Len(kids) /\ kids[4].name = "dim" /\ "tag" # "dim"
      BY <1>3, <1>6
    <2> QED
      BY <2>2, <2>3, FirstNamed
  <1>8. ch.children = kids /\ Sie!Attribute(ch, "group") = g
    BY <1>1, <1>6, ChannelParts
  <1> QED
    BY <1>3, <1>6, <1>7, <1>8 DEF ReadsScale, ch

-----------------------------------------------------------------------------
(* The metadata as handlers declare it                                      *)

(* The channels and elements written for the handlers that were declared.   *)
ChannelsFor(da) ==
    {Sie!ScalarChannel(da[g], c, g, k) : g \in DOMAIN da, c \in Nat, k \in Nat}
        \cup {Sie!CanChannel(da[g], c, g, k) : g \in DOMAIN da, c \in Nat, k \in Nat}

(* The elements that hold them, and the decoders.                           *)
ElementsFor(da) ==
    {Sie!ScalarDecoder(da[g], k) : g \in DOMAIN da, k \in Nat}
        \cup {Sie!CanDecoder(da[g], k) : g \in DOMAIN da, k \in Nat}
        \cup {Sie!AddChild(Sie!Test(0), ch) : ch \in ChannelsFor(da)}

(* One more handler: the earlier elements remain, and its own are added.    *)
LEMMA ElementsForMore ==
    ASSUME NEW da, NEW g, g \notin DOMAIN da, NEW d
    PROVE  LET new == Sie!With(da, g, d)
           IN  /\ ElementsFor(da) \subseteq ElementsFor(new)
               /\ \A k \in Nat : Sie!ScalarDecoder(d, k) \in ElementsFor(new)
               /\ \A k \in Nat : Sie!CanDecoder(d, k) \in ElementsFor(new)
               /\ \A c, k \in Nat :
                      /\ Sie!AddChild(Sie!Test(0), Sie!ScalarChannel(d, c, g, k)) \in ElementsFor(new)
                      /\ Sie!AddChild(Sie!Test(0), Sie!CanChannel(d, c, g, k)) \in ElementsFor(new)
  <1> DEFINE new == Sie!With(da, g, d)
  <1>1. /\ DOMAIN new = DOMAIN da \cup {g} /\ new[g] = d
        /\ \A h \in DOMAIN da : new[h] = da[h]
    BY DEF Sie!With
  <1> HIDE DEF new
  <1>2. ChannelsFor(da) \subseteq ChannelsFor(new)
    BY <1>1 DEF ChannelsFor
  <1>3. \A c, k \in Nat : Sie!ScalarChannel(d, c, g, k) \in ChannelsFor(new)
                          /\ Sie!CanChannel(d, c, g, k) \in ChannelsFor(new)
    BY <1>1 DEF ChannelsFor
  <1>4. ElementsFor(da) \subseteq ElementsFor(new)
    BY <1>1, <1>2 DEF ElementsFor
  <1>5. \A k \in Nat : Sie!ScalarDecoder(d, k) \in ElementsFor(new) /\ Sie!CanDecoder(d, k) \in ElementsFor(new)
    BY <1>1 DEF ElementsFor
  <1>6. \A c, k \in Nat :
            /\ Sie!AddChild(Sie!Test(0), Sie!ScalarChannel(d, c, g, k)) \in ElementsFor(new)
            /\ Sie!AddChild(Sie!Test(0), Sie!CanChannel(d, c, g, k)) \in ElementsFor(new)
    BY <1>3 DEF ElementsFor
  <1> QED
    BY <1>4, <1>5, <1>6 DEF new

(* A decoder is no test.                                                    *)
LEMMA DecoderName ==
    \A d, k : Sie!ScalarDecoder(d, k).name = "decoder" /\ Sie!CanDecoder(d, k).name = "decoder"
  <1> TAKE d, k
  <1> DEFINE none == <<>>
             a == Append(none, [id |-> "id", value |-> k])
  <1>1. Sie!Decoder(k) = Made("decoder", a, none, none)
    <2>1. Sie!Element("decoder") = Made("decoder", none, none, none)
      BY NewElement
    <2> HIDE DEF none
    <2>2. \A v : Sie!AddAttribute(Made("decoder", none, none, none), "id", v)
                 = Made("decoder", Append(none, [id |-> "id", value |-> v]), none, none)
      BY MoreParts
    <2> QED
      BY <2>1, <2>2, Zenon DEF Sie!Decoder
  <1> HIDE DEF a, none
  <1>2. \A x : Sie!AddChildren(Sie!Decoder(k), x).name = "decoder"
    <2> TAKE x
    <2>1. Sie!AddChildren(Made("decoder", a, none, none), x) = Made("decoder", a, none \o x, none)
      BY MoreParts
    <2> QED
      BY <1>1, <2>1, MadeFields
  <1>3. \E x : Sie!ScalarDecoder(d, k) = Sie!AddChildren(Sie!Decoder(k), x)
    BY Zenon DEF Sie!ScalarDecoder
  <1>4. \E x : Sie!CanDecoder(d, k) = Sie!AddChildren(Sie!Decoder(k), x)
    BY Zenon DEF Sie!CanDecoder
  <1> QED
    BY <1>2, <1>3, <1>4, Zenon

(* The channels that an element of the metadata brings.                     *)
ChannelsIn(e) == IF e.name = "test" THEN e.children ELSE <<>>

(* A test has one channel, that of a declared handler.                      *)
LEMMA ElementChannels ==
    ASSUME NEW da, NEW e \in ElementsFor(da)
    PROVE  ChannelsIn(e) \in Seq(ChannelsFor(da))
  <1>1. CASE e.name = "decoder"
    <2>1. ChannelsIn(e) = <<>>
      BY <1>1 DEF ChannelsIn
    <2> QED
      BY <2>1
  <1>2. ASSUME NEW ch \in ChannelsFor(da), e = Sie!AddChild(Sie!Test(0), ch)
        PROVE  ChannelsIn(e) \in Seq(ChannelsFor(da))
    <2> DEFINE none == <<>>
               a == Append(none, [id |-> "id", value |-> 0])
               one == Append(none, ch)
    <2>1. Sie!Test(0) = Made("test", a, none, none)
      <3>1. Sie!Element("test") = Made("test", none, none, none)
        BY NewElement
      <3> HIDE DEF none
      <3>2. \A v : Sie!AddAttribute(Made("test", none, none, none), "id", v)
                   = Made("test", Append(none, [id |-> "id", value |-> v]), none, none)
        BY MoreParts
      <3> QED
        BY <3>1, <3>2, Zenon DEF Sie!Test
    <2>2. one \in Seq(ChannelsFor(da))
      BY <1>2
    <2> HIDE DEF a, none
    <2>3. Sie!AddChild(Made("test", a, none, none), ch) = Made("test", a, one, none)
      BY MoreParts
    <2> HIDE DEF one
    <2>4. e.name = "test" /\ e.children = one
      BY <1>2, <2>1, <2>3, MadeFields
    <2> QED
      BY <2>2, <2>4 DEF ChannelsIn
  <1>3. e.name = "decoder" \/ \E ch \in ChannelsFor(da) : e = Sie!AddChild(Sie!Test(0), ch)
    BY DecoderName DEF ElementsFor
  <1> QED
    BY <1>1, <1>2, <1>3

-----------------------------------------------------------------------------
(* Samples: a tick and what was sampled.                                    *)
TimedSamples == {x \in Seq(Int) : x # <<>>}

(* Every element of the metadata is one of those that a declared handler    *)
(* wrote, a group is declared once, and the samples sent have ticks.        *)
TicksInv ==
    /\ next.channel \in Nat /\ next.decoder \in Nat /\ next.group \in Nat
    /\ values \in Nat
    /\ \A g \in DOMAIN declaredAs : g \in Nat /\ g < next.group /\ declaredAs[g] \in Descriptors
    /\ DOMAIN sent = DOMAIN declaredAs
    /\ \A g \in DOMAIN sent : sent[g] \in Seq(TimedSamples)
    /\ handler \in [Signals -> {Sie!NoHandler} \cup DOMAIN declaredAs]
    /\ metadata \in Seq(ElementsFor(declaredAs))

(* At first nothing is declared.                                            *)
LEMMA TicksInit == Sie!Init => TicksInv
  <1> SUFFICES ASSUME Sie!Init PROVE TicksInv
    OBVIOUS
  <1>1. DOMAIN declaredAs = {} /\ DOMAIN sent = {} /\ metadata = <<>>
    BY DEF Sie!Init
  <1>2. next.channel \in Nat /\ next.decoder \in Nat /\ next.group \in Nat /\ values \in Nat
    BY DEF Sie!Init
  <1>3. handler \in [Signals -> {Sie!NoHandler} \cup DOMAIN declaredAs]
    BY DEF Sie!Init
  <1>4. metadata \in Seq(ElementsFor(declaredAs))
    BY <1>1
  <1> QED
    BY <1>1, <1>2, <1>3, <1>4 DEF TicksInv

(* What is assumed of a descriptor.                                         *)
LEMMA DescriptorFacts ==
    ASSUME NEW d \in Descriptors
    PROVE  /\ d.start \in Int /\ d.delta \in Int /\ d.num \in Nat /\ d.den \in Nat
           /\ 0 < d.num /\ d.num <= d.den /\ d.den <= d.num * Sie!TenTo[9]
           /\ d.fields \in Seq(Sie!Range(d.fields))
  BY SamplesAssumed DEF Sie!SieSamplesAssumption

(* The constructor of a handler writes a decoder and a test of its own      *)
(* group, or nothing.                                                       *)
LEMMA ConstructTicks ==
    ASSUME TicksInv, NEW s \in Signals, NEW d \in Descriptors, Sie!Construct(s, d)
    PROVE  TicksInv'
  <1> DEFINE g == next.group
             E == ElementsFor(Sie!With(declaredAs, g, d))
  <1>1. /\ next'.channel = next.channel + 1 /\ next'.decoder = next.decoder + 1 /\ next'.group = g + 1
        /\ declaredAs' = Sie!With(declaredAs, g, d) /\ sent' = Sie!With(sent, g, <<>>)
        /\ values' = values
    BY DEF Sie!Construct, Sie!AllocateIds
  <1>2. handler' = [handler EXCEPT ![s] = g] \/ handler' = [handler EXCEPT ![s] = Sie!NoHandler]
    BY DEF Sie!Construct
  <1>3. \/ metadata' = metadata
        \/ metadata' = metadata \o << Sie!ScalarDecoder(d, next.decoder),
               Sie!AddChild(Sie!Test(0), Sie!ScalarChannel(d, next.channel, g, next.decoder)) >>
        \/ metadata' = metadata \o << Sie!CanDecoder(d, next.decoder),
               Sie!AddChild(Sie!Test(0), Sie!CanChannel(d, next.channel, g, next.decoder)) >>
    BY DEF Sie!Construct
  <1>4. g \in Nat /\ next.channel \in Nat /\ next.decoder \in Nat /\ g \notin DOMAIN declaredAs
        /\ DOMAIN sent = DOMAIN declaredAs
    BY DEF TicksInv
  <1>5. /\ DOMAIN declaredAs' = DOMAIN declaredAs \cup {g} /\ declaredAs'[g] = d
        /\ \A h \in DOMAIN declaredAs : declaredAs'[h] = declaredAs[h] /\ h # g
    BY <1>1, <1>4 DEF Sie!With
  <1>6. /\ DOMAIN sent' = DOMAIN sent \cup {g} /\ sent'[g] = <<>>
        /\ \A h \in DOMAIN sent : sent'[h] = sent[h]
    BY <1>1, <1>4 DEF Sie!With
  <1>7. next'.channel \in Nat /\ next'.decoder \in Nat /\ next'.group \in Nat /\ values' \in Nat
    BY <1>1, <1>4 DEF TicksInv
  <1>8. \A h \in DOMAIN declaredAs' : h \in Nat /\ h < next'.group /\ declaredAs'[h] \in Descriptors
    <2> TAKE h \in DOMAIN declaredAs'
    <2>1. CASE h = g
      BY <1>1, <1>4, <1>5, <2>1
    <2>2. CASE h # g
      <3>1. h \in DOMAIN declaredAs
        BY <1>5, <2>2
      <3>2. h \in Nat /\ h < g /\ declaredAs[h] \in Descriptors
        BY <3>1 DEF TicksInv
      <3> QED
        BY <1>1, <1>4, <1>5, <3>1, <3>2
    <2> QED
      BY <2>1, <2>2
  <1>9. /\ DOMAIN sent' = DOMAIN declaredAs'
        /\ \A h \in DOMAIN sent' : sent'[h] \in Seq(TimedSamples)
    <2>1. <<>> \in Seq(TimedSamples)
      OBVIOUS
    <2> QED
      BY <1>4, <1>5, <1>6, <2>1 DEF TicksInv
  <1>10. handler' \in [Signals -> {Sie!NoHandler} \cup DOMAIN declaredAs']
    <2>1. handler \in [Signals -> {Sie!NoHandler} \cup DOMAIN declaredAs]
      BY DEF TicksInv
    <2> HIDE DEF g
    <2> QED
      BY <1>2, <1>5, <2>1
  <1>11. metadata' \in Seq(ElementsFor(declaredAs'))
    <2> DEFINE D1 == Sie!ScalarDecoder(d, next.decoder)
               T1 == Sie!AddChild(Sie!Test(0), Sie!ScalarChannel(d, next.channel, g, next.decoder))
               D2 == Sie!CanDecoder(d, next.decoder)
               T2 == Sie!AddChild(Sie!Test(0), Sie!CanChannel(d, next.channel, g, next.decoder))
    <2>1. ElementsFor(declaredAs) \subseteq E /\ D1 \in E /\ T1 \in E /\ D2 \in E /\ T2 \in E
      BY <1>4, ElementsForMore
    <2>2. metadata \in Seq(ElementsFor(declaredAs))
      BY DEF TicksInv
    <2> HIDE DEF E, D1, T1, D2, T2
    <2>3. metadata \in Seq(E)
      BY <2>1, <2>2
    <2>4. <<D1, T1>> \in Seq(E) /\ <<D2, T2>> \in Seq(E)
      BY <2>1
    <2>5. metadata \o <<D1, T1>> \in Seq(E) /\ metadata \o <<D2, T2>> \in Seq(E)
      BY <2>3, <2>4, ConcatProperties
    <2>6. metadata' = metadata \/ metadata' = metadata \o <<D1, T1>> \/ metadata' = metadata \o <<D2, T2>>
      BY <1>3 DEF D1, T1, D2, T2
    <2>7. metadata' \in Seq(E)
      BY <2>3, <2>5, <2>6
    <2> QED
      BY <1>1, <2>7 DEF E
  <1> QED
    BY <1>7, <1>8, <1>9, <1>10, <1>11 DEF TicksInv

(* The samples of a packet have ticks.                                      *)
LEMMA PacketSamplesType ==
    ASSUME values \in Nat, NEW d \in Descriptors, NEW p \in Sie!Packets
    PROVE  Sie!PacketSamples(d, p) \in Seq(TimedSamples)
  <1> DEFINE scalar(k) == <<p.offset + d.start + (k - 1) * d.delta, values + k>>
             fields(k) == [f \in DOMAIN d.fields |-> values + k]
             can(k) == <<p.offset + k>> \o fields(k)
             sample(k) == IF d.kind = "scalar" THEN scalar(k) ELSE can(k)
  <1>1. p.offset \in Nat /\ p.count \in Nat
    BY SamplesAssumed DEF Sie!SieSamplesAssumption, Sie!Packets
  <1>2. d.start \in Int /\ d.delta \in Int /\ d.fields \in Seq(Sie!Range(d.fields))
    BY DescriptorFacts
  <1>3. Sie!PacketSamples(d, p) = [k \in 1..p.count |-> sample(k)]
    BY Zenon DEF Sie!PacketSamples
  <1>4. ASSUME NEW k \in 1..p.count
        PROVE  sample(k) \in TimedSamples
    <2>1. k \in Int
      BY <1>1
    <2>2. scalar(k) \in TimedSamples
      <3> DEFINE x == p.offset + d.start + (k - 1) * d.delta
                 y == values + k
      <3>1. x \in Int /\ y \in Int
        <4> DEFINE z == d.delta
        <4>1. z \in Int /\ k - 1 \in Int
          BY <1>2, <2>1
        <4> HIDE DEF z
        <4>2. (k - 1) * z \in Int
          BY <4>1
        <4> QED
          BY <1>1, <1>2, <2>1, <4>2 DEF z
      <3> HIDE DEF x, y
      <3>2. <<x, y>> \in Seq(Int) /\ <<x, y>> # <<>>
        BY <3>1
      <3> QED
        BY <3>2 DEF TimedSamples, x, y
    <2>3. can(k) \in TimedSamples
      <3> DEFINE x == p.offset + k
                 y == fields(k)
      <3>1. <<x>> \in Seq(Int) /\ Len(<<x>>) = 1
        BY <1>1, <2>1
      <3>2. y \in Seq(Int)
        <4>1. Len(d.fields) \in Nat /\ DOMAIN d.fields = 1..Len(d.fields)
          BY <1>2, LenProperties
        <4>2. y = [f \in 1..Len(d.fields) |-> values + k] /\ values + k \in Int
          BY <2>1, <4>1
        <4> HIDE DEF y
        <4> QED
          BY <4>1, <4>2
      <3> HIDE DEF y
      <3> DEFINE u == <<x>>
      <3> HIDE DEF x, u
      <3>3. u \o y \in Seq(Int) /\ Len(u \o y) = Len(u) + Len(y)
        BY <3>1, <3>2, ConcatProperties DEF u
      <3>4. Len(y) \in Nat /\ Len(u) = 1
        BY <3>1, <3>2, LenProperties DEF u
      <3> DEFINE v == u \o y
      <3> HIDE DEF v
      <3>5. v \in Seq(Int) /\ Len(v) # 0
        BY <3>3, <3>4 DEF v
      <3>6. v # <<>>
        BY <3>5
      <3> QED
        BY <3>5, <3>6 DEF TimedSamples, v, u, x, y
    <2> HIDE DEF scalar, can
    <2> QED
      BY <2>2, <2>3
  <1> HIDE DEF sample
  <1>5. [k \in 1..p.count |-> sample(k)] \in Seq(TimedSamples)
    BY <1>1, <1>4
  <1> QED
    BY <1>3, <1>5

(* A packet adds samples and leaves the metadata alone.                     *)
LEMMA PacketTicks ==
    ASSUME TicksInv, NEW s \in Signals, NEW p \in Sie!Packets, Sie!Packet(s, p)
    PROVE  TicksInv'
  <1> DEFINE g == handler[s]
             d == declaredAs[g]
             more == Sie!PacketSamples(d, p)
  <1>1. /\ UNCHANGED <<next, handler, metadata, declaredAs>>
        /\ values' = (values \div 10 + 1) * 10 /\ g # Sie!NoHandler
        /\ (sent' = sent \/ sent' = [sent EXCEPT ![g] = sent[g] \o more])
    BY DEF Sie!Packet
  <1>2. handler \in [Signals -> {Sie!NoHandler} \cup DOMAIN declaredAs] /\ values \in Nat
        /\ DOMAIN sent = DOMAIN declaredAs
    BY DEF TicksInv
  <1>3. g \in DOMAIN declaredAs
    BY <1>1, <1>2
  <1>4. d \in Descriptors /\ sent[g] \in Seq(TimedSamples)
    BY <1>2, <1>3 DEF TicksInv
  <1>5. more \in Seq(TimedSamples)
    BY <1>2, <1>4, PacketSamplesType
  <1>6. values' \in Nat
    BY <1>1, <1>2
  <1> HIDE DEF more, d
  <1> DEFINE new == sent[g] \o more
  <1>7. new \in Seq(TimedSamples)
    BY <1>4, <1>5, ConcatProperties
  <1>8. DOMAIN sent' = DOMAIN sent /\ \A h \in DOMAIN sent : sent'[h] \in Seq(TimedSamples)
    <2>1. \A h \in DOMAIN sent : sent[h] \in Seq(TimedSamples)
      BY DEF TicksInv
    <2> HIDE DEF g, new
    <2>2. sent' = sent \/ sent' = [sent EXCEPT ![g] = new]
      BY <1>1 DEF new
    <2> QED
      BY <1>7, <2>1, <2>2
  <1> QED
    BY <1>1, <1>2, <1>6, <1>8 DEF TicksInv

(* No step breaks the invariant.                                            *)
LEMMA TicksStep == TicksInv /\ [Sie!Next]_(Sie!svars) => TicksInv'
  <1> SUFFICES ASSUME TicksInv, [Sie!Next]_(Sie!svars)
               PROVE  TicksInv'
    OBVIOUS
  <1>1. CASE UNCHANGED Sie!svars
    BY <1>1 DEF Sie!svars, TicksInv
  <1>2. ASSUME NEW s \in Signals, NEW d \in Descriptors, Sie!Construct(s, d)
        PROVE  TicksInv'
    BY <1>2, ConstructTicks
  <1>3. ASSUME NEW s \in Signals, NEW p \in Sie!Packets, Sie!Packet(s, p)
        PROVE  TicksInv'
    BY <1>3, PacketTicks
  <1> QED
    BY <1>1, <1>2, <1>3, Zenon DEF Sie!Next

(* Every channel in the metadata has the scale of its descriptor.           *)
LEMMA ChannelsDeclared ==
    ASSUME TicksInv, NEW i \in DOMAIN Sie!Channels
    PROVE  \E g \in DOMAIN declaredAs : ReadsScale(Sie!Channels[i], g, declaredAs[g])
  <1> DEFINE parts == [j \in DOMAIN metadata |-> ChannelsIn(metadata[j])]
             C == ChannelsFor(declaredAs)
  <1>1. metadata \in Seq(ElementsFor(declaredAs))
    BY DEF TicksInv
  <1>2. Len(metadata) \in Nat /\ DOMAIN metadata = 1..Len(metadata)
        /\ \A j \in 1..Len(metadata) : metadata[j] \in ElementsFor(declaredAs)
    BY <1>1, LenProperties, ElementOfSeq
  <1>3. \A j \in 1..Len(metadata) : ChannelsIn(metadata[j]) \in Seq(C)
    BY <1>2, ElementChannels
  <1>4. parts \in Seq(Seq(C))
    <2>1. parts = [j \in 1..Len(metadata) |-> ChannelsIn(metadata[j])]
      BY <1>2
    <2> HIDE DEF parts, C
    <2> QED
      BY <1>2, <1>3, <2>1
  <1>5. Sie!Channels = Xml!FlattenSeq(parts)
    <2>1. Sie!Channels = Sie!FlattenSeq(parts)
      BY Zenon DEF Sie!Channels, ChannelsIn
    <2> HIDE DEF parts
    <2>2. Sie!FlattenSeq(parts) = Xml!FlattenSeq(parts)
      BY Zenon DEF Sie!FlattenSeq, Xml!FlattenSeq
    <2> QED
      BY <2>1, <2>2
  <1> HIDE DEF parts
  <1>6. Sie!Channels \in Seq(C)
    <2> HIDE DEF C
    <2>1. PICK f : /\ \A j \in 0..Len(parts) : f[j] \in Seq(C)
                   /\ f[Len(parts)] = Xml!FlattenSeq(parts)
      BY <1>4, FlattenSeqPrefixes
    <2>2. Len(parts) \in 0..Len(parts)
      BY <1>4
    <2> QED
      BY <1>5, <2>1, <2>2
  <1> DEFINE ch == Sie!Channels[i]
  <1>7. ch \in C
    <2> HIDE DEF C
    <2> QED
      BY <1>6
  <1> HIDE DEF ch
  <1>8. \E g \in DOMAIN declaredAs, c \in Nat, k \in Nat :
            \/ ch = Sie!ScalarChannel(declaredAs[g], c, g, k)
            \/ ch = Sie!CanChannel(declaredAs[g], c, g, k)
    BY <1>7 DEF ChannelsFor
  <1>9. PICK g \in DOMAIN declaredAs, c \in Nat, k \in Nat :
            \/ ch = Sie!ScalarChannel(declaredAs[g], c, g, k)
            \/ ch = Sie!CanChannel(declaredAs[g], c, g, k)
    BY <1>8
  <1> DEFINE d == declaredAs[g]
  <1>10. d.fields \in Seq(Sie!Range(d.fields))
    <2>1. d \in Descriptors
      BY DEF TicksInv
    <2> QED
      BY <2>1, DescriptorFacts
  <1> HIDE DEF d
  <1>11. ReadsScale(Sie!ScalarChannel(d, c, g, k), g, d) /\ ReadsScale(Sie!CanChannel(d, c, g, k), g, d)
    BY <1>10, ScalarChannelScale, CanChannelScale
  <1>12. ReadsScale(ch, g, d)
    BY <1>9, <1>11 DEF d
  <1> QED
    BY <1>12 DEF ch, d

(* The scale written for a channel, of DIGITS digits after the point,       *)
(* puts every tick less than 10^DIGITS ticks from the origin, on either     *)
(* side of it, nearer to its own place than half a tick: for any            *)
(* descriptors, any samples, and handlers and packets in any order.         *)
(* (scalar_signal_handler.h and can_signal_handler.h, the constructors;     *)
(* sie_file.h, transform.)                                                  *)
THEOREM SamplesTicksReadBack == Sie!Spec => []TicksReadBack
  <1>1. TicksInv => TicksReadBack
    <2> SUFFICES ASSUME TicksInv, NEW i \in DOMAIN Sie!Channels
                 PROVE  LET g == Sie!Attribute(Sie!Channels[i], "group")
                            d == declaredAs[g]
                            scale == Sie!Attribute(Sie!First("xform", Sie!First("dim", Sie!Channels[i].children).children), "scale")
                            one == d.num * Sie!TenTo[scale.exponent]
                            written_1 == d.den * scale.mantissa
                            off(t) == 2 * t * (written_1 - one)
                        IN  \A k \in DOMAIN sent[g] :
                               LET t == sent[g][k][1]
                               IN  -Sie!TenTo[DIGITS] < t /\ t < Sie!TenTo[DIGITS] => -one < off(t) /\ off(t) < one
      BY Zenon DEF TicksReadBack, Sie!TicksReadBack
    <2>1. PICK g \in DOMAIN declaredAs : ReadsScale(Sie!Channels[i], g, declaredAs[g])
      BY ChannelsDeclared
    <2> DEFINE d == declaredAs[g]
               ch == Sie!Channels[i]
               scale == Sie!Scientific(d.num, d.den, DIGITS)
    <2>2. /\ Sie!Attribute(ch, "group") = g
          /\ Sie!Attribute(Sie!First("xform", Sie!First("dim", ch.children).children), "scale") = scale
      BY <2>1 DEF ReadsScale
    <2>3. DIGITS \in Nat /\ d \in Descriptors
      BY SamplesAssumed DEF Sie!SieSamplesAssumption, TicksInv
    <2>4. /\ d.num \in Nat /\ d.den \in Nat
          /\ 0 < d.num /\ d.num <= d.den /\ d.den <= d.num * Sie!TenTo[9]
      BY <2>3, DescriptorFacts
    <2>5. ASSUME NEW k \in DOMAIN sent[g]
          PROVE  sent[g][k][1] \in Int
      <3>1. sent[g] \in Seq(TimedSamples)
        BY DEF TicksInv
      <3>2. sent[g][k] \in TimedSamples
        BY <2>5, <3>1
      <3> DEFINE x == sent[g][k]
      <3> HIDE DEF x
      <3>3. x \in Seq(Int) /\ x # <<>>
        BY <3>2 DEF TimedSamples, x
      <3>4. x[1] \in Int
        BY <3>3
      <3> QED
        BY <3>4 DEF x
    <2>6. ASSUME NEW t \in Int, -Sie!TenTo[DIGITS] < t, t < Sie!TenTo[DIGITS]
          PROVE  /\ -(d.num * Sie!TenTo[scale.exponent])
                      < 2 * t * (d.den * scale.mantissa - d.num * Sie!TenTo[scale.exponent])
                 /\ 2 * t * (d.den * scale.mantissa - d.num * Sie!TenTo[scale.exponent])
                      < d.num * Sie!TenTo[scale.exponent]
      BY <2>3, <2>4, <2>6, ScientificTicks
    <2> HIDE DEF scale, d, ch
    <2> QED
      BY <2>2, <2>5, <2>6, Zenon DEF d, ch
  <1> QED
    BY <1>1, TicksInit, TicksStep, PTL DEF Sie!Spec

-----------------------------------------------------------------------------
(* Bytes: concatenations from the last part to the first                    *)

(* g[i] is the concatenation of parts[i] to parts[n].                       *)
IsConcat(g, n, parts) ==
    g = [i \in Nat |-> IF i > n THEN <<>> ELSE parts[i] \o g[i + 1]]

(* There is such a function: it is built from the last part to the first.   *)
LEMMA ConcatExists ==
    ASSUME NEW n \in Nat, NEW parts
    PROVE  \E g : IsConcat(g, n, parts)
  <1> DEFINE Step(g, i) == IF i > n THEN <<>> ELSE parts[i] \o g[i + 1]
             Good(g, m) == /\ g = [i \in Nat |-> g[i]]
                           /\ \A i \in Nat : i + m > n => g[i] = Step(g, i)
             S == {m \in Nat : \E g : Good(g, m)}
  <1>1. 0 \in S
    <2>1. Good([i \in Nat |-> <<>>], 0)
      OBVIOUS
    <2> QED
      BY <2>1
  <1>2. ASSUME NEW m \in Nat, m \in S
        PROVE  m + 1 \in S
    <2>1. PICK g : Good(g, m)
      BY <1>2
    <2> DEFINE h == [i \in Nat |-> IF i + m = n THEN parts[i] \o g[i + 1] ELSE g[i]]
    <2>2. h = [i \in Nat |-> h[i]]
      OBVIOUS
    <2>3. ASSUME NEW i \in Nat, i + (m + 1) > n
          PROVE  h[i] = Step(h, i)
      <3>1. i + 1 \in Nat /\ (i + 1) + m # n
        BY <2>3
      <3>2. h[i + 1] = g[i + 1]
        BY <3>1
      <3>3. CASE i + m = n
        <4>1. ~(i > n) /\ i \in Nat
          BY <2>3, <3>3
        <4>2. h[i] = parts[i] \o g[i + 1]
          BY <4>1, <3>3, Zenon
        <4> QED
          BY <3>2, <4>1, <4>2, Zenon
      <3>4. CASE i + m # n
        <4>1. i + m > n
          BY <2>3, <3>4
        <4>2. g[i] = Step(g, i)
          BY <2>1, <4>1
        <4> QED
          BY <3>2, <3>4, <4>2
      <3> QED
        BY <3>3, <3>4
    <2>4. Good(h, m + 1)
      BY <2>2, <2>3, Zenon
    <2> HIDE DEF h, Good
    <2> QED
      BY <2>4
  <1>3. n + 1 \in S
    <2> HIDE DEF S
    <2>1. Nat \subseteq S
      BY <1>1, <1>2, NatRec!SetInduction
    <2> QED
      BY <2>1
  <1>4. PICK g : Good(g, n + 1)
    BY <1>3
  <1>5. ASSUME NEW i \in Nat
        PROVE  g[i] = Step(g, i)
    <2>1. i + (n + 1) > n
      BY <1>5
    <2> QED
      BY <1>4, <1>5, <2>1, Zenon
  <1>6. g = [i \in Nat |-> Step(g, i)]
    BY <1>4, <1>5
  <1> QED
    BY <1>6 DEF IsConcat

(* What two concatenations have in common from k on depends only on their   *)
(* parts from k on.                                                         *)
LEMMA ConcatAgree ==
    ASSUME NEW n \in Nat, NEW k \in Nat, NEW p, NEW q, NEW g, NEW h,
           IsConcat(g, n, p), IsConcat(h, n, q),
           \A i \in Nat : i >= k /\ i <= n => p[i] = q[i]
    PROVE  \A i \in Nat : i >= k => g[i] = h[i]
  <1> DEFINE Equal(m) == \A i \in Nat : i >= k /\ i + m > n => g[i] = h[i]
             S == {m \in Nat : Equal(m)}
  <1>g. ASSUME NEW i \in Nat
        PROVE  g[i] = IF i > n THEN <<>> ELSE p[i] \o g[i + 1]
    BY <1>g, Zenon DEF IsConcat
  <1>h. ASSUME NEW i \in Nat
        PROVE  h[i] = IF i > n THEN <<>> ELSE q[i] \o h[i + 1]
    BY <1>h, Zenon DEF IsConcat
  <1>1. /\ \A i \in Nat : i > n => g[i] = <<>> /\ h[i] = <<>>
        /\ \A i \in Nat : i <= n => g[i] = p[i] \o g[i + 1] /\ h[i] = q[i] \o h[i + 1]
    <2>1. \A i \in Nat : i <= n => ~(i > n)
      OBVIOUS
    <2> QED
      BY <1>g, <1>h, <2>1, Zenon
  <1>2. 0 \in S
    <2>1. \A i \in Nat : i + 0 > n => i > n
      OBVIOUS
    <2>2. Equal(0)
      BY <1>1, <2>1, Zenon
    <2> QED
      BY <2>2
  <1>3. ASSUME NEW m \in Nat, m \in S
        PROVE  m + 1 \in S
    <2>1. Equal(m)
      BY <1>3
    <2>2. ASSUME NEW i \in Nat, i >= k, i + (m + 1) > n
          PROVE  g[i] = h[i]
      <3>1. i + 1 \in Nat /\ i + 1 >= k /\ (i + 1) + m > n
        BY <2>2
      <3>2. g[i + 1] = h[i + 1]
        BY <2>1, <3>1, Zenon
      <3>3. CASE i > n
        BY <1>1, <2>2, <3>3, Zenon
      <3>4. CASE i <= n
        <4>1. p[i] = q[i]
          BY <2>2, <3>4, Zenon
        <4> QED
          BY <1>1, <2>2, <3>2, <3>4, <4>1, Zenon
      <3> QED
        BY <2>2, <3>3, <3>4
    <2>3. Equal(m + 1)
      BY <2>2, Zenon
    <2> HIDE DEF Equal
    <2> QED
      BY <2>3
  <1>4. Nat \subseteq S
    <2> HIDE DEF S
    <2> QED
      BY <1>2, <1>3, NatRec!SetInduction
  <1>5. ASSUME NEW i \in Nat, i >= k
        PROVE  g[i] = h[i]
    <2>1. n + 1 \in S
      <3> HIDE DEF S
      <3>1. n + 1 \in Nat
        OBVIOUS
      <3> QED
        BY <1>4, <3>1
    <2>2. Equal(n + 1)
      BY <2>1
    <2>3. i + (n + 1) > n
      BY <1>5
    <2> QED
      BY <1>5, <2>2, <2>3, Zenon
  <1> QED
    BY <1>5, Zenon

(* A concatenation of sequences is a sequence.                              *)
LEMMA ConcatType ==
    ASSUME NEW n \in Nat, NEW k \in Nat, NEW T, NEW p, NEW g, IsConcat(g, n, p),
           \A i \in Nat : i >= k /\ i <= n => p[i] \in Seq(T)
    PROVE  \A i \in Nat : i >= k => g[i] \in Seq(T)
  <1> DEFINE Typed(m) == \A i \in Nat : i >= k /\ i + m > n => g[i] \in Seq(T)
             S == {m \in Nat : Typed(m)}
  <1>g. ASSUME NEW i \in Nat
        PROVE  g[i] = IF i > n THEN <<>> ELSE p[i] \o g[i + 1]
    BY <1>g, Zenon DEF IsConcat
  <1>1. /\ \A i \in Nat : i > n => g[i] = <<>>
        /\ \A i \in Nat : i <= n => g[i] = p[i] \o g[i + 1]
    <2>1. \A i \in Nat : i <= n => ~(i > n)
      OBVIOUS
    <2> QED
      BY <1>g, <2>1, Zenon
  <1>2. 0 \in S
    <2>1. \A i \in Nat : i + 0 > n => i > n
      OBVIOUS
    <2>2. <<>> \in Seq(T)
      BY EmptySeq
    <2>3. Typed(0)
      BY <1>1, <2>1, <2>2, Zenon
    <2> QED
      BY <2>3
  <1>3. ASSUME NEW m \in Nat, m \in S
        PROVE  m + 1 \in S
    <2>1. Typed(m)
      BY <1>3
    <2>2. ASSUME NEW i \in Nat, i >= k, i + (m + 1) > n
          PROVE  g[i] \in Seq(T)
      <3>1. i + 1 \in Nat /\ i + 1 >= k /\ (i + 1) + m > n
        BY <2>2
      <3>2. g[i + 1] \in Seq(T)
        BY <2>1, <3>1, Zenon
      <3>3. CASE i > n
        <4>1. g[i] = <<>>
          BY <1>1, <2>2, <3>3, Zenon
        <4> QED
          BY <4>1, EmptySeq
      <3>4. CASE i <= n
        <4>1. p[i] \in Seq(T)
          BY <2>2, <3>4, Zenon
        <4>2. g[i] = p[i] \o g[i + 1]
          BY <1>1, <2>2, <3>4, Zenon
        <4> QED
          BY <3>2, <4>1, <4>2, ConcatProperties
      <3> QED
        BY <2>2, <3>3, <3>4
    <2>3. Typed(m + 1)
      BY <2>2, Zenon
    <2> HIDE DEF Typed
    <2> QED
      BY <2>3
  <1>4. Nat \subseteq S
    <2> HIDE DEF S
    <2> QED
      BY <1>2, <1>3, NatRec!SetInduction
  <1>5. ASSUME NEW i \in Nat, i >= k
        PROVE  g[i] \in Seq(T)
    <2>1. n + 1 \in S
      <3> HIDE DEF S
      <3>1. n + 1 \in Nat
        OBVIOUS
      <3> QED
        BY <1>4, <3>1
    <2>2. Typed(n + 1)
      BY <2>1
    <2>3. i + (n + 1) > n
      BY <1>5
    <2> QED
      BY <1>5, <2>2, <2>3, Zenon
  <1> QED
    BY <1>5, Zenon

-----------------------------------------------------------------------------
(* What writev is given and what the call holds are concatenations.         *)

Parts == [i \in Nat |-> Bytes(i)]
Whole(i) == [j \in 1..lengths[i] |-> <<i, j>>]
WholeParts == [i \in Nat |-> Whole(i)]

LEMMA GatherConcat == Len(lengths) \in Nat => IsConcat(Gather, Len(lengths), Parts)
  <1> SUFFICES ASSUME Len(lengths) \in Nat
               PROVE  IsConcat(Gather, Len(lengths), Parts)
    OBVIOUS
  <1> DEFINE Eqn(g) == g = [i \in Nat |-> IF i > Len(lengths) THEN <<>>
                                          ELSE Bytes(i) \o g[i + 1]]
  <1>1. \A g : IsConcat(g, Len(lengths), Parts) <=> Eqn(g)
    <2>1. \A i \in Nat : Parts[i] = Bytes(i)
      BY Zenon DEF Parts
    <2>2. ASSUME NEW g
          PROVE  [i \in Nat |-> IF i > Len(lengths) THEN <<>> ELSE Parts[i] \o g[i + 1]]
                 = [i \in Nat |-> IF i > Len(lengths) THEN <<>> ELSE Bytes(i) \o g[i + 1]]
      BY <2>1, Zenon
    <2> QED
      BY <2>2, Zenon DEF IsConcat
  <1>2. \E g : Eqn(g)
    BY <1>1, ConcatExists, Zenon
  <1>3. Eqn(Gather)
    <2>1. Gather = CHOOSE g : Eqn(g)
      BY Zenon DEF Gather
    <2> HIDE DEF Eqn
    <2> QED
      BY <1>2, <2>1, Zenon
  <1> QED
    BY <1>1, <1>3, Zenon

-----------------------------------------------------------------------------
(* The inductive invariant.                                                 *)

Byte == Nat \X Nat

(* s without its first w bytes.                                             *)
Drop(s, w) == SubSeq(s, w + 1, Len(s))

IsFirstPart(s, t) == Len(s) <= Len(t) /\ s = SubSeq(t, 1, Len(s))

(* Each segment is cut at its front only, and none before it is reached.    *)
SegmentsInv ==
    /\ lengths \in Seq(Nat)
    /\ base \in [Segments -> Nat] /\ left \in [Segments -> Nat]
    /\ \A i \in Segments : base[i] + left[i] = lengths[i]

(* current_segment stays in the array while bytes are to be accounted for.  *)
CursorInv ==
    /\ form \in {"posix", "fallback"}
    /\ current \in 1..(Len(lengths) + 1)
    /\ written \in Nat
    /\ pc \in {"write", "account", "done", "threw"}
    /\ pc = "account" <=> written > 0
    /\ pc = "done" => current = Len(lengths) + 1

(* What is in the file and what the segments still describe, but for the    *)
(* bytes written and not yet accounted for, are together the call.          *)
FileInv ==
    /\ file \in Seq(Byte)
    /\ written <= Len(Gather[current])
    /\ IF pc = "threw" THEN IsFirstPart(file, Payload)
                       ELSE file \o Drop(Gather[current], written) = Payload

WriteInv ==
    /\ lengths \in Calls
    /\ SegmentsInv
    /\ CursorInv
    /\ FileInv

-----------------------------------------------------------------------------
(* Taking and dropping bytes                                                *)

LEMMA DropIsSeq ==
    ASSUME NEW T, NEW s \in Seq(T), NEW w \in 0..Len(s)
    PROVE  /\ Drop(s, w) \in Seq(T)
           /\ Len(Drop(s, w)) = Len(s) - w
           /\ \A i \in 1..(Len(s) - w) : Drop(s, w)[i] = s[w + i]
  <1>1. Len(s) \in Nat
    BY LenProperties
  <1>2. \A i \in (w + 1)..Len(s) : s[i] \in T
    BY <1>1, ElementOfSeq
  <1>3. /\ SubSeq(s, w + 1, Len(s)) \in Seq(T)
        /\ Len(SubSeq(s, w + 1, Len(s))) = IF w + 1 <= Len(s) THEN Len(s) - (w + 1) + 1 ELSE 0
        /\ \A i \in 1..(Len(s) - (w + 1) + 1) :
              SubSeq(s, w + 1, Len(s))[i] = s[(w + 1) + i - 1]
    <2>1. w + 1 \in Int /\ Len(s) \in Int
      BY <1>1
    <2> QED
      BY <1>2, <2>1, SubSeqProperties
  <1> HIDE DEF Drop
  <1>4. Len(s) - (w + 1) + 1 = Len(s) - w /\ \A i \in Nat : (w + 1) + i - 1 = w + i
    BY <1>1
  <1>5. Len(Drop(s, w)) = Len(s) - w
    BY <1>1, <1>3 DEF Drop
  <1>6. ASSUME NEW i \in 1..(Len(s) - w)
        PROVE  Drop(s, w)[i] = s[w + i]
    BY <1>1, <1>3, <1>4, <1>6 DEF Drop
  <1> QED
    BY <1>3, <1>5, <1>6 DEF Drop

LEMMA DropNothing ==
    ASSUME NEW T, NEW s \in Seq(T)
    PROVE  Drop(s, 0) = s
  BY SubSeqFull, LenProperties DEF Drop

(* Taking n bytes and dropping them are complementary.                      *)
LEMMA TakeAndDrop ==
    ASSUME NEW T, NEW s \in Seq(T), NEW n \in 0..Len(s)
    PROVE  /\ SubSeq(s, 1, n) \in Seq(T)
           /\ Len(SubSeq(s, 1, n)) = n
           /\ SubSeq(s, 1, n) \o Drop(s, n) = s
  <1>1. Len(s) \in Nat
    BY LenProperties
  <1>2. \A i \in 1..n : s[i] \in T
    BY <1>1, ElementOfSeq
  <1>3. /\ SubSeq(s, 1, n) \in Seq(T)
        /\ Len(SubSeq(s, 1, n)) = n
    BY <1>1, <1>2, SubSeqProperties
  <1>4. SubSeq(s, 1, n) \o SubSeq(s, n + 1, Len(s)) = SubSeq(s, 1, Len(s))
    <2>1. /\ 1 \in 1..(Len(s) + 1) /\ n \in (1 - 1)..Len(s)
          /\ Len(s) \in n..Len(s)
      BY <1>1
    <2> QED
      BY <2>1, ConcatAdjacentSubSeq
  <1> QED
    BY <1>3, <1>4, SubSeqFull DEF Drop

(* Bytes dropped from a concatenation come from its first part while it     *)
(* lasts, ...                                                               *)
LEMMA DropWithin ==
    ASSUME NEW T, NEW s \in Seq(T), NEW t \in Seq(T), NEW w \in 0..Len(s)
    PROVE  Drop(s \o t, w) = Drop(s, w) \o t
  <1>1. Len(s) \in Nat /\ Len(t) \in Nat
    BY LenProperties
  <1> DEFINE u == s \o t
             d == Drop(s, w)
  <1>2. /\ u \in Seq(T) /\ Len(u) = Len(s) + Len(t)
        /\ \A i \in 1..(Len(s) + Len(t)) : u[i] = IF i <= Len(s) THEN s[i] ELSE t[i - Len(s)]
    BY ConcatProperties
  <1>3. /\ d \in Seq(T) /\ Len(d) = Len(s) - w
        /\ \A i \in 1..(Len(s) - w) : d[i] = s[w + i]
    BY DropIsSeq
  <1>4. /\ d \o t \in Seq(T) /\ Len(d \o t) = Len(d) + Len(t)
        /\ \A i \in 1..(Len(d) + Len(t)) : (d \o t)[i] = IF i <= Len(d) THEN d[i] ELSE t[i - Len(d)]
    BY <1>3, ConcatProperties
  <1> HIDE DEF u, d
  <1>5. w \in 0..Len(u)
    BY <1>1, <1>2
  <1>6. /\ Drop(u, w) \in Seq(T) /\ Len(Drop(u, w)) = Len(u) - w
        /\ \A i \in 1..(Len(u) - w) : Drop(u, w)[i] = u[w + i]
    <2>1. u \in Seq(T)
      BY <1>2
    <2> QED
      BY ONLY <1>5, <2>1, DropIsSeq
  <1>7. Len(Drop(u, w)) = Len(d \o t)
    BY <1>1, <1>2, <1>3, <1>4, <1>6
  <1>8. ASSUME NEW i \in 1..Len(Drop(u, w))
        PROVE  Drop(u, w)[i] = (d \o t)[i]
    <2>1. i \in Nat /\ 1 <= i /\ i <= Len(s) + Len(t) - w /\ w + i \in 1..(Len(s) + Len(t))
      BY <1>1, <1>2, <1>6, <1>8
    <2>2. Drop(u, w)[i] = u[w + i]
      BY <1>6, <1>8
    <2>3. u[w + i] = IF w + i <= Len(s) THEN s[w + i] ELSE t[(w + i) - Len(s)]
      BY <1>2, <2>1
    <2>4. (d \o t)[i] = IF i <= Len(d) THEN d[i] ELSE t[i - Len(d)]
      BY <1>4, <1>7, <1>8
    <2>5. CASE w + i <= Len(s)
      <3>1. i <= Len(d) /\ i \in 1..(Len(s) - w)
        BY <1>1, <1>3, <2>1, <2>5
      <3>2. d[i] = s[w + i]
        BY <1>3, <3>1
      <3> QED
        BY <2>2, <2>3, <2>4, <2>5, <3>1, <3>2, Zenon
    <2>6. CASE ~(w + i <= Len(s))
      <3>1. ~(i <= Len(d)) /\ i - Len(d) = (w + i) - Len(s)
        BY <1>1, <1>3, <2>1, <2>6
      <3> QED
        BY <2>2, <2>3, <2>4, <2>6, <3>1, Zenon
    <2> QED
      BY <2>5, <2>6
  <1>9. Drop(u, w) = d \o t
    BY <1>4, <1>6, <1>7, <1>8, SeqEqual
  <1> QED
    BY <1>9 DEF u, d

(* ... and from the rest then.                                              *)
LEMMA DropBeyond ==
    ASSUME NEW T, NEW s \in Seq(T), NEW t \in Seq(T), NEW w \in Nat,
           Len(s) <= w, w <= Len(s) + Len(t)
    PROVE  Drop(s \o t, w) = Drop(t, w - Len(s))
  <1>1. Len(s) \in Nat /\ Len(t) \in Nat
    BY LenProperties
  <1> DEFINE u == s \o t
             v == w - Len(s)
  <1>2. /\ u \in Seq(T) /\ Len(u) = Len(s) + Len(t)
        /\ \A i \in 1..(Len(s) + Len(t)) : u[i] = IF i <= Len(s) THEN s[i] ELSE t[i - Len(s)]
    BY ConcatProperties
  <1>3. v \in 0..Len(t) /\ v = w - Len(s)
    BY <1>1
  <1> HIDE DEF u, v
  <1>5. w \in 0..Len(u)
    BY <1>1, <1>2
  <1>6. /\ Drop(u, w) \in Seq(T) /\ Len(Drop(u, w)) = Len(u) - w
        /\ \A i \in 1..(Len(u) - w) : Drop(u, w)[i] = u[w + i]
    <2>1. u \in Seq(T)
      BY <1>2
    <2> QED
      BY ONLY <1>5, <2>1, DropIsSeq
  <1>7. /\ Drop(t, v) \in Seq(T) /\ Len(Drop(t, v)) = Len(t) - v
        /\ \A i \in 1..(Len(t) - v) : Drop(t, v)[i] = t[v + i]
    BY <1>3, DropIsSeq
  <1>8. Len(Drop(u, w)) = Len(Drop(t, v))
    BY <1>1, <1>2, <1>3, <1>6, <1>7
  <1>9. ASSUME NEW i \in 1..Len(Drop(u, w))
        PROVE  Drop(u, w)[i] = Drop(t, v)[i]
    <2>1. /\ w + i \in 1..(Len(s) + Len(t)) /\ ~(w + i <= Len(s))
          /\ (w + i) - Len(s) = v + i
      BY <1>1, <1>2, <1>3, <1>6, <1>9
    <2>2. Drop(u, w)[i] = u[w + i]
      BY <1>6, <1>9
    <2>3. u[w + i] = t[v + i]
      BY <1>2, <2>1
    <2>4. Drop(t, v)[i] = t[v + i]
      BY <1>7, <1>8, <1>9
    <2> QED
      BY <2>2, <2>3, <2>4
  <1>10. Drop(u, w) = Drop(t, v)
    BY <1>6, <1>7, <1>8, <1>9, SeqEqual
  <1> QED
    BY <1>10 DEF u, v

(* A sequence is a first part of its concatenation with any other.          *)
LEMMA ConcatStarts ==
    ASSUME NEW T, NEW s \in Seq(T), NEW t \in Seq(T)
    PROVE  IsFirstPart(s, s \o t)
  <1>1. Len(s) \in Nat /\ Len(t) \in Nat
    BY LenProperties
  <1> DEFINE u == s \o t
  <1>2. /\ u \in Seq(T) /\ Len(u) = Len(s) + Len(t)
        /\ \A i \in 1..(Len(s) + Len(t)) : u[i] = IF i <= Len(s) THEN s[i] ELSE t[i - Len(s)]
    BY ConcatProperties
  <1> HIDE DEF u
  <1>3. Len(s) <= Len(u) /\ Len(s) \in 0..Len(u)
    BY <1>1, <1>2
  <1>4. SubSeq(u, 1, Len(s)) \in Seq(T) /\ Len(SubSeq(u, 1, Len(s))) = Len(s)
    BY <1>2, <1>3, TakeAndDrop
  <1>5. ASSUME NEW i \in 1..Len(s)
        PROVE  s[i] = SubSeq(u, 1, Len(s))[i]
    <2>1. SubSeq(u, 1, Len(s))[i] = u[1 + i - 1]
      <3>1. \A j \in 1..Len(s) : u[j] \in T
        <4>1. \A j \in 1..Len(s) : j \in 1..Len(u)
          BY <1>1, <1>2
        <4> QED
          BY <1>2, <4>1, ElementOfSeq
      <3>2. i \in 1..(Len(s) - 1 + 1)
        BY <1>1, <1>5
      <3>3. 1 \in Int /\ Len(s) \in Int
        BY <1>1
      <3> QED
        BY <3>1, <3>2, <3>3, SubSeqProperties
    <2>2. 1 + i - 1 = i /\ i \in 1..(Len(s) + Len(t)) /\ i <= Len(s)
      BY <1>1, <1>5
    <2> QED
      BY <1>2, <2>1, <2>2
  <1>6. s = SubSeq(u, 1, Len(s))
    BY <1>4, <1>5, SeqEqual
  <1> QED
    BY <1>3, <1>6 DEF IsFirstPart, u

-----------------------------------------------------------------------------
(* The bytes that the segments describe and those of the call               *)

GatherOK ==
    /\ Len(lengths) \in Nat
    /\ \A i \in Nat : i >= 1 => Gather[i] \in Seq(Byte)
    /\ Gather[Len(lengths) + 1] = <<>>
    /\ \A i \in Segments : /\ Bytes(i) \in Seq(Byte)
                           /\ Len(Bytes(i)) = left[i]
                           /\ Gather[i] = Bytes(i) \o Gather[i + 1]

LEMMA SegmentsAreNumbered ==
    ASSUME lengths \in Seq(Nat)
    PROVE  /\ Len(lengths) \in Nat
           /\ Segments = 1..Len(lengths)
           /\ \A i \in Segments : i \in Nat /\ lengths[i] \in Nat
  BY LenProperties, ElementOfSeq DEF Segments

LEMMA GatherIsSeq == SegmentsInv => GatherOK
  <1> SUFFICES ASSUME SegmentsInv
               PROVE  GatherOK
    OBVIOUS
  <1>1. /\ Len(lengths) \in Nat
        /\ Segments = 1..Len(lengths)
    BY SegmentsAreNumbered DEF SegmentsInv
  <1>2. IsConcat(Gather, Len(lengths), Parts)
    BY <1>1, GatherConcat
  <1>3. ASSUME NEW i \in Nat
        PROVE  Gather[i] = IF i > Len(lengths) THEN <<>> ELSE Parts[i] \o Gather[i + 1]
    BY <1>2, <1>3, Zenon DEF IsConcat
  <1>4. \A i \in Nat : Parts[i] = Bytes(i)
    BY Zenon DEF Parts
  <1>5. ASSUME NEW i \in Segments
        PROVE  Bytes(i) \in Seq(Byte) /\ Len(Bytes(i)) = left[i]
    <2>1. left[i] \in Nat /\ base[i] \in Nat /\ i \in Nat
      BY <1>1, <1>5 DEF SegmentsInv
    <2>2. \A j \in 1..left[i] : <<i, base[i] + j>> \in Byte
      BY <2>1 DEF Byte
    <2> QED
      BY <2>1, <2>2 DEF Bytes
  <1>6. ASSUME NEW i \in Nat, i >= 1
        PROVE  Gather[i] \in Seq(Byte)
    <2>1. ASSUME NEW j \in Nat, j >= 1, j <= Len(lengths)
          PROVE  Parts[j] \in Seq(Byte)
      <3>1. j \in Segments
        BY <1>1, <2>1
      <3> QED
        BY <1>4, <1>5, <2>1, <3>1
    <2>2. PICK k \in Nat : k = 1
      OBVIOUS
    <2>3. \A j \in Nat : j >= k /\ j <= Len(lengths) => Parts[j] \in Seq(Byte)
      BY <2>1, <2>2, Zenon
    <2>4. \A j \in Nat : j >= k => Gather[j] \in Seq(Byte)
      BY <1>1, <1>2, <2>3, ConcatType
    <2> QED
      BY <1>6, <2>2, <2>4
  <1>7. Gather[Len(lengths) + 1] = <<>>
    <2>1. Len(lengths) + 1 \in Nat /\ Len(lengths) + 1 > Len(lengths)
      BY <1>1
    <2> QED
      BY <1>3, <2>1, Zenon
  <1>8. ASSUME NEW i \in Segments
        PROVE  Gather[i] = Bytes(i) \o Gather[i + 1]
    <2>1. i \in Nat /\ ~(i > Len(lengths))
      BY <1>1, <1>8
    <2> QED
      BY <1>3, <1>4, <2>1, Zenon
  <1> QED
    BY <1>1, <1>5, <1>6, <1>7, <1>8 DEF GatherOK

LEMMA WholeConcat == Len(lengths) \in Nat => IsConcat(WholeFrom, Len(lengths), WholeParts)
  <1> SUFFICES ASSUME Len(lengths) \in Nat
               PROVE  IsConcat(WholeFrom, Len(lengths), WholeParts)
    OBVIOUS
  <1> DEFINE Eqn(g) == g = [i \in Nat |-> IF i > Len(lengths) THEN <<>>
                                          ELSE [j \in 1..lengths[i] |-> <<i, j>>] \o g[i + 1]]
  <1>1. \A g : IsConcat(g, Len(lengths), WholeParts) <=> Eqn(g)
    <2>1. \A i \in Nat : WholeParts[i] = [j \in 1..lengths[i] |-> <<i, j>>]
      BY Zenon DEF WholeParts, Whole
    <2>2. ASSUME NEW g
          PROVE  [i \in Nat |-> IF i > Len(lengths) THEN <<>> ELSE WholeParts[i] \o g[i + 1]]
                 = [i \in Nat |-> IF i > Len(lengths) THEN <<>>
                                  ELSE [j \in 1..lengths[i] |-> <<i, j>>] \o g[i + 1]]
      BY <2>1, Zenon
    <2> QED
      BY <2>2, Zenon DEF IsConcat
  <1>2. \E g : Eqn(g)
    BY <1>1, ConcatExists, Zenon
  <1>3. Eqn(WholeFrom)
    <2>1. WholeFrom = CHOOSE g : Eqn(g)
      BY Zenon DEF WholeFrom
    <2> HIDE DEF Eqn
    <2> QED
      BY <1>2, <2>1, Zenon
  <1> QED
    BY <1>1, <1>3, Zenon

(* Where no segment from k on changes, neither does what they describe.     *)
LEMMA GatherSame ==
    ASSUME SegmentsInv, SegmentsInv', lengths' = lengths, NEW k \in Nat,
           \A i \in Segments : i >= k => base'[i] = base[i] /\ left'[i] = left[i],
           k >= 1
    PROVE  \A i \in Nat : i >= k => Gather'[i] = Gather[i]
  <1>1. Len(lengths) \in Nat /\ Segments = 1..Len(lengths)
    BY SegmentsAreNumbered DEF SegmentsInv
  <1>2. IsConcat(Gather, Len(lengths), Parts)
    BY <1>1, GatherConcat
  <1>3. (Len(lengths) \in Nat => IsConcat(Gather, Len(lengths), Parts))'
    BY GatherConcat, PTL
  <1>4. IsConcat(Gather', Len(lengths), Parts')
    BY <1>1, <1>3 DEF IsConcat
  <1>5. ASSUME NEW i \in Nat, i >= k, i <= Len(lengths)
        PROVE  Parts'[i] = Parts[i]
    <2>1. base'[i] = base[i] /\ left'[i] = left[i]
      BY <1>1, <1>5
    <2>2. Bytes(i)' = Bytes(i)
      BY <2>1, Zenon DEF Bytes
    <2>3. Parts'[i] = Bytes(i)' /\ Parts[i] = Bytes(i)
      BY <1>5, Zenon DEF Parts
    <2> QED
      BY <2>2, <2>3, Zenon
  <1> QED
    <2>1. \A i \in Nat : i >= k /\ i <= Len(lengths) => Parts'[i] = Parts[i]
      BY <1>5, Zenon
    <2>2. /\ Len(lengths) \in Nat /\ k \in Nat
          /\ IsConcat(Gather', Len(lengths), Parts')
          /\ IsConcat(Gather, Len(lengths), Parts)
      BY <1>1, <1>2, <1>4
    <2> QED
      BY ONLY <2>1, <2>2, ConcatAgree, SMTT(30)

LEMMA PayloadSame ==
    ASSUME lengths' = lengths
    PROVE  Payload' = Payload
  BY DEF Payload, WholeFrom

(* At the start the segments describe the call.                             *)
LEMMA PayloadGathered ==
    ASSUME lengths \in Seq(Nat), base = [i \in Segments |-> 0], left = lengths
    PROVE  Gather[1] = Payload
  <1>1. Len(lengths) \in Nat /\ Segments = 1..Len(lengths)
        /\ \A i \in Segments : i \in Nat /\ lengths[i] \in Nat
    BY SegmentsAreNumbered
  <1>2. IsConcat(Gather, Len(lengths), Parts) /\ IsConcat(WholeFrom, Len(lengths), WholeParts)
    BY <1>1, GatherConcat, WholeConcat
  <1>3. ASSUME NEW i \in Nat, i >= 1, i <= Len(lengths)
        PROVE  Parts[i] = WholeParts[i]
    <2>1. i \in Segments /\ base[i] = 0 /\ left[i] = lengths[i]
      BY <1>1, <1>3
    <2>2. \A j \in 1..lengths[i] : 0 + j = j
      BY <1>1, <2>1
    <2>3. Bytes(i) = Whole(i)
      BY <2>1, <2>2, Zenon DEF Bytes, Whole
    <2>4. Parts[i] = Bytes(i) /\ WholeParts[i] = Whole(i)
      BY <1>3, Zenon DEF Parts, WholeParts
    <2> QED
      BY <2>3, <2>4, Zenon
  <1>4. \A i \in Nat : i >= 1 => Gather[i] = WholeFrom[i]
    <2>1. PICK k \in Nat : k = 1
      OBVIOUS
    <2>2. \A i \in Nat : i >= k /\ i <= Len(lengths) => Parts[i] = WholeParts[i]
      BY <1>3, <2>1, Zenon
    <2>3. \A i \in Nat : i >= k => Gather[i] = WholeFrom[i]
      <3>1. /\ Len(lengths) \in Nat /\ k \in Nat
            /\ IsConcat(Gather, Len(lengths), Parts)
            /\ IsConcat(WholeFrom, Len(lengths), WholeParts)
        BY <1>1, <1>2
      <3> QED
        BY ONLY <3>1, <2>2, ConcatAgree
    <2> QED
      BY <2>1, <2>3, Zenon
  <1> QED
    BY <1>4 DEF Payload

-----------------------------------------------------------------------------
(* Each step keeps the invariant                                            *)

LEMMA PayloadIsSeq ==
    ASSUME SegmentsInv, FileInv, current \in 1..(Len(lengths) + 1), written \in Nat
    PROVE  /\ Gather[current] \in Seq(Byte)
           /\ Drop(Gather[current], written) \in Seq(Byte)
  <1>1. GatherOK
    BY GatherIsSeq
  <1>2. current \in Nat /\ current >= 1
    BY <1>1 DEF GatherOK
  <1>3. Gather[current] \in Seq(Byte)
    BY <1>1, <1>2 DEF GatherOK
  <1>4. written \in 0..Len(Gather[current])
    BY <1>3, LenProperties DEF FileInv
  <1> QED
    BY <1>3, <1>4, DropIsSeq

(* A step that leaves the segments as they are leaves what they describe.   *)
LEMMA SegmentsSame ==
    ASSUME WriteInv, UNCHANGED <<lengths, base, left>>
    PROVE  /\ lengths' \in Calls
           /\ SegmentsInv'
           /\ Payload' = Payload
           /\ \A i \in Nat : i >= 1 => Gather'[i] = Gather[i]
           /\ current' = current => Gather'[current'] = Gather[current]
  <1>1. lengths' = lengths /\ base' = base /\ left' = left
    OBVIOUS
  <1>2. lengths' \in Calls /\ SegmentsInv'
    BY <1>1 DEF WriteInv, SegmentsInv, Segments
  <1>3. SegmentsInv
    BY DEF WriteInv
  <1>4. \A i \in Nat : i >= 1 => Gather'[i] = Gather[i]
    <2>1. PICK k \in Nat : k = 1
      OBVIOUS
    <2>2. \A i \in Nat : i >= k => Gather'[i] = Gather[i]
      <3>1. \A i \in Segments : i >= k => base'[i] = base[i] /\ left'[i] = left[i]
        BY <1>1
      <3>2. k >= 1
        BY <2>1
      <3> QED
        BY ONLY <1>1, <1>2, <1>3, <3>1, <3>2, k \in Nat, GatherSame
    <2> QED
      BY <2>1, <2>2, Zenon
  <1>5. current \in Nat /\ current >= 1
    BY SegmentsAreNumbered DEF WriteInv, SegmentsInv, CursorInv
  <1> QED
    BY <1>1, <1>2, <1>4, <1>5, PayloadSame, Zenon

LEMMA InitInv ==
    ASSUME Init
    PROVE  WriteInv
  <1>1. /\ lengths \in Calls /\ lengths \in Seq(Nat)
        /\ base = [i \in Segments |-> 0] /\ left = lengths
    BY VectorIoAssumption DEF Init, PopulateIovs, Segments
  <1>2. /\ Len(lengths) \in Nat /\ Segments = 1..Len(lengths)
        /\ \A i \in Segments : lengths[i] \in Nat
    BY <1>1, SegmentsAreNumbered
  <1>3. SegmentsInv
    <2>1. lengths \in [Segments -> Nat]
      BY <1>1, <1>2, LenProperties
    <2> QED
      BY <1>1, <1>2, <2>1 DEF SegmentsInv
  <1>4. CursorInv
    BY <1>2 DEF CursorInv, Init
  <1>5. FileInv
    <2>1. GatherOK
      BY <1>3, GatherIsSeq
    <2>2. Gather[1] \in Seq(Byte)
      BY <2>1 DEF GatherOK
    <2>3. file = <<>> /\ current = 1 /\ written = 0 /\ pc = "write"
      BY DEF Init
    <2>4. Len(Gather[1]) \in Nat /\ Drop(Gather[1], 0) = Gather[1]
      BY <2>2, DropNothing, LenProperties
    <2>5. <<>> \o Gather[1] = Gather[1]
      BY <2>2, ConcatEmptySeq
    <2>6. Gather[1] = Payload
      BY <1>1, PayloadGathered
    <2>7. <<>> \in Seq(Byte)
      OBVIOUS
    <2> QED
      BY <2>3, <2>4, <2>5, <2>6, <2>7 DEF FileInv
  <1> QED
    BY <1>1, <1>3, <1>4, <1>5 DEF WriteInv

LEMMA WritevInv ==
    ASSUME WriteInv, Writev
    PROVE  WriteInv'
  <1> DEFINE g == Gather[current]
  <1>1. /\ SegmentsInv /\ CursorInv /\ FileInv
        /\ pc = "write" /\ written = 0 /\ pc' = "account"
        /\ UNCHANGED <<form, lengths, base, left, current>>
        /\ current \in Segments
    BY DEF WriteInv, Writev, CursorInv
  <1>2. /\ lengths' \in Calls /\ SegmentsInv' /\ Payload' = Payload
        /\ Gather'[current'] = g
    BY <1>1, SegmentsSame
  <1>3. g \in Seq(Byte) /\ Len(g) \in Nat
    BY <1>1, PayloadIsSeq, LenProperties DEF CursorInv
  <1>4. PICK n \in 1..Len(g) : file' = file \o SubSeq(g, 1, n) /\ written' = n
    BY DEF Writev
  <1> HIDE DEF g
  <1>5. /\ SubSeq(g, 1, n) \in Seq(Byte) /\ SubSeq(g, 1, n) \o Drop(g, n) = g
        /\ Drop(g, n) \in Seq(Byte)
    <2>1. n \in 0..Len(g)
      BY <1>3, <1>4
    <2> QED
      BY <1>3, <2>1, TakeAndDrop, DropIsSeq
  <1>6. file \in Seq(Byte) /\ file \o Drop(g, 0) = Payload
    BY <1>1 DEF FileInv, g
  <1>7. file \o g = Payload
    BY <1>3, <1>6, DropNothing
  <1>8. file' \in Seq(Byte) /\ file' \o Drop(g, n) = Payload
    <2> DEFINE a == SubSeq(g, 1, n)
               d == Drop(g, n)
    <2> HIDE DEF a, d
    <2>1. a \in Seq(Byte) /\ d \in Seq(Byte) /\ a \o d = g /\ file' = file \o a
      BY <1>4, <1>5 DEF a, d
    <2>2. file \o a \in Seq(Byte)
      BY <1>6, <2>1, ConcatProperties
    <2>3. (file \o a) \o d = file \o (a \o d)
      <3>1. file \in Seq(Byte) /\ a \in Seq(Byte) /\ d \in Seq(Byte)
        BY <1>6, <2>1
      <3> QED
        BY ONLY <3>1, ConcatAssociative, SMTT(30)
    <2>4. file' \o d = Payload
      BY <1>7, <2>1, <2>3, Zenon
    <2> QED
      BY <2>1, <2>2, <2>4, Zenon DEF d
  <1>9. FileInv'
    <2>1. n <= Len(g)
      BY <1>3, <1>4
    <2>2. written' <= Len(Gather'[current'])
      BY <1>2, <1>4, <2>1, Zenon
    <2>3. file' \o Drop(Gather'[current'], written') = Payload'
      BY <1>2, <1>4, <1>8, Zenon
    <2>4. pc' # "threw"
      BY <1>1
    <2> QED
      BY <1>8, <2>2, <2>3, <2>4, Zenon DEF FileInv
  <1>10. CursorInv'
    BY <1>1, <1>3, <1>4 DEF CursorInv
  <1> QED
    BY <1>2, <1>9, <1>10 DEF WriteInv

LEMMA WritevFailsInv ==
    ASSUME WriteInv, WritevFails
    PROVE  WriteInv'
  <1>1. /\ SegmentsInv /\ CursorInv /\ FileInv
        /\ pc = "write" /\ written = 0 /\ pc' = "threw"
        /\ UNCHANGED <<form, lengths, base, left, current, written, file>>
    BY DEF WriteInv, WritevFails, CursorInv
  <1>2. /\ lengths' \in Calls /\ SegmentsInv' /\ Payload' = Payload
        /\ Gather'[current'] = Gather[current]
    BY <1>1, SegmentsSame
  <1>3. Drop(Gather[current], 0) \in Seq(Byte)
    BY <1>1, PayloadIsSeq DEF CursorInv
  <1>4. file \in Seq(Byte) /\ file \o Drop(Gather[current], 0) = Payload
    BY <1>1 DEF FileInv
  <1>5. IsFirstPart(file, Payload)
    BY <1>3, <1>4, ConcatStarts
  <1>6. FileInv'
    BY <1>1, <1>2, <1>4, <1>5 DEF FileInv
  <1>7. CursorInv'
    BY <1>1 DEF CursorInv
  <1> QED
    BY <1>2, <1>6, <1>7 DEF WriteInv

LEMMA SegmentDoneInv ==
    ASSUME WriteInv, SegmentDone
    PROVE  WriteInv'
  <1>1. /\ SegmentsInv /\ CursorInv /\ FileInv
        /\ pc = "account" /\ written > 0 /\ written >= left[current]
        /\ written' = written - left[current] /\ current' = current + 1
        /\ pc' = AfterAccount(written')
        /\ UNCHANGED <<form, lengths, base, left, file>>
    BY DEF WriteInv, SegmentDone, CursorInv
  <1>2. /\ lengths' \in Calls /\ SegmentsInv' /\ Payload' = Payload
        /\ \A i \in Nat : i >= 1 => Gather'[i] = Gather[i]
    BY <1>1, SegmentsSame
  <1>3. GatherOK /\ Len(lengths) \in Nat /\ Segments = 1..Len(lengths)
    BY <1>1, GatherIsSeq, SegmentsAreNumbered DEF SegmentsInv
  <1>4. current \in Segments
    <2>1. written \in Nat /\ current \in 1..(Len(lengths) + 1)
      BY <1>1 DEF CursorInv
    <2>2. current # Len(lengths) + 1
      <3>1. SUFFICES ASSUME current = Len(lengths) + 1 PROVE FALSE
        OBVIOUS
      <3>2. Gather[current] = <<>>
        BY <1>3, <3>1 DEF GatherOK
      <3>3. written <= 0
        BY <1>1, <3>2 DEF FileInv
      <3> QED
        BY <1>1, <2>1, <3>3
    <2> QED
      BY <1>3, <2>1, <2>2
  <1> DEFINE b == Bytes(current)
             r == Gather[current + 1]
  <1>5. /\ b \in Seq(Byte) /\ Len(b) = left[current] /\ Gather[current] = b \o r
        /\ r \in Seq(Byte) /\ left[current] \in Nat
        /\ current + 1 \in 1..(Len(lengths) + 1)
    <2>1. current \in Nat /\ current + 1 \in Nat /\ current + 1 >= 1
          /\ current + 1 \in 1..(Len(lengths) + 1)
      BY <1>3, <1>4
    <2> QED
      BY <1>1, <1>3, <1>4, <2>1 DEF GatherOK, SegmentsInv
  <1>6. Gather'[current'] = r
    <2>1. current + 1 \in Nat /\ current + 1 >= 1
      BY <1>3, <1>4
    <2> QED
      BY <1>1, <1>2, <2>1
  <1>8. /\ file \in Seq(Byte) /\ written <= Len(b \o r)
        /\ file \o Drop(b \o r, written) = Payload
    BY <1>1, <1>5 DEF FileInv
  <1> HIDE DEF b, r
  <1>9. /\ written \in Nat /\ Len(r) \in Nat /\ Len(b \o r) = Len(b) + Len(r)
    BY <1>1, <1>5, ConcatProperties, LenProperties DEF CursorInv
  <1>10. Drop(b \o r, written) = Drop(r, written - left[current])
    BY <1>1, <1>5, <1>8, <1>9, DropBeyond
  <1>11. written' \in Nat /\ written' <= Len(r)
    <2>1. written >= left[current] /\ written' = written - left[current]
      BY <1>1
    <2>2. left[current] \in Nat /\ Len(b) = left[current]
      BY <1>5
    <2>3. written <= Len(b) + Len(r)
      BY <1>8, <1>9
    <2> QED
      BY <1>9, <2>1, <2>2, <2>3
  <1>12. pc' \in {"write", "account"} /\ (pc' = "account" <=> written' > 0)
    BY <1>1, <1>11 DEF AfterAccount
  <1>13. FileInv'
    BY <1>1, <1>2, <1>6, <1>8, <1>10, <1>11, <1>12 DEF FileInv
  <1>14. CursorInv'
    BY <1>1, <1>5, <1>11, <1>12 DEF CursorInv
  <1> QED
    BY <1>2, <1>13, <1>14 DEF WriteInv

LEMMA SegmentCutInv ==
    ASSUME WriteInv, SegmentCut
    PROVE  WriteInv'
  <1>1. /\ SegmentsInv /\ CursorInv /\ FileInv
        /\ pc = "account" /\ written > 0 /\ written < left[current]
        /\ base' = [base EXCEPT ![current] = @ + written]
        /\ left' = [left EXCEPT ![current] = @ - written]
        /\ written' = 0 /\ pc' = AfterAccount(written')
        /\ UNCHANGED <<form, lengths, current, file>>
    BY DEF WriteInv, SegmentCut, CursorInv
  <1>2. GatherOK /\ Len(lengths) \in Nat /\ Segments = 1..Len(lengths) /\ Segments' = Segments
    BY <1>1, GatherIsSeq, SegmentsAreNumbered DEF SegmentsInv, Segments
  <1>3. written \in Nat /\ current \in 1..(Len(lengths) + 1)
    BY <1>1 DEF CursorInv
  <1>4. current \in Segments
    <2>1. current # Len(lengths) + 1
      <3>1. SUFFICES ASSUME current = Len(lengths) + 1 PROVE FALSE
        OBVIOUS
      <3>2. Gather[current] = <<>>
        BY <1>2, <3>1 DEF GatherOK
      <3>3. written <= 0
        BY <1>1, <3>2 DEF FileInv
      <3> QED
        BY <1>1, <1>3, <3>3
    <2> QED
      BY <1>2, <1>3, <2>1
  <1>5. base[current] \in Nat /\ left[current] \in Nat /\ base[current] + left[current] = lengths[current]
    BY <1>1, <1>4 DEF SegmentsInv
  <1>6. /\ base' \in [Segments -> Nat] /\ left' \in [Segments -> Nat]
        /\ base'[current] = base[current] + written /\ left'[current] = left[current] - written
        /\ \A i \in Segments : i # current => base'[i] = base[i] /\ left'[i] = left[i]
    <2>1. base[current] + written \in Nat /\ left[current] - written \in Nat
      BY <1>1, <1>3, <1>5
    <2> QED
      BY <1>1, <1>4, <2>1 DEF SegmentsInv
  <1>7. SegmentsInv'
    <2>1. ASSUME NEW i \in Segments
          PROVE  base'[i] + left'[i] = lengths[i]
      <3>1. CASE i = current
        BY <1>1, <1>3, <1>5, <1>6, <3>1
      <3>2. CASE i # current
        BY <1>1, <1>6, <2>1, <3>2 DEF SegmentsInv
      <3> QED
        BY <3>1, <3>2
    <2> QED
      BY <1>1, <1>2, <1>6, <2>1 DEF SegmentsInv
  <1> DEFINE b == Bytes(current)
             r == Gather[current + 1]
             g == b \o r
  <1>8. /\ b \in Seq(Byte) /\ Len(b) = left[current] /\ Gather[current] = g
        /\ r \in Seq(Byte)
    <2>1. current \in Nat /\ current + 1 \in Nat /\ current + 1 >= 1
      BY <1>2, <1>4
    <2> QED
      BY <1>2, <1>4, <2>1 DEF GatherOK
  <1>9. written \in 0..Len(b) /\ Drop(b, written) \in Seq(Byte)
        /\ Len(Drop(b, written)) = Len(b) - written
        /\ \A i \in 1..(Len(b) - written) : Drop(b, written)[i] = b[written + i]
    <2>1. written \in 0..Len(b)
      BY <1>1, <1>3, <1>5, <1>8
    <2> HIDE DEF b
    <2> QED
      BY <1>8, <2>1, DropIsSeq
  <1>10. GatherOK'
    <2>1. (SegmentsInv => GatherOK)'
      BY GatherIsSeq, PTL
    <2> QED
      BY <1>7, <2>1
  <1>11. /\ Bytes(current)' \in Seq(Byte) /\ Len(Bytes(current)') = left'[current]
         /\ Gather'[current] = Bytes(current)' \o Gather'[current + 1]
    BY <1>1, <1>2, <1>4, <1>10 DEF GatherOK
  <1>12. Bytes(current)' = Drop(b, written)
    <2>1. /\ \A i \in 1..left'[current] : Bytes(current)'[i] = <<current, base'[current] + i>>
          /\ \A i \in 1..left[current] : b[i] = <<current, base[current] + i>>
      BY <1>1 DEF Bytes
    <2> HIDE DEF b
    <2>2. Len(Bytes(current)') = Len(Drop(b, written))
      BY <1>6, <1>8, <1>9, <1>11
    <2>3. ASSUME NEW i \in 1..Len(Bytes(current)')
          PROVE  Bytes(current)'[i] = Drop(b, written)[i]
      <3>1. /\ i \in 1..left'[current] /\ i \in 1..(Len(b) - written)
            /\ written + i \in 1..left[current] /\ i \in Nat
        BY <1>1, <1>3, <1>5, <1>6, <1>8, <1>11, <2>3
      <3>2. Bytes(current)'[i] = <<current, base'[current] + i>>
        BY <2>1, <3>1
      <3>3. Drop(b, written)[i] = <<current, base[current] + (written + i)>>
        BY <1>9, <2>1, <3>1
      <3>4. base'[current] + i = base[current] + (written + i)
        BY <1>3, <1>5, <1>6, <3>1
      <3> QED
        BY <3>2, <3>3, <3>4, Zenon
    <2> QED
      BY <1>9, <1>11, <2>2, <2>3, SeqEqual
  <1>13. Gather'[current + 1] = r
    <2>1. PICK k \in Nat : k = current + 1
      BY <1>2, <1>4
    <2>2. \A i \in Segments : i >= k => base'[i] = base[i] /\ left'[i] = left[i]
      <3>1. \A i \in Segments : i >= k => i # current
        BY <1>2, <1>4, <2>1
      <3> QED
        BY <1>6, <3>1
    <2>3. k >= 1 /\ lengths' = lengths
      BY <1>1, <1>2, <1>4, <2>1
    <2>4. \A i \in Nat : i >= k => Gather'[i] = Gather[i]
      BY ONLY <1>1, <1>7, <2>2, <2>3, k \in Nat, GatherSame
    <2>5. k >= k
      OBVIOUS
    <2> QED
      BY <2>1, <2>4, <2>5
  <1> HIDE DEF b, r
  <1>14. Gather'[current'] = Drop(g, written)
    <2>1. Drop(g, written) = Drop(b, written) \o r
      BY <1>8, <1>9, DropWithin
    <2> QED
      BY <1>1, <1>11, <1>12, <1>13, <2>1
  <1>15. /\ file \in Seq(Byte) /\ file \o Drop(g, written) = Payload
         /\ Payload' = Payload
    BY <1>1, <1>8, PayloadSame DEF FileInv
  <1>16. Drop(g, written) \in Seq(Byte)
    BY <1>1, <1>3, <1>8, PayloadIsSeq
  <1>17. pc' = "write"
    BY <1>1 DEF AfterAccount
  <1> HIDE DEF g
  <1>18. FileInv'
    <2>1. Drop(Gather'[current'], written') = Drop(g, written)
      BY <1>1, <1>14, <1>16, DropNothing
    <2>2. written' <= Len(Gather'[current'])
      BY <1>1, <1>14, <1>16, LenProperties
    <2> QED
      BY <1>1, <1>15, <1>17, <2>1, <2>2 DEF FileInv
  <1>19. CursorInv'
    BY <1>1, <1>17 DEF CursorInv
  <1> QED
    BY <1>1, <1>7, <1>18, <1>19 DEF WriteInv

LEMMA FwriteInv ==
    ASSUME WriteInv, Fwrite
    PROVE  WriteInv'
  <1>1. /\ SegmentsInv /\ CursorInv /\ FileInv
        /\ pc = "write" /\ written = 0 /\ current \in Segments
        /\ file' = file \o Bytes(current) /\ current' = current + 1
        /\ UNCHANGED <<form, lengths, base, left, written, pc>>
    BY DEF WriteInv, Fwrite, CursorInv
  <1>2. /\ lengths' \in Calls /\ SegmentsInv' /\ Payload' = Payload
        /\ \A i \in Nat : i >= 1 => Gather'[i] = Gather[i]
    BY <1>1, SegmentsSame
  <1>3. GatherOK /\ Len(lengths) \in Nat /\ Segments = 1..Len(lengths)
    BY <1>1, GatherIsSeq, SegmentsAreNumbered DEF SegmentsInv
  <1> DEFINE b == Bytes(current)
             r == Gather[current + 1]
             g == Gather[current]
  <1>4. /\ b \in Seq(Byte) /\ g = b \o r /\ r \in Seq(Byte) /\ g \in Seq(Byte)
        /\ Gather'[current'] = r /\ current + 1 \in 1..(Len(lengths) + 1)
    <2>1. current \in Nat /\ current >= 1 /\ current + 1 \in Nat /\ current + 1 >= 1
          /\ current + 1 \in 1..(Len(lengths) + 1)
      BY <1>1, <1>3
    <2> QED
      BY <1>1, <1>2, <1>3, <2>1 DEF GatherOK
  <1>5. file \in Seq(Byte) /\ file \o Drop(g, 0) = Payload
    BY <1>1 DEF FileInv
  <1> HIDE DEF b, r, g
  <1>6. file \o g = Payload
    BY <1>4, <1>5, DropNothing
  <1>7. file' = file \o b
    BY <1>1 DEF b
  <1>8. file' \in Seq(Byte)
    BY <1>4, <1>5, <1>7, ConcatProperties
  <1>9. file' \o r = Payload
    <2>1. (file \o b) \o r = file \o (b \o r)
      <3>1. file \in Seq(Byte) /\ b \in Seq(Byte) /\ r \in Seq(Byte)
        BY <1>4, <1>5
      <3> QED
        BY ONLY <3>1, ConcatAssociative, SMTT(30)
    <2> QED
      BY <1>4, <1>6, <1>7, <2>1, Zenon
  <1>10. FileInv'
    <2>1. written' = 0 /\ pc' # "threw"
      BY <1>1
    <2>2. written' <= Len(Gather'[current'])
      BY <1>4, <2>1, LenProperties
    <2>3. Drop(Gather'[current'], written') = r
      BY <1>4, <2>1, DropNothing
    <2> QED
      BY <1>2, <1>8, <1>9, <2>1, <2>2, <2>3 DEF FileInv
  <1>11. CursorInv'
    BY <1>1, <1>4 DEF CursorInv
  <1> QED
    BY <1>2, <1>10, <1>11 DEF WriteInv

LEMMA FwriteFailsInv ==
    ASSUME WriteInv, FwriteFails
    PROVE  WriteInv'
  <1>1. /\ SegmentsInv /\ CursorInv /\ FileInv
        /\ pc = "write" /\ written = 0 /\ current \in Segments /\ pc' = "threw"
        /\ UNCHANGED <<form, lengths, base, left, current, written>>
    BY DEF WriteInv, FwriteFails, CursorInv
  <1>2. /\ lengths' \in Calls /\ SegmentsInv' /\ Payload' = Payload
        /\ Gather'[current'] = Gather[current]
    BY <1>1, SegmentsSame
  <1>3. GatherOK /\ Len(lengths) \in Nat /\ Segments = 1..Len(lengths)
        /\ left[current] \in Nat
    BY <1>1, GatherIsSeq, SegmentsAreNumbered DEF SegmentsInv
  <1>4. PICK n \in 0..(left[current] - 1) : file' = file \o SubSeq(Bytes(current), 1, n)
    BY DEF FwriteFails
  <1> DEFINE b == Bytes(current)
             r == Gather[current + 1]
             g == Gather[current]
             a == SubSeq(b, 1, n)
             d == Drop(b, n)
  <1>5. /\ b \in Seq(Byte) /\ Len(b) = left[current] /\ g = b \o r
        /\ r \in Seq(Byte) /\ g \in Seq(Byte)
    <2>1. current \in Nat /\ current >= 1 /\ current + 1 \in Nat /\ current + 1 >= 1
      BY <1>1, <1>3
    <2> QED
      BY <1>1, <1>3, <2>1 DEF GatherOK
  <1>6. /\ file \in Seq(Byte) /\ file \o Drop(g, 0) = Payload /\ written <= Len(g)
    BY <1>1 DEF FileInv
  <1>7. file' = file \o a
    BY <1>4
  <1> HIDE DEF b, r, g
  <1>8. a \in Seq(Byte) /\ d \in Seq(Byte) /\ a \o d = b
    <2>1. n \in 0..Len(b)
      BY <1>3, <1>5
    <2> QED
      BY <1>5, <2>1, TakeAndDrop, DropIsSeq
  <1> HIDE DEF a, d
  <1>9. file \o g = Payload
    BY <1>5, <1>6, DropNothing
  <1>10. file' \in Seq(Byte) /\ d \o r \in Seq(Byte)
    BY <1>5, <1>6, <1>7, <1>8, ConcatProperties
  <1>11. file' \o (d \o r) = Payload
    <2>1. (file \o a) \o (d \o r) = file \o (a \o (d \o r))
      <3> DEFINE e == d \o r
      <3>1. file \in Seq(Byte) /\ a \in Seq(Byte) /\ e \in Seq(Byte)
        BY <1>6, <1>8, <1>10
      <3> HIDE DEF e
      <3>2. (file \o a) \o e = file \o (a \o e)
        BY ONLY <3>1, ConcatAssociative
      <3> QED
        BY <3>2 DEF e
    <2>2. (a \o d) \o r = a \o (d \o r)
      <3>1. a \in Seq(Byte) /\ d \in Seq(Byte) /\ r \in Seq(Byte)
        BY <1>5, <1>8
      <3> QED
        BY ONLY <3>1, ConcatAssociative, SMTT(30)
    <2> QED
      BY <1>5, <1>7, <1>8, <1>9, <2>1, <2>2, Zenon
  <1>12. IsFirstPart(file', Payload)
    BY <1>10, <1>11, ConcatStarts
  <1>13. FileInv'
    <2>1. written' <= Len(Gather'[current'])
      BY <1>1, <1>2, <1>6 DEF g
    <2> QED
      BY <1>1, <1>2, <1>10, <1>12, <2>1 DEF FileInv
  <1>14. CursorInv'
    BY <1>1 DEF CursorInv
  <1> QED
    BY <1>2, <1>13, <1>14 DEF WriteInv

(* Return, and the steps in which nothing happens.                          *)
LEMMA ReturnInv ==
    ASSUME WriteInv, Return \/ UNCHANGED vars
    PROVE  WriteInv'
  <1>1. /\ SegmentsInv /\ CursorInv /\ FileInv
        /\ UNCHANGED <<form, lengths, base, left, current, written, file>>
        /\ \/ pc = "write" /\ pc' = "done" /\ current \notin Segments
           \/ pc' = pc
    BY DEF WriteInv, Return, vars
  <1>2. /\ lengths' \in Calls /\ SegmentsInv' /\ Payload' = Payload
        /\ Gather'[current'] = Gather[current]
    BY <1>1, SegmentsSame
  <1>3. FileInv'
    BY <1>1, <1>2 DEF FileInv
  <1>4. CursorInv'
    <2>1. Len(lengths) \in Nat /\ Segments = 1..Len(lengths)
      BY <1>1, SegmentsAreNumbered DEF SegmentsInv
    <2> QED
      BY <1>1, <2>1 DEF CursorInv
  <1> QED
    BY <1>2, <1>3, <1>4 DEF WriteInv

-----------------------------------------------------------------------------
LEMMA InvIsInductive == Spec => []WriteInv
  <1>1. Init => WriteInv
    BY InitInv
  <1>2. WriteInv /\ [Next]_vars => WriteInv'
    BY WritevInv, WritevFailsInv, SegmentDoneInv, SegmentCutInv, FwriteInv,
       FwriteFailsInv, ReturnInv DEF Next
  <1> QED
    BY <1>1, <1>2, PTL DEF Spec

LEMMA InvSuffices ==
    ASSUME WriteInv
    PROVE  WritesInOrder
  <1>1. SegmentsInv /\ CursorInv /\ FileInv /\ lengths \in Calls
    BY DEF WriteInv
  <1>2. /\ GatherOK /\ Len(lengths) \in Nat /\ Segments = 1..Len(lengths)
    BY <1>1, GatherIsSeq, SegmentsAreNumbered DEF SegmentsInv
  <1>3. pc = "account" => current \in Segments
    <2>1. SUFFICES ASSUME pc = "account", current = Len(lengths) + 1 PROVE FALSE
      BY <1>1, <1>2 DEF CursorInv
    <2>2. Gather[current] = <<>>
      BY <1>2, <2>1 DEF GatherOK
    <2>3. written <= 0 /\ written > 0 /\ written \in Nat
      BY <1>1, <2>1, <2>2 DEF FileInv, CursorInv
    <2> QED
      BY <2>3
  <1>4. TypeOK
    BY <1>1, <1>3 DEF TypeOK, CursorInv, SegmentsInv
  <1>5. IsFirstPart(file, Payload)
    <2>1. CASE pc = "threw"
      BY <1>1, <2>1 DEF FileInv
    <2>2. CASE pc # "threw"
      <3>1. Drop(Gather[current], written) \in Seq(Byte)
        BY <1>1, PayloadIsSeq DEF CursorInv
      <3> QED
        BY <1>1, <2>2, <3>1, ConcatStarts DEF FileInv
    <2> QED
      BY <2>1, <2>2
  <1>6. ASSUME pc = "done"
        PROVE  file = Payload
    <2>1. Gather[current] = <<>> /\ written = 0
      BY <1>1, <1>2, <1>6 DEF GatherOK, CursorInv
    <2>2. <<>> \in Seq(Byte) /\ file \in Seq(Byte)
      BY <1>1 DEF FileInv
    <2>3. Drop(<<>>, 0) = <<>>
      BY <2>2, DropNothing
    <2>4. file \o <<>> = file
      BY <2>2, ConcatEmptySeq
    <2> QED
      BY <1>1, <1>6, <2>1, <2>3, <2>4 DEF FileInv
  <1> QED
    BY <1>4, <1>5, <1>6 DEF WritesInOrder, IsFirstPart

(* A call to write() that returns has put its bytes into the file once and  *)
(* in order, and one that throws a first part of them, for calls of any     *)
(* segments and whatever the operating system makes of each writev and      *)
(* fwrite; current_segment stays in the array while bytes are accounted     *)
(* for.  (posix_vector_io_file.h and fallback_vector_io_file.h, write.)     *)
THEOREM BytesInOrder == Spec => []WritesInOrder
  <1>1. WriteInv => WritesInOrder
    BY InvSuffices
  <1> QED
    BY <1>1, InvIsInductive, PTL
=============================================================================
