------------------------- MODULE SieSamplesProofs -------------------------
(***************************************************************************)
(* What a channel of an SIE file shows of a signal is what its packets     *)
(* held (SieSamples, SamplesReadBack), for any descriptors, packets and    *)
(* order of handlers and packets.                                          *)
(*                                                                         *)
(* A decoder is a program that the reader of the file runs over the        *)
(* payload of a block.  The proof follows such a run: data hold texts at   *)
(* places (HoldsAt), an element of a decoder changes the state of the      *)
(* reader (StepRead), a loop is a recursive function of its turns          *)
(* (LoopIs), and a turn of the loop of ScalarDecoder or CanDecoder takes   *)
(* one sample and leaves the reader in front of the next (ScalarTurn,      *)
(* CanTurn).  Hence a packet is read as what was sent (ScalarPacketRead,   *)
(* CanPacketRead).                                                         *)
(*                                                                         *)
(* The inductive invariant, SamplesInv, says the same of all the packets   *)
(* of a handler.  It needs that the only decoder with the id of a group    *)
(* is the one the group's handler wrote (Described), and that a block is   *)
(* of the group of a handler constructed before it.                        *)
(***************************************************************************)
EXTENDS SieFileProofs

-----------------------------------------------------------------------------
(* The reader of samples: a fold over the elements of a decoder             *)

(* The elements of a decoder are taken from the left: an instance of        *)
(* Recursion for each step of a fold.                                       *)
StepFold == INSTANCE Recursion WITH Base <- 0, Step <- Sie!Step

(* Steps takes the elements of a body one by one.                           *)
LEMMA StepsIs ==
    ASSUME NEW st, NEW body, NEW n \in Nat, DOMAIN body = 1..n,
           NEW f, f[0] = st, \A i \in 1..n : f[i] = Sie!Step(f[i - 1], body[i])
    PROVE  Sie!Steps(st, body) = f[n]
  <1>1. StepFold!Folded(st, body) = f[n]
    BY StepFold!FoldedIs
  <1>2. Sie!Steps(st, body) = StepFold!Folded(st, body)
    BY Zenon DEF Sie!Steps, Sie!FoldLeft, Sie!MapThenFoldSet, StepFold!Folded, StepFold!IsFold, StepFold!Fold,
                 StepFold!Largest, Sie!Max
  <1> QED
    BY <1>1, <1>2

(* What Run does with an element of a decoder.                              *)
RunStep(st, c) == IF c.name = "loop" THEN Sie!Loop(st, c) ELSE Sie!Step(st, c)
RunFold == INSTANCE Recursion WITH Base <- 0, Step <- RunStep

(* The reader before it has read anything.                                  *)
Started(data) ==
    [at |-> 0, env |-> [v \in Sie!Variables |-> Sie!Garbage], samples |-> <<>>, data |-> data]

(* Run takes the elements of a decoder one by one.                          *)
LEMMA RunIs ==
    ASSUME NEW decoder, NEW data, NEW n \in Nat, DOMAIN decoder.children = 1..n,
           NEW f, f[0] = Started(data), \A i \in 1..n : f[i] = RunStep(f[i - 1], decoder.children[i])
    PROVE  Sie!Run(decoder, data) = f[n].samples
  <1> DEFINE body == decoder.children
             st == Started(data)
  <1>0. DOMAIN body = 1..n /\ f[0] = st /\ \A i \in 1..n : f[i] = RunStep(f[i - 1], body[i])
    OBVIOUS
  <1> HIDE DEF body, st
  <1>1. RunFold!Folded(st, body) = f[n]
    BY <1>0, RunFold!FoldedIs
  <1>2. Sie!Run(decoder, data) = RunFold!Folded(st, body).samples
    BY Zenon DEF Sie!Run, Sie!FoldLeft, Sie!MapThenFoldSet, RunFold!Folded, RunFold!IsFold, RunFold!Fold,
                 RunFold!Largest, Sie!Max, RunStep, body, st, Started
  <1> QED
    BY <1>1, <1>2

-----------------------------------------------------------------------------
(* What data hold, and where                                                *)

(* The data hold t after the first `at' octets.                             *)
HoldsAt(data, at, t) == at + Len(t) <= Len(data) /\ \A i \in 1..Len(t) : data[at + i] = t[i]

(* A concatenation holds its parts, one after the other.                    *)
LEMMA HoldsParts ==
    ASSUME NEW T, NEW a \in Seq(T), NEW b \in Seq(T)
    PROVE  /\ a \o b \in Seq(T) /\ Len(a \o b) = Len(a) + Len(b)
           /\ HoldsAt(a \o b, 0, a)
           /\ HoldsAt(a \o b, Len(a), b)
  <1> DEFINE c == a \o b
             m == Len(a)
             n == Len(b)
  <1>1. m \in Nat /\ n \in Nat /\ c \in Seq(T)
    BY ConcatProperties
  <1>2. Len(c) = m + n
    BY ConcatProperties
  <1>3. \A i \in 1..(m + n) : c[i] = IF i <= m THEN a[i] ELSE b[i - m]
    BY ConcatProperties, Zenon
  <1> HIDE DEF c
  <1>4. ASSUME NEW i \in 1..m
        PROVE  c[0 + i] = a[i]
    <2> HIDE DEF m, n
    <2>1. i \in 1..(m + n) /\ i <= m /\ 0 + i = i
      BY <1>1, <1>4
    <2> QED
      BY <1>3, <2>1
  <1>5. ASSUME NEW i \in 1..n
        PROVE  c[m + i] = b[i]
    <2> HIDE DEF m, n
    <2>1. m + i \in 1..(m + n) /\ ~(m + i <= m) /\ (m + i) - m = i
      BY <1>1, <1>5
    <2> QED
      BY <1>3, <2>1
  <1> QED
    BY <1>1, <1>2, <1>4, <1>5 DEF HoldsAt

(* What is held by something that is held.                                  *)
LEMMA HoldsWithin ==
    ASSUME NEW x, NEW y, NEW t, NEW p \in Nat, NEW q \in Nat,
           Len(x) \in Nat, Len(y) \in Nat, Len(t) \in Nat,
           HoldsAt(x, p, y), HoldsAt(y, q, t)
    PROVE  HoldsAt(x, p + q, t)
  <1>1. p + q + Len(t) <= Len(x)
    BY DEF HoldsAt
  <1>2. ASSUME NEW i \in 1..Len(t)
        PROVE  x[p + q + i] = t[i]
    <2>1. q + i \in 1..Len(y) /\ p + (q + i) = p + q + i
      BY <1>2 DEF HoldsAt
    <2>2. x[p + (q + i)] = y[q + i] /\ y[q + i] = t[i]
      BY <1>2, <2>1 DEF HoldsAt
    <2> QED
      BY <2>1, <2>2
  <1> QED
    BY <1>1, <1>2 DEF HoldsAt

(* The two models take FlattenSeq from the same library.                    *)
LEMMA SameFlatten == \A s : Sie!FlattenSeq(s) = Xml!FlattenSeq(s)
  BY Zenon DEF Sie!FlattenSeq, Xml!FlattenSeq

(* Flattened parts are held where the lengths of those before add up to.    *)
LEMMA FlattenAt ==
    ASSUME NEW T, NEW s \in Seq(Seq(T)), NEW P, P[0] = 0,
           \A i \in 1..Len(s) : P[i] = P[i - 1] + Len(s[i])
    PROVE  /\ Sie!FlattenSeq(s) \in Seq(T)
           /\ Len(Sie!FlattenSeq(s)) = P[Len(s)]
           /\ \A i \in 1..Len(s) : P[i - 1] \in Nat /\ HoldsAt(Sie!FlattenSeq(s), P[i - 1], s[i])
  <1>1. PICK g : /\ g[0] = <<>>
                 /\ \A i \in 0..Len(s) : g[i] \in Seq(T)
                 /\ \A i \in 1..Len(s) : g[i] = g[i - 1] \o s[i]
                 /\ g[Len(s)] = Xml!FlattenSeq(s)
    BY FlattenSeqPrefixes
  <1>2. Len(s) \in Nat /\ \A i \in 1..Len(s) : s[i] \in Seq(T) /\ Len(s[i]) \in Nat
    BY LenProperties, ElementOfSeq
  <1> DEFINE Good(i) == /\ P[i] \in Nat /\ Len(g[i]) = P[i]
                        /\ \A j \in 1..i : P[j - 1] \in Nat /\ HoldsAt(g[i], P[j - 1], s[j])
             S == {i \in Nat : i <= Len(s) => Good(i)}
  <1>3. 0 \in S
    BY <1>1
  <1>4. ASSUME NEW i \in Nat, i \in S
        PROVE  i + 1 \in S
    <2>1. SUFFICES ASSUME i + 1 <= Len(s)
                   PROVE  Good(i + 1)
      OBVIOUS
    <2>2. i <= Len(s) /\ i + 1 \in 1..Len(s) /\ (i + 1) - 1 = i /\ i \in 0..Len(s)
      BY <1>2, <2>1
    <2>3. Good(i)
      BY <1>4, <2>2
    <2> DEFINE a == g[i]
               b == s[i + 1]
               c == g[i + 1]
    <2>4. a \in Seq(T) /\ b \in Seq(T) /\ Len(b) \in Nat
      BY <1>1, <1>2, <2>2
    <2>5. c = a \o b
      <3>1. g[i + 1] = g[(i + 1) - 1] \o s[i + 1]
        BY <1>1, <2>2
      <3> QED
        BY <2>2, <3>1
    <2>6. P[i + 1] = P[i] + Len(b)
      <3>1. P[i + 1] = P[(i + 1) - 1] + Len(s[i + 1])
        BY <2>2
      <3> QED
        BY <2>2, <3>1
    <2>7. Len(a) = P[i] /\ P[i] \in Nat /\ \A j \in 1..i : P[j - 1] \in Nat /\ HoldsAt(a, P[j - 1], s[j])
      BY <2>3
    <2> HIDE DEF a, b, c
    <2>8. Len(c) = Len(a) + Len(b) /\ HoldsAt(c, 0, a) /\ HoldsAt(c, Len(a), b)
      BY <2>4, <2>5, HoldsParts
    <2>9. Len(c) = P[i + 1] /\ P[i + 1] \in Nat
      BY <2>4, <2>6, <2>7, <2>8
    <2>10. ASSUME NEW j \in 1..(i + 1)
           PROVE  P[j - 1] \in Nat /\ HoldsAt(c, P[j - 1], s[j])
      <3>1. CASE j = i + 1
        BY <2>2, <2>7, <2>8, <3>1 DEF b
      <3>2. CASE j # i + 1
        <4>1. j \in 1..i /\ j \in 1..Len(s)
          BY <2>2, <3>2
        <4>2. P[j - 1] \in Nat /\ HoldsAt(a, P[j - 1], s[j]) /\ Len(s[j]) \in Nat
          BY <1>2, <2>7, <4>1
        <4>3. Len(c) \in Nat /\ Len(a) \in Nat
          BY <2>7, <2>9
        <4> DEFINE p == P[j - 1]
                   t == s[j]
        <4> HIDE DEF p, t
        <4>4. p \in Nat /\ HoldsAt(a, p, t) /\ Len(t) \in Nat
          BY <4>2 DEF p, t
        <4>5. HoldsAt(c, 0 + p, t)
          BY <2>8, <4>3, <4>4, HoldsWithin
        <4>6. 0 + p = p
          BY <4>4
        <4> QED
          BY <4>4, <4>5, <4>6 DEF p, t
      <3> QED
        BY <3>1, <3>2
    <2> QED
      BY <2>9, <2>10 DEF c
  <1>5. Nat \subseteq S
    <2> HIDE DEF S
    <2> QED
      BY <1>3, <1>4, NatRec!SetInduction
  <1>6. Good(Len(s))
    BY <1>2, <1>5
  <1>7. Sie!FlattenSeq(s) = g[Len(s)]
    BY <1>1, SameFlatten
  <1>8. Len(s) \in 0..Len(s)
    BY <1>2
  <1>9. g[Len(s)] \in Seq(T)
    BY <1>1, <1>8
  <1> QED
    BY <1>6, <1>7, <1>9

(* Parts of one width.                                                      *)
LEMMA FlattenEven ==
    ASSUME NEW T, NEW s \in Seq(Seq(T)), NEW w \in Nat, \A i \in 1..Len(s) : Len(s[i]) = w
    PROVE  /\ Sie!FlattenSeq(s) \in Seq(T)
           /\ Len(Sie!FlattenSeq(s)) = w * Len(s)
           /\ \A i \in 1..Len(s) : w * (i - 1) \in Nat /\ HoldsAt(Sie!FlattenSeq(s), w * (i - 1), s[i])
  <1> DEFINE P == [i \in Nat |-> w * i]
  <1>1. Len(s) \in Nat
    OBVIOUS
  <1>2. P[0] = 0
    OBVIOUS
  <1>3. ASSUME NEW i \in 1..Len(s)
        PROVE  P[i] = P[i - 1] + Len(s[i])
    <2>1. i \in Nat /\ i - 1 \in Nat /\ Len(s[i]) = w
      BY <1>1, <1>3
    <2>2. P[i] = w * i /\ P[i - 1] = w * (i - 1)
      BY <2>1
    <2>3. w * i = w * (i - 1) + w
      BY <2>1
    <2> QED
      BY <2>1, <2>2, <2>3
  <1>4. \A i \in 1..Len(s) : i - 1 \in Nat /\ P[i - 1] = w * (i - 1)
    BY <1>1
  <1>5. P[Len(s)] = w * Len(s)
    BY <1>1
  <1> HIDE DEF P
  <1>6. /\ Sie!FlattenSeq(s) \in Seq(T)
        /\ Len(Sie!FlattenSeq(s)) = P[Len(s)]
        /\ \A i \in 1..Len(s) : P[i - 1] \in Nat /\ HoldsAt(Sie!FlattenSeq(s), P[i - 1], s[i])
    BY <1>2, <1>3, FlattenAt
  <1> QED
    BY <1>4, <1>5, <1>6

-----------------------------------------------------------------------------
(* Octets                                                                   *)

(* What an octet knows.                                                     *)
Formats == {"float", "uint", "int", "raw"}
OctetOf == [of : Int, format : Formats, octet : Nat, octets : Nat]

(* Sample types have a format and a width.                                  *)
LEMMA TypeFacts ==
    \A t \in Sie!SampleTypes :
        Sie!SieFormat(t) \in Formats /\ Sie!SieBits(t) \div 8 \in Nat \ {0} /\ Sie!SieBits(t) \in Nat
  <1> TAKE t \in Sie!SampleTypes
  <1>1. Sie!SieFormat(t) \in Formats
    BY DEF Sie!SampleTypes, Sie!SieFormat, Formats
  <1>2. Sie!SieBits(t) \in {8, 16, 32, 64}
    BY DEF Sie!SampleTypes, Sie!SieBits
  <1> QED
    BY <1>1, <1>2

(* The octets of a number.                                                  *)
LEMMA OctetsFacts ==
    ASSUME NEW x \in Int, NEW f \in Formats, NEW n \in Nat
    PROVE  /\ Sie!Octets(x, f, n) \in Seq(OctetOf)
           /\ Len(Sie!Octets(x, f, n)) = n
           /\ \A k \in 1..n : Sie!Octets(x, f, n)[k] = [of |-> x, format |-> f, octet |-> k, octets |-> n]
  <1> DEFINE o == Sie!Octets(x, f, n)
             r(k) == [of |-> x, format |-> f, octet |-> k, octets |-> n]
  <1>1. o = [k \in 1..n |-> r(k)]
    BY DEF Sie!Octets
  <1>2. \A k \in 1..n : r(k) \in OctetOf
    BY DEF OctetOf
  <1> HIDE DEF r
  <1>3. o \in Seq(OctetOf) /\ Len(o) = n /\ \A k \in 1..n : o[k] = r(k)
    <2> HIDE DEF o
    <2> QED
      BY <1>1, <1>2
  <1> QED
    BY <1>3 DEF r

(* A reader that is in step reads the number.                               *)
LEMMA NumberRead ==
    ASSUME NEW data \in Seq(OctetOf), NEW at \in Nat, NEW x \in Int, NEW f \in Formats, NEW n \in Nat \ {0},
           HoldsAt(data, at, Sie!Octets(x, f, n))
    PROVE  Sie!NumberOf(SubSeq(data, at + 1, Sie!Min({at + n, Len(data)})), f) = x
  <1> DEFINE o == Sie!Octets(x, f, n)
             r == SubSeq(data, at + 1, at + n)
  <1>1. Len(o) = n /\ o \in Seq(OctetOf) /\ o[1].of = x /\ Len(data) \in Nat
    <2>1. /\ o \in Seq(OctetOf) /\ Len(o) = n
          /\ \A k \in 1..n : o[k] = [of |-> x, format |-> f, octet |-> k, octets |-> n]
      BY OctetsFacts
    <2> HIDE DEF o
    <2> QED
      BY <2>1
  <1>2. o # <<>>
    <2> HIDE DEF o
    <2> QED
      BY <1>1
  <1>3. at + n <= Len(data) /\ \A i \in 1..n : data[at + i] = o[i]
    BY <1>1 DEF HoldsAt
  <1>4. Sie!Min({at + n, Len(data)}) = at + n
    <2> DEFINE S == {at + n, Len(data)}
    <2>1. at + n \in S /\ \A y \in S : at + n <= y /\ y \in Nat
      BY <1>3
    <2>2. Sie!Min(S) = CHOOSE z \in S : \A y \in S : z <= y
      BY Zenon DEF Sie!Min
    <2> HIDE DEF S
    <2>3. \A z \in S : (\A y \in S : z <= y) => z = at + n
      BY <2>1
    <2>4. Sie!Min(S) = at + n
      BY <2>1, <2>2, <2>3
    <2> QED
      BY <2>4 DEF S
  <1> HIDE DEF o
  <1>5. r = o
    <2>1. \A i \in (at + 1)..(at + n) : data[i] \in OctetOf
      BY <1>1, <1>3
    <2>2. at + 1 \in Int /\ at + n \in Int /\ at + 1 <= at + n /\ (at + n) - (at + 1) + 1 = n
      OBVIOUS
    <2>3. r \in Seq(OctetOf) /\ Len(r) = n /\ \A i \in 1..n : r[i] = data[at + i]
      <3>1. /\ r \in Seq(OctetOf)
            /\ Len(r) = IF at + 1 <= at + n THEN (at + n) - (at + 1) + 1 ELSE 0
            /\ \A i \in 1..((at + n) - (at + 1) + 1) : r[i] = data[(at + 1) + i - 1]
        BY <2>1, <2>2, SubSeqProperties
      <3>2. \A i \in 1..n : (at + 1) + i - 1 = at + i
        OBVIOUS
      <3> HIDE DEF r
      <3> QED
        BY <2>2, <3>1, <3>2
    <2> HIDE DEF r
    <2> QED
      BY <1>1, <1>3, <2>3, SeqEqual
  <1>6. Sie!NumberOf(o, f) = x
    <2>1. o = Sie!Octets(o[1].of, f, Len(o))
      BY <1>1 DEF o
    <2> QED
      BY <1>1, <1>2, <2>1, Zenon DEF Sie!NumberOf
  <1> QED
    BY <1>4, <1>5, <1>6

-----------------------------------------------------------------------------
(* The elements of decoders                                                 *)

(* An element has the attributes it was given.                              *)
LEMMA PairHas ==
    ASSUME NEW S, NEW n, NEW pairs \in Seq(S), NEW c, NEW id
    PROVE  Sie!Has(Made(n, Attributes(pairs), c, <<>>), id) <=> \E i \in 1..Len(pairs) : pairs[i][1] = id
  <1> DEFINE f == Attributes(pairs)
             e == Made(n, f, c, <<>>)
  <1>1. DOMAIN f = 1..Len(pairs) /\ \A i \in 1..Len(pairs) : f[i].id = pairs[i][1]
    <2>1. DOMAIN pairs = 1..Len(pairs)
      BY LenProperties
    <2> QED
      BY <2>1 DEF Attributes
  <1> HIDE DEF f
  <1>2. e.attributes = f
    BY MadeFields
  <1> HIDE DEF e
  <1>3. Sie!Has(e, id) <=> \E i \in DOMAIN e.attributes : e.attributes[i].id = id
    BY Zenon DEF Sie!Has
  <1> QED
    BY <1>1, <1>2, <1>3 DEF e, f

(* An element of these attributes and no others.                            *)
HasTwo(e, n, c, x1, x2, y1, y2) ==
    /\ e.name = n /\ e.children = c
    /\ Sie!Attribute(e, x1) = y1 /\ Sie!Attribute(e, x2) = y2
    /\ \A id : Sie!Has(e, id) <=> id = x1 \/ id = x2

HasThree(e, n, c, x1, x2, x3, y1, y2, y3) ==
    /\ e.name = n /\ e.children = c
    /\ Sie!Attribute(e, x1) = y1 /\ Sie!Attribute(e, x2) = y2 /\ Sie!Attribute(e, x3) = y3
    /\ \A id : Sie!Has(e, id) <=> id = x1 \/ id = x2 \/ id = x3

(* Elements made of two attributes.                                         *)
LEMMA TwoAttributes ==
    ASSUME NEW n, NEW x1, NEW x2, x1 # x2, NEW y1, NEW y2, NEW pairs, pairs = << <<x1, y1>>, <<x2, y2>> >>
    PROVE  /\ Sie!AddAttributes(Sie!Element(n), pairs) = Made(n, Attributes(pairs), <<>>, <<>>)
           /\ \A c : HasTwo(Made(n, Attributes(pairs), c, <<>>), n, c, x1, x2, y1, y2)
  <1> DEFINE S == {<<x1, y1>>, <<x2, y2>>}
             a == Attributes(pairs)
  <1>1. /\ pairs \in Seq(S) /\ Len(pairs) = 2
        /\ pairs[1][1] = x1 /\ pairs[1][2] = y1 /\ pairs[2][1] = x2 /\ pairs[2][2] = y2
    OBVIOUS
  <1>2. 1 \in 1..2 /\ 2 \in 1..2 /\ \A i \in 1..2 : i = 1 \/ i = 2
    OBVIOUS
  <1> HIDE DEF S
  <1>3. Alone(pairs, 1) /\ Alone(pairs, 2)
    BY <1>1, <1>2 DEF Alone
  <1>4. Sie!AddAttributes(Sie!Element(n), pairs) = Made(n, a, <<>>, <<>>)
    BY <1>1, WithAttributes
  <1>5. ASSUME NEW c
        PROVE  HasTwo(Made(n, a, c, <<>>), n, c, x1, x2, y1, y2)
    <2> DEFINE e == Made(n, a, c, <<>>)
    <2>1. e.name = n /\ e.children = c
      BY MadeFields
    <2>2. 1 \in 1..Len(pairs) /\ 2 \in 1..Len(pairs)
      BY <1>1
    <2>3. Sie!Attribute(e, pairs[1][1]) = pairs[1][2]
      BY ONLY <1>1, <1>3, <2>2, PairAttribute
    <2>4. Sie!Attribute(e, pairs[2][1]) = pairs[2][2]
      BY ONLY <1>1, <1>3, <2>2, PairAttribute
    <2>5. \A id : Sie!Has(e, id) <=> \E i \in 1..Len(pairs) : pairs[i][1] = id
      <3> TAKE id
      <3> QED
        BY ONLY <1>1, PairHas
    <2> HIDE DEF e
    <2>6. \A id : Sie!Has(e, id) <=> id = x1 \/ id = x2
      BY <1>1, <1>2, <2>5
    <2> QED
      BY <1>1, <2>1, <2>3, <2>4, <2>6, Zenon DEF e, HasTwo
  <1> QED
    BY <1>4, <1>5

(* Elements made of three attributes.                                       *)
LEMMA ThreeAttributes ==
    ASSUME NEW n, NEW x1, NEW x2, NEW x3, x1 # x2, x1 # x3, x2 # x3, NEW y1, NEW y2, NEW y3,
           NEW pairs, pairs = << <<x1, y1>>, <<x2, y2>>, <<x3, y3>> >>
    PROVE  /\ Sie!AddAttributes(Sie!Element(n), pairs) = Made(n, Attributes(pairs), <<>>, <<>>)
           /\ \A c : HasThree(Made(n, Attributes(pairs), c, <<>>), n, c, x1, x2, x3, y1, y2, y3)
  <1> DEFINE S == {<<x1, y1>>, <<x2, y2>>, <<x3, y3>>}
             a == Attributes(pairs)
  <1>1. /\ pairs \in Seq(S) /\ Len(pairs) = 3
        /\ pairs[1][1] = x1 /\ pairs[1][2] = y1 /\ pairs[2][1] = x2 /\ pairs[2][2] = y2
        /\ pairs[3][1] = x3 /\ pairs[3][2] = y3
    OBVIOUS
  <1>2. 1 \in 1..3 /\ 2 \in 1..3 /\ 3 \in 1..3 /\ \A i \in 1..3 : i = 1 \/ i = 2 \/ i = 3
    OBVIOUS
  <1> HIDE DEF S
  <1>3. Alone(pairs, 1) /\ Alone(pairs, 2) /\ Alone(pairs, 3)
    BY <1>1, <1>2 DEF Alone
  <1>4. Sie!AddAttributes(Sie!Element(n), pairs) = Made(n, a, <<>>, <<>>)
    BY <1>1, WithAttributes
  <1>5. ASSUME NEW c
        PROVE  HasThree(Made(n, a, c, <<>>), n, c, x1, x2, x3, y1, y2, y3)
    <2> DEFINE e == Made(n, a, c, <<>>)
    <2>1. e.name = n /\ e.children = c
      BY MadeFields
    <2>2. 1 \in 1..Len(pairs) /\ 2 \in 1..Len(pairs) /\ 3 \in 1..Len(pairs)
      BY <1>1
    <2>3. Sie!Attribute(e, pairs[1][1]) = pairs[1][2]
      BY ONLY <1>1, <1>3, <2>2, PairAttribute
    <2>4. Sie!Attribute(e, pairs[2][1]) = pairs[2][2]
      BY ONLY <1>1, <1>3, <2>2, PairAttribute
    <2>5. Sie!Attribute(e, pairs[3][1]) = pairs[3][2]
      BY ONLY <1>1, <1>3, <2>2, PairAttribute
    <2>6. \A id : Sie!Has(e, id) <=> \E i \in 1..Len(pairs) : pairs[i][1] = id
      <3> TAKE id
      <3> QED
        BY ONLY <1>1, PairHas
    <2> HIDE DEF e
    <2>7. \A id : Sie!Has(e, id) <=> id = x1 \/ id = x2 \/ id = x3
      BY <1>1, <1>2, <2>6
    <2> QED
      BY <1>1, <2>1, <2>3, <2>4, <2>5, <2>7, Zenon DEF e, HasThree
  <1> QED
    BY <1>4, <1>5

-----------------------------------------------------------------------------
(* The reader                                                               *)

(* The state of the reader: where it is, its variables, its samples.        *)
State(at, env, ss, data) == [at |-> at, env |-> env, samples |-> ss, data |-> data]

(* Its parts, and changes of them.                                          *)
LEMMA StateParts ==
    \A at, env, ss, data :
        LET st == State(at, env, ss, data)
        IN  /\ st.at = at /\ st.env = env /\ st.samples = ss /\ st.data = data
            /\ \A x : [st EXCEPT !.at = x] = State(x, env, ss, data)
            /\ \A x : [st EXCEPT !.samples = x] = State(at, env, x, data)
            /\ \A x : [st EXCEPT !.env = x] = State(at, x, ss, data)
  BY DEF State

(* The reader after a read.                                                 *)
AfterRead(st, at, v, x) == [st EXCEPT !.at = at, !.env[v] = x]

(* It has moved and set the variable.                                       *)
LEMMA StateAfterRead ==
    \A at, env, ss, data, y, v, z :
        AfterRead(State(at, env, ss, data), y, v, z) = State(y, [env EXCEPT ![v] = z], ss, data)
  <1> TAKE at, env, ss, data, y, v, z
  <1> DEFINE st == State(at, env, ss, data)
             su == State(y, env, ss, data)
             e == [env EXCEPT ![v] = z]
  <1>1. [st EXCEPT !.at = y, !.env[v] = z] = [[st EXCEPT !.at = y] EXCEPT !.env[v] = z]
    OBVIOUS
  <1>2. [st EXCEPT !.at = y] = su
    BY DEF State
  <1>3. [su EXCEPT !.env[v] = z] = [su EXCEPT !.env = [su.env EXCEPT ![v] = z]]
    OBVIOUS
  <1>4. su.env = env
    BY DEF State
  <1>5. [su EXCEPT !.env = e] = State(y, e, ss, data)
    <2> HIDE DEF e
    <2> QED
      BY DEF State
  <1> HIDE DEF st, su
  <1>6. [su EXCEPT !.env[v] = z] = [su EXCEPT !.env = e]
    <2>1. [su.env EXCEPT ![v] = z] = e
      BY <1>4
    <2> HIDE DEF e
    <2> QED
      BY <1>3, <2>1
  <1> HIDE DEF e
  <1>7. [[st EXCEPT !.at = y] EXCEPT !.env[v] = z] = [su EXCEPT !.env[v] = z]
    BY <1>2
  <1> QED
    BY <1>1, <1>5, <1>6, <1>7, Zenon DEF st, e, AfterRead

(* A read of n octets of a format, where they hold x.                       *)
Reads(c, v, f, n) ==
    /\ c.name = "read" /\ Sie!Attribute(c, "var") = v /\ Sie!Attribute(c, "type") = f
    /\ \/ Sie!Has(c, "octets") /\ Sie!Attribute(c, "octets") = n
       \/ ~Sie!Has(c, "octets") /\ Sie!Attribute(c, "bits") \div 8 = n

(* The reads that the decoders are made of.                                 *)
LEMMA ReadScalarReads ==
    ASSUME NEW v, NEW f, NEW b
    PROVE  Reads(Sie!ReadScalar(v, f, b), v, f, b \div 8)
  <1> DEFINE pairs == << <<"var", v>>, <<"type", f>>, <<"bits", b>> >>
             e == Made("read", Attributes(pairs), <<>>, <<>>)
  <1> HIDE DEF pairs
  <1>1. /\ Sie!AddAttributes(Sie!Element("read"), pairs) = e
        /\ HasThree(e, "read", <<>>, "var", "type", "bits", v, f, b)
    <2>1. "var" # "type" /\ "var" # "bits" /\ "type" # "bits"
      OBVIOUS
    <2>2. pairs = << <<"var", v>>, <<"type", f>>, <<"bits", b>> >>
      BY DEF pairs
    <2> QED
      BY <2>1, <2>2, ThreeAttributes
  <1>2. Sie!ReadScalar(v, f, b) = e
    BY <1>1, Zenon DEF Sie!ReadScalar, pairs
  <1>3. "octets" # "var" /\ "octets" # "type" /\ "octets" # "bits"
    OBVIOUS
  <1> QED
    BY <1>1, <1>2, <1>3, Zenon DEF Reads, HasThree

(* ReadRaw reads n octets into v as they are.                               *)
LEMMA ReadRawReads ==
    ASSUME NEW v, NEW n
    PROVE  Reads(Sie!ReadRaw(v, n), v, "raw", n)
  <1> DEFINE pairs == << <<"var", v>>, <<"type", "raw">>, <<"octets", n>> >>
             e == Made("read", Attributes(pairs), <<>>, <<>>)
  <1> HIDE DEF pairs
  <1>1. /\ Sie!AddAttributes(Sie!Element("read"), pairs) = e
        /\ HasThree(e, "read", <<>>, "var", "type", "octets", v, "raw", n)
    <2>1. "var" # "type" /\ "var" # "octets" /\ "type" # "octets"
      OBVIOUS
    <2>2. pairs = << <<"var", v>>, <<"type", "raw">>, <<"octets", n>> >>
      BY DEF pairs
    <2> QED
      BY <2>1, <2>2, ThreeAttributes
  <1>2. Sie!ReadRaw(v, n) = e
    BY <1>1, Zenon DEF Sie!ReadRaw, pairs
  <1> QED
    BY <1>1, <1>2, Zenon DEF Reads, HasThree

(* A read element takes a number of the data into its variable.             *)
LEMMA StepRead ==
    ASSUME NEW c, NEW v, NEW f \in Formats, NEW n \in Nat \ {0}, Reads(c, v, f, n),
           NEW at \in Nat, NEW env, NEW ss, NEW data \in Seq(OctetOf), NEW x \in Int,
           HoldsAt(data, at, Sie!Octets(x, f, n))
    PROVE  Sie!Step(State(at, env, ss, data), c) = State(at + n, [env EXCEPT ![v] = x], ss, data)
  <1> DEFINE st == State(at, env, ss, data)
             m == IF Sie!Has(c, "octets") THEN Sie!Attribute(c, "octets") ELSE Sie!Attribute(c, "bits") \div 8
  <1>1. st.at = at /\ st.env = env /\ st.data = data
    BY StateParts
  <1>2. Sie!NumberOf(SubSeq(data, at + 1, Sie!Min({at + n, Len(data)})), f) = x
    BY NumberRead
  <1>3. c.name = "read" /\ Sie!Attribute(c, "var") = v /\ Sie!Attribute(c, "type") = f /\ m = n
    BY Zenon DEF Reads
  <1> HIDE DEF m
  <1>4. Sie!Step(st, c) = Sie!ReadStep(c, st)
    <2> HIDE DEF st
    <2>1. c.name = "read"
      BY <1>3
    <2> QED
      BY <2>1 DEF Sie!Step
  <1>5. Sie!ReadStep(c, st)
          = [st EXCEPT !.at = @ + m,
                       !.env[Sie!Attribute(c, "var")] =
                           Sie!NumberOf(SubSeq(st.data, st.at + 1, Sie!Min({st.at + m, Len(st.data)})),
                                        Sie!Attribute(c, "type"))]
    BY Zenon DEF Sie!ReadStep, m
  <1>6. Sie!ReadStep(c, st) = AfterRead(st, at + n, v, x)
    BY <1>1, <1>2, <1>3, <1>5, Zenon DEF AfterRead
  <1>7. AfterRead(st, at + n, v, x) = State(at + n, [env EXCEPT ![v] = x], ss, data)
    BY StateAfterRead
  <1> QED
    BY <1>4, <1>6, <1>7

(* A sample element adds the variables as they are to the samples.          *)
LEMMA StepSample ==
    ASSUME NEW at, NEW env, NEW ss, NEW data
    PROVE  Sie!Step(State(at, env, ss, data), Sie!SampleElement) = State(at, env, Append(ss, env), data)
  <1> DEFINE st == State(at, env, ss, data)
             c == Sie!SampleElement
  <1>1. c.name = "sample"
    BY DEF Sie!SampleElement, Sie!Element
  <1>2. st.samples = ss /\ st.env = env /\ \A x : [st EXCEPT !.samples = x] = State(at, env, x, data)
    BY StateParts
  <1> HIDE DEF st, c
  <1>3. Sie!Step(st, c) = [st EXCEPT !.samples = Append(@, st.env)]
    BY <1>1 DEF Sie!Step
  <1>4. [st EXCEPT !.samples = Append(@, st.env)] = [st EXCEPT !.samples = Append(ss, env)]
    BY <1>2, Zenon
  <1> QED
    BY <1>2, <1>3, <1>4 DEF st, c

(* A seek moves the reader to the value of its expression.                  *)
LEMMA StepSeek ==
    ASSUME NEW at, NEW env, NEW ss, NEW data, NEW from, NEW x
    PROVE  Sie!Step(State(at, env, ss, data), Sie!SeekElement(from, x)) = State(Sie!Evaluate(x, env), env, ss, data)
  <1> DEFINE st == State(at, env, ss, data)
             pairs == << <<"from", from>>, <<"offset", x>> >>
             e == Made("seek", Attributes(pairs), <<>>, <<>>)
             c == Sie!SeekElement(from, x)
  <1> HIDE DEF pairs
  <1>1. Sie!AddAttributes(Sie!Element("seek"), pairs) = e /\ HasTwo(e, "seek", <<>>, "from", "offset", from, x)
    <2>1. "from" # "offset"
      OBVIOUS
    <2>2. pairs = << <<"from", from>>, <<"offset", x>> >>
      BY DEF pairs
    <2> QED
      BY <2>1, <2>2, TwoAttributes
  <1>2. c = e
    BY <1>1, Zenon DEF Sie!SeekElement, pairs
  <1>3. st.env = env /\ \A y : [st EXCEPT !.at = y] = State(y, env, ss, data)
    BY StateParts
  <1> HIDE DEF st, e
  <1>4. c.name = "seek" /\ Sie!Attribute(c, "offset") = x
    BY <1>1, <1>2, Zenon DEF HasTwo
  <1> HIDE DEF c
  <1>5. Sie!Step(st, c) = [st EXCEPT !.at = Sie!Evaluate(Sie!Attribute(c, "offset"), st.env)]
    BY <1>4 DEF Sie!Step
  <1> QED
    BY <1>3, <1>4, <1>5 DEF st, c

-----------------------------------------------------------------------------
(* Loops                                                                    *)

(* A loop: its variable is set, and its turns are a recursive function of   *)
(* their number.                                                            *)
Begun(st, c) ==
    [st EXCEPT !.env[Sie!Attribute(c, "var")] = Sie!Evaluate(Sie!Attribute(c, "start"), st.env)]

AreTurns(f, st, c) == f = [k \in Nat |-> IF k = 0 THEN Begun(st, c) ELSE Sie!Turn(c, f[k - 1])]

(* A loop of m turns ends where the m-th of them does.                      *)
LEMMA LoopIs ==
    ASSUME NEW st, Len(st.data) \in Nat, NEW c, NEW m \in 0..Len(st.data), NEW q, q[0] = Begun(st, c),
           \A k \in 0..(m - 1) : ~Sie!Ended(c, q[k]) /\ Sie!Turn(c, q[k]) = q[k + 1],
           Sie!Ended(c, q[m])
    PROVE  Sie!Loop(st, c) = q[m]
  <1> DEFINE g == [k \in Nat |-> q[IF k <= m THEN k ELSE m]]
             F == CHOOSE f : AreTurns(f, st, c)
             b == Begun(st, c)
  <1> HIDE DEF b
  <1>1. m \in Nat /\ m <= Len(st.data) /\ q[0] = b
    BY DEF b
  <1>2. Sie!Turn(c, q[m]) = q[m]
    BY Zenon DEF Sie!Turn
  <1>3. ASSUME NEW k \in Nat
        PROVE  g[k] = IF k = 0 THEN b ELSE Sie!Turn(c, g[k - 1])
    <2>1. CASE k = 0
      BY <1>1, <2>1
    <2>2. CASE k # 0 /\ k <= m
      <3>1. k - 1 \in 0..(m - 1) /\ (k - 1) + 1 = k /\ k - 1 \in Nat /\ k - 1 <= m
        BY <1>1, <2>2
      <3>2. g[k] = q[k] /\ g[k - 1] = q[k - 1]
        BY <2>2, <3>1
      <3>3. Sie!Turn(c, q[k - 1]) = q[k]
        <4>1. Sie!Turn(c, q[k - 1]) = q[(k - 1) + 1]
          BY <3>1
        <4> QED
          BY <3>1, <4>1
      <3> QED
        BY <2>2, <3>2, <3>3
    <2>3. CASE k # 0 /\ ~(k <= m)
      <3>1. k - 1 \in Nat /\ g[k] = q[m] /\ g[k - 1] = q[m]
        <4>1. k - 1 \in Nat /\ (k - 1 <= m => k - 1 = m)
          BY <1>1, <2>3
        <4> QED
          BY <2>3, <4>1
      <3> QED
        BY <1>2, <2>3, <3>1
    <2> QED
      BY <2>1, <2>2, <2>3
  <1>4. AreTurns(g, st, c)
    <2>1. g = [k \in Nat |-> g[k]]
      OBVIOUS
    <2> HIDE DEF g
    <2>2. g = [k \in Nat |-> IF k = 0 THEN b ELSE Sie!Turn(c, g[k - 1])]
      BY <1>3, <2>1
    <2> QED
      BY <2>2, Zenon DEF AreTurns, b
  <1>5. AreTurns(F, st, c)
    BY <1>4
  <1>6. Sie!Loop(st, c) = F[CHOOSE k \in 0..Len(st.data) : Sie!Ended(c, F[k])]
    BY Zenon DEF Sie!Loop, AreTurns, Begun
  <1> HIDE DEF F
  <1>7. \A k \in Nat : F[k] = IF k = 0 THEN b ELSE Sie!Turn(c, F[k - 1])
    BY <1>5, Zenon DEF AreTurns, b
  <1>8. \A k \in Nat : F[k] = g[k]
    <2> DEFINE S == {k \in Nat : F[k] = g[k]}
    <2> HIDE DEF g
    <2>1. 0 \in S
      BY <1>3, <1>7
    <2>2. ASSUME NEW k \in Nat, k \in S
          PROVE  k + 1 \in S
      <3>1. k + 1 \in Nat /\ k + 1 # 0 /\ (k + 1) - 1 = k /\ F[k] = g[k]
        BY <2>2
      <3>2. F[k + 1] = Sie!Turn(c, F[(k + 1) - 1]) /\ g[k + 1] = Sie!Turn(c, g[(k + 1) - 1])
        BY <1>3, <1>7, <3>1
      <3> QED
        BY <3>1, <3>2
    <2>3. Nat \subseteq S
      <3> HIDE DEF S
      <3> QED
        BY <2>1, <2>2, NatRec!SetInduction
    <2> QED
      BY <2>3
  <1>9. \A k \in Nat : g[k] = q[IF k <= m THEN k ELSE m]
    OBVIOUS
  <1> HIDE DEF g
  <1> DEFINE e == CHOOSE k \in 0..Len(st.data) : Sie!Ended(c, F[k])
  <1>10. e \in 0..Len(st.data) /\ Sie!Ended(c, F[e])
    <2>1. m \in 0..Len(st.data) /\ Sie!Ended(c, F[m])
      <3>1. F[m] = q[m]
        BY <1>1, <1>8, <1>9
      <3> QED
        BY <3>1
    <2> QED
      BY <2>1
  <1> HIDE DEF e
  <1>11. e \in Nat
    BY <1>10
  <1>12. ~(e <= m) \/ e = m
    <2> SUFFICES ASSUME e <= m, e # m
                 PROVE  FALSE
      OBVIOUS
    <2>1. e \in 0..(m - 1) /\ F[e] = q[e]
      BY <1>1, <1>8, <1>9, <1>11
    <2> QED
      BY <1>10, <2>1
  <1>13. F[e] = q[m]
    BY <1>8, <1>9, <1>11, <1>12
  <1> QED
    BY <1>6, <1>13 DEF e

-----------------------------------------------------------------------------
(* Expressions                                                              *)

(* The values of the expressions that decoders use.                         *)
LEMMA EvaluateNumber ==
    ASSUME NEW a \in Int, NEW env
    PROVE  Sie!Evaluate(Sie!Number(a), env) = a
  <1> DEFINE x == Sie!Number(a)
  <1>1. x.constant = a /\ DOMAIN x.factors = {}
    BY DEF Sie!Number, Sie!Expression
  <1> HIDE DEF x
  <1> QED
    BY <1>1 DEF Sie!Evaluate, Sie!Term, x

(* An expression of the offset alone.                                       *)
LEMMA EvaluateOffset ==
    ASSUME NEW a \in Int, NEW env, env["offset"] \in Int
    PROVE  Sie!Evaluate(Sie!Expression(a, [offset |-> 1]), env) = a + env["offset"]
  <1> DEFINE x == Sie!Expression(a, [offset |-> 1])
             e == env["offset"]
  <1>1. x.constant = a /\ DOMAIN x.factors = {"offset"} /\ x.factors["offset"] = 1
    BY DEF Sie!Expression
  <1>2. "n" # "offset" /\ "i" # "offset"
    OBVIOUS
  <1> HIDE DEF x
  <1>3. Sie!Term(x, "n", env) = 0 /\ Sie!Term(x, "i", env) = 0 /\ Sie!Term(x, "offset", env) = 1 * e
    BY <1>1, <1>2 DEF Sie!Term
  <1> HIDE DEF e
  <1>4. e \in Int
    BY DEF e
  <1>5. Sie!Evaluate(x, env) = a + e
    BY <1>1, <1>3, <1>4 DEF Sie!Evaluate
  <1> QED
    BY <1>5 DEF e, x

(* An expression of the number of messages.                                 *)
LEMMA EvaluateCount ==
    ASSUME NEW a \in Int, NEW env, env["n"] \in Int
    PROVE  Sie!Evaluate(Sie!Expression(a, [n |-> 1]), env) = a + env["n"]
  <1> DEFINE x == Sie!Expression(a, [n |-> 1])
             e == env["n"]
  <1>1. x.constant = a /\ DOMAIN x.factors = {"n"} /\ x.factors["n"] = 1
    BY DEF Sie!Expression
  <1>2. "offset" # "n" /\ "i" # "n"
    OBVIOUS
  <1> HIDE DEF x
  <1>3. Sie!Term(x, "offset", env) = 0 /\ Sie!Term(x, "i", env) = 0 /\ Sie!Term(x, "n", env) = 1 * e
    BY <1>1, <1>2 DEF Sie!Term
  <1> HIDE DEF e
  <1>4. e \in Int
    BY DEF e
  <1>5. Sie!Evaluate(x, env) = a + e
    BY <1>1, <1>3, <1>4 DEF Sie!Evaluate
  <1> QED
    BY <1>5 DEF e, x

(* An expression of the loop variable.                                      *)
LEMMA EvaluateIndex ==
    ASSUME NEW a \in Int, NEW b \in Int, NEW env, env["i"] \in Int
    PROVE  Sie!Evaluate(Sie!Expression(a, [i |-> b]), env) = a + b * env["i"]
  <1> DEFINE x == Sie!Expression(a, [i |-> b])
             e == env["i"]
             t == b * e
  <1>1. x.constant = a /\ DOMAIN x.factors = {"i"} /\ x.factors["i"] = b
    BY DEF Sie!Expression
  <1>2. "offset" # "i" /\ "n" # "i"
    OBVIOUS
  <1> HIDE DEF x
  <1>3. Sie!Term(x, "offset", env) = 0 /\ Sie!Term(x, "n", env) = 0 /\ Sie!Term(x, "i", env) = t
    BY <1>1, <1>2 DEF Sie!Term
  <1>4. t \in Int
    OBVIOUS
  <1> HIDE DEF t
  <1>5. Sie!Evaluate(x, env) = a + t
    BY <1>1, <1>3, <1>4 DEF Sie!Evaluate
  <1> QED
    BY <1>5 DEF t, x

(* An expression of both.                                                   *)
LEMMA EvaluateCountIndex ==
    ASSUME NEW a \in Int, NEW b \in Int, NEW c \in Int, NEW env, env["n"] \in Int, env["i"] \in Int
    PROVE  Sie!Evaluate(Sie!Expression(a, [n |-> b, i |-> c]), env) = a + b * env["n"] + c * env["i"]
  <1> DEFINE x == Sie!Expression(a, [n |-> b, i |-> c])
             t == b * env["n"]
             u == c * env["i"]
  <1>1. x.constant = a /\ DOMAIN x.factors = {"n", "i"} /\ x.factors["n"] = b /\ x.factors["i"] = c
    BY DEF Sie!Expression
  <1>2. "offset" # "i" /\ "offset" # "n"
    OBVIOUS
  <1> HIDE DEF x
  <1>3. Sie!Term(x, "offset", env) = 0 /\ Sie!Term(x, "n", env) = t /\ Sie!Term(x, "i", env) = u
    BY <1>1, <1>2 DEF Sie!Term
  <1>4. t \in Int /\ u \in Int
    OBVIOUS
  <1> HIDE DEF t, u
  <1>5. Sie!Evaluate(x, env) = a + t + u
    BY <1>1, <1>3, <1>4 DEF Sie!Evaluate
  <1> QED
    BY <1>5 DEF t, u, x

(* The reader with a variable set.                                          *)
WithVariable(st, v, x) == [st EXCEPT !.env[v] = x]

(* Setting a variable of the state sets it in the environment.              *)
LEMMA StateWithVariable ==
    \A at, env, ss, data, v, z :
        WithVariable(State(at, env, ss, data), v, z) = State(at, [env EXCEPT ![v] = z], ss, data)
  <1> TAKE at, env, ss, data, v, z
  <1> DEFINE su == State(at, env, ss, data)
             e == [env EXCEPT ![v] = z]
  <1>1. [su EXCEPT !.env[v] = z] = [su EXCEPT !.env = [su.env EXCEPT ![v] = z]]
    OBVIOUS
  <1>2. su.env = env
    BY DEF State
  <1>3. [su EXCEPT !.env = e] = State(at, e, ss, data)
    <2> HIDE DEF e
    <2> QED
      BY DEF State
  <1> HIDE DEF su
  <1>4. [su EXCEPT !.env[v] = z] = [su EXCEPT !.env = e]
    <2>1. [su.env EXCEPT ![v] = z] = e
      BY <1>2
    <2> HIDE DEF e
    <2> QED
      BY <1>1, <2>1
  <1> HIDE DEF e
  <1> QED
    BY <1>3, <1>4, Zenon DEF su, e, WithVariable

(* A table of n entries, and one more.                                      *)
LEMMA AppendEntry ==
    ASSUME NEW n \in Nat, NEW t, DOMAIN t = 1..(n + 1), t = [k \in 1..(n + 1) |-> t[k]],
           NEW s, s = [k \in 1..n |-> t[k]]
    PROVE  Append(s, t[n + 1]) = t
  <1> DEFINE T == {t[k] : k \in 1..(n + 1)}
  <1>1. \A k \in 1..(n + 1) : t[k] \in T
    OBVIOUS
  <1> HIDE DEF T
  <1>2. t \in Seq(T) /\ Len(t) = n + 1 /\ s \in Seq(T) /\ Len(s) = n /\ n + 1 \in 1..(n + 1)
    <2>1. n + 1 \in Nat /\ n + 1 \in 1..(n + 1) /\ \A k \in 1..n : k \in 1..(n + 1)
      OBVIOUS
    <2>2. t \in [1..(n + 1) -> T]
      BY <1>1
    <2>3. t \in Seq(T) /\ Len(t) = n + 1
      BY <2>1, <2>2
    <2>4. s \in [1..n -> T]
      BY <1>1, <2>1
    <2>5. s \in Seq(T) /\ Len(s) = n
      BY ONLY <2>4, n \in Nat
    <2> QED
      BY <2>1, <2>3, <2>5
  <1> DEFINE u == Append(s, t[n + 1])
  <1>3. /\ u \in Seq(T) /\ Len(u) = n + 1 /\ \A i \in 1..n : u[i] = s[i]
        /\ u[n + 1] = t[n + 1]
    <2>1. t[n + 1] \in T
      BY <1>1, <1>2
    <2> QED
      BY <1>2, <2>1, AppendProperties
  <1> HIDE DEF u
  <1>4. \A i \in 1..(n + 1) : u[i] = t[i]
    <2> TAKE i \in 1..(n + 1)
    <2>1. CASE i = n + 1
      BY <1>3, <2>1
    <2>2. CASE i # n + 1
      <3>1. i \in 1..n
        BY <2>2
      <3> QED
        BY <1>2, <1>3, <3>1
    <2> QED
      BY <2>1, <2>2
  <1> QED
    BY <1>2, <1>3, <1>4, SeqEqual DEF u

(* The names of the variables.                                              *)
LEMMA VariableFacts ==
    /\ Len(VariableNames) \in Nat /\ Len(VariableNames) >= 2
    /\ \A k \in 0..(Len(VariableNames) - 1) :
          /\ Sie!V(k) \in Sie!Variables /\ Sie!V(k) # "n" /\ Sie!V(k) # "i" /\ Sie!V(k) # "offset"
          /\ \A j \in 0..(Len(VariableNames) - 1) : Sie!V(j) = Sie!V(k) => j = k
    /\ {"n", "i", "offset"} \subseteq Sie!Variables
  <1> DEFINE R == Sie!Range(VariableNames)
  <1>1. /\ VariableNames \in Seq(R) /\ Len(VariableNames) >= 2
        /\ Sie!IsInjective(VariableNames) /\ {"n", "i", "offset"} \cap R = {}
    BY SamplesAssumed DEF Sie!SieSamplesAssumption
  <1> HIDE DEF R
  <1>2. Len(VariableNames) \in Nat /\ DOMAIN VariableNames = 1..Len(VariableNames)
    BY <1>1, LenProperties
  <1>3. \A i, j \in DOMAIN VariableNames : VariableNames[i] = VariableNames[j] => i = j
    BY <1>1, Zenon DEF Sie!IsInjective
  <1>4. \A k \in 1..Len(VariableNames) : VariableNames[k] \in R
    BY <1>1, ElementOfSeq
  <1>5. Sie!Variables = R \cup {"n", "i", "offset"}
    BY DEF Sie!Variables, R
  <1>6. ASSUME NEW k \in 0..(Len(VariableNames) - 1)
        PROVE  /\ Sie!V(k) \in Sie!Variables /\ Sie!V(k) # "n" /\ Sie!V(k) # "i" /\ Sie!V(k) # "offset"
               /\ \A j \in 0..(Len(VariableNames) - 1) : Sie!V(j) = Sie!V(k) => j = k
    <2>1. \A j \in 0..(Len(VariableNames) - 1) : j + 1 \in 1..Len(VariableNames) /\ j \in Int
      BY <1>2
    <2>2. \A j \in 0..(Len(VariableNames) - 1) : Sie!V(j) = VariableNames[j + 1] /\ Sie!V(j) \in R
      BY <1>4, <2>1 DEF Sie!V
    <2>3. \A j \in 0..(Len(VariableNames) - 1) : Sie!V(j) = Sie!V(k) => j + 1 = k + 1
      BY <1>2, <1>3, <2>1, <2>2
    <2>4. \A j \in 0..(Len(VariableNames) - 1) : Sie!V(j) = Sie!V(k) => j = k
      BY <2>1, <2>3
    <2>5. Sie!V(k) \in R
      BY <2>2
    <2> QED
      BY <1>1, <1>5, <2>4, <2>5
  <1>7. {"n", "i", "offset"} \subseteq Sie!Variables
    BY <1>5
  <1> QED
    BY <1>1, <1>2, <1>6, <1>7

(* A header and parts of one width.                                         *)
Joined(a, s) == a \o Sie!FlattenSeq(s)
Extent(h, w, n) == h + w * n

(* The parts lie where the header and the width say.                        *)
LEMMA HeaderAndParts ==
    ASSUME NEW T, NEW a \in Seq(T), NEW s \in Seq(Seq(T)), NEW w \in Nat, \A i \in 1..Len(s) : Len(s[i]) = w
    PROVE  /\ Joined(a, s) \in Seq(T) /\ HoldsAt(Joined(a, s), 0, a)
           /\ Len(Joined(a, s)) = Extent(Len(a), w, Len(s))
           /\ \A i \in 1..Len(s) : HoldsAt(Joined(a, s), Extent(Len(a), w, i - 1), s[i])
  <1> DEFINE b == Sie!FlattenSeq(s)
             data == Joined(a, s)
             h == Len(a)
  <1>0. h \in Nat
    OBVIOUS
  <1>1. /\ b \in Seq(T) /\ Len(b) = w * Len(s)
        /\ \A i \in 1..Len(s) : w * (i - 1) \in Nat /\ HoldsAt(b, w * (i - 1), s[i])
    BY FlattenEven
  <1>2. Len(s) \in Nat /\ \A i \in 1..Len(s) : Len(s[i]) \in Nat
    BY LenProperties, ElementOfSeq
  <1> HIDE DEF b
  <1>3. data \in Seq(T) /\ Len(data) = h + Len(b) /\ HoldsAt(data, 0, a) /\ HoldsAt(data, h, b)
    <2>1. data = a \o b
      BY DEF b, Joined
    <2>2. /\ a \o b \in Seq(T) /\ Len(a \o b) = Len(a) + Len(b)
          /\ HoldsAt(a \o b, 0, a) /\ HoldsAt(a \o b, Len(a), b)
      BY ONLY a \in Seq(T), <1>1, HoldsParts
    <2> QED
      BY <2>1, <2>2
  <1> HIDE DEF data, h
  <1>4. ASSUME NEW i \in 1..Len(s)
        PROVE  HoldsAt(data, h + w * (i - 1), s[i])
    <2> DEFINE q == w * (i - 1)
               t == s[i]
    <2>1. q \in Nat /\ HoldsAt(b, q, t) /\ Len(t) \in Nat /\ Len(data) \in Nat /\ Len(b) \in Nat
      BY <1>1, <1>2, <1>3
    <2> HIDE DEF q, t
    <2>2. HoldsAt(data, h + q, t)
      BY <1>0, <1>3, <2>1, HoldsWithin
    <2> QED
      BY <2>2 DEF q, t
  <1> QED
    BY <1>1, <1>3, <1>4 DEF data, b, h, Extent

-----------------------------------------------------------------------------
(* Scalars                                                                  *)

(* The variables of a scalar decoder: the offset, the time and the value.   *)
ScalarEnv(off, x, y) ==
    [v \in Sie!Variables |->
        IF v = "offset" THEN off ELSE IF v = Sie!V(0) THEN x ELSE IF v = Sie!V(1) THEN y ELSE Sie!Garbage]

(* Their values, and what sets them.                                        *)
LEMMA ScalarEnvFacts ==
    \A off, x, y, z :
        /\ ScalarEnv(off, x, y)["offset"] = off
        /\ ScalarEnv(off, x, y)[Sie!V(0)] = x
        /\ ScalarEnv(off, x, y)[Sie!V(1)] = y
        /\ [ScalarEnv(off, x, y) EXCEPT ![Sie!V(0)] = z] = ScalarEnv(off, z, y)
        /\ [ScalarEnv(off, x, y) EXCEPT ![Sie!V(1)] = z] = ScalarEnv(off, x, z)
        /\ [[v \in Sie!Variables |-> Sie!Garbage] EXCEPT !["offset"] = off]
             = ScalarEnv(off, Sie!Garbage, Sie!Garbage)
  <1> TAKE off, x, y, z
  <1> DEFINE a == Sie!V(0)
             b == Sie!V(1)
             S == Sie!Variables
             g == Sie!Garbage
  <1>1. /\ a \in S /\ b \in S /\ "offset" \in S /\ a # b /\ a # "offset" /\ b # "offset"
    <2>1. 0 \in 0..(Len(VariableNames) - 1) /\ 1 \in 0..(Len(VariableNames) - 1)
      BY VariableFacts
    <2> QED
      BY <2>1, VariableFacts
  <1>2. \A p, q, r : ScalarEnv(p, q, r)
          = [v \in S |-> IF v = "offset" THEN p ELSE IF v = a THEN q ELSE IF v = b THEN r ELSE g]
    BY DEF ScalarEnv
  <1> HIDE DEF a, b, S, g
  <1>3. /\ ScalarEnv(off, x, y)["offset"] = off
        /\ ScalarEnv(off, x, y)[a] = x
        /\ ScalarEnv(off, x, y)[b] = y
    BY <1>1, <1>2
  <1>4. [ScalarEnv(off, x, y) EXCEPT ![a] = z] = ScalarEnv(off, z, y)
    BY <1>1, <1>2
  <1>5. [ScalarEnv(off, x, y) EXCEPT ![b] = z] = ScalarEnv(off, x, z)
    BY <1>1, <1>2
  <1>6. [[v \in S |-> g] EXCEPT !["offset"] = off] = ScalarEnv(off, g, g)
    BY <1>1, <1>2
  <1> QED
    BY <1>3, <1>4, <1>5, <1>6 DEF a, b, S, g

(* The loop of ScalarDecoder.                                               *)
ScalarBody(d) == <<Sie!ReadScalar(Sie!V(1), Sie!SieFormat(d.type), Sie!SieBits(d.type)), Sie!SampleElement>>
ScalarLoop(d) ==
    Sie!AddChildren(
        Sie!AddAttributes(Sie!Element("loop"),
            << <<"var", Sie!V(0)>>, <<"start", Sie!DomainStart(d)>>, <<"increment", Sie!Number(d.delta)>> >>),
        ScalarBody(d))

(* Its attributes.                                                          *)
LEMMA ScalarLoopParts ==
    ASSUME NEW d
    PROVE  HasThree(ScalarLoop(d), "loop", ScalarBody(d), "var", "start", "increment",
                    Sie!V(0), Sie!DomainStart(d), Sie!Number(d.delta))
  <1> DEFINE x == Sie!V(0)
             y == Sie!DomainStart(d)
             z == Sie!Number(d.delta)
             pairs == << <<"var", x>>, <<"start", y>>, <<"increment", z>> >>
             body == ScalarBody(d)
             S == {body[1], body[2]}
  <1>1. body \in Seq(S)
    BY DEF ScalarBody
  <1>2. ScalarLoop(d) = Sie!AddChildren(Sie!AddAttributes(Sie!Element("loop"), pairs), body)
    BY Zenon DEF ScalarLoop
  <1>3. "var" # "start" /\ "var" # "increment" /\ "start" # "increment"
    OBVIOUS
  <1> HIDE DEF x, y, z, body, S
  <1>4. pairs = << <<"var", x>>, <<"start", y>>, <<"increment", z>> >>
    OBVIOUS
  <1> HIDE DEF pairs
  <1>5. /\ Sie!AddAttributes(Sie!Element("loop"), pairs) = Made("loop", Attributes(pairs), <<>>, <<>>)
        /\ HasThree(Made("loop", Attributes(pairs), body, <<>>), "loop", body, "var", "start", "increment", x, y, z)
    BY <1>3, <1>4, ThreeAttributes
  <1>6. Sie!AddChildren(Made("loop", Attributes(pairs), <<>>, <<>>), body) = Made("loop", Attributes(pairs), body, <<>>)
    BY <1>1, WithChildren
  <1>7. ScalarLoop(d) = Made("loop", Attributes(pairs), body, <<>>)
    BY <1>2, <1>5, <1>6, Zenon
  <1> QED
    BY <1>5, <1>7, Zenon DEF x, y, z, body

(* A body of two elements.                                                  *)
LEMMA StepsTwo ==
    ASSUME NEW st, NEW a, NEW b, NEW body, body = <<a, b>>
    PROVE  Sie!Steps(st, body) = Sie!Step(Sie!Step(st, a), b)
  <1> DEFINE u == Sie!Step(st, a)
             v == Sie!Step(u, b)
             f == [i \in 0..2 |-> IF i = 0 THEN st ELSE IF i = 1 THEN u ELSE v]
  <1>1. f[0] = st /\ f[1] = u /\ f[2] = v
    <2> HIDE DEF u, v
    <2> QED
      OBVIOUS
  <1>2. DOMAIN body = 1..2 /\ body[1] = a /\ body[2] = b
    OBVIOUS
  <1> HIDE DEF f
  <1>3. ASSUME NEW i \in 1..2
        PROVE  f[i] = Sie!Step(f[i - 1], body[i])
    <2>1. CASE i = 1
      <3>1. i - 1 = 0
        BY <2>1
      <3> QED
        BY <1>1, <1>2, <2>1, <3>1
    <2>2. CASE i = 2
      <3>1. i - 1 = 1
        BY <2>2
      <3> QED
        BY <1>1, <1>2, <2>2, <3>1
    <2> QED
      BY <2>1, <2>2
  <1>4. Sie!Steps(st, body) = f[2]
    <2> DEFINE n == 2
    <2>1. n \in Nat /\ DOMAIN body = 1..n /\ f[0] = st /\ \A i \in 1..n : f[i] = Sie!Step(f[i - 1], body[i])
      BY <1>1, <1>2, <1>3
    <2> HIDE DEF n
    <2>2. Sie!Steps(st, body) = f[n]
      BY ONLY <2>1, StepsIs
    <2> QED
      BY <2>2 DEF n
  <1> QED
    BY <1>1, <1>4

(* A product grows with its factor.                                         *)
LEMMA TimesMonotone ==
    ASSUME NEW w \in Nat, NEW a \in Nat, NEW b \in Nat, a <= b
    PROVE  w * a <= w * b
  <1> DEFINE e == b - a
             p == w * a
             q == w * e
  <1>1. e \in Nat /\ b = a + e
    OBVIOUS
  <1> HIDE DEF e
  <1>2. w * b = p + q /\ p \in Nat /\ q \in Nat
    BY <1>1
  <1> HIDE DEF p, q
  <1>3. p <= w * b
    BY <1>2
  <1> QED
    BY <1>3 DEF p

(* The time and the samples after k turns of the loop, and the reader       *)
(* then.                                                                    *)
TimeOf(d, off, k) == off + d.start + k * d.delta
ScalarSamples(d, off, val, k) == [j \in 1..k |-> ScalarEnv(off, TimeOf(d, off, j - 1), val + j)]
ScalarTurns(d, off, val, w, data, k) ==
    State(8 + w * k, ScalarEnv(off, TimeOf(d, off, k), IF k = 0 THEN Sie!Garbage ELSE val + k),
          ScalarSamples(d, off, val, k), data)

(* One more sample.                                                         *)
LEMMA ScalarSamplesMore ==
    ASSUME NEW d, NEW off, NEW val, NEW k \in Nat
    PROVE  Append(ScalarSamples(d, off, val, k), ScalarEnv(off, TimeOf(d, off, k), val + (k + 1)))
             = ScalarSamples(d, off, val, k + 1)
  <1> DEFINE e(j) == ScalarEnv(off, TimeOf(d, off, j - 1), val + j)
             t == [j \in 1..(k + 1) |-> e(j)]
             s == [j \in 1..k |-> e(j)]
  <1>1. (k + 1) - 1 = k /\ k + 1 \in 1..(k + 1) /\ \A j \in 1..k : j \in 1..(k + 1)
    OBVIOUS
  <1>2. e(k + 1) = ScalarEnv(off, TimeOf(d, off, k), val + (k + 1))
    BY <1>1
  <1>3. s = ScalarSamples(d, off, val, k) /\ t = ScalarSamples(d, off, val, k + 1)
    BY DEF ScalarSamples
  <1> HIDE DEF e
  <1>4. /\ DOMAIN t = 1..(k + 1) /\ t = [j \in 1..(k + 1) |-> t[j]] /\ t[k + 1] = e(k + 1)
        /\ s = [j \in 1..k |-> t[j]]
    BY <1>1
  <1> HIDE DEF s, t
  <1>5. Append(s, t[k + 1]) = t
    BY <1>4, AppendEntry
  <1> QED
    BY <1>2, <1>3, <1>4, <1>5

(* The data of a scalar packet from turn k on.                              *)
ScalarAhead(d, off, val, count, w, data, k) ==
    /\ d.start \in Int /\ d.delta \in Int /\ d.type \in Sie!SampleTypes
    /\ off \in Nat /\ val \in Nat /\ count \in Nat /\ w \in Nat \ {0} /\ w = Sie!SieBits(d.type) \div 8
    /\ data \in Seq(OctetOf) /\ Len(data) = 8 + w * count /\ k \in 0..(count - 1)
    /\ HoldsAt(data, 8 + w * k, Sie!Octets(val + (k + 1), Sie!SieFormat(d.type), w))

(* A turn of the loop, if the data hold the next value: it goes on, and     *)
(* has its sample.                                                          *)
LEMMA ScalarTurn ==
    ASSUME NEW d, NEW off, NEW val, NEW count, NEW w, NEW data, NEW k,
           ScalarAhead(d, off, val, count, w, data, k)
    PROVE  /\ ~Sie!Ended(ScalarLoop(d), ScalarTurns(d, off, val, w, data, k))
           /\ Sie!Turn(ScalarLoop(d), ScalarTurns(d, off, val, w, data, k))
                = ScalarTurns(d, off, val, w, data, k + 1)
  <1> SUFFICES ASSUME d.start \in Int, d.delta \in Int, d.type \in Sie!SampleTypes,
                      off \in Nat, val \in Nat, count \in Nat,
                      w \in Nat \ {0}, w = Sie!SieBits(d.type) \div 8,
                      data \in Seq(OctetOf), Len(data) = 8 + w * count, k \in 0..(count - 1),
                      HoldsAt(data, 8 + w * k, Sie!Octets(val + (k + 1), Sie!SieFormat(d.type), w))
               PROVE  /\ ~Sie!Ended(ScalarLoop(d), ScalarTurns(d, off, val, w, data, k))
                      /\ Sie!Turn(ScalarLoop(d), ScalarTurns(d, off, val, w, data, k))
                           = ScalarTurns(d, off, val, w, data, k + 1)
    BY Zenon DEF ScalarAhead
  <1> DEFINE L == ScalarLoop(d)
             body == ScalarBody(d)
             f == Sie!SieFormat(d.type)
             b == Sie!SieBits(d.type)
             at == 8 + w * k
             x == TimeOf(d, off, k)
             y == IF k = 0 THEN Sie!Garbage ELSE val + k
             z == val + (k + 1)
             ss == ScalarSamples(d, off, val, k)
             c == Sie!ReadScalar(Sie!V(1), f, b)
             st == State(at, ScalarEnv(off, x, y), ss, data)
             su == State(at + w, ScalarEnv(off, x, z), ss, data)
             sv == State(at + w, ScalarEnv(off, x, z), Append(ss, ScalarEnv(off, x, z)), data)
             v0 == Sie!V(0)
             v1 == Sie!V(1)
  <1>1. k \in Nat /\ k + 1 \in Nat /\ count \in Nat /\ k + 1 <= count
    OBVIOUS
  <1>2. at \in Nat /\ at < Len(data) /\ at + w = 8 + w * (k + 1)
    <2> DEFINE p == w * k
               q == w * (k + 1)
               r == w * count
    <2>1. p \in Nat /\ q = p + w
      BY ONLY <1>1, w \in Nat \ {0}
    <2>2. q <= r
      BY ONLY <1>1, w \in Nat \ {0}, TimesMonotone
    <2>3. r \in Nat
      BY ONLY <1>1, w \in Nat \ {0}
    <2>4. at = 8 + p /\ Len(data) = 8 + r
      OBVIOUS
    <2> HIDE DEF p, q, r, at
    <2>5. at \in Nat /\ at < Len(data) /\ at + w = 8 + q
      BY ONLY <2>1, <2>2, <2>3, <2>4, w \in Nat \ {0}
    <2> QED
      BY <2>5 DEF q
  <1>3. x \in Int /\ x + d.delta = TimeOf(d, off, k + 1)
    <2> DEFINE p == k * d.delta
               q == (k + 1) * d.delta
               a == off + d.start
    <2>1. p \in Int /\ q = p + d.delta
      BY ONLY <1>1, d.delta \in Int
    <2>2. a \in Int
      OBVIOUS
    <2>3. x = a + p /\ TimeOf(d, off, k + 1) = a + q
      BY DEF TimeOf
    <2> HIDE DEF p, q, a, x
    <2> QED
      BY ONLY <2>1, <2>2, <2>3, d.delta \in Int
  <1>4. z \in Int /\ (IF k + 1 = 0 THEN Sie!Garbage ELSE val + (k + 1)) = z
    BY <1>1
  <1>5. ScalarTurns(d, off, val, w, data, k) = st
    BY DEF ScalarTurns
  <1>6. HasThree(L, "loop", body, "var", "start", "increment", v0, Sie!DomainStart(d), Sie!Number(d.delta))
    BY ScalarLoopParts
  <1>7. body = <<c, Sie!SampleElement>>
    BY DEF ScalarBody
  <1>8. Reads(c, v1, f, w)
    BY ReadScalarReads
  <1>9. f \in Formats
    BY TypeFacts
  <1>h. HoldsAt(data, at, Sie!Octets(z, f, w))
    OBVIOUS
  <1>n. Sie!Number(d.delta).constant = d.delta
    BY DEF Sie!Number, Sie!Expression
  <1> HIDE DEF L, body, f, at, x, y, z, ss, c, v0, v1
  <1>10. Sie!Step(st, c) = State(at + w, [ScalarEnv(off, x, y) EXCEPT ![v1] = z], ss, data)
    BY ONLY <1>2, <1>4, <1>8, <1>9, <1>h, w \in Nat \ {0}, data \in Seq(OctetOf), StepRead
  <1>11. [ScalarEnv(off, x, y) EXCEPT ![v1] = z] = ScalarEnv(off, x, z)
    BY ScalarEnvFacts DEF v1
  <1>12. Sie!Step(su, Sie!SampleElement) = sv
    BY StepSample
  <1>13. Sie!Step(st, c) = su
    BY <1>10, <1>11
  <1>14. st.at = at /\ st.data = data /\ sv.env = ScalarEnv(off, x, z)
    BY StateParts
  <1>15. WithVariable(sv, v0, x + d.delta)
           = State(at + w, [ScalarEnv(off, x, z) EXCEPT ![v0] = x + d.delta], Append(ss, ScalarEnv(off, x, z)), data)
    BY StateWithVariable
  <1>16. [ScalarEnv(off, x, z) EXCEPT ![v0] = x + d.delta] = ScalarEnv(off, x + d.delta, z)
         /\ ScalarEnv(off, x, z)[v0] = x
    <2>1. \A y_1 : [ScalarEnv(off, x, z) EXCEPT ![v0] = y_1] = ScalarEnv(off, y_1, z)
      BY ScalarEnvFacts DEF v0
    <2>2. ScalarEnv(off, x, z)[v0] = x
      BY ScalarEnvFacts DEF v0
    <2> QED
      BY <2>1, <2>2
  <1>17. Append(ss, ScalarEnv(off, x, z)) = ScalarSamples(d, off, val, k + 1)
    BY <1>1, ScalarSamplesMore DEF ss, x, z
  <1>18. ScalarTurns(d, off, val, w, data, k + 1)
           = State(at + w, ScalarEnv(off, x + d.delta, z), ScalarSamples(d, off, val, k + 1), data)
    BY <1>2, <1>3, <1>4, Zenon DEF ScalarTurns
  <1> HIDE DEF st, su, sv
  <1>19. Sie!Steps(st, body) = sv
    BY <1>7, <1>12, <1>13, StepsTwo
  <1>20. /\ ~Sie!Has(L, "end") /\ Sie!Has(L, "increment") /\ L.children = body
         /\ Sie!Attribute(L, "increment") = Sie!Number(d.delta) /\ Sie!Attribute(L, "var") = v0
    <2>1. "end" # "var" /\ "end" # "start" /\ "end" # "increment"
      OBVIOUS
    <2> QED
      BY <1>6, <2>1, Zenon DEF HasThree
  <1>21. ~Sie!Ended(L, st)
    <2>1. ~(st.at >= Len(st.data))
      BY <1>2, <1>14
    <2> QED
      BY <1>20, <2>1, Zenon DEF Sie!Ended
  <1>22. Sie!Turn(L, st) = [Sie!Steps(st, L.children) EXCEPT !.env[v0] = @ + d.delta]
    BY <1>20, <1>21, <1>n, Zenon DEF Sie!Turn
  <1>23. Sie!Turn(L, st) = [sv EXCEPT !.env[v0] = sv.env[v0] + d.delta]
    BY <1>19, <1>20, <1>22
  <1>24. Sie!Turn(L, st) = WithVariable(sv, v0, x + d.delta)
    BY <1>14, <1>16, <1>23, Zenon DEF WithVariable
  <1>25. Sie!Turn(L, st) = ScalarTurns(d, off, val, w, data, k + 1)
    BY <1>15, <1>16, <1>17, <1>18, <1>24
  <1> QED
    BY <1>5, <1>21, <1>25 DEF L

(* The parts of a decoder.                                                  *)
LEMMA DecoderParts ==
    ASSUME NEW id, NEW S, NEW kids \in Seq(S)
    PROVE  LET e == Sie!AddChildren(Sie!Decoder(id), kids)
           IN  e.name = "decoder" /\ e.children = kids /\ Sie!Attribute(e, "id") = id
  <1> DEFINE none == <<>>
             r == [id |-> "id", value |-> id]
             a == <<r>>
  <1>1. Sie!Decoder(id) = Made("decoder", a, none, none)
    <2>1. Sie!Element("decoder") = Made("decoder", none, none, none)
      BY NewElement
    <2>2. a = Append(none, r)
      OBVIOUS
    <2> HIDE DEF none, a
    <2>3. \A v : Sie!AddAttribute(Made("decoder", none, none, none), "id", v)
                 = Made("decoder", Append(none, [id |-> "id", value |-> v]), none, none)
      BY MoreParts
    <2> QED
      BY <2>1, <2>2, <2>3, Zenon DEF Sie!Decoder
  <1>2. Sie!AddChildren(Made("decoder", a, none, none), kids) = Made("decoder", a, kids, none)
    <2> HIDE DEF a
    <2> QED
      BY WithChildren
  <1> DEFINE e == Made("decoder", a, kids, none)
  <1>3. e.name = "decoder" /\ e.children = kids /\ e.attributes = a
    <2> HIDE DEF a
    <2> QED
      BY MadeFields
  <1>4. DOMAIN a = {1} /\ a[1].id = "id" /\ a[1].value = id
    OBVIOUS
  <1> HIDE DEF a, e
  <1>5. Sie!Attribute(e, "id") = e.attributes[1].value
    <2>1. 1 \in DOMAIN e.attributes /\ e.attributes[1].id = "id" /\ \A i \in DOMAIN e.attributes : i = 1
      BY <1>3, <1>4
    <2> QED
      BY <2>1, AttributeValue
  <1> QED
    BY <1>1, <1>2, <1>3, <1>4, <1>5 DEF e

(* A decoder of two elements.                                               *)
LEMMA RunTwo ==
    ASSUME NEW decoder, NEW a, NEW b, decoder.children = <<a, b>>, NEW data
    PROVE  Sie!Run(decoder, data) = RunStep(RunStep(Started(data), a), b).samples
  <1> DEFINE st == Started(data)
             u == RunStep(st, a)
             v == RunStep(u, b)
             f == [i \in 0..2 |-> IF i = 0 THEN st ELSE IF i = 1 THEN u ELSE v]
             body == decoder.children
             n == 2
  <1>1. f[0] = st /\ f[1] = u /\ f[2] = v
    <2> HIDE DEF st, u, v
    <2> QED
      OBVIOUS
  <1>2. DOMAIN body = 1..2 /\ body[1] = a /\ body[2] = b
    OBVIOUS
  <1> HIDE DEF f, body
  <1>3. ASSUME NEW i \in 1..2
        PROVE  f[i] = RunStep(f[i - 1], body[i])
    <2>1. CASE i = 1
      <3>1. i - 1 = 0
        BY <2>1
      <3> QED
        BY <1>1, <1>2, <2>1, <3>1
    <2>2. CASE i = 2
      <3>1. i - 1 = 1
        BY <2>2
      <3> QED
        BY <1>1, <1>2, <2>2, <3>1
    <2> QED
      BY <2>1, <2>2
  <1>4. n \in Nat /\ DOMAIN decoder.children = 1..n /\ f[0] = Started(data)
        /\ \A i \in 1..n : f[i] = RunStep(f[i - 1], decoder.children[i])
    BY <1>1, <1>2, <1>3 DEF body
  <1> HIDE DEF n
  <1>5. Sie!Run(decoder, data) = f[n].samples
    BY ONLY <1>4, RunIs
  <1> QED
    BY <1>1, <1>5 DEF n

(* The payload of a scalar packet.                                          *)
ScalarParts(d, val, count) ==
    [k \in 1..count |-> Sie!Octets(val + k, Sie!SieFormat(d.type), Sie!SieBits(d.type) \div 8)]
ScalarData(d, off, val, count) == Sie!Octets(off, "int", 8) \o Sie!FlattenSeq(ScalarParts(d, val, count))

(* The payload holds the offset and after it every value.                   *)
LEMMA ScalarDataHolds ==
    ASSUME NEW d, d.type \in Sie!SampleTypes, NEW off \in Nat, NEW val \in Nat, NEW count \in Nat
    PROVE  LET w == Sie!SieBits(d.type) \div 8
               data == ScalarData(d, off, val, count)
           IN  /\ data \in Seq(OctetOf) /\ Len(data) = 8 + w * count /\ HoldsAt(data, 0, Sie!Octets(off, "int", 8))
               /\ \A k \in 0..(count - 1) :
                     HoldsAt(data, 8 + w * k, Sie!Octets(val + (k + 1), Sie!SieFormat(d.type), w))
  <1> DEFINE w == Sie!SieBits(d.type) \div 8
             f == Sie!SieFormat(d.type)
             s == ScalarParts(d, val, count)
             a == Sie!Octets(off, "int", 8)
             data == Joined(a, s)
  <1>1. w \in Nat \ {0} /\ f \in Formats
    BY TypeFacts
  <1>2. s = [k \in 1..count |-> Sie!Octets(val + k, f, w)]
    BY DEF ScalarParts
  <1> HIDE DEF w, f, s
  <1>3. \A k \in 1..count : Sie!Octets(val + k, f, w) \in Seq(OctetOf) /\ Len(Sie!Octets(val + k, f, w)) = w
    <2> TAKE k \in 1..count
    <2> DEFINE x == val + k
    <2>1. x \in Int /\ w \in Nat
      BY <1>1
    <2> HIDE DEF x
    <2> QED
      BY <1>1, <2>1, OctetsFacts DEF x
  <1>4. s \in Seq(Seq(OctetOf)) /\ Len(s) = count /\ \A k \in 1..count : s[k] = Sie!Octets(val + k, f, w)
    <2> DEFINE o(k) == Sie!Octets(val + k, f, w)
    <2>1. s = [k \in 1..count |-> o(k)] /\ \A k \in 1..count : o(k) \in Seq(OctetOf)
      BY <1>2, <1>3
    <2> HIDE DEF o
    <2>2. s \in Seq(Seq(OctetOf)) /\ Len(s) = count /\ \A k \in 1..count : s[k] = o(k)
      BY <2>1
    <2> QED
      BY <2>2 DEF o
  <1>5. a \in Seq(OctetOf) /\ Len(a) = 8
    <2>1. off \in Int /\ "int" \in Formats /\ 8 \in Nat
      BY DEF Formats
    <2> QED
      BY <2>1, OctetsFacts
  <1> HIDE DEF a
  <1>6. /\ data \in Seq(OctetOf) /\ Len(data) = 8 + w * Len(s) /\ HoldsAt(data, 0, a)
        /\ \A i \in 1..Len(s) : HoldsAt(data, 8 + w * (i - 1), s[i])
    <2>1. w \in Nat /\ \A i \in 1..Len(s) : Len(s[i]) = w
      BY <1>1, <1>3, <1>4
    <2> DEFINE n == Len(a)
    <2>2. /\ data \in Seq(OctetOf) /\ HoldsAt(data, 0, a) /\ Len(data) = Extent(n, w, Len(s))
          /\ \A i \in 1..Len(s) : HoldsAt(data, Extent(n, w, i - 1), s[i])
      BY <1>4, <1>5, <2>1, HeaderAndParts
    <2>3. n = 8
      BY <1>5
    <2> HIDE DEF data, n
    <2> QED
      BY <2>2, <2>3 DEF Extent
  <1>7. data = ScalarData(d, off, val, count)
    BY DEF ScalarData, Joined, a, s
  <1> HIDE DEF data
  <1>8. ASSUME NEW k \in 0..(count - 1)
        PROVE  HoldsAt(data, 8 + w * k, Sie!Octets(val + (k + 1), f, w))
    <2>1. k + 1 \in 1..count /\ (k + 1) - 1 = k
      OBVIOUS
    <2>2. HoldsAt(data, 8 + w * ((k + 1) - 1), s[k + 1])
      BY <1>4, <1>6, <2>1
    <2> QED
      BY <1>4, <2>1, <2>2
  <1> QED
    BY <1>4, <1>6, <1>7, <1>8 DEF w, f, a

(* The loop begins at the first time.                                       *)
LEMMA ScalarBegins ==
    ASSUME NEW d, d.start \in Int, d.delta \in Int, NEW off \in Nat, NEW val \in Nat, NEW w \in Nat, NEW data
    PROVE  Begun(State(8, ScalarEnv(off, Sie!Garbage, Sie!Garbage), <<>>, data), ScalarLoop(d))
             = ScalarTurns(d, off, val, w, data, 0)
  <1> DEFINE L == ScalarLoop(d)
             body == ScalarBody(d)
             v0 == Sie!V(0)
             g == Sie!Garbage
             env == ScalarEnv(off, g, g)
             none == <<>>
             st == State(8, env, none, data)
             x == d.start + off
  <1>1. HasThree(L, "loop", body, "var", "start", "increment", v0, Sie!DomainStart(d), Sie!Number(d.delta))
    BY ScalarLoopParts
  <1>2. st.env = env
    BY StateParts
  <1>3. Sie!Evaluate(Sie!DomainStart(d), env) = x
    <2>1. env["offset"] = off
      BY ScalarEnvFacts
    <2>2. off \in Int
      OBVIOUS
    <2> HIDE DEF env
    <2>3. Sie!Evaluate(Sie!Expression(d.start, [offset |-> 1]), env) = d.start + env["offset"]
      BY <2>1, <2>2, EvaluateOffset
    <2> QED
      BY <2>1, <2>3 DEF Sie!DomainStart
  <1>4. x = TimeOf(d, off, 0)
    <2>1. 0 * d.delta = 0
      OBVIOUS
    <2> QED
      BY <2>1 DEF TimeOf
  <1>5. [env EXCEPT ![v0] = x] = ScalarEnv(off, x, g)
    <2>1. \A z : [env EXCEPT ![v0] = z] = ScalarEnv(off, z, g)
      BY ScalarEnvFacts
    <2> QED
      BY <2>1
  <1>6. WithVariable(st, v0, x) = State(8, [env EXCEPT ![v0] = x], none, data)
    BY StateWithVariable
  <1>7. ScalarTurns(d, off, val, w, data, 0) = State(8, ScalarEnv(off, x, g), none, data)
    <2>1. 8 + w * 0 = 8
      OBVIOUS
    <2>2. ScalarSamples(d, off, val, 0) = none
      BY DEF ScalarSamples
    <2> QED
      BY <1>4, <2>1, <2>2 DEF ScalarTurns
  <1> HIDE DEF L, body, v0, g, env, x, st
  <1>8. Begun(st, L) = WithVariable(st, v0, x)
    <2>1. Sie!Attribute(L, "var") = v0 /\ Sie!Attribute(L, "start") = Sie!DomainStart(d)
      BY <1>1, Zenon DEF HasThree
    <2> QED
      BY <1>2, <1>3, <2>1, Zenon DEF Begun, WithVariable
  <1>9. Begun(st, L) = ScalarTurns(d, off, val, w, data, 0)
    BY <1>5, <1>6, <1>7, <1>8
  <1> QED
    BY <1>9 DEF st, L, env, g

(* The decoder of a scalar channel reads a payload of its type.             *)
LEMMA ScalarRun ==
    ASSUME NEW d, d.start \in Int, d.delta \in Int, d.type \in Sie!SampleTypes,
           NEW off \in Nat, NEW val \in Nat, NEW count \in Nat, NEW id
    PROVE  Sie!Run(Sie!ScalarDecoder(d, id), ScalarData(d, off, val, count)) = ScalarSamples(d, off, val, count)
  <1> DEFINE data == ScalarData(d, off, val, count)
             w == Sie!SieBits(d.type) \div 8
             R == Sie!ReadScalar("offset", "int", 64)
             L == ScalarLoop(d)
             decoder == Sie!ScalarDecoder(d, id)
             g == Sie!Garbage
             none == <<>>
             env0 == [v \in Sie!Variables |-> g]
             st == State(8, ScalarEnv(off, g, g), none, data)
             q == [k \in Nat |-> ScalarTurns(d, off, val, w, data, k)]
  <1>1. w \in Nat \ {0}
    BY TypeFacts
  <1>2. /\ data \in Seq(OctetOf) /\ Len(data) = 8 + w * count /\ HoldsAt(data, 0, Sie!Octets(off, "int", 8))
        /\ \A k \in 0..(count - 1) :
              HoldsAt(data, 8 + w * k, Sie!Octets(val + (k + 1), Sie!SieFormat(d.type), w))
    BY ScalarDataHolds
  <1>3. decoder.children = <<R, L>>
    <2> DEFINE kids == <<R, L>>
               S == {R, L}
    <2>1. kids \in Seq(S)
      <3> HIDE DEF R, L
      <3> QED
        OBVIOUS
    <2>2. decoder = Sie!AddChildren(Sie!Decoder(id), kids)
      <3>1. Sie!SieReadType(d.type)[1] = Sie!SieFormat(d.type) /\ Sie!SieReadType(d.type)[2] = Sie!SieBits(d.type)
        BY DEF Sie!SieReadType
      <3> QED
        BY <3>1, Zenon DEF Sie!ScalarDecoder, ScalarLoop, ScalarBody
    <2> HIDE DEF kids, S, decoder
    <2>3. decoder.children = kids
      BY <2>1, <2>2, DecoderParts
    <2> QED
      BY <2>3 DEF kids
  <1>4. Reads(R, "offset", "int", 8)
    <2>1. 64 \div 8 = 8
      OBVIOUS
    <2>2. Reads(R, "offset", "int", 64 \div 8)
      BY ReadScalarReads, Zenon
    <2> QED
      BY <2>1, <2>2
  <1>5. RunStep(Started(data), R) = st
    <2>1. Started(data) = State(0, env0, none, data)
      BY DEF Started, State
    <2>2. RunStep(Started(data), R) = Sie!Step(Started(data), R)
      <3>1. R.name = "read" /\ "read" # "loop"
        BY <1>4 DEF Reads
      <3> QED
        BY <3>1, Zenon DEF RunStep
    <2>3. [env0 EXCEPT !["offset"] = off] = ScalarEnv(off, g, g)
      BY ScalarEnvFacts
    <2>4. "int" \in Formats /\ 8 \in Nat \ {0} /\ 0 \in Nat /\ off \in Int /\ 0 + 8 = 8
      BY DEF Formats
    <2> HIDE DEF data, R, env0, none, g
    <2>5. Sie!Step(State(0, env0, none, data), R) = State(0 + 8, [env0 EXCEPT !["offset"] = off], none, data)
      <3> DEFINE at == 0
                 n == 8
                 f == "int"
                 v == "offset"
      <3>1. /\ f \in Formats /\ n \in Nat \ {0} /\ at \in Nat /\ off \in Int /\ data \in Seq(OctetOf)
            /\ Reads(R, v, f, n) /\ HoldsAt(data, at, Sie!Octets(off, f, n))
        BY <1>2, <1>4, <2>4
      <3> HIDE DEF at, n, f, v
      <3>2. Sie!Step(State(at, env0, none, data), R) = State(at + n, [env0 EXCEPT ![v] = off], none, data)
        BY ONLY <3>1, StepRead
      <3> QED
        BY <3>2 DEF at, n, f, v
    <2> QED
      BY <2>1, <2>2, <2>3, <2>4, <2>5
  <1>6. HasThree(L, "loop", ScalarBody(d), "var", "start", "increment",
                 Sie!V(0), Sie!DomainStart(d), Sie!Number(d.delta))
    BY ScalarLoopParts
  <1>7. RunStep(st, L) = Sie!Loop(st, L)
    <2>1. L.name = "loop"
      BY <1>6, Zenon DEF HasThree
    <2> QED
      BY <2>1, Zenon DEF RunStep
  <1>8. st.data = data
    BY StateParts
  <1>9. Begun(st, L) = ScalarTurns(d, off, val, w, data, 0)
    <2> HIDE DEF data, w
    <2> QED
      BY <1>1, ScalarBegins
  <1>10. \A k \in Nat : q[k] = ScalarTurns(d, off, val, w, data, k)
    OBVIOUS
  <1> HIDE DEF data, w, L, st, q, decoder, R, g, none
  <1>11. count \in 0..Len(data) /\ Len(data) \in Nat
    <2> DEFINE p == w * count
    <2>1. p \in Nat /\ count <= p
      <3>1. 1 * count <= w * count
        <4>1. count * 1 <= count * w
          BY <1>1, TimesMonotone
        <4>2. count * 1 = 1 * count /\ count * w = w * count
          BY <1>1
        <4> QED
          BY <4>1, <4>2
      <3>2. w * count \in Nat /\ 1 * count = count
        BY <1>1
      <3> QED
        BY <3>1, <3>2
    <2>2. Len(data) = 8 + p
      BY <1>2
    <2> HIDE DEF p
    <2> QED
      BY <2>1, <2>2
  <1>12. \A k \in 0..(count - 1) : ~Sie!Ended(L, q[k]) /\ Sie!Turn(L, q[k]) = q[k + 1]
    <2> TAKE k \in 0..(count - 1)
    <2>1. k \in Nat /\ k + 1 \in Nat
      OBVIOUS
    <2>2. q[k] = ScalarTurns(d, off, val, w, data, k) /\ q[k + 1] = ScalarTurns(d, off, val, w, data, k + 1)
      BY <1>10, <2>1
    <2>3. HoldsAt(data, 8 + w * k, Sie!Octets(val + (k + 1), Sie!SieFormat(d.type), w))
      BY <1>2
    <2>4. w = Sie!SieBits(d.type) \div 8
      BY DEF w
    <2>5. /\ ~Sie!Ended(L, ScalarTurns(d, off, val, w, data, k))
          /\ Sie!Turn(L, ScalarTurns(d, off, val, w, data, k)) = ScalarTurns(d, off, val, w, data, k + 1)
      <3>1. ScalarAhead(d, off, val, count, w, data, k)
        BY <1>1, <1>2, <2>3, <2>4, Zenon DEF ScalarAhead
      <3> QED
        BY ONLY <3>1, ScalarTurn DEF L
    <2> QED
      BY <2>2, <2>5
  <1>13. Sie!Ended(L, q[count])
    <2>1. ~Sie!Has(L, "end")
      <3>1. "end" # "var" /\ "end" # "start" /\ "end" # "increment"
        OBVIOUS
      <3> QED
        BY <1>6, <3>1, Zenon DEF HasThree
    <2>2. q[count] = ScalarTurns(d, off, val, w, data, count)
      BY <1>10
    <2>3. q[count].at = 8 + w * count /\ q[count].data = data
      BY <2>2, StateParts DEF ScalarTurns
    <2>4. q[count].at >= Len(q[count].data)
      BY <1>2, <1>11, <2>3
    <2> QED
      BY <2>1, <2>4, Zenon DEF Sie!Ended
  <1>14. Sie!Loop(st, L) = q[count]
    <2>1. q[0] = Begun(st, L)
      BY <1>9, <1>10
    <2> QED
      BY ONLY <1>8, <1>11, <1>12, <1>13, <2>1, LoopIs
  <1>15. q[count].samples = ScalarSamples(d, off, val, count)
    <2>1. q[count] = ScalarTurns(d, off, val, w, data, count)
      BY <1>10
    <2> QED
      BY <2>1, StateParts DEF ScalarTurns
  <1>16. Sie!Run(decoder, data) = RunStep(RunStep(Started(data), R), L).samples
    BY <1>3, RunTwo
  <1> QED
    BY <1>5, <1>7, <1>14, <1>15, <1>16 DEF decoder, data

-----------------------------------------------------------------------------
(* CAN messages                                                             *)

(* The variables of a CAN decoder of m fields: the first j fields are read  *)
(* as y, the others still hold z.                                           *)
CanEnv(m, j, n, i, x, y, z) ==
    [v \in Sie!Variables |->
        IF v = "n" THEN n ELSE IF v = "i" THEN i ELSE IF v = Sie!V(0) THEN x
        ELSE IF \E f \in 1..j : v = Sie!V(f) THEN y
        ELSE IF \E f \in 1..m : v = Sie!V(f) THEN z
        ELSE Sie!Garbage]

(* There are m fields, of which j are read.                                 *)
AreFields(m, j) == m \in Nat /\ m < Len(VariableNames) /\ j \in 0..m

(* The variables of the fields are distinct.                                *)
LEMMA FieldNames ==
    ASSUME NEW m, NEW j, AreFields(m, j)
    PROVE  /\ Sie!V(0) \in Sie!Variables /\ Sie!V(0) # "n" /\ Sie!V(0) # "i"
           /\ "n" \in Sie!Variables /\ "i" \in Sie!Variables /\ "n" # "i"
           /\ \A f \in 1..m : /\ Sie!V(f) \in Sie!Variables /\ Sie!V(f) # "n" /\ Sie!V(f) # "i"
                              /\ Sie!V(f) # Sie!V(0)
           /\ \A f, h \in 1..m : Sie!V(f) = Sie!V(h) => f = h
           /\ m \in Nat /\ j \in Nat /\ j <= m
           /\ \A f \in 1..j : f \in 1..m
           /\ \A f \in 1..m : f \in 1..j <=> f <= j
  <1> USE DEF AreFields
  <1>1. Len(VariableNames) \in Nat /\ 0 \in 0..(Len(VariableNames) - 1)
    BY VariableFacts
  <1>2. \A f \in 1..m : f \in 0..(Len(VariableNames) - 1) /\ f # 0
    BY <1>1
  <1>3. /\ m \in Nat /\ j \in Nat /\ j <= m
        /\ \A f \in 1..j : f \in 1..m
        /\ \A f \in 1..m : f \in 1..j <=> f <= j
    OBVIOUS
  <1> QED
    BY <1>1, <1>2, <1>3, VariableFacts

(* The values of the variables.                                             *)
LEMMA CanEnvValues ==
    ASSUME NEW m, NEW j, AreFields(m, j), NEW n, NEW i, NEW x, NEW y, NEW z
    PROVE  /\ CanEnv(m, j, n, i, x, y, z)["n"] = n
           /\ CanEnv(m, j, n, i, x, y, z)["i"] = i
           /\ CanEnv(m, j, n, i, x, y, z)[Sie!V(0)] = x
           /\ \A f \in 1..m : CanEnv(m, j, n, i, x, y, z)[Sie!V(f)] = IF f <= j THEN y ELSE z
  <1>1. /\ CanEnv(m, j, n, i, x, y, z)["n"] = n
        /\ CanEnv(m, j, n, i, x, y, z)["i"] = i
        /\ CanEnv(m, j, n, i, x, y, z)[Sie!V(0)] = x
    BY FieldNames DEF CanEnv
  <1>2. ASSUME NEW f \in 1..m
        PROVE  CanEnv(m, j, n, i, x, y, z)[Sie!V(f)] = IF f <= j THEN y ELSE z
    <2> DEFINE v(h) == Sie!V(h)
               S == Sie!Variables
               a == Sie!V(0)
               g == Sie!Garbage
    <2>1. /\ v(f) \in S /\ v(f) # "n" /\ v(f) # "i" /\ v(f) # a
          /\ \A h \in 1..m : v(f) = v(h) => f = h
      BY FieldNames
    <2>2. (\A h \in 1..j : h \in 1..m) /\ (f \in 1..j <=> f <= j)
      BY FieldNames
    <2>3. CanEnv(m, j, n, i, x, y, z)
            = [w \in S |-> IF w = "n" THEN n ELSE IF w = "i" THEN i ELSE IF w = a THEN x
                           ELSE IF \E h \in 1..j : w = v(h) THEN y
                           ELSE IF \E h \in 1..m : w = v(h) THEN z ELSE g]
      BY Zenon DEF CanEnv
    <2> HIDE DEF v, S, a, g
    <2>4. (\E h \in 1..j : v(f) = v(h)) <=> f <= j
      BY <2>1, <2>2
    <2>5. \E h \in 1..m : v(f) = v(h)
      OBVIOUS
    <2>6. CanEnv(m, j, n, i, x, y, z)[v(f)] = IF f <= j THEN y ELSE z
      BY <2>1, <2>3, <2>4, <2>5
    <2> QED
      BY <2>6 DEF v
  <1> QED
    BY <1>1, <1>2

(* A variable is set.                                                       *)
Changed(env, v, x) == [env EXCEPT ![v] = x]

(* The variables but for the fields.                                        *)
LEMMA CanEnvChange ==
    ASSUME NEW m, NEW j, AreFields(m, j), NEW n, NEW i, NEW x, NEW y, NEW z, NEW u
    PROVE  /\ Changed(CanEnv(m, j, n, i, x, y, z), "i", u) = CanEnv(m, j, n, u, x, y, z)
           /\ Changed(CanEnv(m, j, n, i, x, y, z), Sie!V(0), u) = CanEnv(m, j, n, i, u, y, z)
  <1> DEFINE P(w) == \E f \in 1..j : w = Sie!V(f)
             Q(w) == \E f \in 1..m : w = Sie!V(f)
             S == Sie!Variables
             a == Sie!V(0)
             g == Sie!Garbage
  <1>1. a \in S /\ a # "n" /\ a # "i" /\ "i" \in S /\ "i" # "n"
    BY FieldNames
  <1>2. \A p, q, r : CanEnv(m, j, p, q, r, y, z)
          = [w \in S |-> IF w = "n" THEN p ELSE IF w = "i" THEN q ELSE IF w = a THEN r
                         ELSE IF P(w) THEN y ELSE IF Q(w) THEN z ELSE g]
    BY Zenon DEF CanEnv
  <1> HIDE DEF P, Q, S, a, g
  <1>3. [CanEnv(m, j, n, i, x, y, z) EXCEPT !["i"] = u] = CanEnv(m, j, n, u, x, y, z)
    BY <1>1, <1>2
  <1>4. [CanEnv(m, j, n, i, x, y, z) EXCEPT ![a] = u] = CanEnv(m, j, n, i, u, y, z)
    BY <1>1, <1>2
  <1> QED
    BY <1>3, <1>4 DEF Changed, a

(* The next field.                                                          *)
LEMMA CanEnvField ==
    ASSUME NEW m, NEW j, AreFields(m, j), j < m, NEW n, NEW i, NEW x, NEW y, NEW z
    PROVE  Changed(CanEnv(m, j, n, i, x, y, z), Sie!V(j + 1), y) = CanEnv(m, j + 1, n, i, x, y, z)
  <1> DEFINE P(w) == \E f \in 1..j : w = Sie!V(f)
             P1(w) == \E f \in 1..(j + 1) : w = Sie!V(f)
             Q(w) == \E f \in 1..m : w = Sie!V(f)
             S == Sie!Variables
             a == Sie!V(0)
             g == Sie!Garbage
             b == Sie!V(j + 1)
  <1>1. b \in S /\ b # "n" /\ b # "i" /\ b # a
    <2>1. j + 1 \in 1..m
      BY FieldNames
    <2> QED
      BY <2>1, FieldNames
  <1>2. \A w : P1(w) <=> P(w) \/ w = b
    <2>1. \A f : f \in 1..(j + 1) <=> f \in 1..j \/ f = j + 1
      BY FieldNames
    <2> QED
      BY <2>1
  <1>3. CanEnv(m, j, n, i, x, y, z)
          = [w \in S |-> IF w = "n" THEN n ELSE IF w = "i" THEN i ELSE IF w = a THEN x
                         ELSE IF P(w) THEN y ELSE IF Q(w) THEN z ELSE g]
    BY Zenon DEF CanEnv
  <1>4. CanEnv(m, j + 1, n, i, x, y, z)
          = [w \in S |-> IF w = "n" THEN n ELSE IF w = "i" THEN i ELSE IF w = a THEN x
                         ELSE IF P1(w) THEN y ELSE IF Q(w) THEN z ELSE g]
    BY Zenon DEF CanEnv
  <1> HIDE DEF P, P1, Q, S, a, g, b
  <1>5. [CanEnv(m, j, n, i, x, y, z) EXCEPT ![b] = y] = CanEnv(m, j + 1, n, i, x, y, z)
    BY ONLY <1>1, <1>2, <1>3, <1>4
  <1> QED
    BY <1>5 DEF Changed, b

(* All fields are read.                                                     *)
LEMMA CanEnvDone ==
    ASSUME NEW m, NEW n, NEW i, NEW x, NEW y, NEW z, NEW u
    PROVE  CanEnv(m, m, n, i, x, y, z) = CanEnv(m, 0, n, i, x, u, y)
  <1> DEFINE Q(w) == \E f \in 1..m : w = Sie!V(f)
             P0(w) == \E f \in 1..0 : w = Sie!V(f)
             S == Sie!Variables
             a == Sie!V(0)
             g == Sie!Garbage
  <1>1. CanEnv(m, m, n, i, x, y, z)
          = [w \in S |-> IF w = "n" THEN n ELSE IF w = "i" THEN i ELSE IF w = a THEN x
                         ELSE IF Q(w) THEN y ELSE IF Q(w) THEN z ELSE g]
    BY Zenon DEF CanEnv
  <1>2. CanEnv(m, 0, n, i, x, u, y)
          = [w \in S |-> IF w = "n" THEN n ELSE IF w = "i" THEN i ELSE IF w = a THEN x
                         ELSE IF P0(w) THEN u ELSE IF Q(w) THEN y ELSE g]
    BY Zenon DEF CanEnv
  <1>3. \A w : ~P0(w)
    OBVIOUS
  <1> HIDE DEF P0, Q, S, a, g
  <1> QED
    BY ONLY <1>1, <1>2, <1>3

(* A decoder can read the struct and its domain.                            *)
CanReadable(d) ==
    /\ Len(d.fields) \in Nat /\ DOMAIN d.fields = 1..Len(d.fields) /\ Len(d.fields) < Len(VariableNames)
    /\ d.domainType \in Sie!SampleTypes
    /\ \A f \in 1..Len(d.fields) : d.fields[f].items \in Nat /\ Sie!Readable(d.fields[f])

(* Octets of a domain value.                                                *)
CanBytes(d) == Sie!SieBits(d.domainType) \div 8

(* The elements of CanDecoder: a field, the domain, the seeks, and the      *)
(* loop that holds them.                                                    *)
CanField(d, k) ==
    IF Sie!IsRaw(d.fields[k]) THEN Sie!ReadRaw(Sie!V(k), d.fields[k].items)
    ELSE Sie!ReadScalar(Sie!V(k), Sie!SieFormat(d.fields[k].type), Sie!SieBits(d.fields[k].type))

ReadDomain(d) == Sie!ReadScalar(Sie!V(0), Sie!SieFormat(d.domainType), Sie!SieBits(d.domainType))
ToMessage(d) == Sie!SeekElement("start", Sie!Expression(4, [n |-> CanBytes(d), i |-> Sie!CAN_MESSAGE]))
ToDomain(d) == Sie!SeekElement("start", Sie!BackToDomain(CanBytes(d)))

CanBody(d) ==
    <<ReadDomain(d), ToMessage(d)>> \o [k \in DOMAIN d.fields |-> CanField(d, k)]
        \o <<Sie!SampleElement, ToDomain(d)>>

CanLoop(d) ==
    Sie!AddChildren(
        Sie!AddAttributes(Sie!Element("loop"),
            << <<"var", "i">>, <<"start", Sie!Number(0)>>, <<"end", Sie!Expression(0, [n |-> 1])>> >>),
        CanBody(d))

(* The read of a field has the format and the width of the field.           *)
LEMMA FieldFacts ==
    ASSUME NEW d, CanReadable(d), NEW k \in 1..Len(d.fields)
    PROVE  /\ Sie!FieldFormat(d.fields[k]) \in Formats
           /\ Sie!FieldOctets(d.fields[k]) \in Nat \ {0} /\ Sie!Pieces(d.fields[k]) \in Nat
           /\ Reads(CanField(d, k), Sie!V(k), Sie!FieldFormat(d.fields[k]), Sie!FieldOctets(d.fields[k]))
  <1> DEFINE e == d.fields[k]
             v == Sie!V(k)
  <1>1. e.items \in Nat /\ (Sie!IsRaw(e) => e.items > 0) /\ e.type \in Sie!SampleTypes
    BY DEF CanReadable, Sie!Readable, Sie!IsRaw
  <1>2. CanField(d, k) = IF Sie!IsRaw(e) THEN Sie!ReadRaw(v, e.items)
                         ELSE Sie!ReadScalar(v, Sie!SieFormat(e.type), Sie!SieBits(e.type))
    BY DEF CanField
  <1> HIDE DEF e, v
  <1>p. Sie!Pieces(d.fields[k]) \in Nat
    BY <1>1 DEF Sie!Pieces, e
  <1>3. CASE Sie!IsRaw(e)
    <2>1. Sie!FieldFormat(e) = "raw" /\ Sie!FieldOctets(e) = e.items /\ CanField(d, k) = Sie!ReadRaw(v, e.items)
      BY <1>2, <1>3 DEF Sie!FieldFormat, Sie!FieldOctets
    <2>2. Reads(Sie!ReadRaw(v, e.items), v, "raw", e.items)
      BY ReadRawReads, Zenon
    <2>3. "raw" \in Formats /\ e.items \in Nat \ {0}
      BY <1>1, <1>3 DEF Formats
    <2> QED
      BY <1>p, <2>1, <2>2, <2>3 DEF e, v
  <1>4. CASE ~Sie!IsRaw(e)
    <2> DEFINE f == Sie!SieFormat(e.type)
               b == Sie!SieBits(e.type)
    <2>1. Sie!FieldFormat(e) = f /\ Sie!FieldOctets(e) = b \div 8 /\ CanField(d, k) = Sie!ReadScalar(v, f, b)
      BY <1>2, <1>4 DEF Sie!FieldFormat, Sie!FieldOctets
    <2>2. f \in Formats /\ b \div 8 \in Nat \ {0}
      BY <1>1, <1>4, TypeFacts
    <2> HIDE DEF f, b
    <2>3. Reads(Sie!ReadScalar(v, f, b), v, f, b \div 8)
      BY ReadScalarReads, Zenon
    <2> QED
      BY <1>p, <2>1, <2>2, <2>3 DEF e, v
  <1> QED
    BY <1>p, <1>3, <1>4

(* A sequence between two pairs.                                            *)
LEMMA BetweenPairs ==
    ASSUME NEW T, NEW a \in T, NEW b \in T, NEW c \in T, NEW e \in T, NEW s \in Seq(T), NEW n \in Nat, Len(s) = n,
           NEW u, u = <<a, b>> \o s \o <<c, e>>
    PROVE  /\ u \in Seq(T) /\ DOMAIN u = 1..(n + 4) /\ u[1] = a /\ u[2] = b
           /\ \A k \in 1..n : u[2 + k] = s[k]
           /\ u[n + 3] = c /\ u[n + 4] = e
  <1> DEFINE p == <<a, b>>
             q == <<c, e>>
             r == p \o s
  <1>1. /\ p \in Seq(T) /\ Len(p) = 2 /\ p[1] = a /\ p[2] = b
        /\ q \in Seq(T) /\ Len(q) = 2 /\ q[1] = c /\ q[2] = e
    OBVIOUS
  <1>s. s \in Seq(T) /\ Len(s) = n /\ n \in Nat
    OBVIOUS
  <1> HIDE DEF p, q
  <1>2. r \in Seq(T) /\ Len(r) = 2 + n
    <2>1. r \in Seq(T) /\ Len(r) = Len(p) + Len(s)
      BY <1>1, <1>s, ConcatProperties, Zenon
    <2> QED
      BY ONLY <1>1, <1>s, <2>1
  <1>3. \A k \in 1..(2 + n) : r[k] = IF k <= 2 THEN p[k] ELSE s[k - 2]
    <2>1. \A k \in 1..(Len(p) + Len(s)) : r[k] = IF k <= Len(p) THEN p[k] ELSE s[k - Len(p)]
      BY <1>1, <1>s, ConcatProperties, Zenon
    <2> QED
      BY ONLY <1>1, <1>s, <2>1
  <1> HIDE DEF r
  <1>4. u = r \o q
    BY DEF r, p, q
  <1>5. u \in Seq(T) /\ Len(u) = n + 4
    BY <1>1, <1>2, <1>4, ConcatProperties
  <1>6. \A k \in 1..(n + 4) : u[k] = IF k <= 2 + n THEN r[k] ELSE q[k - (2 + n)]
    BY <1>1, <1>2, <1>4, ConcatProperties
  <1>7. DOMAIN u = 1..(n + 4)
    BY <1>5
  <1>8. u[1] = a /\ u[2] = b
    BY <1>1, <1>3, <1>6
  <1>9. ASSUME NEW k \in 1..n
        PROVE  u[2 + k] = s[k]
    <2>1. 2 + k \in 1..(n + 4) /\ 2 + k \in 1..(2 + n) /\ 2 + k <= 2 + n /\ ~(2 + k <= 2) /\ (2 + k) - 2 = k
      OBVIOUS
    <2> QED
      BY <1>3, <1>6, <2>1
  <1>10. u[n + 3] = c /\ u[n + 4] = e
    <2>1. /\ n + 3 \in 1..(n + 4) /\ ~(n + 3 <= 2 + n) /\ (n + 3) - (2 + n) = 1
          /\ n + 4 \in 1..(n + 4) /\ ~(n + 4 <= 2 + n) /\ (n + 4) - (2 + n) = 2
      OBVIOUS
    <2> QED
      BY <1>1, <1>6, <2>1
  <1> QED
    BY <1>5, <1>7, <1>8, <1>9, <1>10

(* The elements of the body, by their places.                               *)
LEMMA CanBodyParts ==
    ASSUME NEW d, CanReadable(d)
    PROVE  LET m == Len(d.fields)
               body == CanBody(d)
           IN  /\ \E S : body \in Seq(S)
               /\ DOMAIN body = 1..(m + 4) /\ body[1] = ReadDomain(d) /\ body[2] = ToMessage(d)
               /\ \A k \in 1..m : body[2 + k] = CanField(d, k)
               /\ body[m + 3] = Sie!SampleElement /\ body[m + 4] = ToDomain(d)
  <1> DEFINE m == Len(d.fields)
             s == [k \in 1..m |-> CanField(d, k)]
             a == ReadDomain(d)
             b == ToMessage(d)
             c == Sie!SampleElement
             e == ToDomain(d)
             S == {a, b, c, e} \cup {CanField(d, k) : k \in 1..m}
             body == CanBody(d)
  <1>1. m \in Nat /\ DOMAIN d.fields = 1..m
    BY DEF CanReadable
  <1>2. body = <<a, b>> \o s \o <<c, e>>
    <2>1. body = <<a, b>> \o [k \in DOMAIN d.fields |-> CanField(d, k)] \o <<c, e>>
      BY Zenon DEF CanBody
    <2> HIDE DEF body
    <2> QED
      BY <1>1, <2>1
  <1> HIDE DEF m, a, b, c, e, body
  <1>3. s \in Seq(S) /\ Len(s) = m /\ \A k \in 1..m : s[k] = CanField(d, k)
    <2>1. \A k \in 1..m : CanField(d, k) \in S
      OBVIOUS
    <2> HIDE DEF S
    <2> QED
      BY <1>1, <2>1
  <1>4. a \in S /\ b \in S /\ c \in S /\ e \in S
    OBVIOUS
  <1> HIDE DEF s, S
  <1>5. /\ body \in Seq(S) /\ DOMAIN body = 1..(m + 4) /\ body[1] = a /\ body[2] = b
        /\ \A k \in 1..m : body[2 + k] = s[k]
        /\ body[m + 3] = c /\ body[m + 4] = e
    BY ONLY <1>1, <1>2, <1>3, <1>4, BetweenPairs
  <1> QED
    BY <1>3, <1>5, Zenon DEF m, a, b, c, e, body

(* The attributes of the loop.                                              *)
LEMMA CanLoopParts ==
    ASSUME NEW d, CanReadable(d)
    PROVE  HasThree(CanLoop(d), "loop", CanBody(d), "var", "start", "end",
                    "i", Sie!Number(0), Sie!Expression(0, [n |-> 1]))
  <1> DEFINE y == Sie!Number(0)
             z == Sie!Expression(0, [n |-> 1])
             pairs == << <<"var", "i">>, <<"start", y>>, <<"end", z>> >>
             body == CanBody(d)
  <1>1. PICK S : body \in Seq(S)
    BY CanBodyParts
  <1>2. CanLoop(d) = Sie!AddChildren(Sie!AddAttributes(Sie!Element("loop"), pairs), body)
    BY Zenon DEF CanLoop
  <1>3. "var" # "start" /\ "var" # "end" /\ "start" # "end"
    OBVIOUS
  <1> HIDE DEF y, z, body
  <1>4. pairs = << <<"var", "i">>, <<"start", y>>, <<"end", z>> >>
    OBVIOUS
  <1> HIDE DEF pairs
  <1>5. /\ Sie!AddAttributes(Sie!Element("loop"), pairs) = Made("loop", Attributes(pairs), <<>>, <<>>)
        /\ HasThree(Made("loop", Attributes(pairs), body, <<>>), "loop", body, "var", "start", "end", "i", y, z)
    BY <1>3, <1>4, ThreeAttributes, Zenon
  <1>6. Sie!AddChildren(Made("loop", Attributes(pairs), <<>>, <<>>), body) = Made("loop", Attributes(pairs), body, <<>>)
    BY <1>1, WithChildren
  <1>7. CanLoop(d) = Made("loop", Attributes(pairs), body, <<>>)
    BY <1>2, <1>5, <1>6, Zenon
  <1> QED
    BY <1>5, <1>7, Zenon DEF body, y, z

(* The octets of a field, all its items.                                    *)
DataOctets(f) == Sie!FieldOctets(f) * Sie!Pieces(f)

(* Where the fields of a struct start.                                      *)
AreStarts(P, d) ==
    P[0] = 0 /\ \A i \in 1..Len(d.fields) : P[i] = P[i - 1] + DataOctets(d.fields[i])

(* A field in a message that holds x everywhere.                            *)
MessagePart(d, x, f) == Sie!Field(d.fields[f], x)

(* It has its octets; and a field that is read whole is what is read.       *)
LEMMA PartFacts ==
    ASSUME NEW d, CanReadable(d), NEW x \in Int, NEW f \in 1..Len(d.fields)
    PROVE  /\ MessagePart(d, x, f) \in Seq(OctetOf) /\ Len(MessagePart(d, x, f)) = DataOctets(d.fields[f])
           /\ Sie!Pieces(d.fields[f]) = 1 =>
                 MessagePart(d, x, f) = Sie!Octets(x, Sie!FieldFormat(d.fields[f]), Sie!FieldOctets(d.fields[f]))
  <1> DEFINE n == Sie!FieldOctets(d.fields[f])
             t == Sie!FieldFormat(d.fields[f])
             r == Sie!Pieces(d.fields[f])
             o == Sie!Octets(x, t, n)
             s == [k \in 1..r |-> o]
  <1>1. n \in Nat /\ t \in Formats /\ r \in Nat
    BY FieldFacts
  <1>2. MessagePart(d, x, f) = Sie!FlattenSeq(s)
    BY Zenon DEF MessagePart, Sie!Field
  <1>3. DataOctets(d.fields[f]) = n * r
    BY DEF DataOctets
  <1> HIDE DEF n, t, r
  <1>4. o \in Seq(OctetOf) /\ Len(o) = n
    BY <1>1, OctetsFacts
  <1> HIDE DEF o
  <1>5. s \in Seq(Seq(OctetOf)) /\ Len(s) = r /\ \A k \in 1..r : s[k] = o
    BY <1>1, <1>4
  <1> HIDE DEF s
  <1>6. Sie!FlattenSeq(s) \in Seq(OctetOf) /\ Len(Sie!FlattenSeq(s)) = n * r
    <2>1. \A k \in 1..Len(s) : Len(s[k]) = n
      BY <1>4, <1>5
    <2>2. Sie!FlattenSeq(s) \in Seq(OctetOf) /\ Len(Sie!FlattenSeq(s)) = n * Len(s)
      BY <1>1, <1>5, <2>1, FlattenEven
    <2> QED
      BY <1>5, <2>2
  <1>7. ASSUME r = 1
        PROVE  Sie!FlattenSeq(s) = o
    <2>1. PICK g : /\ g[0] = <<>>
                   /\ \A i \in 1..Len(s) : g[i] = g[i - 1] \o s[i]
                   /\ g[Len(s)] = Xml!FlattenSeq(s)
      BY <1>5, FlattenSeqPrefixes
    <2>2. g[1] = <<>> \o o /\ g[1] = Xml!FlattenSeq(s)
      <3>1. Len(s) = 1 /\ 1 \in 1..Len(s) /\ s[1] = o /\ 1 - 1 = 0
        BY <1>5, <1>7
      <3>2. g[1] = g[1 - 1] \o s[1]
        BY <2>1, <3>1
      <3> QED
        BY <2>1, <3>1, <3>2
    <2>3. <<>> \o o = o
      BY <1>4, ConcatEmptySeq
    <2> QED
      BY <2>2, <2>3, SameFlatten
  <1> QED
    BY <1>2, <1>3, <1>6, <1>7 DEF n, t, r, o

(* A message is its fields, flattened.                                      *)
LEMMA MessageParts ==
    ASSUME NEW d, CanReadable(d), NEW x \in Int, NEW s, s = [f \in DOMAIN d.fields |-> MessagePart(d, x, f)]
    PROVE  /\ Sie!Message(d, x) = Sie!FlattenSeq(s) /\ s \in Seq(Seq(OctetOf)) /\ Len(s) = Len(d.fields)
           /\ \A f \in 1..Len(d.fields) : s[f] = MessagePart(d, x, f) /\ Len(s[f]) = DataOctets(d.fields[f])
  <1> DEFINE m == Len(d.fields)
  <1>1. m \in Nat /\ DOMAIN d.fields = 1..m
    BY DEF CanReadable
  <1>2. ASSUME NEW f \in 1..m
        PROVE  MessagePart(d, x, f) \in Seq(OctetOf) /\ Len(MessagePart(d, x, f)) = DataOctets(d.fields[f])
    BY <1>2, PartFacts
  <1>3. Sie!Message(d, x) = Sie!FlattenSeq([f \in DOMAIN d.fields |-> MessagePart(d, x, f)])
    BY Zenon DEF Sie!Message, MessagePart
  <1> DEFINE part_f(f) == MessagePart(d, x, f)
  <1> HIDE DEF m
  <1>4. s = [f \in 1..m |-> part_f(f)]
    BY <1>1
  <1>5. \A f \in 1..m : part_f(f) \in Seq(OctetOf)
    BY <1>2
  <1> HIDE DEF part_f
  <1>6. s \in Seq(Seq(OctetOf)) /\ Len(s) = m /\ \A f \in 1..m : s[f] = part_f(f)
    BY ONLY <1>1, <1>4, <1>5
  <1>7. Sie!Message(d, x) = Sie!FlattenSeq(s)
    BY <1>3
  <1> QED
    BY <1>2, <1>6, <1>7 DEF m, part_f

(* The fields have starts.                                                  *)
LEMMA StartsExist ==
    ASSUME NEW d, CanReadable(d)
    PROVE  \E P : AreStarts(P, d)
  <1> DEFINE s == [f \in DOMAIN d.fields |-> MessagePart(d, 0, f)]
             m == Len(d.fields)
  <1>1. /\ s \in Seq(Seq(OctetOf)) /\ Len(s) = m
        /\ \A f \in 1..m : Len(s[f]) = DataOctets(d.fields[f])
    <2> DEFINE x == 0
    <2>1. x \in Int /\ s = [f \in DOMAIN d.fields |-> MessagePart(d, x, f)]
      OBVIOUS
    <2> HIDE DEF x, s
    <2> QED
      BY <2>1, MessageParts
  <1> HIDE DEF s
  <1>2. PICK g : /\ g[0] = <<>>
                 /\ \A i \in 0..Len(s) : g[i] \in Seq(OctetOf)
                 /\ \A i \in 1..Len(s) : g[i] = g[i - 1] \o s[i]
                 /\ g[Len(s)] = Xml!FlattenSeq(s)
    BY <1>1, FlattenSeqPrefixes
  <1> DEFINE P == [i \in 0..m |-> Len(g[i])]
  <1>3. m \in Nat
    BY DEF CanReadable
  <1> HIDE DEF m
  <1>4. P[0] = 0
    BY <1>2, <1>3
  <1>5. ASSUME NEW i \in 1..m
        PROVE  P[i] = P[i - 1] + Len(s[i])
    <2>1. i \in 0..m /\ i - 1 \in 0..m /\ i \in 1..Len(s)
      BY <1>1, <1>3
    <2>2. g[i] = g[i - 1] \o s[i] /\ g[i - 1] \in Seq(OctetOf) /\ s[i] \in Seq(OctetOf)
      <3>1. s[i] \in Seq(OctetOf)
        BY ONLY <1>1, <2>1, ElementOfSeq
      <3>2. i - 1 \in 0..Len(s)
        BY <1>1, <2>1
      <3> QED
        BY ONLY <1>2, <2>1, <3>1, <3>2
    <2>3. Len(g[i]) = Len(g[i - 1]) + Len(s[i])
      BY <2>2, ConcatProperties
    <2> QED
      BY <2>1, <2>3
  <1> HIDE DEF P
  <1>6. AreStarts(P, d)
    BY <1>1, <1>4, <1>5 DEF AreStarts, m
  <1> QED
    BY <1>6

(* A message holds every field at its start.                                *)
LEMMA MessageHolds ==
    ASSUME NEW d, CanReadable(d), NEW P, AreStarts(P, d), NEW x \in Int
    PROVE  /\ Sie!Message(d, x) \in Seq(OctetOf) /\ Len(Sie!Message(d, x)) = P[Len(d.fields)]
           /\ \A f \in 1..Len(d.fields) :
                 P[f - 1] \in Nat /\ HoldsAt(Sie!Message(d, x), P[f - 1], MessagePart(d, x, f))
  <1> DEFINE s == [f \in DOMAIN d.fields |-> MessagePart(d, x, f)]
             m == Len(d.fields)
  <1>1. /\ Sie!Message(d, x) = Sie!FlattenSeq(s) /\ s \in Seq(Seq(OctetOf)) /\ Len(s) = m
        /\ \A f \in 1..m : s[f] = MessagePart(d, x, f) /\ Len(s[f]) = DataOctets(d.fields[f])
    BY MessageParts
  <1> HIDE DEF s
  <1>2. P[0] = 0 /\ \A i \in 1..Len(s) : P[i] = P[i - 1] + Len(s[i])
    BY <1>1 DEF AreStarts
  <1>3. /\ Sie!FlattenSeq(s) \in Seq(OctetOf)
        /\ Len(Sie!FlattenSeq(s)) = P[Len(s)]
        /\ \A i \in 1..Len(s) : P[i - 1] \in Nat /\ HoldsAt(Sie!FlattenSeq(s), P[i - 1], s[i])
    BY <1>1, <1>2, FlattenAt
  <1> QED
    BY <1>1, <1>3

(* The payload of a CAN packet and its parts.                               *)
DomainPart(d, x) == Sie!Octets(x, Sie!SieFormat(d.domainType), CanBytes(d))
DomainParts(d, off, count) == [k \in 1..count |-> DomainPart(d, off + k)]
Messages(d, val, count) == [k \in 1..count |-> Sie!Message(d, val + k)]
CanData(d, off, val, count) ==
    Sie!Octets(count, "uint", 4) \o Sie!FlattenSeq(DomainParts(d, off, count))
        \o Sie!FlattenSeq(Messages(d, val, count))

(* A domain value has a width.                                              *)
LEMMA CanBytesFacts ==
    ASSUME NEW d, CanReadable(d)
    PROVE  CanBytes(d) \in Nat \ {0} /\ Sie!SieFormat(d.domainType) \in Formats
  BY TypeFacts DEF CanBytes, CanReadable

(* The domain values, all of one width.                                     *)
LEMMA DomainPartsFacts ==
    ASSUME NEW d, CanReadable(d), NEW off \in Nat, NEW count \in Nat
    PROVE  /\ DomainParts(d, off, count) \in Seq(Seq(OctetOf)) /\ Len(DomainParts(d, off, count)) = count
           /\ \A k \in 1..count :
                 /\ DomainParts(d, off, count)[k] = DomainPart(d, off + k)
                 /\ Len(DomainParts(d, off, count)[k]) = CanBytes(d)
  <1> DEFINE s == DomainParts(d, off, count)
             w == CanBytes(d)
             f == Sie!SieFormat(d.domainType)
             o(k) == DomainPart(d, off + k)
  <1>1. w \in Nat /\ f \in Formats
    BY CanBytesFacts
  <1>2. ASSUME NEW k \in 1..count
        PROVE  o(k) \in Seq(OctetOf) /\ Len(o(k)) = w
    <2> DEFINE x == off + k
    <2>1. x \in Int
      OBVIOUS
    <2>2. o(k) = Sie!Octets(x, f, w)
      BY DEF DomainPart
    <2> HIDE DEF x, f, w, o
    <2> QED
      BY <1>1, <2>1, <2>2, OctetsFacts
  <1>3. s = [k \in 1..count |-> o(k)]
    BY Zenon DEF DomainParts
  <1> HIDE DEF o, w, s
  <1>4. s \in Seq(Seq(OctetOf)) /\ Len(s) = count /\ \A k \in 1..count : s[k] = o(k)
    <2>1. count \in Nat /\ \A k \in 1..count : o(k) \in Seq(OctetOf)
      BY <1>2
    <2> QED
      BY ONLY <1>3, <2>1
  <1> QED
    BY <1>2, <1>4 DEF o, w, s

(* The messages, all of one width.                                          *)
LEMMA MessagesFacts ==
    ASSUME NEW d, CanReadable(d), NEW P, AreStarts(P, d), NEW val \in Nat, NEW count \in Nat
    PROVE  /\ Messages(d, val, count) \in Seq(Seq(OctetOf)) /\ Len(Messages(d, val, count)) = count
           /\ \A k \in 1..count :
                 /\ Messages(d, val, count)[k] = Sie!Message(d, val + k)
                 /\ Len(Messages(d, val, count)[k]) = P[Len(d.fields)]
  <1> DEFINE s == Messages(d, val, count)
             w == P[Len(d.fields)]
             o(k) == Sie!Message(d, val + k)
  <1>2. ASSUME NEW k \in 1..count
        PROVE  o(k) \in Seq(OctetOf) /\ Len(o(k)) = w
    <2> DEFINE x == val + k
    <2>1. x \in Int
      OBVIOUS
    <2> HIDE DEF x
    <2>2. Sie!Message(d, x) \in Seq(OctetOf) /\ Len(Sie!Message(d, x)) = w
      BY <2>1, MessageHolds
    <2> QED
      BY <2>2 DEF x
  <1>3. s = [k \in 1..count |-> o(k)]
    BY Zenon DEF Messages
  <1> HIDE DEF o, w, s
  <1>4. s \in Seq(Seq(OctetOf)) /\ Len(s) = count /\ \A k \in 1..count : s[k] = o(k)
    <2>1. count \in Nat /\ \A k \in 1..count : o(k) \in Seq(OctetOf)
      BY <1>2
    <2> QED
      BY ONLY <1>3, <2>1
  <1> QED
    BY <1>2, <1>4 DEF o, w, s

(* The payload holds the count, then the domain values, then the            *)
(* messages.                                                                *)
LEMMA CanDataHolds ==
    ASSUME NEW d, CanReadable(d), NEW P, AreStarts(P, d), NEW off \in Nat, NEW val \in Nat, NEW count \in Nat
    PROVE  LET data == CanData(d, off, val, count)
               m == Len(d.fields)
               h == 4 + CanBytes(d) * count
           IN  /\ data \in Seq(OctetOf) /\ P[m] \in Nat /\ Len(data) = h + P[m] * count
               /\ HoldsAt(data, 0, Sie!Octets(count, "uint", 4))
               /\ \A k \in 0..(count - 1) :
                     /\ HoldsAt(data, 4 + CanBytes(d) * k, DomainPart(d, off + (k + 1)))
                     /\ HoldsAt(data, h + P[m] * k, Sie!Message(d, val + (k + 1)))
  <1> DEFINE data == CanData(d, off, val, count)
             m == Len(d.fields)
             w == CanBytes(d)
             u == P[m]
             a == Sie!Octets(count, "uint", 4)
             s == DomainParts(d, off, count)
             t == Messages(d, val, count)
             b == Joined(a, s)
             c == Joined(b, t)
             h == 4 + w * count
  <1>1. /\ s \in Seq(Seq(OctetOf)) /\ Len(s) = count
        /\ \A k \in 1..count : s[k] = DomainPart(d, off + k) /\ Len(s[k]) = w
    BY DomainPartsFacts
  <1>2. /\ t \in Seq(Seq(OctetOf)) /\ Len(t) = count
        /\ \A k \in 1..count : t[k] = Sie!Message(d, val + k) /\ Len(t[k]) = u
    BY MessagesFacts
  <1>3. w \in Nat /\ u \in Nat
    <2>1. w \in Nat
      BY CanBytesFacts
    <2> DEFINE x == 0
    <2>2. x \in Int
      OBVIOUS
    <2> HIDE DEF x
    <2>3. Sie!Message(d, x) \in Seq(OctetOf) /\ Len(Sie!Message(d, x)) = u
      BY <2>2, MessageHolds
    <2> QED
      BY <2>1, <2>3, LenProperties
  <1>4. a \in Seq(OctetOf) /\ Len(a) = 4
    <2> DEFINE n == 4
               f == "uint"
    <2>1. n \in Nat /\ f \in Formats /\ count \in Int
      BY DEF Formats
    <2> HIDE DEF n, f
    <2>2. Sie!Octets(count, f, n) \in Seq(OctetOf) /\ Len(Sie!Octets(count, f, n)) = n
      BY <2>1, OctetsFacts
    <2> QED
      BY <2>2 DEF n, f
  <1>5. data = c
    BY Zenon DEF CanData, Joined
  <1>6. h \in Nat
    BY <1>3
  <1> HIDE DEF data, w, u, a, s, t
  <1>7. /\ b \in Seq(OctetOf) /\ Len(b) = h /\ HoldsAt(b, 0, a)
        /\ \A i \in 1..Len(s) : HoldsAt(b, 4 + w * (i - 1), s[i])
    <2>1. \A i \in 1..Len(s) : Len(s[i]) = w
      BY <1>1
    <2> DEFINE n == Len(a)
    <2>2. /\ b \in Seq(OctetOf) /\ HoldsAt(b, 0, a) /\ Len(b) = Extent(n, w, Len(s))
          /\ \A i \in 1..Len(s) : HoldsAt(b, Extent(n, w, i - 1), s[i])
      BY <1>1, <1>3, <1>4, <2>1, HeaderAndParts
    <2>3. n = 4
      BY <1>4
    <2> HIDE DEF b, n
    <2> QED
      BY <1>1, <2>2, <2>3 DEF Extent
  <1> HIDE DEF b, h
  <1>8. /\ c \in Seq(OctetOf) /\ Len(c) = h + u * Len(t) /\ HoldsAt(c, 0, b)
        /\ \A i \in 1..Len(t) : HoldsAt(c, h + u * (i - 1), t[i])
    <2>1. \A i \in 1..Len(t) : Len(t[i]) = u
      BY <1>2
    <2> DEFINE n == Len(b)
    <2>2. /\ c \in Seq(OctetOf) /\ HoldsAt(c, 0, b) /\ Len(c) = Extent(n, u, Len(t))
          /\ \A i \in 1..Len(t) : HoldsAt(c, Extent(n, u, i - 1), t[i])
      BY <1>2, <1>3, <1>7, <2>1, HeaderAndParts
    <2>3. n = h
      BY <1>7
    <2> HIDE DEF c, n
    <2> QED
      BY <1>2, <2>2, <2>3 DEF Extent
  <1> HIDE DEF c
  <1>9. HoldsAt(c, 0, a)
    <2> DEFINE z == 0
    <2>1. /\ HoldsAt(c, z, b) /\ HoldsAt(b, z, a) /\ z \in Nat /\ z + z = z
          /\ Len(c) \in Nat /\ Len(b) \in Nat /\ Len(a) \in Nat
      BY <1>4, <1>7, <1>8
    <2> HIDE DEF z
    <2>2. HoldsAt(c, z + z, a)
      BY <2>1, HoldsWithin
    <2> QED
      BY <2>1, <2>2 DEF z
  <1>10. ASSUME NEW k \in 0..(count - 1)
         PROVE  /\ HoldsAt(c, 4 + w * k, DomainPart(d, off + (k + 1)))
                /\ HoldsAt(c, h + u * k, Sie!Message(d, val + (k + 1)))
    <2>1. k + 1 \in 1..count /\ (k + 1) - 1 = k /\ k \in Nat
      OBVIOUS
    <2>2. HoldsAt(b, 4 + w * ((k + 1) - 1), s[k + 1]) /\ HoldsAt(c, h + u * ((k + 1) - 1), t[k + 1])
      BY <1>1, <1>2, <1>7, <1>8, <2>1
    <2>3. s[k + 1] = DomainPart(d, off + (k + 1)) /\ t[k + 1] = Sie!Message(d, val + (k + 1))
      BY <1>1, <1>2, <2>1
    <2> DEFINE q == 4 + w * k
               e == s[k + 1]
               z == 0
    <2>4. /\ q \in Nat /\ Len(e) \in Nat /\ HoldsAt(b, q, e) /\ z \in Nat /\ z + q = q
          /\ HoldsAt(c, z, b) /\ Len(c) \in Nat /\ Len(b) \in Nat
      <3>1. w * k \in Nat
        BY <1>3, <2>1
      <3>2. q \in Nat /\ z \in Nat /\ z + q = q
        BY <3>1
      <3>3. Len(e) \in Nat
        BY <1>1, <1>3, <2>1
      <3>4. HoldsAt(b, q, e)
        BY <2>1, <2>2
      <3> QED
        BY <1>7, <1>8, <3>2, <3>3, <3>4
    <2> HIDE DEF q, e, z
    <2>5. HoldsAt(c, z + q, e)
      BY <2>4, HoldsWithin
    <2> QED
      BY <2>1, <2>2, <2>3, <2>4, <2>5 DEF q, e
  <1> QED
    BY <1>2, <1>3, <1>5, <1>8, <1>9, <1>10 DEF data, h, w, u, a

-----------------------------------------------------------------------------
(* A turn of the loop over the messages                                     *)

(* No field but has all its items read.                                     *)
ReadWhole(d) == \A f \in 1..Len(d.fields) : Sie!Pieces(d.fields[f]) = 1

(* The data of a CAN packet from turn k on.                                 *)
CanAhead(d, P, off, val, count, data, k) ==
    /\ CanReadable(d) /\ AreStarts(P, d) /\ CanBytes(d) = 8 /\ P[Len(d.fields)] = Sie!CAN_MESSAGE /\ ReadWhole(d)
    /\ off \in Nat /\ val \in Nat /\ count \in Nat /\ data \in Seq(OctetOf) /\ k \in 0..(count - 1)
    /\ HoldsAt(data, 4 + 8 * k, DomainPart(d, off + (k + 1)))
    /\ HoldsAt(data, 4 + 8 * count + Sie!CAN_MESSAGE * k, Sie!Message(d, val + (k + 1)))

(* The first j fields of the k-th message are read, over the number z.      *)
FieldsRead(d, P, count, data, k, x, y, z, ss, j) ==
    State(4 + 8 * count + Sie!CAN_MESSAGE * k + P[j], CanEnv(Len(d.fields), j, count, k, x, y, z), ss, data)

(* The steps of a turn: the domain value is read, ...                       *)
LEMMA DomainRead ==
    ASSUME NEW d, NEW P, NEW off, NEW val, NEW count, NEW data, NEW k, CanAhead(d, P, off, val, count, data, k),
           NEW x, NEW y, NEW z, NEW ss
    PROVE  Sie!Step(State(4 + 8 * k, CanEnv(Len(d.fields), 0, count, k, x, y, z), ss, data), ReadDomain(d))
             = State(12 + 8 * k, CanEnv(Len(d.fields), 0, count, k, off + (k + 1), y, z), ss, data)
  <1> DEFINE m == Len(d.fields)
             v == Sie!V(0)
             f == Sie!SieFormat(d.domainType)
             n == CanBytes(d)
             at == 4 + 8 * k
             u == off + (k + 1)
             e == CanEnv(m, 0, count, k, x, y, z)
             c == ReadDomain(d)
  <1>1. /\ CanReadable(d) /\ n = 8 /\ data \in Seq(OctetOf)
        /\ HoldsAt(data, at, DomainPart(d, u)) /\ at \in Nat /\ u \in Int /\ at + n = 12 + 8 * k
    BY DEF CanAhead
  <1>2. f \in Formats /\ n \in Nat \ {0}
    BY <1>1, CanBytesFacts
  <1>3. HoldsAt(data, at, Sie!Octets(u, f, n))
    BY <1>1 DEF DomainPart
  <1>4. Reads(c, v, f, n)
    BY ReadScalarReads, Zenon DEF ReadDomain, CanBytes
  <1>5. [e EXCEPT ![v] = u] = CanEnv(m, 0, count, k, u, y, z)
    <2>1. AreFields(m, 0)
      BY <1>1 DEF CanReadable, AreFields
    <2> HIDE DEF m, u
    <2>2. Changed(CanEnv(m, 0, count, k, x, y, z), Sie!V(0), u) = CanEnv(m, 0, count, k, u, y, z)
      BY <2>1, CanEnvChange
    <2> QED
      BY <2>2 DEF Changed
  <1> HIDE DEF v, f, n, at, u, e, c
  <1>6. Sie!Step(State(at, e, ss, data), c) = State(at + n, [e EXCEPT ![v] = u], ss, data)
    <2>1. data \in Seq(OctetOf) /\ at \in Nat /\ u \in Int
      BY <1>1
    <2> QED
      BY ONLY <1>2, <1>3, <1>4, <2>1, StepRead
  <1>7. Sie!Step(State(at, e, ss, data), c) = State(12 + 8 * k, CanEnv(m, 0, count, k, u, y, z), ss, data)
    BY <1>1, <1>5, <1>6
  <1> QED
    BY <1>7 DEF at, e, c, u

(* ... the reader seeks the message, ...                                    *)
LEMMA SeekMessage ==
    ASSUME NEW d, NEW P, NEW off, NEW val, NEW count, NEW data, NEW k, CanAhead(d, P, off, val, count, data, k),
           NEW x, NEW y, NEW z, NEW ss, NEW at
    PROVE  Sie!Step(State(at, CanEnv(Len(d.fields), 0, count, k, x, y, z), ss, data), ToMessage(d))
             = FieldsRead(d, P, count, data, k, x, y, z, ss, 0)
  <1> DEFINE m == Len(d.fields)
             b == CanBytes(d)
             c == Sie!CAN_MESSAGE
             e == CanEnv(m, 0, count, k, x, y, z)
             f == Sie!Expression(4, [n |-> b, i |-> c])
  <1>1. /\ CanReadable(d) /\ AreStarts(P, d) /\ b = 8 /\ count \in Nat /\ k \in Nat
    BY DEF CanAhead
  <1>2. e["n"] = count /\ e["i"] = k
    <2>1. AreFields(m, 0)
      BY <1>1 DEF CanReadable, AreFields
    <2> HIDE DEF m
    <2> QED
      BY <2>1, CanEnvValues
  <1>3. P[0] = 0 /\ c = 69
    BY <1>1 DEF AreStarts, Sie!CAN_MESSAGE
  <1>4. Sie!Step(State(at, e, ss, data), ToMessage(d)) = State(Sie!Evaluate(f, e), e, ss, data)
    <2> HIDE DEF e, f
    <2>1. ToMessage(d) = Sie!SeekElement("start", f)
      BY DEF ToMessage, f
    <2>2. Sie!Step(State(at, e, ss, data), Sie!SeekElement("start", f)) = State(Sie!Evaluate(f, e), e, ss, data)
      BY StepSeek
    <2> QED
      BY <2>1, <2>2
  <1>5. FieldsRead(d, P, count, data, k, x, y, z, ss, 0) = State(4 + 8 * count + c * k + P[0], e, ss, data)
    BY Zenon DEF FieldsRead
  <1> HIDE DEF e, b, c
  <1>6. Sie!Evaluate(f, e) = 4 + 8 * count + c * k
    <2> DEFINE a == 4
    <2>1. a \in Int /\ b \in Int /\ c \in Int /\ e["n"] \in Int /\ e["i"] \in Int
      BY <1>1, <1>2, <1>3
    <2>2. f = Sie!Expression(a, [n |-> b, i |-> c])
      OBVIOUS
    <2> HIDE DEF a, f
    <2>3. Sie!Evaluate(f, e) = a + b * e["n"] + c * e["i"]
      BY <2>1, <2>2, EvaluateCountIndex
    <2> QED
      BY <1>1, <1>2, <2>3 DEF a
  <1>7. 4 + 8 * count + c * k + P[0] = 4 + 8 * count + c * k
    BY <1>1, <1>3
  <1> HIDE DEF f
  <1> QED
    BY <1>4, <1>5, <1>6, <1>7 DEF e

(* ... reads a field, ...                                                   *)
LEMMA FieldRead ==
    ASSUME NEW d, NEW P, NEW off, NEW val, NEW count, NEW data, NEW k, CanAhead(d, P, off, val, count, data, k),
           NEW x, NEW z, NEW ss, NEW j \in 1..Len(d.fields)
    PROVE  Sie!Step(FieldsRead(d, P, count, data, k, x, val + (k + 1), z, ss, j - 1), CanField(d, j))
             = FieldsRead(d, P, count, data, k, x, val + (k + 1), z, ss, j)
  <1> DEFINE m == Len(d.fields)
             v == Sie!V(j)
             f == Sie!FieldFormat(d.fields[j])
             n == Sie!FieldOctets(d.fields[j])
             h == 4 + 8 * count + Sie!CAN_MESSAGE * k
             q == P[j - 1]
             y == val + (k + 1)
             at == h + q
             e == CanEnv(m, j - 1, count, k, x, y, z)
             c == CanField(d, j)
             msg == Sie!Message(d, y)
             o == Sie!Octets(y, f, n)
  <1>1. /\ CanReadable(d) /\ AreStarts(P, d) /\ data \in Seq(OctetOf) /\ HoldsAt(data, h, msg)
        /\ h \in Nat /\ y \in Int
    BY DEF CanAhead, Sie!CAN_MESSAGE
  <1>2. m \in Nat /\ m < Len(VariableNames) /\ j \in Nat /\ j - 1 \in 0..m /\ j - 1 < m /\ (j - 1) + 1 = j
    BY <1>1 DEF CanReadable
  <1>3. f \in Formats /\ n \in Nat \ {0} /\ Reads(c, v, f, n)
    BY <1>1, FieldFacts
  <1>4. q \in Nat /\ HoldsAt(msg, q, o) /\ msg \in Seq(OctetOf)
    <2>1. q \in Nat /\ HoldsAt(msg, q, MessagePart(d, y, j)) /\ msg \in Seq(OctetOf)
      <3> HIDE DEF y
      <3> QED
        BY <1>1, MessageHolds
    <2>2. MessagePart(d, y, j) = o
      <3>1. Sie!Pieces(d.fields[j]) = 1
        BY DEF CanAhead, ReadWhole
      <3> HIDE DEF y
      <3> QED
        BY <1>1, <3>1, PartFacts
    <2> HIDE DEF o
    <2> QED
      BY <2>1, <2>2
  <1>5. P[j] = q + n
    <2>1. Sie!Pieces(d.fields[j]) = 1
      BY DEF CanAhead, ReadWhole
    <2>2. P[j] = q + n * 1
      BY <1>1, <2>1 DEF AreStarts, DataOctets
    <2> HIDE DEF n, q
    <2> QED
      BY <1>3, <2>2
  <1>6. [e EXCEPT ![v] = y] = CanEnv(m, j, count, k, x, y, z)
    <2> DEFINE l == j - 1
    <2>1. AreFields(m, l) /\ l < m /\ l + 1 = j
      BY <1>2 DEF AreFields
    <2> HIDE DEF m, l, y
    <2>2. Changed(CanEnv(m, l, count, k, x, y, z), Sie!V(l + 1), y) = CanEnv(m, l + 1, count, k, x, y, z)
      BY ONLY <2>1, CanEnvField
    <2> QED
      BY <2>1, <2>2 DEF l, Changed
  <1>7. /\ FieldsRead(d, P, count, data, k, x, y, z, ss, j - 1) = State(at, e, ss, data)
        /\ FieldsRead(d, P, count, data, k, x, y, z, ss, j) = State(h + P[j], CanEnv(m, j, count, k, x, y, z), ss, data)
    BY Zenon DEF FieldsRead
  <1>8. Len(o) = n /\ Len(data) \in Nat /\ Len(msg) \in Nat
    <2>1. Len(o) = n
      <3> HIDE DEF y, f, n
      <3> QED
        BY <1>1, <1>3, OctetsFacts
    <2> QED
      BY <1>1, <1>4, <2>1, LenProperties
  <1> HIDE DEF v, f, n, h, q, y, e, c, msg, o
  <1>9. HoldsAt(data, at, o)
    BY <1>1, <1>3, <1>4, <1>8, HoldsWithin
  <1>10. at \in Nat /\ at + n = h + P[j]
    BY <1>1, <1>3, <1>4, <1>5
  <1> HIDE DEF at
  <1>11. Sie!Step(State(at, e, ss, data), c) = State(at + n, [e EXCEPT ![v] = y], ss, data)
    <2>1. HoldsAt(data, at, Sie!Octets(y, f, n))
      BY <1>9 DEF o
    <2> QED
      BY ONLY <1>1, <1>3, <1>10, <2>1, StepRead
  <1> QED
    BY <1>6, <1>7, <1>10, <1>11 DEF y, c

(* ... and seeks the next domain value.                                     *)
LEMMA SeekDomain ==
    ASSUME NEW d, CanBytes(d) = 8, NEW at, NEW env, NEW k \in Nat, env["i"] = k, NEW ss, NEW data
    PROVE  Sie!Step(State(at, env, ss, data), ToDomain(d)) = State(12 + 8 * k, env, ss, data)
  <1> DEFINE a == 12
             b == 8
             f == Sie!Expression(a, [i |-> b])
  <1>1. ToDomain(d) = Sie!SeekElement("start", f)
    <2>1. 4 + CanBytes(d) = 12
      OBVIOUS
    <2>2. Sie!BackToDomain(CanBytes(d)) = f
      BY <2>1 DEF Sie!BackToDomain
    <2> QED
      BY <2>2 DEF ToDomain
  <1>2. a \in Int /\ b \in Int /\ env["i"] \in Int
    OBVIOUS
  <1>3. a + b * env["i"] = 12 + 8 * k
    OBVIOUS
  <1>4. f = Sie!Expression(a, [i |-> b])
    OBVIOUS
  <1> HIDE DEF a, b, f
  <1>5. Sie!Evaluate(f, env) = a + b * env["i"]
    BY ONLY <1>2, <1>4, EvaluateIndex
  <1>6. Sie!Step(State(at, env, ss, data), Sie!SeekElement("start", f)) = State(Sie!Evaluate(f, env), env, ss, data)
    BY StepSeek
  <1> QED
    BY <1>1, <1>3, <1>5, <1>6

(* The variables after a message of the number y at time x is read.         *)
MessageEnv(d, count, i, x, y) == CanEnv(Len(d.fields), 0, count, i, x, Sie!Garbage, y)

(* The steps of a turn together: a sample of the message is taken.          *)
LEMMA CanSteps ==
    ASSUME NEW d, NEW P, NEW off, NEW val, NEW count, NEW data, NEW k, CanAhead(d, P, off, val, count, data, k),
           NEW x, NEW z, NEW ss, NEW e, e = MessageEnv(d, count, k, off + (k + 1), val + (k + 1))
    PROVE  Sie!Steps(State(4 + 8 * k, MessageEnv(d, count, k, x, z), ss, data), CanBody(d))
             = State(12 + 8 * k, e, Append(ss, e), data)
  <1> DEFINE m == Len(d.fields)
             g == Sie!Garbage
             t == off + (k + 1)
             y == val + (k + 1)
             A == State(4 + 8 * k, CanEnv(m, 0, count, k, x, y, z), ss, data)
             B == State(12 + 8 * k, CanEnv(m, 0, count, k, t, y, z), ss, data)
             C(j) == FieldsRead(d, P, count, data, k, t, y, z, ss, j)
             at == 4 + 8 * count + Sie!CAN_MESSAGE * k + P[m]
             D == State(at, e, Append(ss, e), data)
             E == State(12 + 8 * k, e, Append(ss, e), data)
             body == CanBody(d)
             n == m + 4
             f == [i \in 0..n |-> IF i = 0 THEN A ELSE IF i = 1 THEN B ELSE IF i <= m + 2 THEN C(i - 2)
                                  ELSE IF i = m + 3 THEN D ELSE E]
  <1>1. CanReadable(d) /\ CanBytes(d) = 8 /\ k \in Nat
    BY DEF CanAhead
  <1>2. m \in Nat /\ n \in Nat /\ m < Len(VariableNames) /\ AreFields(m, m) /\ AreFields(m, 0)
    BY <1>1 DEF CanReadable, AreFields
  <1>3. State(4 + 8 * k, MessageEnv(d, count, k, x, z), ss, data) = A
    <2>1. \A u : CanEnv(m, m, count, k, x, z, z) = CanEnv(m, 0, count, k, x, u, z)
      BY CanEnvDone
    <2>2. CanEnv(m, 0, count, k, x, g, z) = CanEnv(m, 0, count, k, x, y, z)
      <3> HIDE DEF m, g, y
      <3> QED
        BY <2>1
    <2> QED
      BY <2>2 DEF MessageEnv
  <1>4. C(m) = State(at, e, ss, data)
    <2>1. CanEnv(m, m, count, k, t, y, z) = CanEnv(m, 0, count, k, t, g, y)
      BY CanEnvDone
    <2>2. CanEnv(m, m, count, k, t, y, z) = e
      BY <2>1 DEF MessageEnv
    <2> QED
      BY <2>2, Zenon DEF FieldsRead
  <1>5. e["i"] = k
    <2>1. CanEnv(m, 0, count, k, t, g, y)["i"] = k
      <3> HIDE DEF m, t, g, y
      <3> QED
        BY <1>2, CanEnvValues
    <2> QED
      BY <2>1 DEF MessageEnv
  <1>6. /\ DOMAIN body = 1..n /\ body[1] = ReadDomain(d) /\ body[2] = ToMessage(d)
        /\ \A j \in 1..m : body[2 + j] = CanField(d, j)
        /\ body[m + 3] = Sie!SampleElement /\ body[m + 4] = ToDomain(d)
    <2> HIDE DEF body
    <2> QED
      BY <1>1, CanBodyParts DEF body
  <1>7. Sie!Step(A, ReadDomain(d)) = B
    <2> HIDE DEF y
    <2> QED
      BY DomainRead
  <1>8. Sie!Step(B, ToMessage(d)) = C(0)
    <2> HIDE DEF t, y
    <2> QED
      BY SeekMessage
  <1>9. \A j \in 1..m : Sie!Step(C(j - 1), CanField(d, j)) = C(j)
    <2> HIDE DEF t
    <2> QED
      BY FieldRead
  <1>10. Sie!Step(C(m), Sie!SampleElement) = D
    <2> HIDE DEF at, C
    <2> QED
      BY <1>4, StepSample
  <1>11. Sie!Step(D, ToDomain(d)) = E
    <2> HIDE DEF at
    <2> QED
      BY <1>1, <1>5, SeekDomain
  <1> HIDE DEF A, B, C, D, E, body
  <1>12. f[0] = A /\ f[n] = E
    BY <1>2
  <1>13. ASSUME NEW i \in 1..n
         PROVE  f[i] = Sie!Step(f[i - 1], body[i])
    <2>0. i \in Nat /\ i \in 0..n /\ i - 1 \in 0..n
      BY <1>2
    <2>1. CASE i = 1
      <3>1. f[i] = B /\ f[i - 1] = A
        BY <1>2, <2>1
      <3> QED
        BY <1>6, <1>7, <2>1, <3>1
    <2>2. CASE i = 2
      <3>1. f[i] = C(0) /\ f[i - 1] = B
        BY <1>2, <2>2
      <3> QED
        BY <1>6, <1>8, <2>2, <3>1
    <2>3. CASE i > 2 /\ i <= m + 2
      <3> DEFINE j == i - 2
      <3>1. j \in 1..m /\ 2 + j = i /\ (i - 1) - 2 = j - 1
        BY <1>2, <2>0, <2>3
      <3>2. f[i] = C(j)
        BY <1>2, <2>0, <2>3
      <3>3. f[i - 1] = C(j - 1)
        <4>1. f[i - 1] = C((i - 1) - 2)
          BY <1>2, <2>0, <2>3
        <4> QED
          BY <3>1, <4>1
      <3> HIDE DEF j
      <3>4. body[2 + j] = CanField(d, j) /\ Sie!Step(C(j - 1), CanField(d, j)) = C(j)
        BY <1>6, <1>9, <3>1
      <3> QED
        BY <3>1, <3>2, <3>3, <3>4
    <2>4. CASE i = m + 3
      <3>1. f[i] = D
        BY <1>2, <2>4
      <3>2. f[i - 1] = C(m)
        <4>1. f[i - 1] = C((i - 1) - 2) /\ (i - 1) - 2 = m
          BY <1>2, <2>4
        <4> QED
          BY <4>1
      <3> QED
        BY <1>6, <1>10, <2>4, <3>1, <3>2
    <2>5. CASE i = m + 4
      <3>1. f[i] = E /\ f[i - 1] = D
        BY <1>2, <2>5
      <3> QED
        BY <1>6, <1>11, <2>5, <3>1
    <2> QED
      BY <1>2, <2>0, <2>1, <2>2, <2>3, <2>4, <2>5
  <1> HIDE DEF f, n
  <1>14. Sie!Steps(A, body) = f[n]
    <2>1. n \in Nat /\ DOMAIN body = 1..n /\ f[0] = A /\ \A i \in 1..n : f[i] = Sie!Step(f[i - 1], body[i])
      BY <1>2, <1>6, <1>12, <1>13
    <2> QED
      BY ONLY <2>1, StepsIs
  <1> QED
    BY <1>3, <1>12, <1>14 DEF body, E

(* The samples after k turns of the loop, and the reader then.              *)
TimeRead(off, k) == IF k = 0 THEN Sie!Garbage ELSE off + k
CanSamples(d, off, val, count, k) == [j \in 1..k |-> MessageEnv(d, count, j - 1, off + j, val + j)]
CanTurns(d, off, val, count, data, k) ==
    State(4 + 8 * k, MessageEnv(d, count, k, TimeRead(off, k), TimeRead(val, k)),
          CanSamples(d, off, val, count, k), data)

(* One more sample.                                                         *)
LEMMA CanSamplesMore ==
    ASSUME NEW d, NEW off, NEW val, NEW count, NEW k \in Nat
    PROVE  Append(CanSamples(d, off, val, count, k), MessageEnv(d, count, k, off + (k + 1), val + (k + 1)))
             = CanSamples(d, off, val, count, k + 1)
  <1> DEFINE e(j) == MessageEnv(d, count, j - 1, off + j, val + j)
             t == [j \in 1..(k + 1) |-> e(j)]
             s == [j \in 1..k |-> e(j)]
  <1>1. (k + 1) - 1 = k /\ k + 1 \in 1..(k + 1) /\ \A j \in 1..k : j \in 1..(k + 1)
    OBVIOUS
  <1>2. e(k + 1) = MessageEnv(d, count, k, off + (k + 1), val + (k + 1))
    BY <1>1
  <1>3. s = CanSamples(d, off, val, count, k) /\ t = CanSamples(d, off, val, count, k + 1)
    BY DEF CanSamples
  <1> HIDE DEF e
  <1>4. /\ DOMAIN t = 1..(k + 1) /\ t = [j \in 1..(k + 1) |-> t[j]] /\ t[k + 1] = e(k + 1)
        /\ s = [j \in 1..k |-> t[j]]
    BY <1>1
  <1> HIDE DEF s, t
  <1>5. Append(s, t[k + 1]) = t
    BY <1>4, AppendEntry
  <1> QED
    BY <1>2, <1>3, <1>4, <1>5

(* The variables between two messages.                                      *)
LEMMA MessageEnvFacts ==
    ASSUME NEW d, CanReadable(d), NEW count, NEW i, NEW x, NEW y
    PROVE  /\ MessageEnv(d, count, i, x, y)["n"] = count /\ MessageEnv(d, count, i, x, y)["i"] = i
           /\ \A u : Changed(MessageEnv(d, count, i, x, y), "i", u) = MessageEnv(d, count, u, x, y)
  <1> DEFINE m == Len(d.fields)
             z == 0
             g == Sie!Garbage
  <1>1. AreFields(m, z)
    BY DEF CanReadable, AreFields
  <1>2. \A p : MessageEnv(d, count, p, x, y) = CanEnv(m, z, count, p, x, g, y)
    BY Zenon DEF MessageEnv
  <1> HIDE DEF m, z, g
  <1>3. CanEnv(m, z, count, i, x, g, y)["n"] = count /\ CanEnv(m, z, count, i, x, g, y)["i"] = i
    BY <1>1, CanEnvValues
  <1>4. \A u : Changed(CanEnv(m, z, count, i, x, g, y), "i", u) = CanEnv(m, z, count, u, x, g, y)
    BY <1>1, CanEnvChange
  <1> QED
    BY <1>2, <1>3, <1>4

(* The loop ends with the last message.                                     *)
LEMMA CanEnded ==
    ASSUME NEW d, CanReadable(d), NEW count \in Nat, NEW k \in Nat, NEW x, NEW y, NEW at, NEW ss, NEW data
    PROVE  Sie!Ended(CanLoop(d), State(at, MessageEnv(d, count, k, x, y), ss, data)) <=> k >= count
  <1> DEFINE L == CanLoop(d)
             e == MessageEnv(d, count, k, x, y)
             st == State(at, e, ss, data)
             f == Sie!Expression(0, [n |-> 1])
  <1>1. Sie!Has(L, "end") /\ Sie!Attribute(L, "end") = f /\ Sie!Attribute(L, "var") = "i"
    BY CanLoopParts, Zenon DEF HasThree
  <1>2. e["n"] = count /\ e["i"] = k
    BY MessageEnvFacts
  <1>3. st.env = e
    BY StateParts
  <1> HIDE DEF L, e, st
  <1>4. Sie!Evaluate(f, e) = count
    BY <1>2, EvaluateCount
  <1> HIDE DEF f
  <1>5. Sie!Ended(L, st) <=> st.env["i"] >= Sie!Evaluate(f, st.env)
    BY <1>1, Zenon DEF Sie!Ended
  <1>6. Sie!Ended(L, st) <=> k >= count
    BY <1>2, <1>3, <1>4, <1>5
  <1> QED
    BY <1>6 DEF L, e, st

(* A turn of the loop, if the data hold the next message: it goes on, and   *)
(* has its sample.                                                          *)
LEMMA CanTurn ==
    ASSUME NEW d, NEW P, NEW off, NEW val, NEW count, NEW data, NEW k, CanAhead(d, P, off, val, count, data, k)
    PROVE  /\ ~Sie!Ended(CanLoop(d), CanTurns(d, off, val, count, data, k))
           /\ Sie!Turn(CanLoop(d), CanTurns(d, off, val, count, data, k))
                = CanTurns(d, off, val, count, data, k + 1)
  <1> DEFINE L == CanLoop(d)
             body == CanBody(d)
             x == TimeRead(off, k)
             z == TimeRead(val, k)
             t == off + (k + 1)
             y == val + (k + 1)
             ss == CanSamples(d, off, val, count, k)
             e == MessageEnv(d, count, k, t, y)
             e1 == MessageEnv(d, count, k + 1, t, y)
             st == CanTurns(d, off, val, count, data, k)
             sv == State(12 + 8 * k, e, Append(ss, e), data)
  <1>1. /\ CanReadable(d) /\ off \in Nat /\ val \in Nat /\ count \in Nat /\ k \in Nat /\ ~(k >= count)
        /\ k + 1 \in Nat /\ k + 1 # 0 /\ 4 + 8 * (k + 1) = 12 + 8 * k
    BY DEF CanAhead
  <1>2. st = State(4 + 8 * k, MessageEnv(d, count, k, x, z), ss, data)
    BY Zenon DEF CanTurns
  <1>3. Sie!Steps(st, body) = sv
    <2>1. Sie!Steps(State(4 + 8 * k, MessageEnv(d, count, k, x, z), ss, data), CanBody(d))
             = State(12 + 8 * k, e, Append(ss, e), data)
      <3> HIDE DEF x, z, ss
      <3> QED
        BY CanSteps
    <2> QED
      BY <1>2, <2>1
  <1>4. Append(ss, e) = CanSamples(d, off, val, count, k + 1)
    BY <1>1, CanSamplesMore
  <1>5. e["i"] = k /\ \A u : Changed(e, "i", u) = MessageEnv(d, count, u, t, y)
    BY <1>1, MessageEnvFacts
  <1>6. CanTurns(d, off, val, count, data, k + 1) = State(12 + 8 * k, e1, CanSamples(d, off, val, count, k + 1), data)
    <2>1. TimeRead(off, k + 1) = t /\ TimeRead(val, k + 1) = y
      BY <1>1 DEF TimeRead
    <2> QED
      BY <1>1, <2>1, Zenon DEF CanTurns
  <1>7. ~Sie!Ended(L, st)
    <2>1. Sie!Ended(L, State(4 + 8 * k, MessageEnv(d, count, k, x, z), ss, data)) <=> k >= count
      <3> HIDE DEF x, z, ss
      <3> QED
        BY <1>1, CanEnded
    <2> QED
      BY <1>1, <1>2, <2>1
  <1>8. /\ L.children = body /\ Sie!Attribute(L, "var") = "i" /\ ~Sie!Has(L, "increment")
    <2>1. "increment" # "var" /\ "increment" # "start" /\ "increment" # "end"
      OBVIOUS
    <2> QED
      BY <1>1, <2>1, CanLoopParts, Zenon DEF HasThree
  <1>9. sv.env = e
    BY StateParts
  <1>10. \A u : WithVariable(sv, "i", u) = State(12 + 8 * k, Changed(e, "i", u), Append(ss, e), data)
    <2>1. \A u : WithVariable(sv, "i", u) = State(12 + 8 * k, [e EXCEPT !["i"] = u], Append(ss, e), data)
      BY StateWithVariable
    <2> QED
      BY <2>1 DEF Changed
  <1> HIDE DEF L, body, x, z, t, y, ss, e, e1, st, sv
  <1>11. Sie!Turn(L, st) = [Sie!Steps(st, L.children) EXCEPT !.env["i"] = @ + 1]
    BY <1>7, <1>8, Zenon DEF Sie!Turn
  <1>12. Sie!Turn(L, st) = [sv EXCEPT !.env["i"] = sv.env["i"] + 1]
    BY <1>3, <1>8, <1>11
  <1>13. Sie!Turn(L, st) = WithVariable(sv, "i", k + 1)
    BY <1>5, <1>9, <1>12, Zenon DEF WithVariable
  <1>14. Changed(e, "i", k + 1) = e1
    BY <1>5 DEF e1
  <1>15. Sie!Turn(L, st) = CanTurns(d, off, val, count, data, k + 1)
    BY <1>4, <1>6, <1>10, <1>13, <1>14
  <1> QED
    BY <1>7, <1>15 DEF L, st

(* The variables once the count is read.                                    *)
LEMMA CanStarted ==
    ASSUME NEW d, CanReadable(d), NEW count
    PROVE  [[v \in Sie!Variables |-> Sie!Garbage] EXCEPT !["n"] = count]
             = MessageEnv(d, count, Sie!Garbage, Sie!Garbage, Sie!Garbage)
  <1> DEFINE m == Len(d.fields)
             S == Sie!Variables
             g == Sie!Garbage
             a == Sie!V(0)
             P(w) == \E f \in 1..0 : w = Sie!V(f)
             Q(w) == \E f \in 1..m : w = Sie!V(f)
  <1>1. "n" \in S
    BY DEF Sie!Variables
  <1>2. MessageEnv(d, count, g, g, g)
          = [w \in S |-> IF w = "n" THEN count ELSE IF w = "i" THEN g ELSE IF w = a THEN g
                         ELSE IF P(w) THEN g ELSE IF Q(w) THEN g ELSE g]
    BY Zenon DEF CanEnv, MessageEnv
  <1> HIDE DEF S, g, a, P, Q
  <1>3. [[v \in S |-> g] EXCEPT !["n"] = count] = MessageEnv(d, count, g, g, g)
    BY <1>1, <1>2
  <1> QED
    BY <1>3 DEF S, g

(* The loop begins with the first message.                                  *)
LEMMA CanBegins ==
    ASSUME NEW d, CanReadable(d), NEW off, NEW val, NEW count, NEW data, NEW e,
           e = MessageEnv(d, count, Sie!Garbage, Sie!Garbage, Sie!Garbage)
    PROVE  Begun(State(4, e, <<>>, data), CanLoop(d)) = CanTurns(d, off, val, count, data, 0)
  <1> DEFINE L == CanLoop(d)
             g == Sie!Garbage
             none == <<>>
             x == 0
             st == State(4, e, none, data)
             e0 == MessageEnv(d, count, x, g, g)
  <1>1. Sie!Attribute(L, "var") = "i" /\ Sie!Attribute(L, "start") = Sie!Number(0)
    BY CanLoopParts, Zenon DEF HasThree
  <1>2. st.env = e
    BY StateParts
  <1>3. Sie!Evaluate(Sie!Number(0), e) = x
    BY EvaluateNumber
  <1>4. Changed(e, "i", x) = e0
    <2> HIDE DEF x, g
    <2> QED
      BY MessageEnvFacts DEF g
  <1>5. WithVariable(st, "i", x) = State(4, Changed(e, "i", x), none, data)
    <2>1. WithVariable(st, "i", x) = State(4, [e EXCEPT !["i"] = x], none, data)
      BY StateWithVariable
    <2> QED
      BY <2>1 DEF Changed
  <1>6. CanTurns(d, off, val, count, data, 0) = State(4, e0, none, data)
    <2>1. 4 + 8 * 0 = 4 /\ TimeRead(off, 0) = g /\ TimeRead(val, 0) = g
      BY DEF TimeRead
    <2>2. CanSamples(d, off, val, count, 0) = none
      BY DEF CanSamples
    <2> QED
      BY <2>1, <2>2 DEF CanTurns
  <1> HIDE DEF L, g, none, x, st, e0
  <1>7. Begun(st, L) = WithVariable(st, "i", x)
    BY <1>1, <1>2, <1>3, Zenon DEF Begun, WithVariable
  <1>8. Begun(st, L) = CanTurns(d, off, val, count, data, 0)
    BY <1>4, <1>5, <1>6, <1>7
  <1> QED
    BY <1>8 DEF st, L, none

(* The decoder of a CAN channel reads a payload of messages of the one      *)
(* supported size.                                                          *)
LEMMA CanRun ==
    ASSUME NEW d, CanReadable(d), NEW P, AreStarts(P, d), NEW off \in Nat, NEW val \in Nat, NEW count \in Nat,
           count = 0 \/ (CanBytes(d) = 8 /\ P[Len(d.fields)] = Sie!CAN_MESSAGE /\ ReadWhole(d)), NEW id
    PROVE  Sie!Run(Sie!CanDecoder(d, id), CanData(d, off, val, count)) = CanSamples(d, off, val, count, count)
  <1> DEFINE data == CanData(d, off, val, count)
             m == Len(d.fields)
             R == Sie!ReadScalar("n", "uint", 32)
             L == CanLoop(d)
             decoder == Sie!CanDecoder(d, id)
             g == Sie!Garbage
             none == <<>>
             env0 == [v \in Sie!Variables |-> g]
             e == MessageEnv(d, count, g, g, g)
             st == State(4, e, none, data)
             q == [k \in Nat |-> CanTurns(d, off, val, count, data, k)]
             h == 4 + CanBytes(d) * count
  <1>1. /\ data \in Seq(OctetOf) /\ P[m] \in Nat /\ Len(data) = h + P[m] * count
        /\ HoldsAt(data, 0, Sie!Octets(count, "uint", 4))
        /\ \A k \in 0..(count - 1) :
              /\ HoldsAt(data, 4 + CanBytes(d) * k, DomainPart(d, off + (k + 1)))
              /\ HoldsAt(data, h + P[m] * k, Sie!Message(d, val + (k + 1)))
    BY CanDataHolds
  <1>2. CanBytes(d) \in Nat \ {0}
    BY CanBytesFacts
  <1>3. decoder.children = <<R, L>>
    <2> DEFINE kids == <<R, L>>
               S == {R, L}
    <2>1. kids \in Seq(S)
      <3> HIDE DEF R, L
      <3> QED
        OBVIOUS
    <2>2. decoder = Sie!AddChildren(Sie!Decoder(id), kids)
      <3>1. Sie!SieReadType(d.domainType)[1] = Sie!SieFormat(d.domainType)
            /\ Sie!SieReadType(d.domainType)[2] = Sie!SieBits(d.domainType)
        BY DEF Sie!SieReadType
      <3> QED
        BY <3>1, Zenon DEF Sie!CanDecoder, CanLoop, CanBody, CanField, ReadDomain, ToMessage, ToDomain, CanBytes
    <2> HIDE DEF kids, S, decoder
    <2>3. decoder.children = kids
      BY <2>1, <2>2, DecoderParts
    <2> QED
      BY <2>3 DEF kids
  <1>4. Reads(R, "n", "uint", 4)
    <2>1. 32 \div 8 = 4
      OBVIOUS
    <2>2. Reads(R, "n", "uint", 32 \div 8)
      BY ReadScalarReads, Zenon
    <2> QED
      BY <2>1, <2>2
  <1>5. RunStep(Started(data), R) = st
    <2>1. Started(data) = State(0, env0, none, data)
      BY DEF Started, State
    <2>2. RunStep(Started(data), R) = Sie!Step(Started(data), R)
      <3>1. R.name = "read" /\ "read" # "loop"
        BY <1>4 DEF Reads
      <3> QED
        BY <3>1, Zenon DEF RunStep
    <2>3. [env0 EXCEPT !["n"] = count] = e
      BY CanStarted
    <2>4. "uint" \in Formats /\ 4 \in Nat \ {0} /\ 0 \in Nat /\ count \in Int /\ 0 + 4 = 4
      BY DEF Formats
    <2> HIDE DEF data, R, env0, none, g, e
    <2>5. Sie!Step(State(0, env0, none, data), R) = State(0 + 4, [env0 EXCEPT !["n"] = count], none, data)
      <3> DEFINE at == 0
                 n == 4
                 f == "uint"
                 v == "n"
      <3>1. /\ f \in Formats /\ n \in Nat \ {0} /\ at \in Nat /\ count \in Int /\ data \in Seq(OctetOf)
            /\ Reads(R, v, f, n) /\ HoldsAt(data, at, Sie!Octets(count, f, n))
        BY <1>1, <1>4, <2>4
      <3> HIDE DEF at, n, f, v
      <3>2. Sie!Step(State(at, env0, none, data), R) = State(at + n, [env0 EXCEPT ![v] = count], none, data)
        BY ONLY <3>1, StepRead
      <3> QED
        BY <3>2 DEF at, n, f, v
    <2> QED
      BY <2>1, <2>2, <2>3, <2>4, <2>5
  <1>6. RunStep(st, L) = Sie!Loop(st, L)
    <2>1. L.name = "loop"
      BY CanLoopParts, Zenon DEF HasThree
    <2> QED
      BY <2>1, Zenon DEF RunStep
  <1>7. st.data = data
    BY StateParts
  <1>8. Begun(st, L) = CanTurns(d, off, val, count, data, 0)
    BY CanBegins
  <1>9. \A k \in Nat : q[k] = CanTurns(d, off, val, count, data, k)
    OBVIOUS
  <1>e. \A k \in Nat : Sie!Ended(L, CanTurns(d, off, val, count, data, k)) <=> k >= count
    <2> TAKE k \in Nat
    <2> DEFINE x == TimeRead(off, k)
               y == TimeRead(val, k)
               ss == CanSamples(d, off, val, count, k)
    <2>1. CanTurns(d, off, val, count, data, k) = State(4 + 8 * k, MessageEnv(d, count, k, x, y), ss, data)
      BY Zenon DEF CanTurns
    <2> HIDE DEF x, y, ss, data
    <2>2. Sie!Ended(CanLoop(d), State(4 + 8 * k, MessageEnv(d, count, k, x, y), ss, data)) <=> k >= count
      BY CanEnded
    <2> QED
      BY <2>1, <2>2
  <1> HIDE DEF data, L, st, q, decoder, R, g, none, h, m, e
  <1>10. count \in 0..Len(data) /\ Len(data) \in Nat
    <2> DEFINE a == CanBytes(d) * count
               b == P[m] * count
    <2>1. a \in Nat /\ count <= a
      <3>1. 1 * count <= CanBytes(d) * count
        <4>1. count * 1 <= count * CanBytes(d)
          BY <1>2, TimesMonotone
        <4>2. count * 1 = 1 * count /\ count * CanBytes(d) = CanBytes(d) * count
          BY <1>2
        <4> QED
          BY <4>1, <4>2
      <3>2. CanBytes(d) * count \in Nat /\ 1 * count = count
        BY <1>2
      <3> QED
        BY <3>1, <3>2
    <2>2. b \in Nat
      BY <1>1
    <2>3. Len(data) = 4 + a + b
      BY <1>1 DEF h
    <2> HIDE DEF a, b
    <2> QED
      BY <2>1, <2>2, <2>3
  <1>11. \A k \in 0..(count - 1) : ~Sie!Ended(L, q[k]) /\ Sie!Turn(L, q[k]) = q[k + 1]
    <2> TAKE k \in 0..(count - 1)
    <2>1. k \in Nat /\ k + 1 \in Nat /\ count # 0
      OBVIOUS
    <2>2. q[k] = CanTurns(d, off, val, count, data, k) /\ q[k + 1] = CanTurns(d, off, val, count, data, k + 1)
      BY <1>9, <2>1
    <2>3. CanBytes(d) = 8 /\ P[m] = Sie!CAN_MESSAGE /\ ReadWhole(d)
      BY <2>1 DEF m
    <2>4. /\ HoldsAt(data, 4 + 8 * k, DomainPart(d, off + (k + 1)))
          /\ HoldsAt(data, 4 + 8 * count + Sie!CAN_MESSAGE * k, Sie!Message(d, val + (k + 1)))
      BY <1>1, <2>3 DEF h
    <2>5. CanAhead(d, P, off, val, count, data, k)
      BY <1>1, <2>3, <2>4, Zenon DEF CanAhead, m
    <2>6. /\ ~Sie!Ended(L, CanTurns(d, off, val, count, data, k))
          /\ Sie!Turn(L, CanTurns(d, off, val, count, data, k)) = CanTurns(d, off, val, count, data, k + 1)
      BY ONLY <2>5, CanTurn DEF L
    <2> QED
      BY <2>2, <2>6
  <1>12. Sie!Ended(L, q[count])
    BY <1>9, <1>e
  <1>13. Sie!Loop(st, L) = q[count]
    <2>1. q[0] = Begun(st, L)
      BY <1>8, <1>9
    <2> QED
      BY ONLY <1>7, <1>10, <1>11, <1>12, <2>1, LoopIs
  <1>14. q[count].samples = CanSamples(d, off, val, count, count)
    <2>1. q[count] = CanTurns(d, off, val, count, data, count)
      BY <1>9
    <2> QED
      BY ONLY <2>1 DEF CanTurns, State
  <1>15. Sie!Run(decoder, data) = RunStep(RunStep(Started(data), R), L).samples
    BY <1>3, RunTwo
  <1> QED
    BY <1>5, <1>6, <1>13, <1>14, <1>15 DEF decoder, data

-----------------------------------------------------------------------------
(* Dimensions and channels                                                  *)

(* A dimension that shows the k-th variable of a decoder.                   *)
IsDimension(dim, decoder, k) ==
    /\ dim.name = "dim"
    /\ Sie!Attribute(Sie!DataOf(dim), "decoder") = decoder /\ Sie!Attribute(Sie!DataOf(dim), "v") = k

(* The parts of data.                                                       *)
LEMMA DataParts ==
    ASSUME NEW decoder, NEW k
    PROVE  LET e == Sie!Data(decoder, k)
           IN  e.name = "data" /\ Sie!Attribute(e, "decoder") = decoder /\ Sie!Attribute(e, "v") = k
  <1> DEFINE pairs == << <<"decoder", decoder>>, <<"v", k>> >>
             e == Made("data", Attributes(pairs), <<>>, <<>>)
  <1>1. /\ Sie!AddAttributes(Sie!Element("data"), pairs) = e
        /\ HasTwo(e, "data", <<>>, "decoder", "v", decoder, k)
    <2>1. "decoder" # "v"
      OBVIOUS
    <2> HIDE DEF pairs
    <2>2. pairs = << <<"decoder", decoder>>, <<"v", k>> >>
      BY DEF pairs
    <2> QED
      BY <2>1, <2>2, TwoAttributes
  <1>2. Sie!Data(decoder, k) = e
    BY <1>1, Zenon DEF Sie!Data, pairs
  <1> QED
    BY <1>1, <1>2, Zenon DEF HasTwo

(* Units are no data.                                                       *)
LEMMA UnitsName == \A u : Sie!Units(u).name = "units"
  <1> TAKE u
  <1> DEFINE none == <<>>
  <1>1. Sie!Element("units") = Made("units", none, none, none)
    BY NewElement
  <1> HIDE DEF none
  <1>2. Sie!SetContent(Made("units", none, none, none), u) = Made("units", none, none, u)
    BY MoreParts
  <1> QED
    BY <1>1, <1>2, MadeFields DEF Sie!Units

(* The first data of a dimension says what it shows.                        *)
LEMMA DimensionOf ==
    ASSUME NEW i, NEW S, NEW kids \in Seq(S), NEW j \in 1..Len(kids), NEW decoder, NEW k,
           kids[j] = Sie!Data(decoder, k), \A l \in 1..(j - 1) : kids[l].name # "data"
    PROVE  IsDimension(Sie!AddChildren(Sie!Dimension(i), kids), decoder, k)
  <1> DEFINE dim == Sie!AddChildren(Sie!Dimension(i), kids)
  <1>1. dim.name = "dim" /\ dim.children = kids
    BY DimensionMade
  <1>2. kids[j].name = "data" /\ Sie!Attribute(kids[j], "decoder") = decoder /\ Sie!Attribute(kids[j], "v") = k
    BY DataParts
  <1>3. Len(kids) \in Nat
    BY LenProperties
  <1>4. Sie!First("data", kids) = kids[j]
    BY <1>2, <1>3, FirstNamed
  <1> HIDE DEF dim
  <1>5. Sie!DataOf(dim) = kids[j]
    BY <1>1, <1>4, Zenon DEF Sie!DataOf
  <1>6. IsDimension(dim, decoder, k)
    BY <1>1, <1>2, <1>5, Zenon DEF IsDimension
  <1> QED
    BY <1>6 DEF dim

(* The dimensions that channels are made of.                                *)
LEMMA TimeDimensionOf == ASSUME NEW d, NEW decoder PROVE IsDimension(TimeDimension(d, decoder), decoder, 0)
  <1> DEFINE x == Sie!TickResolutionToTransform(d)
             y == Sie!Data(decoder, 0)
             z == Sie!Units("unit")
             kids == <<x, y, z>>
             S == {x, y, z}
             j == 2
  <1>1. TimeDimension(d, decoder) = Sie!AddChildren(Sie!Dimension(0), kids)
    BY DEF TimeDimension
  <1>2. x.name = "xform"
    BY TransformScale DEF Sie!TickResolutionToTransform
  <1> HIDE DEF x, z
  <1>3. kids \in Seq(S) /\ j \in 1..Len(kids) /\ kids[j] = y /\ kids[1] = x
    OBVIOUS
  <1>4. \A l \in 1..(j - 1) : kids[l].name # "data"
    <2>1. \A l \in 1..(j - 1) : l = 1
      OBVIOUS
    <2>2. "xform" # "data"
      OBVIOUS
    <2> QED
      BY <1>2, <1>3, <2>1, <2>2
  <1> HIDE DEF kids, S, j
  <1>5. \A i : IsDimension(Sie!AddChildren(Sie!Dimension(i), kids), decoder, 0)
    BY <1>3, <1>4, DimensionOf
  <1> QED
    BY <1>1, <1>5

(* The dimension of the values of a scalar channel.                         *)
LEMMA ValueDimensionOf ==
    ASSUME NEW decoder
    PROVE  IsDimension(Sie!AddChildren(Sie!Dimension(1),
               << Sie!Data(decoder, 1), Sie!Units("unit"), Sie!Tag("FS_Min", "low"), Sie!Tag("FS_Max", "high") >>),
               decoder, 1)
  <1> DEFINE x == Sie!Data(decoder, 1)
             y == Sie!Units("unit")
             z == Sie!Tag("FS_Min", "low")
             w == Sie!Tag("FS_Max", "high")
             kids == <<x, y, z, w>>
             S == {x, y, z, w}
             j == 1
  <1> HIDE DEF y, z, w
  <1>1. kids \in Seq(S) /\ j \in 1..Len(kids) /\ kids[j] = x /\ \A l \in 1..(j - 1) : kids[l].name # "data"
    <2> HIDE DEF x
    <2> QED
      OBVIOUS
  <1> HIDE DEF kids, S, j
  <1>2. \A i : IsDimension(Sie!AddChildren(Sie!Dimension(i), kids), decoder, 1)
    BY <1>1, DimensionOf
  <1>3. IsDimension(Sie!AddChildren(Sie!Dimension(1), kids), decoder, 1)
    BY <1>2
  <1> QED
    BY <1>3 DEF kids, x, y, z, w

(* The dimension of a field.                                                *)
FieldDimension(decoder, k) ==
    Sie!AddChildren(Sie!Dimension(k), << Sie!Tag("openDAQ:fieldName", "field"), Sie!Data(decoder, k) >>)

(* The dimension of a field is such a dimension.                            *)
LEMMA FieldDimensionOf == ASSUME NEW decoder, NEW k PROVE IsDimension(FieldDimension(decoder, k), decoder, k)
  <1> DEFINE x == Sie!Tag("openDAQ:fieldName", "field")
             y == Sie!Data(decoder, k)
             kids == <<x, y>>
             S == {x, y}
             j == 2
  <1>1. x.name = "tag"
    BY TagName
  <1> HIDE DEF x
  <1>2. kids \in Seq(S) /\ j \in 1..Len(kids) /\ kids[j] = y /\ kids[1] = x
    <2> HIDE DEF y
    <2> QED
      OBVIOUS
  <1>3. \A l \in 1..(j - 1) : kids[l].name # "data"
    <2>1. \A l \in 1..(j - 1) : l = 1
      OBVIOUS
    <2>2. "tag" # "data"
      OBVIOUS
    <2> QED
      BY <1>1, <1>2, <2>1, <2>2
  <1>4. FieldDimension(decoder, k) = Sie!AddChildren(Sie!Dimension(k), kids)
    BY DEF FieldDimension, x
  <1> HIDE DEF kids, S, j
  <1>5. IsDimension(Sie!AddChildren(Sie!Dimension(k), kids), decoder, k)
    BY <1>2, <1>3, DimensionOf
  <1> QED
    BY <1>4, <1>5

(* Children that are tags, then dimensions.                                 *)
LEMMA NamedAfter ==
    ASSUME NEW S, NEW kids \in Seq(S), NEW t \in Nat, NEW n \in Nat, Len(kids) = t + n,
           \A i \in 1..t : kids[i].name # "dim", \A i \in 1..n : kids[t + i].name = "dim"
    PROVE  /\ DOMAIN Sie!Named("dim", kids) = 1..n
           /\ \A i \in 1..n : Sie!Named("dim", kids)[i] = kids[t + i]
  <1> DEFINE part_i(i) == IF kids[i].name = "dim" THEN <<kids[i]>> ELSE <<>>
             s == [i \in 1..(t + n) |-> part_i(i)]
             P == [i \in 0..(t + n) |-> IF i <= t THEN 0 ELSE i - t]
             dims == Sie!Named("dim", kids)
  <1>1. DOMAIN kids = 1..(t + n) /\ \A i \in 1..(t + n) : kids[i] \in S
    BY LenProperties, ElementOfSeq
  <1>2. dims = Sie!FlattenSeq(s)
    <2>1. Sie!Named("dim", kids) = Sie!FlattenSeq([i \in DOMAIN kids |-> part_i(i)])
      BY Zenon DEF Sie!Named
    <2> QED
      BY <1>1, <2>1
  <1>3. \A i \in 1..(t + n) : part_i(i) \in Seq(S)
    BY <1>1
  <1>4. s \in Seq(Seq(S)) /\ Len(s) = t + n
    <2> HIDE DEF part_i
    <2> QED
      BY <1>3
  <1>5. \A i \in 1..t : i \in 1..(t + n) /\ s[i] = <<>> /\ Len(s[i]) = 0
    <2> TAKE i \in 1..t
    <2>1. i \in 1..(t + n) /\ kids[i].name # "dim"
      OBVIOUS
    <2>2. part_i(i) = <<>>
      BY <2>1
    <2> HIDE DEF part_i
    <2>3. s[i] = <<>>
      BY <2>1, <2>2
    <2> QED
      BY <2>1, <2>3
  <1>6. \A i \in 1..n : s[t + i] = <<kids[t + i]>> /\ Len(s[t + i]) = 1
    <2> TAKE i \in 1..n
    <2>1. t + i \in 1..(t + n) /\ kids[t + i].name = "dim"
      OBVIOUS
    <2>2. part_i(t + i) = <<kids[t + i]>>
      BY <2>1
    <2> HIDE DEF part_i
    <2>3. s[t + i] = <<kids[t + i]>>
      BY <2>1, <2>2
    <2> QED
      BY <2>1, <2>3
  <1>7. \A i \in 0..(t + n) : P[i] = IF i <= t THEN 0 ELSE i - t
    OBVIOUS
  <1> HIDE DEF s, P, dims
  <1>8. P[0] = 0 /\ \A i \in 1..Len(s) : P[i] = P[i - 1] + Len(s[i])
    <2>1. P[0] = 0
      BY <1>7
    <2>2. ASSUME NEW i \in 1..(t + n)
          PROVE  P[i] = P[i - 1] + Len(s[i])
      <3>1. i \in 0..(t + n) /\ i - 1 \in 0..(t + n)
        OBVIOUS
      <3>2. CASE i <= t
        <4>1. i \in 1..t
          BY <3>2
        <4>2. Len(s[i]) = 0
          BY <1>5, <4>1
        <4> QED
          BY <1>7, <3>1, <3>2, <4>2
      <3>3. CASE ~(i <= t)
        <4> DEFINE j == i - t
        <4>1. j \in 1..n /\ t + j = i
          BY <3>3
        <4>2. Len(s[t + j]) = 1
          BY <1>6, <4>1
        <4>3. Len(s[i]) = 1
          BY <4>1, <4>2
        <4>4. P[i] = i - t
          BY <1>7, <3>1, <3>3
        <4>5. P[i - 1] = (i - 1) - t
          BY <1>7, <3>1, <3>3
        <4> QED
          BY ONLY <4>3, <4>4, <4>5, <3>1, t \in Nat, n \in Nat
      <3> QED
        BY <3>2, <3>3
    <2> QED
      BY <1>4, <2>1, <2>2
  <1>9. /\ Sie!FlattenSeq(s) \in Seq(S) /\ Len(Sie!FlattenSeq(s)) = P[Len(s)]
        /\ \A i \in 1..Len(s) : P[i - 1] \in Nat /\ HoldsAt(Sie!FlattenSeq(s), P[i - 1], s[i])
    BY <1>4, <1>8, FlattenAt
  <1>10. dims \in Seq(S) /\ Len(dims) = n
    <2>1. P[t + n] = n
      BY <1>7
    <2> QED
      BY <1>2, <1>4, <1>9, <2>1
  <1>11. ASSUME NEW i \in 1..n
         PROVE  dims[i] = kids[t + i]
    <2> DEFINE j == t + i
    <2>1. j \in 1..Len(s) /\ j - 1 \in 0..(t + n)
      BY <1>4
    <2>2. P[j - 1] = i - 1
      BY <1>7, <2>1
    <2>3. HoldsAt(dims, i - 1, s[j])
      BY <1>2, <1>9, <2>1, <2>2
    <2>4. s[j] = <<kids[t + i]>>
      BY <1>6
    <2> DEFINE x == kids[t + i]
               y == s[j]
    <2>5. y = <<x>>
      BY <2>4
    <2> HIDE DEF j, x, y
    <2>6. Len(y) = 1 /\ y[1] = x
      BY <2>5
    <2>7. 1 \in 1..Len(y) /\ (i - 1) + 1 = i
      BY <2>6
    <2>8. dims[(i - 1) + 1] = y[1]
      BY <2>3, <2>7 DEF HoldsAt, y
    <2> QED
      BY <2>6, <2>7, <2>8 DEF x
  <1>12. DOMAIN dims = 1..n
    BY <1>10, LenProperties
  <1> QED
    BY <1>11, <1>12 DEF dims

(* A channel of the group g that shows the n first variables of a decoder.  *)
IsChannel(ch, g, decoder, n) ==
    /\ Sie!Attribute(ch, "group") = g
    /\ DOMAIN Sie!Dimensions(ch) = 1..n
    /\ \A i \in 1..n : IsDimension(Sie!Dimensions(ch)[i], decoder, i - 1)

(* A scalar channel shows the time and the value.                           *)
LEMMA ScalarChannelShows ==
    ASSUME NEW d, NEW id, NEW g, NEW decoder
    PROVE  IsChannel(Sie!ScalarChannel(d, id, g, decoder), g, decoder, 2)
  <1> DEFINE c1 == Sie!Tag("core:uuid", "uuid")
             c2 == Sie!Tag("data_type", Sie!SieReadType(d.type))
             c3 == Sie!Tag("somat:data_format", Sie!SieFormat(d.type))
             c4 == Sie!Tag("somat:data_bits", Sie!SieBits(d.type))
             c5 == Sie!Tag("core:schema", "somat:sequential")
             c6 == TimeDimension(d, decoder)
             c7 == Sie!AddChildren(Sie!Dimension(1),
                       << Sie!Data(decoder, 1), Sie!Units("unit"), Sie!Tag("FS_Min", "low"), Sie!Tag("FS_Max", "high") >>)
             kids == <<c1, c2, c3, c4, c5, c6, c7>>
             S == {c1, c2, c3, c4, c5, c6, c7}
             ch == Sie!ScalarChannel(d, id, g, decoder)
             t == 5
             n == 2
  <1>1. ch = Sie!AddChildren(Sie!Channel(id, g, "name"), kids)
    BY Zenon DEF Sie!ScalarChannel, TimeDimension
  <1>2. c1.name = "tag" /\ c2.name = "tag" /\ c3.name = "tag" /\ c4.name = "tag" /\ c5.name = "tag"
    BY TagName, Zenon
  <1>3. IsDimension(c6, decoder, 0) /\ IsDimension(c7, decoder, 1)
    BY TimeDimensionOf, ValueDimensionOf
  <1> HIDE DEF c1, c2, c3, c4, c5, c6, c7, ch
  <1>4. /\ kids \in Seq(S) /\ Len(kids) = t + n
        /\ kids[1] = c1 /\ kids[2] = c2 /\ kids[3] = c3 /\ kids[4] = c4 /\ kids[5] = c5
        /\ kids[t + 1] = c6 /\ kids[t + 2] = c7
    OBVIOUS
  <1>5. \A i \in 1..t : kids[i].name # "dim"
    <2>1. \A i \in 1..t : i = 1 \/ i = 2 \/ i = 3 \/ i = 4 \/ i = 5
      OBVIOUS
    <2>2. "tag" # "dim"
      OBVIOUS
    <2> HIDE DEF kids
    <2> QED
      BY <1>2, <1>4, <2>1, <2>2
  <1>6. \A i \in 1..n : (i = 1 \/ i = 2) /\ i - 1 \in {0, 1}
    OBVIOUS
  <1>7. t \in Nat /\ n \in Nat
    OBVIOUS
  <1> HIDE DEF kids, S, n, t
  <1>8. \A i \in 1..n : kids[t + i].name = "dim" /\ IsDimension(kids[t + i], decoder, i - 1)
    <2> TAKE i \in 1..n
    <2>1. CASE i = 1
      <3>1. i - 1 = 0 /\ kids[t + i] = c6
        BY <1>4, <2>1
      <3> QED
        BY <1>3, <3>1 DEF IsDimension
    <2>2. CASE i = 2
      <3>1. i - 1 = 1 /\ kids[t + i] = c7
        BY <1>4, <2>2
      <3> QED
        BY <1>3, <3>1 DEF IsDimension
    <2> QED
      BY <1>6, <2>1, <2>2
  <1>9. ch.children = kids /\ Sie!Attribute(ch, "group") = g
    BY <1>1, <1>4, ChannelParts
  <1>10. DOMAIN Sie!Named("dim", kids) = 1..n /\ \A i \in 1..n : Sie!Named("dim", kids)[i] = kids[t + i]
    <2>1. /\ kids \in Seq(S) /\ t \in Nat /\ n \in Nat /\ Len(kids) = t + n
          /\ \A i \in 1..t : kids[i].name # "dim"
          /\ \A i \in 1..n : kids[t + i].name = "dim"
      BY <1>4, <1>5, <1>7, <1>8
    <2> QED
      BY ONLY <2>1, NamedAfter
  <1>11. Sie!Dimensions(ch) = Sie!Named("dim", kids)
    BY <1>9, Zenon DEF Sie!Dimensions
  <1>12. IsChannel(ch, g, decoder, n)
    BY <1>8, <1>9, <1>10, <1>11 DEF IsChannel
  <1> QED
    BY <1>12 DEF ch, n

(* A CAN channel shows the time and the fields.                             *)
LEMMA CanChannelShows ==
    ASSUME NEW d, Len(d.fields) \in Nat, DOMAIN d.fields = 1..Len(d.fields), NEW id, NEW g, NEW decoder
    PROVE  IsChannel(Sie!CanChannel(d, id, g, decoder), g, decoder, Len(d.fields) + 1)
  <1> DEFINE c1 == Sie!Tag("core:description", "Raw CAN messages")
             c2 == Sie!Tag("data_type", "message_can")
             c3 == Sie!Tag("core:schema", "somat:message")
             c4 == TimeDimension(d, decoder)
             m == Len(d.fields)
             first == <<c1, c2, c3, c4>>
             dim(k) == FieldDimension(decoder, k)
             rest == [k \in 1..m |-> dim(k)]
             S == {c1, c2, c3, c4} \cup {dim(k) : k \in Nat}
             kids == first \o rest
             ch == Sie!CanChannel(d, id, g, decoder)
             t == 3
             n == m + 1
  <1>1. ch = Sie!AddChildren(Sie!Channel(id, g, "name"), kids)
    <2>1. ch = Sie!AddChildren(Sie!Channel(id, g, "name"), first \o [k \in DOMAIN d.fields |-> dim(k)])
      BY Zenon DEF Sie!CanChannel, TimeDimension, FieldDimension
    <2> HIDE DEF ch, first, dim
    <2> QED
      BY <2>1
  <1>2. c1.name = "tag" /\ c2.name = "tag" /\ c3.name = "tag"
    BY TagName, Zenon
  <1>3. IsDimension(c4, decoder, 0)
    BY TimeDimensionOf
  <1>d. \A k \in 1..m : IsDimension(dim(k), decoder, k)
    BY FieldDimensionOf
  <1> HIDE DEF c1, c2, c3, c4, ch, dim
  <1>4. /\ first \in Seq(S) /\ Len(first) = 4
        /\ first[1] = c1 /\ first[2] = c2 /\ first[3] = c3 /\ first[4] = c4
    <2> HIDE DEF rest, kids
    <2>1. c1 \in S /\ c2 \in S /\ c3 \in S /\ c4 \in S
      OBVIOUS
    <2> HIDE DEF S
    <2> QED
      BY <2>1
  <1>5. rest \in Seq(S) /\ Len(rest) = m /\ \A k \in 1..m : rest[k] = dim(k)
    <2>2. \A k \in 1..m : dim(k) \in S
      OBVIOUS
    <2> HIDE DEF S
    <2> QED
      BY <2>2
  <1>m. m \in Nat
    OBVIOUS
  <1> HIDE DEF first, rest, S, m
  <1>6. /\ kids \in Seq(S) /\ Len(kids) = 4 + m
        /\ \A k \in 1..(4 + m) : kids[k] = IF k <= 4 THEN first[k] ELSE rest[k - 4]
    <2>1. /\ kids \in Seq(S) /\ Len(kids) = Len(first) + Len(rest)
          /\ \A k \in 1..(Len(first) + Len(rest)) :
                 kids[k] = IF k <= Len(first) THEN first[k] ELSE rest[k - Len(first)]
      BY <1>4, <1>5, ConcatProperties, Zenon
    <2> HIDE DEF kids
    <2> QED
      BY ONLY <1>4, <1>5, <1>m, <2>1
  <1> HIDE DEF kids
  <1>7. t \in Nat /\ n \in Nat /\ Len(kids) = t + n
    BY <1>6, <1>m
  <1>8. \A i \in 1..t : kids[i].name # "dim"
    <2>1. \A i \in 1..t : i = 1 \/ i = 2 \/ i = 3
      OBVIOUS
    <2>2. "tag" # "dim"
      OBVIOUS
    <2>3. kids[1] = c1 /\ kids[2] = c2 /\ kids[3] = c3
      <3>1. 1 \in 1..(4 + m) /\ 2 \in 1..(4 + m) /\ 3 \in 1..(4 + m) /\ 1 <= 4 /\ 2 <= 4 /\ 3 <= 4
        BY <1>m
      <3> QED
        BY <1>4, <1>6, <3>1
    <2> QED
      BY <1>2, <2>1, <2>2, <2>3
  <1>9. \A i \in 1..n : kids[t + i].name = "dim" /\ IsDimension(kids[t + i], decoder, i - 1)
    <2> TAKE i \in 1..n
    <2>1. CASE i = 1
      <3>1. i - 1 = 0 /\ t + i = 4 /\ 4 \in 1..(4 + m) /\ 4 <= 4
        BY <1>m, <2>1
      <3>2. kids[4] = c4
        BY <1>4, <1>6, <3>1
      <3> QED
        BY <1>3, <3>1, <3>2 DEF IsDimension
    <2>2. CASE i # 1
      <3> DEFINE k == i - 1
      <3>1. k \in 1..m /\ t + i \in 1..(4 + m) /\ ~(t + i <= 4) /\ (t + i) - 4 = k
        BY <1>m, <2>2
      <3> DEFINE l == t + i
      <3>2. l \in 1..(4 + m) /\ ~(l <= 4) /\ l - 4 = k
        BY <3>1
      <3> HIDE DEF k, l
      <3>3. kids[l] = dim(k)
        BY <1>5, <1>6, <3>1, <3>2
      <3>4. IsDimension(kids[l], decoder, k)
        BY <1>d, <3>1, <3>3
      <3> QED
        BY <3>4 DEF IsDimension, k, l
    <2> QED
      BY <2>1, <2>2
  <1>10. ch.children = kids /\ Sie!Attribute(ch, "group") = g
    BY <1>1, <1>6, ChannelParts
  <1> HIDE DEF n, t
  <1>11. DOMAIN Sie!Named("dim", kids) = 1..n /\ \A i \in 1..n : Sie!Named("dim", kids)[i] = kids[t + i]
    <2>1. /\ kids \in Seq(S) /\ t \in Nat /\ n \in Nat /\ Len(kids) = t + n
          /\ \A i \in 1..t : kids[i].name # "dim"
          /\ \A i \in 1..n : kids[t + i].name = "dim"
      BY <1>6, <1>7, <1>8, <1>9
    <2> QED
      BY ONLY <2>1, NamedAfter
  <1>12. Sie!Dimensions(ch) = Sie!Named("dim", kids)
    BY <1>10, Zenon DEF Sie!Dimensions
  <1>13. IsChannel(ch, g, decoder, n)
    BY <1>9, <1>10, <1>11, <1>12 DEF IsChannel
  <1> QED
    BY <1>13 DEF ch, n, m

(* A set of numbers that is not empty has a least one.                      *)
LEMMA LeastExists ==
    ASSUME NEW I, I \subseteq Nat, I # {}
    PROVE  \E x \in I : \A y \in I : x <= y
  <1> DEFINE Least == \E x \in I : \A y \in I : x <= y
             S == {n \in Nat : (\E m \in I : m <= n) => Least}
  <1>1. 0 \in S
    <2> SUFFICES ASSUME NEW m \in I, m <= 0 PROVE Least
      OBVIOUS
    <2>1. m = 0 /\ \A y \in I : m <= y
      OBVIOUS
    <2> QED
      BY <2>1
  <1>2. ASSUME NEW n \in Nat, n \in S
        PROVE  n + 1 \in S
    <2> SUFFICES ASSUME NEW m \in I, m <= n + 1 PROVE Least
      OBVIOUS
    <2>1. CASE \E k \in I : k <= n
      BY <1>2, <2>1
    <2>2. CASE ~ \E k \in I : k <= n
      <3>1. \A y \in I : y \in Nat /\ ~(y <= n)
        BY <2>2
      <3>2. \A y \in I : m <= y
        BY <3>1
      <3> QED
        BY <3>2
    <2> QED
      BY <2>1, <2>2
  <1> HIDE DEF Least
  <1>3. Nat \subseteq S
    <2> HIDE DEF S
    <2> QED
      BY <1>1, <1>2, NatRec!SetInduction
  <1>4. PICK m : m \in I
    OBVIOUS
  <1>5. m \in S /\ m \in Nat /\ m <= m
    BY <1>3, <1>4
  <1>6. Least
    BY <1>4, <1>5
  <1> QED
    BY <1>6 DEF Least

(* The decoder of a channel.                                                *)
IsDecoder(e, id) == e.name = "decoder" /\ Sie!Attribute(e, "id") = id
FoundDecoder(es, id) ==
    es[Sie!SelectInSeq(es, LAMBDA e : e.name = "decoder" /\ Sie!Attribute(e, "id") = id)]

(* A decoder that is the only one of its id is found.                       *)
LEMMA DecoderFound ==
    ASSUME NEW s, Len(s) \in Nat, NEW id, NEW x, \E i \in 1..Len(s) : IsDecoder(s[i], id),
           \A i \in 1..Len(s) : IsDecoder(s[i], id) => s[i] = x
    PROVE  FoundDecoder(s, id) = x
  <1> DEFINE I == {i \in 1..Len(s) : IsDecoder(s[i], id)}
  <1>1. I # {} /\ I \subseteq Nat
    OBVIOUS
  <1>2. PICK j \in I : \A i \in I : j <= i
    BY <1>1, LeastExists
  <1>3. Sie!SelectInSeq(s, LAMBDA e : e.name = "decoder" /\ Sie!Attribute(e, "id") = id) = Sie!Min(I)
    BY <1>1, Zenon DEF Sie!SelectInSeq, IsDecoder
  <1>4. Sie!Min(I) \in I
    <2>1. Sie!Min(I) = CHOOSE i \in I : \A k \in I : i <= k
      BY Zenon DEF Sie!Min
    <2> HIDE DEF I
    <2> QED
      BY <1>2, <2>1
  <1> DEFINE l == Sie!Min(I)
  <1>5. l \in 1..Len(s) /\ IsDecoder(s[l], id)
    BY <1>4
  <1>6. s[l] = x
    BY <1>5
  <1> QED
    BY <1>3, <1>6, Zenon DEF FoundDecoder

-----------------------------------------------------------------------------
(* What a channel shows                                                     *)

(* What a channel shows of a block of its group: the n first variables.     *)
Shown(n, samples) == [k \in DOMAIN samples |-> [i \in 1..n |-> samples[k][Sie!V(i - 1)]]]
Reading(bs, g, n, decoder) ==
    [k \in DOMAIN bs |-> IF bs[k].group = g THEN Shown(n, Sie!Run(decoder, bs[k].payload)) ELSE <<>>]

(* A channel is read block by block.                                        *)
LEMMA ChannelReads ==
    ASSUME NEW ch, NEW g, NEW id, NEW n \in Nat \ {0}, IsChannel(ch, g, id, n)
    PROVE  Sie!ReadChannel(ch) = Sie!FlattenSeq(Reading(blocks, g, n, FoundDecoder(metadata, id)))
  <1> DEFINE dims == Sie!Dimensions(ch)
             D == FoundDecoder(metadata, Sie!Attribute(Sie!DataOf(dims[1]), "decoder"))
             E == FoundDecoder(metadata, id)
             shown(samples) ==
                 [k \in DOMAIN samples |->
                     [i \in DOMAIN dims |-> samples[k][Sie!V(Sie!Attribute(Sie!DataOf(dims[i]), "v"))]]]
  <1>1. Sie!ReadChannel(ch)
          = Sie!FlattenSeq([k \in DOMAIN blocks |->
                IF blocks[k].group = Sie!Attribute(ch, "group") THEN shown(Sie!Run(D, blocks[k].payload)) ELSE <<>>])
    BY Zenon DEF Sie!ReadChannel, FoundDecoder
  <1>2. /\ Sie!Attribute(ch, "group") = g /\ DOMAIN dims = 1..n /\ 1 \in 1..n
        /\ \A i \in 1..n : Sie!Attribute(Sie!DataOf(dims[i]), "decoder") = id
                           /\ Sie!Attribute(Sie!DataOf(dims[i]), "v") = i - 1
    BY DEF IsChannel, IsDimension
  <1>3. D = E
    BY <1>2
  <1>4. ASSUME NEW samples
        PROVE  shown(samples) = Shown(n, samples)
    <2> DEFINE w(i) == Sie!Attribute(Sie!DataOf(dims[i]), "v")
    <2>1. DOMAIN dims = 1..n /\ \A i \in 1..n : w(i) = i - 1
      BY <1>2
    <2>2. shown(samples) = [k \in DOMAIN samples |-> [i \in DOMAIN dims |-> samples[k][Sie!V(w(i))]]]
      OBVIOUS
    <2> HIDE DEF w, dims, shown
    <2>3. [k \in DOMAIN samples |-> [i \in DOMAIN dims |-> samples[k][Sie!V(w(i))]]]
            = [k \in DOMAIN samples |-> [i \in 1..n |-> samples[k][Sie!V(i - 1)]]]
      <3>1. \A k \in DOMAIN samples :
               [i \in DOMAIN dims |-> samples[k][Sie!V(w(i))]] = [i \in 1..n |-> samples[k][Sie!V(i - 1)]]
        <4> TAKE k \in DOMAIN samples
        <4>1. \A i \in 1..n : samples[k][Sie!V(w(i))] = samples[k][Sie!V(i - 1)]
          BY <2>1
        <4> QED
          BY <2>1, <4>1
      <3> QED
        BY <3>1
    <2> QED
      BY <2>2, <2>3 DEF Shown
  <1> HIDE DEF dims, D, E, shown
  <1>5. [k \in DOMAIN blocks |->
            IF blocks[k].group = Sie!Attribute(ch, "group") THEN shown(Sie!Run(D, blocks[k].payload)) ELSE <<>>]
          = Reading(blocks, g, n, E)
    <2>1. \A k \in DOMAIN blocks : shown(Sie!Run(D, blocks[k].payload)) = Shown(n, Sie!Run(E, blocks[k].payload))
      BY <1>3, <1>4
    <2> QED
      BY <1>2, <2>1 DEF Reading
  <1> QED
    BY <1>1, <1>5 DEF E

(* FlattenSeq, one sequence longer, and of no samples.                      *)
OneMore(T, s, x, u) ==
    /\ s \in Seq(Seq(T)) /\ x \in Seq(T)
    /\ DOMAIN u = 1..(Len(s) + 1) /\ u = [k \in 1..(Len(s) + 1) |-> u[k]]
    /\ \A k \in 1..Len(s) : u[k] = s[k]
    /\ u[Len(s) + 1] = x

(* A sequence flattened with one more part.                                 *)
LEMMA FlattenMore ==
    ASSUME NEW T, NEW s, NEW x, NEW u, OneMore(T, s, x, u)
    PROVE  u \in Seq(Seq(T)) /\ Sie!FlattenSeq(u) = Sie!FlattenSeq(s) \o x
  <1> DEFINE n == Len(s)
  <1>0. /\ s \in Seq(Seq(T)) /\ x \in Seq(T)
        /\ DOMAIN u = 1..(Len(s) + 1) /\ u = [k \in 1..(Len(s) + 1) |-> u[k]]
        /\ \A k \in 1..Len(s) : u[k] = s[k]
        /\ u[Len(s) + 1] = x
    BY Zenon DEF OneMore
  <1>1. n \in Nat /\ \A k \in 1..n : s[k] \in Seq(T)
    BY <1>0, LenProperties, ElementOfSeq
  <1>2. u \in Seq(Seq(T)) /\ Len(u) = n + 1
    <2> HIDE DEF n
    <2>1. \A k \in 1..(n + 1) : u[k] \in Seq(T)
      <3> TAKE k \in 1..(n + 1)
      <3>1. k \in 1..n \/ k = n + 1
        BY <1>1
      <3> QED
        BY <1>0, <1>1, <3>1 DEF n
    <2>2. u = [k \in 1..(n + 1) |-> u[k]]
      BY <1>0, Zenon DEF n
    <2> DEFINE V == Seq(T)
               m == n + 1
               v(k) == u[k]
    <2>3. m \in Nat /\ (\A k \in 1..m : v(k) \in V) /\ u = [k \in 1..m |-> v(k)]
      <3>1. m \in Nat
        BY <1>1
      <3>2. \A k \in 1..m : v(k) \in V
        BY <2>1, Zenon
      <3>3. u = [k \in 1..m |-> v(k)]
        BY <2>2, Zenon
      <3> HIDE DEF V, m, v
      <3> QED
        BY <3>1, <3>2, <3>3
    <2> HIDE DEF V, m, v
    <2>4. u \in Seq(V) /\ Len(u) = m
      BY ONLY <2>3
    <2> QED
      BY <2>4 DEF V, m
  <1>3. PICK f : /\ f[0] = <<>>
                 /\ \A i \in 0..n : f[i] \in Seq(T)
                 /\ \A i \in 1..n : f[i] = f[i - 1] \o s[i]
                 /\ f[n] = Xml!FlattenSeq(s)
    BY <1>0, FlattenSeqPrefixes
  <1>4. PICK h : /\ h[0] = <<>>
                 /\ \A i \in 1..Len(u) : h[i] = h[i - 1] \o u[i]
                 /\ h[Len(u)] = Xml!FlattenSeq(u)
    BY <1>2, FlattenSeqPrefixes
  <1> DEFINE S == {i \in Nat : i <= n => h[i] = f[i]}
  <1>5. 0 \in S
    BY <1>3, <1>4
  <1>6. ASSUME NEW i \in Nat, i \in S
        PROVE  i + 1 \in S
    <2> SUFFICES ASSUME i + 1 <= n PROVE h[i + 1] = f[i + 1]
      OBVIOUS
    <2>1. i + 1 \in 1..n /\ i + 1 \in 1..(n + 1) /\ (i + 1) - 1 = i /\ i <= n
      BY <1>1
    <2>2. h[i + 1] = h[i] \o u[i + 1] /\ f[i + 1] = f[i] \o s[i + 1]
      BY <1>0, <1>2, <1>3, <1>4, <2>1
    <2> QED
      BY <1>0, <1>6, <2>1, <2>2
  <1>7. Nat \subseteq S
    <2> HIDE DEF S
    <2> QED
      BY <1>5, <1>6, NatRec!SetInduction
  <1>8. h[n] = f[n]
    BY <1>1, <1>7
  <1>9. h[n + 1] = h[n] \o x
    <2>1. n + 1 \in 1..Len(u) /\ (n + 1) - 1 = n
      BY <1>1, <1>2
    <2> QED
      BY <1>0, <1>4, <2>1
  <1> QED
    BY <1>0, <1>2, <1>3, <1>4, <1>8, <1>9, SameFlatten

(* Nothing, as often as you like.                                           *)
LEMMA FlattenNothing ==
    ASSUME NEW T, NEW s, NEW n \in Nat, s = [k \in 1..n |-> <<>>]
    PROVE  s \in Seq(Seq(T)) /\ Sie!FlattenSeq(s) = <<>>
  <1> DEFINE w == 0
             none == <<>>
  <1>0. none \in Seq(T) /\ Len(none) = w /\ w \in Nat
    OBVIOUS
  <1>1. s \in Seq(Seq(T)) /\ Len(s) = n /\ \A k \in 1..n : s[k] = none
    BY <1>0
  <1> HIDE DEF w
  <1>2. Sie!FlattenSeq(s) \in Seq(T) /\ Len(Sie!FlattenSeq(s)) = w * Len(s)
    <2>1. \A k \in 1..Len(s) : Len(s[k]) = w
      BY <1>0, <1>1
    <2> QED
      BY <1>0, <1>1, <2>1, FlattenEven
  <1>3. Len(Sie!FlattenSeq(s)) = 0
    BY <1>1, <1>2 DEF w
  <1> DEFINE r == Sie!FlattenSeq(s)
  <1>4. r \in Seq(T) /\ Len(r) = 0
    BY <1>2, <1>3
  <1> HIDE DEF r
  <1>5. r = <<>>
    BY <1>4
  <1> QED
    BY <1>1, <1>5 DEF r

(* The descriptors whose decoder can be written.                            *)
Readable(d) == d.kind = "scalar" \/ CanReadable(d)

(* What a scalar channel shows of the samples of a packet.                  *)
LEMMA ShownScalar ==
    ASSUME NEW d, NEW off, NEW val, NEW count \in Nat
    PROVE  Shown(2, ScalarSamples(d, off, val, count))
             = [k \in 1..count |-> <<off + d.start + (k - 1) * d.delta, val + k>>]
  <1> DEFINE e(k) == ScalarEnv(off, TimeOf(d, off, k - 1), val + k)
             s == [k \in 1..count |-> e(k)]
             t(k) == off + d.start + (k - 1) * d.delta
             y(k) == val + k
  <1>1. s = ScalarSamples(d, off, val, count)
    BY DEF ScalarSamples
  <1>2. \A k \in 1..count : e(k)[Sie!V(0)] = t(k) /\ e(k)[Sie!V(1)] = y(k)
    <2> TAKE k \in 1..count
    <2>1. \A x, z : ScalarEnv(off, x, z)[Sie!V(0)] = x /\ ScalarEnv(off, x, z)[Sie!V(1)] = z
      BY ScalarEnvFacts
    <2>2. TimeOf(d, off, k - 1) = t(k)
      BY DEF TimeOf
    <2> QED
      BY <2>1, <2>2
  <1> HIDE DEF e, t, y
  <1>3. DOMAIN s = 1..count /\ \A k \in 1..count : s[k] = e(k)
    OBVIOUS
  <1> HIDE DEF s
  <1>4. \A k \in 1..count : [i \in 1..2 |-> s[k][Sie!V(i - 1)]] = <<t(k), y(k)>>
    <2> TAKE k \in 1..count
    <2> DEFINE f(i) == s[k][Sie!V(i - 1)]
    <2>1. f(1) = t(k) /\ f(2) = y(k)
      <3>1. 1 - 1 = 0 /\ 2 - 1 = 1
        OBVIOUS
      <3> QED
        BY <1>2, <1>3, <3>1
    <2> HIDE DEF f
    <2>2. [i \in 1..2 |-> f(i)] = <<f(1), f(2)>>
      OBVIOUS
    <2> QED
      BY <2>1, <2>2 DEF f
  <1>5. Shown(2, s) = [k \in 1..count |-> <<t(k), y(k)>>]
    <2>1. Shown(2, s) = [k \in 1..count |-> [i \in 1..2 |-> s[k][Sie!V(i - 1)]]]
      BY <1>3 DEF Shown
    <2> QED
      BY <1>4, <2>1
  <1> QED
    BY <1>1, <1>5 DEF t, y

(* A time and the fields of a message.                                      *)
FieldSample(m, x, z) == <<x>> \o [f \in 1..m |-> z]
Sampled(n, x, z) == [i \in 1..n |-> IF i = 1 THEN x ELSE z]
CanShown(d, off, val, count) == [k \in 1..count |-> <<off + k>> \o [f \in DOMAIN d.fields |-> val + k]]

(* Such a sample, entry by entry.                                           *)
LEMMA FieldSampleIs == ASSUME NEW m \in Nat, NEW n, n = m + 1, NEW x, NEW z PROVE FieldSample(m, x, z) = Sampled(n, x, z)
  <1> DEFINE a == <<x>>
             b == [f \in 1..m |-> z]
             c == a \o b
             S == {x, z}
             r == [i \in 1..n |-> IF i = 1 THEN x ELSE z]
  <1>1. a \in Seq(S) /\ Len(a) = 1 /\ a[1] = x
    OBVIOUS
  <1>2. b \in Seq(S) /\ Len(b) = m /\ \A f \in 1..m : b[f] = z
    OBVIOUS
  <1>r. r \in Seq(S) /\ Len(r) = n /\ \A i \in 1..n : r[i] = IF i = 1 THEN x ELSE z
    OBVIOUS
  <1> HIDE DEF a, b, S, r
  <1>3. /\ c \in Seq(S) /\ Len(c) = Len(a) + Len(b)
        /\ \A i \in 1..(Len(a) + Len(b)) : c[i] = IF i <= Len(a) THEN a[i] ELSE b[i - Len(a)]
    BY <1>1, <1>2, ConcatProperties, Zenon
  <1> HIDE DEF c
  <1>4. Len(c) = n /\ \A i \in 1..n : c[i] = IF i <= 1 THEN a[i] ELSE b[i - 1]
    BY <1>1, <1>2, <1>3
  <1>5. \A i \in 1..n : c[i] = r[i]
    <2> TAKE i \in 1..n
    <2>1. CASE i = 1
      BY <1>1, <1>4, <1>r, <2>1
    <2>2. CASE i # 1
      <3>1. i - 1 \in 1..m /\ ~(i <= 1)
        BY <2>2
      <3> QED
        BY <1>2, <1>4, <1>r, <2>2, <3>1
    <2> QED
      BY <2>1, <2>2
  <1>6. c = r
    BY <1>3, <1>4, <1>5, <1>r, SeqEqual
  <1> QED
    BY <1>6 DEF c, a, b, r, FieldSample, Sampled

(* What a CAN channel shows of the samples of a packet.                     *)
LEMMA ShownCan ==
    ASSUME NEW d, CanReadable(d), NEW off, NEW val, NEW count \in Nat
    PROVE  Shown(Len(d.fields) + 1, CanSamples(d, off, val, count, count))
             = CanShown(d, off, val, count)
  <1> DEFINE m == Len(d.fields)
             e(k) == MessageEnv(d, count, k - 1, off + k, val + k)
             s == [k \in 1..count |-> e(k)]
             t(k) == off + k
             y(k) == val + k
             n == m + 1
  <1>0. m \in Nat /\ n \in Nat /\ n = m + 1 /\ DOMAIN d.fields = 1..m /\ AreFields(m, 0)
    BY DEF CanReadable, AreFields
  <1>1. s = CanSamples(d, off, val, count, count)
    BY DEF CanSamples
  <1>2. \A k \in 1..count : e(k)[Sie!V(0)] = t(k) /\ \A f \in 1..m : e(k)[Sie!V(f)] = y(k)
    <2> TAKE k \in 1..count
    <2> DEFINE x == off + k
               z == val + k
               l == k - 1
               g == Sie!Garbage
               o == 0
    <2>1. e(k) = CanEnv(m, o, count, l, x, g, z)
      BY DEF MessageEnv
    <2>2. AreFields(m, o) /\ \A f \in 1..m : ~(f <= o)
      BY <1>0
    <2> HIDE DEF m, x, z, l, g, o, e
    <2>3. /\ CanEnv(m, o, count, l, x, g, z)[Sie!V(0)] = x
          /\ \A f \in 1..m : CanEnv(m, o, count, l, x, g, z)[Sie!V(f)] = IF f <= o THEN g ELSE z
      BY <2>2, CanEnvValues
    <2> QED
      BY <2>1, <2>2, <2>3 DEF x, z
  <1> HIDE DEF e, t, y, m, n
  <1>3. DOMAIN s = 1..count /\ \A k \in 1..count : s[k] = e(k)
    OBVIOUS
  <1> HIDE DEF s
  <1>5. \A k \in 1..count : [i \in 1..n |-> s[k][Sie!V(i - 1)]] = FieldSample(m, t(k), y(k))
    <2> TAKE k \in 1..count
    <2> DEFINE f(i) == s[k][Sie!V(i - 1)]
               x == t(k)
               z == y(k)
    <2>1. \A i \in 1..n : f(i) = IF i = 1 THEN x ELSE z
      <3> TAKE i \in 1..n
      <3>1. CASE i = 1
        <4>1. i - 1 = 0
          BY <3>1
        <4> QED
          BY <1>2, <1>3, <3>1, <4>1
      <3>2. CASE i # 1
        <4>1. i - 1 \in 1..m
          BY <1>0, <3>2
        <4> QED
          BY <1>2, <1>3, <3>2, <4>1
      <3> QED
        BY <3>1, <3>2
    <2>2. FieldSample(m, x, z) = Sampled(n, x, z)
      <3> HIDE DEF x, z, f
      <3> QED
        BY <1>0, FieldSampleIs
    <2> HIDE DEF f, x, z
    <2>3. [i \in 1..n |-> f(i)] = Sampled(n, x, z)
      BY <2>1 DEF Sampled
    <2> QED
      BY <2>2, <2>3 DEF f, x, z
  <1>6. Shown(n, s) = [k \in 1..count |-> FieldSample(m, t(k), y(k))]
    <2>1. Shown(n, s) = [k \in 1..count |-> [i \in 1..n |-> s[k][Sie!V(i - 1)]]]
      BY <1>3 DEF Shown
    <2> QED
      BY <1>5, <2>1
  <1>7. Shown(n, s) = CanShown(d, off, val, count)
    BY <1>0, <1>6 DEF FieldSample, CanShown, t, y
  <1> QED
    BY <1>1, <1>7 DEF m, n

-----------------------------------------------------------------------------
(* A packet is read as what was sent                                        *)

(* A packet of a scalar signal is read as what was sent.                    *)
LEMMA ScalarPacketRead ==
    ASSUME values \in Nat, NEW d \in Descriptors, Sie!Unscaled(d), NEW p \in Sie!Packets, NEW id
    PROVE  Shown(2, Sie!Run(Sie!ScalarDecoder(d, id), Sie!ScalarPayload(d, p))) = Sie!PacketSamples(d, p)
  <1> DEFINE off == p.offset
             count == p.count
             val == values
             data == ScalarData(d, off, val, count)
  <1>1. off \in Nat /\ count \in Nat /\ val \in Nat
    BY SamplesAssumed DEF Sie!SieSamplesAssumption, Sie!Packets
  <1>2. d.kind = "scalar" /\ d.type = d.rawType /\ d.type \in Sie!SampleTypes /\ d.start \in Int /\ d.delta \in Int
    BY SamplesAssumed DEF Sie!SieSamplesAssumption, Sie!Unscaled
  <1>3. Sie!ScalarPayload(d, p) = data
    <2> DEFINE f == Sie!SieFormat(d.type)
               w == Sie!SieBits(d.type) \div 8
    <2>1. Sie!SieFormat(d.rawType) = f /\ Sie!SieBits(d.rawType) \div 8 = w
      BY <1>2
    <2>2. Sie!ScalarPayload(d, p)
            = Sie!Octets(off, "int", 8) \o Sie!FlattenSeq([k \in 1..count |->
                  Sie!Octets(val + k, Sie!SieFormat(d.rawType), Sie!SieBits(d.rawType) \div 8)])
      BY Zenon DEF Sie!ScalarPayload
    <2>3. [k \in 1..count |-> Sie!Octets(val + k, Sie!SieFormat(d.rawType), Sie!SieBits(d.rawType) \div 8)]
            = [k \in 1..count |-> Sie!Octets(val + k, f, w)]
      BY <2>1
    <2>4. ScalarParts(d, val, count) = [k \in 1..count |-> Sie!Octets(val + k, f, w)]
      BY Zenon DEF ScalarParts
    <2> HIDE DEF f, w, off, count, val
    <2> QED
      BY <2>2, <2>3, <2>4, Zenon DEF ScalarData
  <1>4. Sie!PacketSamples(d, p) = [k \in 1..count |-> <<off + d.start + (k - 1) * d.delta, val + k>>]
    BY <1>2 DEF Sie!PacketSamples
  <1> HIDE DEF off, count, val
  <1>5. Sie!Run(Sie!ScalarDecoder(d, id), data) = ScalarSamples(d, off, val, count)
    BY <1>1, <1>2, ScalarRun
  <1> HIDE DEF data
  <1> QED
    BY <1>1, <1>3, <1>4, <1>5, ShownScalar

(* So is a packet of a CAN signal that holds no message or whose messages   *)
(* have the one supported size.                                             *)
LEMMA CanPacketRead ==
    ASSUME values \in Nat, NEW d, CanReadable(d), d.kind = "can", NEW p \in Sie!Packets,
           p.count = 0 \/ Sie!Message69(d), NEW id
    PROVE  Shown(Len(d.fields) + 1, Sie!Run(Sie!CanDecoder(d, id), Sie!CanPayload(d, p))) = Sie!PacketSamples(d, p)
  <1> DEFINE off == p.offset
             count == p.count
             val == values
             data == CanData(d, off, val, count)
  <1>1. off \in Nat /\ count \in Nat /\ val \in Nat
    BY SamplesAssumed DEF Sie!SieSamplesAssumption, Sie!Packets
  <1>2. PICK P : AreStarts(P, d)
    BY StartsExist
  <1>3. count = 0 \/ (CanBytes(d) = 8 /\ P[Len(d.fields)] = Sie!CAN_MESSAGE /\ ReadWhole(d))
    <2> SUFFICES ASSUME Sie!Message69(d)
                 PROVE  CanBytes(d) = 8 /\ P[Len(d.fields)] = Sie!CAN_MESSAGE /\ ReadWhole(d)
      OBVIOUS
    <2>1. Sie!SieBits(d.domainType) = 64 /\ Len(Sie!Message(d, 0)) = Sie!CAN_MESSAGE
      BY DEF Sie!Message69, Sie!Size69, Sie!StructOctets
    <2>5. ReadWhole(d)
      BY DEF Sie!Message69, ReadWhole, CanReadable
    <2>2. CanBytes(d) = 8
      BY <2>1 DEF CanBytes
    <2> DEFINE z == 0
    <2>3. z \in Int
      OBVIOUS
    <2> HIDE DEF z
    <2>4. Len(Sie!Message(d, z)) = P[Len(d.fields)]
      BY <1>2, <2>3, MessageHolds
    <2> QED
      BY <2>1, <2>2, <2>4, <2>5 DEF z
  <1>4. Sie!CanPayload(d, p) = data
    BY Zenon DEF Sie!CanPayload, Sie!DomainRaw, Sie!MessagesRaw, CanData, DomainParts, DomainPart, Messages, CanBytes
  <1>5. Sie!PacketSamples(d, p) = CanShown(d, off, val, count)
    BY DEF Sie!PacketSamples, CanShown
  <1> HIDE DEF off, count, val
  <1>6. Sie!Run(Sie!CanDecoder(d, id), data) = CanSamples(d, off, val, count, count)
    BY <1>1, <1>2, <1>3, CanRun
  <1> HIDE DEF data
  <1>7. Shown(Len(d.fields) + 1, CanSamples(d, off, val, count, count))
          = CanShown(d, off, val, count)
    BY <1>1, ShownCan
  <1> QED
    BY <1>4, <1>5, <1>6, <1>7, Zenon

(* Which CAN packets are written.                                           *)
LEMMA CanPacketSize ==
    ASSUME values \in Nat, NEW d, CanReadable(d), d.kind = "can", NEW p \in Sie!Packets
    PROVE  /\ Sie!Message69(d) => ~Sie!TooShort(d, p)
           /\ Sie!ShortMessage(d) /\ ~Sie!TooShort(d, p) => p.count = 0
  <1> DEFINE off == p.offset
             count == p.count
             val == values
             w == CanBytes(d)
             z == 0
             u == Len(Sie!Message(d, z))
             S == Sie!MessagesRaw(d, p)
             D == Sie!DomainRaw(d, p)
  <1>1. off \in Nat /\ count \in Nat /\ val \in Nat
    BY SamplesAssumed DEF Sie!SieSamplesAssumption, Sie!Packets
  <1>2. PICK P : AreStarts(P, d)
    BY StartsExist
  <1>3. P[Len(d.fields)] = u /\ u \in Nat
    <2>1. z \in Int
      OBVIOUS
    <2> HIDE DEF z
    <2>2. Sie!Message(d, z) \in Seq(OctetOf) /\ Len(Sie!Message(d, z)) = P[Len(d.fields)]
      BY <1>2, <2>1, MessageHolds
    <2> QED
      BY <2>2, LenProperties
  <1>4. w \in Nat
    BY CanBytesFacts
  <1>5. S = Sie!FlattenSeq(Messages(d, val, count)) /\ D = Sie!FlattenSeq(DomainParts(d, off, count))
    BY Zenon DEF Sie!DomainRaw, Sie!MessagesRaw, DomainParts, DomainPart, Messages, CanBytes
  <1> HIDE DEF off, count, val, w, u, S, D
  <1>6. Len(S) = u * count
    <2>1. /\ Messages(d, val, count) \in Seq(Seq(OctetOf)) /\ Len(Messages(d, val, count)) = count
          /\ \A k \in 1..count : Len(Messages(d, val, count)[k]) = u
      <3>1. /\ Messages(d, val, count) \in Seq(Seq(OctetOf)) /\ Len(Messages(d, val, count)) = count
            /\ \A k \in 1..count : Len(Messages(d, val, count)[k]) = P[Len(d.fields)]
        <4>1. CanReadable(d) /\ AreStarts(P, d) /\ val \in Nat /\ count \in Nat
          BY <1>1, <1>2
        <4> QED
          BY ONLY <4>1, MessagesFacts
      <3> QED
        BY <1>3, <3>1
    <2> QED
      BY <1>3, <1>5, <2>1, FlattenEven
  <1>7. Len(D) = w * count
    <2>1. /\ DomainParts(d, off, count) \in Seq(Seq(OctetOf)) /\ Len(DomainParts(d, off, count)) = count
          /\ \A k \in 1..count : Len(DomainParts(d, off, count)[k]) = w
      BY <1>1, DomainPartsFacts DEF w
    <2> QED
      BY <1>4, <1>5, <2>1, FlattenEven
  <1>8. Sie!TooShort(d, p) <=> Len(S) < count * 69 \/ Len(D) < count * 8
    BY DEF Sie!TooShort, Sie!CAN_MESSAGE, S, D, count
  <1>9. ASSUME Sie!Message69(d)
        PROVE  ~Sie!TooShort(d, p)
    <2>1. u = 69 /\ w = 8
      BY <1>9 DEF Sie!Message69, Sie!Size69, Sie!StructOctets, Sie!CAN_MESSAGE, CanBytes, u, w
    <2> QED
      BY <1>1, <1>6, <1>7, <1>8, <2>1
  <1>10. ASSUME Sie!ShortMessage(d), ~Sie!TooShort(d, p), count # 0
         PROVE  FALSE
    <2>1. u < 69 \/ Sie!SieBits(d.domainType) # 64
      <3>1. Sie!StructOctets(d) = u
        BY DEF Sie!StructOctets, u
      <3>2. u <= 69 /\ (u # 69 \/ Sie!SieBits(d.domainType) # 64)
        BY <1>10, <3>1 DEF Sie!ShortMessage, Sie!Size69, Sie!CAN_MESSAGE
      <3> QED
        BY <1>3, <3>2
    <2>2. u < 69 \/ w < 8
      <3>1. Sie!SieBits(d.domainType) \in {8, 16, 32, 64}
        BY DEF Sie!SieBits, Sie!SampleTypes, CanReadable
      <3> QED
        BY <2>1, <3>1 DEF w, CanBytes
    <2>3. CASE u < 69
      <3> DEFINE a == u * count
                 b == (68 - u) * count
      <3>1. a \in Nat /\ b \in Nat /\ a + b = 68 * count
        BY <1>1, <1>3, <2>3
      <3> HIDE DEF a, b
      <3>2. a < count * 69
        BY <1>1, <1>10, <3>1
      <3> QED
        BY <1>6, <1>8, <1>10, <3>2 DEF a
    <2>4. CASE w < 8
      <3> DEFINE a == w * count
                 b == (7 - w) * count
      <3>1. a \in Nat /\ b \in Nat /\ a + b = 7 * count
        BY <1>1, <1>4, <2>4
      <3> HIDE DEF a, b
      <3>2. a < count * 8
        BY <1>1, <1>10, <3>1
      <3> QED
        BY <1>7, <1>8, <1>10, <3>2 DEF a
    <2> QED
      BY <2>2, <2>3, <2>4
  <1> QED
    BY <1>9, <1>10 DEF count

-----------------------------------------------------------------------------
(* Decoders and channels of handlers                                        *)

(* What the handler of a group writes.                                      *)
DecoderOf(d, g) == IF d.kind = "scalar" THEN Sie!ScalarDecoder(d, g) ELSE Sie!CanDecoder(d, g)
ChannelOf(d, c, g) == IF d.kind = "scalar" THEN Sie!ScalarChannel(d, c, g, g) ELSE Sie!CanChannel(d, c, g, g)
TestOf(d, c, g) == Sie!AddChild(Sie!Test(0), ChannelOf(d, c, g))
Shows(d) == IF d.kind = "scalar" THEN 2 ELSE Len(d.fields) + 1

(* It is a decoder of the group's id.                                       *)
LEMMA DecoderOfParts == \A d, g : IsDecoder(DecoderOf(d, g), g)
  <1> TAKE d, g
  <1>1. ASSUME NEW a, NEW b
        PROVE  IsDecoder(Sie!AddChildren(Sie!Decoder(g), <<a, b>>), g)
    <2> DEFINE kids == <<a, b>>
               S == {a, b}
    <2>1. kids \in Seq(S)
      OBVIOUS
    <2> HIDE DEF kids, S
    <2>2. IsDecoder(Sie!AddChildren(Sie!Decoder(g), kids), g)
      BY <2>1, DecoderParts DEF IsDecoder
    <2> QED
      BY <2>2 DEF kids
  <1>2. \E a, b : Sie!ScalarDecoder(d, g) = Sie!AddChildren(Sie!Decoder(g), <<a, b>>)
    BY Zenon DEF Sie!ScalarDecoder
  <1>3. \E a, b : Sie!CanDecoder(d, g) = Sie!AddChildren(Sie!Decoder(g), <<a, b>>)
    BY Zenon DEF Sie!CanDecoder
  <1>4. IsDecoder(Sie!ScalarDecoder(d, g), g)
    BY <1>1, <1>2, Zenon
  <1>5. IsDecoder(Sie!CanDecoder(d, g), g)
    BY <1>1, <1>3, Zenon
  <1> QED
    BY <1>4, <1>5, Zenon DEF DecoderOf

(* A test with a channel.                                                   *)
LEMMA TestParts ==
    \A ch : /\ Sie!AddChild(Sie!Test(0), ch).name = "test"
            /\ Sie!AddChild(Sie!Test(0), ch).children = <<ch>>
  <1> TAKE ch
  <1> DEFINE none == <<>>
             a == Append(none, [id |-> "id", value |-> 0])
             one == Append(none, ch)
  <1>1. Sie!Test(0) = Made("test", a, none, none)
    <2>1. Sie!Element("test") = Made("test", none, none, none)
      BY NewElement
    <2> HIDE DEF none
    <2>2. \A v : Sie!AddAttribute(Made("test", none, none, none), "id", v)
                 = Made("test", Append(none, [id |-> "id", value |-> v]), none, none)
      BY MoreParts
    <2> QED
      BY <2>1, <2>2, Zenon DEF Sie!Test
  <1>2. one = <<ch>>
    OBVIOUS
  <1> HIDE DEF a, none
  <1>3. Sie!AddChild(Made("test", a, none, none), ch) = Made("test", a, one, none)
    BY MoreParts
  <1> HIDE DEF one
  <1> QED
    BY <1>1, <1>2, <1>3, MadeFields

(* It is no decoder.                                                        *)
LEMMA TestNoDecoder == \A d, c, g, id : ~IsDecoder(TestOf(d, c, g), id)
  <1> TAKE d, c, g, id
  <1>1. TestOf(d, c, g).name = "test"
    BY TestParts DEF TestOf
  <1>2. "test" # "decoder"
    OBVIOUS
  <1> QED
    BY <1>1, <1>2 DEF IsDecoder

(* Its channel shows the time, and the value or the fields.                 *)
LEMMA ChannelOfShows ==
    ASSUME NEW d \in Descriptors, NEW c, NEW g
    PROVE  IsChannel(ChannelOf(d, c, g), g, g, Shows(d)) /\ Shows(d) \in Nat \ {0}
  <1>1. d.fields \in Seq(Sie!Range(d.fields))
    BY DescriptorFacts
  <1>2. Len(d.fields) \in Nat /\ DOMAIN d.fields = 1..Len(d.fields)
    BY <1>1, LenProperties
  <1>3. CASE d.kind = "scalar"
    <2>1. IsChannel(Sie!ScalarChannel(d, c, g, g), g, g, 2)
      BY ScalarChannelShows
    <2>2. ChannelOf(d, c, g) = Sie!ScalarChannel(d, c, g, g) /\ Shows(d) = 2
      BY <1>3 DEF ChannelOf, Shows
    <2> QED
      BY <2>1, <2>2
  <1>4. CASE d.kind # "scalar"
    <2> DEFINE n == Len(d.fields) + 1
    <2>1. IsChannel(Sie!CanChannel(d, c, g, g), g, g, n)
      BY <1>2, CanChannelShows
    <2>2. ChannelOf(d, c, g) = Sie!CanChannel(d, c, g, g) /\ Shows(d) = n /\ n \in Nat \ {0}
      BY <1>2, <1>4 DEF ChannelOf, Shows
    <2> HIDE DEF n
    <2> QED
      BY <2>1, <2>2
  <1> QED
    BY <1>3, <1>4

(* The channels of the metadata.                                            *)
LEMMA ChannelsFrom ==
    ASSUME NEW E, metadata \in Seq(E), NEW C, \A j \in DOMAIN metadata : ChannelsIn(metadata[j]) \in Seq(C)
    PROVE  Sie!Channels \in Seq(C)
  <1> DEFINE parts == [j \in DOMAIN metadata |-> ChannelsIn(metadata[j])]
  <1>1. Len(metadata) \in Nat /\ DOMAIN metadata = 1..Len(metadata)
    BY LenProperties
  <1>2. parts \in Seq(Seq(C))
    <2>1. parts = [j \in 1..Len(metadata) |-> ChannelsIn(metadata[j])]
      BY <1>1
    <2> HIDE DEF parts
    <2> QED
      BY <1>1, <2>1
  <1>3. Sie!Channels = Xml!FlattenSeq(parts)
    <2>1. Sie!Channels = Sie!FlattenSeq(parts)
      BY Zenon DEF Sie!Channels, ChannelsIn
    <2> HIDE DEF parts
    <2>2. Sie!FlattenSeq(parts) = Xml!FlattenSeq(parts)
      BY Zenon DEF Sie!FlattenSeq, Xml!FlattenSeq
    <2> QED
      BY <2>1, <2>2
  <1> HIDE DEF parts
  <1>4. PICK f : /\ \A j \in 0..Len(parts) : f[j] \in Seq(C)
                 /\ f[Len(parts)] = Xml!FlattenSeq(parts)
    BY <1>2, FlattenSeqPrefixes
  <1>5. Len(parts) \in 0..Len(parts)
    BY <1>2
  <1> QED
    BY <1>3, <1>4, <1>5

-----------------------------------------------------------------------------
(* The blocks of a group                                                    *)

(* What the reader gets from the blocks of a group.                         *)
ReadsAs(d, g, bs, what) ==
    /\ Reading(bs, g, Shows(d), DecoderOf(d, g)) \in Seq(Seq(TimedSamples))
    /\ Sie!FlattenSeq(Reading(bs, g, Shows(d), DecoderOf(d, g))) = what

(* Blocks of other groups are read as nothing.                              *)
LEMMA ReadsNothing ==
    ASSUME NEW S, NEW bs \in Seq(S), NEW g, \A k \in DOMAIN bs : bs[k].group # g, NEW d
    PROVE  ReadsAs(d, g, bs, <<>>)
  <1> DEFINE R == Reading(bs, g, Shows(d), DecoderOf(d, g))
             n == Len(bs)
             T == TimedSamples
  <1>1. n \in Nat /\ DOMAIN bs = 1..n
    BY LenProperties
  <1>2. R = [k \in 1..n |-> <<>>]
    BY <1>1 DEF Reading
  <1> HIDE DEF R, n, T
  <1>3. R \in Seq(Seq(T)) /\ Sie!FlattenSeq(R) = <<>>
    BY <1>1, <1>2, FlattenNothing
  <1> QED
    BY <1>3 DEF ReadsAs, R, T

(* A block of the group adds what it is read as.                            *)
LEMMA ReadsMore ==
    ASSUME NEW S, NEW bs \in Seq(S), NEW b \in S, NEW g, NEW d, NEW what, ReadsAs(d, g, bs, what),
           NEW x \in Seq(TimedSamples),
           x = IF b.group = g THEN Shown(Shows(d), Sie!Run(DecoderOf(d, g), b.payload)) ELSE <<>>
    PROVE  ReadsAs(d, g, Append(bs, b), what \o x)
  <1> DEFINE n == Len(bs)
             T == TimedSamples
             read(c) == IF c.group = g THEN Shown(Shows(d), Sie!Run(DecoderOf(d, g), c.payload)) ELSE <<>>
             s == Reading(bs, g, Shows(d), DecoderOf(d, g))
             more == Append(bs, b)
             u == Reading(more, g, Shows(d), DecoderOf(d, g))
  <1>1. n \in Nat /\ DOMAIN bs = 1..n
    BY LenProperties
  <1>2. /\ DOMAIN more = 1..(n + 1) /\ more[n + 1] = b /\ \A k \in 1..n : more[k] = bs[k]
    BY AppendProperties
  <1>3. s = [k \in 1..n |-> read(bs[k])] /\ u = [k \in 1..(n + 1) |-> read(more[k])] /\ x = read(b)
    <2>1. s = [k \in DOMAIN bs |-> read(bs[k])]
      BY DEF Reading
    <2>2. u = [k \in DOMAIN more |-> read(more[k])]
      BY Zenon DEF Reading
    <2> HIDE DEF more, s, u
    <2> QED
      BY <1>1, <1>2, <2>1, <2>2
  <1>4. s \in Seq(Seq(T)) /\ Sie!FlattenSeq(s) = what
    BY DEF ReadsAs
  <1> HIDE DEF n, T, read, s, more, u
  <1>5. Len(s) = n
    BY <1>1, <1>3, <1>4
  <1>6. DOMAIN u = 1..(n + 1) /\ u = [k \in 1..(n + 1) |-> u[k]]
    BY <1>3
  <1>7. (\A k \in 1..n : u[k] = s[k]) /\ u[n + 1] = x
    <2>1. \A k \in 1..n : k \in 1..(n + 1)
      BY <1>1
    <2>2. n + 1 \in 1..(n + 1)
      BY <1>1
    <2> QED
      BY <1>2, <1>3, <2>1, <2>2
  <1>8. u \in Seq(Seq(T)) /\ Sie!FlattenSeq(u) = Sie!FlattenSeq(s) \o x
    <2>1. DOMAIN u = 1..(Len(s) + 1) /\ u = [k \in 1..(Len(s) + 1) |-> u[k]]
      BY <1>5, <1>6, Zenon
    <2>2. (\A k \in 1..Len(s) : u[k] = s[k]) /\ u[Len(s) + 1] = x
      BY <1>5, <1>7, Zenon
    <2>3. s \in Seq(Seq(T)) /\ x \in Seq(T)
      BY <1>4 DEF T
    <2>4. OneMore(T, s, x, u)
      BY ONLY <2>1, <2>2, <2>3 DEF OneMore
    <2> QED
      BY <2>4, FlattenMore
  <1> QED
    BY <1>4, <1>8 DEF ReadsAs, u, T, more

(* A block of another group adds nothing.                                   *)
LEMMA ReadsSame ==
    ASSUME NEW S, NEW bs \in Seq(S), NEW b \in S, NEW g, b.group # g, NEW d, NEW what, ReadsAs(d, g, bs, what)
    PROVE  ReadsAs(d, g, Append(bs, b), what)
  <1> DEFINE x == <<>>
             R == Reading(bs, g, Shows(d), DecoderOf(d, g))
             T == TimedSamples
  <1>1. x \in Seq(T) /\ x = IF b.group = g THEN Shown(Shows(d), Sie!Run(DecoderOf(d, g), b.payload)) ELSE <<>>
    OBVIOUS
  <1>2. R \in Seq(Seq(T)) /\ Sie!FlattenSeq(R) = what
    BY DEF ReadsAs
  <1> HIDE DEF R
  <1>3. what \in Seq(T)
    <2>1. PICK f : (\A j \in 0..Len(R) : f[j] \in Seq(T)) /\ f[Len(R)] = Xml!FlattenSeq(R)
      BY <1>2, FlattenSeqPrefixes
    <2>2. Len(R) \in 0..Len(R)
      BY <1>2
    <2> QED
      BY <1>2, <2>1, <2>2, SameFlatten
  <1>4. what \o x = what
    BY <1>3, ConcatEmptySeq
  <1> HIDE DEF x
  <1>5. ReadsAs(d, g, Append(bs, b), what \o x)
    BY <1>1, ReadsMore
  <1> QED
    BY <1>4, <1>5

(* The elements of a handler that was declared: its decoder, or the test    *)
(* with its channel when the decoder is there as well.                      *)
WrittenFor(e, md, d, g) ==
    /\ Readable(d)
    /\ \/ e = DecoderOf(d, g)
       \/ /\ \E c \in Nat : e = TestOf(d, c, g)
          /\ \E i \in DOMAIN md : md[i] = DecoderOf(d, g)

(* The metadata hold what handlers wrote and nothing else.                  *)
Described(md, da) == \A j \in DOMAIN md : \E g \in DOMAIN da : WrittenFor(md[j], md, da[g], g)

(* A group that writes nothing leaves that so.                              *)
LEMMA DescribedSame ==
    ASSUME NEW md, NEW da, Described(md, da), NEW g, g \notin DOMAIN da, NEW d
    PROVE  Described(md, Sie!With(da, g, d))
  <1>1. \A h \in DOMAIN da : h \in DOMAIN Sie!With(da, g, d) /\ Sie!With(da, g, d)[h] = da[h]
    BY DEF Sie!With
  <1> QED
    BY <1>1, Zenon DEF Described

(* So does a group that writes its decoder and its test.                    *)
LEMMA DescribedMore ==
    ASSUME NEW E, NEW md \in Seq(E), NEW da, Described(md, da), NEW g, g \notin DOMAIN da,
           NEW d, Readable(d), NEW c \in Nat
    PROVE  Described(md \o <<DecoderOf(d, g), TestOf(d, c, g)>>, Sie!With(da, g, d))
  <1> DEFINE new == Sie!With(da, g, d)
             x == DecoderOf(d, g)
             y == TestOf(d, c, g)
             pair == <<x, y>>
             m == md \o pair
             n == Len(md)
  <1>1. /\ g \in DOMAIN new /\ new[g] = d
        /\ \A h \in DOMAIN da : h \in DOMAIN new /\ new[h] = da[h]
    BY DEF Sie!With
  <1>2. n \in Nat /\ DOMAIN md = 1..n
    BY LenProperties
  <1>3. /\ DOMAIN m = 1..(n + 2) /\ m[n + 1] = x /\ m[n + 2] = y
        /\ \A k \in 1..n : m[k] = md[k]
    <2> DEFINE T == E \cup {x, y}
    <2> HIDE DEF x, y
    <2>1. md \in Seq(T) /\ pair \in Seq(T) /\ Len(pair) = 2 /\ pair[1] = x /\ pair[2] = y
      OBVIOUS
    <2> HIDE DEF pair, T, m, n
    <2>2. /\ md \o pair \in Seq(T) /\ Len(md \o pair) = Len(md) + Len(pair)
          /\ \A i \in 1..(Len(md) + Len(pair)) :
                (md \o pair)[i] = IF i <= Len(md) THEN md[i] ELSE pair[i - Len(md)]
      BY <2>1, ConcatProperties, Zenon
    <2>3. /\ m \in Seq(T) /\ Len(m) = n + 2
          /\ \A i \in 1..(n + 2) : m[i] = IF i <= n THEN md[i] ELSE pair[i - n]
      BY <2>1, <2>2 DEF m, n
    <2>4. DOMAIN m = 1..(n + 2)
      BY <2>3, LenProperties
    <2>5. \A k \in 1..n : m[k] = md[k]
      BY <1>2, <2>3
    <2>6. m[n + 1] = pair[1] /\ m[n + 2] = pair[2]
      BY <1>2, <2>3
    <2> QED
      BY <2>1, <2>4, <2>5, <2>6
  <1> HIDE DEF new, x, y, pair, m, n
  <1>4. \A i \in DOMAIN md : i \in DOMAIN m /\ m[i] = md[i]
    BY <1>2, <1>3
  <1>5. n + 1 \in DOMAIN m
    BY <1>2, <1>3
  <1>6. ASSUME NEW j \in DOMAIN m
        PROVE  \E h \in DOMAIN new : WrittenFor(m[j], m, new[h], h)
    <2>1. j \in 1..n \/ j = n + 1 \/ j = n + 2
      BY <1>2, <1>3
    <2>2. CASE j \in 1..n
      <3>1. PICK h \in DOMAIN da : WrittenFor(md[j], md, da[h], h)
        BY <1>2, <2>2 DEF Described
      <3>2. WrittenFor(m[j], m, da[h], h)
        BY <1>3, <1>4, <2>2, <3>1, Zenon DEF WrittenFor
      <3> QED
        BY <1>1, <3>2
    <2>3. CASE j = n + 1
      <3>1. WrittenFor(m[j], m, d, g)
        BY <1>3, <2>3, Zenon DEF WrittenFor, x
      <3> QED
        BY <1>1, <3>1
    <2>4. CASE j = n + 2
      <3>1. m[j] = TestOf(d, c, g) /\ m[n + 1] = DecoderOf(d, g)
        BY <1>3, <2>4 DEF x, y
      <3>2. WrittenFor(m[j], m, d, g)
        BY <1>5, <3>1, Zenon DEF WrittenFor
      <3> QED
        BY <1>1, <3>2
    <2> QED
      BY <2>1, <2>2, <2>3, <2>4
  <1> QED
    BY <1>6 DEF Described, m, pair, x, y, new

-----------------------------------------------------------------------------
(* A group and its metadata                                                 *)

(* What a channel of a group shows agrees with what its handler was sent.   *)
Agrees(d, g, bs, what) ==
    Readable(d) => /\ Sie!Unscaled(d) \/ Sie!Message69(d) => ReadsAs(d, g, bs, what)
                   /\ Sie!ShortMessage(d) => ReadsAs(d, g, bs, <<>>)

(* A block of another group leaves it so.                                   *)
LEMMA AgreesSame ==
    ASSUME NEW S, NEW bs \in Seq(S), NEW b \in S, NEW g, b.group # g, NEW d, NEW what, Agrees(d, g, bs, what)
    PROVE  Agrees(d, g, Append(bs, b), what)
  <1>1. \A w : ReadsAs(d, g, bs, w) => ReadsAs(d, g, Append(bs, b), w)
    BY ReadsSame
  <1> QED
    BY <1>1, Zenon DEF Agrees

(* It is so for a new group: no block is of it.                             *)
LEMMA AgreesAtFirst ==
    ASSUME NEW S, NEW bs \in Seq(S), NEW g, \A k \in DOMAIN bs : bs[k].group # g, NEW d
    PROVE  Agrees(d, g, bs, <<>>)
  <1>1. ReadsAs(d, g, bs, <<>>)
    BY ReadsNothing
  <1> QED
    BY <1>1, Zenon DEF Agrees

(* The kinds of descriptors exclude one another.                            *)
LEMMA Kinds ==
    ASSUME NEW d \in Descriptors
    PROVE  /\ d.kind \in {"scalar", "can"} /\ "scalar" # "can"
           /\ Readable(d) /\ d.kind = "can" => CanReadable(d)
           /\ d.kind = "can" => ~Sie!Unscaled(d)
           /\ d.kind = "scalar" => ~Sie!Message69(d) /\ ~Sie!ShortMessage(d)
           /\ Sie!ShortMessage(d) => ~Sie!Message69(d)
  BY SamplesAssumed DEF Sie!SieSamplesAssumption, Readable, Sie!Unscaled, Sie!Message69, Sie!ShortMessage

(* A packet that is written.                                                *)
LEMMA AgreesMore ==
    ASSUME values \in Nat, NEW d \in Descriptors, Readable(d), NEW S, NEW bs \in Seq(S), NEW g, NEW what,
           Agrees(d, g, bs, what), NEW p \in Sie!Packets, NEW data, NEW b \in S,
           b.group = g, b.payload = data,
           d.kind = "scalar" => data = Sie!ScalarPayload(d, p),
           d.kind = "can" => data = Sie!CanPayload(d, p) /\ ~Sie!TooShort(d, p)
    PROVE  Agrees(d, g, Append(bs, b), what \o Sie!PacketSamples(d, p))
  <1> DEFINE x == Sie!PacketSamples(d, p)
             y == Shown(Shows(d), Sie!Run(DecoderOf(d, g), b.payload))
             none == <<>>
  <1>1. x \in Seq(TimedSamples)
    BY PacketSamplesType
  <1>2. ASSUME y = x, NEW w, ReadsAs(d, g, bs, w)
        PROVE  ReadsAs(d, g, Append(bs, b), w \o x)
    <2>1. x = IF b.group = g THEN Shown(Shows(d), Sie!Run(DecoderOf(d, g), b.payload)) ELSE <<>>
      BY <1>2
    <2> HIDE DEF x, y
    <2> QED
      BY <1>1, <1>2, <2>1, ReadsMore
  <1>3. ASSUME Sie!Unscaled(d)
        PROVE  y = x
    <2>1. d.kind = "scalar"
      BY <1>3 DEF Sie!Unscaled
    <2>2. Shows(d) = 2 /\ DecoderOf(d, g) = Sie!ScalarDecoder(d, g) /\ b.payload = Sie!ScalarPayload(d, p)
      BY <2>1 DEF Shows, DecoderOf
    <2>3. Shown(2, Sie!Run(Sie!ScalarDecoder(d, g), Sie!ScalarPayload(d, p))) = x
      BY <1>3, ScalarPacketRead
    <2> QED
      BY <2>2, <2>3
  <1>4. ASSUME d.kind = "can", p.count = 0 \/ Sie!Message69(d)
        PROVE  y = x
    <2>1. CanReadable(d)
      BY <1>4, Kinds
    <2>2. /\ Shows(d) = Len(d.fields) + 1 /\ DecoderOf(d, g) = Sie!CanDecoder(d, g)
          /\ b.payload = Sie!CanPayload(d, p)
      BY <1>4 DEF Shows, DecoderOf
    <2>3. Shown(Len(d.fields) + 1, Sie!Run(Sie!CanDecoder(d, g), Sie!CanPayload(d, p))) = x
      BY <1>4, <2>1, CanPacketRead
    <2> QED
      BY <2>2, <2>3
  <1>5. ASSUME Sie!ShortMessage(d)
        PROVE  y = x /\ x = <<>>
    <2>1. d.kind = "can" /\ CanReadable(d) /\ ~Sie!TooShort(d, p)
      BY <1>5, Kinds DEF Sie!ShortMessage
    <2>2. p.count = 0
      BY <1>5, <2>1, CanPacketSize
    <2>3. x = <<>>
      BY <2>2 DEF Sie!PacketSamples
    <2> QED
      BY <1>4, <2>1, <2>2, <2>3
  <1>6. Sie!Message69(d) => d.kind = "can"
    BY DEF Sie!Message69
  <1>7. ASSUME Sie!Unscaled(d) \/ Sie!Message69(d)
        PROVE  ReadsAs(d, g, Append(bs, b), what \o x)
    <2>1. ReadsAs(d, g, bs, what)
      BY <1>7, Zenon DEF Agrees
    <2>2. y = x
      BY <1>3, <1>4, <1>6, <1>7
    <2> HIDE DEF x, y
    <2> QED
      BY <1>2, <2>1, <2>2
  <1>8. ASSUME Sie!ShortMessage(d)
        PROVE  ReadsAs(d, g, Append(bs, b), <<>>)
    <2>1. ReadsAs(d, g, bs, none)
      BY <1>8, Zenon DEF Agrees
    <2>2. y = x /\ x = none
      BY <1>5, <1>8
    <2>3. none \o none = <<>>
      OBVIOUS
    <2> HIDE DEF x, y, none
    <2>4. ReadsAs(d, g, Append(bs, b), none \o x)
      BY <1>2, <2>1, <2>2
    <2> QED
      BY <2>2, <2>3, <2>4
  <1> QED
    BY <1>7, <1>8, Zenon DEF Agrees

(* A packet that is too short.                                              *)
LEMMA AgreesDropped ==
    ASSUME values \in Nat, NEW d \in Descriptors, Readable(d), d.kind = "can", NEW bs, NEW g, NEW what,
           Agrees(d, g, bs, what), NEW p \in Sie!Packets, Sie!TooShort(d, p), NEW more
    PROVE  Agrees(d, g, bs, more)
  <1>1. CanReadable(d) /\ ~Sie!Unscaled(d)
    BY Kinds
  <1>2. ~Sie!Message69(d)
    BY <1>1, CanPacketSize
  <1> QED
    BY <1>1, <1>2, Zenon DEF Agrees

-----------------------------------------------------------------------------
(* The samples read back                                                    *)

(* A sequence of blocks of these groups.                                    *)
IsBlocks(bs, groups) == \E S : bs \in Seq(S) /\ \A b \in S : b.group \in groups

(* The metadata describes the groups, the blocks are of groups that were    *)
(* declared, a handler has a descriptor its decoder can read, and the       *)
(* blocks so far are read as the samples so far.                            *)
SamplesInv ==
    /\ TicksInv
    /\ next.decoder = next.group
    /\ Described(metadata, declaredAs)
    /\ \A s \in Signals : handler[s] # Sie!NoHandler => Readable(declaredAs[handler[s]])
    /\ IsBlocks(blocks, DOMAIN declaredAs)
    /\ \A g \in DOMAIN declaredAs : Agrees(declaredAs[g], g, blocks, sent[g])

(* At first there is nothing to read.                                       *)
LEMMA SamplesInit == Sie!Init => SamplesInv
  <1> SUFFICES ASSUME Sie!Init PROVE SamplesInv
    OBVIOUS
  <1>1. DOMAIN declaredAs = {} /\ DOMAIN metadata = {} /\ next.decoder = next.group
    BY DEF Sie!Init
  <1>2. \A s \in Signals : handler[s] = Sie!NoHandler
    BY DEF Sie!Init
  <1>3. IsBlocks(blocks, DOMAIN declaredAs)
    <2>1. blocks \in Seq({})
      BY DEF Sie!Init
    <2> QED
      BY <2>1 DEF IsBlocks
  <1>4. TicksInv
    BY TicksInit
  <1> QED
    BY <1>1, <1>2, <1>3, <1>4, Zenon DEF SamplesInv, Described

(* The constructor of a handler describes its own group, which has no       *)
(* blocks yet; the ids of decoders stay those of the groups.                *)
LEMMA ConstructSamples ==
    ASSUME SamplesInv, NEW s \in Signals, NEW d \in Descriptors, Sie!Construct(s, d)
    PROVE  SamplesInv'
  <1> DEFINE g == next.group
             c == next.channel
             new == Sie!With(declaredAs, g, d)
             wrote == metadata' = metadata \o <<DecoderOf(d, g), TestOf(d, c, g)>>
  <1>0. TicksInv /\ TicksInv'
    BY ConstructTicks DEF SamplesInv
  <1>1. /\ next'.decoder = next.decoder + 1 /\ next'.group = g + 1 /\ next.decoder = g
        /\ declaredAs' = new /\ sent' = Sie!With(sent, g, <<>>) /\ blocks' = blocks
    BY DEF Sie!Construct, Sie!AllocateIds, SamplesInv
  <1>2. g \in Nat /\ c \in Nat /\ g \notin DOMAIN declaredAs /\ DOMAIN sent = DOMAIN declaredAs
    BY <1>0 DEF TicksInv
  <1>3. /\ DOMAIN new = DOMAIN declaredAs \cup {g} /\ new[g] = d
        /\ \A h \in DOMAIN declaredAs : new[h] = declaredAs[h] /\ h # g
        /\ sent'[g] = <<>> /\ \A h \in DOMAIN sent : sent'[h] = sent[h]
    BY <1>1, <1>2 DEF Sie!With
  <1>4. \/ Readable(d) /\ wrote /\ handler' = [handler EXCEPT ![s] = g]
        \/ metadata' = metadata /\ handler' = [handler EXCEPT ![s] = Sie!NoHandler]
    <2>1. CASE d.kind = "scalar"
      <3>1. /\ metadata' = metadata \o
                  << Sie!ScalarDecoder(d, g), Sie!AddChild(Sie!Test(0), Sie!ScalarChannel(d, c, g, g)) >>
            /\ handler' = [handler EXCEPT ![s] = g]
        BY <1>1, <2>1 DEF Sie!Construct
      <3>2. DecoderOf(d, g) = Sie!ScalarDecoder(d, g)
            /\ TestOf(d, c, g) = Sie!AddChild(Sie!Test(0), Sie!ScalarChannel(d, c, g, g))
        BY <2>1 DEF DecoderOf, TestOf, ChannelOf
      <3> QED
        BY <2>1, <3>1, <3>2, Zenon DEF Readable
    <2>2. CASE d.kind # "scalar" /\ d.domainType \in Sie!SampleTypes /\ \A k \in DOMAIN d.fields : Sie!Readable(d.fields[k])
      <3>1. /\ metadata' = metadata \o
                  << Sie!CanDecoder(d, g), Sie!AddChild(Sie!Test(0), Sie!CanChannel(d, c, g, g)) >>
            /\ handler' = [handler EXCEPT ![s] = g]
        BY <1>1, <2>2 DEF Sie!Construct
      <3>2. DecoderOf(d, g) = Sie!CanDecoder(d, g)
            /\ TestOf(d, c, g) = Sie!AddChild(Sie!Test(0), Sie!CanChannel(d, c, g, g))
        BY <2>2 DEF DecoderOf, TestOf, ChannelOf
      <3>3. CanReadable(d)
        <4>1. /\ d.fields \in Seq(Sie!Range(d.fields)) /\ Len(d.fields) < Len(VariableNames)
              /\ \A k \in DOMAIN d.fields : d.fields[k].items \in Nat
          BY SamplesAssumed DEF Sie!SieSamplesAssumption
        <4>2. Len(d.fields) \in Nat /\ DOMAIN d.fields = 1..Len(d.fields)
          BY <4>1, LenProperties
        <4> QED
          BY <2>2, <4>1, <4>2, Zenon DEF CanReadable
      <3> QED
        BY <3>1, <3>2, <3>3, Zenon DEF Readable
    <2>3. CASE d.kind # "scalar" /\ ~(d.domainType \in Sie!SampleTypes /\ \A k \in DOMAIN d.fields : Sie!Readable(d.fields[k]))
      BY <2>3, Zenon DEF Sie!Construct
    <2> QED
      BY <2>1, <2>2, <2>3
  <1>5. Described(metadata', declaredAs')
    <2>1. metadata \in Seq(ElementsFor(declaredAs)) /\ Described(metadata, declaredAs)
      BY <1>0 DEF SamplesInv, TicksInv
    <2>2. Described(metadata, new)
      BY <1>2, <2>1, DescribedSame
    <2>3. Readable(d) => Described(metadata \o <<DecoderOf(d, g), TestOf(d, c, g)>>, new)
      BY <1>2, <2>1, DescribedMore
    <2> HIDE DEF g, c, new
    <2> QED
      BY <1>1, <1>4, <2>2, <2>3
  <1>6. \A t \in Signals : handler'[t] # Sie!NoHandler => Readable(declaredAs'[handler'[t]])
    <2> TAKE t \in Signals
    <2>1. handler \in [Signals -> {Sie!NoHandler} \cup DOMAIN declaredAs]
      BY <1>0 DEF TicksInv
    <2>2. handler[t] # Sie!NoHandler => Readable(declaredAs[handler[t]])
      BY DEF SamplesInv
    <2> HIDE DEF g, c, new, wrote
    <2>3. handler'[t] = handler[t] \/ handler'[t] = Sie!NoHandler \/ (Readable(d) /\ handler'[t] = g)
      BY <1>4, <2>1
    <2>4. handler[t] \in DOMAIN declaredAs \/ handler[t] = Sie!NoHandler
      BY <2>1
    <2> QED
      BY <1>1, <1>3, <2>2, <2>3, <2>4
  <1>7. PICK S : blocks \in Seq(S) /\ \A b \in S : b.group \in DOMAIN declaredAs
    BY Zenon DEF SamplesInv, IsBlocks
  <1>8. IsBlocks(blocks', DOMAIN declaredAs')
    <2>1. \A b \in S : b.group \in DOMAIN declaredAs'
      BY <1>1, <1>3, <1>7
    <2> QED
      BY <1>1, <1>7, <2>1, Zenon DEF IsBlocks
  <1>9. \A h \in DOMAIN declaredAs' : Agrees(declaredAs'[h], h, blocks', sent'[h])
    <2> TAKE h \in DOMAIN declaredAs'
    <2>1. CASE h = g
      <3>1. \A k \in DOMAIN blocks : blocks[k].group # g
        <4>1. \A k \in DOMAIN blocks : blocks[k] \in S
          BY <1>7, ElementOfSeq, LenProperties
        <4> QED
          BY <1>2, <1>7, <4>1
      <3>2. Agrees(d, g, blocks, <<>>)
        BY <1>7, <3>1, AgreesAtFirst
      <3> QED
        BY <1>1, <1>3, <2>1, <3>2
    <2>2. CASE h # g
      <3>1. h \in DOMAIN declaredAs
        BY <1>1, <1>3, <2>2
      <3>2. Agrees(declaredAs[h], h, blocks, sent[h])
        BY <3>1 DEF SamplesInv
      <3> QED
        BY <1>1, <1>2, <1>3, <3>1, <3>2
    <2> QED
      BY <2>1, <2>2
  <1>10. next'.decoder = next'.group
    BY <1>1
  <1> QED
    BY <1>0, <1>5, <1>6, <1>8, <1>9, <1>10 DEF SamplesInv

(* A packet adds a block of the handler's group, or none, and to the        *)
(* samples sent what the block is read as.                                  *)
LEMMA PacketSamplesRead ==
    ASSUME SamplesInv, NEW s \in Signals, NEW p \in Sie!Packets, Sie!Packet(s, p)
    PROVE  SamplesInv'
  <1> DEFINE g == handler[s]
             d == declaredAs[g]
             more == Sie!PacketSamples(d, p)
             data == IF d.kind = "scalar" THEN Sie!ScalarPayload(d, p) ELSE Sie!CanPayload(d, p)
             b == [group |-> g, payload |-> data]
  <1>0. TicksInv /\ TicksInv'
    BY PacketTicks DEF SamplesInv
  <1>1. /\ next' = next /\ handler' = handler /\ metadata' = metadata /\ declaredAs' = declaredAs
        /\ g # Sie!NoHandler
    BY DEF Sie!Packet
  <1>2. handler \in [Signals -> {Sie!NoHandler} \cup DOMAIN declaredAs] /\ values \in Nat
        /\ DOMAIN sent = DOMAIN declaredAs
    BY <1>0 DEF TicksInv
  <1>3. g \in DOMAIN declaredAs
    BY <1>1, <1>2
  <1>4. d \in Descriptors /\ Readable(d) /\ d.kind \in {"scalar", "can"} /\ "scalar" # "can"
    <2>1. d \in Descriptors
      BY <1>0, <1>3 DEF TicksInv
    <2>2. Readable(d)
      BY <1>1 DEF SamplesInv
    <2> QED
      BY <2>1, <2>2, Kinds
  <1>5. \/ blocks' = blocks /\ sent' = sent
        \/ /\ d.kind = "can" /\ Sie!TooShort(d, p) /\ blocks' = blocks
           /\ sent' = [sent EXCEPT ![g] = sent[g] \o more]
        \/ /\ d.kind = "can" => ~Sie!TooShort(d, p)
           /\ blocks' = Append(blocks, b)
           /\ sent' = [sent EXCEPT ![g] = sent[g] \o more]
    <2>1. CASE ~(p.hasDomain /\ (d.kind = "can" \/ p.hasOffset))
      BY <2>1, Zenon DEF Sie!Packet
    <2>2. CASE p.hasDomain /\ (d.kind = "can" \/ p.hasOffset) /\ d.kind = "scalar"
      <3>1. blocks' = Append(blocks, [group |-> g, payload |-> Sie!ScalarPayload(d, p)])
            /\ sent' = [sent EXCEPT ![g] = sent[g] \o more]
        BY <2>2, Zenon DEF Sie!Packet
      <3>2. data = Sie!ScalarPayload(d, p) /\ d.kind # "can"
        BY <2>2
      <3> QED
        BY <3>1, <3>2, Zenon
    <2>3. CASE p.hasDomain /\ (d.kind = "can" \/ p.hasOffset) /\ d.kind # "scalar" /\ Sie!TooShort(d, p)
      <3>1. blocks' = blocks /\ sent' = [sent EXCEPT ![g] = sent[g] \o more]
        BY <2>3, Zenon DEF Sie!Packet
      <3>2. d.kind = "can"
        BY <1>4, <2>3
      <3> QED
        BY <2>3, <3>1, <3>2, Zenon
    <2>4. CASE p.hasDomain /\ (d.kind = "can" \/ p.hasOffset) /\ d.kind # "scalar" /\ ~Sie!TooShort(d, p)
      <3>1. blocks' = Append(blocks, [group |-> g, payload |-> Sie!CanPayload(d, p)])
            /\ sent' = [sent EXCEPT ![g] = sent[g] \o more]
        BY <2>4, Zenon DEF Sie!Packet
      <3>2. data = Sie!CanPayload(d, p)
        BY <2>4
      <3> QED
        BY <2>4, <3>1, <3>2, Zenon
    <2> QED
      BY <2>1, <2>2, <2>3, <2>4
  <1>6. PICK S : blocks \in Seq(S) /\ \A x \in S : x.group \in DOMAIN declaredAs
    BY Zenon DEF SamplesInv, IsBlocks
  <1>7. b.group = g /\ b.payload = data
    OBVIOUS
  <1> DEFINE T == S \cup {b}
  <1>8. blocks \in Seq(T) /\ b \in T /\ \A x \in T : x.group \in DOMAIN declaredAs
    <2> HIDE DEF b, data, g
    <2> QED
      BY <1>3, <1>6, <1>7
  <1>9. \A h \in DOMAIN declaredAs : Agrees(declaredAs[h], h, blocks, sent[h])
    BY DEF SamplesInv
  <1>10. /\ d.kind = "scalar" => data = Sie!ScalarPayload(d, p)
         /\ d.kind = "can" => data = Sie!CanPayload(d, p)
    BY <1>4
  <1>11. g \in DOMAIN sent
    BY <1>2, <1>3
  <1> HIDE DEF more, data, b, T, d, g
  <1>12. IsBlocks(blocks', DOMAIN declaredAs')
    <2>1. blocks' = blocks \/ blocks' = Append(blocks, b)
      BY <1>5
    <2>2. Append(blocks, b) \in Seq(T)
      BY <1>8, AppendProperties
    <2>3. blocks' \in Seq(T)
      BY <1>8, <2>1, <2>2
    <2> QED
      BY <1>1, <1>8, <2>3, Zenon DEF IsBlocks
  <1>13. ASSUME sent' = [sent EXCEPT ![g] = sent[g] \o more]
         PROVE  sent'[g] = sent[g] \o more /\ \A h \in DOMAIN sent : h # g => sent'[h] = sent[h]
    BY <1>11, <1>13
  <1>14. \A h \in DOMAIN declaredAs : Agrees(declaredAs[h], h, blocks', sent'[h])
    <2>1. CASE blocks' = blocks /\ sent' = sent
      BY <1>9, <2>1
    <2>2. CASE /\ d.kind = "can" /\ Sie!TooShort(d, p) /\ blocks' = blocks
               /\ sent' = [sent EXCEPT ![g] = sent[g] \o more]
      <3> TAKE h \in DOMAIN declaredAs
      <3>1. CASE h # g
        BY <1>2, <1>9, <1>13, <2>2, <3>1
      <3>2. CASE h = g
        <4>1. Agrees(d, g, blocks, sent[g])
          BY <1>3, <1>9 DEF d
        <4>2. Agrees(d, g, blocks, sent[g] \o more)
          BY <1>2, <1>4, <2>2, <4>1, AgreesDropped
        <4> QED
          BY <1>13, <2>2, <3>2, <4>2 DEF d
      <3> QED
        BY <3>1, <3>2
    <2>3. CASE /\ d.kind = "can" => ~Sie!TooShort(d, p)
               /\ blocks' = Append(blocks, b)
               /\ sent' = [sent EXCEPT ![g] = sent[g] \o more]
      <3> TAKE h \in DOMAIN declaredAs
      <3>1. CASE h # g
        <4>1. Agrees(declaredAs[h], h, blocks, sent[h])
          BY <1>9
        <4>2. b.group # h
          BY <1>7, <3>1
        <4>3. Agrees(declaredAs[h], h, Append(blocks, b), sent[h])
          BY <1>8, <4>1, <4>2, AgreesSame
        <4>4. sent'[h] = sent[h]
          BY <1>2, <1>13, <2>3, <3>1
        <4> QED
          BY <2>3, <4>3, <4>4
      <3>2. CASE h = g
        <4>1. Agrees(d, g, blocks, sent[g])
          BY <1>3, <1>9 DEF d
        <4>2. Agrees(d, g, Append(blocks, b), sent[g] \o Sie!PacketSamples(d, p))
          <5>1. d.kind = "can" => data = Sie!CanPayload(d, p) /\ ~Sie!TooShort(d, p)
            BY <1>10, <2>3
          <5> QED
            BY <1>2, <1>4, <1>7, <1>8, <1>10, <4>1, <5>1, AgreesMore
        <4>3. sent'[g] = sent[g] \o Sie!PacketSamples(d, p)
          BY <1>13, <2>3 DEF more
        <4> QED
          BY <2>3, <3>2, <4>2, <4>3 DEF d
      <3> QED
        BY <3>1, <3>2
    <2> QED
      BY <1>5, <2>1, <2>2, <2>3
  <1>15. Described(metadata', declaredAs') /\ next'.decoder = next'.group
    BY <1>1 DEF SamplesInv
  <1>16. \A t \in Signals : handler'[t] # Sie!NoHandler => Readable(declaredAs'[handler'[t]])
    BY <1>1 DEF SamplesInv
  <1>17. \A h \in DOMAIN declaredAs' : Agrees(declaredAs'[h], h, blocks', sent'[h])
    BY <1>1, <1>14
  <1> QED
    BY <1>0, <1>12, <1>15, <1>16, <1>17 DEF SamplesInv

(* No step breaks the invariant.                                            *)
LEMMA SamplesStep == SamplesInv /\ [Sie!Next]_(Sie!svars) => SamplesInv'
  <1> SUFFICES ASSUME SamplesInv, [Sie!Next]_(Sie!svars)
               PROVE  SamplesInv'
    OBVIOUS
  <1>1. CASE UNCHANGED Sie!svars
    <2>1. TicksInv'
      BY <1>1, TicksStep DEF SamplesInv
    <2>2. /\ next' = next /\ handler' = handler /\ metadata' = metadata /\ blocks' = blocks
          /\ declaredAs' = declaredAs /\ sent' = sent
      BY <1>1 DEF Sie!svars
    <2> QED
      BY <2>1, <2>2 DEF SamplesInv
  <1>2. ASSUME NEW s \in Signals, NEW d \in Descriptors, Sie!Construct(s, d)
        PROVE  SamplesInv'
    BY <1>2, ConstructSamples
  <1>3. ASSUME NEW s \in Signals, NEW p \in Sie!Packets, Sie!Packet(s, p)
        PROVE  SamplesInv'
    BY <1>3, PacketSamplesRead
  <1> QED
    BY <1>1, <1>2, <1>3, Zenon DEF Sie!Next

(* Every channel is that of a group whose decoder is in the metadata.       *)
LEMMA ChannelsWritten ==
    ASSUME SamplesInv, NEW i \in DOMAIN Sie!Channels
    PROVE  \E g \in DOMAIN declaredAs, c \in Nat :
              /\ Readable(declaredAs[g]) /\ Sie!Channels[i] = ChannelOf(declaredAs[g], c, g)
              /\ \E j \in DOMAIN metadata : metadata[j] = DecoderOf(declaredAs[g], g)
  <1> DEFINE G == {g \in DOMAIN declaredAs :
                      /\ Readable(declaredAs[g])
                      /\ \E j \in DOMAIN metadata : metadata[j] = DecoderOf(declaredAs[g], g)}
             C == {ChannelOf(declaredAs[g], c, g) : g \in G, c \in Nat}
  <1>1. metadata \in Seq(ElementsFor(declaredAs)) /\ Described(metadata, declaredAs)
    BY DEF SamplesInv, TicksInv
  <1>2. ASSUME NEW j \in DOMAIN metadata
        PROVE  ChannelsIn(metadata[j]) \in Seq(C)
    <2>1. PICK g \in DOMAIN declaredAs : WrittenFor(metadata[j], metadata, declaredAs[g], g)
      BY <1>1 DEF Described
    <2>2. CASE metadata[j] = DecoderOf(declaredAs[g], g)
      <3>1. metadata[j].name = "decoder"
        BY <2>2, DecoderOfParts DEF IsDecoder
      <3>2. ChannelsIn(metadata[j]) = <<>>
        BY <3>1 DEF ChannelsIn
      <3> QED
        BY <3>2
    <2>3. CASE metadata[j] # DecoderOf(declaredAs[g], g)
      <3>1. /\ Readable(declaredAs[g]) /\ \E c \in Nat : metadata[j] = TestOf(declaredAs[g], c, g)
            /\ \E k \in DOMAIN metadata : metadata[k] = DecoderOf(declaredAs[g], g)
        BY <2>1, <2>3, Zenon DEF WrittenFor
      <3>2. PICK c \in Nat : metadata[j] = TestOf(declaredAs[g], c, g)
        BY <3>1
      <3> DEFINE ch == ChannelOf(declaredAs[g], c, g)
      <3>3. ch \in C
        BY <3>1
      <3>4. metadata[j].name = "test" /\ metadata[j].children = <<ch>>
        BY <3>2, TestParts DEF TestOf
      <3> HIDE DEF ch, C
      <3>5. ChannelsIn(metadata[j]) = <<ch>>
        BY <3>4 DEF ChannelsIn
      <3> QED
        BY <3>3, <3>5
    <2> QED
      BY <2>2, <2>3
  <1>3. Sie!Channels \in Seq(C)
    <2> HIDE DEF C
    <2> QED
      BY <1>1, <1>2, ChannelsFrom
  <1>4. Sie!Channels[i] \in C
    <2> HIDE DEF C
    <2> QED
      BY <1>3, ElementOfSeq, LenProperties
  <1>5. PICK g \in G, c \in Nat : Sie!Channels[i] = ChannelOf(declaredAs[g], c, g)
    BY <1>4
  <1> QED
    BY <1>5

(* What it shows is what is read from the blocks of its group.              *)
LEMMA ChannelShows ==
    ASSUME SamplesInv, NEW i \in DOMAIN Sie!Channels
    PROVE  \E g \in DOMAIN declaredAs :
              /\ Sie!Attribute(Sie!Channels[i], "group") = g
              /\ Readable(declaredAs[g])
              /\ Sie!ReadChannel(Sie!Channels[i])
                   = Sie!FlattenSeq(Reading(blocks, g, Shows(declaredAs[g]), DecoderOf(declaredAs[g], g)))
  <1>1. PICK g \in DOMAIN declaredAs, c \in Nat :
              /\ Readable(declaredAs[g]) /\ Sie!Channels[i] = ChannelOf(declaredAs[g], c, g)
              /\ \E j \in DOMAIN metadata : metadata[j] = DecoderOf(declaredAs[g], g)
    BY ChannelsWritten
  <1> DEFINE d == declaredAs[g]
             ch == Sie!Channels[i]
  <1>2. d \in Descriptors
    BY DEF SamplesInv, TicksInv
  <1>3. IsChannel(ch, g, g, Shows(d)) /\ Shows(d) \in Nat \ {0}
    <2>1. IsChannel(ChannelOf(d, c, g), g, g, Shows(d)) /\ Shows(d) \in Nat \ {0}
      BY <1>2, ChannelOfShows
    <2> QED
      BY <1>1, <2>1
  <1>4. FoundDecoder(metadata, g) = DecoderOf(d, g)
    <2> DEFINE x == DecoderOf(d, g)
    <2>1. metadata \in Seq(ElementsFor(declaredAs)) /\ Described(metadata, declaredAs)
      BY DEF SamplesInv, TicksInv
    <2>2. Len(metadata) \in Nat /\ DOMAIN metadata = 1..Len(metadata)
      BY <2>1, LenProperties
    <2>3. IsDecoder(x, g)
      BY DecoderOfParts
    <2>4. \E j \in 1..Len(metadata) : IsDecoder(metadata[j], g)
      BY <1>1, <2>2, <2>3
    <2>5. ASSUME NEW j \in 1..Len(metadata), IsDecoder(metadata[j], g)
          PROVE  metadata[j] = x
      <3>1. PICK h \in DOMAIN declaredAs : WrittenFor(metadata[j], metadata, declaredAs[h], h)
        BY <2>1, <2>2 DEF Described
      <3>2. metadata[j] = DecoderOf(declaredAs[h], h)
        BY <2>5, <3>1, TestNoDecoder, Zenon DEF WrittenFor
      <3>3. IsDecoder(metadata[j], h)
        BY <3>2, DecoderOfParts
      <3>4. h = g
        BY <2>5, <3>3 DEF IsDecoder
      <3> QED
        BY <3>2, <3>4
    <2> HIDE DEF x
    <2>6. FoundDecoder(metadata, g) = x
      BY <2>2, <2>4, <2>5, DecoderFound
    <2> QED
      BY <2>6 DEF x
  <1>5. Sie!Attribute(ch, "group") = g
    BY <1>3 DEF IsChannel
  <1> DEFINE n == Shows(d)
  <1> HIDE DEF ch, d
  <1>6. Sie!ReadChannel(ch) = Sie!FlattenSeq(Reading(blocks, g, n, FoundDecoder(metadata, g)))
    <2>1. n \in Nat \ {0} /\ IsChannel(ch, g, g, n)
      BY <1>3
    <2> HIDE DEF n
    <2> QED
      BY ONLY <2>1, ChannelReads
  <1> QED
    BY <1>1, <1>4, <1>5, <1>6 DEF ch, d

(* Whatever the descriptors, the packets and the order of handlers and      *)
(* packets: what a channel shows of a signal is every sample of its         *)
(* packets, with their times and in their order, for values stored in       *)
(* their own type and for CAN structs of the one supported size; a CAN      *)
(* signal of smaller structs shows nothing.  (scalar_signal_handler.cpp     *)
(* and can_signal_handler.cpp, the constructors and                         *)
(* onDataPacketReceived.)                                                   *)
THEOREM SamplesAreReadBack == Sie!Spec => []SamplesReadBack
  <1>1. SamplesInv => SamplesReadBack
    <2> SUFFICES ASSUME SamplesInv
                 PROVE  SamplesReadBack
      OBVIOUS
    <2>1. ASSUME NEW i \in DOMAIN Sie!Channels
          PROVE  LET d == declaredAs[Sie!Attribute(Sie!Channels[i], "group")]
                 IN  /\ Sie!Unscaled(d) \/ Sie!Message69(d) => Sie!ReadsWhatWasSent(i)
                     /\ Sie!ShortMessage(d) => Sie!ReadChannel(Sie!Channels[i]) = <<>>
      <3>1. PICK g \in DOMAIN declaredAs :
              /\ Sie!Attribute(Sie!Channels[i], "group") = g
              /\ Readable(declaredAs[g])
              /\ Sie!ReadChannel(Sie!Channels[i])
                   = Sie!FlattenSeq(Reading(blocks, g, Shows(declaredAs[g]), DecoderOf(declaredAs[g], g)))
        BY ChannelShows
      <3> DEFINE d == declaredAs[g]
      <3>2. Agrees(d, g, blocks, sent[g])
        BY DEF SamplesInv
      <3>3. Sie!Unscaled(d) \/ Sie!Message69(d) => Sie!ReadChannel(Sie!Channels[i]) = sent[g]
        BY <3>1, <3>2, Zenon DEF Agrees, ReadsAs
      <3>4. Sie!ShortMessage(d) => Sie!ReadChannel(Sie!Channels[i]) = <<>>
        BY <3>1, <3>2, Zenon DEF Agrees, ReadsAs
      <3> QED
        BY <3>1, <3>3, <3>4, Zenon DEF Sie!ReadsWhatWasSent
    <2> QED
      BY <2>1, Zenon DEF SamplesReadBack, Sie!SamplesReadBack, Sie!ChannelsOf
  <1> QED
    BY <1>1, SamplesInit, SamplesStep, PTL DEF Sie!Spec
=============================================================================
