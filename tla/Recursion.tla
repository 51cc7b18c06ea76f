----------------------------- MODULE Recursion ------------------------------
(***************************************************************************)
(* Recursive functions over the natural numbers are well defined.  The     *)
(* library's theorem says so of any step, and the provers cannot apply it, *)
(* for the step is an operator; an instance of this module they can, one   *)
(* for each recursive function.  The same for the folds of sequences,      *)
(* which take the members from the left.                                   *)
(***************************************************************************)
EXTENDS Integers, WellFoundedInduction, TLAPS

CONSTANTS
    Base,           \* the value at 0
    Step(_, _)      \* the value at n, from that at n - 1

IsRecursive(f) == f = [n \in Nat |-> IF n = 0 THEN Base ELSE Step(f[n - 1], n)]

(* A set of numbers that holds 0 and with every number the next holds them  *)
(* all.                                                                     *)
LEMMA SetInduction ==
    ASSUME NEW S, 0 \in S, \A n \in Nat : n \in S => n + 1 \in S
    PROVE  Nat \subseteq S
  <1> DEFINE R == OpToRel(<, Nat)
             T == Nat \ S
  <1>1. IsWellFoundedOn(R, Nat)
    BY NatLessThanWellFounded
  <1>2. \A x, y \in Nat : x < y => <<x, y>> \in R
    BY DEF OpToRel
  <1>t. T \subseteq Nat /\ \A x : x \in T <=> x \in Nat /\ x \notin S
    OBVIOUS
  <1> HIDE DEF R, T
  <1>3. SUFFICES ASSUME T # {} PROVE FALSE
    BY <1>t
  <1>4. PICK x \in T : \A y \in T : <<y, x>> \notin R
    BY <1>1, <1>3, <1>t, WFMin
  <1>5. x \in Nat /\ x # 0
    BY <1>t
  <1>6. x - 1 \in Nat /\ x - 1 < x /\ (x - 1) + 1 = x
    BY <1>5
  <1>7. x - 1 \in S
    BY <1>2, <1>4, <1>5, <1>6, <1>t
  <1> QED
    BY <1>5, <1>6, <1>7, <1>t

-----------------------------------------------------------------------------
(* g obeys the equation up to m.                                            *)
ObeysTo(g, m) == g[0] = Base /\ \A i \in 1..m : g[i] = Step(g[i - 1], i)

LEMMA ObeysToExists == \A m \in Nat : \E g : ObeysTo(g, m)
  <1> DEFINE S == {m \in Nat : \E g : ObeysTo(g, m)}
  <1>1. 0 \in S
    <2>1. ObeysTo([i \in {0} |-> Base], 0)
      BY DEF ObeysTo
    <2> QED
      BY <2>1
  <1>2. ASSUME NEW m \in Nat, m \in S
        PROVE  m + 1 \in S
    <2>1. PICK g : ObeysTo(g, m)
      BY <1>2
    <2> DEFINE h == [i \in 0..(m + 1) |-> IF i = m + 1 THEN Step(g[m], m + 1) ELSE g[i]]
    <2>2. h[m + 1] = Step(g[m], m + 1) /\ \A i \in 0..m : h[i] = g[i]
      OBVIOUS
    <2> HIDE DEF h
    <2>3. h[0] = Base
      BY <2>1, <2>2 DEF ObeysTo
    <2>4. ASSUME NEW i \in 1..(m + 1)
          PROVE  h[i] = Step(h[i - 1], i)
      <3>1. i - 1 \in 0..m
        BY <2>4
      <3>2. h[i - 1] = g[i - 1]
        BY <2>2, <3>1
      <3>3. CASE i = m + 1
        <4>1. i - 1 = m
          BY <3>3
        <4> QED
          BY <2>2, <3>2, <3>3, <4>1
      <3>4. CASE i # m + 1
        <4>1. i \in 1..m /\ i \in 0..m
          BY <2>4, <3>4
        <4> QED
          BY <2>1, <2>2, <3>2, <4>1 DEF ObeysTo
      <3> QED
        BY <3>3, <3>4
    <2>5. ObeysTo(h, m + 1)
      BY <2>3, <2>4 DEF ObeysTo
    <2> QED
      BY <2>5
  <1>3. Nat \subseteq S
    <2> HIDE DEF S
    <2> QED
      BY <1>1, <1>2, SetInduction
  <1> QED
    BY <1>3

LEMMA ObeysToAgree ==
    ASSUME NEW g, NEW m \in Nat, ObeysTo(g, m), NEW h, NEW n \in Nat, ObeysTo(h, n)
    PROVE  \A i \in Nat : i <= m /\ i <= n => g[i] = h[i]
  <1> DEFINE S == {i \in Nat : i <= m /\ i <= n => g[i] = h[i]}
  <1>1. 0 \in S
    BY DEF ObeysTo
  <1>2. ASSUME NEW i \in Nat, i \in S
        PROVE  i + 1 \in S
    <2>1. SUFFICES ASSUME i + 1 <= m, i + 1 <= n
                   PROVE  g[i + 1] = h[i + 1]
      OBVIOUS
    <2>2. i + 1 \in 1..m /\ i + 1 \in 1..n /\ (i + 1) - 1 = i /\ i <= m /\ i <= n
      BY <2>1
    <2>3. g[i] = h[i]
      BY <1>2, <2>2
    <2>4. g[i + 1] = Step(g[i], i + 1)
      <3>1. g[i + 1] = Step(g[(i + 1) - 1], i + 1)
        BY <2>2 DEF ObeysTo
      <3> QED
        BY <2>2, <3>1
    <2>5. h[i + 1] = Step(h[i], i + 1)
      <3>1. h[i + 1] = Step(h[(i + 1) - 1], i + 1)
        BY <2>2 DEF ObeysTo
      <3> QED
        BY <2>2, <3>1
    <2> QED
      BY <2>3, <2>4, <2>5
  <1>3. Nat \subseteq S
    <2> HIDE DEF S
    <2> QED
      BY <1>1, <1>2, SetInduction
  <1> QED
    BY <1>3

(* A function that obeys the equation.                                      *)
LEMMA RecursiveExists == \E f : IsRecursive(f)
  <1> DEFINE G(n) == CHOOSE g : ObeysTo(g, n)
             f == [n \in Nat |-> G(n)[n]]
  <1>1. \A n \in Nat : ObeysTo(G(n), n)
    BY ObeysToExists
  <1> HIDE DEF G
  <1>2. \A n \in Nat : f[n] = G(n)[n]
    OBVIOUS
  <1>3. f[0] = Base
    BY <1>1, <1>2 DEF ObeysTo
  <1>4. ASSUME NEW n \in Nat, n # 0
        PROVE  f[n] = Step(f[n - 1], n)
    <2>1. n \in 1..n /\ n - 1 \in Nat /\ n - 1 <= n
      BY <1>4
    <2>2. G(n)[n] = Step(G(n)[n - 1], n)
      BY <1>1, <2>1 DEF ObeysTo
    <2>3. G(n)[n - 1] = G(n - 1)[n - 1]
      <3>1. ObeysTo(G(n), n) /\ ObeysTo(G(n - 1), n - 1)
        BY <1>1, <2>1
      <3> QED
        BY <2>1, <3>1, ObeysToAgree
    <2> QED
      BY <1>2, <2>1, <2>2, <2>3
  <1>5. f = [n \in Nat |-> IF n = 0 THEN Base ELSE Step(f[n - 1], n)]
    <2>1. ASSUME NEW n \in Nat
          PROVE  f[n] = IF n = 0 THEN Base ELSE Step(f[n - 1], n)
      BY <1>3, <1>4
    <2>2. f = [n \in Nat |-> f[n]]
      OBVIOUS
    <2> HIDE DEF f
    <2> QED
      BY <2>1, <2>2
  <1> HIDE DEF f
  <1> QED
    BY <1>5 DEF IsRecursive

(* Its values, one by one.                                                  *)
LEMMA RecursiveValues ==
    ASSUME NEW f, IsRecursive(f)
    PROVE  f[0] = Base /\ \A n \in Nat : f[n + 1] = Step(f[n], n + 1)
  <1>1. \A n \in Nat : f[n] = IF n = 0 THEN Base ELSE Step(f[n - 1], n)
    BY Zenon DEF IsRecursive
  <1>2. f[0] = Base
    BY <1>1
  <1>3. ASSUME NEW n \in Nat
        PROVE  f[n + 1] = Step(f[n], n + 1)
    <2>1. n + 1 \in Nat /\ n + 1 # 0 /\ (n + 1) - 1 = n
      OBVIOUS
    <2>2. f[n + 1] = Step(f[(n + 1) - 1], n + 1)
      BY <1>1, <2>1
    <2> QED
      BY <2>1, <2>2
  <1> QED
    BY <1>2, <1>3

-----------------------------------------------------------------------------
(* Folds over sequences                                                     *)

(* The largest of a set of numbers.                                         *)
Largest(s) == CHOOSE x \in s : \A y \in s : x >= y

LEMMA LargestIs ==
    ASSUME NEW s, s \subseteq Nat, NEW x \in s, \A y \in s : x >= y
    PROVE  Largest(s) = x
  <1>1. \A z \in s : (\A y \in s : z >= y) => z = x
    BY Z3
  <1> QED
    BY <1>1, Zenon DEF Largest

(* Folding a sequence from the left, as FoldLeft of the community modules   *)
(* does: over the sets of its indices, the largest index last.              *)
Fold(iter, base, seq, s) == IF s = {} THEN base ELSE Step(iter[s \ {Largest(s)}], seq[Largest(s)])
IsFold(iter, base, seq, S) == iter = [s \in SUBSET S |-> Fold(iter, base, seq, s)]
Folded(base, seq) == (CHOOSE iter : IsFold(iter, base, seq, DOMAIN seq))[DOMAIN seq]

LEMMA FoldExists ==
    ASSUME NEW base, NEW seq
    PROVE  \A m \in Nat : \E iter : IsFold(iter, base, seq, 1..m)
  <1> DEFINE P == {m \in Nat : \E iter : IsFold(iter, base, seq, 1..m)}
  <1>1. 0 \in P
    <2> DEFINE it == [s \in SUBSET (1..0) |-> base]
    <2>1. \A s \in SUBSET (1..0) : s = {}
      OBVIOUS
    <2>2. \A s \in SUBSET (1..0) : Fold(it, base, seq, s) = base
      BY <2>1 DEF Fold
    <2>3. it = [s \in SUBSET (1..0) |-> Fold(it, base, seq, s)]
      <3> HIDE DEF Fold
      <3> QED
        BY <2>2
    <2>4. IsFold(it, base, seq, 1..0)
      BY <2>3, Zenon DEF IsFold
    <2> QED
      BY <2>4
  <1>2. ASSUME NEW m \in Nat, m \in P
        PROVE  m + 1 \in P
    <2>1. PICK g : IsFold(g, base, seq, 1..m)
      BY <1>2
    <2> DEFINE S == SUBSET (1..m)
               T == SUBSET (1..(m + 1))
               it == [s \in T |-> IF m + 1 \in s THEN Step(g[s \ {m + 1}], seq[m + 1]) ELSE g[s]]
    <2>2. \A s \in S : g[s] = Fold(g, base, seq, s)
      BY <2>1, Zenon DEF IsFold
    <2>3. \A s \in T : m + 1 \notin s => s \in S
      OBVIOUS
    <2>4. \A s \in T : m + 1 \in s => s \ {m + 1} \in S /\ Largest(s) = m + 1 /\ s # {}
      <3> TAKE s \in T
      <3> HAVE m + 1 \in s
      <3>1. s \subseteq Nat /\ \A y \in s : m + 1 >= y
        OBVIOUS
      <3>2. Largest(s) = m + 1
        BY <3>1, LargestIs
      <3> QED
        BY <3>2
    <2>5. \A s \in T : m + 1 \in s => it[s] = Step(g[s \ {m + 1}], seq[m + 1])
      OBVIOUS
    <2>6. \A s \in T : m + 1 \notin s => it[s] = g[s]
      OBVIOUS
    <2>i. it = [s \in T |-> it[s]]
      OBVIOUS
    <2>s. \A s \in S : s \in T /\ m + 1 \notin s
      OBVIOUS
    <2>l. \A s \in S : s # {} => s \ {Largest(s)} \in S
      OBVIOUS
    <2> HIDE DEF it, S, T
    <2>7. ASSUME NEW s \in T
          PROVE  it[s] = Fold(it, base, seq, s)
      <3>1. CASE m + 1 \in s
        <4> DEFINE u == s \ {m + 1}
        <4>1. u \in S /\ Largest(s) = m + 1 /\ s # {}
          BY <2>4, <3>1
        <4> HIDE DEF u
        <4>2. it[u] = g[u]
          BY <2>6, <2>s, <4>1
        <4>3. it[s] = Step(g[u], seq[m + 1])
          BY <2>5, <3>1 DEF u
        <4>4. Fold(it, base, seq, s) = Step(it[u], seq[m + 1])
          BY <4>1, Zenon DEF Fold, u
        <4> QED
          BY <4>2, <4>3, <4>4
      <3>2. CASE m + 1 \notin s
        <4>1. s \in S
          BY <2>3, <3>2
        <4>2. it[s] = g[s]
          BY <2>6, <3>2
        <4>3. CASE s = {}
          <5>1. g[s] = base /\ Fold(it, base, seq, s) = base
            BY <2>2, <4>1, <4>3 DEF Fold
          <5> QED
            BY <4>2, <5>1
        <4>4. CASE s # {}
          <5> DEFINE u == s \ {Largest(s)}
          <5>1. u \in S
            BY <2>l, <4>1, <4>4
          <5> HIDE DEF u
          <5>2. it[u] = g[u]
            BY <2>6, <2>s, <5>1
          <5>3. g[s] = Step(g[u], seq[Largest(s)])
            BY <2>2, <4>1, <4>4, Zenon DEF Fold, u
          <5>4. Fold(it, base, seq, s) = Step(it[u], seq[Largest(s)])
            BY <4>4, Zenon DEF Fold, u
          <5> QED
            BY <4>2, <5>2, <5>3, <5>4
        <4> QED
          BY <4>3, <4>4
      <3> QED
        BY <3>1, <3>2
    <2>8. it = [s \in T |-> Fold(it, base, seq, s)]
      <3> HIDE DEF Fold
      <3> QED
        BY <2>7, <2>i
    <2>9. IsFold(it, base, seq, 1..(m + 1))
      BY <2>8, Zenon DEF IsFold, T
    <2> QED
      BY <2>9
  <1>3. Nat \subseteq P
    <2> HIDE DEF P
    <2> QED
      BY <1>1, <1>2, SetInduction
  <1> QED
    BY <1>3

(* A fold takes the members one by one.                                     *)
LEMMA FoldedIs ==
    ASSUME NEW base, NEW seq, NEW n \in Nat, DOMAIN seq = 1..n,
           NEW f, f[0] = base, \A i \in 1..n : f[i] = Step(f[i - 1], seq[i])
    PROVE  Folded(base, seq) = f[n]
  <1> DEFINE iter == CHOOSE it : IsFold(it, base, seq, 1..n)
             P == {m \in Nat : m <= n => iter[1..m] = f[m]}
  <1>1. IsFold(iter, base, seq, 1..n)
    BY FoldExists
  <1>2. Folded(base, seq) = iter[1..n]
    BY Zenon DEF Folded
  <1> HIDE DEF iter
  <1>3. \A s \in SUBSET (1..n) : iter[s] = Fold(iter, base, seq, s)
    BY <1>1, Zenon DEF IsFold
  <1>4. 0 \in P
    <2>1. 1..0 = {} /\ {} \in SUBSET (1..n)
      OBVIOUS
    <2>2. iter[{}] = base
      BY <1>3, <2>1 DEF Fold
    <2> QED
      BY <2>1, <2>2
  <1>5. ASSUME NEW m \in Nat, m \in P
        PROVE  m + 1 \in P
    <2>1. SUFFICES ASSUME m + 1 <= n
                   PROVE  iter[1..(m + 1)] = f[m + 1]
      OBVIOUS
    <2> DEFINE s == 1..(m + 1)
    <2>2. s \in SUBSET (1..n) /\ s # {} /\ s \ {m + 1} = 1..m /\ m <= n /\ m + 1 \in 1..n /\ (m + 1) - 1 = m
      BY <2>1
    <2>3. Largest(s) = m + 1
      <3>1. s \subseteq Nat /\ m + 1 \in s /\ \A y \in s : m + 1 >= y
        OBVIOUS
      <3> HIDE DEF s
      <3> QED
        BY <3>1, LargestIs
    <2>4. iter[1..m] = f[m]
      BY <1>5, <2>2
    <2> HIDE DEF s
    <2>5. iter[s] = Step(iter[1..m], seq[m + 1])
      BY <1>3, <2>2, <2>3 DEF Fold
    <2>6. f[m + 1] = Step(f[m], seq[m + 1])
      <3>1. f[m + 1] = Step(f[(m + 1) - 1], seq[m + 1])
        BY <2>2
      <3> QED
        BY <2>2, <3>1
    <2> QED
      BY <2>4, <2>5, <2>6 DEF s
  <1>6. Nat \subseteq P
    <2> HIDE DEF P
    <2> QED
      BY <1>4, <1>5, SetInduction
  <1> QED
    BY <1>2, <1>6
=============================================================================
