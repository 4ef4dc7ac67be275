------------------------------ MODULE Induction ------------------------------
(***************************************************************************)
(* Induction over the naturals and over sequences, stated of sets: the     *)
(* theorems of the library take an operator, which cannot be instantiated  *)
(* in a proof; a set can.                                                  *)
(***************************************************************************)
EXTENDS Naturals, Sequences, TLAPS, WellFoundedInduction

LessThan == {e \in Nat \X Nat : e[1] < e[2]}

LEMMA LessThanWellFounded == IsWellFoundedOn(LessThan, Nat)
<1>1. LessThan = OpToRel(<, Nat)
  BY DEF LessThan, OpToRel
<1> QED
  BY <1>1, NatLessThanWellFounded

\* Every nonempty set of naturals has a least element: the least counterexample of
\* the proofs that follow by induction.
LEMMA LeastElement ==
  ASSUME NEW T, T \subseteq Nat, T # {}
  PROVE  \E n \in T : \A m \in T : n <= m
<1>1. PICK n \in T : \A m \in T : <<m, n>> \notin LessThan
  BY LessThanWellFounded, WFMin, Zenon
<1>2. ASSUME NEW m \in T PROVE n <= m
  <2>1. <<m, n>> \notin LessThan /\ n \in Nat /\ m \in Nat
    BY <1>1
  <2>2. ~(m < n)
    BY <2>1 DEF LessThan
  <2> QED
    BY <2>1, <2>2
<1> QED
  BY <1>2

\* A nonempty set has an element that is least in a first measure and, among
\* those, in a second: the least counterexample of a nested recursion.
LEMMA LeastPair ==
  ASSUME NEW T, T # {}, NEW p, NEW q, \A a \in T : p[a] \in Nat /\ q[a] \in Nat
  PROVE  \E a \in T : \A b \in T : p[a] < p[b] \/ (p[a] = p[b] /\ q[a] <= q[b])
<1> DEFINE P == {p[a] : a \in T}
<1>1. PICK m \in P : \A x \in P : m <= x
  <2>1. P \subseteq Nat /\ P # {}
    OBVIOUS
  <2> HIDE DEF P
  <2> QED
    BY <2>1, LeastElement
<1> DEFINE U == {a \in T : p[a] = m}
           Q == {q[a] : a \in U}
<1>2. PICK k \in Q : \A x \in Q : k <= x
  <2>1. Q \subseteq Nat /\ Q # {}
    OBVIOUS
  <2> HIDE DEF Q
  <2> QED
    BY <2>1, LeastElement
<1>3. PICK a \in U : q[a] = k
  OBVIOUS
<1>4. ASSUME NEW b \in T PROVE p[a] < p[b] \/ (p[a] = p[b] /\ q[a] <= q[b])
  <2>1. p[a] = m /\ p[b] \in Nat /\ m \in Nat /\ m <= p[b]
    BY <1>1
  <2>2. p[b] = m => q[a] <= q[b]
    BY <1>2, <1>3
  <2> QED
    BY <2>1, <2>2
<1> QED
  BY <1>4

\* A sequence that is not empty is another one with an item appended.
LEMMA LastItem ==
  ASSUME NEW S, NEW h \in Seq(S), Len(h) # 0
  PROVE  \E g \in Seq(S), i \in S : h = Append(g, i) /\ Len(g) = Len(h) - 1
<1> DEFINE g == [n \in 1..(Len(h) - 1) |-> h[n]]
<1>1. g \in Seq(S) /\ Len(g) = Len(h) - 1 /\ h[Len(h)] \in S
  OBVIOUS
<1>2. h = Append(g, h[Len(h)])
  OBVIOUS
<1> QED
  BY <1>1, <1>2

\* A set of sequences that holds the empty one and is closed under Append holds all.
LEMMA SequenceInduction ==
  ASSUME NEW S, NEW T, <<>> \in T, \A h \in Seq(S), i \in S : h \in T => Append(h, i) \in T
  PROVE  Seq(S) \subseteq T
<1> DEFINE Bad == {n \in Nat : \E h \in Seq(S) : Len(h) = n /\ h \notin T}
<1> SUFFICES ASSUME Bad # {} PROVE FALSE
  <2>1. \A h \in Seq(S) : Len(h) \in Nat
    OBVIOUS
  <2> QED
    BY <2>1
<1>1. PICK n \in Bad : \A m \in Bad : n <= m
  BY LeastElement
<1>2. PICK h \in Seq(S) : Len(h) = n /\ h \notin T
  OBVIOUS
<1>3. Len(h) # 0
  BY <1>2
<1>4. PICK g \in Seq(S), i \in S : h = Append(g, i) /\ Len(g) = Len(h) - 1
  BY <1>3, LastItem
<1>5. g \notin T
  BY <1>2, <1>4
<1>6. n - 1 \in Bad
  BY <1>2, <1>3, <1>4, <1>5
<1> QED
  BY <1>1, <1>6
=============================================================================
