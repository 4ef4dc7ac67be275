--------------------------- MODULE AlgebraProofs ----------------------------
(***************************************************************************)
(* What the normalization of preconditions keeps, for every set of         *)
(* variables, every width and every list of facts.                         *)
(***************************************************************************)
EXTENDS Algebra, SequenceTheorems, TLAPS

Summary == [nonzero : BOOLEAN, power : BOOLEAN, zeros : Values, ones : Values,
            cmps : SUBSET Predicates, at : Nat]

AlgebraTypeOK ==
  /\ given \in Seq(Facts) /\ normal \in Seq(Facts)
  /\ next \in 1..(Len(given) + 2)
  /\ known \in [Vars -> Summary]
  /\ conflicts \subseteq Vars /\ derived \subseteq Facts

\* The facts read so far.
Read == IF next > Len(given) THEN Len(given) ELSE next - 1
Done == {given[k] : k \in 1..Read}

\* Where a variable has known bits in the list.
SpotsHold == \A x \in Vars : known[x].at # 0 =>
  /\ known[x].at \in 1..Len(normal)
  /\ normal[known[x].at] \in KnownBits /\ normal[known[x].at].name = x

\* The summary of a variable says what the facts read say of it.
Sums(S, x, k) ==
  /\ k.nonzero <=> NonZero(x) \in S
  /\ k.power <=> \E z \in BOOLEAN : Power(x, z) \in S
  /\ \A p \in Predicates : p \in k.cmps <=> Sign(x, p) \in S
  /\ k.zeros = Zeros(S, x) /\ k.ones = Ones(S, x)

Overlap(S, x) == Zeros(S, x) \cap Ones(S, x) # {}

SumsHold == \A x \in Vars : Sums(Done, x, known[x])

Gathered ==
  IF Concluded
  THEN /\ conflicts = {x \in Vars : Overlap(Done, x) \/ Clashes(x)}
       /\ derived = UNION {Follows(x) : x \in Vars}
  ELSE conflicts = {x \in Vars : Overlap(Done, x)} /\ derived = {}

Satisfies(S, e) == \A f \in S : Holds(f, e)
StrictOnly(S) == \A f \in S \cap PowerOfTwo : ~f.orZero
UnmixedOnly(S) == \A f, g \in S \cap PowerOfTwo : f.name = g.name => f.orZero = g.orZero

ListHolds == \A e \in Envs :
  /\ Satisfies(Done, e) => Satisfies(Members(normal), e)
  /\ UnmixedOnly(Done) => (Satisfies(Members(normal), e) => Satisfies(Done, e))

AlgebraInv == /\ AlgebraTypeOK
              /\ seen = {Key(f) : f \in Done}
              /\ SpotsHold /\ SumsHold /\ Gathered /\ ListHolds

-----------------------------------------------------------------------------
(* Facts. *)

\* The five kinds of facts differ in their op.
LEMMA Kinds ==
  ASSUME NEW f \in Facts
  PROVE  /\ f \in NotEq <=> f.op = "not-eq"
         /\ f \in Cmp <=> f.op = "cmp"
         /\ f \in PowerOfTwo <=> f.op = "power-of-two"
         /\ f \in KnownBits <=> f.op = "known-bits"
         /\ f \in Pairs <=> f.op \in {"mask-pair", "addr-diseq"}
<1>1. CASE f \in NotEq
  BY <1>1 DEF NotEq, Cmp, PowerOfTwo, KnownBits, Pairs
<1>2. CASE f \in Cmp
  BY <1>2 DEF NotEq, Cmp, PowerOfTwo, KnownBits, Pairs
<1>3. CASE f \in PowerOfTwo
  BY <1>3 DEF NotEq, Cmp, PowerOfTwo, KnownBits, Pairs
<1>4. CASE f \in KnownBits
  BY <1>4 DEF NotEq, Cmp, PowerOfTwo, KnownBits, Pairs
<1>5. CASE f \in Pairs
  BY <1>5 DEF NotEq, Cmp, PowerOfTwo, KnownBits, Pairs
<1> QED
  BY <1>1, <1>2, <1>3, <1>4, <1>5 DEF Facts

\* A fact is what the constructor of its kind makes of its fields.
LEMMA Forms ==
  ASSUME NEW f \in Facts
  PROVE  /\ f \in NotEq => f.name \in Vars /\ f = NonZero(f.name)
         /\ f \in Cmp => f.name \in Vars /\ f.predicate \in Predicates
                         /\ f = Sign(f.name, f.predicate)
         /\ f \in PowerOfTwo => f.name \in Vars /\ f.orZero \in BOOLEAN
                                /\ f = Power(f.name, f.orZero)
         /\ f \in KnownBits => f.name \in Vars /\ f.zero \in Values /\ f.one \in Values
                               /\ f = Known(f.name, f.zero, f.one)
<1>1. f \in NotEq => f.name \in Vars /\ f = NonZero(f.name)
  BY DEF NotEq, NonZero
<1>2. f \in Cmp => f.name \in Vars /\ f.predicate \in Predicates /\ f = Sign(f.name, f.predicate)
  BY DEF Cmp, Sign
<1>3. f \in PowerOfTwo => f.name \in Vars /\ f.orZero \in BOOLEAN /\ f = Power(f.name, f.orZero)
  BY DEF PowerOfTwo, Power
<1>4. f \in KnownBits => f.name \in Vars /\ f.zero \in Values /\ f.one \in Values
                         /\ f = Known(f.name, f.zero, f.one)
  BY DEF KnownBits, Known
<1> QED
  BY <1>1, <1>2, <1>3, <1>4

\* What each kind of fact says.
LEMMA Says ==
  ASSUME NEW f \in Facts, NEW e
  PROVE  /\ f \in NotEq => (Holds(f, e) <=> e[f.name] # {})
         /\ f \in Cmp => (Holds(f, e) <=> Compares(f.predicate, e[f.name]))
         /\ f \in PowerOfTwo =>
              (Holds(f, e) <=> SingleBit(e[f.name]) \/ (f.orZero /\ e[f.name] = {}))
         /\ f \in KnownBits =>
              (Holds(f, e) <=> e[f.name] \cap f.zero = {} /\ f.one \subseteq e[f.name])
<1>1. f \in NotEq => (Holds(f, e) <=> e[f.name] # {})
  BY Kinds DEF Holds
<1>2. f \in Cmp => (Holds(f, e) <=> Compares(f.predicate, e[f.name]))
  BY Kinds DEF Holds
<1>3. f \in PowerOfTwo => (Holds(f, e) <=> SingleBit(e[f.name]) \/ (f.orZero /\ e[f.name] = {}))
  BY Kinds DEF Holds
<1>4. f \in KnownBits => (Holds(f, e) <=> e[f.name] \cap f.zero = {} /\ f.one \subseteq e[f.name])
  BY Kinds DEF Holds
<1> QED
  BY <1>1, <1>2, <1>3, <1>4

\* Two facts share a key only if they are the same, or ask for a power of two of
\* one variable, or relate one pair in both orders.
LEMMA SharedKey ==
  ASSUME NEW f \in Facts, NEW g \in Facts, Key(f) = Key(g)
  PROVE  \/ f = g
         \/ f \in PowerOfTwo /\ g \in PowerOfTwo /\ f.name = g.name
         \/ /\ f \in Pairs /\ g \in Pairs /\ f.op = g.op
            /\ \/ f.left = g.left /\ f.right = g.right
               \/ f.left = g.right /\ f.right = g.left
<1> DEFINE P(h) == [op |-> h.op, name |-> h.name]
           Q(h) == [op |-> h.op, sides |-> {h.left, h.right}]
<1>1. Key(f).op = f.op /\ Key(g).op = g.op
  BY DEF Key
<1>2. f.op = g.op
  BY <1>1
<1>3. CASE f \in PowerOfTwo
  <2>1. g \in PowerOfTwo
    BY <1>2, <1>3, Kinds
  <2>2. Key(f) = P(f) /\ Key(g) = P(g)
    BY <1>3, <2>1, Kinds DEF Key
  <2>3. P(f).name = P(g).name
    BY <2>2
  <2> QED
    BY <1>3, <2>1, <2>3
<1>4. CASE f \in Pairs
  <2>1. g \in Pairs
    BY <1>2, <1>4, Kinds
  <2>2. f.op # "power-of-two"
    BY <1>4, Kinds
  <2>3. Key(f) = Q(f) /\ Key(g) = Q(g)
    BY <1>2, <1>4, <2>1, <2>2 DEF Key
  <2>4. Q(f).sides = Q(g).sides
    BY <2>3
  <2>5. {f.left, f.right} = {g.left, g.right}
    BY <2>4
  <2>6. \/ f.left = g.left /\ f.right = g.right
        \/ f.left = g.right /\ f.right = g.left
    BY <2>5
  <2> QED
    BY <1>2, <1>4, <2>1, <2>6
<1>5. CASE f \notin PowerOfTwo /\ f \notin Pairs
  <2>1. f.op # "power-of-two" /\ g.op # "power-of-two" /\ g \notin Pairs
    BY <1>2, <1>5, Kinds
  <2> QED
    BY <1>5, <2>1 DEF Key
<1> QED
  BY <1>3, <1>4, <1>5

-----------------------------------------------------------------------------
(* The summaries. *)

\* A bit is in the masks of a variable if a fact about it puts it there.
Counts(f, x) == f \in KnownBits /\ f.name = x /\ Consistent(f)

LEMMA InMasks ==
  \A S, x, b : /\ b \in Zeros(S, x) <=> \E f \in S : Counts(f, x) /\ b \in f.zero
               /\ b \in Ones(S, x) <=> \E f \in S : Counts(f, x) /\ b \in f.one
<1> SUFFICES ASSUME NEW S, NEW x, NEW b
             PROVE /\ b \in Zeros(S, x) <=> \E f \in S : Counts(f, x) /\ b \in f.zero
                   /\ b \in Ones(S, x) <=> \E f \in S : Counts(f, x) /\ b \in f.one
  OBVIOUS
<1>1. b \in Zeros(S, x) <=> \E f \in S : Counts(f, x) /\ b \in f.zero
  BY Zenon DEF Zeros, Counts
<1>2. b \in Ones(S, x) <=> \E f \in S : Counts(f, x) /\ b \in f.one
  BY Zenon DEF Ones, Counts
<1> QED
  BY <1>1, <1>2

\* One more fact adds its masks to those of its variable, if they do not overlap.
LEMMA MasksGrow ==
  \A S, f, x :
    /\ Counts(f, x) => /\ Zeros(S \cup {f}, x) = Zeros(S, x) \cup f.zero
                       /\ Ones(S \cup {f}, x) = Ones(S, x) \cup f.one
    /\ ~Counts(f, x) => /\ Zeros(S \cup {f}, x) = Zeros(S, x)
                        /\ Ones(S \cup {f}, x) = Ones(S, x)
<1> SUFFICES ASSUME NEW S, NEW f, NEW x
             PROVE /\ Counts(f, x) => /\ Zeros(S \cup {f}, x) = Zeros(S, x) \cup f.zero
                                      /\ Ones(S \cup {f}, x) = Ones(S, x) \cup f.one
                   /\ ~Counts(f, x) => /\ Zeros(S \cup {f}, x) = Zeros(S, x)
                                       /\ Ones(S \cup {f}, x) = Ones(S, x)
  OBVIOUS
<1>1. ASSUME NEW b
      PROVE /\ b \in Zeros(S \cup {f}, x) <=> b \in Zeros(S, x) \/ (Counts(f, x) /\ b \in f.zero)
            /\ b \in Ones(S \cup {f}, x) <=> b \in Ones(S, x) \/ (Counts(f, x) /\ b \in f.one)
  <2>1. b \in Zeros(S \cup {f}, x) <=> \E g \in S \cup {f} : Counts(g, x) /\ b \in g.zero
    BY InMasks, Zenon
  <2>2. b \in Ones(S \cup {f}, x) <=> \E g \in S \cup {f} : Counts(g, x) /\ b \in g.one
    BY InMasks, Zenon
  <2>3. b \in Zeros(S, x) <=> \E g \in S : Counts(g, x) /\ b \in g.zero
    BY InMasks, Zenon
  <2>4. b \in Ones(S, x) <=> \E g \in S : Counts(g, x) /\ b \in g.one
    BY InMasks, Zenon
  <2> QED
    BY <2>1, <2>2, <2>3, <2>4
<1>2. CASE Counts(f, x)
  <2>1. Zeros(S \cup {f}, x) = Zeros(S, x) \cup f.zero
    BY <1>1, <1>2
  <2>2. Ones(S \cup {f}, x) = Ones(S, x) \cup f.one
    BY <1>1, <1>2
  <2> QED
    BY <1>2, <2>1, <2>2
<1>3. CASE ~Counts(f, x)
  <2>1. Zeros(S \cup {f}, x) = Zeros(S, x)
    BY <1>1, <1>3
  <2>2. Ones(S \cup {f}, x) = Ones(S, x)
    BY <1>1, <1>3
  <2> QED
    BY <1>3, <2>1, <2>2
<1> QED
  BY <1>2, <1>3

\* Reading a fact updates the summary of its variable to what all facts read say.
LEMMA LearnedSums ==
  ASSUME NEW S, NEW f \in Facts, f \notin Pairs, NEW k \in Summary, Sums(S, f.name, k), NEW n \in Nat
  PROVE  Learned(f, k, n) \in Summary /\ Sums(S \cup {f}, f.name, Learned(f, k, n))
<1> DEFINE m == Learned(f, k, n)
           x == f.name
<1>0. x \in Vars
  BY Forms DEF Facts
<1>1. CASE f \in NotEq
  <2>1. m = [k EXCEPT !.nonzero = TRUE] /\ f = NonZero(x)
    BY <1>1, Forms DEF Learned
  <2>2. /\ m \in Summary /\ m.nonzero /\ m.power = k.power /\ m.cmps = k.cmps
        /\ m.zeros = k.zeros /\ m.ones = k.ones
    BY <2>1 DEF Summary
  <2>3. (\A z \in BOOLEAN : f # Power(x, z)) /\ \A p \in Predicates : f # Sign(x, p)
    BY <2>1 DEF NonZero, Power, Sign
  <2>4. ~Counts(f, x)
    BY <1>1, Kinds DEF Counts
  <2>5. Zeros(S \cup {f}, x) = Zeros(S, x) /\ Ones(S \cup {f}, x) = Ones(S, x)
    BY <2>4, MasksGrow
  <2>6. m.nonzero <=> NonZero(x) \in S \cup {f}
    BY <2>1, <2>2
  <2>7. m.power <=> \E z \in BOOLEAN : Power(x, z) \in S \cup {f}
    BY <2>2, <2>3 DEF Sums
  <2>8. \A p \in Predicates : p \in m.cmps <=> Sign(x, p) \in S \cup {f}
    BY <2>2, <2>3 DEF Sums
  <2> QED
    BY <2>2, <2>5, <2>6, <2>7, <2>8 DEF Sums
<1>2. CASE f \in Cmp
  <2>1. /\ m = [k EXCEPT !.cmps = @ \cup {f.predicate}]
        /\ f = Sign(x, f.predicate) /\ f.predicate \in Predicates
    BY <1>2, Forms, Kinds DEF Learned
  <2>2. /\ m \in Summary /\ m.nonzero = k.nonzero /\ m.power = k.power
        /\ m.cmps = k.cmps \cup {f.predicate}
        /\ m.zeros = k.zeros /\ m.ones = k.ones
    BY <2>1 DEF Summary
  <2>3. /\ \A z \in BOOLEAN : f # Power(x, z)
        /\ f # NonZero(x)
        /\ \A p \in Predicates : f = Sign(x, p) <=> p = f.predicate
    BY <2>1 DEF NonZero, Power, Sign
  <2>4. ~Counts(f, x)
    BY <1>2, Kinds DEF Counts
  <2>5. Zeros(S \cup {f}, x) = Zeros(S, x) /\ Ones(S \cup {f}, x) = Ones(S, x)
    BY <2>4, MasksGrow
  <2> QED
    BY <2>1, <2>2, <2>3, <2>5 DEF Sums
<1>3. CASE f \in PowerOfTwo
  <2>1. /\ m = [k EXCEPT !.power = TRUE]
        /\ f = Power(x, f.orZero) /\ f.orZero \in BOOLEAN
    BY <1>3, Forms, Kinds DEF Learned
  <2>2. /\ m \in Summary /\ m.nonzero = k.nonzero /\ m.power /\ m.cmps = k.cmps
        /\ m.zeros = k.zeros /\ m.ones = k.ones
    BY <2>1 DEF Summary
  <2>3. f # NonZero(x) /\ \A p \in Predicates : f # Sign(x, p)
    BY <2>1 DEF NonZero, Power, Sign
  <2>4. ~Counts(f, x)
    BY <1>3, Kinds DEF Counts
  <2>5. Zeros(S \cup {f}, x) = Zeros(S, x) /\ Ones(S \cup {f}, x) = Ones(S, x)
    BY <2>4, MasksGrow
  <2>6. \E z \in BOOLEAN : Power(x, z) \in S \cup {f}
    BY <2>1
  <2> QED
    BY <2>2, <2>3, <2>5, <2>6 DEF Sums
<1>4. CASE f \in KnownBits
  <2>0. f \notin NotEq /\ f \notin Cmp /\ f \notin PowerOfTwo
    BY <1>4, Kinds
  <2>1. f = Known(x, f.zero, f.one) /\ f.zero \in Values /\ f.one \in Values
    BY <1>4, Forms
  <2>2. /\ f # NonZero(x)
        /\ (\A z \in BOOLEAN : f # Power(x, z)) /\ \A p \in Predicates : f # Sign(x, p)
    BY <2>1 DEF NonZero, Power, Sign, Known
  <2>3. /\ m \in Summary /\ m.nonzero = k.nonzero /\ m.power = k.power /\ m.cmps = k.cmps
        /\ m.zeros = k.zeros \cup (IF Consistent(f) THEN f.zero ELSE {})
        /\ m.ones = k.ones \cup (IF Consistent(f) THEN f.one ELSE {})
    BY <2>0, <2>1 DEF Learned, Summary, Values
  <2>4. /\ Zeros(S \cup {f}, x) = Zeros(S, x) \cup (IF Consistent(f) THEN f.zero ELSE {})
        /\ Ones(S \cup {f}, x) = Ones(S, x) \cup (IF Consistent(f) THEN f.one ELSE {})
    <3>1. Counts(f, x) <=> Consistent(f)
      BY <1>4 DEF Counts
    <3>2. CASE Consistent(f)
      BY <3>1, <3>2, MasksGrow
    <3>3. CASE ~Consistent(f)
      BY <3>1, <3>3, MasksGrow
    <3> QED
      BY <3>2, <3>3
  <2> QED
    BY <2>2, <2>3, <2>4 DEF Sums
<1> QED
  BY <1>1, <1>2, <1>3, <1>4 DEF Facts

\* The summaries of the other variables are not concerned.
LEMMA OthersKeepSums ==
  ASSUME NEW S, NEW f \in Facts, NEW x \in Vars, f \in Pairs \/ f.name # x, NEW k, Sums(S, x, k)
  PROVE  Sums(S \cup {f}, x, k)
<1>1. f # NonZero(x) /\ (\A z \in BOOLEAN : f # Power(x, z)) /\ \A p \in Predicates : f # Sign(x, p)
  <2>1. CASE f \in Pairs
    BY <2>1 DEF Pairs, NonZero, Power, Sign
  <2>2. CASE f.name # x
    BY <2>2 DEF NonZero, Power, Sign
  <2> QED
    BY <2>1, <2>2
<1>2. ~Counts(f, x)
  BY Kinds DEF Counts
<1>3. Zeros(S \cup {f}, x) = Zeros(S, x) /\ Ones(S \cup {f}, x) = Ones(S, x)
  BY <1>2, MasksGrow
<1> QED
  BY <1>1, <1>3 DEF Sums

\* A fact whose key was met before, unless it says something weaker, adds nothing.
LEMMA RepeatSums ==
  ASSUME NEW S, NEW f \in Facts, NEW g \in S, g \in Facts, Key(f) = Key(g), NEW x \in Vars, NEW k,
         Sums(S, x, k)
  PROVE  Sums(S \cup {f}, x, k)
<1>1. CASE f = g
  <2>1. S \cup {f} = S
    BY <1>1
  <2> QED
    BY <2>1
<1>2. CASE f \in Pairs
  BY <1>2, OthersKeepSums
<1>3. CASE f \in PowerOfTwo /\ g \in PowerOfTwo /\ f.name = g.name
  <2>1. CASE f.name # x
    BY <2>1, OthersKeepSums
  <2>2. CASE f.name = x
    <3>1. /\ f = Power(x, f.orZero) /\ f.orZero \in BOOLEAN
          /\ g = Power(x, g.orZero) /\ g.orZero \in BOOLEAN
      BY <1>3, <2>2, Forms
    <3>2. f # NonZero(x) /\ \A p \in Predicates : f # Sign(x, p)
      BY <3>1 DEF NonZero, Power, Sign
    <3>3. ~Counts(f, x)
      BY <1>3, Kinds DEF Counts
    <3>4. Zeros(S \cup {f}, x) = Zeros(S, x) /\ Ones(S \cup {f}, x) = Ones(S, x)
      BY <3>3, MasksGrow
    <3>5. (\E z \in BOOLEAN : Power(x, z) \in S) /\ (\E z \in BOOLEAN : Power(x, z) \in S \cup {f})
      BY <3>1
    <3> QED
      BY <3>2, <3>4, <3>5 DEF Sums
  <2> QED
    BY <2>1, <2>2
<1> QED
  BY <1>1, <1>2, <1>3, SharedKey

-----------------------------------------------------------------------------
(* The steps. *)

\* The facts read are facts.
LEMMA DoneFacts ==
  ASSUME AlgebraTypeOK
  PROVE  Len(given) \in Nat /\ Read \in 0..Len(given) /\ Done \subseteq Facts
<1>1. Len(given) \in Nat /\ \A k \in 1..Len(given) : given[k] \in Facts
  BY LenProperties, ElementOfSeq DEF AlgebraTypeOK
<1>2. Read \in 0..Len(given)
  BY <1>1 DEF AlgebraTypeOK, Read
<1> QED
  BY <1>1, <1>2 DEF Done

\* Reading one more fact.
LEMMA DoneGrows ==
  ASSUME AlgebraTypeOK, next <= Len(given), next' = next + 1, given' = given
  PROVE  Fact \in Facts /\ Done' = Done \cup {Fact} /\ ~Concluded /\ ~Concluded'
<1>1. next \in 1..Len(given) /\ Len(given) \in Nat
  BY DoneFacts DEF AlgebraTypeOK
<1>2. Fact \in Facts
  BY <1>1, ElementOfSeq DEF Fact, AlgebraTypeOK
<1>3. Read = next - 1 /\ Read' = next
  BY <1>1 DEF Read
<1>4. 1..next = (1..(next - 1)) \cup {next}
  BY <1>1
<1>5. Done' = Done \cup {Fact}
  BY <1>3, <1>4 DEF Done, Fact
<1> QED
  BY <1>1, <1>2, <1>5 DEF Concluded

LEMMA AlgebraInit ==
  ASSUME AlgebraStart, given \in Seq(Facts)
  PROVE  AlgebraInv
<1>1. Len(given) \in Nat
  BY LenProperties
<1>2. Read = 0
  BY <1>1 DEF AlgebraStart, Read
<1>3. Done = {}
  BY <1>2 DEF Done
<1>4. AlgebraTypeOK
  <2>1. Nothing \in Summary
    BY DEF Nothing, Summary, Values
  <2> QED
    BY <1>1, <2>1 DEF AlgebraStart, AlgebraTypeOK
<1>5. \A x \in Vars : Zeros(Done, x) = {} /\ Ones(Done, x) = {}
  BY <1>3 DEF Zeros, Ones
<1>6. SpotsHold
  BY DEF AlgebraStart, SpotsHold, Nothing
<1>7. SumsHold
  BY <1>3, <1>5 DEF AlgebraStart, SumsHold, Sums, Nothing
<1>8. Gathered
  BY <1>1, <1>5 DEF AlgebraStart, Gathered, Overlap, Concluded
<1>9. ListHolds
  BY <1>3 DEF AlgebraStart, ListHolds, Satisfies, Members
<1> QED
  BY <1>3, <1>4, <1>6, <1>7, <1>8, <1>9 DEF AlgebraStart, AlgebraInv

\* What was gathered stays what the facts read come to.
LEMMA GatheredGrows ==
  ASSUME AlgebraInv, next <= Len(given), next' = next + 1, given' = given, derived' = derived,
         \A x \in Vars : Sums(Done', x, known'[x]),
         conflicts' = {x \in Vars : x \in conflicts \/ known'[x].zeros \cap known'[x].ones # {}},
         \A x \in Vars : Overlap(Done, x) => Overlap(Done', x)
  PROVE  Gathered'
<1>1. ~Concluded /\ ~Concluded'
  BY DoneGrows DEF AlgebraInv
<1>2. conflicts = {x \in Vars : Overlap(Done, x)} /\ derived = {}
  BY <1>1 DEF AlgebraInv, Gathered
<1>3. \A x \in Vars : known'[x].zeros \cap known'[x].ones # {} <=> Overlap(Done', x)
  BY DEF Sums, Overlap
<1>4. conflicts' = {x \in Vars : Overlap(Done', x)}
  BY <1>2, <1>3
<1> QED
  BY <1>1, <1>2, <1>4 DEF Gathered, Overlap, Zeros, Ones

\* A fact says what its repetition under the same key says, unless one of them
\* admits zero and the other does not.
LEMMA SameSaid ==
  ASSUME NEW f \in Facts, NEW g \in Facts, Key(f) = Key(g),
         f \in PowerOfTwo /\ g \in PowerOfTwo /\ f.name = g.name => f.orZero = g.orZero,
         NEW e, Holds(g, e)
  PROVE  Holds(f, e)
<1>1. CASE f = g
  BY <1>1
<1>2. CASE f \in PowerOfTwo /\ g \in PowerOfTwo /\ f.name = g.name
  BY <1>2, Says
<1>3. CASE /\ f \in Pairs /\ g \in Pairs /\ f.op = g.op
           /\ \/ f.left = g.left /\ f.right = g.right
              \/ f.left = g.right /\ f.right = g.left
  <2>1. f.op \in {"mask-pair", "addr-diseq"}
    BY <1>3, Kinds
  <2>2. e[f.left] \cap e[f.right] = e[g.left] \cap e[g.right]
    BY <1>3
  <2>3. e[f.left] # e[f.right] <=> e[g.left] # e[g.right]
    BY <1>3
  <2> QED
    BY <1>3, <2>1, <2>2, <2>3 DEF Holds
<1> QED
  BY <1>1, <1>2, <1>3, SharedKey

\* Learning a fact keeps the summaries what the facts read say.
LEMMA LearnKeepsSums ==
  ASSUME AlgebraInv, next <= Len(given), Fact \notin Pairs,
         known' = [known EXCEPT ![Fact.name] = Learned(Fact, known[Fact.name], Len(normal) + 1)],
         Fact \in Facts
  PROVE  /\ known' \in [Vars -> Summary]
         /\ \A x \in Vars : Sums(Done \cup {Fact}, x, known'[x])
<1> DEFINE y == Fact.name
           m == Learned(Fact, known[y], Len(normal) + 1)
<1>1. y \in Vars
  BY Forms DEF Facts
<1>2. known \in [Vars -> Summary] /\ known[y] \in Summary
  BY <1>1 DEF AlgebraInv, AlgebraTypeOK
<1>3. Sums(Done, y, known[y])
  BY <1>1 DEF AlgebraInv, SumsHold
<1>4. Len(normal) + 1 \in Nat
  BY LenProperties DEF AlgebraInv, AlgebraTypeOK
<1>5. m \in Summary /\ Sums(Done \cup {Fact}, y, m)
  BY <1>2, <1>3, <1>4, LearnedSums
<1>6. known' \in [Vars -> Summary] /\ known'[y] = m
  BY <1>1, <1>2, <1>5
<1>7. ASSUME NEW x \in Vars, x # y
      PROVE Sums(Done \cup {Fact}, x, known'[x])
  <2>1. known'[x] = known[x]
    BY <1>2, <1>7
  <2>2. Sums(Done, x, known[x])
    BY DEF AlgebraInv, SumsHold
  <2> QED
    BY <1>7, <2>1, <2>2, OthersKeepSums
<1> QED
  BY <1>5, <1>6, <1>7

\* The masks of a variable only grow.
LEMMA OverlapStays ==
  \A S, f, x : Overlap(S, x) => Overlap(S \cup {f}, x)
<1> SUFFICES ASSUME NEW S, NEW f, NEW x, Overlap(S, x)
             PROVE Overlap(S \cup {f}, x)
  OBVIOUS
<1>1. CASE Counts(f, x)
  BY <1>1, MasksGrow DEF Overlap
<1>2. CASE ~Counts(f, x)
  BY <1>2, MasksGrow DEF Overlap
<1> QED
  BY <1>1, <1>2

\* A dropped fact changes nothing that is said.
LEMMA RepeatKeeps ==
  ASSUME AlgebraInv, next <= Len(given), next' = next + 1, UNCHANGED <<given, derived>>, Repeat
  PROVE  AlgebraInv'
<1>1. Fact \in Facts /\ Done' = Done \cup {Fact} /\ Done \subseteq Facts
  BY DoneGrows, DoneFacts DEF AlgebraInv
<1>2. UNCHANGED <<normal, seen, known, conflicts>>
  BY DEF Repeat
<1>3. PICK g \in Done : Key(g) = Key(Fact)
  BY DEF Repeat, AlgebraInv
<1>4. AlgebraTypeOK'
  BY <1>2, DoneFacts DEF AlgebraInv, AlgebraTypeOK
<1>5. seen' = {Key(f) : f \in Done'}
  BY <1>1, <1>2, <1>3 DEF AlgebraInv
<1>6. SpotsHold'
  BY <1>2 DEF AlgebraInv, SpotsHold
<1>7. ASSUME NEW x \in Vars
      PROVE Sums(Done', x, known'[x]) /\ (Overlap(Done', x) <=> Overlap(Done, x))
  <2>1. Sums(Done, x, known[x])
    BY DEF AlgebraInv, SumsHold
  <2>2. Sums(Done \cup {Fact}, x, known[x])
    BY <1>1, <1>3, <2>1, RepeatSums
  <2> QED
    BY <1>1, <1>2, <2>1, <2>2 DEF Sums, Overlap
<1>8. SumsHold'
  BY <1>7 DEF SumsHold, Sums, Zeros, Ones
<1>9. Gathered'
  <2>1. \A x \in Vars : Overlap(Done, x) <=> known[x].zeros \cap known[x].ones # {}
    BY DEF AlgebraInv, SumsHold, Sums, Overlap
  <2>2. conflicts = {x \in Vars : Overlap(Done, x)}
    BY DoneGrows DEF AlgebraInv, Gathered
  <2>3. conflicts' = {x \in Vars : x \in conflicts \/ known'[x].zeros \cap known'[x].ones # {}}
    BY <1>2, <2>1, <2>2
  <2> QED
    BY <1>7, <2>3, GatheredGrows
<1>10. ListHolds'
  <2> SUFFICES ASSUME NEW e \in Envs
               PROVE /\ Satisfies(Done', e) => Satisfies(Members(normal)', e)
                     /\ UnmixedOnly(Done') => (Satisfies(Members(normal)', e) => Satisfies(Done', e))
    BY DEF ListHolds, Satisfies, UnmixedOnly
  <2>1. Members(normal)' = Members(normal)
    BY <1>2 DEF Members
  <2>2. Satisfies(Done', e) => Satisfies(Done, e)
    BY <1>1 DEF Satisfies
  <2>3. UnmixedOnly(Done') => UnmixedOnly(Done)
    BY <1>1 DEF UnmixedOnly
  <2>4. ASSUME UnmixedOnly(Done'), Satisfies(Done, e)
        PROVE Satisfies(Done', e)
    <3>1. Fact \in PowerOfTwo /\ g \in PowerOfTwo /\ Fact.name = g.name => Fact.orZero = g.orZero
      BY <1>1, <1>3, <2>4 DEF UnmixedOnly
    <3>2. Holds(g, e)
      BY <1>3, <2>4 DEF Satisfies
    <3>3. Holds(Fact, e)
      BY <1>1, <1>3, <3>1, <3>2, SameSaid
    <3> QED
      BY <1>1, <2>4, <3>3 DEF Satisfies
  <2> QED
    BY <2>1, <2>2, <2>3, <2>4 DEF AlgebraInv, ListHolds
<1> QED
  BY <1>4, <1>5, <1>6, <1>8, <1>9, <1>10 DEF AlgebraInv

\* What is gathered when a fact is learned.
LEMMA LearnGathers ==
  ASSUME AlgebraInv, next <= Len(given), next' = next + 1, UNCHANGED <<given, derived>>,
         Fact \notin Pairs, Learn(Fact)
  PROVE  /\ known' \in [Vars -> Summary]
         /\ \A x \in Vars : Sums(Done', x, known'[x])
         /\ Gathered'
<1> DEFINE y == Fact.name
           m == Learned(Fact, known[y], Len(normal) + 1)
<1>1. /\ Fact \in Facts /\ Done' = Done \cup {Fact}
      /\ conflicts = {x \in Vars : Overlap(Done, x)}
  BY DoneGrows DEF AlgebraInv, Gathered
<1>2. y \in Vars
  BY <1>1, Forms DEF Facts
<1>3. known' = [known EXCEPT ![y] = m]
  BY DEF Learn
<1>4. known' \in [Vars -> Summary] /\ \A x \in Vars : Sums(Done', x, known'[x])
  BY <1>1, <1>3, LearnKeepsSums
<1>5. known \in [Vars -> Summary] /\ known'[y] = m /\ \A x \in Vars : x # y => known'[x] = known[x]
  BY <1>2, <1>3 DEF AlgebraInv, AlgebraTypeOK
<1>6. conflicts' = IF Fact \in KnownBits /\ Consistent(Fact) /\ m.zeros \cap m.ones # {}
                   THEN conflicts \cup {y} ELSE conflicts
  BY DEF Learn
<1>7. \A x \in Vars : Overlap(Done, x) <=> known[x].zeros \cap known[x].ones # {}
  BY DEF AlgebraInv, SumsHold, Sums, Overlap
<1>8. ~(Fact \in KnownBits /\ Consistent(Fact)) => m.zeros = known[y].zeros /\ m.ones = known[y].ones
  <2>1. Sums(Done, y, known[y]) /\ Sums(Done', y, m)
    BY <1>2, <1>4, <1>5 DEF AlgebraInv, SumsHold
  <2>2. ASSUME ~(Fact \in KnownBits /\ Consistent(Fact))
        PROVE Zeros(Done', y) = Zeros(Done, y) /\ Ones(Done', y) = Ones(Done, y)
    <3>1. ~Counts(Fact, y)
      BY <2>2 DEF Counts
    <3>2. /\ Zeros(Done \cup {Fact}, y) = Zeros(Done, y)
          /\ Ones(Done \cup {Fact}, y) = Ones(Done, y)
      BY <3>1, MasksGrow, Zenon
    <3> QED
      BY <1>1, <3>2
  <2> QED
    BY <2>1, <2>2 DEF Sums
<1>9. \A x \in Vars : Overlap(Done, x) => Overlap(Done', x)
  BY <1>1, OverlapStays
<1>10. \A x \in Vars : known'[x].zeros \cap known'[x].ones # {} <=> Overlap(Done', x)
  BY <1>4 DEF Sums, Overlap
<1>11. conflicts' = {x \in Vars : x \in conflicts \/ known'[x].zeros \cap known'[x].ones # {}}
  <2>1. ASSUME NEW x \in Vars, x # y
        PROVE x \in conflicts' <=> x \in conflicts \/ known'[x].zeros \cap known'[x].ones # {}
    BY <1>1, <1>5, <1>6, <1>7, <2>1
  <2>2. y \in conflicts' <=> y \in conflicts \/ known'[y].zeros \cap known'[y].ones # {}
    <3>1. CASE Fact \in KnownBits /\ Consistent(Fact)
      BY <1>2, <1>5, <1>6, <3>1
    <3>2. CASE ~(Fact \in KnownBits /\ Consistent(Fact))
      BY <1>1, <1>2, <1>5, <1>6, <1>7, <1>8, <3>2
    <3> QED
      BY <3>1, <3>2
  <2>3. conflicts' \subseteq Vars
    BY <1>1, <1>2, <1>6
  <2> QED
    BY <1>1, <2>1, <2>2, <2>3
<1>12. Gathered'
  BY <1>4, <1>9, <1>11, GatheredGrows
<1> QED
  BY <1>4, <1>12

\* A fact that is appended is said besides what was said.
LEMMA KeepKeeps ==
  ASSUME AlgebraInv, next <= Len(given), next' = next + 1, UNCHANGED <<given, derived>>, Keep
  PROVE  AlgebraInv'
<1> DEFINE y == Fact.name
<1>1. Fact \in Facts /\ Done' = Done \cup {Fact} /\ Done \subseteq Facts
  BY DoneGrows, DoneFacts DEF AlgebraInv
<1>2. normal \in Seq(Facts) /\ Len(normal) \in Nat /\ normal' = Append(normal, Fact)
  BY LenProperties DEF Keep, AlgebraInv, AlgebraTypeOK
<1>3. /\ normal' \in Seq(Facts) /\ Len(normal') = Len(normal) + 1
      /\ \A k \in 1..Len(normal) : normal'[k] = normal[k]
      /\ normal'[Len(normal) + 1] = Fact
  BY <1>1, <1>2, AppendProperties
<1>4. /\ known' \in [Vars -> Summary]
      /\ \A x \in Vars : Sums(Done', x, known'[x])
      /\ Gathered'
  <2>1. CASE Fact \in Pairs
    <3>1. UNCHANGED <<known, conflicts>>
      BY <2>1 DEF Keep
    <3>2. \A x \in Vars : Sums(Done, x, known[x])
      BY DEF AlgebraInv, SumsHold
    <3>3. \A x \in Vars : Sums(Done', x, known'[x])
      BY <1>1, <2>1, <3>1, <3>2, OthersKeepSums
    <3>4. conflicts = {x \in Vars : Overlap(Done, x)}
      BY DoneGrows DEF AlgebraInv, Gathered
    <3>5. conflicts' = {x \in Vars : x \in conflicts \/ known'[x].zeros \cap known'[x].ones # {}}
      BY <3>1, <3>2, <3>4 DEF Sums, Overlap
    <3>6. \A x \in Vars : Overlap(Done, x) => Overlap(Done', x)
      BY <1>1, OverlapStays
    <3>7. Gathered'
      BY <3>3, <3>5, <3>6, GatheredGrows
    <3> QED
      BY <3>1, <3>3, <3>7 DEF AlgebraInv, AlgebraTypeOK
  <2>2. CASE Fact \notin Pairs
    <3>1. Learn(Fact)
      BY <2>2 DEF Keep
    <3> QED
      BY <2>2, <3>1, LearnGathers
  <2> QED
    BY <2>1, <2>2
<1>5. AlgebraTypeOK'
  <2>1. Len(given) \in Nat /\ next' \in 1..(Len(given') + 2)
    BY DoneFacts DEF AlgebraInv, AlgebraTypeOK
  <2>2. conflicts' \subseteq Vars
    BY <1>4 DEF Gathered
  <2> QED
    BY <1>3, <1>4, <2>1, <2>2 DEF AlgebraInv, AlgebraTypeOK
<1>6. seen' = {Key(f) : f \in Done'}
  BY <1>1 DEF Keep, AlgebraInv
<1>7. SpotsHold'
  <2> SUFFICES ASSUME NEW x \in Vars, known'[x].at # 0
               PROVE /\ known'[x].at \in 1..Len(normal')
                     /\ normal'[known'[x].at] \in KnownBits /\ normal'[known'[x].at].name = x
    BY DEF SpotsHold
  <2>1. known[x].at # 0 => /\ known[x].at \in 1..Len(normal)
                           /\ normal[known[x].at] \in KnownBits /\ normal[known[x].at].name = x
    BY DEF AlgebraInv, SpotsHold
  <2>2. CASE known'[x].at = known[x].at
    BY <1>2, <1>3, <2>1, <2>2
  <2>3. CASE known'[x].at # known[x].at
    <3>1. Fact \notin Pairs /\ Learn(Fact) /\ y \in Vars
      BY <1>1, <2>3, Forms DEF Keep, Facts
    <3>2. known' = [known EXCEPT ![y] = Learned(Fact, known[y], Len(normal) + 1)]
      BY <3>1 DEF Learn
    <3>3. x = y /\ known'[y] = Learned(Fact, known[y], Len(normal) + 1)
      BY <2>3, <3>1, <3>2 DEF AlgebraInv, AlgebraTypeOK
    <3>4. known[y] \in Summary
      BY <3>1 DEF AlgebraInv, AlgebraTypeOK
    <3>5. Fact \in KnownBits /\ known'[y].at = Len(normal) + 1
      <4>1. Fact \notin NotEq /\ Fact \notin Cmp /\ Fact \notin PowerOfTwo
        BY <2>3, <3>3, <3>4 DEF Learned, Summary
      <4> QED
        BY <1>1, <2>3, <3>1, <3>3, <3>4, <4>1 DEF Learned, Summary, Facts
    <3> QED
      BY <1>2, <1>3, <3>3, <3>5
  <2> QED
    BY <2>2, <2>3
<1>8. SumsHold'
  BY <1>4 DEF SumsHold, Sums, Zeros, Ones
<1>9. ListHolds'
  <2> SUFFICES ASSUME NEW e \in Envs
               PROVE /\ Satisfies(Done', e) => Satisfies(Members(normal'), e)
                     /\ UnmixedOnly(Done') => (Satisfies(Members(normal'), e) => Satisfies(Done', e))
    BY DEF ListHolds, Satisfies, UnmixedOnly, Members
  <2>1. Members(normal') = Members(normal) \cup {Fact}
    <3>1. DOMAIN normal = 1..Len(normal) /\ DOMAIN normal' = 1..(Len(normal) + 1)
      BY <1>2, <1>3, LenProperties
    <3>2. 1..(Len(normal) + 1) = (1..Len(normal)) \cup {Len(normal) + 1}
      BY <1>2
    <3> QED
      BY <1>3, <3>1, <3>2 DEF Members
  <2>2. \A S : Satisfies(S \cup {Fact}, e) <=> Satisfies(S, e) /\ Holds(Fact, e)
    BY DEF Satisfies
  <2>3. UnmixedOnly(Done') => UnmixedOnly(Done)
    BY <1>1 DEF UnmixedOnly
  <2> QED
    BY <1>1, <2>1, <2>2, <2>3 DEF AlgebraInv, ListHolds
<1> QED
  BY <1>4, <1>5, <1>6, <1>7, <1>8, <1>9 DEF AlgebraInv

\* Known bits merged into an earlier fact of their variable are said besides.
LEMMA MergeKeeps ==
  ASSUME AlgebraInv, next <= Len(given), next' = next + 1, UNCHANGED <<given, derived>>, Merge
  PROVE  AlgebraInv'
<1> DEFINE y == Fact.name
           n == known[y].at
           both == Known(y, normal[n].zero \cup Fact.zero, normal[n].one \cup Fact.one)
<1>1. Fact \in Facts /\ Done' = Done \cup {Fact} /\ Done \subseteq Facts
  BY DoneGrows, DoneFacts DEF AlgebraInv
<1>2. Fact \in KnownBits /\ Fact \notin Pairs /\ Consistent(Fact) /\ n # 0
  BY <1>1, Kinds DEF Merge, Merges
<1>3. y \in Vars /\ Fact.zero \in Values /\ Fact.one \in Values
  BY <1>1, <1>2, Forms
<1>4. n \in 1..Len(normal) /\ normal[n] \in KnownBits /\ normal[n].name = y
  BY <1>2, <1>3 DEF AlgebraInv, SpotsHold
<1>5. normal \in Seq(Facts) /\ Len(normal) \in Nat /\ normal[n] \in Facts
  BY <1>4, LenProperties, ElementOfSeq DEF AlgebraInv, AlgebraTypeOK
<1>6. normal[n].zero \in Values /\ normal[n].one \in Values
  BY <1>4, <1>5, Forms
<1>7. both \in KnownBits /\ both \in Facts
  BY <1>3, <1>6 DEF Known, KnownBits, Facts, Values
<1>8. normal' = [normal EXCEPT ![n] = both]
  BY DEF Merge
<1>9. normal' \in Seq(Facts) /\ Len(normal') = Len(normal)
  BY <1>4, <1>5, <1>7, <1>8, ExceptSeq
<1>10. /\ DOMAIN normal = 1..Len(normal) /\ DOMAIN normal' = 1..Len(normal)
       /\ normal'[n] = both /\ \A k \in 1..Len(normal) : k # n => normal'[k] = normal[k]
  BY <1>4, <1>5, <1>8, <1>9, LenProperties
<1>11. /\ known' \in [Vars -> Summary]
       /\ \A x \in Vars : Sums(Done', x, known'[x])
       /\ Gathered'
  BY <1>2, LearnGathers DEF Merge
<1>12. AlgebraTypeOK'
  <2>1. Len(given) \in Nat /\ next' \in 1..(Len(given') + 2)
    BY DoneFacts DEF AlgebraInv, AlgebraTypeOK
  <2>2. conflicts' \subseteq Vars
    BY <1>11 DEF Gathered
  <2> QED
    BY <1>9, <1>11, <2>1, <2>2 DEF AlgebraInv, AlgebraTypeOK
<1>13. seen' = {Key(f) : f \in Done'}
  BY <1>1 DEF Merge, AlgebraInv
<1>14. SpotsHold'
  <2>1. known' = [known EXCEPT ![y] = Learned(Fact, known[y], Len(normal) + 1)]
    BY DEF Merge, Learn
  <2>2. known[y] \in Summary /\ Fact \notin NotEq /\ Fact \notin Cmp /\ Fact \notin PowerOfTwo
    BY <1>1, <1>2, <1>3, Kinds DEF AlgebraInv, AlgebraTypeOK
  <2>3. Learned(Fact, known[y], Len(normal) + 1).at = n
    BY <1>2, <2>2 DEF Learned, Summary
  <2>4. \A x \in Vars : known'[x].at = known[x].at
    BY <1>3, <2>1, <2>3 DEF AlgebraInv, AlgebraTypeOK
  <2>5. both.name = y
    BY DEF Known
  <2> SUFFICES ASSUME NEW x \in Vars, known'[x].at # 0
               PROVE /\ known'[x].at \in 1..Len(normal')
                     /\ normal'[known'[x].at] \in KnownBits /\ normal'[known'[x].at].name = x
    BY DEF SpotsHold
  <2>6. /\ known[x].at \in 1..Len(normal)
        /\ normal[known[x].at] \in KnownBits /\ normal[known[x].at].name = x
    BY <2>4 DEF AlgebraInv, SpotsHold
  <2>7. CASE known[x].at = n
    BY <1>4, <1>7, <1>9, <1>10, <2>4, <2>5, <2>6, <2>7
  <2>8. CASE known[x].at # n
    BY <1>9, <1>10, <2>4, <2>6, <2>8
  <2> QED
    BY <2>7, <2>8
<1>15. SumsHold'
  BY <1>11 DEF SumsHold, Sums, Zeros, Ones
<1>16. ListHolds'
  <2> SUFFICES ASSUME NEW e \in Envs
               PROVE /\ Satisfies(Done', e) => Satisfies(Members(normal'), e)
                     /\ UnmixedOnly(Done') => (Satisfies(Members(normal'), e) => Satisfies(Done', e))
    BY DEF ListHolds, Satisfies, UnmixedOnly, Members
  <2>1. Holds(both, e) <=> Holds(normal[n], e) /\ Holds(Fact, e)
    <3>1. Holds(both, e) <=> e[y] \cap (normal[n].zero \cup Fact.zero) = {}
                             /\ normal[n].one \cup Fact.one \subseteq e[y]
      BY <1>7, Says DEF Known
    <3>2. Holds(normal[n], e) <=> e[y] \cap normal[n].zero = {} /\ normal[n].one \subseteq e[y]
      BY <1>4, <1>5, Says
    <3>3. Holds(Fact, e) <=> e[y] \cap Fact.zero = {} /\ Fact.one \subseteq e[y]
      BY <1>1, <1>2, Says
    <3> QED
      BY <3>1, <3>2, <3>3
  <2>2. Satisfies(Members(normal'), e) <=> Satisfies(Members(normal), e) /\ Holds(Fact, e)
    <3>1. Satisfies(Members(normal), e) <=> \A k \in 1..Len(normal) : Holds(normal[k], e)
      BY <1>10 DEF Satisfies, Members
    <3>2. Satisfies(Members(normal'), e) <=> \A k \in 1..Len(normal) : Holds(normal'[k], e)
      BY <1>10 DEF Satisfies, Members
    <3> QED
      BY <1>4, <1>10, <2>1, <3>1, <3>2
  <2>3. \A S : Satisfies(S \cup {Fact}, e) <=> Satisfies(S, e) /\ Holds(Fact, e)
    BY DEF Satisfies
  <2>4. UnmixedOnly(Done') => UnmixedOnly(Done)
    BY <1>1 DEF UnmixedOnly
  <2> QED
    BY <1>1, <2>2, <2>3, <2>4 DEF AlgebraInv, ListHolds
<1> QED
  BY <1>11, <1>12, <1>13, <1>14, <1>15, <1>16 DEF AlgebraInv

LEMMA ConcludeKeeps ==
  ASSUME AlgebraInv, Conclude
  PROVE  AlgebraInv'
<1>1. Len(given) \in Nat /\ next = Len(given) + 1 /\ next' = Len(given) + 2
  BY DoneFacts DEF Conclude
<1>2. UNCHANGED <<given, normal, seen, known>>
  BY DEF Conclude
<1>3. Read = Len(given) /\ Read' = Len(given) /\ Done' = Done
  <2>1. Read = Len(given) /\ Read' = Len(given)
    BY <1>1, <1>2 DEF Read
  <2> QED
    BY <1>2, <2>1 DEF Done
<1>4. ~Concluded /\ Concluded'
  BY <1>1, <1>2 DEF Concluded
<1>5. conflicts = {x \in Vars : Overlap(Done, x)}
  BY <1>4 DEF AlgebraInv, Gathered
<1>6. conflicts' = {x \in Vars : Overlap(Done, x) \/ Clashes(x)} /\ derived' = UNION {Follows(x) : x \in Vars}
  BY <1>5 DEF Conclude
<1>7. \A x \in Vars : (Clashes(x))' <=> Clashes(x)
  BY <1>2 DEF Clashes
<1>8. Gathered'
  BY <1>2, <1>3, <1>4, <1>6 DEF Gathered, Clashes, Follows, Overlap
<1>9. \A x \in Vars : Follows(x) \subseteq Facts
  BY DEF Follows, Facts, NotEq, Cmp, NonZero, Sign, Predicates
<1>10. derived' \subseteq Facts
  <2> SUFFICES ASSUME NEW f \in derived' PROVE f \in Facts
    OBVIOUS
  <2>1. PICK x \in Vars : f \in Follows(x)
    BY <1>6
  <2> QED
    BY <1>9, <2>1
<1>11. AlgebraTypeOK'
  <2>1. conflicts' \subseteq Vars
    BY <1>6
  <2> QED
    BY <1>1, <1>2, <1>10, <2>1 DEF AlgebraInv, AlgebraTypeOK
<1>12. seen' = {Key(f) : f \in Done'} /\ SpotsHold' /\ SumsHold'
  <2>1. SpotsHold'
    BY <1>2 DEF AlgebraInv, SpotsHold
  <2>2. SumsHold'
    BY <1>2, <1>3 DEF AlgebraInv, SumsHold, Sums, Zeros, Ones
  <2> QED
    BY <1>2, <1>3, <2>1, <2>2 DEF AlgebraInv
<1>13. ListHolds'
  BY <1>2, <1>3 DEF AlgebraInv, ListHolds, Satisfies, UnmixedOnly, Members
<1> QED
  BY <1>8, <1>11, <1>12, <1>13 DEF AlgebraInv

\* Every step of the normalization keeps its invariant.
LEMMA AlgebraStep ==
  ASSUME AlgebraInv, Absorb \/ Conclude
  PROVE  AlgebraInv'
<1>1. CASE Absorb
  <2>1. next <= Len(given) /\ next' = next + 1 /\ UNCHANGED <<given, derived>>
    BY <1>1 DEF Absorb
  <2>2. CASE Repeat
    BY <2>1, <2>2, RepeatKeeps
  <2>3. CASE Merge
    BY <2>1, <2>3, MergeKeeps
  <2>4. CASE Keep
    BY <2>1, <2>4, KeepKeeps
  <2> QED
    BY <1>1, <2>2, <2>3, <2>4 DEF Absorb
<1>2. CASE Conclude
  BY <1>2, ConcludeKeeps
<1> QED
  BY <1>1, <1>2

LEMMA AlgebraStutter ==
  ASSUME AlgebraInv, UNCHANGED algebraVars
  PROVE  AlgebraInv'
<1>1. /\ given' = given /\ next' = next /\ normal' = normal /\ seen' = seen
      /\ known' = known /\ conflicts' = conflicts /\ derived' = derived
  BY DEF algebraVars
<1>2. Done' = Done /\ (Concluded' <=> Concluded)
  BY <1>1 DEF Done, Read, Concluded
<1>3. AlgebraTypeOK' /\ SpotsHold'
  BY <1>1 DEF AlgebraInv, AlgebraTypeOK, SpotsHold
<1>4. SumsHold'
  BY <1>1, <1>2 DEF AlgebraInv, SumsHold, Sums, Zeros, Ones
<1>5. Gathered'
  BY <1>1, <1>2 DEF AlgebraInv, Gathered, Clashes, Follows, Overlap, Zeros, Ones
<1>6. ListHolds'
  BY <1>1, <1>2 DEF AlgebraInv, ListHolds, Satisfies, UnmixedOnly, Members
<1> QED
  BY <1>1, <1>2, <1>3, <1>4, <1>5, <1>6 DEF AlgebraInv

-----------------------------------------------------------------------------
(* What a contradiction and a derived fact mean. *)

\* Every fact is read or still to be read.
LEMMA DoneAndRest ==
  ASSUME AlgebraTypeOK
  PROVE  /\ Members(given) = Done \cup Rest
         /\ Concluded => Members(given) = Done
         /\ Members(given) \subseteq Facts
<1>1. Len(given) \in Nat /\ DOMAIN given = 1..Len(given) /\ next \in 1..(Len(given) + 2)
  BY LenProperties DEF AlgebraTypeOK
<1>2. 1..Len(given) = (1..Read) \cup (next..Len(given))
  BY <1>1 DEF Read
<1>3. Members(given) = Done \cup Rest
  BY <1>1, <1>2 DEF Members, Done, Rest
<1>4. ASSUME Concluded PROVE Members(given) = Done
  <2>1. Read = Len(given)
    <3>1. next = Len(given) + 2
      BY <1>4 DEF Concluded
    <3>2. next > Len(given)
      BY <1>1, <3>1
    <3> QED
      BY <3>2 DEF Read
  <2> QED
    BY <1>1, <2>1 DEF Members, Done
<1>5. Members(given) \subseteq Facts
  BY <1>1, ElementOfSeq DEF Members, AlgebraTypeOK
<1> QED
  BY <1>3, <1>4, <1>5

\* What satisfies the facts has the bits they ask for and none they forbid.
LEMMA MasksSaid ==
  ASSUME NEW S, S \subseteq Facts, NEW e, Satisfies(S, e), NEW x
  PROVE  e[x] \cap Zeros(S, x) = {} /\ Ones(S, x) \subseteq e[x]
<1>1. ASSUME NEW f \in S, Counts(f, x)
      PROVE e[x] \cap f.zero = {} /\ f.one \subseteq e[x]
  BY <1>1, Says DEF Satisfies, Counts
<1>2. ASSUME NEW b, b \in e[x], b \in Zeros(S, x)
      PROVE FALSE
  <2>1. PICK f \in S : Counts(f, x) /\ b \in f.zero
    BY <1>2, InMasks, Zenon
  <2> QED
    BY <1>1, <1>2, <2>1
<1>3. ASSUME NEW b, b \in Ones(S, x)
      PROVE b \in e[x]
  <2>1. PICK f \in S : Counts(f, x) /\ b \in f.one
    BY <1>3, InMasks, Zenon
  <2> QED
    BY <1>1, <2>1
<1> QED
  BY <1>2, <1>3

\* Facts that keep a variable from zero do.
LEMMA KeptSaid ==
  ASSUME NEW S, S \subseteq Facts, StrictOnly(S), NEW e, Satisfies(S, e), NEW x, KeptFromZero(S, x)
  PROVE  e[x] # {}
<1>1. PICK f \in S \cap (NotEq \cup PowerOfTwo) : f.name = x
  BY DEF KeptFromZero
<1>2. Holds(f, e) /\ f \in Facts /\ (f \in PowerOfTwo => ~f.orZero)
  BY <1>1 DEF Satisfies, StrictOnly
<1> QED
  BY <1>1, <1>2, Says DEF SingleBit

\* Facts the algebra takes for contradictory have no model.
LEMMA RefutedHasNoModel ==
  ASSUME NEW S, S \subseteq Facts, StrictOnly(S), Refuted(S), NEW e \in Envs
  PROVE  ~Satisfies(S, e)
<1> SUFFICES ASSUME Satisfies(S, e) PROVE FALSE
  OBVIOUS
<1>1. PICK x \in Vars :
        \/ Zeros(S, x) \cap Ones(S, x) # {}
        \/ KeptFromZero(S, x) /\ (Sign(x, "eq") \in S \/ Zeros(S, x) = Bits)
  BY DEF Refuted
<1>2. e[x] \cap Zeros(S, x) = {} /\ Ones(S, x) \subseteq e[x] /\ e[x] \subseteq Bits
  BY MasksSaid DEF Envs, Values
<1>3. KeptFromZero(S, x) => e[x] # {}
  BY KeptSaid
<1>4. ASSUME Sign(x, "eq") \in S PROVE e[x] = {}
  <2>1. Sign(x, "eq") \in Cmp /\ Sign(x, "eq").predicate = "eq" /\ Sign(x, "eq").name = x
    BY DEF Sign, Cmp, Predicates
  <2>2. Holds(Sign(x, "eq"), e) /\ Sign(x, "eq") \in Facts
    BY <1>4 DEF Satisfies
  <2>3. Compares("eq", e[x])
    BY <2>1, <2>2, Says
  <2> QED
    BY <2>3 DEF Compares
<1> QED
  BY <1>1, <1>2, <1>3, <1>4

\* The summaries name what the algebra takes for contradictory.
LEMMA ClashesAre ==
  ASSUME AlgebraInv, NEW x \in Vars
  PROVE  /\ KeptFromZero(Done, x) <=> known[x].nonzero \/ known[x].power
         /\ Overlap(Done, x) \/ Clashes(x) <=>
              \/ Zeros(Done, x) \cap Ones(Done, x) # {}
              \/ KeptFromZero(Done, x) /\ (Sign(x, "eq") \in Done \/ Zeros(Done, x) = Bits)
<1>1. Sums(Done, x, known[x]) /\ Done \subseteq Facts
  BY DoneFacts DEF AlgebraInv, SumsHold
<1>2. KeptFromZero(Done, x) <=> NonZero(x) \in Done \/ \E z \in BOOLEAN : Power(x, z) \in Done
  <2>1. ASSUME KeptFromZero(Done, x)
        PROVE NonZero(x) \in Done \/ \E z \in BOOLEAN : Power(x, z) \in Done
    <3>1. PICK f \in Done \cap (NotEq \cup PowerOfTwo) : f.name = x
      BY <2>1 DEF KeptFromZero
    <3> QED
      BY <1>1, <3>1, Forms
  <2>2. NonZero(x) \in NotEq /\ NonZero(x).name = x
    BY DEF NonZero, NotEq
  <2>3. \A z \in BOOLEAN : Power(x, z) \in PowerOfTwo /\ Power(x, z).name = x
    BY DEF Power, PowerOfTwo
  <2> QED
    BY <2>1, <2>2, <2>3 DEF KeptFromZero
<1>3. KeptFromZero(Done, x) <=> known[x].nonzero \/ known[x].power
  BY <1>1, <1>2 DEF Sums
<1>4. "eq" \in known[x].cmps <=> Sign(x, "eq") \in Done
  BY <1>1 DEF Sums, Predicates
<1>5. known[x].zeros = Zeros(Done, x)
  BY <1>1 DEF Sums
<1>6. Clashes(x) <=> KeptFromZero(Done, x) /\ (Sign(x, "eq") \in Done \/ Zeros(Done, x) = Bits)
  BY <1>3, <1>4, <1>5 DEF Clashes
<1> QED
  BY <1>3, <1>6 DEF Overlap

\* The derived facts do follow.
LEMMA FollowsSaid ==
  ASSUME AlgebraInv, StrictOnly(Done), NEW e \in Envs, Satisfies(Done, e), NEW x \in Vars,
         NEW f \in Follows(x)
  PROVE  Holds(f, e)
<1>1. Done \subseteq Facts /\ Sums(Done, x, known[x])
  BY DoneFacts DEF AlgebraInv, SumsHold
<1>2. known[x].power => e[x] # {}
  BY <1>1, ClashesAre, KeptSaid
<1>3. known[x].ones # {} => e[x] # {}
  BY <1>1, MasksSaid DEF Sums
<1>4. ASSUME "sgt" \in known[x].cmps PROVE SignBit \notin e[x] /\ e[x] # {}
  <2>1. Sign(x, "sgt") \in Done
    BY <1>1, <1>4 DEF Sums, Predicates
  <2>2. /\ Sign(x, "sgt") \in Cmp /\ Sign(x, "sgt").predicate = "sgt" /\ Sign(x, "sgt").name = x
    BY DEF Sign, Cmp, Predicates
  <2>3. Compares("sgt", e[x])
    BY <1>1, <2>1, <2>2, Says DEF Satisfies
  <2> QED
    BY <2>3 DEF Compares
<1>5. f = NonZero(x) \/ f = Sign(x, "sge")
  BY DEF Follows
<1>6. CASE f = NonZero(x)
  <2>1. e[x] # {}
    BY <1>2, <1>3, <1>4 DEF Follows
  <2>2. f \in NotEq /\ f.name = x
    BY <1>6 DEF NonZero, NotEq
  <2> QED
    BY <2>1, <2>2, Says DEF Facts
<1>7. CASE f = Sign(x, "sge")
  <2>1. f # NonZero(x)
    BY <1>7 DEF Sign, NonZero
  <2>2. SignBit \notin e[x]
    BY <1>4, <2>1 DEF Follows
  <2>3. f \in Cmp /\ f.name = x /\ f.predicate = "sge"
    BY <1>7 DEF Sign, Cmp, Predicates
  <2>4. Compares("sge", e[x])
    BY <2>2 DEF Compares
  <2> QED
    BY <2>3, <2>4, Says DEF Facts
<1> QED
  BY <1>5, <1>6, <1>7
=============================================================================
