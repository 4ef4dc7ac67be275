-------------------------- MODULE DiagnosisProofs ---------------------------
(***************************************************************************)
(* What a diagnosis means, for every set of variables, every width, every  *)
(* vocabulary of atoms, every rewrite and every answer of the solver.      *)
(***************************************************************************)
EXTENDS Diagnosis, AlgebraProofs

SearchTypeOK ==
  /\ pc \in {"recover", "prove", "again", "search", "done"}
  /\ bad \subseteq Envs /\ witnesses \subseteq bad
  /\ first \in 1..N /\ second \in 0..N /\ (second # 0 => first < second)
  /\ verdict \in Statuses
  /\ guard \subseteq Atoms /\ \A c \in silent : c \subseteq Atoms

\* Where the search stands.
Stands ==
  /\ pc # "done" <=> verdict = "none"
  /\ pc # "recover" /\ verdict # "declined" => Concluded /\ conflicts = {}
  /\ pc \in {"recover", "prove", "again"} => first = 1 /\ second = 0
  /\ pc = "recover" => witnesses = {}
  /\ pc = "search" => witnesses # {}
  /\ witnesses \subseteq Models(Members(normal))

\* The combination will not do, as far as the search is concerned, if the solver
\* gave no answer on the combinations of quiet.
Hopeless(c, quiet) == c \subseteq Offered /\ Suffices(c) => SignsClash(c) \/ Open(c) \in quiet

\* The combinations already passed will not do.
Passed ==
  /\ ~Suffices({})
  /\ \A k \in 1..N : second # 0 \/ k < first => Hopeless({AtomOrder[k]}, silent)
  /\ \A k, l \in 1..N :
       k < l /\ second # 0 /\ (k < first \/ (k = first /\ l < second))
         => Hopeless({AtomOrder[k], AtomOrder[l]}, silent)

DiagnosisInv == /\ AlgebraInv
                /\ SearchTypeOK
                /\ Stands
                /\ Unmixed => (pc = "search" => Passed)
                /\ NoGuardMissed

-----------------------------------------------------------------------------
(* Atoms and combinations. *)

LEMMA AtomTypes ==
  /\ N \in Nat /\ N > 1 /\ DOMAIN AtomOrder = 1..N
  /\ \A k \in 1..N : AtomOrder[k] \in Atoms
  /\ Atoms \subseteq Facts
  /\ \A a \in Atoms \cap PowerOfTwo : ~a.orZero
  /\ \A a \in Atoms : a \notin KnownBits /\ \A x : a # Sign(x, "eq")
<1>1. N \in Nat /\ N > 1 /\ DOMAIN AtomOrder = 1..N
  BY DiagnosisAssumption, LenProperties DEF N
<1>2. \A k \in 1..N : AtomOrder[k] \in Atoms
  BY <1>1 DEF Atoms
<1>3. Atoms \subseteq Facts
  BY <1>1, DiagnosisAssumption, ElementOfSeq DEF Atoms, N
<1>4. ASSUME NEW a \in Atoms, a \in PowerOfTwo
      PROVE ~a.orZero
  <2>1. a.op = "power-of-two" /\ a \in Facts
    BY <1>3, <1>4, Kinds
  <2>2. CASE \E x \in Vars : a \in VarAtoms(x)
    BY <2>1, <2>2 DEF VarAtoms, NonZero, Sign, Power
  <2>3. CASE \E x, y \in Vars : x # y /\ a \in PairAtoms(x, y)
    BY <2>1, <2>3 DEF PairAtoms, Pair
  <2> QED
    BY <2>2, <2>3, DiagnosisAssumption
<1>5. ASSUME NEW a \in Atoms
      PROVE a \notin KnownBits /\ \A x : a # Sign(x, "eq")
  <2>1. a.op # "known-bits" /\ \A x : a # Sign(x, "eq")
    <3>1. CASE \E y \in Vars : a \in VarAtoms(y)
      BY <3>1 DEF VarAtoms, NonZero, Sign, Power
    <3>2. CASE \E y, z \in Vars : y # z /\ a \in PairAtoms(y, z)
      BY <3>2 DEF PairAtoms, Pair, Sign
    <3> QED
      BY <3>1, <3>2, DiagnosisAssumption
  <2> QED
    BY <1>3, <2>1, Kinds
<1> QED
  BY <1>1, <1>2, <1>3, <1>4, <1>5

\* Without the solver an atom is evaluated to what the solver takes it to say.
LEMMA EvaluatesSays ==
  ASSUME NEW a \in Atoms, NEW w, Evaluates(a, w)
  PROVE  Holds(a, w)
<1>1. a \in Facts
  BY AtomTypes
<1>2. CASE a.op = "power-of-two"
  BY <1>2 DEF Evaluates, Holds
<1>3. CASE a.op # "power-of-two"
  BY <1>3 DEF Evaluates, Holds
<1> QED
  BY <1>2, <1>3

\* One atom does not contradict itself by its signs.
LEMMA NoLoneClash == \A a : ~SignsClash({a})
<1> SUFFICES ASSUME NEW a, SaysNegative(a), SaysPositive(a) PROVE FALSE
  BY DEF SignsClash
<1>1. a \in Cmp /\ a.predicate = "slt"
  BY DEF SaysNegative
<1>2. a \in Facts /\ a \notin PowerOfTwo
  BY <1>1, Kinds DEF Facts
<1> QED
  BY <1>1, <1>2 DEF SaysPositive

LEMMA CombinationTypes ==
  ASSUME SearchTypeOK
  PROVE  /\ Tried \subseteq Atoms
         /\ second = 0 => Tried = {AtomOrder[first]}
         /\ second # 0 => Tried = {AtomOrder[first], AtomOrder[second]}
BY AtomTypes DEF SearchTypeOK, Tried, Combination

\* What satisfies a union of facts.
LEMMA ModelsOf ==
  \A S, T, e : e \in Models(S \cup T) <=> e \in Models(S) /\ \A f \in T : Holds(f, e)
BY DEF Models

-----------------------------------------------------------------------------
(* The normalized list in place of the recovered preconditions. *)

LEMMA GivenIs ==
  ASSUME AlgebraInv
  PROVE  /\ Given = Done \cup Rest /\ Given \subseteq Facts
         /\ Concluded => Given = Done /\ Rest = {}
         /\ Unmixed <=> UnmixedOnly(Given)
<1>1. Given = Done \cup Rest /\ Given \subseteq Facts /\ (Concluded => Given = Done)
  BY DoneAndRest DEF Given, AlgebraInv
<1>2. Concluded => Rest = {}
  <2>1. Len(given) \in Nat
    BY DoneFacts DEF AlgebraInv
  <2> QED
    BY <2>1 DEF Concluded, Rest
<1> QED
  BY <1>1, <1>2 DEF Unmixed, UnmixedOnly

LEMMA MeaningOfInv ==
  ASSUME AlgebraInv
  PROVE  MeaningKept
<1>1. Given = Done \cup Rest /\ Given \subseteq Facts /\ Done \subseteq Facts
  BY GivenIs, DoneFacts DEF AlgebraInv
<1>2. Models(Given) \subseteq Models(Members(normal) \cup Rest)
  <2> SUFFICES ASSUME NEW e \in Models(Given) PROVE e \in Models(Members(normal) \cup Rest)
    OBVIOUS
  <2>1. e \in Envs /\ Satisfies(Done, e) /\ \A f \in Rest : Holds(f, e)
    BY <1>1 DEF Models, Satisfies
  <2>2. Satisfies(Members(normal), e)
    BY <2>1 DEF AlgebraInv, ListHolds
  <2> QED
    BY <2>1, <2>2 DEF Models, Satisfies
<1>3. ASSUME Concluded PROVE conflicts # {} <=> Refuted(Given)
  <2>1. Given = Done /\ conflicts = {x \in Vars : Overlap(Done, x) \/ Clashes(x)}
    BY <1>3, GivenIs DEF AlgebraInv, Gathered
  <2>2. \A x \in Vars : Overlap(Done, x) \/ Clashes(x) <=>
              \/ Zeros(Done, x) \cap Ones(Done, x) # {}
              \/ KeptFromZero(Done, x) /\ (Sign(x, "eq") \in Done \/ Zeros(Done, x) = Bits)
    BY ClashesAre
  <2> QED
    BY <2>1, <2>2 DEF Refuted
<1>4. ASSUME Unmixed PROVE Models(Members(normal) \cup Rest) = Models(Given)
  <2>1. UnmixedOnly(Done)
    BY <1>1, <1>4 DEF Unmixed, UnmixedOnly
  <2> SUFFICES ASSUME NEW e \in Models(Members(normal) \cup Rest) PROVE e \in Models(Given)
    BY <1>2
  <2>2. e \in Envs /\ Satisfies(Members(normal), e) /\ \A f \in Rest : Holds(f, e)
    BY DEF Models, Satisfies
  <2>3. Satisfies(Done, e)
    BY <2>1, <2>2 DEF AlgebraInv, ListHolds
  <2> QED
    BY <1>1, <2>2, <2>3 DEF Models, Satisfies
<1>5. ASSUME Strict, conflicts # {} PROVE Models(Given) = {}
  <2>1. StrictOnly(Done) /\ StrictOnly(Given)
    BY <1>1, <1>5 DEF Strict, StrictOnly
  <2>2. Refuted(Done)
    <3>1. PICK x \in Vars : Overlap(Done, x) \/ Clashes(x)
      BY <1>5 DEF AlgebraInv, Gathered
    <3> QED
      BY <3>1, ClashesAre DEF Refuted
  <2>3. \A e \in Envs : ~Satisfies(Done, e)
    BY <1>1, <2>1, <2>2, RefutedHasNoModel
  <2> QED
    BY <1>1, <2>3 DEF Models, Satisfies
<1>6. ASSUME Strict, NEW f \in derived, NEW e \in Models(Given) PROVE Holds(f, e)
  <2>1. derived = UNION {Follows(x) : x \in Vars}
    BY <1>6 DEF AlgebraInv, Gathered
  <2>2. PICK x \in Vars : f \in Follows(x)
    BY <1>6, <2>1
  <2>3. StrictOnly(Done) /\ e \in Envs /\ Satisfies(Done, e)
    BY <1>1, <1>6 DEF Strict, StrictOnly, Models, Satisfies
  <2> QED
    BY <2>2, <2>3, FollowsSaid
<1> QED
  BY <1>2, <1>3, <1>4, <1>5, <1>6 DEF MeaningKept

\* Once normalized, the preconditions asked are never stronger than those recovered.
LEMMA AskedNoMore ==
  ASSUME AlgebraInv, Concluded
  PROVE  /\ \A c : Models(Given \cup c) \subseteq Premises(c)
         /\ conflicts = {} => ~Refuted(Given)
<1>1. Members(normal) \cup Rest = Members(normal)
  BY GivenIs
<1>2. Models(Given) \subseteq Models(Members(normal))
  BY <1>1, MeaningOfInv DEF MeaningKept
<1>3. \A c, e : e \in Models(Given \cup c) => e \in Premises(c)
  BY <1>2, ModelsOf DEF Premises
<1>4. conflicts = {} => ~Refuted(Given)
  BY MeaningOfInv DEF MeaningKept
<1> QED
  BY <1>3, <1>4

\* Unless queries are mixed, they are asked as they were recovered.
LEMMA Asked ==
  ASSUME AlgebraInv, Concluded, Unmixed
  PROVE  \A c : Premises(c) = Models(Given \cup c)
<1>1. Given = Done /\ Rest = {} /\ Members(normal) \cup Rest = Members(normal)
  BY GivenIs
<1>2. Models(Members(normal)) = Models(Given)
  BY <1>1, MeaningOfInv DEF MeaningKept
<1>3. ASSUME NEW c PROVE Premises(c) = Models(Given \cup c)
  <2>1. \A e : e \in Premises(c) <=> e \in Models(Given \cup c)
    BY <1>2, ModelsOf DEF Premises
  <2>2. Premises(c) \subseteq Envs /\ Models(Given \cup c) \subseteq Envs
    BY DEF Premises, Models
  <2> QED
    BY <2>1, <2>2
<1> QED
  BY <1>3

\* Whatever the preconditions, an answer is about what is asked.
LEMMA AnswerMeans ==
  ASSUME NEW c, NEW answer \in Answers(c)
  PROVE  /\ answer.status \in {"proved", "refuted", "unsupported", "error"}
         /\ answer.witness \subseteq Premises(c) \cap bad
         /\ answer.status = "refuted" <=> answer.witness # {}
         /\ answer.status = "proved" => Premises(c) # {} /\ Premises(c) \cap bad = {}
         /\ answer.status = "refuted" => Premises(c) \cap bad # {}
         /\ answer.status = "unsupported" => Premises(c) = {}
BY DEF Answers

\* Atoms that contradict preconditions which do not contradict themselves leave
\* nothing: an atom that keeps a variable from zero does.
LEMMA RefutedByAtoms ==
  ASSUME Given \subseteq Facts, ~Refuted(Given), NEW c, c \subseteq Atoms, Refuted(Given \cup c)
  PROVE  Models(Given \cup c) = {}
<1> DEFINE S == Given \cup c
<1>1. S \cap KnownBits = Given \cap KnownBits
  BY AtomTypes
<1>2. \A x : Zeros(S, x) = Zeros(Given, x) /\ Ones(S, x) = Ones(Given, x)
  BY <1>1 DEF Zeros, Ones
<1>3. PICK x \in Vars :
        \/ Zeros(S, x) \cap Ones(S, x) # {}
        \/ KeptFromZero(S, x) /\ (Sign(x, "eq") \in S \/ Zeros(S, x) = Bits)
  BY DEF Refuted
<1>4. KeptFromZero(S, x) /\ ~KeptFromZero(Given, x) /\ (Sign(x, "eq") \in Given \/ Zeros(Given, x) = Bits)
  BY <1>2, <1>3, AtomTypes DEF Refuted
<1>5. PICK f \in c \cap (NotEq \cup PowerOfTwo) : f.name = x
  BY <1>4 DEF KeptFromZero
<1>6. ASSUME NEW e \in Models(S) PROVE FALSE
  <2>1. e \in Envs /\ Satisfies(Given, e) /\ Holds(f, e) /\ f \in Facts
    BY <1>5, <1>6, AtomTypes DEF Models, Satisfies
  <2>2. e[x] # {}
    BY <1>5, <2>1, AtomTypes, Says DEF SingleBit
  <2>3. e[x] \cap Zeros(Given, x) = {} /\ e[x] \subseteq Bits
    BY <2>1, MasksSaid DEF Envs, Values
  <2>4. Sign(x, "eq") \in Given
    BY <1>4, <2>2, <2>3
  <2>5. Sign(x, "eq") \in Cmp /\ Sign(x, "eq").predicate = "eq" /\ Sign(x, "eq").name = x
    BY DEF Sign, Cmp, Predicates
  <2>6. Compares("eq", e[x])
    BY <2>1, <2>4, <2>5, Says DEF Satisfies
  <2> QED
    BY <2>2, <2>6 DEF Compares
<1> QED
  BY <1>6

\* A combination the filters throw away will not do, if none before it will.
LEMMA PrunedHopeless ==
  ASSUME AlgebraInv, SearchTypeOK, Stands, Unmixed, Passed, pc = "search", Pruned(Tried)
  PROVE  Hopeless(Tried, silent)
<1>1. /\ \A c : Premises(c) = Models(Given \cup c)
      /\ Given \subseteq Facts /\ ~Refuted(Given)
  BY Asked, AskedNoMore, GivenIs DEF Stands, Statuses
<1>2. Tried \subseteq Atoms /\ first \in 1..N /\ second \in 0..N
  BY CombinationTypes DEF SearchTypeOK
<1>3. CASE \E a \in Tried : Present(a)
  <2> SUFFICES ASSUME Tried \subseteq Offered PROVE Hopeless(Tried, silent)
    BY DEF Hopeless
  <2>1. PICK a \in Tried : Present(a)
    BY <1>3
  <2>2. a \in Given
    BY <2>1 DEF Offered
  <2>3. CASE second = 0
    <3>1. Tried = {a}
      BY <2>1, <2>3, CombinationTypes
    <3>2. Given \cup {} = Given \cup Tried
      BY <2>2, <3>1
    <3> QED
      BY <3>2 DEF Passed, Hopeless, Suffices
  <2>4. CASE second # 0
    <3>1. PICK b \in Tried : Tried = {a, b}
      BY <2>1, <2>4, CombinationTypes
    <3>2. PICK k \in 1..N : b = AtomOrder[k]
      BY <1>2, <3>1, AtomTypes DEF Atoms
    <3>3. Hopeless({b}, silent)
      BY <2>4, <3>2 DEF Passed
    <3>4. Given \cup {b} = Given \cup Tried
      BY <2>2, <3>1
    <3>5. Suffices(Tried) => Suffices({b})
      BY <3>4 DEF Suffices
    <3>6. Open({b}) = Open(Tried)
      BY <2>1, <3>1 DEF Open
    <3> QED
      BY <3>3, <3>5, <3>6, NoLoneClash DEF Hopeless
  <2> QED
    BY <2>3, <2>4
<1>4. CASE SignsClash(Tried)
  BY <1>4 DEF Hopeless
<1>5. CASE Refuted(Given \cup Tried)
  <2>1. Models(Given \cup Tried) = {}
    BY <1>1, <1>2, <1>5, RefutedByAtoms
  <2> QED
    BY <2>1 DEF Hopeless, Suffices
<1>6. CASE \E w \in witnesses : ~Excludes(Tried, w)
  <2>1. PICK w \in witnesses : \A a \in Tried : Evaluates(a, w)
    BY <1>6 DEF Excludes
  <2>2. \A a \in Tried : Holds(a, w)
    BY <1>2, <2>1, EvaluatesSays
  <2>3. w \in bad /\ w \in Models(Members(normal))
    BY DEF SearchTypeOK, Stands
  <2>4. w \in Premises(Tried)
    BY <2>2, <2>3, ModelsOf DEF Premises
  <2> QED
    BY <1>1, <2>3, <2>4 DEF Hopeless, Suffices
<1> QED
  BY <1>3, <1>4, <1>5, <1>6 DEF Pruned

\* What is recovered and where the sides differ fix what would do.
LEMMA SameMeaning ==
  ASSUME given' = given, bad' = bad
  PROVE  /\ Given' = Given /\ (Unmixed' <=> Unmixed) /\ Offered' = Offered
         /\ \A c : Open(c)' = Open(c)
         /\ \A c : Suffices(c)' <=> Suffices(c)
<1>1. Given' = Given
  BY DEF Given
<1>2. \A a : Present(a)' <=> Present(a)
  BY <1>1 DEF Present
<1>3. Offered' = Offered
  BY <1>1, <1>2 DEF Offered
<1>4. \A c : Open(c)' = Open(c)
  BY <1>2 DEF Open
<1> QED
  BY <1>1, <1>3, <1>4 DEF Unmixed, Suffices

\* The next combination is one of the vocabulary.
LEMMA AfterTypes ==
  ASSUME SearchTypeOK, ~(first = N - 1 /\ second = N),
         first' = After(first, second)[1], second' = After(first, second)[2]
  PROVE  first' \in 1..N /\ second' \in 0..N /\ (second' # 0 => first' < second')
<1>1. N \in Nat /\ N > 1 /\ first \in 1..N /\ second \in 0..N /\ (second # 0 => first < second)
  BY AtomTypes DEF SearchTypeOK
<1>2. CASE second = 0 /\ first < N
  BY <1>1, <1>2 DEF After
<1>3. CASE second = 0 /\ first = N
  BY <1>1, <1>3 DEF After
<1>4. CASE second # 0 /\ second < N
  BY <1>1, <1>4 DEF After
<1>5. CASE second # 0 /\ second = N
  BY <1>1, <1>5 DEF After
<1> QED
  BY <1>1, <1>2, <1>3, <1>4, <1>5

\* Passing one more combination.
LEMMA PassedGrows ==
  ASSUME SearchTypeOK, Passed, Hopeless(Tried, silent'), silent \subseteq silent',
         ~(first = N - 1 /\ second = N),
         first' = After(first, second)[1], second' = After(first, second)[2],
         UNCHANGED <<given, bad>>
  PROVE  Passed'
<1>1. N \in Nat /\ N > 1 /\ first \in 1..N /\ second \in 0..N /\ (second # 0 => first < second)
  BY AtomTypes DEF SearchTypeOK
<1>2. (\A c : (Suffices(c)' <=> Suffices(c)) /\ Open(c)' = Open(c)) /\ Offered' = Offered
  BY SameMeaning
<1>3. \A c : /\ Hopeless(c, silent) => Hopeless(c, silent')
             /\ Hopeless(c, silent') => Hopeless(c, silent)'
  BY <1>2 DEF Hopeless
<1>4. CASE second = 0 /\ first < N
  <2>1. first' = first + 1 /\ second' = 0
    BY <1>4 DEF After
  <2>2. Tried = {AtomOrder[first]}
    BY <1>4, CombinationTypes
  <2>3. ASSUME NEW k \in 1..N, k < first' PROVE Hopeless({AtomOrder[k]}, silent')
    BY <1>1, <1>3, <2>1, <2>2, <2>3 DEF Passed
  <2> QED
    BY <1>1, <1>2, <1>3, <1>4, <2>1, <2>3 DEF Passed
<1>5. CASE second = 0 /\ first = N
  <2>1. first' = 1 /\ second' = 2
    BY <1>1, <1>5 DEF After
  <2>2. Tried = {AtomOrder[first]}
    BY <1>5, CombinationTypes
  <2>3. ASSUME NEW k \in 1..N PROVE Hopeless({AtomOrder[k]}, silent')
    BY <1>1, <1>3, <1>5, <2>2 DEF Passed
  <2> QED
    BY <1>1, <1>2, <1>3, <2>1, <2>3 DEF Passed
<1>6. CASE second # 0
  <2>1. Tried = {AtomOrder[first], AtomOrder[second]}
    BY <1>6, CombinationTypes
  <2>2. ASSUME NEW k \in 1..N PROVE Hopeless({AtomOrder[k]}, silent')
    BY <1>3, <1>6 DEF Passed
  <2>3. CASE second < N
    <3>1. first' = first /\ second' = second + 1
      BY <1>6, <2>3 DEF After
    <3>2. ASSUME NEW k \in 1..N, NEW l \in 1..N, k < l, k < first' \/ (k = first' /\ l < second')
          PROVE  Hopeless({AtomOrder[k], AtomOrder[l]}, silent')
      BY <1>1, <1>6, <1>3, <2>1, <3>1, <3>2 DEF Passed
    <3>3. first' \in 1..N /\ second' \in 0..N /\ first' < second' /\ second' # 0
      BY <1>1, <1>6, <2>3, <3>1
    <3> QED
      BY <1>2, <1>3, <2>2, <3>2, <3>3 DEF Passed
  <2>4. CASE second = N
    <3>1. first' = first + 1 /\ second' = first + 2 /\ first + 2 <= N
      BY <1>1, <1>6, <2>4 DEF After
    <3>2. ASSUME NEW k \in 1..N, NEW l \in 1..N, k < l, k < first' \/ (k = first' /\ l < second')
          PROVE  Hopeless({AtomOrder[k], AtomOrder[l]}, silent')
      <4>1. k < first \/ k = first
        BY <1>1, <3>1, <3>2
      <4> QED
        BY <1>1, <1>6, <1>3, <2>1, <2>4, <3>2, <4>1 DEF Passed
    <3> QED
      BY <1>1, <1>2, <1>3, <2>2, <3>1, <3>2 DEF Passed
  <2> QED
    BY <1>1, <2>3, <2>4
<1> QED
  BY <1>1, <1>4, <1>5, <1>6

\* All combinations passed.
LEMMA AllPassed ==
  ASSUME NEW quiet, SearchTypeOK, Passed, silent \subseteq quiet, Hopeless(Tried, quiet), first = N - 1, second = N
  PROVE  \A a, b \in Atoms : Hopeless({a, b}, quiet)
<1>1. N \in Nat /\ N > 1 /\ second # 0
  BY AtomTypes
<1>0. \A c : Hopeless(c, silent) => Hopeless(c, quiet)
  BY DEF Hopeless
<1>2. Tried = {AtomOrder[first], AtomOrder[second]}
  BY <1>1, CombinationTypes
<1>3. ASSUME NEW k \in 1..N, NEW l \in 1..N, k < l
      PROVE Hopeless({AtomOrder[k], AtomOrder[l]}, quiet)
  <2>1. CASE k < first
    BY <1>0, <1>1, <1>3, <2>1 DEF Passed
  <2>2. CASE ~(k < first)
    <3>1. k = first /\ l = second
      BY <1>1, <1>3, <2>2
    <3> QED
      BY <1>2, <3>1
  <2> QED
    BY <2>1, <2>2
<1> SUFFICES ASSUME NEW a \in Atoms, NEW b \in Atoms PROVE Hopeless({a, b}, quiet)
  OBVIOUS
<1>4. PICK k \in 1..N : a = AtomOrder[k]
  BY AtomTypes DEF Atoms
<1>5. PICK l \in 1..N : b = AtomOrder[l]
  BY AtomTypes DEF Atoms
<1>6. CASE k < l
  BY <1>3, <1>4, <1>5, <1>6
<1>7. CASE l < k
  <2>1. {a, b} = {b, a}
    OBVIOUS
  <2> QED
    BY <1>3, <1>4, <1>5, <1>7, <2>1
<1>8. CASE k = l
  <2>1. {a, b} = {AtomOrder[k]}
    BY <1>4, <1>5, <1>8
  <2> QED
    BY <1>0, <1>1, <2>1 DEF Passed
<1> QED
  BY <1>1, <1>6, <1>7, <1>8

-----------------------------------------------------------------------------
(* The steps. *)

LEMMA DiagnosisInit == Init => DiagnosisInv
<1> SUFFICES ASSUME Init PROVE DiagnosisInv
  OBVIOUS
<1>1. PICK case \in Cases : given = case.given /\ bad = case.bad
  BY DEF Init
<1>2. given \in Seq(Facts) /\ bad \subseteq Envs
  BY <1>1, DiagnosisAssumption
<1>3. AlgebraInv
  BY <1>2, AlgebraInit DEF Init
<1>4. SearchTypeOK
  BY <1>2, AtomTypes DEF Init, SearchTypeOK, Statuses
<1>5. Stands
  BY DEF Init, Stands
<1>6. NoGuardMissed
  BY DEF Init, NoGuardMissed
<1> QED
  BY <1>3, <1>4, <1>5, <1>6 DEF Init, DiagnosisInv

\* Reading the preconditions.
LEMMA RecoverKeeps ==
  ASSUME DiagnosisInv, Recover
  PROVE  DiagnosisInv'
<1>1. pc = "recover" /\ verdict = "none" /\ UNCHANGED <<given, bad, first, second, witnesses, guard, silent>>
  BY DEF Recover, DiagnosisInv, Stands, Absorb, Conclude, algebraVars, searchVars
<1>2. AlgebraInv'
  BY AlgebraStep, AlgebraStutter DEF Recover, DiagnosisInv
<1>3. CASE (Absorb \/ Conclude) /\ UNCHANGED <<pc, verdict>>
  <2>1. SearchTypeOK'
    BY <1>1, <1>3 DEF DiagnosisInv, SearchTypeOK
  <2>2. Stands'
    BY <1>1, <1>3 DEF DiagnosisInv, Stands
  <2>3. NoGuardMissed'
    BY <1>1, <1>3 DEF NoGuardMissed
  <2> QED
    BY <1>1, <1>2, <1>3, <2>1, <2>2, <2>3 DEF DiagnosisInv
<1>4. CASE /\ Concluded /\ UNCHANGED algebraVars
           /\ IF Lowers THEN pc' = "prove" /\ UNCHANGED verdict
                        ELSE pc' = "done" /\ verdict' = "declined"
  <2>1. SearchTypeOK'
    BY <1>1, <1>4 DEF DiagnosisInv, SearchTypeOK, Statuses
  <2>2. Concluded' /\ conflicts' = conflicts
    BY <1>4 DEF algebraVars, Concluded
  <2>3. Stands'
    BY <1>1, <1>4, <2>2 DEF DiagnosisInv, Stands, Lowers
  <2>4. pc' # "search" /\ NoGuardMissed'
    BY <1>1, <1>4 DEF NoGuardMissed
  <2> QED
    BY <1>2, <2>1, <2>3, <2>4 DEF DiagnosisInv
<1> QED
  BY <1>3, <1>4 DEF Recover

\* The first question.
LEMMA ProveKeeps ==
  ASSUME DiagnosisInv, Prove
  PROVE  DiagnosisInv'
<1>1. PICK answer \in Answers({}) :
        /\ pc = "prove" /\ Heard({}, answer)
        /\ IF answer.status = "proved"
           THEN Return("sound", {})
           ELSE pc' = "again" /\ UNCHANGED <<verdict, guard>>
        /\ UNCHANGED <<algebraVars, bad, searchVars>>
  BY DEF Prove
<1>2. /\ given' = given /\ bad' = bad /\ normal' = normal /\ conflicts' = conflicts /\ next' = next
      /\ first' = first /\ second' = second /\ witnesses' = witnesses
  BY <1>1 DEF algebraVars, searchVars
<1>3. AlgebraInv'
  BY <1>1, AlgebraStutter DEF DiagnosisInv
<1>4. silent' \subseteq silent \cup {{}}
  BY <1>1 DEF Heard
<1>5. SearchTypeOK'
  BY <1>1, <1>2, <1>4 DEF DiagnosisInv, SearchTypeOK, Return, Statuses
<1>6. Concluded /\ conflicts = {} /\ verdict = "none"
  BY <1>1 DEF DiagnosisInv, Stands
<1>7. Stands'
  BY <1>1, <1>2, <1>6 DEF DiagnosisInv, Stands, Return, Concluded
<1>8. NoGuardMissed'
  <2>1. ASSUME Unmixed, answer.status = "proved" PROVE Suffices({})
    <3>1. Premises({}) = Models(Given \cup {})
      BY <1>6, <2>1, Asked DEF DiagnosisInv
    <3> QED
      BY <2>1, <3>1, AnswerMeans DEF Suffices
  <2>2. ASSUME answer.status = "proved" PROVE Models(Given \cup {}) \cap bad = {}
    BY <1>6, <2>2, AskedNoMore, AnswerMeans DEF DiagnosisInv
  <2>3. Models(Given \cup {})' = Models(Given \cup {})
    BY <1>2, SameMeaning DEF Models
  <2> QED
    BY <1>1, <1>2, <1>6, <2>1, <2>2, <2>3, SameMeaning DEF NoGuardMissed, Return
<1> QED
  BY <1>1, <1>3, <1>5, <1>7, <1>8 DEF DiagnosisInv, Return

\* The same question once more.
LEMMA ProveAgainKeeps ==
  ASSUME DiagnosisInv, ProveAgain
  PROVE  DiagnosisInv'
<1>1. PICK answer \in Answers({}) :
        /\ pc = "again" /\ Heard({}, answer)
        /\ CASE answer.status = "proved" -> Return("sound", {})
             [] answer.status = "refuted" -> pc' = "search" /\ UNCHANGED <<verdict, guard>>
             [] OTHER -> Return("unsound", {})
        /\ witnesses' = answer.witness
        /\ UNCHANGED <<algebraVars, bad, first, second>>
  BY DEF ProveAgain
<1>2. /\ given' = given /\ bad' = bad /\ normal' = normal /\ conflicts' = conflicts /\ next' = next
      /\ first' = first /\ second' = second
  BY <1>1 DEF algebraVars
<1>3. AlgebraInv'
  BY <1>1, AlgebraStutter DEF DiagnosisInv
<1>4. silent \subseteq silent' /\ silent' \subseteq silent \cup {{}}
  BY <1>1 DEF Heard
<1>5. /\ answer.status \in {"proved", "refuted", "unsupported", "error"}
      /\ answer.witness \subseteq Premises({}) \cap bad
      /\ answer.status = "refuted" <=> answer.witness # {}
      /\ answer.status = "proved" => Premises({}) # {} /\ Premises({}) \cap bad = {}
      /\ answer.status = "refuted" => Premises({}) \cap bad # {}
      /\ answer.status = "unsupported" => Premises({}) = {}
  BY AnswerMeans
<1>6. \/ answer.status = "proved" /\ Return("sound", {})
      \/ answer.status = "refuted" /\ pc' = "search" /\ UNCHANGED <<verdict, guard>>
      \/ answer.status \in {"unsupported", "error"} /\ Return("unsound", {})
  BY <1>1, <1>5
<1>7. SearchTypeOK'
  BY <1>1, <1>2, <1>4, <1>5, <1>6 DEF DiagnosisInv, SearchTypeOK, Return, Statuses
<1>8. Concluded /\ conflicts = {} /\ verdict = "none"
  BY <1>1 DEF DiagnosisInv, Stands
<1>9. witnesses' \subseteq Models(Members(normal'))
  BY <1>1, <1>2, <1>5, ModelsOf DEF Premises
<1>10. Stands'
  BY <1>1, <1>2, <1>5, <1>6, <1>8, <1>9 DEF Stands, Return, Concluded
<1>11. Unmixed => Premises({}) = Models(Given \cup {})
  BY <1>8, Asked DEF DiagnosisInv
<1>12. first' = 1 /\ second' = 0
  BY <1>1, <1>2 DEF DiagnosisInv, Stands
<1>13. ASSUME Unmixed', pc' = "search" PROVE Passed'
  <2>1. ~Suffices({})
    BY <1>2, <1>5, <1>6, <1>11, <1>13, SameMeaning DEF Suffices, Return
  <2> QED
    BY <1>2, <1>12, <2>1, SameMeaning, AtomTypes DEF Passed
<1>14. NoGuardMissed'
  <2>1. ASSUME Unmixed, answer.status = "proved" PROVE Suffices({})
    BY <1>5, <1>11, <2>1 DEF Suffices
  <2>2. ASSUME Unmixed, answer.status = "unsupported" PROVE \A c : ~Suffices(c)
    <3>1. Models(Given \cup {}) = {}
      BY <1>5, <1>11, <2>2
    <3>2. \A c : Models(Given \cup c) = {}
      BY <3>1, ModelsOf
    <3> QED
      BY <3>2 DEF Suffices
  <2>3. ASSUME answer.status = "error" PROVE \A c : Unanswered(c)'
    BY <1>1, <1>5, <2>3 DEF Unanswered, Heard
  <2>4. ASSUME answer.status = "proved" PROVE Models(Given \cup {}) \cap bad = {}
    BY <1>5, <1>8, <2>4, AskedNoMore DEF DiagnosisInv
  <2>5. Models(Given \cup {})' = Models(Given \cup {})
    BY <1>2, SameMeaning DEF Models
  <2>6. CASE answer.status = "proved" /\ Return("sound", {})
    BY <1>2, <2>1, <2>4, <2>5, <2>6, SameMeaning DEF NoGuardMissed, Return
  <2>7. CASE answer.status = "refuted" /\ pc' = "search" /\ UNCHANGED <<verdict, guard>>
    BY <1>8, <2>7 DEF NoGuardMissed
  <2>8. CASE answer.status \in {"unsupported", "error"} /\ Return("unsound", {})
    BY <1>2, <2>2, <2>3, <2>8, SameMeaning DEF NoGuardMissed, Return
  <2> QED
    BY <1>6, <2>6, <2>7, <2>8
<1> QED
  BY <1>3, <1>7, <1>10, <1>13, <1>14 DEF DiagnosisInv

\* One combination more.
LEMMA SearchKeeps ==
  ASSUME DiagnosisInv, Skip \/ Try
  PROVE  DiagnosisInv'
<1>1. /\ pc = "search" /\ verdict = "none" /\ Concluded /\ conflicts = {}
      /\ AlgebraInv /\ SearchTypeOK /\ Stands /\ (Unmixed => Passed)
  BY DEF DiagnosisInv, Stands, Skip, Try
<1>2. /\ UNCHANGED algebraVars /\ bad' = bad
      /\ given' = given /\ normal' = normal /\ conflicts' = conflicts /\ next' = next
  BY DEF Skip, Try, algebraVars
<1>3. AlgebraInv'
  BY <1>1, <1>2, AlgebraStutter
<1>4. Tried \subseteq Atoms /\ first \in 1..N /\ second \in 0..N /\ N \in Nat /\ N > 1
  BY <1>1, CombinationTypes, AtomTypes DEF SearchTypeOK
<1>5. /\ Unmixed => \A c : Premises(c) = Models(Given \cup c)
      /\ \A c : Models(Given \cup c) \subseteq Premises(c)
  BY <1>1, Asked, AskedNoMore
<1>6. /\ silent \subseteq silent' /\ silent' \subseteq silent \cup {Tried}
      /\ witnesses' \subseteq witnesses \cup (Premises(Tried) \cap bad)
      /\ \/ /\ Return("insufficient-guard", Tried) /\ UNCHANGED <<first, second>>
            /\ Models(Given \cup Tried) \cap bad = {}
            /\ Unmixed => Suffices(Tried)
         \/ Advance /\ (Unmixed => Hopeless(Tried, silent'))
  <2>1. CASE Skip
    <3>1. Pruned(Tried) /\ Advance /\ witnesses' = witnesses /\ silent' = silent
      BY <2>1 DEF Skip
    <3>2. Unmixed => Hopeless(Tried, silent)
      BY <1>1, <3>1, PrunedHopeless
    <3> QED
      BY <3>1, <3>2
  <2>2. CASE Try
    <3>1. PICK answer \in Answers(Tried) :
            /\ Heard(Tried, answer)
            /\ witnesses' = witnesses \cup answer.witness
            /\ IF answer.status = "proved"
               THEN Return("insufficient-guard", Tried) /\ UNCHANGED <<first, second>>
               ELSE Advance
      BY <2>2 DEF Try
    <3>2. /\ answer.status \in {"proved", "refuted", "unsupported", "error"}
          /\ answer.witness \subseteq Premises(Tried) \cap bad
          /\ answer.status = "proved" => Premises(Tried) # {} /\ Premises(Tried) \cap bad = {}
          /\ answer.status = "refuted" => Premises(Tried) \cap bad # {}
          /\ answer.status = "unsupported" => Premises(Tried) = {}
      BY AnswerMeans
    <3>3. silent \subseteq silent' /\ silent' \subseteq silent \cup {Tried}
      BY <3>1 DEF Heard
    <3>4. CASE answer.status = "proved"
      <4>1. Unmixed => Suffices(Tried)
        BY <1>5, <3>2, <3>4 DEF Suffices
      <4>2. Models(Given \cup Tried) \cap bad = {}
        BY <1>5, <3>2, <3>4
      <4> QED
        BY <3>1, <3>2, <3>3, <3>4, <4>1, <4>2
    <3>5. CASE answer.status = "error"
      <4>1. Tried \in silent'
        BY <3>1, <3>5 DEF Heard
      <4>2. Open(Tried) = Tried
        BY <2>2 DEF Try, Pruned, Open
      <4>3. Hopeless(Tried, silent')
        BY <4>1, <4>2 DEF Hopeless
      <4> QED
        BY <3>1, <3>2, <3>3, <3>5, <4>3
    <3>6. CASE answer.status \in {"refuted", "unsupported"}
      <4>1. Unmixed => ~Suffices(Tried)
        BY <1>5, <3>2, <3>6 DEF Suffices
      <4>2. Unmixed => Hopeless(Tried, silent')
        BY <4>1 DEF Hopeless
      <4> QED
        BY <3>1, <3>2, <3>3, <3>6, <4>2
    <3> QED
      BY <3>2, <3>4, <3>5, <3>6
  <2> QED
    BY <2>1, <2>2
<1>7. /\ witnesses' # {} /\ witnesses' \subseteq bad' /\ witnesses' \subseteq Models(Members(normal'))
      /\ \A c \in silent' : c \subseteq Atoms
  <2>1. Premises(Tried) \subseteq Models(Members(normal))
    BY ModelsOf DEF Premises
  <2>2. witnesses \subseteq witnesses'
    BY DEF Skip, Try
  <2> QED
    BY <1>1, <1>2, <1>4, <1>6, <2>1, <2>2 DEF SearchTypeOK, Stands
<1>8. CASE /\ Return("insufficient-guard", Tried) /\ UNCHANGED <<first, second>>
           /\ Models(Given \cup Tried) \cap bad = {}
           /\ Unmixed => Suffices(Tried)
  <2>1. pc' = "done" /\ verdict' = "insufficient-guard" /\ guard' = Tried
    BY <1>8 DEF Return
  <2>2. SearchTypeOK'
    BY <1>1, <1>2, <1>4, <1>7, <1>8, <2>1 DEF SearchTypeOK, Statuses
  <2>3. Stands'
    BY <1>1, <1>2, <1>7, <2>1 DEF Stands, Concluded
  <2>4. ASSUME Unmixed, \E a, b \in Tried : a # b, NEW a \in Offered, Suffices({a})
        PROVE Unanswered({a})'
    <3>1. second # 0
      BY <1>1, <2>4, CombinationTypes
    <3>2. PICK k \in 1..N : a = AtomOrder[k]
      BY AtomTypes DEF Atoms, Offered
    <3>3. Hopeless({a}, silent)
      BY <1>1, <2>4, <3>1, <3>2 DEF Passed
    <3>4. Open({a}) \in silent
      BY <2>4, <3>3, NoLoneClash DEF Hopeless
    <3> QED
      BY <1>2, <1>6, <3>4, SameMeaning DEF Unanswered
  <2>5. Unmixed => Suffices(Tried) /\ ~Suffices({})
    BY <1>1, <1>8 DEF Passed
  <2>6. Models(Given' \cup Tried) = Models(Given \cup Tried)
    BY <1>2, SameMeaning
  <2>7. NoGuardMissed'
    <3>1. Models(Given \cup guard)' \cap bad' = {}
      BY <1>2, <1>8, <2>1, <2>6 DEF Models
    <3> QED
      BY <1>2, <2>1, <2>4, <2>5, <3>1, SameMeaning DEF NoGuardMissed
  <2> QED
    BY <1>3, <2>1, <2>2, <2>3, <2>7 DEF DiagnosisInv
<1>9. CASE Advance /\ (Unmixed => Hopeless(Tried, silent'))
  <2>1. CASE first = N - 1 /\ second = N
    <3>1. pc' = "done" /\ verdict' = "unsound" /\ guard' = {} /\ first' = first /\ second' = second
      BY <1>9, <2>1 DEF Advance, Return
    <3>2. SearchTypeOK'
      BY <1>1, <1>2, <1>7, <3>1 DEF SearchTypeOK, Statuses
    <3>3. Stands'
      BY <1>1, <1>2, <1>7, <3>1 DEF Stands, Concluded
    <3>4. Unmixed => \A a, b \in Atoms : Hopeless({a, b}, silent')
      BY <1>1, <1>6, <1>9, <2>1, AllPassed
    <3>5. ASSUME Unmixed, NEW a \in Offered, NEW b \in Offered, Suffices({a, b})
          PROVE  SignsClash({a, b}) \/ Unanswered({a, b})'
      <4>1. a \in Atoms /\ b \in Atoms
        BY DEF Offered
      <4>2. SignsClash({a, b}) \/ Open({a, b}) \in silent'
        BY <3>4, <3>5, <4>1 DEF Hopeless
      <4> QED
        BY <1>2, <4>2, SameMeaning DEF Unanswered
    <3>6. NoGuardMissed'
      BY <1>2, <3>1, <3>5, SameMeaning DEF NoGuardMissed, SignsClash
    <3> QED
      BY <1>3, <3>1, <3>2, <3>3, <3>6 DEF DiagnosisInv
  <2>2. CASE ~(first = N - 1 /\ second = N)
    <3>1. /\ first' = After(first, second)[1] /\ second' = After(first, second)[2]
          /\ UNCHANGED <<pc, verdict, guard>>
      BY <1>9, <2>2 DEF Advance
    <3>2. /\ first' \in 1..N /\ second' \in 0..N /\ (second' # 0 => first' < second')
          /\ Unmixed => Passed'
      <4>1. first' \in 1..N /\ second' \in 0..N /\ (second' # 0 => first' < second')
        BY <1>1, <2>2, <3>1, AfterTypes
      <4>2. ASSUME Unmixed PROVE Passed'
        BY <1>1, <1>2, <1>6, <1>9, <2>2, <3>1, <4>2, PassedGrows
      <4> QED
        BY <4>1, <4>2
    <3>3. SearchTypeOK'
      BY <1>1, <1>2, <1>7, <3>1, <3>2 DEF SearchTypeOK
    <3>4. Stands'
      BY <1>1, <1>2, <1>7, <3>1 DEF Stands, Concluded
    <3>5. NoGuardMissed'
      BY <1>1, <3>1 DEF NoGuardMissed
    <3> QED
      BY <1>2, <1>3, <3>2, <3>3, <3>4, <3>5, SameMeaning DEF DiagnosisInv
  <2> QED
    BY <2>1, <2>2
<1> QED
  BY <1>6, <1>8, <1>9

LEMMA DiagnosisStep == DiagnosisInv /\ [Next]_vars => DiagnosisInv'
<1> SUFFICES ASSUME DiagnosisInv, [Next]_vars PROVE DiagnosisInv'
  OBVIOUS
<1>1. CASE Recover
  BY <1>1, RecoverKeeps
<1>2. CASE Prove
  BY <1>2, ProveKeeps
<1>3. CASE ProveAgain
  BY <1>3, ProveAgainKeeps
<1>4. CASE Skip \/ Try
  BY <1>4, SearchKeeps
<1>5. CASE UNCHANGED vars
  <2>1. /\ UNCHANGED algebraVars /\ given' = given /\ next' = next /\ normal' = normal
        /\ conflicts' = conflicts /\ pc' = pc /\ bad' = bad /\ first' = first /\ second' = second
        /\ witnesses' = witnesses /\ verdict' = verdict /\ guard' = guard /\ silent' = silent
    BY <1>5 DEF vars, algebraVars, searchVars
  <2>2. AlgebraInv'
    BY <2>1, AlgebraStutter DEF DiagnosisInv
  <2>3. SearchTypeOK' /\ Stands'
    BY <2>1 DEF DiagnosisInv, SearchTypeOK, Stands, Concluded
  <2>4. \A c : Hopeless(c, silent)' <=> Hopeless(c, silent)
    BY <2>1, SameMeaning DEF Hopeless
  <2>5. Unmixed' => (pc' = "search" => Passed')
    BY <2>1, <2>4, SameMeaning DEF DiagnosisInv, Passed
  <2>6. \A c : Unanswered(c)' <=> Unanswered(c)
    BY <2>1, SameMeaning DEF Unanswered
  <2>7. Models(Given \cup guard)' = Models(Given \cup guard)
    BY <2>1, SameMeaning DEF Models
  <2>8. NoGuardMissed'
    BY <2>1, <2>6, <2>7, SameMeaning DEF DiagnosisInv, NoGuardMissed
  <2> QED
    BY <2>2, <2>3, <2>5, <2>8 DEF DiagnosisInv
<1> QED
  BY <1>1, <1>2, <1>3, <1>4, <1>5 DEF Next

-----------------------------------------------------------------------------
(* The theorems. *)

THEOREM DiagnosisInvariant == Spec => []DiagnosisInv
BY DiagnosisInit, DiagnosisStep, PTL DEF Spec

LEMMA TypesOfInv == DiagnosisInv => TypeOK
<1> SUFFICES ASSUME DiagnosisInv PROVE TypeOK
  OBVIOUS
<1>1. AlgebraInv /\ AlgebraTypeOK /\ SearchTypeOK
  BY DEF DiagnosisInv, AlgebraInv
<1>2. seen = {Key(given[k]) : k \in 1..(IF next > Len(given) THEN Len(given) ELSE next - 1)}
  <2>1. seen = {Key(f) : f \in Done}
    BY <1>1 DEF AlgebraInv
  <2> QED
    BY <2>1 DEF Done, Read
<1>3. known \in [Vars -> [nonzero : BOOLEAN, power : BOOLEAN, zeros : Values, ones : Values,
                          cmps : SUBSET Predicates, at : 0..Len(normal)]]
  <2>1. Len(normal) \in Nat
    BY <1>1, LenProperties DEF AlgebraTypeOK
  <2>2. ASSUME NEW x \in Vars PROVE known[x] \in Summary /\ known[x].at \in 0..Len(normal)
    <3>1. known[x] \in Summary
      BY <1>1 DEF AlgebraTypeOK
    <3>2. known[x].at # 0 => known[x].at \in 1..Len(normal)
      BY <1>1 DEF AlgebraInv, SpotsHold
    <3> QED
      BY <2>1, <3>1, <3>2
  <2>3. \A x \in Vars : known[x] \in [nonzero : BOOLEAN, power : BOOLEAN, zeros : Values,
                                      ones : Values, cmps : SUBSET Predicates, at : 0..Len(normal)]
    <3> SUFFICES ASSUME NEW k \in Summary, k.at \in 0..Len(normal)
                 PROVE k \in [nonzero : BOOLEAN, power : BOOLEAN, zeros : Values, ones : Values,
                              cmps : SUBSET Predicates, at : 0..Len(normal)]
      BY <2>2
    <3>1. k = [nonzero |-> k.nonzero, power |-> k.power, zeros |-> k.zeros, ones |-> k.ones,
               cmps |-> k.cmps, at |-> k.at]
      BY DEF Summary
    <3>2. /\ k.nonzero \in BOOLEAN /\ k.power \in BOOLEAN /\ k.zeros \in Values
          /\ k.ones \in Values /\ k.cmps \in SUBSET Predicates
      BY DEF Summary
    <3> QED
      BY <3>1, <3>2
  <2> QED
    BY <1>1, <2>3 DEF AlgebraTypeOK
<1> QED
  BY <1>1, <1>2, <1>3 DEF AlgebraTypeOK, SearchTypeOK, TypeOK

\* The variables keep their types, the keys met are those of the facts read and
\* the search stays in the vocabulary (diagnose, normalize_assumptions).
THEOREM DiagnosisTypes == Spec => []TypeOK
BY DiagnosisInvariant, TypesOfInv, PTL

\* Whatever the facts, their number and their order, the normalized list is never
\* stronger than they are.  It is as strong unless a strict power-of-two query of a
\* variable stands beside one that admits zero, and without queries that admit zero
\* every contradiction and derived fact is one of theirs (normalize_assumptions).
THEOREM NothingLost == Spec => []MeaningKept
<1>1. DiagnosisInv => MeaningKept
  BY MeaningOfInv DEF DiagnosisInv
<1> QED
  BY <1>1, DiagnosisInvariant, PTL

\* Whatever the rewrite, the vocabulary of atoms and the counterexamples the solver
\* chooses: what is reported as sound is, on any list of preconditions.  On a list
\* that mixes no strict query with one that admits zero, for the same variable, no
\* combination that would do is passed over, but for a signs clash and for a
\* combination whose own question the solver left without an answer
\* (synthesize_precondition).
THEOREM GuardFound == Spec => []NoGuardMissed
<1>1. DiagnosisInv => NoGuardMissed
  BY DEF DiagnosisInv
<1> QED
  BY <1>1, DiagnosisInvariant, PTL
=============================================================================
