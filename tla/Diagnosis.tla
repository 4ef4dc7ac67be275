----------------------------- MODULE Diagnosis ------------------------------
(***************************************************************************)
(* diagnose and synthesize_precondition of o2t/intent/pass_graph.py: a     *)
(* rewrite that the solver refutes is given the fewest further             *)
(* preconditions that make it sound, or is called unsound.                 *)
(*                                                                         *)
(* The rewrite is known by the environments at which its two sides differ. *)
(* Its recovered preconditions pass through Algebra on the way to every    *)
(* query.  A query is answered as z3_prove of o2t/mini_alive.py reads the  *)
(* solver: any counterexample may come back, and the solver may fail.      *)
(***************************************************************************)
EXTENDS Algebra, FiniteSets

CONSTANTS AtomOrder,    \* the order in which further preconditions are tried
          MaxSilent,    \* bound: combinations the solver gives no answer on
          Cases         \* the rewrites: [given |-> list of facts, bad |-> environments]

\* Further preconditions over a pair of variables, each pair in one order.
PairAtoms(x, y) == {Pair("mask-pair", x, y), Pair("addr-diseq", x, y)}

VarAtoms(x) == {NonZero(x), Sign(x, "sge"), Sign(x, "slt"), Sign(x, "sgt"), Power(x, FALSE)}

Atoms == {AtomOrder[k] : k \in DOMAIN AtomOrder}
N == Len(AtomOrder)

ASSUME DiagnosisAssumption ==
  /\ AtomOrder \in Seq(Facts) /\ N > 1
  /\ \A a \in Atoms : \/ \E x \in Vars : a \in VarAtoms(x)
                      \/ \E x, y \in Vars : x # y /\ a \in PairAtoms(x, y)
  /\ \A x \in Vars : VarAtoms(x) \subseteq Atoms
  /\ \A x, y \in Vars : x # y => PairAtoms(x, y) \subseteq Atoms \/ PairAtoms(y, x) \subseteq Atoms
  /\ MaxSilent \in Nat
  /\ Cases \subseteq [given : Seq(Facts), bad : SUBSET Envs]

VARIABLES pc,          \* recover, prove, again, search, done
          bad,         \* where the two sides of the rewrite differ
          first, second,   \* the combination at hand; second = 0 for a single one
          witnesses,   \* counterexamples collected
          verdict,     \* sound, insufficient-guard, unsound; declined at recovery
          guard,       \* the further preconditions reported
          silent       \* observation: combinations the solver did not answer on

searchVars == <<first, second, witnesses>>
vars == <<algebraVars, pc, bad, searchVars, verdict, guard, silent>>

Init == /\ AlgebraStart
        /\ \E case \in Cases : given = case.given /\ bad = case.bad
        /\ pc = "recover" /\ verdict = "none"
        /\ first = 1 /\ second = 0
        /\ witnesses = {} /\ guard = {} /\ silent = {}

Given == Members(given)

\* recover_pair builds the obligation once before anything is proved: a
\* contradiction the algebra reports, or masks that overlap, decline the fold.
Lowers == /\ conflicts = {}
          /\ \A f \in Members(normal) : f \in KnownBits => Consistent(f)

Recover == \/ /\ pc = "recover"
              /\ Absorb \/ Conclude
              /\ UNCHANGED <<pc, bad, searchVars, verdict, guard, silent>>
           \/ /\ pc = "recover" /\ Concluded
              /\ IF Lowers THEN pc' = "prove" /\ UNCHANGED verdict
                           ELSE pc' = "done" /\ verdict' = "declined"
              /\ UNCHANGED <<algebraVars, bad, searchVars, guard, silent>>

\* The answers the solver may give with further preconditions c.
Premises(c) == Models(Members(normal) \cup c)

Answers(c) ==
  {[status |-> "refuted", witness |-> {w}] : w \in Premises(c) \cap bad}
  \cup {[status |-> s, witness |-> {}] :
          s \in {t \in {"proved", "unsupported", "error"} :
                   \/ t = "proved" /\ Premises(c) # {} /\ Premises(c) \cap bad = {}
                   \/ t = "unsupported" /\ Premises(c) = {}
                   \/ t = "error" /\ Cardinality(silent \cup {c}) <= MaxSilent}}

Heard(c, answer) == silent' = IF answer.status = "error" THEN silent \cup {c} ELSE silent

Return(v, c) == pc' = "done" /\ verdict' = v /\ guard' = c

\* diagnose asks once itself, and synthesize_precondition asks again.
Prove == \E answer \in Answers({}) :
  /\ pc = "prove" /\ Heard({}, answer)
  /\ IF answer.status = "proved"
     THEN Return("sound", {})
     ELSE pc' = "again" /\ UNCHANGED <<verdict, guard>>
  /\ UNCHANGED <<algebraVars, bad, searchVars>>

ProveAgain == \E answer \in Answers({}) :
  /\ pc = "again" /\ Heard({}, answer)
  /\ CASE answer.status = "proved" -> Return("sound", {})
       [] answer.status = "refuted" -> pc' = "search" /\ UNCHANGED <<verdict, guard>>
       [] OTHER -> Return("unsound", {})
  /\ witnesses' = answer.witness
  /\ UNCHANGED <<algebraVars, bad, first, second>>

\* The atom is among the recovered preconditions: which form of the power of two
\* query it was is not part of _atom_key.
Present(a) == \E f \in Given : f = a \/ (f \in PowerOfTwo /\ a = Power(f.name, FALSE))

\* Combinations thrown away as contradictory by their signs, a power of two
\* counting as positive.
SaysPositive(a) == a \in PowerOfTwo \/ (a \in Cmp /\ a.predicate \in {"sge", "sgt"})
SaysNegative(a) == a \in Cmp /\ a.predicate = "slt"
SignsClash(c) == \E a, b \in c : SaysNegative(a) /\ SaysPositive(b) /\ a.name = b.name

\* What an atom says of a counterexample, evaluated without the solver.
Evaluates(a, w) ==
  \/ a.op = "mask-pair" /\ w[a.left] \cap w[a.right] = {}
  \/ a.op = "addr-diseq" /\ w[a.left] # w[a.right]
  \/ a.op = "not-eq" /\ w[a.name] # {}
  \/ a.op = "power-of-two" /\ SingleBit(w[a.name])
  \/ a.op = "cmp" /\ Compares(a.predicate, w[a.name])

ExcludesAll(c, w) == \A a \in c : ~Evaluates(a, w)

Excludes(c, w) == \E a \in c : ~Evaluates(a, w)

Pruned(c) == \/ \E a \in c : Present(a)
             \/ SignsClash(c)
             \/ Refuted(Given \cup c)
             \/ \E w \in witnesses : ~Excludes(c, w)

Combination(i, j) == IF j = 0 THEN {AtomOrder[i]} ELSE {AtomOrder[i], AtomOrder[j]}
Tried == Combination(first, second)

\* Single atoms first, then pairs, in the order of AtomOrder.
AfterUnordered(i, j) == IF j = 0 THEN IF i < N THEN <<i + 1, 0>> ELSE <<1, 2>>
                        ELSE IF j < N THEN <<i, j + 1>> ELSE <<i + 1, 2>>

After(i, j) == IF j = 0 THEN IF i < N THEN <<i + 1, 0>> ELSE <<1, 2>>
               ELSE IF j < N THEN <<i, j + 1>> ELSE <<i + 1, i + 2>>

Advance ==
  IF first = N - 1 /\ second = N
  THEN Return("unsound", {}) /\ UNCHANGED <<first, second>>
  ELSE /\ first' = After(first, second)[1]
       /\ second' = After(first, second)[2]
       /\ UNCHANGED <<pc, verdict, guard>>

Skip == /\ pc = "search" /\ Pruned(Tried)
        /\ Advance
        /\ UNCHANGED <<algebraVars, bad, witnesses, silent>>

Try == \E answer \in Answers(Tried) :
  /\ pc = "search" /\ ~Pruned(Tried)
  /\ Heard(Tried, answer)
  /\ witnesses' = witnesses \cup answer.witness
  /\ IF answer.status = "proved"
     THEN Return("insufficient-guard", Tried) /\ UNCHANGED <<first, second>>
     ELSE Advance
  /\ UNCHANGED <<algebraVars, bad>>

Next == Recover \/ Prove \/ ProveAgain \/ Skip \/ Try
Spec == Init /\ [][Next]_vars

-----------------------------------------------------------------------------
Statuses == {"none", "sound", "insufficient-guard", "unsound", "declined"}

\* The variables keep their types; the combination at hand stays in the vocabulary.
TypeOK ==
  /\ given \in Seq(Facts) /\ normal \in Seq(Facts)
  /\ next \in 1..(Len(given) + 2)
  /\ seen = {Key(given[k]) : k \in 1..(IF next > Len(given) THEN Len(given) ELSE next - 1)}
  /\ known \in [Vars -> [nonzero : BOOLEAN, power : BOOLEAN, zeros : Values, ones : Values,
                         cmps : SUBSET Predicates, at : 0..Len(normal)]]
  /\ conflicts \subseteq Vars /\ derived \subseteq Facts
  /\ pc \in {"recover", "prove", "again", "search", "done"}
  /\ bad \subseteq Envs /\ witnesses \subseteq bad
  /\ first \in 1..N /\ second \in 0..N /\ second # 0 => first < second
  /\ verdict \in Statuses
  /\ guard \subseteq Atoms /\ \A c \in silent : c \subseteq Atoms

\* No query admits zero as a power of two.  Key and the summary of a variable do
\* not tell such a query from a strict one.
Strict == \A f \in Given \cap PowerOfTwo : ~f.orZero

\* No variable has queries of both kinds, of which Key keeps only the first.
Unmixed == \A f, g \in Given \cap PowerOfTwo : f.name = g.name => f.orZero = g.orZero

\* The list given to the solver, with what is still to be read, is never stronger
\* than the recovered preconditions, through every repeat and every merge in
\* place, and contradictions are found whatever the order of the facts.  Unless a
\* strict power-of-two query of a variable stands beside one that admits zero,
\* nothing is lost either; without queries that admit zero, a reported
\* contradiction is one and the derived facts do follow (normalize_assumptions).
MeaningKept ==
  /\ Models(Given) \subseteq Models(Members(normal) \cup Rest)
  /\ Concluded => (conflicts # {} <=> Refuted(Given))
  /\ Unmixed => Models(Members(normal) \cup Rest) = Models(Given)
  /\ Strict =>
       /\ conflicts # {} => Models(Given) = {}
       /\ \A f \in derived, e \in Models(Given) : Holds(f, e)

\* The rewrite is sound under c and the recovered preconditions, and not because
\* nothing satisfies them.
Suffices(c) == LET M == Models(Given \cup c) IN M # {} /\ M \cap bad = {}

\* A strict query of a variable whose recovered one admits zero is taken for
\* present and never tried: it asks no more than NonZero, which is.
Offered == {a \in Atoms : Present(a) => a \in Given}

\* What is left to ask of a combination.
Open(c) == {a \in c : ~Present(a)}

\* The solver did not answer on the combination itself, or ended the search before
\* its first one.
Unanswered(c) == Open(c) \in silent \/ (witnesses = {} /\ {} \in silent)

\* Whatever is reported as sound, alone or under the guard, is sound under the
\* preconditions as they were recovered.  Unless a variable has both a strict query
\* and one that admits zero (normalize_assumptions loses the later one and a guard
\* is reported missing that is there), neither the counterexamples nor the filters
\* throw away a combination that would do, and no smaller one than the one reported
\* would have (synthesize_precondition of pass_graph.py).  Excepted are
\* combinations that _contradictory_combo takes for contradictory, and those on
\* which the solver gave no answer: the search goes on without them.
NoGuardMissed ==
  /\ verdict \in {"sound", "insufficient-guard"} => Models(Given \cup guard) \cap bad = {}
  /\ Unmixed =>
       /\ verdict = "sound" => Suffices({})
       /\ verdict = "insufficient-guard" =>
            /\ Suffices(guard)
            /\ ~Suffices({})
            /\ (\E a, b \in guard : a # b) =>
                 \A a \in Offered : Suffices({a}) => Unanswered({a})
       /\ verdict = "unsound" =>
            \A a, b \in Offered :
              Suffices({a, b}) => SignsClash({a, b}) \/ Unanswered({a, b})
=============================================================================
