---------------------------- MODULE MCDiagnosis -----------------------------
(* Two variables of two bits.  Long lists of preconditions with a rewrite that *)
(* is sound, and every kind of rewrite with a short list.                      *)
EXTENDS Diagnosis, SequencesExt

AtomsOf(x) == <<NonZero(x), Sign(x, "sge"), Sign(x, "slt"), Sign(x, "sgt"), Power(x, FALSE)>>

MCAtomOrder == AtomsOf("x") \o AtomsOf("y")
               \o <<Pair("mask-pair", "x", "y"), Pair("addr-diseq", "x", "y")>>

Atom == {a \in Facts : a \in Range(MCAtomOrder)}

\* Facts that can meet one another in the algebra: all of x, one of y, a pair twice.
Chosen ==
  {f \in Facts : f \in NotEq \cup Cmp \cup PowerOfTwo /\ f.name = "x"}
  \cup {Known("x", z, o) : z, o \in {{}, {0}, {1}}} \cup {Known("x", {0, 1}, {})}
  \cup {Sign("y", "sgt"), Known("y", {0}, {}), Known("y", {}, {0}),
        Pair("mask-pair", "x", "y"), Pair("mask-pair", "y", "x"), Pair("addr-diseq", "x", "y")}

Lists == {[given |-> list, bad |-> {}] : list \in BoundedSeq(Chosen, 3)}

\* Rewrites that go wrong at a few environments (some values of x beside a zero
\* y, what two atoms allow, what one does not) or everywhere but at one x.
Few == 6
Wrong == {W \in {{e \in Envs : e["x"] \in B /\ e["y"] = {}} : B \in SUBSET Values}
                \cup {Models({a, b}) : a, b \in Atom}
                \cup {Models({a}) \ Models({b}) : a, b \in Atom} : Cardinality(W) <= Few}
         \cup {{e \in Envs : e["x"] # v} : v \in {{}, {SignBit}}}

Short == {<<>>} \cup {<<f>> : f \in {NonZero("x"), Sign("x", "sge"), Known("x", {0}, {}),
                                     Pair("mask-pair", "x", "y")}
                               \cup {Power("x", z) : z \in BOOLEAN}}
         \cup {<<Power("x", TRUE), f>> : f \in {Power("x", FALSE), Sign("x", "sge"), Power("y", FALSE)}}

MCCases == Lists \cup {[given |-> list, bad |-> wrong] : list \in Short, wrong \in Wrong}
=============================================================================
