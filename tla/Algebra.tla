------------------------------ MODULE Algebra -------------------------------
(***************************************************************************)
(* normalize_assumptions of o2t/assumption_algebra.py: the preconditions   *)
(* recovered for a rewrite are deduplicated and merged, contradictions     *)
(* among them are reported, and consequences are derived, before a solver  *)
(* sees them.                                                              *)
(*                                                                         *)
(* A value is the set of its one-bits, so the masks of the code are sets   *)
(* of bits too: v & mask is v \cap mask, zero is {}, a power of two is a   *)
(* single bit.  Comparisons are with 0, the only constant the recognizers  *)
(* of o2t/facts/value_tracking.py produce.                                 *)
(***************************************************************************)
EXTENDS Naturals, Sequences

CONSTANTS Vars,      \* the variables of a rewrite
          Bits,      \* positions of a bit
          SignBit

ASSUME AlgebraAssumption == SignBit \in Bits

Values == SUBSET Bits
Envs == [Vars -> Values]

\* The recognizers (value_tracking.py 46-51) make the last three; "eq" is in the
\* solver's table (38), and the algebra tests for it.
Predicates == {"eq", "sge", "sgt", "slt"}

NotEq == [op : {"not-eq"}, name : Vars]
Cmp == [op : {"cmp"}, name : Vars, predicate : Predicates]
\* orZero: the query admits zero as well.
PowerOfTwo == [op : {"power-of-two"}, name : Vars, orZero : BOOLEAN]
KnownBits == [op : {"known-bits"}, name : Vars, zero : Values, one : Values]
Pairs == [op : {"mask-pair", "addr-diseq"}, left : Vars, right : Vars]
Facts == NotEq \cup Cmp \cup PowerOfTwo \cup KnownBits \cup Pairs

NonZero(x) == [op |-> "not-eq", name |-> x]
Sign(x, predicate) == [op |-> "cmp", name |-> x, predicate |-> predicate]
Power(x, orZero) == [op |-> "power-of-two", name |-> x, orZero |-> orZero]
Known(x, zero, one) == [op |-> "known-bits", name |-> x, zero |-> zero, one |-> one]
Pair(op, x, y) == [op |-> op, left |-> x, right |-> y]

-----------------------------------------------------------------------------
\* What a fact says of an environment, to the solver (scalar_assumption_smt).

SingleBit(v) == \E b \in Bits : v = {b}

Compares(predicate, v) ==
  \/ predicate = "eq" /\ v = {}
  \/ predicate = "sge" /\ SignBit \notin v
  \/ predicate = "sgt" /\ SignBit \notin v /\ v # {}
  \/ predicate = "slt" /\ SignBit \in v

Holds(f, e) ==
  \/ f.op = "not-eq" /\ e[f.name] # {}
  \/ f.op = "cmp" /\ Compares(f.predicate, e[f.name])
  \/ f.op = "power-of-two" /\ (SingleBit(e[f.name]) \/ (f.orZero /\ e[f.name] = {}))
  \/ f.op = "known-bits" /\ e[f.name] \cap f.zero = {} /\ f.one \subseteq e[f.name]
  \/ f.op = "mask-pair" /\ e[f.left] \cap e[f.right] = {}
  \/ f.op = "addr-diseq" /\ e[f.left] # e[f.right]

Models(S) == {e \in Envs : \A f \in S : Holds(f, e)}

Members(list) == {list[k] : k \in DOMAIN list}

-----------------------------------------------------------------------------
VARIABLES given,       \* the preconditions as they were recovered
          next,        \* the one at hand
          normal,      \* the list built
          seen,        \* keys of those met
          known,       \* what has been gathered of each variable
          conflicts,   \* variables with a contradiction
          derived      \* facts that follow

algebraVars == <<given, next, normal, seen, known, conflicts, derived>>

KeyCoarse(f) ==
  IF f \in Pairs THEN [op |-> f.op, sides |-> {f.left, f.right}]
  ELSE IF f \in KnownBits THEN f
  ELSE [op |-> f.op, name |-> f.name]

\* What two facts must share for the second to be dropped.
Key(f) ==
  IF f.op = "power-of-two" THEN [op |-> f.op, name |-> f.name]
  ELSE IF f \in Pairs THEN [op |-> f.op, sides |-> {f.left, f.right}]
  ELSE f

Nothing == [nonzero |-> FALSE, power |-> FALSE, zeros |-> {}, ones |-> {},
            cmps |-> {}, at |-> 0]

AlgebraStart == /\ next = 1
                /\ normal = <<>>
                /\ seen = {}
                /\ known = [x \in Vars |-> Nothing]
                /\ conflicts = {}
                /\ derived = {}

Fact == given[next]
Consistent(f) == f.zero \cap f.one = {}

\* Known bits of a variable that has some are merged into the first such fact.
Merges(f) == f \in KnownBits /\ Consistent(f) /\ known[f.name].at # 0

\* The state of the variable of f, once f is read as the n-th fact of the list.
Learned(f, k, n) ==
  IF f \in NotEq THEN [k EXCEPT !.nonzero = TRUE]
  ELSE IF f \in Cmp THEN [k EXCEPT !.cmps = @ \cup {f.predicate}]
  ELSE IF f \in PowerOfTwo THEN [k EXCEPT !.power = TRUE]
  ELSE IF Consistent(f)
  THEN [k EXCEPT !.zeros = @ \cup f.zero, !.ones = @ \cup f.one,
                 !.at = IF @ = 0 THEN n ELSE @]
  ELSE [k EXCEPT !.at = IF @ = 0 THEN n ELSE @]

Learn(f) ==
  LET k == Learned(f, known[f.name], Len(normal) + 1)
  IN /\ known' = [known EXCEPT ![f.name] = k]
     /\ conflicts' = IF f \in KnownBits /\ Consistent(f) /\ k.zeros \cap k.ones # {}
                     THEN conflicts \cup {f.name} ELSE conflicts

Repeat == /\ Key(Fact) \in seen
          /\ UNCHANGED <<normal, seen, known, conflicts>>

Merge == /\ Key(Fact) \notin seen /\ Merges(Fact)
         /\ seen' = seen \cup {Key(Fact)}
         /\ LET n == known[Fact.name].at
            IN normal' = [normal EXCEPT ![n] =
                            Known(Fact.name, @.zero \cup Fact.zero, @.one \cup Fact.one)]
         /\ Learn(Fact)

Keep == /\ Key(Fact) \notin seen /\ ~Merges(Fact)
        /\ seen' = seen \cup {Key(Fact)}
        /\ normal' = Append(normal, Fact)
        /\ IF Fact \in Pairs THEN UNCHANGED <<known, conflicts>> ELSE Learn(Fact)

Absorb == /\ next <= Len(given)
          /\ Repeat \/ Merge \/ Keep
          /\ next' = next + 1
          /\ UNCHANGED <<given, derived>>

Follows(x) ==
  {f \in {NonZero(x), Sign(x, "sge")} :
     \/ f = NonZero(x) /\ (known[x].power \/ known[x].ones # {})
     \/ "sgt" \in known[x].cmps}

Clashes(x) ==
  \/ "eq" \in known[x].cmps /\ (known[x].nonzero \/ known[x].power)
  \/ known[x].zeros = Bits /\ (known[x].nonzero \/ known[x].power)

Conclude == /\ next = Len(given) + 1
            /\ derived' = UNION {Follows(x) : x \in Vars}
            /\ conflicts' = conflicts \cup {x \in Vars : Clashes(x)}
            /\ next' = next + 1
            /\ UNCHANGED <<given, normal, seen, known>>

Concluded == next = Len(given) + 2

-----------------------------------------------------------------------------
\* What the reported contradictions come to, as a property of the set of facts.

Zeros(S, x) == UNION {f.zero : f \in {g \in S \cap KnownBits : g.name = x /\ Consistent(g)}}
Ones(S, x) == UNION {f.one : f \in {g \in S \cap KnownBits : g.name = x /\ Consistent(g)}}

\* Facts that keep x from being zero, to the algebra.
KeptFromZero(S, x) == \E f \in S \cap (NotEq \cup PowerOfTwo) : f.name = x

Refuted(S) ==
  \E x \in Vars :
    \/ Zeros(S, x) \cap Ones(S, x) # {}
    \/ KeptFromZero(S, x) /\ (Sign(x, "eq") \in S \/ Zeros(S, x) = Bits)

Rest == {given[k] : k \in next..Len(given)}
=============================================================================
