------------------------------ MODULE MCTriage ------------------------------
(***************************************************************************)
(* Two passes: a vendor source without a pass name, whose text decides     *)
(* between two families, and InstCombine by name without a source.  The    *)
(* strategies are one per way a strategy can be run and judged; cv-agent   *)
(* has no option for a plugin, so none is given.                           *)
(***************************************************************************)
EXTENDS Triage

MCFamilyOrder == [peephole |-> 3, slp |-> 7]

MCOwned ==
  [peephole |-> {"plugin-tv", "symexec-fold-cascade", "instcombine-ir"},
   slp      |-> {"plugin-tv", "slp-source"}]

MCStrategies == MCOwned.peephole \cup MCOwned.slp

MCTarget == [s \in MCStrategies |->
               CASE s \in {"symexec-fold-cascade", "slp-source"} -> "source"
                 [] s \in {"plugin-tv", "instcombine-ir"}        -> "pass-runner"]

MCCanonicalPass == [s \in MCStrategies |->
                      IF s = "instcombine-ir" THEN "instcombine" ELSE "no-name"]

MCRunner == [s \in MCStrategies |-> CASE s = "plugin-tv"            -> "plugin"
                                      [] s = "symexec-fold-cascade" -> "symexec"
                                      [] OTHER                      -> "mined"]

MCHinted == [n \in {"no-name", "instcombine"} |->
               IF n = "instcombine" THEN "peephole" ELSE "no-family"]

MCName == <<"no-name", "instcombine">>
MCHasSource == <<TRUE, FALSE>>
MCFirstText == <<"folds", "gone">>

\* "folds" has matchers and a reduction; "packs" the reduction only.
MCSignals == [p \in 1..2 |->
               [t \in {"gone", "folds", "packs"} |->
                  [peephole |-> IF t = "folds" THEN 4 ELSE 0,
                   slp      |-> IF t = "gone" THEN 0 ELSE 3]]]

Decides == [EmptyReport EXCEPT !.ok = TRUE, !.total = 1, !.proved = 1]
Refutes == [EmptyReport EXCEPT !.total = 1, !.refuted = 1]
Declines == [EmptyReport EXCEPT !.total = 1, !.undecided = 1]

MCToolReports == [s \in MCStrategies |->
                    CASE s = "symexec-fold-cascade" -> {Decides, Declines}
                      [] s = "plugin-tv"            -> {EmptyReport}
                      [] OTHER                      -> {Decides, Refutes}]
=============================================================================
