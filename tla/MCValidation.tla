---------------------------- MODULE MCValidation ----------------------------
(* Two inputs, and a defect that shows on one of them, in some calls only. *)
EXTENDS Validation

MCSame == {<<"x", "x">>, <<"y", "y">>}
MCRequirements == {"r"}
MCSlots == [r \in MCRequirements |-> {1}]
MCHits == [k \in {"k1", "k2"} |-> [r \in MCRequirements |-> IF k = "k2" THEN {1} ELSE {}]]
MCLeast == [r \in MCRequirements |-> 1]
MCControls == <<"negative", "control-a">>

MCBehaves == [b \in {"good", "bad"} |-> [k \in {"k1", "k2"} |->
                IF b = "bad" /\ k = "k2" THEN {"x", "y"} ELSE {"x"}]]

\* The library under test may itself be bad, and a planted defect may be none.
MCFirstFiles ==
  {[f \in Files |-> CASE f \in {"fixture", "tool"} -> "v1"
                      [] f = "before" -> first[1]
                      [] f = "control-a" -> first[2]
                      [] f = "negative" -> "bad"
                      [] OTHER -> "good"] :
     first \in {<<"good", "bad">>, <<"good", "good">>, <<"bad", "bad">>}}
  \cup {[f \in Files |-> IF f \in {"fixture", "tool"} THEN Missing ELSE "good"]}
=============================================================================
