------------------------------ MODULE MCPlanner ------------------------------
(***************************************************************************)
(* Two plans for TLC: "script" runs a staged file, "tool" a tool that is   *)
(* not in the common inventory.                                            *)
(***************************************************************************)
EXTENDS Planner

MCPlans == {"script", "tool"}
MCUsesFiles == [p \in Plans |-> IF p = "script" THEN Files ELSE {}]
MCUsesTools == [p \in Plans |-> IF p = "tool" THEN Tools ELSE {}]
MCUsesNoTools == [p \in Plans |-> {}]
MCProposals == {<<NoPlan, p>> : p \in Plans} \cup {<<"script", "tool">>, <<"tool", "script">>}
MCSubmissions == {<<NoPlan, p>> : p \in Plans}
MCCites == [p \in Plans |-> Sources]
=============================================================================
