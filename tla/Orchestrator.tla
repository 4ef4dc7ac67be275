---------------------------- MODULE Orchestrator ----------------------------
(***************************************************************************)
(* The deterministic tier of o2t/orchestrate and tools/cv-orchestrate.py,  *)
(* as operators: which family a pass is (classify.py), which strategies    *)
(* are planned and feasible (plan.py), the verdict a tool's report is      *)
(* given (run.py), which verdicts are about the pass (attribution.py) and  *)
(* the headline they collapse to (cv-orchestrate.py).                      *)
(*                                                                         *)
(* The source text is abstracted to the score each family's signals give   *)
(* it; a tool's JSON report to the counters run.py reads, an absent        *)
(* counter being 0.  A plan is a set: nothing depends on its order.        *)
(***************************************************************************)
EXTENDS Naturals

CONSTANTS FamilyOrder,    \* FAMILIES: family -> its place
          Owned,          \* family -> the strategies it lists
          Hinted,         \* pass name -> the family _NAME_TO_FAMILY gives it, or NoFamily
          NoFamily,
          Strategies,     \* STRATEGIES
          Target,         \* strategy -> "source", "pass-runner" or "canonical"
          CanonicalPass,  \* strategy -> the pass it falls back to, or NoName
          Runner,         \* strategy -> the branch of execute_check it takes
          Runnable,       \* strategies whose needs are resolved in the context
          PluginGiven,    \* ctx["pass_plugin"] is set
          NoName          \* pass_name is None

Families == DOMAIN FamilyOrder

ASSUME OrchestratorAssumption ==
  /\ FamilyOrder \in [Families -> Nat]
  /\ NoFamily \notin Families
  /\ Owned \in [Families -> SUBSET Strategies]
  /\ Target \in [Strategies -> {"source", "pass-runner", "canonical"}]
  /\ Runnable \subseteq Strategies
  /\ PluginGiven \in BOOLEAN

Positive == {"proved", "sound", "validated"}
Negative == {"refuted", "miscompile"}
Verdict == Positive \cup Negative \cup {"inconclusive", "partial", "planned", "error"}

-----------------------------------------------------------------------------
\* classify: the name hint decides; a family is retained from score 3 on.
ScoreOf(signals, name) ==
  [f \in Families |-> signals[f] + IF Hinted[name] = f THEN 100 ELSE 0]

Retained(scores) == {f \in Families : scores[f] >= 3}

\* The best retained family, the earlier one of FAMILIES on a tie.
Primary(scores) ==
  IF Retained(scores) = {} THEN NoFamily
  ELSE CHOOSE f \in Retained(scores) : \A g \in Retained(scores) \ {f} :
         \/ scores[f] > scores[g]
         \/ scores[f] = scores[g] /\ FamilyOrder[f] < FamilyOrder[g]

Planned(scores) == UNION {Owned[f] : f \in Retained(scores)}

\* plan_for: a pass-runner without a pass of its own needs a plugin or a pass
\* opt knows.
Feasible(s, name, hasSource) ==
  /\ s \in Runnable
  /\ Target[s] = "source" => hasSource
  /\ (Target[s] = "pass-runner" /\ CanonicalPass[s] = NoName) =>
       PluginGiven \/ Hinted[name] # NoFamily

-----------------------------------------------------------------------------
\* _run_json returns {} when the tool crashed before it wrote a report.
EmptyReport == [ok |-> FALSE, total |-> 0, proved |-> 0, refuted |-> 0,
                undecided |-> 0, changed |-> 0, contradicted |-> 0, unreadable |-> FALSE]

\* _verdict_symexec: sound rests on a proved branch, and on none declined.
Symexec(r) == CASE r.total = 0                                          -> "inconclusive"
                [] r.total > 0 /\ r.refuted > 0                         -> "miscompile"
                [] r.total > 0 /\ r.refuted = 0 /\ r.undecided = 0 /\ r.proved > 0
                                                                        -> "sound"
                [] OTHER                                                -> "inconclusive"

Scev(r) == CASE r.ok /\ r.proved > 0    -> "proved"
             [] OTHER                   -> IF r.total > 0 THEN "inconclusive" ELSE "error"

\* _run_intent_validation: a file that cannot be read is an error here, where
\* _run_json would return {}.
Intent(r) ==
  IF r.unreadable THEN "error"
  ELSE CASE r.refuted > 0                                       -> "refuted"
         [] r.refuted = 0 /\ r.proved > 0 /\ r.proved = r.total -> "proved"
         [] r.refuted = 0 /\ r.proved > 0 /\ r.proved < r.total -> "partial"
         [] OTHER                                               -> "inconclusive"

\* The miners and the validators of real opt output.
Mined(r) == CASE r.refuted > 0                    -> "refuted"
              [] r.refuted = 0 /\ r.proved > 0    -> "proved"
              [] OTHER                            -> "inconclusive"

Translation(r) == CASE r.refuted > 0                    -> "refuted"
                    [] r.refuted = 0 /\ r.proved > 0    -> "validated"
                    [] OTHER                            -> "inconclusive"

\* Canonical contracts: the counters are reported but only `ok` is judged.
Contract(r) == IF r.ok THEN "proved" ELSE "inconclusive"

ModelCheck(r) == CASE r.undecided > 0                   -> "error"
                   [] r.undecided = 0 /\ r.refuted > 0  -> "refuted"
                   [] OTHER                             -> Contract(r)

\* A pass that changed nothing is not verified; an oracle that contradicts a
\* proof outranks it.
Plugin(r) == CASE r.refuted = 0 /\ r.changed = 0                    -> "inconclusive"
               [] r.refuted + r.changed > 0 /\ r.contradicted > 0   -> "refuted"
               [] OTHER                                             -> Mined(r)

\* The verdict execute_check derives from the report of a tool that ran; a
\* strategy without a runner stays planned.
VerdictOf(s, r) == CASE Runner[s] = "symexec"     -> Symexec(r)
                     [] Runner[s] = "scev"        -> Scev(r)
                     [] Runner[s] = "intent"      -> Intent(r)
                     [] Runner[s] = "mined"       -> Mined(r)
                     [] Runner[s] = "translation" -> Translation(r)
                     [] Runner[s] = "contract"    -> Contract(r)
                     [] Runner[s] = "modelcheck"  -> ModelCheck(r)
                     [] Runner[s] = "plugin"      -> Plugin(r)
                     [] OTHER                     -> "planned"

\* The command line cannot be built: subprocess raises on an argument None.
Unbuildable(s, name) == \/ Runner[s] = "plugin" /\ ~PluginGiven
                        \/ Runner[s] = "translation" /\ name = NoName

\* execute_check of a feasible check; any exception is the verdict error.
Execute(s, name, r) ==
  CASE Runner[s] = "plugin" /\ name = NoName                            -> "planned"
    [] ~(Runner[s] = "plugin" /\ name = NoName) /\ Unbuildable(s, name) -> "error"
    [] OTHER                                                            -> VerdictOf(s, r)

-----------------------------------------------------------------------------
\* Faulty variant: a pass-runner that fell back to its own pass counts.
IsAboutPassCanonicalOnly(s, name) == s \in Strategies => Target[s] # "canonical"

\* is_about_pass: may a positive verdict of s certify the pass `name`?  An
\* unknown strategy counts.
IsAboutPass(s, name) ==
  s \in Strategies =>
    /\ Target[s] # "canonical"
    /\ Target[s] = "pass-runner" => CanonicalPass[s] \in {NoName, name}

\* _headline_for_pass of a pass whose checks were executed: checks is a
\* function from the planned strategies to their verdicts.
Headline(primary, checks, name) ==
  LET own      == {s \in DOMAIN checks : primary # NoFamily /\ s \in Owned[primary]}
      verdicts == {checks[s] : s \in own}
      certify  == {s \in DOMAIN checks : checks[s] \in Positive /\ IsAboutPass(s, name)}
  IN CASE primary = NoFamily             -> "unclassified"
       [] primary # NoFamily /\ own = {} -> "advisory"
       [] own # {} /\ verdicts \cap Negative # {}
                                         -> "refuted"
       [] own # {} /\ verdicts \cap Negative = {} /\ "error" \in verdicts
                                         -> "error"
       [] own # {} /\ verdicts \cap (Negative \cup {"error"}) = {} /\ certify # {}
                                         -> "proved"
       [] own # {} /\ verdicts \cap (Negative \cup {"error"}) = {} /\ certify = {}
                   /\ "planned" \in verdicts
                                         -> "planned"
       [] OTHER                          -> "advisory"

HeadlineStatus == {"unclassified", "advisory", "refuted", "error", "proved", "planned"}

\* agent_headline over the verdicts of the checks about the pass, whichever
\* tier dispatched them.
AgentHeadline(verdicts) ==
  CASE verdicts = {}                                               -> "no-formal-evidence"
    [] verdicts \cap Negative # {}                                 -> "refuted"
    [] verdicts \cap Negative = {} /\ "error" \in verdicts         -> "error"
    [] verdicts \cap (Negative \cup {"error"}) = {} /\ verdicts \cap Positive # {}
                                                                   -> "proved"
    [] OTHER -> "advisory"
=============================================================================
