# TLA+ models of O2T's agent campaigns

O2T verifies LLVM optimization passes with deterministic, solver-backed checks. On
top of them `cv-agent` lets a language model choose the next action, inside bounds
the program enforces: the model proposes, the program decides what may run, what is
recorded and when the session may end. These modules model that control, and one of the
algorithms below it, the algebra of preconditions with the search for a missing guard,
where the order of facts and of counterexamples decides what a solver is asked. They
model none of the solver work: which verdict or counterexample Z3 gives is an input.

## The system

| component | state | operations | what is hard |
|---|---|---|---|
| agent campaign `o2t/agent/campaign.py` | job records, checkpoint, session reports, declared outputs | start, resume, step, read-artifact, conclude | a process that dies between or inside jobs; resumes from older files; edits while it is down |
| gap checks `gap_checks.py` | attempts, the selected gap | select-gap, synthesize-gap-check, restore | attempts counted across sessions, the conclusion gate |
| validation `gap_checks.py` (`validate_candidate`, `execute`) | digests, copies of the libraries, evidence | hash, copy, run the checker, replay its witness, run its fixture, decide | the checker is written by the model: it may call anything, say anything, never end, and rewrite files |
| agent loop `loop.py`, `llm.py` | steps, strikes, seen, status, calls used | one turn, invalid reply, step cap, budget | every model must be brought to an end; order of reset and strike |
| staging `staging.py` | numbered candidate directories | stage_tool | a candidate staged and not recorded |
| residue triage `cli.py`, `actions.py`, `report.py` | pass records, the shared budget | run the orchestrator, one loop per pass, merge, exit gates | the budget shared by all passes; which verdict counts |
| call tracer `check_runner.py` | queues of native calls, pairs, coverage | call, report | pairing calls made in any order |
| campaign planner `campaign_planner.py` | history, staged files, approval, published manifest, repair round | read, write, discover, submit, patch, review, publish, execute, repair, continue a draft | approvals and fingerprints taken at other times than they are used; drafts of drafts |
| orchestrator `o2t/orchestrate`, `tools/cv-orchestrate.py` | checks and verdicts of a pass | plan, execute, headline, attribute | how verdicts of several strategies combine |
| precondition algebra `assumption_algebra.py`, `facts/value_tracking.py` | what is known of each variable, the normalized list | deduplicate, merge known bits, report contradictions, derive | facts dropped or merged in place, in any order |
| guard synthesis `intent/pass_graph.py` (`diagnose`) | combination at hand, counterexamples | prove, prune, try, report | counterexamples of one attempt prune the next ones; the solver may stay silent |
| validators, symbolic execution, intent, mining, facts, synthesis, C++ generator | none between calls | pure computation over programs and terms | outside the reach of a model checker |

What makes each part correct:

* campaign: a recorded job or attempt is never lost, overwritten or run again while
  its record is current; jobs settle in dependency order; a conclusion is explained;
* loop: whatever the model answers, a session ends, within its budget and step cap;
* planner: what is executed is what a reviewer supported, down to the bytes the jobs met,
  as far as anything compares them, and drafts lose nothing;
* triage: passes share one budget and only a spent one leaves a pass without a record;
  concluded work is reused, but only for the text it is about; nothing the agent adds
  outvotes a refutation, certifies a pass from proofs about other code or opens the exit gate;
* tracer: calls are paired one to one in the order of each input, whatever order the
  checker makes them in;
* validation: a checker is accepted only for what the tracer saw it do; the checker, the
  fixture and the copies either loads are the bytes that are recorded; a verdict is always
  reached;
* orchestrator: a pass is proved only by a check about it, and a refutation of its
  family stands;
* precondition algebra: the solver is given what was recovered, neither more nor less, and
  contradictions are found in any order of the facts;
* guard synthesis: what is reported as sound is, a reported guard is as small as can be, and
  no guard of the vocabulary is passed over, with the exceptions named below.

Triage and campaigns are the two modes of `cv-agent`; they share the loop, the client
and its budget. Triage first runs the orchestrator, which classifies each pass, plans
strategies and collapses their verdicts into a headline; the passes whose headline is
open then get one loop each. In a campaign, a candidate checker for a gap goes through
`validate_candidate`, which runs it under the call tracer.

The preconditions of a fold recovered from source text pass through the algebra before
every proof. `diagnose` explains a refuted fold by searching one or two further
preconditions under which it is sound.

The planner makes campaigns and runs them: it reviews and publishes a manifest, starts
`cv-agent` over it, and reads the report the campaign wrote. The two share only files.

The campaign is the core: it is the part with durable state, partial failure and a
protocol that spans processes. A session is one `cv-agent` process over one output
directory. It fingerprints the manifest and declared inputs, starts afresh or resumes
a checkpoint or a report, then runs the agent loop. In each turn the model names an
action of the campaign's registry; the handler runs a job, selects a gap, stages and
validates a candidate, reads an output or concludes. Every handler that changes state
ends with a checkpoint. When the loop is over the session's report is written.

## Modules

| module | models | what it holds |
|---|---|---|
| `JobGraph` | `Campaign.status`, `required`, the rules of `resume` and `conclude` on the graph | operators on a dependency function and record statuses, written as least fixed points |
| `JobGraphCode` | the recursions of `_validate`, `status`, `required` as the code writes them | recursive functions, and a small machine that settles ready jobs over every graph |
| `GapChecks` | the state and derived status of `gap_checks.py` | `attempts`, `selected`, the six gap statuses, the gates |
| `AgentLoop` | `run_pass_agent`, `LLMClient.call` | the turn, strikes, step cap and budget, without what handlers do |
| `Campaign` | `campaign.py`, `gap_checks.py`, `staging.py` over the loop | one action per handler, per way to start, and per place a process can die |
| `CampaignLedger` | nothing: it is the promise | jobs settle once, in order; attempts are a bounded log |
| `MCCampaign` | an instance of three jobs for TLC | constants |
| `JobGraphProofs`, `CampaignProofs` | theorems about `JobGraphCode`, about `Campaign` | proofs |
| `TraceCheck` | `check_runner.py`, class `Trace` | the queues, counters and coverage, and the log of calls as an observation |
| `Validation` | `validate_candidate`, `execute` over `TraceCheck` | one action per step of the validation, per answer of a subprocess, and per file or copy rewritten meanwhile |
| `MCValidation` | two inputs, a defect that shows sometimes, two planted defects | constants |
| `ValidationProofs` | lemmas about `TraceCheck`; theorems about `Validation` | proofs |
| `Orchestrator` | `classify.py`, `plan.py`, `run.py`, `attribution.py`, the headlines of `cv-orchestrate.py` and `report.py` | operators only: families, feasibility, the verdict of each kind of tool report, headlines |
| `Triage` | `cli.py`, `loop.py`, `actions.py`, `report.py` over `AgentLoop` and `Orchestrator` | one action per decision of `run_agent`, per handler, and per answer of a verifier |
| `MCTriage` | two passes, four strategies | constants |
| `TriageProofs` | theorems about `Triage` and what it takes from `Orchestrator` and `AgentLoop` | proofs |
| `Algebra` | `normalize_assumptions`, the meaning of facts in `scalar_assumption_smt` | one action per way a fact is taken in, and the conclusion |
| `Diagnosis` | `diagnose`, `synthesize_precondition` over `Algebra`; the answers of `z3_prove` | one action per proof, per skipped and per tried combination |
| `MCDiagnosis` | two variables of two bits, lists of facts and faulty rewrites | constants |
| `AlgebraProofs`, `DiagnosisProofs` | lemmas about `Algebra`; theorems about `Diagnosis` | proofs |
| `Planner` | `campaign_planner.py` | one action per turn, review reply, step of execution and change from outside |
| `MCPlanner` | two plans, one that runs a staged file and one that runs a tool | constants |
| `PlannerProofs` | theorems about `Planner` | proofs |
| `Induction` | nothing: least elements and induction over sequences, stated of sets | lemmas for the proofs |

`Campaign` extends `JobGraph`, `GapChecks` and `AgentLoop`, which share its variables.
`Triage` extends the same `AgentLoop`. `Validation` is the inside of the verdict that
`Campaign` takes as an input (`Verdicts`): an exception that leaves it is
`SynthesisInterrupted` there.

How state corresponds: `records[j]` is `Campaign.records.get(j)` (status `none` when
absent) with the hash of its output and, as history, the revision of the inputs it was
made under; `attempts` and `selected` are those of `GapChecks`; `used` is
`client.used`, `steps`, `strikes`, `seen`, `status` are fields of `AgentState`, and
`evidence` is its list reduced to invalid, repeat or new. `disk` is the declared
output of every job (one file per job, its content standing for its SHA-256),
`staged[i]` the candidates in `agent-staging/gap-attempt-i`, `ckpt` the file
`.campaign/checkpoint.json`, `reports` the campaign part of every report written.
`runs` is history. `inputs` is what the fingerprint is taken of.

A handler that runs to its end is one action. Nothing runs concurrently with it in
the process, and what another process can see between its writes is only visible when
it dies: `StepInterrupted`, `SynthesisInterrupted`, `StepRaises` and `Crash` are those
deaths. `_write` replaces the checkpoint atomically, so there is no torn checkpoint.

In `Planner`, `phase` says where `main` is; every model call, the execution, and every
check of bytes that is not one with the next ends an action, since anything on disk may
change there. `work` is what `import_draft` can rebuild from `history.json`: staged
files, discovered tools, inspected sources, the plan that patches name, and the history
itself; `Replay` is that rebuilding, a recursive function over the items. `approved` stands for the digest in
`Planner.approved`, by the bundle it is the digest of. `published.print` is the
fingerprint in the result, `agentPrint` the one `cv-agent` takes when it starts.
`saved` holds the directories with a report. Four variables are observations, which the
code has nothing like: `ran` holds the target and files that were on disk at any moment the
jobs of the execution ran, `changed` the places rewritten since `cv-agent` took its
fingerprint, `again` those rewritten once more, and `accepted` keeps `ran`, `again` and the
reviewed bundle of the last execution whose report was used. `EditRepo` and `EditStaged` are
the changes from outside; a target with uncommitted changes is `Dirty`.

In `TraceCheck` an input is the key of `Trace.pending`, `Same` is `equal_values`, `Hits`
says which lanes of an input match a requirement. A queue holds outputs, as the code's
does. In `Validation`, `content` is what the files hold, `hashes` the dictionary of line
54, `copies` the two libraries of each mode's directory; `pc` and `at` say where the
function is in its loops. Each subprocess is an action between two steps of the validator
and may do anything its position allows: the checker calls any library, ends with any
report, or is killed; a replay gives any output that the library's bytes can give.
The fixture is a subprocess of several steps: its own bytes run (`FixtureRuns`,
`BrokenFixtureRuns`), it runs the checker beside it (`FixtureRunsChecker`; for the last run
line 137 has put one that fails in its place) and loads the copies given to it, both of the
baseline and the AFTER library of a control (`FixtureLoads`, lines 122-128).
`observed`, `strayed`, `touched` and `retouched` are observations that the properties
need and the code does not have: what the calls of a run amounted to, and where bytes
that ran or were loaded were not the bytes hashed. The checker calls from one thread: a
call is one step, though `ctypes` lets other threads run inside it (`check_runner.py:128`),
so that of a threaded checker neither the cap nor the pairing is claimed.

In `Triage`, `phase` says where `run_agent` is, `at` which entry of the report it is at,
`busy` and `opened` belong to the `AgentState` of that entry, `waiting` is the verifier
whose subprocess runs. `det` is the orchestrator's report (family and check verdicts of
each pass), `records` the agent records, `prior` the concluded records of the report on
disk, which is all a resume reads. Each check carries, as an observation, the text it was
made on: the orchestrator reads a source when it starts, `_state_for` when the pass is
opened, a verifier when it answers. A source file's text is a member of a small set, and
what the code computes from it is its score for each family.

In `Algebra` a value is the set of its one-bits, and so is a mask; comparisons are with 0,
the only constant the recognizers produce. `known[x]` is `by_name[x]` together with the
place `known_bits_index` has for it (`at`), `normal` the list `normalized`, `seen` the keys
met. In `Diagnosis`, `bad` is the set of environments where the two sides of the rewrite
differ, which is all a proof asks of them; `pc` says whether the obligation is being built
(`recover`), asked by `diagnose` (`prove`), asked again by `synthesize_precondition`
(`again`) or searched. `Answers` is what `z3_prove` can return: proved, any counterexample,
unsupported when nothing satisfies the premises, or an error, at most `MaxSilent` times.
The list with a combination appended is normalized anew in the code; an
atom whose key is in the list is skipped as present or means the same, so the model takes
the union. `silent` is an observation: the combinations the solver gave no answer on.

## Runs

| run | instance | shows |
|---|---|---|
| `graph` | every graph on three jobs, every required set, all orders of settling | the recursions equal the fixed points; `_validate` accepts exactly the acyclic graphs; the gate never starves |
| `campaign` | three jobs (build, then report and native libraries), one bound and one unbound gap, two candidates, two attempts, three sessions, four calls each, crashes anywhere | recorded work is current on disk, ordered, never overwritten, always restartable, and implements the ledger |
| `disturbed` | two sessions, one edit of the inputs, one output changed from outside | no mixing of revisions, no second run of a settled job, every session ends |
| `malformed_report` | as `campaign`, a report of the wrong shape | violation of `SettledOnce` |
| `stale_report` | as `campaign`, resume may name any report | violation of `AttemptsPreserved` |
| `early_conclusion` | as `campaign`, the library job optional | violation of `ConclusionWaitsForBindings` |
| `authoring` | two plans, four calls, two directories, one repair round | histories rebuild drafts, nothing runs without its own review |
| `planning_edits` | one plan, two changes from outside at any moment | the jobs of an accepted execution met only reviewed bytes, but for a place changed and changed back while they run; every invocation ends |
| `draft_tools` | as `authoring`, one plan needs a discovered tool | violation of `DraftRequalifies` |
| `validation` | four modes (identity, baseline, two controls), four calls in each, two inputs, two rewrites anywhere | tracing agrees with the log, an accepted checker earned it, what ran or was loaded is what was hashed, every validation decides |
| `triage` | two passes (a vendor source without a name, a standard pass by name), two calls, two sessions, one edit of a source | skipping, resuming, headlines and gates follow the budget, the text and the verifiers; every session ends unless a verifier hangs |
| `diagnosis` | every list of up to three of 23 facts with a sound rewrite; short lists with strict and weak power-of-two queries of one variable; every kind of small fault with no or one fact; one question without an answer | normalizing keeps the meaning and reported guards suffice and are smallest and none is missed, but for the exceptions named below |

Why the bounds are enough: three jobs contain a chain, a fork and an optional branch;
two attempts contain the limit and one below it; four calls let a session settle every
job or two jobs and two attempts, and the step cap is one above so that both limits
are met; three sessions contain a crash, a resume, a second crash and a resume of that.
In the planner four calls are the least that read, write, propose and review, so that
all rejected orders of them are met as well; the second directory starts from every
history the first can end with, and a repair of it is refused for want of a third. One
invocation starts without a draft: a second would start from the same state. The run
with outside changes needs a second content of the file and no second plan. Two changes
are one place changed and put back, or two places, at any two moments; the property excepts
the first inside one window, and the theorem holds for any number.

In triage two calls are shared by two passes with a cap of two each, so that either pass
can spend the budget, or both get one; two sessions are a run and its resume, and one
edit can fall at any point of them. The strategies are one per way of running and judging
one: a source check, a pass-runner with a canonical pass, one without, and the plugin.
With two passes the one exception of `ConcludedWorkKept` (the `break` on a spent budget
precedes the reuse of later passes) cannot occur; it needs three. In the validation four
calls are two pairs on one input, or one pair on each, in every order, with one call left
over; the cap is met. Two controls separate "every" from "the first". Two rewrites are
one place changed and put back, or two places; the exception for places rewritten twice
was checked apart with three.

In the diagnosis two variables are the least with pairs; a third adds no kind of atom. Of
two bits one is the sign, so there are zero, a positive power of two, the smallest integer
and a value that is neither. Three facts are a first, one merged into it and one between.
The 12 atoms are the whole vocabulary of two variables, so both lengths of combinations
are exhausted. Rewrites fail at up to six environments (`Few`), or at all but one value of
a variable: those are what one or two atoms can repair, or just fail to. The theorems below
hold without these bounds.

`MaxSessions`, `MaxTampers`, `MaxDirs`, `MaxEdits` and `MaxSilent` are bounds of the models; `MaxSteps`,
`Budget`, `MaxAttempts`, `CallCap` and `Minimum` are parameters of the program (`CallCap`
is 400000 in the code). Deadlock is not checked in
the campaign, triage, validation and diagnosis runs because the system stops: after the last session,
or after the verdict, nothing happens.

Each property of a passing run has a faulty variant of one definition, placed just
before it in its module, under which TLC finds the property violated.

Fairness is stated for liveness only: `FairSpec` gives weak fairness to the
disjunction of the loop's turns and `Finish`. A turn is taken because jobs, validations
and the model command all run under timeouts and the loop is a plain `while`; none of
the deaths, resumes, edits or tampering is fair. `Planner`'s `FairSpec` does the same
for turns, reviews and the steps of an execution; beginning an invocation and changes
from outside are not fair. `Triage` gives weak fairness to the steps of `run_agent`
(`Between`) and to the turns (`OneTurn`), which are straight-line code over a model
command with a timeout, and none to the answers of verifiers, which run without a timeout
(`run.py:76`); `SessionEnds` therefore excepts a verifier that runs for ever. `Validation`
gives weak fairness to the validator's own steps, the timeout of `execute` among them, and
none to the checker and the fixture.

## What the runs found

* A report job that completes with JSON of the wrong shape makes `snapshot()` raise in
  the checkpoint that would record it (`gap_checks.py:224`): the process exits 2 and
  every resume executes the job again, though completed jobs "cannot consume another
  execution".
* `--resume` with the report of an earlier session rolls back the attempts; the next
  candidate is written over one that a later report records (`gap_checks.py:293`),
  though a rejected checker is "never" overwritten.
* A conclusion is accepted while the job that builds a bound gap's libraries is
  optional and still ready (`gap_checks.py:261`), though neither exhaustion nor a
  missing binding holds.

* A directory continued from a draft does not log the tools it took over
  (`campaign_planner.py:361`). When it is continued in turn, by hand or by the second
  repair round, its published plan no longer validates, though a continued draft
  "requalifies the last structurally valid proposal".

Other places where code and comments part, met while modelling and written into the
models as the code has them:

* `attribution.py:26` says refutations are never filtered by attribution; `agent_headline`
  (`report.py:45`) filters all verdicts. `RefutationStands` excepts exactly that case.
* A secondary family's refutation does not reach the headline (`cv-orchestrate.py:154`),
  which `docs/agent-verification-process-review.md:92` knows; so are proposals that certify as
  unknown strategies (`:90`).
* Without `--pass-plugin`, `plugin-tv` is executed for every pass whose name a family
  lists (`plan.py:258`), the command cannot be built from a plugin `None`, and the verdict
  is `error` (`run.py:308`). Every family owns `plugin-tv`, so a standard pass given by name
  has the headline `error` even when all its other checks are proved, though the plan's
  table has the strategy run on an explicit plugin (`plan.py:41`).
* `_contradictory_combo` takes a power of two for positive (`pass_graph.py:2154`), which the
  smallest integer is not. The guard "a power of two and negative" is dropped as
  contradictory, and a fold that only it rescues, such as `x * 2` to `0`, is called unsound
  "for ANY modeled guard" (`:2161`). `NoGuardMissed` excepts those combinations (`SignsClash`).
  A fold of more than three variables is called unsound without a search (`:2172`).
* The flag of a power-of-two query that admits zero is no part of the algebra's key
  (`assumption_algebra.py:21`) nor of what it keeps of a variable: a strict query after a
  weak one is dropped, and from a weak one `x # 0` is derived. The evaluation of facts in
  `pass_graph.py:1734` reads every such query as strict, while the solver's reading admits
  zero, though the "engines must not drift" (`:1731`). A fold with both queries on one
  variable, weak first, loses the strict one; a rewrite that is sound under it (and was
  recovered with it) is then reported as lacking `isKnownNonZero`, though "[] if already
  sound" (`pass_graph.py:2160`). `MeaningKept` and `NoGuardMissed` except those lists
  (`Unmixed`), where without the exception TLC finds that case; contradictions and derived
  facts are stated for lists without weak queries (`Strict`). On all lists nothing is
  strengthened and what is reported as sound is.
* A reply whose `args` is not an object passes `validate_response` and can raise in the
  handler (`actions.py:90`); the report is lost (`HandlerRaises`).
* Synthesis is advertised as unavailable while diagnosing, but executed (`actions.py:406`).
* An orchestrator that writes no report makes `main` write `{}` over the report file, and
  with it the records a resume would reuse (`cli.py:97`, `cli.py:210`; `OrchestratorFails`).
* A tool that crashes before it writes a report is `inconclusive`, not `error`, for most
  strategies (`run.py:80`; `EmptyReport`).
* An agreeing checker can be rejected by an exception that leaves `validate_candidate`:
  a claimed output too large for a float raises `OverflowError` (`gap_checks.py:113`, `:150`).
* `equal_values` within one ulp is not transitive, and takes the largest float and
  infinity as neighbours; `Same` is therefore any relation.

## Proofs

Every safety property that a run checks is also a theorem, for every value of the
constants; where one needs more than the assumptions of its module, the theorem says so
and a run shows that it is needed. A theorem follows from an inductive invariant, which
TLC checked on the runs before it was proved.

`JobGraphProofs` proves, for every finite set of jobs and every graph, that the recursions
of `campaign.py` end and compute what `JobGraph` defines: `CycleCheckIsExact`,
`StatusIsLeast` (on acyclic graphs), `RequiredIsLeast` (on all). A recursive function is the
one solution of its equation. Each proof gives a solution (`StatusOf`; `Grown`, the least set
closed from `needed` on; `Met`, what a visit reaches without entering a visited job and
whether a cycle lies in it) and shows by a least counterexample that there is no other: an
acyclic set has a job that requires no other of it, and each call of `add` and `visit`
either goes deeper or has a shorter list. The heart of `CycleCheckIsExact` is `CircularStep`,
that a cycle cannot leave what an earlier visit finished, and `ReachedFromItself`.
`GateNeverStarves` follows from the same facts. Of the order of a list the proofs use only
that its first element is one of it.

`CampaignProofs` proves, for every graph, contents, bound and number of sessions:

* `TypeCorrect`, `CheckpointCurrent`: from `TypeInv`, the types together with
  `LoopInv` (a running loop has at most one strike, without which `strikes \in 0..2`
  is not inductive) and `ProcessInv` (a running process's memory equals its
  checkpoint, a dead one has none).
* `DependenciesFollowed`, `SelectedGapBuilt`: from `SoundInv`, which adds that every
  snapshot on disk is dependency closed and has its selected gap available. It speaks
  of the disk, and not only of the process, because a resume brings any of those
  snapshots back; it needs `AvailableGrows`, that availability survives the settling
  of one more job.
* `AlwaysRestartable`, `AttemptsAreGrounded`: from `CkptInv` (outputs and candidates on
  disk are those the checkpoint names, unless one was changed from outside) and
  `GroundInv` (every attempt of every snapshot was made on the libraries its own records
  name).
* `OneLine`, `VouchedOutputsKept`, `JudgedCandidatesKept`: from `LineInv`, under
  `~StaleReports`: every report is a stage of one line of checkpoints, each extending the
  one before. The run `stale_report` is the counterexample without the assumption.
* `NoMixedRevisions`: from `RevInv`, a session and all records of its checkpoint are of
  one revision of the inputs.
* `SettledJobsStaySettled`: from `RunsInv`, what ran so far is what the checkpoint records.
  It needs `~StaleReports` and `ShapedReports` (the report job writes what `gaps()`
  accepts); the run `malformed_report` is the counterexample without the second.
* `ConclusionExplained`: from `ConcludedInv`, kept by every later step since a concluded
  loop takes no turn.
* `IdleLoopDegrades`: from `IdleInv`, the strikes are the idle turns at the end of the
  evidence. The actions are grouped by what they do to the loop.
* `LedgerRefinement`: under `~StaleReports`, every step of a campaign is a step of
  `CampaignLedger` or a stutter. The assumption is needed: the `stale_report` run is
  its counterexample.

The assumptions are those of the modules (`GapAssumption`, `LoopAssumption`,
`CampaignAssumption`, `SavedAssumption`): an acyclic graph, a report job, bindings
that name jobs, positive limits. `_validate` and `GapChecks.__init__` enforce them; that
`_validate` does is `CycleCheckIsExact`.

`PlannerProofs` proves, for every set of plans, contents and targets, and any number of
directories, calls and rounds of repair:

* `TypeCorrect`, from types that include histories, whose items a draft replays.
* `HistoriesReplay`, `ReviewedIsExecuted`: from `WorkInv`, whose core is `Rebuilt`, the work is
  what its own history rebuilds. `UnderReview` says that while a plan is reviewed the history
  rebuilds the work before the proposal, `Approved` that what was approved is the last item
  and the bundle there is. It needs `ReplayStep` (an appended item is one more step of the
  recursion) and `ReplayOfReplay` (a draft of a draft), by induction over the length.
* `OnlyToolsAreMissing`: from `WorkInv` (`Requalifies`), a published draft qualifies exactly
  when the tools its plan uses are in its own history; nothing else gets lost. With it
  `DraftsRequalify`, provided no plan uses a discovered tool; the run `draft_tools` is the
  counterexample without.
* `AcceptedRanReviewedBytes`: from `WatchInv`. From `cv-agent`'s fingerprint on, a place
  that differed from it, now or at a moment the jobs ran, was changed, and a place changed
  once differs now; so when a report is used, which asks for the fingerprint again, whatever
  was changed was changed again. `unchanged` compares the disk with the reviewed bundle,
  which links both to the reviewer (`UnchangedIsReviewed`). The exception cannot be dropped:
  a file changed after `campaign.py:54` and put back before `campaign_planner.py:556` is
  compared with nothing, and the jobs ran on it.

`TriageProofs` proves, for every set of passes, families, strategies and texts, and any
number of sessions, calls and edits:

* `TypeCorrect`: from `Inv`, which is `TypeInv` and `ShapeInv` (which pass may be open, which
  have no record yet). The lemmas `StepKinds` and `TurnKinds` group the actions by what
  they change; the other proofs go by those kinds.
* `ExitFollowsVerifiers`: from `ReportInv` (a report has the headlines `merge` gives and the
  exit code of its gates) and `FoundInv` (a pass is refuted by the agent exactly when a check
  of its open state or its record refutes). `RefutedStaysRefuted` is about what `merge` and
  `attribute` compute and needs only the first.
* `ResumedIsOfThisText`, `CertifiedIsAboutThisText`: from `TextInv`: each record, open pass,
  waiting verifier and prior record names the text its checks were made on. The source may
  be edited at every step, so the invariant relates each of them to the time it was taken.
* `OnlyBudgetSkips`: from `CallInv`, `used` is the sum of the calls of the records and of the
  open pass. `CallsIn` is a recursive function over the passes; its lemmas say how the sum
  changes with one record. It needs `MaxSteps > 0`: with a cap of 0 a pass closes before its
  first call, as in the code, and spends nothing.
* `ConcludedIsKept`, an action property, from `WalkInv` (passes behind the loop have records)
  and `KeptInv` (what `--resume` accepted reaches the report).

Their assumptions are `OrchestratorAssumption`, `RecordAssumption`, `TriageAssumption` and
`LoopAssumption`.

`ValidationProofs` proves, for every set of inputs and outputs, every relation `Same`, all
controls, bounds and numbers of rewritten files, from one inductive invariant
`ValidationInv`:

* `TypesHold` from `BookTypeOK`, the types of the validator's own state, and the counters
  of `TraceInv`.
* `TracerAgrees` from `TraceInv`: each queue is the end of its log after the paired calls,
  and the counters are the cardinalities the property names. The step is `Call`; the
  lemmas on the tracer say how each cardinality changes when one more output is logged,
  with or without a partner, by bijection arguments over finite sets.
* `AcceptedIsEarned` from `SeenInv`: behind the mode the validator is at, every mode was
  observed as its kind requires. It needs `TracerAgrees` at the moment a checker ends,
  which links the tracer's counters to the calls.
* `AcceptedIsWhatRan` from `HashInv`: a place whose bytes strayed from the digests when they
  ran or were loaded, and that was not rewritten twice, still differs, so that one of the
  three readings sees it: of the copies at the end of their mode (line 120), of all copies
  after the fixture (143-146), of the originals (147). The second is there for the fixture,
  which rewrites and loads copies of earlier modes; the mutant leaves it out. The proof
  showed that a copy whose source was rewritten twice must be excepted as well.

Their assumptions are `TraceAssumption` (finitely many inputs, hits within the slots) and
`ValidationAssumption` (distinct controls, one named `negative`, files typed), which
`validate_coverage` and the campaign's binding check enforce.

`DiagnosisProofs` proves, for every number of variables and bits, every list of facts, every
rewrite, every order of the vocabulary and every number of unanswered questions, from one
inductive invariant `DiagnosisInv`:

* `NothingLost` from `AlgebraInv` of `AlgebraProofs`. It ties each summary to the facts read:
  `known[x]` holds exactly their bits and comparisons, its `at` points at a known-bits fact
  of `x` in the list, every fact read has its key in `seen`, and the list is equivalent to
  them. The last is not inductive without the pointer: `Merge` rewrites one entry, and the
  lemmas say that such an entry means its old bits and the new ones, and that two facts with
  one key mean the same unless they are a strict and a weak power-of-two query.
* `GuardFound` from `Stands` and `Passed`. That what is reported as sound is sound needs only
  that the solver is never given more than what was recovered, and holds for all lists. For
  the rest, every combination before the one at hand was dropped for a reason that still
  holds or was answered other than proved, so it does not suffice, was itself left
  unanswered, or clashes in signs. This needs that the solver was given no less either,
  that counterexamples satisfy those premises, and that evaluating an atom agrees with what
  it says to the solver. That combinations come in the order of `After` gives the
  minimality of what is found. It holds for `Unmixed` lists, in which no variable has both a
  strict and a weak power-of-two query (see "What the runs found" for what the code does on
  the others). Lists with weak queries only are covered: an atom that `_atom_key` takes for
  present though only a weak one is (`Offered`) asks no more than `isKnownNonZero` there,
  which is tried. `Unanswered` excepts the combinations whose own question got no answer, and
  everything when the first question got none, since the code then gives up (`:2182`).
* `DiagnosisTypes` from the type parts of both.

Their assumptions are `AlgebraAssumption` (the sign is a bit) and `DiagnosisAssumption` (the
vocabulary is that of `_candidate_atoms` over the variables).

Induction over data is available to these proofs in the form of `Induction`: a set of
naturals has a least element, and a set of sequences closed under `Append` holds all, stated
of sets because a theorem that takes an operator cannot be instantiated. Recursions are
therefore recursive functions, not recursive operators.

Only model-checked: the liveness properties `SessionEnds`, `RunEnds` and `Decides`, because
`ENABLED` and fairness are out of the provers' reach, and the four runs that show a violation.

## Not modelled

In `Campaign`, `validate_candidate` is a verdict; what libraries it hashes is kept, and
its inside is `Validation`. There the ABI of a call (arity, input domain) is left out: a
refused call changes nothing but raises in the checker. Two steps of the validator with no
subprocess between them are one action. In `Orchestrator`, regular expressions are scores,
a tool's report its counters; the language-model brain (`brain.py`) and the sweep
(`sweep.py`), which read finished reports, are left out. The runs use the plugin, symexec
and mined kinds of verdict; the other kinds (canonical contracts, scev, intent,
translation, model check) are translated but no run exercises them, since their effect on
a headline is that of the three. Log and transcript
files, request wording and truncation are left out. Two processes over one directory
at once are not modelled: neither code nor documentation provides for it. An input
edited while a process runs is not modelled, since the fingerprint is documented as a
check at resume. In the planner the checks of a plan's own text (`WellFormed`), sizes, the wording of
requests, the text of what was read and the recovery of histories written by older
versions are left out; the `expect` hash of a file to be replaced only makes a turn
fruitless. Of the
facts, relations between variables, non-poison and comparisons with constants other than
0 are left out: the algebra passes the first two through, and the recognizers do not make
the last. `diagnose` evaluates atoms at 32 bits, whatever the width of the fold, which for
comparisons with 0 and bits of narrower values could differ; the model has one width. What
one-variable rewrites mean is the set `bad`. Most of the
repository's lines, the validators, symbolic execution, intent recovery, mining, facts,
synthesis and the command-line audits, compute one answer from one program text: regular
expressions and AST matching over C++, construction of bit-vector terms, one solver call,
and the formatting of its answer. They keep no state between calls and nothing runs beside
them. A model of them would be the same term rewriting over strings once more, and what
makes it right is the semantics of LLVM and Z3, neither of which is in the repository. What
the rest of the system sees of them is the report, and every report is an input of
`Orchestrator`. Each is listed with its reason in `PROJECT.json`.

## Plan

Done, in this order: `JobGraph`, `GapChecks`, `AgentLoop`, `Campaign` and its runs,
`CampaignLedger`, `CampaignProofs`; `Planner`; `Orchestrator`, `Triage`; `TraceCheck`,
`Validation` and their proofs; `Algebra`, `Diagnosis` and theirs; the remaining theorems over
`Campaign`; `TriageProofs`, `PlannerProofs`; `JobGraphProofs`.

Left, most important first:

1. An abstract specification of triage (the budget as one purse, a record per pass written
   once) and the refinement, as `CampaignLedger` is for campaigns.
2. The same for the planner: an abstract register of reviewed plans, and the planner's
   publication and execution as steps of it.
3. Relations between variables and a separate width of evaluation in `Diagnosis`.
4. The text of what the planner read (`Planner.read`) with the citation check, and edits of
   a campaign's inputs while it runs.
5. Three passes in `MCTriage`, when the state space allows it.
