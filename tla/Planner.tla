------------------------------- MODULE Planner -------------------------------
(***************************************************************************)
(* Authoring of a campaign by a model (o2t/agent/campaign_planner.py).     *)
(*                                                                         *)
(* An invocation of cv-agent-design-campaign opens a planning directory,   *)
(* lets a model read sources, stage files and propose plans, has every     *)
(* plan that validates reviewed by a second model, and publishes the one a *)
(* review supports.  With --execute it hands the campaign to cv-agent and, *)
(* when a job failed, opens the next directory with the first as its draft *)
(* and the logs as feedback.  A draft carries no state but its history,    *)
(* which is replayed.                                                      *)
(*                                                                         *)
(* The process is sequential, but its model calls and the execution take   *)
(* minutes in which the repository and the staged files can change: every  *)
(* point at which it waits, and every check of bytes that is not one with  *)
(* the next, ends an action.  What Campaign does in an execution is here   *)
(* only its report.                                                        *)
(***************************************************************************)
EXTENDS Naturals, Sequences, FiniteSets

CONSTANTS Plans,       \* plans a model can propose
          NoPlan,
          Files,       \* names of staged files
          Texts,       \* what a staged file can hold
          NoText,
          Tools,       \* executables on PATH that discover-tool can find
          Sources,     \* tracked files of the repository
          WellFormed,  \* plans that pass the checks of their own text
          UsesFiles, UsesTools, Cites,   \* what the plan refers to
          Proposals,   \* <<base, plan>>: patches a model makes, NoPlan for none
          Revisions,   \* clean commits the target can be at
          Dirty,       \* the target with uncommitted changes
          Budget,      \* --budget
          Rounds,      \* --repair-rounds
          Execute,     \* --execute
          MaxDirs,     \* bound: planning directories
          MaxEdits     \* bound: changes from outside

ASSUME PlannerAssumption ==
  /\ NoPlan \notin Plans /\ NoText \notin Texts /\ Dirty \notin Revisions
  /\ WellFormed \subseteq Plans
  /\ UsesFiles \in [Plans -> SUBSET Files]
  /\ UsesTools \in [Plans -> SUBSET Tools]
  /\ Cites \in [Plans -> (SUBSET Sources) \ {{}}]
  /\ Proposals \subseteq (Plans \cup {NoPlan}) \X Plans
  /\ Budget \in Nat \ {0} /\ Rounds \in Nat /\ Execute \in BOOLEAN
  /\ MaxDirs \in Nat /\ MaxEdits \in Nat

VARIABLES
  phase,      \* what the invocation is at, "idle" when there is none
  round,      \* repairs made in this invocation
  work,       \* what a history can rebuild: files, tools, reads, current, history
  pending,    \* a plan from the draft, to be submitted first
  inputs,     \* Planner.inputs, hashed when the directory was opened
  feedback,   \* Planner.execution_feedback: the plan that failed
  used,       \* client.used
  sub,        \* the proposal under review, and how many replies were invalid
  approved,   \* Planner.approved, the bundle it is the digest of
  published,  \* staged/campaign.json, with the fingerprint of its inputs
  agentPrint, \* the fingerprint cv-agent took
  report,     \* execution-report.json
  ran,        \* observation: the repository and files cv-agent's jobs have met
  changed, again,   \* observation: places changed since its fingerprint, once and more
  accepted,   \* observation: ran, again and the bundle of the last report used
  saved,      \* planning directories with their planning-report.json
  repo,       \* the target repository
  staged,     \* staged/files
  edits

disk == <<repo, staged, edits>>
watched == <<ran, changed, again>>
execution == <<published, agentPrint, report, accepted, watched>>
vars == <<phase, round, work, pending, inputs, feedback, used, sub, approved,
          execution, saved, disk>>

-----------------------------------------------------------------------------
Phases == {"idle", "author", "review", "publish", "handoff", "start", "running",
           "ended", "recheck"}

Bytes == [Files -> Texts \cup {NoText}]
Verdict == {"supported", "revise", "uncertain"}
Outcomes == Verdict \cup {"none", "incomplete"}

ReadItem(s)     == [act |-> "read-source", arg |-> s]
WriteItem(f, t) == [act |-> "write-file", arg |-> <<f, t>>]
ToolItem(t)     == [act |-> "discover-tool", arg |-> t]

\* A proposal: the whole plan, or a patch of the plan `base`.
PlanItem(base, p, outcome) ==
  [act |-> IF base = NoPlan THEN "submit-plan" ELSE "patch-plan",
   base |-> base, plan |-> p, outcome |-> outcome]

Items == {ReadItem(s) : s \in Sources} \cup {WriteItem(f, t) : f \in Files, t \in Texts}
         \cup {ToolItem(t) : t \in Tools}
         \cup {PlanItem(b, p, o) : b \in Plans \cup {NoPlan}, p \in Plans, o \in Outcomes}

NothingStaged == [f \in Files |-> NoText]

FreshWork == [files |-> NothingStaged, tools |-> {}, reads |-> {},
              current |-> NoPlan, history |-> <<>>]

Logged(w, item) == [w EXCEPT !.history = Append(@, item)]

\* Planner.validate without its check of the bytes.
Valid(w, p) == /\ p \in WellFormed
               /\ UsesTools[p] \subseteq w.tools
               /\ \A f \in UsesFiles[p] : w.files[f] # NoText
               /\ Cites[p] \subseteq w.reads

\* Planner.unchanged.
Unchanged == /\ repo = inputs
             /\ \A f \in Files : work.files[f] # NoText => staged[f] = work.files[f]

Bundle(p) == [plan |-> p, files |-> work.files, reads |-> work.reads, tools |-> work.tools,
              inputs |-> inputs, feedback |-> feedback]

\* The fingerprint a Campaign takes of the published manifest, as far as it can
\* change: the text of campaign.json, plan.json and review.json is not modelled.
Fingerprint == [repo |-> repo, staged |-> staged]

\* Where the bytes an execution is about are: the repository, each staged file.
Target == <<"repo">>
StagedAt(f) == <<"staged", f>>

\* The places where `print` has other bytes than the bundle a reviewer saw.
Unreviewed(print, bundle) ==
  {place \in {Target} : print.repo # bundle.inputs}
  \cup {StagedAt(f) : f \in {g \in Files : /\ bundle.files[g] # NoText
                                          /\ print.staged[g] # bundle.files[g]}}

-----------------------------------------------------------------------------
(* Drafts: a history is replayed, item by item. *)

\* A proposal counts as the current plan when it had come to a review.
Proposed(r, item) ==
  [r EXCEPT !.pending = item.plan,
            !.current = IF item.outcome = "none" THEN @ ELSE item.plan,
            !.judged  = IF item.outcome = "none" THEN @ ELSE <<item.plan, item.outcome>>]

\* Faulty variant: proposals of the draft are not kept for the next one.
ReplayUnlogged(r, item) ==
  IF item.base \in {NoPlan, r.current} THEN Proposed(r, item) ELSE r

\* A patch of another plan than the current one is passed over.
ReplayPlan(r, item) ==
  IF item.base \in {NoPlan, r.current} THEN Logged(Proposed(r, item), item) ELSE r

ReplayItem(r, item) ==
  CASE item.act = "read-source"   -> Logged([r EXCEPT !.reads = @ \cup {item.arg}], item)
    [] item.act = "write-file"    -> Logged([r EXCEPT !.files[item.arg[1]] = item.arg[2]], item)
    [] item.act = "discover-tool" -> [r EXCEPT !.tools = @ \cup {item.arg}]
    [] item.act \in {"submit-plan", "patch-plan"} -> ReplayPlan(r, item)

BlankDraft == [files |-> NothingStaged, tools |-> {}, reads |-> {}, current |-> NoPlan,
               history |-> <<>>, pending |-> NoPlan, judged |-> <<NoPlan, "none">>]

Replay(history) ==
  LET after[n \in 0..Len(history)] ==
        IF n = 0 THEN BlankDraft ELSE ReplayItem(after[n - 1], history[n])
  IN  after[Len(history)]

WorkOf(r) == [files |-> r.files, tools |-> r.tools, reads |-> r.reads,
              current |-> r.current, history |-> r.history]

\* The plan a draft is continued with: its last proposal, or the last that
\* validated when the proposal does not validate now.
Continued(r) == IF Valid(r, r.pending) \/ r.current = NoPlan THEN r.pending ELSE r.current

Rejected(r) == r.judged[1] = Continued(r) /\ r.judged[2] \in {"revise", "uncertain"}

\* import_draft accepts the directory: same revision, same bytes, a proposal.
Importable(d) == d.inputs = repo /\ Replay(d.history).pending # NoPlan

\* import_draft and the beginning of run.  A draft whose last review rejected
\* the plan, or whose execution failed, is given to the model to repair; any
\* other is submitted as it is.
OpenDraft(d, fb) ==
  LET r == Replay(d.history)
      p == Continued(r)
      w == IF Rejected(r) THEN Logged(WorkOf(r), PlanItem(NoPlan, p, r.judged[2])) ELSE WorkOf(r)
      repair == Rejected(r) \/ fb # NoPlan
  IN  /\ Importable(d)
      /\ work' = IF repair THEN [w EXCEPT !.current = p] ELSE w
      /\ pending' = IF repair THEN NoPlan ELSE p
      /\ staged' = r.files

\* Planner's constructor: a fresh directory over a clean checkout.  Reading the
\* revision and the status and hashing the inventory (76, 77, 108) is one step:
\* a change between them that the constructor does not notice is not modelled.
NewPlanner(fb) ==
  /\ repo # Dirty
  /\ Cardinality(saved) < MaxDirs
  /\ phase' = "author"
  /\ inputs' = repo
  /\ feedback' = fb
  /\ used' = 0
  /\ approved' = NoPlan
  /\ sub' = NoPlan
  /\ UNCHANGED <<repo, edits>>

\* Another invocation without a draft is as the first: one is enough.
Begin ==
  /\ phase = "idle" /\ saved = {}
  /\ NewPlanner(NoPlan)
  /\ round' = 0
  /\ work' = FreshWork /\ pending' = NoPlan /\ staged' = NothingStaged
  /\ UNCHANGED <<execution, saved>>

BeginFromDraft(d) ==
  /\ phase = "idle"
  /\ NewPlanner(NoPlan)
  /\ round' = 0
  /\ OpenDraft(d, NoPlan)
  /\ UNCHANGED <<execution, saved>>

\* The invocation ends.  Of its memory and its directory nothing is used again
\* but what is in `saved`.
Unwatched == ran' = {} /\ changed' = {} /\ again' = {}

Forgotten ==
  /\ phase' = "idle" /\ round' = 0
  /\ work' = FreshWork /\ pending' = NoPlan /\ inputs' = NoPlan /\ feedback' = NoPlan
  /\ used' = 0 /\ sub' = NoPlan /\ approved' = NoPlan
  /\ published' = NoPlan /\ agentPrint' = NoPlan /\ report' = "none" /\ Unwatched
  /\ staged' = NothingStaged

-----------------------------------------------------------------------------
(* Authoring: one turn of Planner.run. *)

\* Faulty variant: the budget is not looked at between turns.
AuthoringUnbounded == phase = "author"

Authoring == phase = "author" /\ used < Budget

Ask == Authoring /\ pending = NoPlan /\ used' = used + 1

Inspected == work.reads # {}

authored == <<round, inputs, feedback, execution, saved, repo, edits>>

ReadSource(s) ==
  /\ Ask
  /\ work' = Logged([work EXCEPT !.reads = @ \cup {s}], ReadItem(s))
  /\ UNCHANGED <<phase, pending, sub, approved, staged, authored>>

\* Faulty variant: a repaired file is not logged again.
WriteUnlogged(f, t) ==
  /\ Ask /\ Inspected
  /\ work' = [work EXCEPT !.files[f] = t]
  /\ staged' = [staged EXCEPT ![f] = t]
  /\ approved' = NoPlan
  /\ UNCHANGED <<phase, pending, sub, authored>>

WriteFile(f, t) ==
  /\ Ask /\ Inspected
  /\ work' = Logged([work EXCEPT !.files[f] = t], WriteItem(f, t))
  /\ staged' = [staged EXCEPT ![f] = t]
  /\ approved' = NoPlan
  /\ UNCHANGED <<phase, pending, sub, authored>>

DiscoverTool(t) ==
  /\ Ask
  /\ work' = Logged([work EXCEPT !.tools = @ \cup {t}], ToolItem(t))
  /\ UNCHANGED <<phase, pending, sub, approved, staged, authored>>

\* No reply, or an action that fails or only lists.
Fruitless == /\ Ask
             /\ UNCHANGED <<phase, work, pending, sub, approved, staged, authored>>

\* A whole plan, or a patch of `base`, comes to its review or is logged with
\* the error that stopped it.
Consider(base, p) ==
  /\ approved' = IF Inspected THEN NoPlan ELSE approved
  /\ IF /\ Inspected
        /\ base \in {NoPlan, work.current}
        /\ Valid(work, p)
        /\ Unchanged
     THEN /\ phase' = "review"
          /\ work' = [work EXCEPT !.current = p]
          /\ sub' = [base |-> base, plan |-> p, invalid |-> 0, bundle |-> Bundle(p)]
     ELSE /\ work' = Logged(work, PlanItem(base, p, "none"))
          /\ UNCHANGED <<phase, sub>>

Propose(base, p) == /\ Ask
                    /\ Consider(base, p)
                    /\ UNCHANGED <<pending, staged, authored>>

SubmitPending == /\ Authoring /\ pending # NoPlan
                 /\ Consider(NoPlan, pending)
                 /\ pending' = NoPlan
                 /\ UNCHANGED <<used, staged, authored>>

\* Faulty variant: what is not rejected is approved.
ApprovesUncertain(verdict) == verdict # "revise"

Approves(verdict) == verdict = "supported"

\* The review is over.  An approved plan is validated once more, by publish.
EndReview(outcome) ==
  /\ work' = Logged(work, PlanItem(sub.base, sub.plan, outcome))
  /\ approved' = IF Approves(outcome) THEN sub.bundle ELSE approved
  /\ IF Approves(outcome) /\ Valid(work, sub.plan) /\ Unchanged /\ approved' = Bundle(sub.plan)
     THEN phase' = "publish" /\ UNCHANGED sub
     ELSE phase' = "author" /\ sub' = NoPlan
  /\ UNCHANGED <<pending, staged, authored>>

ReviewReply(verdict) == /\ phase = "review" /\ used < Budget
                        /\ used' = used + 1
                        /\ EndReview(verdict)

\* No reply or one of the wrong form: asked again once.
InvalidReview == /\ phase = "review" /\ used < Budget
                 /\ used' = used + 1
                 /\ IF sub.invalid = 0
                    THEN /\ sub' = [sub EXCEPT !.invalid = 1]
                         /\ UNCHANGED <<phase, work, pending, approved, staged, authored>>
                    ELSE EndReview("incomplete")

\* Faulty variant: waits for a call the budget no longer has.
NoBudgetOffByOne == /\ phase = "review" /\ used > Budget
                    /\ UNCHANGED used
                    /\ EndReview("incomplete")

NoBudgetForReview == /\ phase = "review" /\ used >= Budget
                     /\ UNCHANGED used
                     /\ EndReview("incomplete")

Directory(ready) == [history |-> work.history, inputs |-> inputs, ready |-> ready]

\* publish writes the manifest and takes the fingerprint of what is then there.
Publish ==
  /\ phase = "publish"
  /\ saved' = saved \cup {Directory(TRUE)}
  /\ IF Execute
     THEN /\ phase' = "handoff"
          /\ published' = [plan |-> sub.plan, bundle |-> approved, print |-> Fingerprint]
          /\ UNCHANGED <<round, work, pending, inputs, feedback, used, sub, approved,
                         agentPrint, report, watched, staged>>
     ELSE Forgotten
  /\ UNCHANGED <<accepted, repo, edits>>

OutOfBudget ==
  /\ phase = "author" /\ used >= Budget
  /\ saved' = saved \cup {Directory(FALSE)}
  /\ Forgotten
  /\ UNCHANGED <<accepted, repo, edits>>

-----------------------------------------------------------------------------
(* Execution and repair: the loop of main. *)

atHandoff == <<round, work, pending, inputs, feedback, used, sub, approved, saved, disk>>

\* Both checks of an execution's inputs let it go on, or end the invocation.
Check(at, holds, next) ==
  /\ phase = at
  /\ IF holds
     THEN /\ phase' = next
          /\ UNCHANGED <<execution, atHandoff>>
     ELSE /\ Forgotten
          /\ UNCHANGED <<accepted, saved, repo, edits>>

Handoff == Check("handoff", Fingerprint = published.print, "start")

AgentStarts == /\ phase = "start"
               /\ phase' = "running"
               /\ agentPrint' = Fingerprint
               /\ ran' = {Fingerprint} /\ changed' = {} /\ again' = {}
               /\ UNCHANGED <<published, report, accepted, atHandoff>>

\* cv-agent ends: all jobs completed, a job failed, neither, or the report is
\* absent, or its outputs or logs are not those it names.
AgentEnds == /\ phase = "running"
             /\ phase' = "ended"
             /\ report' \in {"complete", "failed", "incomplete", "none"}
             /\ UNCHANGED <<published, agentPrint, accepted, watched, atHandoff>>

\* Faulty variant: the planner's own inputs are not compared again.
InputsHoldAssumed == Check("ended", TRUE, "recheck")

InputsHold == Check("ended", Unchanged, "recheck")

\* The report can be used: made by cv-agent on the published campaign, whose
\* inputs are still those of its fingerprint.
ReportUsable == /\ Fingerprint = published.print
                /\ report # "none"
                /\ agentPrint = published.print

Accept == accepted' = [bundle |-> published.bundle, ran |-> ran, again |-> again]

Repairs == report = "failed" /\ round < Rounds

\* The execution is over and is not repaired.
Close == /\ phase = "recheck"
         /\ ~(ReportUsable /\ Repairs)
         /\ IF ReportUsable THEN Accept ELSE UNCHANGED accepted
         /\ Forgotten
         /\ UNCHANGED <<saved, repo, edits>>

Repair == /\ phase = "recheck"
          /\ ReportUsable /\ Repairs
          /\ Accept
          /\ NewPlanner(published.plan)
          /\ OpenDraft(Directory(TRUE), published.plan)
          /\ round' = round + 1
          /\ published' = NoPlan /\ agentPrint' = NoPlan /\ report' = "none" /\ Unwatched
          /\ UNCHANGED saved

\* The next directory cannot be opened: the target changed in the meantime.
RepairRefused == /\ phase = "recheck"
                 /\ ReportUsable /\ Repairs
                 /\ repo = Dirty \/ Cardinality(saved) >= MaxDirs \/ ~Importable(Directory(TRUE))
                 /\ Accept
                 /\ Forgotten
                 /\ UNCHANGED <<saved, repo, edits>>

-----------------------------------------------------------------------------
(* Changes from outside, at any time; jobs that run meet what is then there. *)

Watch(place) ==
  IF phase \in {"running", "ended", "recheck"}
  THEN /\ changed' = changed \cup {place}
       /\ again' = again \cup (changed \cap {place})
       /\ ran' = IF phase = "running" THEN ran \cup {Fingerprint'} ELSE ran
  ELSE UNCHANGED watched

Outside == /\ edits < MaxEdits
           /\ edits' = edits + 1
           /\ UNCHANGED <<phase, round, work, pending, inputs, feedback, used, sub, approved,
                          published, agentPrint, report, accepted, saved>>

\* The target is edited, committed or restored by someone else.
EditRepo == /\ repo' \in (Revisions \cup {Dirty}) \ {repo}
            /\ Outside
            /\ UNCHANGED staged
            /\ Watch(Target)

\* A staged file is overwritten by someone else.
EditStaged(f) == /\ phase # "idle" /\ staged[f] # NoText
                 /\ \E t \in Texts \ {staged[f]} : staged' = [staged EXCEPT ![f] = t]
                 /\ Outside
                 /\ UNCHANGED repo
                 /\ Watch(StagedAt(f))

Init == /\ phase = "idle" /\ round = 0
        /\ work = FreshWork /\ pending = NoPlan
        /\ inputs = NoPlan /\ repo \in Revisions
        /\ feedback = NoPlan /\ used = 0 /\ sub = NoPlan /\ approved = NoPlan
        /\ published = NoPlan /\ agentPrint = NoPlan /\ report = "none" /\ accepted = NoPlan
        /\ ran = {} /\ changed = {} /\ again = {}
        /\ saved = {} /\ staged = NothingStaged /\ edits = 0

Turn ==
  \/ \E s \in Sources : ReadSource(s)
  \/ \E f \in Files, t \in Texts : WriteFile(f, t)
  \/ \E t \in Tools : DiscoverTool(t)
  \/ Fruitless
  \/ \E p \in Proposals : Propose(p[1], p[2])
  \/ SubmitPending
  \/ \E v \in Verdict : ReviewReply(v)
  \/ InvalidReview
  \/ NoBudgetForReview
  \/ Publish
  \/ OutOfBudget

Execution == Handoff \/ AgentStarts \/ AgentEnds \/ InputsHold \/ Close \/ Repair \/ RepairRefused

Next == \/ Begin
        \/ \E d \in saved : BeginFromDraft(d)
        \/ Turn
        \/ Execution
        \/ EditRepo
        \/ \E f \in Files : EditStaged(f)

Spec == Init /\ [][Next]_vars

\* Model calls and executions run under timeouts and the rest is plain code.
FairSpec == Spec /\ WF_vars(Turn \/ Execution)

-----------------------------------------------------------------------------
TypeOK ==
  /\ phase \in Phases
  /\ round \in 0..Rounds /\ used \in 0..Budget /\ edits \in 0..MaxEdits
  /\ work.files \in Bytes /\ work.tools \subseteq Tools /\ work.reads \subseteq Sources
  /\ work.current \in Plans \cup {NoPlan} /\ work.history \in Seq(Items)
  /\ pending \in Plans \cup {NoPlan} /\ feedback \in Plans \cup {NoPlan}
  /\ inputs \in Revisions \cup {NoPlan} /\ repo \in Revisions \cup {Dirty}
  /\ staged \in Bytes
  /\ phase \in Phases \ {"idle", "author"} => sub.plan \in Plans /\ sub.invalid \in 0..1
  /\ report \in {"complete", "failed", "incomplete", "none"}

\* A history is all a draft has: at every turn it rebuilds the staged files,
\* what was inspected and the plan that patches have to name, those of earlier
\* drafts included (import_draft, "later execution-repair drafts retain their
\* patch bases", docs/autonomous-campaign-planning.md).
HistoryReplays ==
  phase = "author" =>
    LET r == Replay(work.history)
    IN  r.files = work.files /\ r.reads = work.reads /\ r.current = work.current

\* A campaign that is handed over was supported by a review of its own directory
\* of the exact plan, files, sources and tools, whatever drafts it came from
\* ("Prior approvals and execution results are never imported").
ExecutedWasReviewed ==
  phase \in {"handoff", "start", "running"} =>
    /\ PlanItem(sub.base, published.plan, "supported") = work.history[Len(work.history)]
    /\ published.bundle = Bundle(published.plan)

\* The jobs of an execution whose report is used, as a completion or as feedback,
\* met the very bytes the reviewer saw at every moment they ran, although these are
\* checked at other times than they are used (main, publish, unchanged).  Excepted
\* is a place changed at least twice between cv-agent's fingerprint (campaign.py 54)
\* and the use of the report: bytes changed after it and put back before `unchanged`
\* is asked are compared with nothing.
AcceptedRanReviewed ==
  accepted # NoPlan =>
    \A print \in accepted.ran : Unreviewed(print, accepted.bundle) \subseteq accepted.again

\* A draft of a published campaign requalifies over an unchanged target: "It
\* reconstructs incremental edits and requalifies the last structurally valid
\* proposal" (docs/autonomous-campaign-planning.md).
DraftRequalifies ==
  \A d \in saved : d.ready =>
    LET r == Replay(d.history) IN Valid(r, r.pending)

\* Every invocation comes to its end.
RunEnds == phase # "idle" ~> phase = "idle"
=============================================================================
