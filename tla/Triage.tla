------------------------------- MODULE Triage -------------------------------
(***************************************************************************)
(* Residue triage (o2t/agent/cli.py run_agent, report.py, the handlers of  *)
(* actions.py): the orchestrator's report, then one bounded agent loop per *)
(* pass it left open, all on one client budget, then the merge, the exit   *)
(* gates and the report that a later session is given with --resume.       *)
(*                                                                         *)
(* A pass is its position in the report.  The program runs alone; the user *)
(* edits sources at any time.  Verifiers are child processes without a     *)
(* timeout (run.py _run_json): `waiting` holds the one that runs.          *)
(*                                                                         *)
(* prior keeps, of the report on disk, what previously_concluded reads: the *)
(* concluded records.  `on`, agentNegative and disturbed are observations. *)
(***************************************************************************)
EXTENDS AgentLoop, Orchestrator

CONSTANTS NPasses,
          Name,          \* pass -> pass_name, or NoName
          HasSource,     \* pass -> it was given as a source file
          Texts,         \* what a source file can hold
          FirstText,     \* pass -> what its source file holds at first
          Gone,          \* the text of a file that cannot be read, or is empty
          Signals,       \* pass -> text -> family -> score of its signals
          ToolReports,   \* strategy -> reports its tool can write
          Proposals,     \* formally gated proposals: recover-fold, propose-*
          Rereads,       \* proposals about the source when none is supplied: recover-fold
          Supplied,      \* stands for text the model supplied
          GateVerdicts,  \* verdicts their proof can have
          Conclusions,   \* proposals of conclude
          EnableSynthesis,
          FailOnRefuted, FailOnAgentRefuted,
          NoRecord,
          Idle,          \* no verifier runs
          MaxSessions, MaxEdits   \* bounds of the model

Passes == 1..NPasses

ASSUME TriageAssumption ==
  /\ NPasses \in Nat \ {0}
  /\ HasSource \in [Passes -> BOOLEAN]
  /\ Gone \in Texts
  /\ FirstText \in [Passes -> Texts]
  /\ \A p \in Passes : ~HasSource[p] => FirstText[p] = Gone
  /\ Supplied \notin Texts
  /\ Rereads \subseteq Proposals
  /\ Proposals \cap Strategies = {}
  /\ GateVerdicts \subseteq Verdict
  /\ Idle \notin Strategies \cup Proposals
  /\ {EnableSynthesis, FailOnRefuted, FailOnAgentRefuted} \subseteq BOOLEAN
  /\ MaxSessions \in Nat /\ MaxEdits \in Nat

VARIABLES text,          \* source files, as they are now
          phase,         \* where run_agent is; "off" between sessions
          det,           \* deterministic entry of each pass: family and checks
          prior,         \* concluded records of the last report
          skip,          \* previously_concluded
          at,            \* entry the loop over the report is at
          busy,          \* run_pass_agent is running for it
          waiting,       \* verifier it waits for
          opened,        \* state.source_text
          formal,        \* state.formal_checks
          conclusion,    \* state.conclusion
          records,       \* agent records of this session
          exit,          \* how the last session ended
          agentNegative, \* passes an agent-dispatched verifier refuted
          disturbed,     \* sources edited while a session was running
          sessions, edits

passVars == <<opened, formal, conclusion, waiting>>
boundVars == <<sessions, edits>>
vars == <<loopVars, passVars, text, phase, det, prior, skip, at, busy, records, exit,
          agentNegative, disturbed, boundVars>>

HasText(p) == HasSource[p] /\ text[p] # Gone

DetStatus(p) == Headline(det[p].family, det[p].checks, Name[p])

\* RESIDUE_STATUSES; "skipped" needs a plan that was not executed.
Residue == {p \in Passes :
              DetStatus(p) \in {"unclassified", "advisory", "error", "refuted", "planned"}}

DetChecks(p) == {[strategy |-> s, verdict |-> det[p].checks[s], on |-> det[p].on] :
                   s \in DOMAIN det[p].checks}

AgentChecks(p) == IF records[p] = NoRecord THEN {} ELSE records[p].formal

AboutPass(p, checks) == {c \in checks : IsAboutPass(c.strategy, Name[p])}

-----------------------------------------------------------------------------
NothingDet == [family |-> NoFamily, checks |-> <<>>, on |-> Gone]

PassIdle == /\ opened = Gone
            /\ formal = {}
            /\ conclusion = "none"
            /\ waiting = Idle

\* The AgentState is gone.
PassOver == /\ steps' = 0 /\ strikes' = 0 /\ seen' = {} /\ status' = "running"
            /\ evidence' = <<>>
            /\ opened' = Gone /\ formal' = {} /\ conclusion' = "none"
            /\ waiting' = Idle

Init == /\ text = FirstText
        /\ phase = "off"
        /\ det = [p \in Passes |-> NothingDet]
        /\ prior = [p \in Passes |-> NoRecord]
        /\ skip = prior
        /\ at = 1
        /\ busy = FALSE
        /\ used = 0
        /\ LoopStart
        /\ PassIdle
        /\ records = prior
        /\ exit = "none"
        /\ agentNegative = {}
        /\ disturbed = {}
        /\ sessions = 0
        /\ edits = 0

\* The user edits or removes a source file; after the last session it would
\* change nothing.
Edit(p, t) == /\ edits < MaxEdits
              /\ phase # "off" \/ sessions < MaxSessions
              /\ HasSource[p]
              /\ t # text[p]
              /\ text' = [text EXCEPT ![p] = t]
              /\ edits' = edits + 1
              /\ disturbed' = IF phase = "off" THEN disturbed ELSE disturbed \cup {p}
              /\ UNCHANGED <<loopVars, passVars, phase, det, prior, skip, at, busy, records,
                             exit, agentNegative, sessions>>

\* cv-agent --resume <the last report>
Start == /\ phase = "off"
         /\ sessions < MaxSessions
         /\ sessions' = sessions + 1
         /\ phase' = "orchestrate"
         /\ used' = 0
         /\ records' = [p \in Passes |-> NoRecord]
         /\ skip' = records'
         /\ det' = [p \in Passes |-> NothingDet]
         /\ at' = 1
         /\ exit' = "none"
         /\ agentNegative' = {}
         /\ UNCHANGED <<steps, strikes, seen, status, evidence, passVars, text, prior,
                        busy, disturbed, edits>>

-----------------------------------------------------------------------------
\* What orchestrate may answer for a pass: every planned check has a verdict.
Entries(p) ==
  LET scores == ScoreOf(Signals[p][text[p]], Name[p])
      Outcome(s) == IF Feasible(s, Name[p], HasText(p))
                    THEN {Execute(s, Name[p], r) : r \in ToolReports[s]}
                    ELSE {"planned"}
  IN {[family |-> Primary(scores), checks |-> c, on |-> text[p]] :
        c \in {f \in [Planned(scores) -> UNION {Outcome(s) : s \in Planned(scores)}] :
                 \A s \in DOMAIN f : f[s] \in Outcome(s)}}

\* The orchestrator subprocess works through the passes, one step for each.
Orchestrate == /\ phase = "orchestrate" /\ at \in Passes
               /\ \E e \in Entries(at) : det' = [det EXCEPT ![at] = e]
               /\ at' = at + 1
               /\ UNCHANGED <<loopVars, passVars, text, phase, prior, skip, busy, records,
                              exit, agentNegative, disturbed, boundVars>>

\* No report: run_agent returns {}, which main writes over the report file.
OrchestratorFails == /\ phase = "orchestrate"
                     /\ phase' = "off"
                     /\ exit' = "no-report"
                     /\ prior' = [p \in Passes |-> NoRecord]
                     /\ UNCHANGED <<loopVars, passVars, text, det, skip, at, busy, records,
                                    agentNegative, disturbed, boundVars>>

\* Faulty variant: the digest is not compared.
ReusableUnguarded(p) == prior[p] # NoRecord

\* previously_concluded: the stored digest must be the file's; an unreadable
\* file and an empty one have none.
Reusable(p) == /\ prior[p] # NoRecord
               /\ HasSource[p] => HasText(p) /\ text[p] = prior[p].text

\* run_agent has read the orchestrator's report.
LoadPrior == /\ phase = "orchestrate" /\ at \notin Passes
             /\ at' = 1
             /\ skip' = [p \in Passes |-> IF Reusable(p) THEN prior[p] ELSE NoRecord]
             /\ phase' = "triage"
             /\ UNCHANGED <<loopVars, passVars, text, det, prior, busy, records, exit,
                            agentNegative, disturbed, boundVars>>

-----------------------------------------------------------------------------
\* The loop over the residue, between two passes.
Looking == phase = "triage" /\ ~busy /\ at \in Passes

NotResidue == /\ Looking
              /\ at \notin Residue
              /\ at' = at + 1
              /\ UNCHANGED <<loopVars, passVars, text, phase, det, prior, skip, busy, records,
                             exit, agentNegative, disturbed, boundVars>>

Reuse == /\ Looking
         /\ at \in Residue
         /\ skip[at] # NoRecord
         /\ records' = [records EXCEPT ![at] = [skip[at] EXCEPT !.resumed = TRUE]]
         /\ at' = at + 1
         /\ UNCHANGED <<loopVars, passVars, text, phase, det, prior, skip, busy, exit,
                        agentNegative, disturbed, boundVars>>

\* The budget is spent: break, whatever is left of the residue.
OutOfBudget == /\ Looking
               /\ at \in Residue
               /\ skip[at] = NoRecord
               /\ used >= Budget
               /\ phase' = "merge"
               /\ UNCHANGED <<loopVars, passVars, text, det, prior, skip, at, busy, records,
                              exit, agentNegative, disturbed, boundVars>>

\* Faulty variant: one pass more is begun on a spent budget.
OpenPassLate == /\ Looking
                /\ at \in Residue
                /\ skip[at] = NoRecord
                /\ used <= Budget
                /\ busy' = TRUE
                /\ opened' = text[at]
                /\ UNCHANGED <<loopVars, formal, conclusion, waiting, text, phase, det,
                               prior, skip, at, records, exit, agentNegative, disturbed,
                               boundVars>>

\* run_pass_agent on a fresh AgentState.
OpenPass == /\ Looking
            /\ at \in Residue
            /\ skip[at] = NoRecord
            /\ used < Budget
            /\ busy' = TRUE
            /\ opened' = text[at]
            /\ UNCHANGED <<loopVars, formal, conclusion, waiting, text, phase, det,
                           prior, skip, at, records, exit, agentNegative, disturbed,
                           boundVars>>

ResidueDone == /\ phase = "triage"
               /\ ~busy
               /\ at \notin Passes
               /\ phase' = "merge"
               /\ UNCHANGED <<loopVars, passVars, text, det, prior, skip, at, busy, records,
                              exit, agentNegative, disturbed, boundVars>>

-----------------------------------------------------------------------------
\* The turns of the agent loop.  The model chooses any of them.
runVars == <<opened, text, phase, det, prior, skip, at, busy, records, exit, disturbed,
             boundVars>>

Choosing == busy /\ waiting = Idle

Invalid == /\ Choosing
           /\ InvalidReply
           /\ UNCHANGED <<runVars, formal, conclusion, waiting, agentNegative>>

\* classify scores the text read at the start, mine-source the file.
Probe == /\ Choosing
         /\ \E look \in {<<"classify", opened>>, <<"mine-source", text[at]>>} :
              Turn(look, "running")
         /\ UNCHANGED <<runVars, formal, conclusion, waiting, agentNegative>>

\* A strategy whose needs are missing, or that has no source file.
Refused(s) == s \notin Runnable \/ (Target[s] = "source" /\ ~HasSource[at])

RefuseStrategy(s) == /\ Choosing
                     /\ Refused(s)
                     /\ Turn(<<"run-strategy", s, "refused">>, "running")
                     /\ UNCHANGED <<runVars, formal, conclusion, waiting, agentNegative>>

\* A verifier is started on the file; neither run.py nor pass_graph bounds it.
Dispatch(s) == /\ Choosing
               /\ Calling
               /\ s \in Strategies => ~Refused(s)
               /\ waiting' = s
               /\ UNCHANGED <<loopVars, runVars, formal, conclusion, agentNegative>>

\* The verdict joins formal_checks before the loop looks for a repetition.
Records(s, v, read) ==
  /\ Turn(<<s, v>>, "running")
  /\ formal' = formal \cup {[strategy |-> s, verdict |-> v, on |-> read]}

Returned(s, v, read) ==
  /\ Records(s, v, read)
  /\ waiting' = Idle
  /\ agentNegative' = IF v \in Negative THEN agentNegative \cup {at} ELSE agentNegative
  /\ UNCHANGED <<runVars, conclusion>>

\* The tool reads the file as late as it answers.
StrategyReturns == /\ busy /\ waiting \in Strategies
                   /\ \E r \in ToolReports[waiting] :
                        Returned(waiting, Execute(waiting, Name[at], r), text[at])

\* recover-fold and the propose-* actions: a declined proposal has no verdict.
ProposalReturns ==
  /\ busy /\ waiting \in Proposals
  /\ \/ \E v \in GateVerdicts : Returned(waiting, v, Supplied)
     \/ /\ waiting \in Rereads /\ opened # Gone
        /\ \E v \in GateVerdicts : Returned(waiting, v, opened)
     \/ /\ Turn(<<waiting, "declined">>, "running")
        /\ waiting' = Idle
        /\ UNCHANGED <<runVars, formal, conclusion, agentNegative>>

\* Also executed in diagnose mode: advertise says unavailable, nothing refuses.
\* Nothing reads what the staging area keeps.
Synthesize == /\ Choosing
              /\ EnableSynthesis
              /\ Turn(<<"synthesize-tool", "staged">>, "running")
              /\ UNCHANGED <<runVars, formal, conclusion, waiting, agentNegative>>

Conclude == /\ Choosing
            /\ \E c \in Conclusions : /\ Turn(<<"conclude", c>>, "concluded")
                                      /\ conclusion' = c
            /\ UNCHANGED <<runVars, formal, waiting, agentNegative>>

\* validate_response accepts recover-fold with args that are not an object;
\* the handler's args.get raises AttributeError, which nothing catches.
HandlerRaises == /\ Choosing
                 /\ Calling
                 /\ phase' = "off"
                 /\ exit' = "traceback"
                 /\ busy' = FALSE
                 /\ PassOver
                 /\ used' = used + 1
                 /\ UNCHANGED <<text, det, prior, skip, at, records, agentNegative,
                                disturbed, boundVars>>

WindDown == /\ Choosing
            /\ StepCap \/ BudgetGone
            /\ UNCHANGED <<runVars, formal, conclusion, waiting, agentNegative>>

CloseRecord == /\ Choosing
               /\ status # "running"
               /\ records' = [records EXCEPT ![at] =
                    [status |-> status, calls |-> steps, formal |-> formal,
                     conclusion |-> conclusion, text |-> opened,
                     resumed |-> FALSE, headline |-> "none"]]
               /\ at' = at + 1
               /\ busy' = FALSE
               /\ PassOver
               /\ UNCHANGED <<used, text, phase, det, prior, skip, exit, agentNegative,
                              disturbed, boundVars>>

-----------------------------------------------------------------------------
\* Faulty variant: a record that has a headline keeps it.
HeadlineKept(p) ==
  IF records[p].headline # "none" THEN records[p].headline
  ELSE AgentHeadline({c.verdict : c \in AboutPass(p, DetChecks(p) \cup records[p].formal)})

NewHeadline(p) ==
  AgentHeadline({c.verdict : c \in AboutPass(p, DetChecks(p) \cup records[p].formal)})

\* Faulty variant: only what the agent concluded on counts for its gate.
GateConcluded(recs) ==
  \/ FailOnRefuted /\ \E p \in Passes : DetStatus(p) = "refuted"
  \/ FailOnAgentRefuted /\ \E p \in Passes :
       recs[p] # NoRecord /\ recs[p].status = "concluded"
         /\ \E c \in recs[p].formal : c.verdict \in Negative

Gate(recs) ==
  \/ FailOnRefuted /\ \E p \in Passes : DetStatus(p) = "refuted"
  \/ FailOnAgentRefuted /\ \E p \in Passes :
       recs[p] # NoRecord /\ \E c \in recs[p].formal : c.verdict \in Negative

\* Faulty variant: what was only resumed is not saved again.
KeptFresh(record) ==
  IF record # NoRecord /\ record.status = "concluded" /\ ~record.resumed THEN record ELSE NoRecord

Kept(record) == IF record # NoRecord /\ record.status = "concluded" THEN record ELSE NoRecord

\* merge, the exit code, and the report main writes.
Merge == /\ phase = "merge"
         /\ records' = [p \in Passes |-> IF records[p] = NoRecord THEN NoRecord
                                         ELSE [records[p] EXCEPT !.headline = NewHeadline(p)]]
         /\ exit' = IF Gate(records') THEN "refuted" ELSE "ok"
         /\ prior' = [p \in Passes |-> Kept(records'[p])]
         /\ phase' = "off"
         /\ UNCHANGED <<loopVars, passVars, text, det, skip, at, busy, agentNegative,
                        disturbed, boundVars>>

-----------------------------------------------------------------------------
Between == \/ OrchestratorFails \/ Orchestrate \/ LoadPrior
           \/ NotResidue \/ Reuse \/ OutOfBudget \/ OpenPass \/ ResidueDone \/ Merge

OneTurn == \/ Invalid \/ Probe \/ Synthesize \/ Conclude \/ HandlerRaises
           \/ WindDown \/ CloseRecord
           \/ \E s \in Strategies : RefuseStrategy(s)
           \/ \E s \in Strategies \cup Proposals : Dispatch(s)

Returns == StrategyReturns \/ ProposalReturns

Next == \/ Start
        \/ \E p \in Passes, t \in Texts : Edit(p, t)
        \/ Between
        \/ OneTurn
        \/ Returns

\* The program runs on; nothing bounds the time a verifier takes.
Fairness == WF_vars(Between) /\ WF_vars(OneTurn)

Spec == Init /\ [][Next]_vars /\ Fairness

-----------------------------------------------------------------------------
Checks == [strategy : Strategies \cup Proposals, verdict : Verdict,
           on : Texts \cup {Supplied}]

AgentRecord == [status : Stopped, calls : 0..MaxSteps, formal : SUBSET Checks,
                conclusion : Conclusions \cup {"none"}, text : Texts,
                resumed : BOOLEAN,
                headline : {"none", "no-formal-evidence", "advisory", "error", "refuted",
                            "proved"}]

ASSUME RecordAssumption == NoRecord \notin AgentRecord

\* The state has the shape the program gives it, and no loop outgrows its
\* step cap or the client its budget.
TypeOK ==
  /\ LoopTypeOK
  /\ used <= Budget /\ steps <= MaxSteps
  /\ text \in [Passes -> Texts]
  /\ phase \in {"off", "orchestrate", "triage", "merge"}
  /\ \A p \in Passes : \A s \in DOMAIN det[p].checks : det[p].checks[s] \in Verdict
  /\ \A r \in {prior[p] : p \in Passes} \cup {skip[p] : p \in Passes}
               \cup {records[p] : p \in Passes} : r = NoRecord \/ r \in AgentRecord
  /\ at \in 1..NPasses + 1
  /\ busy \in BOOLEAN
  /\ waiting \in Strategies \cup Proposals \cup {Idle}
  /\ opened \in Texts
  /\ formal \subseteq Checks
  /\ conclusion \in Conclusions \cup {"none"}
  /\ exit \in {"none", "ok", "refuted", "no-report", "traceback"}
  /\ agentNegative \subseteq Passes

-----------------------------------------------------------------------------
Reported == phase = "off" /\ exit \in {"ok", "refuted"}

Attempted(p) == records[p] # NoRecord
Fresh == {p \in Passes : Attempted(p) /\ ~records[p].resumed}

\* The calls the records of this session account for.
CallsOf(r) == IF r = NoRecord \/ r.resumed THEN 0 ELSE r.calls

CallsIn(recs) ==
  LET upTo[n \in 0..NPasses] == IF n = 0 THEN 0 ELSE upTo[n - 1] + CallsOf(recs[n])
  IN upTo[NPasses]

\* The passes share one client (cli.py 108-127).  A report accounts for every
\* call of the session, no pass is begun without a call left for it, and a
\* pass of the residue has no record only behind a spent budget.
OnlySpentBudgetSkips ==
  Reported =>
    /\ CallsIn(records) = used
    /\ \A p \in Fresh : records[p].calls > 0
    /\ \A p \in Passes : Attempted(p) => p \in Residue
    /\ \A p \in Residue : ~Attempted(p) =>
         used = Budget /\ \A q \in Residue : q > p => ~Attempted(q)

\* "Completed work is reused" (cli.py 55): what --resume accepted is in the
\* next report too, unless the loop stopped at an earlier pass that was not
\* reusable (the break of cli.py 125 comes before the later reuses).
ConcludedWorkKept ==
  [][phase = "merge" =>
       \A p \in Residue : (skip[p] # NoRecord /\ prior'[p] = NoRecord) =>
         \E q \in Residue : q < p /\ skip[q] = NoRecord /\ ~Attempted(q)]_vars

\* previously_concluded (report.py 149-166): a resumed record is a concluded
\* one, and its verdicts are about the text the deterministic tier has just
\* read.  The digest is of the text read at the start of the pass, while the
\* verifiers read the file, so an edit during a session is excepted.
ResumedRecordIsOfThisText ==
  \A p \in Passes : (Attempted(p) /\ records[p].resumed) =>
    /\ records[p].status = "concluded"
    /\ p \notin disturbed => \A c \in records[p].formal : c.on \in {det[p].on, Supplied}

\* merge and agent_headline (report.py 37-85): nothing an agent runs or
\* concludes, in this session or the one resumed, turns a refuted pass into
\* another, unless each check that refuted it is a proof about other code.
RefutationStands ==
  Reported => \A p \in Passes : Attempted(p) =>
    /\ (DetStatus(p) = "refuted" /\ records[p].headline # "refuted") =>
         \A c \in DetChecks(p) : c.verdict \in Negative => ~IsAboutPass(c.strategy, Name[p])
    /\ (p \in agentNegative /\ records[p].headline # "refuted") =>
         \A c \in records[p].formal : c.verdict \in Negative => ~IsAboutPass(c.strategy, Name[p])

\* What a positive check says about pass p: a proposal of the model always
\* counts, whatever it is about (the first gap that
\* docs/agent-verification-process-review.md lists); a verifier must have read
\* the text of this session, or have run this pass.
IsEvidence(p, c) ==
  /\ c.verdict \in Positive
  /\ \/ c.strategy \in Proposals
     \/ c.strategy \in Strategies /\
          CASE Target[c.strategy] = "source"      -> c.on = det[p].on
            [] Target[c.strategy] = "pass-runner" -> CanonicalPass[c.strategy] \in {NoName, Name[p]}
            [] OTHER                              -> FALSE

\* "A positive verdict may only certify a pass it is actually about"
\* (cv-orchestrate.py 129): a pass either tier reports as proved has evidence
\* that is about it, and about the text this session began with, also when the
\* record was resumed.
CertifiedByThisText ==
  Reported => \A p \in Passes \ disturbed :
    /\ DetStatus(p) = "proved" => \E c \in DetChecks(p) : IsEvidence(p, c)
    /\ (Attempted(p) /\ records[p].headline = "proved") =>
         \E c \in DetChecks(p) \cup records[p].formal : IsEvidence(p, c)

\* The exit code (cli.py 159-168) follows the verifiers: a refutation found in
\* this session, or kept in a resumed record, fails it however the loop of its
\* pass ended, and what the model proposed or staged does not.
GateFollowsVerifiers ==
  Reported =>
    (exit = "refuted" <=>
       \/ FailOnRefuted /\ \E p \in Passes : DetStatus(p) = "refuted"
       \/ FailOnAgentRefuted /\
            \/ agentNegative # {}
            \/ \E p \in Passes \ Fresh : \E c \in AgentChecks(p) : c.verdict \in Negative)

\* run_agent returns, whatever the model answers, as long as no verifier runs
\* for ever (run.py 76 and pass_graph have no timeout).
SessionEnds == ~<>[](waiting # Idle) => (phase = "triage" ~> phase = "off")
=============================================================================
