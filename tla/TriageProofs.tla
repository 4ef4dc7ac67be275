---------------------------- MODULE TriageProofs ----------------------------
(***************************************************************************)
(* Theorems about Triage, for every number of passes, every text, every    *)
(* report a tool can write and every answer of the model.                  *)
(***************************************************************************)
EXTENDS Triage, Induction, TLAPS

-----------------------------------------------------------------------------
(* What the deterministic tier and the headlines can be. *)

LEMMA ExecuteIsVerdict == ASSUME NEW s, NEW n, NEW r PROVE Execute(s, n, r) \in Verdict
<1>1. Symexec(r) \in Verdict /\ Scev(r) \in Verdict /\ Intent(r) \in Verdict
  BY DEF Symexec, Scev, Intent, Verdict, Positive, Negative
<1>2. Mined(r) \in Verdict /\ Translation(r) \in Verdict /\ Contract(r) \in Verdict
  BY DEF Mined, Translation, Contract, Verdict, Positive, Negative
<1>3. ModelCheck(r) \in Verdict /\ Plugin(r) \in Verdict
  BY <1>2 DEF ModelCheck, Plugin, Verdict, Positive, Negative
<1>4. VerdictOf(s, r) \in Verdict
  BY <1>1, <1>2, <1>3 DEF VerdictOf, Verdict
<1> QED
  BY <1>4 DEF Execute, Verdict

AgentHeadlines == {"none", "no-formal-evidence", "advisory", "error", "refuted", "proved"}

LEMMA AgentHeadlineType == ASSUME NEW vs PROVE AgentHeadline(vs) \in AgentHeadlines
BY DEF AgentHeadline, AgentHeadlines

\* A deterministic entry: verdicts for some of the strategies, about a text.
IsEntry(e) == /\ DOMAIN e.checks \subseteq Strategies
              /\ \A s \in DOMAIN e.checks : e.checks[s] \in Verdict
              /\ e.on \in Texts

LEMMA NothingIsEntry == IsEntry(NothingDet)
BY TriageAssumption DEF IsEntry, NothingDet

LEMMA PlannedAreStrategies == ASSUME NEW scores PROVE Planned(scores) \subseteq Strategies
<1>1. \A f \in Retained(scores) : Owned[f] \subseteq Strategies
  BY OrchestratorAssumption DEF Retained
<1> QED
  BY <1>1 DEF Planned

LEMMA EntriesAreEntries ==
  ASSUME NEW p \in Passes, NEW e \in Entries(p), text[p] \in Texts
  PROVE  IsEntry(e) /\ e.on = text[p]
<1> DEFINE scores == ScoreOf(Signals[p][text[p]], Name[p])
           Outcome(s) == IF Feasible(s, Name[p], HasText(p))
                         THEN {Execute(s, Name[p], r) : r \in ToolReports[s]}
                         ELSE {"planned"}
<1>1. \A s : Outcome(s) \subseteq Verdict
  <2>1. "planned" \in Verdict
    BY DEF Verdict
  <2> QED
    BY <2>1, ExecuteIsVerdict
<1>2. PICK c \in {f \in [Planned(scores) -> UNION {Outcome(s) : s \in Planned(scores)}] :
                    \A s \in DOMAIN f : f[s] \in Outcome(s)} :
        e = [family |-> Primary(scores), checks |-> c, on |-> text[p]]
  BY DEF Entries
<1>3. DOMAIN c = Planned(scores) /\ \A s \in DOMAIN c : c[s] \in Outcome(s)
  BY <1>2
<1>4. e.checks = c /\ e.on = text[p]
  BY <1>2
<1> HIDE DEF Outcome, scores
<1> QED
  BY <1>1, <1>3, <1>4, PlannedAreStrategies DEF IsEntry

-----------------------------------------------------------------------------
(* Records. *)

MaybeRecord == AgentRecord \cup {NoRecord}

LEMMA WithResumed ==
  ASSUME NEW r \in AgentRecord
  PROVE  LET n == [r EXCEPT !.resumed = TRUE]
         IN  /\ n \in AgentRecord /\ n # NoRecord
             /\ n.resumed /\ n.status = r.status /\ n.formal = r.formal /\ n.text = r.text
<1> DEFINE n == [r EXCEPT !.resumed = TRUE]
<1>1. n \in AgentRecord
  BY DEF AgentRecord
<1>2. n.resumed /\ n.status = r.status /\ n.formal = r.formal /\ n.text = r.text
  BY DEF AgentRecord
<1> QED
  BY <1>1, <1>2, RecordAssumption

LEMMA WithHeadline ==
  ASSUME NEW r \in AgentRecord, NEW h \in AgentHeadlines
  PROVE  LET n == [r EXCEPT !.headline = h]
         IN  /\ n \in AgentRecord /\ n # NoRecord
             /\ n.headline = h /\ n.resumed = r.resumed /\ n.status = r.status
             /\ n.formal = r.formal /\ n.text = r.text /\ n.calls = r.calls
<1> DEFINE n == [r EXCEPT !.headline = h]
<1>1. n \in AgentRecord
  BY DEF AgentRecord, AgentHeadlines
<1>2. /\ n.headline = h /\ n.resumed = r.resumed /\ n.status = r.status
      /\ n.formal = r.formal /\ n.text = r.text /\ n.calls = r.calls
  BY DEF AgentRecord
<1> QED
  BY <1>1, <1>2, RecordAssumption

\* The record run_pass_agent ends with.
Closed == [status |-> status, calls |-> steps, formal |-> formal,
           conclusion |-> conclusion, text |-> opened,
           resumed |-> FALSE, headline |-> "none"]

\* What merge makes of the records.
Headed == [p \in Passes |-> IF records[p] = NoRecord THEN NoRecord
                            ELSE [records[p] EXCEPT !.headline = NewHeadline(p)]]

-----------------------------------------------------------------------------
(* The loop. *)

\* A running loop has one strike at most, and nothing outgrows its bound.
LoopInv == /\ LoopTypeOK
           /\ status # "resumed-complete"
           /\ status = "running" => strikes <= 1
           /\ used <= Budget /\ steps <= MaxSteps

\* What a turn does to the counters.
Called == used < Budget /\ steps < MaxSteps /\ status = "running" /\ Spend
NotCalled == /\ UNCHANGED <<used, steps>>
             /\ status' = status \/ steps >= MaxSteps \/ used >= Budget

LEMMA InvalidLoop == LoopInv /\ InvalidReply => LoopInv' /\ Called
<1> SUFFICES ASSUME LoopInv, InvalidReply PROVE LoopInv' /\ Called
  OBVIOUS
<1>1. Called
  BY DEF InvalidReply, Calling, Called
<1>2. used' \in Nat /\ steps' \in Nat /\ used' <= Budget /\ steps' <= MaxSteps
  BY <1>1, LoopAssumption DEF LoopInv, LoopTypeOK, Called, Spend
<1>3. strikes' \in 0..2 /\ status' \in {"degraded", "running"}
        /\ (status' = "running" => strikes' <= 1)
  BY DEF InvalidReply, Calling, Strike, LoopInv, LoopTypeOK
<1>4. evidence' \in Seq(EvidenceKind)
  BY DEF InvalidReply, LoopInv, LoopTypeOK, EvidenceKind
<1> QED
  BY <1>1, <1>2, <1>3, <1>4 DEF LoopInv, LoopTypeOK, Stopped

LEMMA TurnLoop ==
  ASSUME NEW sig, NEW after \in {"running", "concluded"}, LoopInv, Turn(sig, after)
  PROVE  LoopInv' /\ Called
<1>1. Called
  BY DEF Turn, Calling, Called
<1>2. used' \in Nat /\ steps' \in Nat /\ used' <= Budget /\ steps' <= MaxSteps
  BY <1>1, LoopAssumption DEF LoopInv, LoopTypeOK, Called, Spend
<1>3. strikes' \in 0..2 /\ status' \in {"degraded", "running", "concluded"}
        /\ (status' = "running" => strikes' <= 1)
  BY DEF Turn, Calling, Strike, LoopInv, LoopTypeOK
<1>4. evidence' \in Seq(EvidenceKind)
  BY DEF Turn, LoopInv, LoopTypeOK, EvidenceKind
<1> QED
  BY <1>1, <1>2, <1>3, <1>4 DEF LoopInv, LoopTypeOK, Stopped

LEMMA WindDownLoop == LoopInv /\ (StepCap \/ BudgetGone) => LoopInv' /\ NotCalled
BY DEF LoopInv, LoopTypeOK, StepCap, BudgetGone, NotCalled, Stopped

LEMMA SameLoop == LoopInv /\ UNCHANGED loopVars => LoopInv'
BY DEF LoopInv, LoopTypeOK, loopVars
-----------------------------------------------------------------------------
(* The shape of a state. *)

\* No pass is open but the one the loop over the report is at; what lies ahead
\* of the loop has no record; a session that runs has not ended.
ShapeInv ==
  /\ busy => phase = "triage" /\ at \in Passes
  /\ ~busy => steps = 0 /\ status = "running" /\ formal = {}
  /\ phase # "off" => exit = "none"
  /\ phase = "orchestrate" => /\ \A p \in Passes : records[p] = NoRecord /\ skip[p] = NoRecord
                              /\ agentNegative = {}
                              /\ used = 0
  /\ phase \in {"triage", "merge"} => \A p \in Passes : p >= at => records[p] = NoRecord

TypeInv ==
  /\ LoopInv
  /\ text \in [Passes -> Texts]
  /\ phase \in {"off", "orchestrate", "triage", "merge"}
  /\ DOMAIN det = Passes /\ det = [p \in Passes |-> det[p]]
  /\ \A p \in Passes : IsEntry(det[p])
  /\ prior \in [Passes -> MaybeRecord]
  /\ skip \in [Passes -> MaybeRecord]
  /\ records \in [Passes -> MaybeRecord]
  /\ at \in 1..(NPasses + 1)
  /\ busy \in BOOLEAN
  /\ waiting \in Strategies \cup Proposals \cup {Idle}
  /\ opened \in Texts
  /\ formal \subseteq Checks
  /\ conclusion \in Conclusions \cup {"none"}
  /\ exit \in {"none", "ok", "refuted", "no-report", "traceback"}
  /\ agentNegative \subseteq Passes

Inv == TypeInv /\ ShapeInv

-----------------------------------------------------------------------------
(* The turns of the agent loop, by what they do to the pass. *)

StaysOpen == /\ UNCHANGED runVars
             /\ busy
             /\ conclusion' \in {conclusion} \cup Conclusions
             /\ waiting' \in Strategies \cup Proposals \cup {Idle}
             /\ LoopInv'

\* Nothing is found.
Quiet == /\ StaysOpen
         /\ Called \/ NotCalled
         /\ formal' = formal
         /\ agentNegative' = agentNegative

\* What a verifier may answer: a strategy has read the file as it is now.
Answer(c) == /\ c \in Checks
             /\ \/ c.strategy \in Strategies /\ c.on = text[at]
                \/ c.strategy \in Proposals /\ c.on \in {Supplied, opened}

Finds(c) == /\ StaysOpen
            /\ Called
            /\ Answer(c)
            /\ formal' = formal \cup {c}
            /\ agentNegative' = IF c.verdict \in Negative THEN agentNegative \cup {at}
                                ELSE agentNegative

LEMMA ReturnedFinds ==
  ASSUME Inv, busy, NEW s \in Strategies \cup Proposals, NEW v \in Verdict,
         NEW read \in Texts \cup {Supplied},
         s \in Strategies => read = text[at],
         s \in Proposals => read \in {Supplied, opened},
         Returned(s, v, read)
  PROVE  \E c \in Checks : Finds(c)
<1> DEFINE c == [strategy |-> s, verdict |-> v, on |-> read]
<1>1. c \in Checks /\ c.strategy = s /\ c.verdict = v /\ c.on = read
  BY DEF Checks
<1>2. Answer(c)
  BY <1>1 DEF Answer
<1>3. Turn(<<s, v>>, "running")
  BY DEF Returned, Records
<1>4. LoopInv' /\ Called
  BY <1>3, TurnLoop DEF Inv, TypeInv
<1>5. /\ formal' = formal \cup {c}
      /\ agentNegative' = IF c.verdict \in Negative THEN agentNegative \cup {at} ELSE agentNegative
      /\ UNCHANGED runVars /\ conclusion' = conclusion /\ waiting' = Idle
  BY <1>1 DEF Returned, Records
<1> HIDE DEF c
<1> QED
  BY <1>1, <1>2, <1>4, <1>5 DEF Finds, StaysOpen

LEMMA TurnKinds ==
  ASSUME Inv, OneTurn \/ Returns
  PROVE  Quiet \/ (\E c \in Checks : Finds(c)) \/ HandlerRaises \/ CloseRecord
<1> USE DEF Inv, TypeInv, Quiet, StaysOpen
<1>1. ASSUME NEW sig, Choosing, Turn(sig, "running"),
             UNCHANGED <<runVars, formal, conclusion, waiting, agentNegative>>
      PROVE  Quiet
  <2>1. LoopInv' /\ Called
    BY <1>1, TurnLoop
  <2> QED
    BY <1>1, <2>1 DEF Choosing
<1>2. CASE Invalid
  <2>1. LoopInv' /\ Called
    BY <1>2, InvalidLoop DEF Invalid
  <2> QED
    BY <1>2, <2>1 DEF Invalid, Choosing
<1>3. CASE Probe
  BY <1>1, <1>3 DEF Probe
<1>4. ASSUME NEW s \in Strategies, RefuseStrategy(s) PROVE Quiet
  BY <1>1, <1>4 DEF RefuseStrategy
<1>5. ASSUME NEW s \in Strategies \cup Proposals, Dispatch(s) PROVE Quiet
  <2>1. LoopInv' /\ NotCalled
    BY <1>5, SameLoop DEF Dispatch, NotCalled, loopVars
  <2> QED
    BY <1>5, <2>1 DEF Dispatch, Choosing
<1>6. CASE Synthesize
  BY <1>1, <1>6 DEF Synthesize
<1>7. CASE Conclude
  <2>1. PICK c \in Conclusions : Turn(<<"conclude", c>>, "concluded") /\ conclusion' = c
    BY <1>7 DEF Conclude
  <2>2. LoopInv' /\ Called
    BY <2>1, TurnLoop
  <2> QED
    BY <1>7, <2>1, <2>2 DEF Conclude, Choosing
<1>8. CASE WindDown
  <2>1. LoopInv' /\ NotCalled
    BY <1>8, WindDownLoop DEF WindDown
  <2> QED
    BY <1>8, <2>1 DEF WindDown, Choosing
<1>9. CASE StrategyReturns
  <2>1. PICK r \in ToolReports[waiting] :
          Returned(waiting, Execute(waiting, Name[at], r), text[at])
    BY <1>9 DEF StrategyReturns
  <2>2. busy /\ waiting \in Strategies /\ waiting \notin Proposals
    BY <1>9, TriageAssumption DEF StrategyReturns
  <2>3. text[at] \in Texts
    BY <2>2 DEF ShapeInv
  <2> QED
    BY <2>1, <2>2, <2>3, ExecuteIsVerdict, ReturnedFinds
<1>10. CASE ProposalReturns
  <2>1. busy /\ waiting \in Proposals /\ waiting \notin Strategies
    BY <1>10, TriageAssumption DEF ProposalReturns
  <2>2. ASSUME NEW v \in GateVerdicts, NEW read \in {Supplied, opened}, Returned(waiting, v, read)
        PROVE  \E c \in Checks : Finds(c)
    BY <2>1, <2>2, ReturnedFinds, TriageAssumption
  <2>3. CASE /\ Turn(<<waiting, "declined">>, "running")
             /\ waiting' = Idle
             /\ UNCHANGED <<runVars, formal, conclusion, agentNegative>>
    <3>1. LoopInv' /\ Called
      BY <2>3, TurnLoop
    <3> QED
      BY <2>1, <2>3, <3>1
  <2> QED
    BY <1>10, <2>2, <2>3 DEF ProposalReturns
<1> QED
  BY <1>2, <1>3, <1>4, <1>5, <1>6, <1>7, <1>8, <1>9, <1>10 DEF OneTurn, Returns

\* The steps of a session, by their effect.
LEMMA StepKinds ==
  ASSUME Inv, Next
  PROVE  \/ Start
         \/ \E p \in Passes, t \in Texts : Edit(p, t)
         \/ Between
         \/ Quiet
         \/ \E c \in Checks : Finds(c)
         \/ HandlerRaises
         \/ CloseRecord
BY TurnKinds DEF Next

-----------------------------------------------------------------------------
(* The type and the shape of a state are inductive. *)

LEMMA InitInv == Init => Inv
<1> SUFFICES ASSUME Init PROVE Inv
  OBVIOUS
<1>1. LoopInv
  BY LoopAssumption DEF Init, LoopStart, LoopInv, LoopTypeOK
<1>2. 1 \in 1..(NPasses + 1) /\ FirstText \in [Passes -> Texts]
  BY TriageAssumption
<1>3. \A p \in Passes : IsEntry(det[p])
  BY NothingIsEntry DEF Init
<1>4. opened \in Texts /\ formal \subseteq Checks
  BY TriageAssumption DEF Init, PassIdle
<1>5. TypeInv
  BY <1>1, <1>2, <1>3, <1>4 DEF Init, TypeInv, MaybeRecord, PassIdle
<1>6. ShapeInv
  BY DEF Init, ShapeInv, LoopStart, PassIdle
<1> QED
  BY <1>5, <1>6 DEF Inv

\* The state of the loop when the AgentState is gone.
LEMMA PassOverLoop ==
  ASSUME LoopInv, PassOver, used' \in {used, used + 1}, used' <= Budget
  PROVE  /\ LoopInv'
         /\ opened' \in Texts /\ formal' \subseteq Checks
         /\ conclusion' \in Conclusions \cup {"none"}
         /\ waiting' \in Strategies \cup Proposals \cup {Idle}
         /\ steps' = 0 /\ status' = "running" /\ formal' = {}
<1>1. LoopInv'
  <2>1. used' \in Nat
    BY DEF LoopInv, LoopTypeOK
  <2> QED
    BY <2>1, LoopAssumption DEF PassOver, LoopInv, LoopTypeOK
<1> QED
  BY <1>1, TriageAssumption DEF PassOver

LEMMA ClosedIsRecord ==
  ASSUME Inv, CloseRecord
  PROVE  /\ Closed \in AgentRecord /\ Closed # NoRecord
         /\ records' = [records EXCEPT ![at] = Closed]
         /\ ~Closed.resumed /\ Closed.formal = formal /\ Closed.text = opened
         /\ Closed.calls = steps
<1>1. status \in Stopped /\ steps \in 0..MaxSteps
  BY LoopAssumption DEF Inv, TypeInv, LoopInv, LoopTypeOK, CloseRecord
<1>2. Closed \in AgentRecord
  BY <1>1 DEF Inv, TypeInv, Closed, AgentRecord
<1> QED
  BY <1>2, RecordAssumption DEF CloseRecord, Closed

LEMMA HeadedAreRecords ==
  ASSUME Inv
  PROVE  /\ Headed \in [Passes -> MaybeRecord]
         /\ \A p \in Passes :
              /\ records[p] = NoRecord => Headed[p] = NoRecord
              /\ records[p] # NoRecord =>
                   /\ Headed[p] \in AgentRecord /\ Headed[p] # NoRecord
                   /\ Headed[p].headline = NewHeadline(p)
                   /\ Headed[p].resumed = records[p].resumed
                   /\ Headed[p].status = records[p].status
                   /\ Headed[p].formal = records[p].formal
                   /\ Headed[p].text = records[p].text
                   /\ Headed[p].calls = records[p].calls
<1>1. ASSUME NEW p \in Passes, records[p] = NoRecord PROVE Headed[p] = NoRecord
  BY <1>1 DEF Headed
<1>2. ASSUME NEW p \in Passes, records[p] # NoRecord
      PROVE  /\ Headed[p] \in AgentRecord /\ Headed[p] # NoRecord
             /\ Headed[p].headline = NewHeadline(p)
             /\ Headed[p].resumed = records[p].resumed
             /\ Headed[p].status = records[p].status
             /\ Headed[p].formal = records[p].formal
             /\ Headed[p].text = records[p].text
             /\ Headed[p].calls = records[p].calls
  <2>1. records[p] \in AgentRecord
    BY <1>2 DEF Inv, TypeInv, MaybeRecord
  <2>2. NewHeadline(p) \in AgentHeadlines
    BY AgentHeadlineType DEF NewHeadline
  <2>3. Headed[p] = [records[p] EXCEPT !.headline = NewHeadline(p)]
    BY <1>2 DEF Headed
  <2> QED
    BY <2>1, <2>2, <2>3, WithHeadline
<1>3. \A p \in Passes : Headed[p] \in MaybeRecord
  BY <1>1, <1>2 DEF MaybeRecord
<1> QED
  BY <1>1, <1>2, <1>3 DEF Headed

LEMMA StepType == ASSUME Inv, [Next]_vars PROVE TypeInv'
<1> USE DEF Inv, TypeInv
<1>1. CASE Start
  <2>1. LoopInv'
    BY <1>1, LoopAssumption DEF Start, LoopInv, LoopTypeOK
  <2>2. \A p \in Passes : IsEntry(det'[p])
    BY <1>1, NothingIsEntry DEF Start
  <2>3. 1 \in 1..(NPasses + 1)
    BY TriageAssumption
  <2> QED
    BY <1>1, <2>1, <2>2, <2>3 DEF Start, passVars, MaybeRecord
<1>2. ASSUME NEW p \in Passes, NEW t \in Texts, Edit(p, t) PROVE TypeInv'
  <2>1. LoopInv'
    BY <1>2, SameLoop DEF Edit
  <2> QED
    BY <1>2, <2>1 DEF Edit, passVars
<1>3. CASE Between
  <2>1. CASE OrchestratorFails
    <3>1. LoopInv'
      BY <2>1, SameLoop DEF OrchestratorFails
    <3> QED
      BY <2>1, <3>1 DEF OrchestratorFails, passVars, MaybeRecord
  <2>2. CASE Orchestrate
    <3>1. LoopInv'
      BY <2>2, SameLoop DEF Orchestrate
    <3>2. PICK e \in Entries(at) : det' = [det EXCEPT ![at] = e]
      BY <2>2 DEF Orchestrate
    <3>3. at \in Passes /\ at' = at + 1
      BY <2>2 DEF Orchestrate
    <3>4. at' \in 1..(NPasses + 1)
      BY <3>3, TriageAssumption DEF Passes
    <3>5. IsEntry(e)
      BY <3>3, EntriesAreEntries
    <3>6. /\ \A p \in Passes : IsEntry(det'[p])
          /\ DOMAIN det' = Passes /\ det' = [p \in Passes |-> det'[p]]
      BY <3>2, <3>5
    <3> QED
      BY <2>2, <3>1, <3>4, <3>6 DEF Orchestrate, passVars
  <2>3. CASE LoadPrior
    <3>1. LoopInv'
      BY <2>3, SameLoop DEF LoadPrior
    <3>2. 1 \in 1..(NPasses + 1)
      BY TriageAssumption
    <3>3. skip' \in [Passes -> MaybeRecord]
      BY <2>3 DEF LoadPrior, MaybeRecord
    <3> QED
      BY <2>3, <3>1, <3>2, <3>3 DEF LoadPrior, passVars
  <2>4. CASE NotResidue
    <3>1. LoopInv'
      BY <2>4, SameLoop DEF NotResidue
    <3>2. at' \in 1..(NPasses + 1)
      BY <2>4, TriageAssumption DEF NotResidue, Looking, Passes
    <3> QED
      BY <2>4, <3>1, <3>2 DEF NotResidue, passVars
  <2>5. CASE Reuse
    <3>1. LoopInv'
      BY <2>5, SameLoop DEF Reuse
    <3>2. at' \in 1..(NPasses + 1)
      BY <2>5, TriageAssumption DEF Reuse, Looking, Passes
    <3>3. skip[at] \in AgentRecord
      BY <2>5 DEF Reuse, Looking, MaybeRecord
    <3>4. [skip[at] EXCEPT !.resumed = TRUE] \in MaybeRecord
      BY <3>3, WithResumed DEF MaybeRecord
    <3>5. records' \in [Passes -> MaybeRecord]
      BY <2>5, <3>4 DEF Reuse
    <3> QED
      BY <2>5, <3>1, <3>2, <3>5 DEF Reuse, passVars
  <2>6. CASE OutOfBudget
    <3>1. LoopInv'
      BY <2>6, SameLoop DEF OutOfBudget
    <3> QED
      BY <2>6, <3>1 DEF OutOfBudget, passVars
  <2>7. CASE OpenPass
    <3>1. LoopInv'
      BY <2>7, SameLoop DEF OpenPass
    <3>2. opened' \in Texts
      BY <2>7 DEF OpenPass, Looking
    <3> QED
      BY <2>7, <3>1, <3>2 DEF OpenPass
  <2>8. CASE ResidueDone
    <3>1. LoopInv'
      BY <2>8, SameLoop DEF ResidueDone
    <3> QED
      BY <2>8, <3>1 DEF ResidueDone, passVars
  <2>9. CASE Merge
    <3>1. LoopInv'
      BY <2>9, SameLoop DEF Merge
    <3>2. records' = Headed
      BY <2>9 DEF Merge, Headed
    <3>3. records' \in [Passes -> MaybeRecord]
      BY <3>2, HeadedAreRecords
    <3>4. prior' \in [Passes -> MaybeRecord]
      BY <2>9, <3>3 DEF Merge, Kept, MaybeRecord
    <3> QED
      BY <2>9, <3>1, <3>3, <3>4 DEF Merge, passVars
  <2> QED
    BY <1>3, <2>1, <2>2, <2>3, <2>4, <2>5, <2>6, <2>7, <2>8, <2>9 DEF Between
<1>4. CASE Quiet
  BY <1>4 DEF Quiet, StaysOpen, runVars
<1>5. ASSUME NEW c \in Checks, Finds(c) PROVE TypeInv'
  BY <1>5 DEF Finds, StaysOpen, runVars, ShapeInv
<1>6. CASE HandlerRaises
  <2>1. used' = used + 1 /\ used' <= Budget
    BY <1>6, LoopAssumption DEF HandlerRaises, Calling, LoopInv, LoopTypeOK
  <2>2. PassOver
    BY <1>6 DEF HandlerRaises
  <2> QED
    BY <1>6, <2>1, <2>2, PassOverLoop DEF HandlerRaises
<1>7. CASE CloseRecord
  <2>1. PassOver /\ used' = used /\ used' <= Budget
    BY <1>7 DEF CloseRecord, LoopInv
  <2>2. at' \in 1..(NPasses + 1)
    BY <1>7, TriageAssumption DEF CloseRecord, Choosing, ShapeInv, Passes
  <2>3. records' \in [Passes -> MaybeRecord]
    BY <1>7, ClosedIsRecord DEF MaybeRecord
  <2> QED
    BY <1>7, <2>1, <2>2, <2>3, PassOverLoop DEF CloseRecord
<1>8. CASE UNCHANGED vars
  <2>1. LoopInv'
    BY <1>8, SameLoop DEF vars
  <2> QED
    BY <1>8, <2>1 DEF vars, passVars
<1> QED
  BY <1>1, <1>2, <1>3, <1>4, <1>5, <1>6, <1>7, <1>8, StepKinds

LEMMA StepShape == ASSUME Inv, [Next]_vars PROVE ShapeInv'
<1> USE DEF Inv, ShapeInv
<1>0. at \in Nat /\ \A p \in Passes : p \in Nat
  BY TriageAssumption DEF TypeInv, Passes
<1>1. CASE Start
  BY <1>1 DEF Start, passVars
<1>2. ASSUME NEW p \in Passes, NEW t \in Texts, Edit(p, t) PROVE ShapeInv'
  BY <1>2 DEF Edit, passVars, loopVars
<1>3. CASE Between
  <2>1. CASE OrchestratorFails
    BY <2>1 DEF OrchestratorFails, passVars, loopVars
  <2>2. CASE Orchestrate
    BY <2>2 DEF Orchestrate, passVars, loopVars
  <2>3. CASE LoadPrior
    BY <2>3 DEF LoadPrior, passVars, loopVars
  <2>4. CASE NotResidue
    BY <2>4, <1>0 DEF NotResidue, Looking, passVars, loopVars
  <2>5. CASE Reuse
    <3>1. \A p \in Passes : p >= at' => records'[p] = NoRecord
      <4> TAKE p \in Passes
      <4> HAVE p >= at'
      <4>1. p >= at /\ p # at
        BY <2>5, <1>0 DEF Reuse
      <4>2. records'[p] = records[p]
        BY <2>5, <4>1 DEF Reuse, TypeInv
      <4> QED
        BY <2>5, <4>1, <4>2 DEF Reuse, Looking
    <3> QED
      BY <2>5, <3>1 DEF Reuse, Looking, passVars, loopVars
  <2>6. CASE OutOfBudget
    BY <2>6 DEF OutOfBudget, Looking, passVars, loopVars
  <2>7. CASE OpenPass
    BY <2>7 DEF OpenPass, Looking, loopVars
  <2>8. CASE ResidueDone
    BY <2>8 DEF ResidueDone, passVars, loopVars
  <2>9. CASE Merge
    BY <2>9 DEF Merge, passVars, loopVars
  <2> QED
    BY <1>3, <2>1, <2>2, <2>3, <2>4, <2>5, <2>6, <2>7, <2>8, <2>9 DEF Between
<1>4. CASE Quiet
  BY <1>4 DEF Quiet, StaysOpen, runVars
<1>5. ASSUME NEW c \in Checks, Finds(c) PROVE ShapeInv'
  BY <1>5 DEF Finds, StaysOpen, runVars
<1>6. CASE HandlerRaises
  BY <1>6 DEF HandlerRaises, PassOver
<1>7. CASE CloseRecord
  <2>1. \A p \in Passes : p >= at' => records'[p] = NoRecord
    <3> TAKE p \in Passes
    <3> HAVE p >= at'
    <3>1. p >= at /\ p # at
      BY <1>7, <1>0 DEF CloseRecord
    <3>2. records'[p] = records[p]
      BY <1>7, <3>1 DEF CloseRecord, TypeInv
    <3> QED
      BY <1>7, <3>1, <3>2 DEF CloseRecord, Choosing
  <2> QED
    BY <1>7, <2>1 DEF CloseRecord, Choosing, PassOver
<1>8. CASE UNCHANGED vars
  BY <1>8 DEF vars, passVars, loopVars
<1> QED
  BY <1>1, <1>2, <1>3, <1>4, <1>5, <1>6, <1>7, <1>8, StepKinds

LEMMA StepInv == Inv /\ [Next]_vars => Inv'
<1> SUFFICES ASSUME Inv, [Next]_vars PROVE Inv'
  OBVIOUS
<1> QED
  BY StepType, StepShape DEF Inv

LEMMA AlwaysInv == Spec => []Inv
<1> QED
  BY InitInv, StepInv, PTL DEF Spec

LEMMA InvTyped == Inv => TypeOK
<1> SUFFICES ASSUME Inv PROVE TypeOK
  OBVIOUS
<1>1. \A p \in Passes : \A s \in DOMAIN det[p].checks : det[p].checks[s] \in Verdict
  BY DEF Inv, TypeInv, IsEntry
<1>2. \A r \in {prior[p] : p \in Passes} \cup {skip[p] : p \in Passes}
                 \cup {records[p] : p \in Passes} : r = NoRecord \/ r \in AgentRecord
  BY DEF Inv, TypeInv, MaybeRecord
<1> QED
  BY <1>1, <1>2 DEF Inv, TypeInv, LoopInv, TypeOK

\* run_agent (cli.py 93-168) keeps the shape of its state: no loop outgrows
\* its step cap, no session its budget, and no verdict, record or entry is
\* written that its readers (report.py, select_residue) do not know.
THEOREM TypeCorrect == Spec => []TypeOK
BY AlwaysInv, InvTyped, PTL

-----------------------------------------------------------------------------
(* What was refuted stays refuted. *)

\* A report has the headlines of merge, and the exit code of its gates.
ReportInv == Reported => /\ \A p \in Passes : Attempted(p) => records[p].headline = NewHeadline(p)
                         /\ exit = "refuted" <=> Gate(records)

LEMMA InitReport == Init => ReportInv
BY DEF Init, ReportInv, Reported

LEMMA StepReport == ASSUME Inv, ReportInv, [Next]_vars PROVE ReportInv'
<1> DEFINE Same == UNCHANGED <<phase, exit, records, det>>
<1>1. ASSUME Same PROVE ReportInv'
  BY <1>1 DEF ReportInv, Reported, Attempted, NewHeadline, AboutPass, DetChecks,
              Gate, DetStatus
<1>2. ASSUME phase' # "off" PROVE ReportInv'
  BY <1>2 DEF ReportInv, Reported
<1>3. CASE Start
  BY <1>2, <1>3 DEF Start
<1>4. ASSUME NEW p \in Passes, NEW t \in Texts, Edit(p, t) PROVE ReportInv'
  BY <1>1, <1>4 DEF Edit
<1>5. CASE Between
  <2>1. CASE OrchestratorFails
    BY <2>1 DEF OrchestratorFails, ReportInv, Reported
  <2>2. CASE Merge
    <3>1. records' = Headed
      BY <2>2 DEF Merge, Headed
    <3>2. ASSUME NEW p \in Passes, Attempted(p)'
          PROVE  records'[p].headline = NewHeadline(p)'
      <4>1. records[p] # NoRecord
        BY <3>1, <3>2, HeadedAreRecords DEF Attempted
      <4>2. records'[p].headline = NewHeadline(p) /\ records'[p].formal = records[p].formal
        BY <3>1, <4>1, HeadedAreRecords
      <4>3. NewHeadline(p)' = NewHeadline(p)
        BY <2>2, <4>2 DEF Merge, NewHeadline, AboutPass, DetChecks
      <4> QED
        BY <4>2, <4>3
    <3>3. Gate(records') <=> Gate(records)'
      BY <2>2 DEF Merge, Gate, DetStatus
    <3>4. exit' = "refuted" <=> Gate(records')
      BY <2>2 DEF Merge
    <3> QED
      BY <3>2, <3>3, <3>4 DEF ReportInv
  <2>3. CASE Orchestrate \/ LoadPrior \/ NotResidue \/ Reuse \/ OutOfBudget \/ OpenPass
             \/ ResidueDone
    BY <1>2, <2>3 DEF Orchestrate, LoadPrior, NotResidue, Reuse, OutOfBudget, OpenPass,
                      ResidueDone, Looking
  <2> QED
    BY <1>5, <2>1, <2>2, <2>3 DEF Between
<1>6. CASE Quiet
  BY <1>1, <1>6 DEF Quiet, StaysOpen, runVars
<1>7. ASSUME NEW c \in Checks, Finds(c) PROVE ReportInv'
  BY <1>1, <1>7 DEF Finds, StaysOpen, runVars
<1>8. CASE HandlerRaises
  BY <1>8 DEF HandlerRaises, ReportInv, Reported
<1>9. CASE CloseRecord
  BY <1>2, <1>9 DEF CloseRecord, Choosing, Inv, ShapeInv
<1>10. CASE UNCHANGED vars
  BY <1>1, <1>10 DEF vars
<1> QED
  BY <1>3, <1>4, <1>5, <1>6, <1>7, <1>8, <1>9, <1>10, StepKinds

LEMMA AlwaysReport == Spec => []ReportInv
BY AlwaysInv, InitReport, StepReport, PTL DEF Spec

\* A refutation about the pass decides its headline, wherever it comes from.
LEMMA NegativeDecides ==
  ASSUME NEW p \in Passes, NEW c \in DetChecks(p) \cup records[p].formal,
         c.verdict \in Negative, IsAboutPass(c.strategy, Name[p])
  PROVE  NewHeadline(p) = "refuted"
<1> DEFINE vs == {k.verdict : k \in AboutPass(p, DetChecks(p) \cup records[p].formal)}
<1>1. c \in AboutPass(p, DetChecks(p) \cup records[p].formal)
  BY DEF AboutPass
<1>2. vs # {} /\ vs \cap Negative # {}
  BY <1>1
<1>3. AgentHeadline(vs) = "refuted"
  BY <1>2 DEF AgentHeadline
<1> QED
  BY <1>3 DEF NewHeadline

\* What either tier refuted is not reported as anything else, whatever the
\* model answered, in this session or in the one it resumes, unless each check
\* that refuted it is about other code (report.py 37-85).
THEOREM RefutedStaysRefuted == Spec => []RefutationStands
<1>1. Inv /\ ReportInv => RefutationStands
  BY NegativeDecides DEF ReportInv, RefutationStands
<1> QED
  BY <1>1, AlwaysInv, AlwaysReport, PTL

-----------------------------------------------------------------------------
(* The gate follows the verifiers. *)

Refutes(checks) == \E c \in checks : c.verdict \in Negative

\* A verifier the agent dispatched refuted p: its check is among those of the
\* open pass, or in a record of this session.
FoundFor(p) == \/ busy /\ at = p /\ Refutes(formal)
               \/ p \in Fresh /\ Refutes(records[p].formal)

FoundInv == exit # "traceback" => \A p \in Passes : p \in agentNegative <=> FoundFor(p)

LEMMA InitFound == Init => FoundInv
BY DEF Init, FoundInv, FoundFor, Fresh, Attempted

LEMMA StepFound == ASSUME Inv, FoundInv, [Next]_vars PROVE FoundInv'
<1> DEFINE Same == UNCHANGED <<busy, at, formal, records, agentNegative>>
<1>0. at \in Nat /\ \A p \in Passes : p \in Nat
  BY TriageAssumption DEF Inv, TypeInv, Passes
<1>1. ASSUME Same, exit' = "traceback" \/ exit # "traceback" PROVE FoundInv'
  BY <1>1 DEF FoundInv, FoundFor, Fresh, Attempted
<1>2. ASSUME ~busy, ~busy', UNCHANGED <<records, agentNegative>>, exit # "traceback"
      PROVE  FoundInv'
  BY <1>2 DEF FoundInv, FoundFor, Fresh, Attempted
<1>3. CASE Start
  <2>1. ~busy'
    BY <1>3 DEF Start, Inv, ShapeInv
  <2> QED
    BY <1>3, <2>1 DEF Start, FoundInv, FoundFor, Fresh, Attempted
<1>4. ASSUME NEW p \in Passes, NEW t \in Texts, Edit(p, t) PROVE FoundInv'
  BY <1>1, <1>4 DEF Edit, passVars, FoundInv
<1>5. CASE Between
  <2>1. CASE OrchestratorFails
    BY <1>1, <2>1 DEF OrchestratorFails, passVars, Inv, ShapeInv
  <2>2. CASE Orchestrate \/ LoadPrior
    <3>1. ~busy /\ ~busy' /\ exit = "none" /\ UNCHANGED <<records, agentNegative>>
      BY <2>2 DEF Orchestrate, LoadPrior, Inv, ShapeInv
    <3> QED
      BY <3>1, <1>2
  <2>3. CASE NotResidue
    BY <1>2, <2>3 DEF NotResidue, Looking, Inv, ShapeInv
  <2>4. CASE Reuse
    <3>1. at \in Passes /\ ~busy /\ ~busy' /\ records[at] = NoRecord /\ exit = "none"
            /\ agentNegative' = agentNegative
      BY <2>4, <1>0 DEF Reuse, Looking, Inv, ShapeInv
    <3>2. skip[at] \in AgentRecord
      BY <2>4, <3>1 DEF Reuse, Inv, TypeInv, MaybeRecord
    <3>3. records'[at].resumed
      BY <2>4, <3>1, <3>2, WithResumed DEF Reuse, Inv, TypeInv
    <3>4. \A p \in Passes : p # at => records'[p] = records[p]
      BY <2>4 DEF Reuse, Inv, TypeInv
    <3>5. at \notin Fresh /\ at \notin Fresh'
      BY <3>1, <3>3 DEF Fresh, Attempted
    <3>6. \A p \in Passes : p # at => (p \in Fresh <=> p \in Fresh')
      BY <3>4 DEF Fresh, Attempted
    <3>7. \A p \in Passes : FoundFor(p) <=> FoundFor(p)'
      BY <3>1, <3>4, <3>5, <3>6 DEF FoundFor
    <3> QED
      BY <3>1, <3>7 DEF FoundInv
  <2>5. CASE OutOfBudget \/ ResidueDone
    BY <1>2, <2>5 DEF OutOfBudget, ResidueDone, Looking, Inv, ShapeInv
  <2>6. CASE OpenPass
    <3>1. formal = {} /\ formal' = {}
      BY <2>6 DEF OpenPass, Looking, Inv, ShapeInv
    <3>2. UNCHANGED <<records, agentNegative>> /\ exit = "none"
      BY <2>6 DEF OpenPass, Looking, Inv, ShapeInv
    <3>3. ~Refutes(formal) /\ ~Refutes(formal')
      BY <3>1 DEF Refutes
    <3> QED
      BY <3>2, <3>3 DEF FoundInv, FoundFor, Fresh, Attempted, Refutes
  <2>7. CASE Merge
    <3>1. records' = Headed /\ ~busy /\ ~busy' /\ agentNegative' = agentNegative
            /\ exit = "none"
      BY <2>7 DEF Merge, Headed, Inv, ShapeInv
    <3>2. \A p \in Passes : p \in Fresh <=> p \in Fresh'
      BY <3>1, HeadedAreRecords DEF Fresh, Attempted
    <3>3. \A p \in Passes : p \in Fresh => records'[p].formal = records[p].formal
      BY <3>1, HeadedAreRecords DEF Fresh, Attempted
    <3>4. \A p \in Passes : FoundFor(p) <=> FoundFor(p)'
      BY <3>1, <3>2, <3>3 DEF FoundFor, Refutes
    <3> QED
      BY <3>1, <3>4 DEF FoundInv
  <2> QED
    BY <1>5, <2>1, <2>2, <2>3, <2>4, <2>5, <2>6, <2>7 DEF Between
<1>6. CASE Quiet
  BY <1>1, <1>6 DEF Quiet, StaysOpen, runVars, FoundInv
<1>7. ASSUME NEW c \in Checks, Finds(c) PROVE FoundInv'
  <2>1. busy /\ busy' /\ at' = at /\ records' = records /\ exit' = exit /\ exit = "none"
    BY <1>7 DEF Finds, StaysOpen, runVars, Inv, ShapeInv
  <2>2. Refutes(formal') <=> (Refutes(formal) \/ c.verdict \in Negative)
    BY <1>7 DEF Finds, Refutes
  <2>3. \A p \in Passes : p \in agentNegative' <=>
          (p \in agentNegative \/ (p = at /\ c.verdict \in Negative))
    BY <1>7 DEF Finds
  <2>4. \A p \in Passes : FoundFor(p)' <=> (FoundFor(p) \/ (p = at /\ c.verdict \in Negative))
    <3>1. \A p \in Passes : (p \in Fresh /\ Refutes(records[p].formal)) <=>
                           (p \in Fresh /\ Refutes(records[p].formal))'
      BY <2>1 DEF Fresh, Attempted, Refutes
    <3>2. Refutes(formal') <=> Refutes(formal)'
      BY DEF Refutes
    <3> HIDE DEF Same
    <3> QED
      BY <2>1, <2>2, <3>1, <3>2 DEF FoundFor
  <2> QED
    BY <2>1, <2>3, <2>4 DEF FoundInv
<1>8. CASE HandlerRaises
  BY <1>8 DEF HandlerRaises, FoundInv
<1>9. CASE CloseRecord
  <2>1. at \in Passes /\ busy /\ ~busy' /\ records[at] = NoRecord /\ exit = "none"
          /\ agentNegative' = agentNegative
    BY <1>9, <1>0 DEF CloseRecord, Choosing, Inv, ShapeInv
  <2>2. records'[at] = Closed
    BY <1>9, <2>1, ClosedIsRecord DEF Inv, TypeInv
  <2>3. at \notin Fresh /\ at \in Fresh' /\ records'[at].formal = formal
    BY <1>9, <2>1, <2>2, ClosedIsRecord DEF Fresh, Attempted
  <2>4. \A p \in Passes : p # at => records'[p] = records[p]
    BY <1>9 DEF CloseRecord, Inv, TypeInv
  <2>5. \A p \in Passes : p # at => (p \in Fresh <=> p \in Fresh')
    BY <2>4 DEF Fresh, Attempted
  <2>6. ASSUME NEW p \in Passes, p # at PROVE FoundFor(p) <=> FoundFor(p)'
    BY <2>1, <2>4, <2>5, <2>6 DEF FoundFor, Refutes
  <2>7. FoundFor(at) <=> Refutes(formal)
    BY <2>1, <2>3 DEF FoundFor
  <2>8. ASSUME NEW p \in Passes, p = at PROVE FoundFor(p)' <=> Refutes(formal)
    BY <2>1, <2>3, <2>8 DEF FoundFor, Refutes
  <2>9. \A p \in Passes : FoundFor(p) <=> FoundFor(p)'
    BY <2>1, <2>6, <2>7, <2>8
  <2> QED
    BY <2>1, <2>9 DEF FoundInv
<1>10. CASE UNCHANGED vars
  BY <1>1, <1>10 DEF vars, passVars, FoundInv
<1> QED
  BY <1>3, <1>4, <1>5, <1>6, <1>7, <1>8, <1>9, <1>10, StepKinds

LEMMA AlwaysFound == Spec => []FoundInv
BY AlwaysInv, InitFound, StepFound, PTL DEF Spec

\* The exit code of a session that reports is decided by the verifiers: by the
\* refutations of the deterministic tier, by those an agent's verifier found in
\* this session, however its pass ended, and by those of the records resumed
\* (cli.py 159-168).
THEOREM ExitFollowsVerifiers == Spec => []GateFollowsVerifiers
<1>1. ASSUME Inv, ReportInv, FoundInv PROVE GateFollowsVerifiers
  <2> SUFFICES ASSUME Reported
               PROVE  exit = "refuted" <=>
                        \/ FailOnRefuted /\ \E p \in Passes : DetStatus(p) = "refuted"
                        \/ FailOnAgentRefuted /\
                             \/ agentNegative # {}
                             \/ \E p \in Passes \ Fresh : \E c \in AgentChecks(p) : c.verdict \in Negative
    BY DEF GateFollowsVerifiers
  <2>1. exit = "refuted" <=> Gate(records)
    BY <1>1 DEF ReportInv
  <2>2. ~busy /\ exit # "traceback" /\ agentNegative \subseteq Passes
    BY <1>1 DEF Inv, TypeInv, ShapeInv, Reported
  <2>3. \A p \in Passes : p \in agentNegative <=> (p \in Fresh /\ Refutes(records[p].formal))
    BY <1>1, <2>2 DEF FoundInv, FoundFor
  <2>4. \A p \in Passes :
          (records[p] # NoRecord /\ Refutes(records[p].formal)) <=>
            \/ p \in agentNegative
            \/ p \notin Fresh /\ \E c \in AgentChecks(p) : c.verdict \in Negative
    BY <2>3 DEF Fresh, Attempted, AgentChecks, Refutes
  <2>5. (\E p \in Passes : records[p] # NoRecord /\ Refutes(records[p].formal)) <=>
          \/ agentNegative # {}
          \/ \E p \in Passes \ Fresh : \E c \in AgentChecks(p) : c.verdict \in Negative
    BY <2>2, <2>4
  <2> QED
    BY <2>1, <2>5 DEF Gate, Refutes
<1> QED
  BY <1>1, AlwaysInv, AlwaysReport, AlwaysFound, PTL

-----------------------------------------------------------------------------
(* Which text a verdict is about. *)

\* Verdicts about the text t: a proposal may be about text the model supplied.
About(checks, t) == \A c \in checks : /\ c.on \in {t, Supplied}
                                      /\ c.strategy \in Strategies => c.on = t

\* A record of p names the text its verdicts are about, unless p was edited
\* while a session ran.
OwnText(p, r) == /\ ~HasSource[p] => r.text = Gone
                 /\ p \notin disturbed => About(r.formal, r.text)

SourceInv(p) == ~HasSource[p] => text[p] = Gone

PriorInv(p) == prior[p] # NoRecord => prior[p].status = "concluded" /\ OwnText(p, prior[p])

SkipInv(p) == skip[p] # NoRecord =>
                /\ skip[p].status = "concluded" /\ OwnText(p, skip[p])
                /\ p \notin disturbed => skip[p].text = det[p].on

RecordInv(p) == records[p] # NoRecord =>
                  /\ OwnText(p, records[p])
                  /\ p \notin disturbed => records[p].text = det[p].on
                  /\ records[p].resumed => records[p].status = "concluded"

\* The deterministic tier has read what the file still holds.
ReadInv(p) ==
  (phase \in {"triage", "merge"} \/ (phase = "orchestrate" /\ p < at)) =>
    (p \notin disturbed => text[p] = det[p].on)

\* The open pass was opened on the text of its file.
OpenInv == busy => /\ ~HasSource[at] => opened = Gone
                   /\ at \notin disturbed => opened = text[at] /\ About(formal, opened)

TextInv == /\ \A p \in Passes : SourceInv(p)
           /\ \A p \in Passes : PriorInv(p)
           /\ \A p \in Passes : SkipInv(p)
           /\ \A p \in Passes : RecordInv(p)
           /\ \A p \in Passes : ReadInv(p)
           /\ OpenInv

LEMMA InitText == Init => TextInv
BY TriageAssumption DEF Init, TextInv, SourceInv, PriorInv, SkipInv, RecordInv, ReadInv, OpenInv

\* More edits only relax what a record says.
LEMMA OwnTextKept ==
  ASSUME NEW p \in Passes, NEW r, OwnText(p, r), disturbed \subseteq disturbed'
  PROVE  OwnText(p, r)'
BY DEF OwnText

LEMMA StepText == ASSUME Inv, TextInv, [Next]_vars PROVE TextInv'
<1> USE DEF TextInv
<1>0. at \in Nat /\ \A p \in Passes : p \in Nat
  BY TriageAssumption DEF Inv, TypeInv, Passes
<1>1. CASE Start
  <2>1. ~busy'
    BY <1>1 DEF Start, Inv, ShapeInv
  <2>2. /\ prior' = prior /\ disturbed' = disturbed /\ text' = text
        /\ phase' = "orchestrate" /\ at' = 1
        /\ \A p \in Passes : records'[p] = NoRecord /\ skip'[p] = NoRecord
    BY <1>1 DEF Start
  <2>3. \A p \in Passes : SourceInv(p)' /\ PriorInv(p)'
    BY <2>2 DEF SourceInv, PriorInv, OwnText
  <2>4. \A p \in Passes : SkipInv(p)' /\ RecordInv(p)'
    BY <2>2 DEF SkipInv, RecordInv
  <2>5. \A p \in Passes : ReadInv(p)'
    BY <2>2, TriageAssumption DEF ReadInv, Passes
  <2> QED
    BY <2>1, <2>3, <2>4, <2>5 DEF OpenInv
<1>2. ASSUME NEW q \in Passes, NEW t \in Texts, Edit(q, t) PROVE TextInv'
  <2>1. /\ HasSource[q] /\ text' = [text EXCEPT ![q] = t]
        /\ disturbed \subseteq disturbed'
        /\ UNCHANGED <<phase, prior, skip, records, det, at, busy, opened, formal>>
        /\ phase # "off" => q \in disturbed'
    BY <1>2 DEF Edit, passVars
  <2>2. \A p \in Passes : SourceInv(p)'
    BY <2>1 DEF SourceInv, Inv, TypeInv
  <2>3. \A p \in Passes : PriorInv(p)'
    BY <2>1 DEF PriorInv, OwnText
  <2>4. \A p \in Passes : SkipInv(p)'
    BY <2>1 DEF SkipInv, OwnText
  <2>5. \A p \in Passes : RecordInv(p)'
    BY <2>1 DEF RecordInv, OwnText
  <2>6. \A p \in Passes : ReadInv(p)'
    BY <2>1 DEF ReadInv, Inv, TypeInv
  <2>7. OpenInv'
    BY <2>1 DEF OpenInv, Inv, TypeInv, ShapeInv
  <2> QED
    BY <2>2, <2>3, <2>4, <2>5, <2>6, <2>7
<1>3. CASE Between
  <2>1. CASE OrchestratorFails
    <3>1. /\ \A p \in Passes : prior'[p] = NoRecord
          /\ UNCHANGED <<text, skip, records, det, disturbed, busy>>
          /\ ~busy /\ phase' = "off"
      BY <2>1 DEF OrchestratorFails, passVars, Inv, ShapeInv
    <3> QED
      BY <3>1 DEF SourceInv, PriorInv, SkipInv, RecordInv, ReadInv, OpenInv, OwnText
  <2>2. CASE Orchestrate
    <3>1. PICK e \in Entries(at) : det' = [det EXCEPT ![at] = e]
      BY <2>2 DEF Orchestrate
    <3>2. at \in Passes /\ at' = at + 1 /\ ~busy /\ busy' = busy /\ phase = "orchestrate"
            /\ UNCHANGED <<text, phase, prior, skip, records, disturbed>>
      BY <2>2 DEF Orchestrate, Inv, ShapeInv
    <3>3. \A p \in Passes : records[p] = NoRecord /\ skip[p] = NoRecord
      BY <3>2 DEF Inv, ShapeInv
    <3>4. e.on = text[at]
      BY <3>2, EntriesAreEntries DEF Inv, TypeInv
    <3>5. \A p \in Passes : ReadInv(p)'
      <4> SUFFICES ASSUME NEW p \in Passes, p < at', p \notin disturbed
                   PROVE  text[p] = det'[p].on
        BY <3>2 DEF ReadInv
      <4>1. CASE p = at
        BY <4>1, <3>1, <3>4 DEF Inv, TypeInv
      <4>2. CASE p # at
        <5>1. p < at
          BY <1>0, <3>2, <4>2
        <5>2. det'[p] = det[p]
          BY <3>1, <4>2 DEF Inv, TypeInv
        <5> QED
          BY <3>2, <5>1, <5>2 DEF ReadInv
      <4> QED
        BY <4>1, <4>2
    <3>6. \A p \in Passes : SourceInv(p)' /\ PriorInv(p)'
      BY <3>2 DEF SourceInv, PriorInv, OwnText
    <3>7. \A p \in Passes : SkipInv(p)' /\ RecordInv(p)'
      BY <3>2, <3>3 DEF SkipInv, RecordInv
    <3> QED
      BY <3>2, <3>5, <3>6, <3>7 DEF OpenInv
  <2>3. CASE LoadPrior
    <3>1. /\ at \notin Passes /\ ~busy /\ busy' = busy /\ phase = "orchestrate"
          /\ UNCHANGED <<text, det, prior, records, disturbed>>
          /\ \A p \in Passes : skip'[p] = IF Reusable(p) THEN prior[p] ELSE NoRecord
      BY <2>3 DEF LoadPrior, Inv, ShapeInv
    <3>2. \A p \in Passes : p < at
      BY <3>1, TriageAssumption DEF Inv, TypeInv, Passes
    <3>3. \A p \in Passes : p \notin disturbed => text[p] = det[p].on
      BY <3>1, <3>2 DEF ReadInv
    <3>4. \A p \in Passes : SkipInv(p)'
      <4> SUFFICES ASSUME NEW p \in Passes, skip'[p] # NoRecord PROVE SkipInv(p)'
        BY DEF SkipInv
      <4>1. Reusable(p) /\ skip'[p] = prior[p] /\ prior[p] # NoRecord
        BY <3>1
      <4>2. prior[p].status = "concluded" /\ OwnText(p, prior[p])
        BY <4>1 DEF PriorInv
      <4>3. prior[p].text = text[p]
        BY <4>1, <4>2 DEF Reusable, OwnText, SourceInv
      <4> QED
        BY <3>1, <3>3, <4>1, <4>2, <4>3 DEF SkipInv, OwnText
    <3>5. \A p \in Passes : SourceInv(p)' /\ PriorInv(p)' /\ RecordInv(p)'
      BY <3>1 DEF SourceInv, PriorInv, RecordInv, OwnText
    <3>6. \A p \in Passes : ReadInv(p)'
      BY <3>1, <3>3 DEF ReadInv
    <3> QED
      BY <3>1, <3>4, <3>5, <3>6 DEF OpenInv
  <2>4. CASE NotResidue \/ OutOfBudget \/ ResidueDone
    <3>1. /\ UNCHANGED <<text, det, prior, skip, records, disturbed, busy>>
          /\ ~busy /\ phase = "triage"
      BY <2>4 DEF NotResidue, OutOfBudget, ResidueDone, Looking
    <3> QED
      BY <3>1 DEF SourceInv, PriorInv, SkipInv, RecordInv, ReadInv, OpenInv, OwnText
  <2>5. CASE Reuse
    <3>1. /\ at \in Passes /\ skip[at] # NoRecord /\ ~busy /\ phase = "triage"
          /\ records' = [records EXCEPT ![at] = [skip[at] EXCEPT !.resumed = TRUE]]
          /\ UNCHANGED <<text, det, prior, skip, disturbed, busy, phase>>
      BY <2>5 DEF Reuse, Looking
    <3>2. skip[at] \in AgentRecord
      BY <3>1 DEF Inv, TypeInv, MaybeRecord
    <3>3. /\ records'[at].status = skip[at].status /\ records'[at].formal = skip[at].formal
          /\ records'[at].text = skip[at].text
      BY <3>1, <3>2, WithResumed DEF Inv, TypeInv
    <3>4. ASSUME NEW p \in Passes PROVE RecordInv(p)'
      <4>1. CASE p = at
        BY <3>1, <3>3, <4>1 DEF SkipInv, RecordInv, OwnText
      <4>2. CASE p # at
        <5>1. records'[p] = records[p]
          BY <3>1, <4>2 DEF Inv, TypeInv
        <5> QED
          BY <3>1, <5>1 DEF RecordInv, OwnText
      <4> QED
        BY <4>1, <4>2
    <3>5. \A p \in Passes : SourceInv(p)' /\ PriorInv(p)' /\ SkipInv(p)' /\ ReadInv(p)'
      BY <3>1 DEF SourceInv, PriorInv, SkipInv, ReadInv, OwnText
    <3> QED
      BY <3>1, <3>4, <3>5 DEF OpenInv
  <2>6. CASE OpenPass
    <3>1. /\ at \in Passes /\ opened' = text[at] /\ formal' = {} /\ phase = "triage"
          /\ UNCHANGED <<text, det, prior, skip, records, disturbed, phase, at>>
      BY <2>6 DEF OpenPass, Looking, Inv, ShapeInv
    <3>2. OpenInv'
      BY <3>1 DEF OpenInv, SourceInv, About
    <3> QED
      BY <3>1, <3>2 DEF SourceInv, PriorInv, SkipInv, RecordInv, ReadInv, OwnText
  <2>7. CASE Merge
    <3>1. /\ records' = Headed
          /\ \A p \in Passes : prior'[p] = Kept(records'[p])
          /\ UNCHANGED <<text, det, skip, disturbed, busy>>
          /\ ~busy /\ phase' = "off"
      BY <2>7 DEF Merge, Headed, Inv, ShapeInv
    <3>2. \A p \in Passes : RecordInv(p)'
      <4> SUFFICES ASSUME NEW p \in Passes, records'[p] # NoRecord PROVE RecordInv(p)'
        BY DEF RecordInv
      <4>1. /\ records[p] # NoRecord
            /\ records'[p].status = records[p].status /\ records'[p].formal = records[p].formal
            /\ records'[p].text = records[p].text /\ records'[p].resumed = records[p].resumed
        BY <3>1, HeadedAreRecords
      <4> QED
        BY <3>1, <4>1 DEF RecordInv, OwnText
    <3>3. \A p \in Passes : PriorInv(p)'
      <4> SUFFICES ASSUME NEW p \in Passes, prior'[p] # NoRecord PROVE PriorInv(p)'
        BY DEF PriorInv
      <4>1. prior'[p] = records'[p] /\ records'[p] # NoRecord /\ records'[p].status = "concluded"
        BY <3>1 DEF Kept
      <4>2. OwnText(p, records[p])' /\ OwnText(p, prior[p])' = OwnText(p, records[p])'
        BY <3>2, <4>1 DEF RecordInv
      <4> QED
        BY <4>1, <4>2 DEF PriorInv
    <3>4. \A p \in Passes : SourceInv(p)' /\ SkipInv(p)' /\ ReadInv(p)'
      BY <3>1 DEF SourceInv, SkipInv, ReadInv, OwnText
    <3> QED
      BY <3>1, <3>2, <3>3, <3>4 DEF OpenInv
  <2> QED
    BY <1>3, <2>1, <2>2, <2>3, <2>4, <2>5, <2>6, <2>7 DEF Between
<1>4. ASSUME StaysOpen PROVE \A p \in Passes : /\ SourceInv(p)' /\ PriorInv(p)' /\ SkipInv(p)'
                                            /\ RecordInv(p)' /\ ReadInv(p)'
  BY <1>4 DEF StaysOpen, runVars, SourceInv, PriorInv, SkipInv, RecordInv, ReadInv, OwnText
<1>5. CASE Quiet
  <2>1. OpenInv'
    BY <1>5 DEF Quiet, StaysOpen, runVars, OpenInv
  <2> QED
    BY <1>4, <1>5, <2>1 DEF Quiet
<1>6. ASSUME NEW c \in Checks, Finds(c) PROVE TextInv'
  <2>1. UNCHANGED <<busy, at, opened, text, disturbed>> /\ formal' = formal \cup {c}
    BY <1>6 DEF Finds, StaysOpen, runVars
  <2>2. opened = text[at] => c.on \in {opened, Supplied} /\ (c.strategy \in Strategies => c.on = opened)
    BY <1>6, TriageAssumption DEF Finds, Answer
  <2>3. OpenInv'
    BY <2>1, <2>2 DEF OpenInv, About
  <2> QED
    BY <1>4, <1>6, <2>3 DEF Finds
<1>7. CASE HandlerRaises
  <2>1. ~busy' /\ phase' = "off" /\ UNCHANGED <<text, det, prior, skip, records, disturbed>>
    BY <1>7 DEF HandlerRaises
  <2> QED
    BY <2>1 DEF SourceInv, PriorInv, SkipInv, RecordInv, ReadInv, OpenInv, OwnText
<1>8. CASE CloseRecord
  <2>1. /\ at \in Passes /\ busy /\ ~busy' /\ phase = "triage"
        /\ UNCHANGED <<text, det, prior, skip, disturbed, phase>>
    BY <1>8 DEF CloseRecord, Choosing, Inv, ShapeInv
  <2>2. \A p \in Passes : RecordInv(p)'
    <3> TAKE p \in Passes
    <3>1. CASE p = at
      <4>1. /\ records'[p].formal = formal /\ records'[p].text = opened /\ ~records'[p].resumed
        BY <1>8, <2>1, <3>1, ClosedIsRecord DEF Inv, TypeInv
      <4>2. /\ ~HasSource[p] => opened = Gone
            /\ p \notin disturbed => opened = text[p] /\ About(formal, opened)
            /\ p \notin disturbed => text[p] = det[p].on
        BY <2>1, <3>1 DEF OpenInv, ReadInv
      <4> QED
        BY <2>1, <4>1, <4>2 DEF RecordInv, OwnText
    <3>2. CASE p # at
      <4>1. records'[p] = records[p]
        BY <1>8, <3>2 DEF CloseRecord, Inv, TypeInv
      <4> QED
        BY <2>1, <4>1 DEF RecordInv, OwnText
    <3> QED
      BY <3>1, <3>2
  <2>3. \A p \in Passes : SourceInv(p)' /\ PriorInv(p)' /\ SkipInv(p)' /\ ReadInv(p)'
    BY <2>1 DEF SourceInv, PriorInv, SkipInv, ReadInv, OwnText
  <2> QED
    BY <2>1, <2>2, <2>3 DEF OpenInv
<1>9. CASE UNCHANGED vars
  BY <1>9 DEF vars, passVars, SourceInv, PriorInv, SkipInv, RecordInv, ReadInv, OpenInv, OwnText
<1> QED
  BY <1>1, <1>2, <1>3, <1>5, <1>6, <1>7, <1>8, <1>9, StepKinds

LEMMA AlwaysText == Spec => []TextInv
BY AlwaysInv, InitText, StepText, PTL DEF Spec

\* What --resume brings back is a concluded record, and its verdicts are about
\* the text the deterministic tier of this session read (report.py 149-166):
\* unless the source was edited while a session ran, the verifiers of the
\* earlier session saw the very text whose digest the record carries.
THEOREM ResumedIsOfThisText == Spec => []ResumedRecordIsOfThisText
<1>1. TextInv => ResumedRecordIsOfThisText
  BY DEF TextInv, RecordInv, OwnText, About, Attempted, ResumedRecordIsOfThisText
<1> QED
  BY <1>1, AlwaysText, PTL

\* A deterministic check that may certify p has read this text, or has run p.
LEMMA DetEvidence ==
  ASSUME Inv, NEW p \in Passes, NEW c \in DetChecks(p), c.verdict \in Positive,
         IsAboutPass(c.strategy, Name[p])
  PROVE  IsEvidence(p, c)
<1>1. PICK s \in DOMAIN det[p].checks :
        c = [strategy |-> s, verdict |-> det[p].checks[s], on |-> det[p].on]
  BY DEF DetChecks
<1>2. c.strategy = s /\ c.on = det[p].on /\ s \in Strategies
  BY <1>1 DEF Inv, TypeInv, IsEntry
<1>3. Target[s] \in {"source", "pass-runner", "canonical"}
  BY <1>2, OrchestratorAssumption
<1> QED
  BY <1>2, <1>3 DEF IsAboutPass, IsEvidence

\* So has a check an agent dispatched, if p was not edited while a session ran.
LEMMA AgentEvidence ==
  ASSUME Inv, TextInv, NEW p \in Passes \ disturbed, records[p] # NoRecord,
         NEW c \in records[p].formal, c.verdict \in Positive,
         IsAboutPass(c.strategy, Name[p])
  PROVE  IsEvidence(p, c)
<1>1. records[p] \in AgentRecord
  BY DEF Inv, TypeInv, MaybeRecord
<1>2. c \in Checks
  BY <1>1 DEF AgentRecord
<1>3. c.strategy \in Strategies \cup Proposals
  BY <1>2 DEF Checks
<1>4. CASE c.strategy \in Proposals
  BY <1>4 DEF IsEvidence
<1>5. CASE c.strategy \in Strategies
  <2>1. c.on = det[p].on
    BY <1>5 DEF TextInv, RecordInv, OwnText, About
  <2>2. Target[c.strategy] \in {"source", "pass-runner", "canonical"}
    BY <1>5, OrchestratorAssumption
  <2> QED
    BY <1>5, <2>1, <2>2 DEF IsAboutPass, IsEvidence
<1> QED
  BY <1>3, <1>4, <1>5

\* "A positive verdict may only certify a pass it is actually about"
\* (cv-orchestrate.py 129, report.py 37-67): a headline `proved`, of either
\* tier, rests on a verifier that read the text this session began with or ran
\* this very pass, or on a proposal of the model.
THEOREM CertifiedIsAboutThisText == Spec => []CertifiedByThisText
<1>1. ASSUME Inv, ReportInv, TextInv PROVE CertifiedByThisText
  <2> SUFFICES ASSUME Reported, NEW p \in Passes \ disturbed
               PROVE  /\ DetStatus(p) = "proved" => \E c \in DetChecks(p) : IsEvidence(p, c)
                      /\ (Attempted(p) /\ records[p].headline = "proved") =>
                           \E c \in DetChecks(p) \cup records[p].formal : IsEvidence(p, c)
    BY DEF CertifiedByThisText
  <2>1. ASSUME DetStatus(p) = "proved" PROVE \E c \in DetChecks(p) : IsEvidence(p, c)
    <3>1. PICK s \in DOMAIN det[p].checks :
            det[p].checks[s] \in Positive /\ IsAboutPass(s, Name[p])
      BY <2>1 DEF DetStatus, Headline
    <3> DEFINE c == [strategy |-> s, verdict |-> det[p].checks[s], on |-> det[p].on]
    <3>2. c \in DetChecks(p) /\ c.verdict \in Positive /\ IsAboutPass(c.strategy, Name[p])
      BY <3>1 DEF DetChecks
    <3> HIDE DEF c
    <3> QED
      BY <1>1, <3>2, DetEvidence
  <2>2. ASSUME Attempted(p), records[p].headline = "proved"
        PROVE  \E c \in DetChecks(p) \cup records[p].formal : IsEvidence(p, c)
    <3> DEFINE vs == {k.verdict : k \in AboutPass(p, DetChecks(p) \cup records[p].formal)}
    <3>1. AgentHeadline(vs) = "proved"
      BY <1>1, <2>2 DEF ReportInv, NewHeadline
    <3>2. vs \cap Positive # {}
      BY <3>1 DEF AgentHeadline
    <3>3. PICK c \in DetChecks(p) \cup records[p].formal :
            c.verdict \in Positive /\ IsAboutPass(c.strategy, Name[p])
      BY <3>2 DEF AboutPass
    <3>4. records[p] # NoRecord
      BY <2>2 DEF Attempted
    <3> QED
      BY <1>1, <3>3, <3>4, DetEvidence, AgentEvidence
  <2> QED
    BY <2>1, <2>2
<1> QED
  BY <1>1, AlwaysInv, AlwaysReport, AlwaysText, PTL

-----------------------------------------------------------------------------
(* The calls a list of records accounts for. *)

IsSum(a, recs, m) ==
  a = [n \in 0..m |-> IF n = 0 THEN 0 ELSE a[n - 1] + CallsOf(recs[n])]

LEMMA SumExists == ASSUME NEW recs, NEW m \in Nat PROVE \E a : IsSum(a, recs, m)
<1> DEFINE Bad == {n \in Nat : ~\E a : IsSum(a, recs, n)}
<1> SUFFICES ASSUME Bad # {} PROVE FALSE
  OBVIOUS
<1>1. PICK n \in Bad : \A k \in Bad : n <= k
  BY LeastElement
<1>2. n # 0
  <2>1. IsSum([k \in 0..0 |-> 0], recs, 0)
    BY DEF IsSum
  <2> QED
    BY <2>1
<1>3. PICK a : IsSum(a, recs, n - 1)
  BY <1>1, <1>2
<1> DEFINE b == [k \in 0..n |-> IF k = n THEN a[n - 1] + CallsOf(recs[n]) ELSE a[k]]
<1>4. \A k \in 0..n : b[k] = IF k = 0 THEN 0 ELSE b[k - 1] + CallsOf(recs[k])
  <2> TAKE k \in 0..n
  <2>1. CASE k = n
    BY <1>2, <2>1
  <2>2. CASE k # n
    <3>1. k \in 0..(n - 1) /\ b[k] = a[k]
      BY <2>2
    <3>2. a[k] = IF k = 0 THEN 0 ELSE a[k - 1] + CallsOf(recs[k])
      BY <1>3, <3>1 DEF IsSum
    <3>3. k # 0 => b[k - 1] = a[k - 1]
      BY <3>1
    <3> QED
      BY <3>1, <3>2, <3>3
  <2> QED
    BY <2>1, <2>2
<1>5. IsSum(b, recs, n)
  BY <1>4 DEF IsSum
<1> QED
  BY <1>5

LEMMA CallsInIsSum ==
  ASSUME NEW recs
  PROVE  \E a : IsSum(a, recs, NPasses) /\ CallsIn(recs) = a[NPasses]
<1> DEFINE a == CHOOSE f : IsSum(f, recs, NPasses)
<1>1. IsSum(a, recs, NPasses)
  BY SumExists, TriageAssumption
<1>2. CallsIn(recs) = a[NPasses]
  BY DEF CallsIn, IsSum
<1> QED
  BY <1>1, <1>2

LEMMA CallsOfType == ASSUME NEW r \in MaybeRecord PROVE CallsOf(r) \in Nat
BY LoopAssumption DEF CallsOf, MaybeRecord, AgentRecord

\* One record that accounts for d calls more makes the sum d larger.
LEMMA SumChange ==
  ASSUME NEW f \in [Passes -> MaybeRecord], NEW g \in [Passes -> MaybeRecord],
         NEW k \in Passes, NEW d \in Nat,
         CallsOf(g[k]) = CallsOf(f[k]) + d,
         \A p \in Passes : p # k => CallsOf(g[p]) = CallsOf(f[p])
  PROVE  CallsIn(f) \in Nat /\ CallsIn(g) = CallsIn(f) + d
<1>1. PICK a : IsSum(a, f, NPasses) /\ CallsIn(f) = a[NPasses]
  BY CallsInIsSum
<1>2. PICK b : IsSum(b, g, NPasses) /\ CallsIn(g) = b[NPasses]
  BY CallsInIsSum
<1> DEFINE Good(n) == a[n] \in Nat /\ b[n] = IF n < k THEN a[n] ELSE a[n] + d
           Bad == {n \in 0..NPasses : ~Good(n)}
<1>3. Bad = {}
  <2> SUFFICES ASSUME Bad # {} PROVE FALSE
    OBVIOUS
  <2>1. PICK n \in Bad : \A j \in Bad : n <= j
    <3>1. Bad \subseteq Nat
      OBVIOUS
    <3> QED
      BY <3>1, LeastElement
  <2>2. n \in 0..NPasses /\ k \in 1..NPasses /\ NPasses \in Nat
    BY TriageAssumption DEF Passes
  <2>3. /\ a[n] = IF n = 0 THEN 0 ELSE a[n - 1] + CallsOf(f[n])
        /\ b[n] = IF n = 0 THEN 0 ELSE b[n - 1] + CallsOf(g[n])
    BY <1>1, <1>2, <2>2 DEF IsSum
  <2>4. n # 0
    BY <2>2, <2>3
  <2>5. n - 1 \in 0..NPasses /\ n \in Passes /\ Good(n - 1)
    <3>1. n - 1 \in 0..NPasses /\ n \in Passes
      BY <2>2, <2>4 DEF Passes
    <3>2. n - 1 \notin Bad
      BY <2>1, <2>2, <2>4
    <3> QED
      BY <3>1, <3>2
  <2>6. CallsOf(f[n]) \in Nat /\ CallsOf(g[n]) = IF n = k THEN CallsOf(f[n]) + d ELSE CallsOf(f[n])
    BY <2>5, CallsOfType
  <2>7. Good(n)
    BY <2>2, <2>3, <2>4, <2>5, <2>6
  <2> QED
    BY <2>1, <2>7
<1>4. NPasses \in 0..NPasses /\ k <= NPasses /\ NPasses \in Nat /\ k \in Nat
  BY TriageAssumption DEF Passes
<1>5. Good(NPasses)
  BY <1>3, <1>4
<1> QED
  BY <1>1, <1>2, <1>4, <1>5

LEMMA SumSame ==
  ASSUME NEW f \in [Passes -> MaybeRecord], NEW g \in [Passes -> MaybeRecord],
         \A p \in Passes : CallsOf(g[p]) = CallsOf(f[p])
  PROVE  CallsIn(g) = CallsIn(f) /\ CallsIn(f) \in Nat
<1>1. 1 \in Passes
  BY TriageAssumption DEF Passes
<1>2. CallsOf(g[1]) = CallsOf(f[1]) + 0
  BY <1>1, CallsOfType
<1>3. CallsIn(f) \in Nat /\ CallsIn(g) = CallsIn(f) + 0
  BY <1>1, <1>2, SumChange
<1> QED
  BY <1>3

LEMMA SumOfNothing ==
  ASSUME NEW f \in [Passes -> MaybeRecord], \A p \in Passes : f[p] = NoRecord
  PROVE  CallsIn(f) = 0
<1>1. PICK a : IsSum(a, f, NPasses) /\ CallsIn(f) = a[NPasses]
  BY CallsInIsSum
<1> DEFINE Bad == {n \in 0..NPasses : a[n] # 0}
<1>2. Bad = {}
  <2> SUFFICES ASSUME Bad # {} PROVE FALSE
    OBVIOUS
  <2>1. PICK n \in Bad : \A j \in Bad : n <= j
    <3>1. Bad \subseteq Nat
      OBVIOUS
    <3> QED
      BY <3>1, LeastElement
  <2>2. NPasses \in Nat
    BY TriageAssumption
  <2>3. a[n] = IF n = 0 THEN 0 ELSE a[n - 1] + CallsOf(f[n])
    BY <1>1 DEF IsSum
  <2>4. n # 0
    BY <2>3
  <2>5. n - 1 \in 0..NPasses /\ n \in Passes /\ n - 1 \notin Bad
    BY <2>1, <2>2, <2>4 DEF Passes
  <2> QED
    BY <2>3, <2>4, <2>5 DEF CallsOf
<1> QED
  BY <1>1, <1>2, TriageAssumption

-----------------------------------------------------------------------------
(* Every call is accounted for. *)

CallInv == /\ exit # "traceback" => used = CallsIn(records) + steps
           /\ \A p \in Fresh : records[p].calls > 0
           /\ (busy /\ steps = 0) => used < Budget /\ status = "running"

LEMMA InitCall == Init => CallInv
<1> SUFFICES ASSUME Init PROVE CallInv
  OBVIOUS
<1>1. records \in [Passes -> MaybeRecord] /\ \A p \in Passes : records[p] = NoRecord
  BY DEF Init, MaybeRecord
<1>2. CallsIn(records) = 0
  BY <1>1, SumOfNothing
<1> QED
  BY <1>1, <1>2 DEF Init, LoopStart, CallInv, Fresh, Attempted

\* With --max-steps-per-pass 0 a pass would be closed before its first call.
LEMMA StepCall == ASSUME MaxSteps > 0, Inv, CallInv, [Next]_vars PROVE CallInv'
<1>0. /\ at \in Nat /\ \A p \in Passes : p \in Nat
      /\ used \in Nat /\ steps \in Nat
  BY TriageAssumption DEF Inv, TypeInv, Passes, LoopInv, LoopTypeOK
<1>1. Inv'
  BY StepInv
<1>2. records \in [Passes -> MaybeRecord] /\ records' \in [Passes -> MaybeRecord]
  BY <1>1 DEF Inv, TypeInv
<1>3. ASSUME UNCHANGED <<used, steps, status, records>>, busy' = busy,
             exit' # "traceback" => exit # "traceback"
      PROVE  CallInv'
  BY <1>3 DEF CallInv, Fresh, Attempted
<1>4. CASE Start
  <2>1. \A p \in Passes : records'[p] = NoRecord
    BY <1>4 DEF Start
  <2>2. CallsIn(records') = 0
    BY <1>2, <2>1, SumOfNothing
  <2>3. used' = 0 /\ steps' = 0 /\ ~busy'
    BY <1>4 DEF Start, Inv, ShapeInv
  <2>4. Fresh' = {}
    BY <2>1 DEF Fresh, Attempted
  <2> QED
    BY <2>2, <2>3, <2>4 DEF CallInv
<1>5. ASSUME NEW p \in Passes, NEW t \in Texts, Edit(p, t) PROVE CallInv'
  BY <1>3, <1>5 DEF Edit, loopVars
<1>6. CASE Between
  <2>1. CASE \/ OrchestratorFails \/ Orchestrate \/ LoadPrior \/ NotResidue \/ OutOfBudget
             \/ ResidueDone
    <3>1. exit # "traceback"
      BY <2>1 DEF OrchestratorFails, Orchestrate, LoadPrior, NotResidue, OutOfBudget,
                  ResidueDone, Looking, Inv, ShapeInv
    <3>2. UNCHANGED <<used, steps, status, records>> /\ busy' = busy
      BY <2>1 DEF OrchestratorFails, Orchestrate, LoadPrior, NotResidue, OutOfBudget,
                  ResidueDone, loopVars
    <3> QED
      BY <1>3, <3>1, <3>2
  <2>2. CASE OpenPass
    <3>1. /\ UNCHANGED <<used, steps, status, records, exit>>
          /\ used < Budget /\ ~busy
      BY <2>2 DEF OpenPass, Looking, loopVars
    <3>2. status = "running"
      BY <3>1 DEF Inv, ShapeInv
    <3> QED
      BY <3>1, <3>2 DEF CallInv, Fresh, Attempted
  <2>3. CASE Reuse
    <3>1. /\ at \in Passes /\ records[at] = NoRecord /\ skip[at] \in AgentRecord
          /\ UNCHANGED <<used, steps, status, exit, busy>>
      BY <2>3, <1>0 DEF Reuse, Looking, loopVars, Inv, ShapeInv, TypeInv, MaybeRecord
    <3>2. records'[at].resumed /\ \A p \in Passes : p # at => records'[p] = records[p]
      BY <2>3, <3>1, WithResumed DEF Reuse, Inv, TypeInv
    <3>3. \A p \in Passes : CallsOf(records'[p]) = CallsOf(records[p])
      BY <3>1, <3>2 DEF CallsOf
    <3>4. CallsIn(records') = CallsIn(records)
      BY <1>2, <3>3, SumSame
    <3>5. \A p \in Fresh' : p \in Fresh /\ records'[p] = records[p]
      BY <3>2 DEF Fresh, Attempted
    <3> QED
      BY <3>1, <3>4, <3>5 DEF CallInv
  <2>4. CASE Merge
    <3>1. /\ records' = Headed /\ UNCHANGED <<used, steps, status, busy>>
          /\ exit # "traceback"
      BY <2>4 DEF Merge, Headed, loopVars, Inv, ShapeInv
    <3>2. \A p \in Passes : CallsOf(records'[p]) = CallsOf(records[p])
      BY <3>1, HeadedAreRecords DEF CallsOf
    <3>3. CallsIn(records') = CallsIn(records)
      BY <1>2, <3>2, SumSame
    <3>4. \A p \in Fresh' : p \in Fresh /\ records'[p].calls = records[p].calls
      BY <3>1, HeadedAreRecords DEF Fresh, Attempted
    <3> QED
      BY <3>1, <3>3, <3>4 DEF CallInv
  <2> QED
    BY <1>6, <2>1, <2>2, <2>3, <2>4 DEF Between
<1>7. ASSUME StaysOpen, Called PROVE CallInv'
  <2>1. records' = records /\ exit' = exit /\ used' = used + 1 /\ steps' = steps + 1
    BY <1>7 DEF StaysOpen, runVars, Called, Spend
  <2>2. CallsIn(records) \in Nat
    BY <1>2, SumSame
  <2>3. used = CallsIn(records) + steps => used + 1 = CallsIn(records) + (steps + 1)
    BY <1>0, <2>2
  <2>4. exit' # "traceback" => used' = CallsIn(records') + steps'
    BY <2>1, <2>3 DEF CallInv
  <2>5. steps' # 0
    BY <1>0, <2>1
  <2> QED
    BY <2>1, <2>4, <2>5 DEF CallInv, Fresh, Attempted
<1>8. CASE Quiet
  <2>1. CASE NotCalled
    <3>1. UNCHANGED <<used, steps, records, exit, busy>>
      BY <1>8, <2>1 DEF Quiet, StaysOpen, runVars, NotCalled
    <3>2. (busy /\ steps = 0) => status' = "running"
      BY <1>0, <2>1, LoopAssumption DEF NotCalled, CallInv
    <3> QED
      BY <3>1, <3>2 DEF CallInv, Fresh, Attempted
  <2> QED
    BY <1>7, <1>8, <2>1 DEF Quiet
<1>9. ASSUME NEW c \in Checks, Finds(c) PROVE CallInv'
  BY <1>7, <1>9 DEF Finds
<1>10. CASE HandlerRaises
  BY <1>10 DEF HandlerRaises, CallInv, Fresh, Attempted
<1>11. CASE CloseRecord
  <2>1. /\ at \in Passes /\ records[at] = NoRecord /\ ~busy'
        /\ UNCHANGED <<used, exit>> /\ steps' = 0 /\ busy /\ status # "running"
    BY <1>11, <1>0 DEF CloseRecord, Choosing, PassOver, Inv, ShapeInv
  <2>2. records'[at] = Closed /\ \A p \in Passes : p # at => records'[p] = records[p]
    BY <1>11, <2>1, ClosedIsRecord DEF Inv, TypeInv
  <2>3. CallsOf(records[at]) = 0 /\ CallsOf(records'[at]) = steps
    BY <1>11, <2>1, <2>2, ClosedIsRecord DEF CallsOf
  <2>4. CallsOf(records'[at]) = CallsOf(records[at]) + steps
    BY <1>0, <2>3
  <2>5. \A p \in Passes : p # at => CallsOf(records'[p]) = CallsOf(records[p])
    BY <2>2
  <2>6. CallsIn(records) \in Nat /\ CallsIn(records') = CallsIn(records) + steps
    BY <1>0, <1>2, <2>1, <2>4, <2>5, SumChange
  <2>7. steps > 0
    BY <1>0, <2>1 DEF CallInv
  <2>8. \A p \in Fresh' : records'[p].calls > 0
    <3> TAKE p \in Fresh'
    <3>1. CASE p = at
      BY <1>11, <2>2, <2>7, <3>1, ClosedIsRecord
    <3>2. CASE p # at
      BY <2>2, <3>2 DEF CallInv, Fresh, Attempted
    <3> QED
      BY <3>1, <3>2
  <2>9. exit' # "traceback" => used' = CallsIn(records') + steps'
    <3>1. exit' # "traceback" => used' = CallsIn(records')
      BY <2>1, <2>6 DEF CallInv
    <3>2. CallsIn(records') = CallsIn(records') + 0
      BY <1>0, <2>6
    <3> QED
      BY <2>1, <3>1, <3>2
  <2> QED
    BY <2>1, <2>8, <2>9 DEF CallInv
<1>12. CASE UNCHANGED vars
  BY <1>3, <1>12 DEF vars, loopVars
<1> QED
  BY <1>4, <1>5, <1>6, <1>8, <1>9, <1>10, <1>11, <1>12, StepKinds

LEMMA AlwaysCall == ASSUME MaxSteps > 0 PROVE Spec => []CallInv
<1>1. Inv /\ CallInv /\ [Next]_vars => CallInv'
  BY StepCall
<1> QED
  BY <1>1, AlwaysInv, InitCall, PTL DEF Spec

-----------------------------------------------------------------------------
(* The walk over the residue. *)

\* Passes before the loop have their record, passes behind it have none, and
\* the loop stops early on a spent budget only.
WalkDone == /\ \A p \in Residue : p < at => Attempted(p)
            /\ \A p \in Passes : p >= at => ~Attempted(p)
            /\ at \in Passes => used = Budget

WalkInv == /\ busy => at \in Residue /\ skip[at] = NoRecord
           /\ \A p \in Passes : Attempted(p) => p \in Residue
           /\ phase = "triage" => \A p \in Residue : p < at => Attempted(p)
           /\ (phase = "merge" \/ Reported) => WalkDone

LEMMA InitWalk == Init => WalkInv
BY DEF Init, WalkInv, Attempted, Reported

LEMMA SameResidue == ASSUME det' = det PROVE Residue' = Residue
BY DEF Residue, DetStatus

LEMMA StepWalk == ASSUME Inv, WalkInv, [Next]_vars PROVE WalkInv'
<1>0. at \in Nat /\ \A p \in Passes : p \in Nat
  BY TriageAssumption DEF Inv, TypeInv, Passes
<1>1. Residue \subseteq Passes
  BY DEF Residue
<1>2. ASSUME UNCHANGED <<phase, exit, det, skip, at, records>>,
             busy' => busy, used' = used \/ (phase = "triage" /\ phase' = "triage")
      PROVE  WalkInv'
  <2>1. Residue' = Residue
    BY <1>2, SameResidue
  <2> QED
    BY <1>2, <2>1 DEF WalkInv, WalkDone, Attempted, Reported
<1>3. CASE Start
  <2>1. ~busy' /\ phase' = "orchestrate" /\ \A p \in Passes : records'[p] = NoRecord
    BY <1>3 DEF Start, Inv, ShapeInv
  <2> QED
    BY <2>1 DEF WalkInv, Attempted, Reported
<1>4. ASSUME NEW p \in Passes, NEW t \in Texts, Edit(p, t) PROVE WalkInv'
  BY <1>2, <1>4 DEF Edit, loopVars
<1>5. CASE Between
  <2>1. CASE Orchestrate \/ OrchestratorFails
    <3>1. /\ ~busy /\ ~busy' /\ phase' \in {"orchestrate", "off"} /\ ~Reported'
          /\ \A p \in Passes : records'[p] = NoRecord
      BY <2>1 DEF Orchestrate, OrchestratorFails, Inv, ShapeInv, Reported
    <3> QED
      BY <3>1 DEF WalkInv, Attempted
  <2>2. CASE LoadPrior
    <3>1. /\ ~busy /\ ~busy' /\ phase' = "triage" /\ at' = 1
          /\ \A p \in Passes : records'[p] = NoRecord
      BY <2>2 DEF LoadPrior, Inv, ShapeInv
    <3>2. \A p \in Passes : ~(p < 1)
      BY TriageAssumption DEF Passes
    <3>3. Residue' \subseteq Passes
      BY DEF Residue
    <3> QED
      BY <3>1, <3>2, <3>3 DEF WalkInv, Attempted, Reported
  <2>3. CASE NotResidue
    <3>1. /\ ~busy /\ ~busy' /\ phase = "triage" /\ phase' = "triage" /\ at' = at + 1
          /\ at \notin Residue /\ UNCHANGED <<det, records>>
      BY <2>3 DEF NotResidue, Looking
    <3>2. Residue' = Residue
      BY <3>1, SameResidue
    <3>3. \A p \in Residue : p < at' => p < at
      BY <1>0, <1>1, <3>1
    <3> QED
      BY <3>1, <3>2, <3>3 DEF WalkInv, Attempted, Reported
  <2>4. CASE Reuse
    <3>1. /\ ~busy /\ ~busy' /\ phase = "triage" /\ phase' = "triage" /\ at' = at + 1
          /\ at \in Residue /\ det' = det /\ skip[at] \in AgentRecord
          /\ records' = [records EXCEPT ![at] = [skip[at] EXCEPT !.resumed = TRUE]]
      BY <2>4 DEF Reuse, Looking, Inv, TypeInv, MaybeRecord
    <3>2. Residue' = Residue
      BY <3>1, SameResidue
    <3>3. Attempted(at) => at \in Residue
      BY <3>1
    <3>4. records'[at] # NoRecord /\ \A p \in Passes : p # at => records'[p] = records[p]
      BY <1>1, <3>1, WithResumed DEF Inv, TypeInv
    <3>5. \A p \in Residue : p < at' => p < at \/ p = at
      BY <1>0, <1>1, <3>1
    <3> QED
      BY <1>1, <3>1, <3>2, <3>4, <3>5 DEF WalkInv, Attempted, Reported
  <2>5. CASE OutOfBudget
    <3>1. /\ ~busy /\ ~busy' /\ phase = "triage" /\ phase' = "merge" /\ used >= Budget
          /\ UNCHANGED <<det, records, at, used>>
      BY <2>5 DEF OutOfBudget, Looking, loopVars
    <3>2. Residue' = Residue
      BY <3>1, SameResidue
    <3>3. used = Budget
      BY <3>1, LoopAssumption DEF Inv, TypeInv, LoopInv, LoopTypeOK
    <3>4. \A p \in Passes : p >= at => records[p] = NoRecord
      BY <3>1 DEF Inv, ShapeInv
    <3> QED
      BY <3>1, <3>2, <3>3, <3>4 DEF WalkInv, WalkDone, Attempted, Reported
  <2>6. CASE ResidueDone
    <3>1. /\ ~busy /\ ~busy' /\ phase = "triage" /\ phase' = "merge" /\ at \notin Passes
          /\ UNCHANGED <<det, records, at>>
      BY <2>6 DEF ResidueDone
    <3>2. Residue' = Residue
      BY <3>1, SameResidue
    <3>3. \A p \in Passes : p >= at => records[p] = NoRecord
      BY <3>1 DEF Inv, ShapeInv
    <3> QED
      BY <3>1, <3>2, <3>3 DEF WalkInv, WalkDone, Attempted, Reported
  <2>7. CASE OpenPass
    <3>1. /\ at \in Residue /\ skip[at] = NoRecord /\ phase = "triage"
          /\ UNCHANGED <<phase, exit, det, skip, at, records>>
      BY <2>7 DEF OpenPass, Looking
    <3>2. Residue' = Residue
      BY <3>1, SameResidue
    <3> QED
      BY <3>1, <3>2 DEF WalkInv, Attempted, Reported
  <2>8. CASE Merge
    <3>1. /\ records' = Headed /\ phase = "merge" /\ phase' = "off" /\ ~busy /\ ~busy'
          /\ UNCHANGED <<det, at, used>>
      BY <2>8 DEF Merge, Headed, loopVars, Inv, ShapeInv
    <3>2. Residue' = Residue
      BY <3>1, SameResidue
    <3>3. \A p \in Passes : Attempted(p)' <=> Attempted(p)
      BY <3>1, HeadedAreRecords DEF Attempted
    <3> QED
      BY <1>1, <3>1, <3>2, <3>3 DEF WalkInv, WalkDone
  <2> QED
    BY <1>5, <2>1, <2>2, <2>3, <2>4, <2>5, <2>6, <2>7, <2>8 DEF Between
<1>6. ASSUME StaysOpen PROVE WalkInv'
  <2>1. /\ busy' = busy /\ phase = "triage" /\ phase' = "triage"
        /\ UNCHANGED <<exit, det, skip, at, records>>
    BY <1>6 DEF StaysOpen, runVars, Inv, ShapeInv
  <2> QED
    BY <1>2, <2>1
<1>7. CASE Quiet
  BY <1>6, <1>7 DEF Quiet
<1>8. ASSUME NEW c \in Checks, Finds(c) PROVE WalkInv'
  BY <1>6, <1>8 DEF Finds
<1>9. CASE HandlerRaises
  <2>1. ~busy' /\ phase' = "off" /\ ~Reported' /\ UNCHANGED <<det, records>>
    BY <1>9 DEF HandlerRaises, Reported
  <2>2. Residue' = Residue
    BY <2>1, SameResidue
  <2> QED
    BY <2>1, <2>2 DEF WalkInv, Attempted
<1>10. CASE CloseRecord
  <2>1. /\ busy /\ ~busy' /\ phase = "triage" /\ phase' = "triage" /\ at' = at + 1
        /\ det' = det /\ at \in Residue
    BY <1>10 DEF CloseRecord, Choosing, Inv, ShapeInv, WalkInv
  <2>2. Residue' = Residue
    BY <2>1, SameResidue
  <2>3. records'[at] # NoRecord /\ \A p \in Passes : p # at => records'[p] = records[p]
    BY <1>1, <1>10, <2>1, ClosedIsRecord DEF Inv, TypeInv
  <2>4. \A p \in Residue : p < at' => p < at \/ p = at
    BY <1>0, <1>1, <2>1
  <2> QED
    BY <1>1, <2>1, <2>2, <2>3, <2>4 DEF WalkInv, Attempted, Reported
<1>11. CASE UNCHANGED vars
  BY <1>2, <1>11 DEF vars, loopVars
<1> QED
  BY <1>3, <1>4, <1>5, <1>7, <1>8, <1>9, <1>10, <1>11, StepKinds

LEMMA AlwaysWalk == Spec => []WalkInv
BY AlwaysInv, InitWalk, StepWalk, PTL DEF Spec

\* The passes share one client (cli.py 108-127): a report accounts for every
\* call of its session, a record stands for a call at least, and a pass of the
\* residue is without a record only behind a spent budget, and then so are all
\* that follow it.  A step cap of 0 would close each pass before its first call.
THEOREM OnlyBudgetSkips == ASSUME MaxSteps > 0 PROVE Spec => []OnlySpentBudgetSkips
<1>1. ASSUME Inv, CallInv, WalkInv PROVE OnlySpentBudgetSkips
  <2> SUFFICES ASSUME Reported
               PROVE  /\ CallsIn(records) = used
                      /\ \A p \in Fresh : records[p].calls > 0
                      /\ \A p \in Passes : Attempted(p) => p \in Residue
                      /\ \A p \in Residue : ~Attempted(p) =>
                           used = Budget /\ \A q \in Residue : q > p => ~Attempted(q)
    BY DEF OnlySpentBudgetSkips
  <2>1. WalkDone
    BY <1>1 DEF WalkInv
  <2>2. at \in Nat /\ Residue \subseteq Passes /\ \A p \in Passes : p \in Nat
    BY <1>1, TriageAssumption DEF Inv, TypeInv, Passes, Residue
  <2>3. exit # "traceback" /\ steps = 0 /\ used \in Nat
    BY <1>1 DEF Inv, ShapeInv, TypeInv, LoopInv, LoopTypeOK, Reported
  <2>4. CallsIn(records) = used
    <3>1. CallsIn(records) \in Nat
      BY <1>1, SumSame DEF Inv, TypeInv
    <3> QED
      BY <1>1, <2>3, <3>1 DEF CallInv
  <2>5. ASSUME NEW p \in Residue, ~Attempted(p)
        PROVE  used = Budget /\ \A q \in Residue : q > p => ~Attempted(q)
    <3>1. p >= at
      BY <2>1, <2>2, <2>5 DEF WalkDone
    <3>2. at \in Passes
      BY <1>1, <2>2, <3>1, TriageAssumption DEF Passes, Inv, TypeInv
    <3>3. \A q \in Residue : q > p => q >= at
      BY <2>2, <3>1
    <3> QED
      BY <2>1, <2>2, <3>2, <3>3 DEF WalkDone
  <2> QED
    BY <1>1, <2>4, <2>5 DEF CallInv, WalkInv
<1>2. Spec => []CallInv
  BY AlwaysCall
<1> QED
  BY <1>1, <1>2, AlwaysInv, AlwaysWalk, PTL

-----------------------------------------------------------------------------
(* What was concluded is not lost. *)

KeptInv ==
  /\ phase \in {"triage", "merge"} => \A p \in Passes : skip[p] \in {NoRecord, prior[p]}
  /\ phase = "merge" /\ at \in Passes => at \in Residue /\ skip[at] = NoRecord
  /\ phase \in {"triage", "merge"} =>
       \A p \in Residue : p < at /\ skip[p] # NoRecord =>
         records[p] # NoRecord /\ records[p].status = "concluded"

LEMMA InitKept == Init => KeptInv
BY DEF Init, KeptInv

LEMMA StepKept == ASSUME Inv, TextInv, WalkInv, KeptInv, [Next]_vars PROVE KeptInv'
<1>0. at \in Nat /\ \A p \in Passes : p \in Nat
  BY TriageAssumption DEF Inv, TypeInv, Passes
<1>1. Residue \subseteq Passes
  BY DEF Residue
<1>2. ASSUME phase' \notin {"triage", "merge"} PROVE KeptInv'
  BY <1>2 DEF KeptInv
<1>3. ASSUME UNCHANGED <<phase, det, prior, skip, at, records>> PROVE KeptInv'
  <2>1. Residue' = Residue
    BY <1>3, SameResidue
  <2> QED
    BY <1>3, <2>1 DEF KeptInv
<1>4. CASE Start
  BY <1>2, <1>4 DEF Start
<1>5. ASSUME NEW p \in Passes, NEW t \in Texts, Edit(p, t) PROVE KeptInv'
  BY <1>3, <1>5 DEF Edit
<1>6. CASE Between
  <2>1. CASE Orchestrate \/ OrchestratorFails \/ Merge
    BY <1>2, <2>1 DEF Orchestrate, OrchestratorFails, Merge
  <2>2. CASE LoadPrior
    <3>1. /\ phase' = "triage" /\ at' = 1 /\ prior' = prior
          /\ \A p \in Passes : skip'[p] = IF Reusable(p) THEN prior[p] ELSE NoRecord
      BY <2>2 DEF LoadPrior
    <3>2. \A p \in Passes : ~(p < 1)
      BY TriageAssumption DEF Passes
    <3>3. Residue' \subseteq Passes
      BY DEF Residue
    <3> QED
      BY <3>1, <3>2, <3>3 DEF KeptInv
  <2>3. CASE NotResidue
    <3>1. /\ phase = "triage" /\ phase' = "triage" /\ at' = at + 1
          /\ at \notin Residue /\ UNCHANGED <<det, records, prior, skip>>
      BY <2>3 DEF NotResidue, Looking
    <3>2. Residue' = Residue
      BY <3>1, SameResidue
    <3>3. \A p \in Residue : p < at' => p < at
      BY <1>0, <1>1, <3>1
    <3> QED
      BY <3>1, <3>2, <3>3 DEF KeptInv
  <2>4. CASE Reuse
    <3>1. /\ phase = "triage" /\ phase' = "triage" /\ at' = at + 1 /\ at \in Residue
          /\ UNCHANGED <<det, prior, skip>> /\ skip[at] # NoRecord
          /\ skip[at] \in AgentRecord
          /\ records' = [records EXCEPT ![at] = [skip[at] EXCEPT !.resumed = TRUE]]
      BY <2>4 DEF Reuse, Looking, Inv, TypeInv, MaybeRecord
    <3>2. Residue' = Residue
      BY <3>1, SameResidue
    <3>3. skip[at].status = "concluded"
      BY <1>1, <3>1 DEF TextInv, SkipInv
    <3>4. /\ records'[at] # NoRecord /\ records'[at].status = "concluded"
          /\ \A p \in Passes : p # at => records'[p] = records[p]
      BY <1>1, <3>1, <3>3, WithResumed DEF Inv, TypeInv
    <3>5. \A p \in Residue : p < at' => p < at \/ p = at
      BY <1>0, <1>1, <3>1
    <3>6. \A p \in Residue : p < at' /\ skip[p] # NoRecord =>
            records'[p] # NoRecord /\ records'[p].status = "concluded"
      <4> SUFFICES ASSUME NEW p \in Residue, p < at', skip[p] # NoRecord
                   PROVE  records'[p] # NoRecord /\ records'[p].status = "concluded"
        OBVIOUS
      <4>1. CASE p = at
        BY <3>4, <4>1
      <4>2. CASE p # at
        BY <1>1, <3>1, <3>4, <3>5, <4>2 DEF KeptInv
      <4> QED
        BY <4>1, <4>2
    <3> QED
      BY <3>1, <3>2, <3>6 DEF KeptInv
  <2>5. CASE OutOfBudget
    <3>1. /\ phase = "triage" /\ phase' = "merge" /\ at \in Residue /\ skip[at] = NoRecord
          /\ UNCHANGED <<det, prior, skip, at, records>>
      BY <2>5 DEF OutOfBudget, Looking
    <3>2. Residue' = Residue
      BY <3>1, SameResidue
    <3> QED
      BY <3>1, <3>2 DEF KeptInv
  <2>6. CASE ResidueDone
    <3>1. /\ phase = "triage" /\ phase' = "merge" /\ at \notin Passes
          /\ UNCHANGED <<det, prior, skip, at, records>>
      BY <2>6 DEF ResidueDone
    <3>2. Residue' = Residue
      BY <3>1, SameResidue
    <3> QED
      BY <3>1, <3>2 DEF KeptInv
  <2>7. CASE OpenPass
    BY <1>3, <2>7 DEF OpenPass
  <2> QED
    BY <1>6, <2>1, <2>2, <2>3, <2>4, <2>5, <2>6, <2>7 DEF Between
<1>7. ASSUME StaysOpen PROVE KeptInv'
  BY <1>3, <1>7 DEF StaysOpen, runVars
<1>8. CASE Quiet
  BY <1>7, <1>8 DEF Quiet
<1>9. ASSUME NEW c \in Checks, Finds(c) PROVE KeptInv'
  BY <1>7, <1>9 DEF Finds
<1>10. CASE HandlerRaises
  BY <1>2, <1>10 DEF HandlerRaises
<1>11. CASE CloseRecord
  <2>1. /\ phase = "triage" /\ phase' = "triage" /\ at' = at + 1 /\ at \in Passes
        /\ UNCHANGED <<det, prior, skip>> /\ skip[at] = NoRecord
    BY <1>11 DEF CloseRecord, Choosing, Inv, ShapeInv, WalkInv
  <2>2. Residue' = Residue
    BY <2>1, SameResidue
  <2>3. \A p \in Passes : p # at => records'[p] = records[p]
    BY <1>11 DEF CloseRecord, Inv, TypeInv
  <2>4. \A p \in Residue : p < at' => p < at \/ p = at
    BY <1>0, <1>1, <2>1
  <2> QED
    BY <1>1, <2>1, <2>2, <2>3, <2>4 DEF KeptInv
<1>12. CASE UNCHANGED vars
  BY <1>3, <1>12 DEF vars
<1> QED
  BY <1>4, <1>5, <1>6, <1>8, <1>9, <1>10, <1>11, <1>12, StepKinds

LEMMA AlwaysKept == Spec => []KeptInv
BY AlwaysInv, AlwaysText, AlwaysWalk, InitKept, StepKept, PTL DEF Spec

\* "Completed work is reused" (cli.py 55): every record --resume accepted is in
\* the next report too, unless the loop stopped on a spent budget at an earlier
\* pass that had none (the break of cli.py 125).
THEOREM ConcludedIsKept == Spec => ConcludedWorkKept
<1> DEFINE Kept1 == phase = "merge" =>
             \A p \in Residue : (skip[p] # NoRecord /\ prior'[p] = NoRecord) =>
               \E q \in Residue : q < p /\ skip[q] = NoRecord /\ ~Attempted(q)
<1>1. ASSUME Inv, KeptInv, [Next]_vars PROVE Kept1
  <2> SUFFICES ASSUME phase = "merge", NEW p \in Residue, skip[p] # NoRecord, prior'[p] = NoRecord
               PROVE  \E q \in Residue : q < p /\ skip[q] = NoRecord /\ ~Attempted(q)
    OBVIOUS
  <2>1. p \in Passes /\ p \in 1..NPasses /\ at \in 1..(NPasses + 1) /\ NPasses \in Nat
    BY <1>1, TriageAssumption DEF Residue, Passes, Inv, TypeInv
  <2>2. prior[p] # NoRecord
    BY <1>1, <2>1 DEF KeptInv
  <2>3. Merge
    <3>1. ~busy
      BY <1>1 DEF Inv, ShapeInv
    <3>2. prior' # prior
      BY <2>2
    <3> QED
      BY <1>1, <3>1, <3>2 DEF Next, vars, Start, Edit, Between, OneTurn, Returns,
         OrchestratorFails, Orchestrate, LoadPrior, NotResidue, Reuse, OutOfBudget, OpenPass,
         ResidueDone, Looking, Invalid, Probe, Synthesize, Conclude, HandlerRaises, WindDown,
         CloseRecord, RefuseStrategy, Dispatch, StrategyReturns, ProposalReturns, Choosing
  <2>4. ~(p < at)
    <3> SUFFICES ASSUME p < at PROVE FALSE
      OBVIOUS
    <3>1. records[p] # NoRecord /\ records[p].status = "concluded"
      BY <1>1 DEF KeptInv
    <3>2. records' = Headed /\ prior'[p] = Kept(records'[p])
      BY <2>1, <2>3 DEF Merge, Headed
    <3>3. records'[p] # NoRecord /\ records'[p].status = "concluded"
      BY <1>1, <2>1, <3>1, <3>2, HeadedAreRecords
    <3> QED
      BY <3>2, <3>3 DEF Kept
  <2>5. at \in Passes /\ at <= p
    BY <2>1, <2>4 DEF Passes
  <2>6. at \in Residue /\ skip[at] = NoRecord /\ records[at] = NoRecord
    BY <1>1, <2>1, <2>5 DEF KeptInv, Inv, ShapeInv
  <2>7. at < p
    BY <2>1, <2>5, <2>6
  <2> QED
    BY <2>6, <2>7 DEF Attempted
<1>2. Inv /\ KeptInv /\ [Next]_vars => [Kept1]_vars
  BY <1>1
<1> QED
  BY <1>2, AlwaysInv, AlwaysKept, PTL DEF Spec, ConcludedWorkKept
=============================================================================
