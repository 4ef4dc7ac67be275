------------------------------ MODULE Campaign ------------------------------
(***************************************************************************)
(* A compiled-target campaign (o2t/agent/campaign.py with gap_checks.py,   *)
(* staging.py, loop.py and llm.py): the operator starts or resumes cv-agent*)
(* sessions over one output directory, and in a session the agent loop     *)
(* lets a model choose among the campaign's actions.                       *)
(*                                                                         *)
(* Two kinds of state.  In the process, lost when it goes down: the job    *)
(* records, the gap-check attempts, the loop.  On disk: the declared       *)
(* outputs, the checkpoint, the session reports and the staged candidates. *)
(* A handler that runs to its end is one action, because nothing else      *)
(* touches the process; a process that dies inside a job or a validation   *)
(* is an action of its own, which keeps what had reached the disk.         *)
(*                                                                         *)
(* All outputs of a job are one file here, and its content stands for its  *)
(* SHA-256.                                                                *)
(***************************************************************************)
EXTENDS JobGraph, GapChecks, AgentLoop, FiniteSets

CONSTANTS Requires,         \* job -> the jobs it requires
          RequiredJobs,     \* jobs whose `required` is true
          Writes,           \* job -> the contents a run of it can write
          Absent,           \* no such file
          BadJson,          \* contents that are not JSON (or too large a result)
          Tools,            \* sources of candidate checkers
          Wordings,         \* wordings of the advisory text of a conclusion
          EnableSynthesis,  \* --enable-synthesis
          Revisions,        \* states of the manifest and of the declared inputs
          FirstRevision,
          NoFile,           \* no checkpoint
          StaleReports,     \* may --resume name an older session's report
          MaxSessions,      \* bound: sessions started
          MaxEdits,         \* bound: edits of the inputs
          MaxTampers        \* bound: outputs changed from outside

ASSUME CampaignAssumption ==
  /\ Requires \in [Jobs -> SUBSET Jobs]
  /\ Acyclic(Requires)
  /\ RequiredJobs \in (SUBSET Jobs) \ {{}}
  /\ Writes \in [Jobs -> SUBSET Contents]
  /\ Absent \notin Contents
  /\ BadJson \subseteq Contents \ BadShape
  /\ EnableSynthesis \in BOOLEAN
  /\ GapRequired => EnableSynthesis
  /\ FirstRevision \in Revisions
  /\ StaleReports \in BOOLEAN
  /\ MaxSessions \in Nat /\ MaxEdits \in Nat /\ MaxTampers \in Nat

VARIABLES
  proc,      \* "up" while a cv-agent process runs
  records,   \* Campaign.records
  disk,      \* the declared outputs
  staged,    \* agent-staging/gap-attempt-N, the candidate in it
  ckpt,      \* .campaign/checkpoint.json
  reports,   \* the campaign part of every session's report.json
  inputs,    \* the manifest and declared inputs now
  runs,      \* history: how many runs of each job came to their end
  sessions, edits, tampers

procVars == <<records, attempts, selected>>
diskVars == <<disk, staged, ckpt, reports>>
envVars  == <<inputs, edits, tampers>>
vars == <<proc, procVars, diskVars, envVars, runs, sessions, loopVars>>

-----------------------------------------------------------------------------
Bytes == Contents \cup {Absent}

Record == [status : RecordStatus, hash : Bytes, rev : Revisions]

NoRecord == [status |-> "none", hash |-> Absent, rev |-> FirstRevision]

Attempt == [gap : Cases, tool : Tools, verdict : Verdicts, native : [Jobs -> Bytes]]

\* Campaign.snapshot: rev is the fingerprint, statuses are derived.
Saved == [rev : Revisions, records : [Jobs -> Record],
          attempts : Seq(Attempt), selected : Cases \cup {NoGap}]

ASSUME SavedAssumption == NoFile \notin Saved

Statuses(rec) == [j \in Jobs |-> rec[j].status]

Complete(s) == /\ JobsComplete(Requires, Statuses(s.records), RequiredJobs)
               /\ GapsComplete(s.records, s.attempts)

Status(j) == StatusOf(Requires, Statuses(records), j)

StillToRun == Remaining(Requires, Statuses(records), RequiredJobs)

\* Faulty variant: only the candidate is hashed.
NativeBytesOmitted(g) == [j \in Jobs |-> Absent]

\* The libraries a validation hashes: those of its case, nothing else.
NativeBytes(g) == [j \in Jobs |-> IF j \in Natives[g] THEN disk[j] ELSE Absent]

\* A fresh client and a fresh AgentState.
NewLoop == /\ used' = 0 /\ steps' = 0 /\ strikes' = 0
           /\ seen' = {} /\ status' = "running" /\ evidence' = <<>>

\* The memory of a process that starts; also what a process leaves behind.
NewProcess == /\ records' = [j \in Jobs |-> NoRecord]
              /\ attempts' = <<>>
              /\ selected' = NoGap
              /\ NewLoop

Dies == proc' = "down" /\ NewProcess

-----------------------------------------------------------------------------
(* Starting and resuming: run_campaign up to the loop. *)

Init == /\ proc = "down"
        /\ records = [j \in Jobs |-> NoRecord]
        /\ attempts = <<>>
        /\ selected = NoGap
        /\ used = 0 /\ LoopStart
        /\ disk = [j \in Jobs |-> Absent]
        /\ staged = [i \in 1..MaxAttempts |-> {}]
        /\ ckpt = NoFile
        /\ reports = {}
        /\ inputs = FirstRevision
        /\ runs = [j \in Jobs |-> 0]
        /\ sessions = 0 /\ edits = 0 /\ tampers = 0

\* A campaign that is not resumed needs a directory without a checkpoint and
\* without declared outputs.
FreshAllowed == ckpt = NoFile /\ \A j \in Jobs : disk[j] = Absent

Start ==
  /\ proc = "down" /\ sessions < MaxSessions
  /\ FreshAllowed
  /\ proc' = "up"
  /\ NewProcess
  /\ ckpt' = [rev |-> inputs, records |-> records', attempts |-> <<>>, selected |-> NoGap]
  /\ sessions' = sessions + 1
  /\ UNCHANGED <<disk, staged, reports, envVars, runs>>

\* Faulty variant: the fingerprint is not compared.
AnyInputs(s) == TRUE

SameInputs(s) == s.rev = inputs

\* Faulty variant: the output of a failed job is compared too.
HashesMatchAll(s) ==
  \A j \in Jobs : s.records[j].status # "none" => disk[j] = s.records[j].hash

HashesMatch(s) ==
  \A j \in Jobs : s.records[j].status = "completed" => disk[j] = s.records[j].hash

\* Campaign.resume and GapChecks.restore accept s.
Acceptable(s) ==
  /\ SameInputs(s)
  /\ HashesMatch(s)
  /\ DependencyClosed(Requires, Statuses(s.records))
  /\ Len(s.attempts) <= MaxAttempts
  /\ \A i \in DOMAIN s.attempts :
       LET a == s.attempts[i]
       IN  /\ a.tool \in staged[i]
           /\ \A n \in Natives[a.gap] : disk[n] = a.native[n]

ResumeSources ==
  IF ckpt = NoFile THEN {} ELSE {ckpt} \cup (IF StaleReports THEN reports ELSE {})

Resume(s) ==
  /\ proc = "down" /\ sessions < MaxSessions
  /\ Acceptable(s)
  /\ proc' = "up"
  /\ records' = s.records
  /\ attempts' = s.attempts
  /\ selected' = s.selected
  /\ ckpt' = s
  /\ used' = 0 /\ steps' = 0 /\ strikes' = 0 /\ seen' = {} /\ evidence' = <<>>
  /\ status' = IF Complete(s) THEN "resumed-complete" ELSE "running"
  /\ sessions' = sessions + 1
  /\ UNCHANGED <<disk, staged, reports, envVars, runs>>

-----------------------------------------------------------------------------
(* The actions of the campaign's registry, one turn of the loop each. *)

Up == proc = "up"

\* Faulty variant: the gap checks are not saved.
CheckpointJobsOnly == ckpt' = [ckpt EXCEPT !.records = records']

Checkpoint == ckpt' = [rev |-> ckpt.rev, records |-> records',
                       attempts |-> attempts', selected |-> selected']

\* What a run of j leaves in its output: something it writes, or what was there.
AfterRun(j) == Writes[j] \cup {disk[j]}

\* How a run ends: with an accepted exit code, or with another one, a timeout
\* or an OSError.
Exits == {"success", "failure"}

\* The record of a run of j that left c.
RecordOf(j, c, exit) ==
  IF exit = "success" /\ c # Absent /\ ~(j = ReportJob /\ c \in BadJson)
  THEN [status |-> "completed", hash |-> c, rev |-> inputs]
  ELSE [status |-> "failed", hash |-> Absent, rev |-> inputs]

StepJob(j) ==
  /\ Up /\ Calling
  /\ Ready(Requires, Statuses(records), j)
  /\ \E c \in AfterRun(j), exit \in Exits :
       /\ disk' = [disk EXCEPT ![j] = c]
       /\ records' = [records EXCEPT ![j] = RecordOf(j, c, exit)]
       /\ ~GapsRaise(records')
       /\ UNCHANGED <<attempts, selected>>
       /\ Checkpoint
       /\ Turn(<<"campaign-step", j, records'[j].status>>, "running")
  /\ runs' = [runs EXCEPT ![j] = @ + 1]
  /\ UNCHANGED <<proc, staged, reports, envVars, sessions>>

\* The report job completed with a result of the wrong shape: the snapshot of
\* its own checkpoint raises, and the process ends without writing it.
StepRaises(j) ==
  /\ Up /\ Calling
  /\ Ready(Requires, Statuses(records), j)
  /\ \E c \in AfterRun(j) :
       /\ disk' = [disk EXCEPT ![j] = c]
       /\ GapsRaise([records EXCEPT ![j] = RecordOf(j, c, "success")])
  /\ runs' = [runs EXCEPT ![j] = @ + 1]
  /\ Dies
  /\ UNCHANGED <<staged, ckpt, reports, envVars, sessions>>

\* The process is interrupted while job j runs.
StepInterrupted(j) ==
  /\ Up /\ Calling
  /\ Ready(Requires, Statuses(records), j)
  /\ \E c \in AfterRun(j) : disk' = [disk EXCEPT ![j] = c]
  /\ Dies
  /\ UNCHANGED <<staged, ckpt, reports, envVars, runs, sessions>>

ReadArtifact(j) ==
  /\ Up
  /\ Turn(<<"read-artifact", j, Status(j) = "completed",
            IF Status(j) = "completed" THEN disk[j] ELSE Absent>>, "running")
  /\ UNCHANGED <<proc, procVars, diskVars, envVars, runs, sessions>>

\* Faulty variant: the libraries need not be built.
SelectableUnbuilt(g) == g \in Gaps(records)

Selectable(g) == g \in AvailableGaps(records)

SelectGap(g) ==
  /\ Up /\ EnableSynthesis
  /\ IF Selectable(g)
     THEN /\ selected' = g
          /\ UNCHANGED <<records, attempts>>
          /\ Checkpoint
     ELSE UNCHANGED <<procVars, ckpt>>
  /\ Turn(<<"select-gap", g, Selectable(g)>>, "running")
  /\ UNCHANGED <<proc, disk, staged, reports, envVars, runs, sessions>>

\* Faulty variant: the directory of the last attempt is used again.
StageAgain(t) == LET n == IF attempts = <<>> THEN 1 ELSE Len(attempts)
                 IN  staged' = [staged EXCEPT ![n] = {t}]

\* stage_tool writes the candidate into the directory of the next attempt, over
\* a candidate of the same name and beside one of another name.
Stage(t) == \E kept \in {{}, staged[Len(attempts) + 1]} :
              staged' = [staged EXCEPT ![Len(attempts) + 1] = kept \cup {t}]

NativesPresent == \A n \in Natives[selected] : disk[n] # Absent

SynthesizeGapCheck(t) ==
  /\ Up /\ EnableSynthesis
  /\ AttemptsLeft /\ NativesPresent
  /\ Stage(t)
  /\ \E verdict \in Verdicts :
       /\ attempts' = Append(attempts, [gap |-> selected, tool |-> t, verdict |-> verdict,
                                        native |-> NativeBytes(selected)])
       /\ UNCHANGED <<records, selected>>
       /\ Checkpoint
       /\ Turn(<<"synthesize-gap-check", t, Len(attempts'), verdict>>, "running")
  /\ UNCHANGED <<proc, disk, reports, envVars, runs, sessions>>

SynthesisRefused(t) ==
  /\ Up /\ EnableSynthesis
  /\ ~AttemptsLeft
  /\ Turn(<<"synthesize-gap-check", t, "refused">>, "running")
  /\ UNCHANGED <<proc, procVars, diskVars, envVars, runs, sessions>>

\* The process is interrupted during the validation, or a missing library
\* raises when its hash is taken: the candidate is staged, nothing recorded.
SynthesisInterrupted(t) ==
  /\ Up /\ EnableSynthesis /\ Calling
  /\ AttemptsLeft
  /\ Stage(t)
  /\ Dies
  /\ UNCHANGED <<disk, ckpt, reports, envVars, runs, sessions>>

Conclude(w) ==
  /\ Up
  /\ IF StillToRun # {}
     THEN Turn(<<"conclude", w, "campaign-incomplete", StillToRun>>, "running")
     ELSE IF MustContinue(records, attempts)
     THEN Turn(<<"conclude", w, "gap-check-required", AvailableGaps(records),
                 selected, attempts>>, "running")
     ELSE Turn(<<"conclude", w, "concluded">>, "concluded")
  /\ UNCHANGED <<proc, procVars, diskVars, envVars, runs, sessions>>

BadReply == /\ Up
            /\ InvalidReply
            /\ UNCHANGED <<proc, procVars, diskVars, envVars, runs, sessions>>

LoopLimit == /\ Up
             /\ StepCap \/ BudgetGone
             /\ UNCHANGED <<proc, procVars, diskVars, envVars, runs, sessions>>

-----------------------------------------------------------------------------
\* The loop is over: the session's report is written and the process exits.
Finish == /\ Up /\ status # "running"
          /\ reports' = reports \cup {[rev |-> ckpt.rev, records |-> records,
                                       attempts |-> attempts, selected |-> selected]}
          /\ Dies
          /\ UNCHANGED <<disk, staged, ckpt, envVars, runs, sessions>>

\* The process is killed between two turns.
Crash == /\ Up
         /\ Dies
         /\ UNCHANGED <<diskVars, envVars, runs, sessions>>

\* The manifest or a declared input is edited between two sessions.
EditInputs == /\ proc = "down" /\ edits < MaxEdits
              /\ \E r \in Revisions \ {inputs} : inputs' = r
              /\ edits' = edits + 1
              /\ UNCHANGED <<proc, procVars, diskVars, tampers, runs, sessions, loopVars>>

\* Something else removes an output or writes one as a run of j could.
Tamper(j) == /\ tampers < MaxTampers
             /\ \E c \in (Writes[j] \cup {Absent}) \ {disk[j]} : disk' = [disk EXCEPT ![j] = c]
             /\ tampers' = tampers + 1
             /\ UNCHANGED <<proc, procVars, staged, ckpt, reports, inputs, edits,
                            runs, sessions, loopVars>>

TurnOfLoop ==
  \/ \E j \in Jobs : StepJob(j) \/ StepRaises(j) \/ ReadArtifact(j)
  \/ \E g \in Cases : SelectGap(g)
  \/ \E t \in Tools : SynthesizeGapCheck(t) \/ SynthesisRefused(t)
  \/ \E w \in Wordings : Conclude(w)
  \/ BadReply
  \/ LoopLimit

Interrupt ==
  \/ \E j \in Jobs : StepInterrupted(j)
  \/ \E t \in Tools : SynthesisInterrupted(t)
  \/ Crash

Next ==
  \/ Start
  \/ \E s \in ResumeSources : Resume(s)
  \/ TurnOfLoop
  \/ Finish
  \/ Interrupt
  \/ EditInputs
  \/ \E j \in Jobs : Tamper(j)

Spec == Init /\ [][Next]_vars

\* Jobs and the model command run under timeouts, so a session that is up
\* takes its next turn and, when the loop is over, writes its report.
FairSpec == Spec /\ WF_vars(TurnOfLoop \/ Finish)

-----------------------------------------------------------------------------
TypeOK ==
  /\ proc \in {"up", "down"}
  /\ records \in [Jobs -> Record]
  /\ attempts \in Seq(Attempt)
  /\ selected \in Cases \cup {NoGap}
  /\ disk \in [Jobs -> Bytes]
  /\ staged \in [1..MaxAttempts -> SUBSET Tools]
  /\ ckpt \in Saved \cup {NoFile}
  /\ reports \subseteq Saved
  /\ inputs \in Revisions
  /\ runs \in [Jobs -> Nat]
  /\ sessions \in Nat /\ edits \in Nat /\ tampers \in Nat
  /\ LoopTypeOK

Snapshot == [rev |-> ckpt.rev, records |-> records, attempts |-> attempts,
             selected |-> selected]

OnDisk == (IF ckpt = NoFile THEN {} ELSE {ckpt}) \cup reports

\* A job is recorded as completed only when all it requires is, in the running
\* process, in the checkpoint and in every report (campaign.py step, resume).
RecordsFollowDependencies ==
  /\ DependencyClosed(Requires, Statuses(records))
  /\ \A s \in OnDisk : DependencyClosed(Requires, Statuses(s.records))

\* Between two turns the checkpoint holds everything the process knows, so a
\* process killed there loses no recorded work (campaign.py step, gap_checks.py
\* select and synthesize each end with a checkpoint).
CheckpointIsCurrent == Up => ckpt = Snapshot

\* Unless an output was changed from outside or the inputs were edited, a
\* campaign whose process is gone can always go on, by a fresh start or from
\* its checkpoint: no crash leaves a directory that both refuse.
RestartPossible ==
  (/\ proc = "down"
   /\ tampers = 0
   /\ ckpt # NoFile => ckpt.rev = inputs)
  => FreshAllowed \/ (ckpt # NoFile /\ Acceptable(ckpt))

\* The selected gap, restored by a resume without being looked up again, is
\* still one the completed report lists and whose libraries are all built
\* (gap_checks.py select, synthesize, restore).
SelectedIsBuilt ==
  \A s \in OnDisk : s.selected # NoGap => s.selected \in AvailableGaps(s.records)

\* Every recorded attempt was validated on the very libraries the job records
\* name, unless those were changed from outside (gap_checks.py synthesize).
AttemptsGrounded ==
  tampers = 0 =>
    \A s \in OnDisk : \A i \in DOMAIN s.attempts :
      LET a == s.attempts[i]
      IN  /\ a.gap \in AvailableGaps(s.records)
          /\ \A n \in Natives[a.gap] : a.native[n] = s.records[n].hash

\* The outputs a report vouches for stay on disk as it hashed them, through
\* every later session (docs/agent-campaign.md, completion and resume).
OutputsOfReportsKept ==
  tampers = 0 =>
    \A s \in OnDisk, j \in Jobs :
      s.records[j].status = "completed" => disk[j] = s.records[j].hash

\* A candidate that was judged stays in its numbered directory for review:
\* "never overwrite the rejected checker needed for review" (gap_checks.py).
AttemptsPreserved ==
  \A s \in OnDisk : \A i \in DOMAIN s.attempts : s.attempts[i].tool \in staged[i]

\* When a conclusion is accepted on an incomplete campaign, a needed job failed
\* or the required gap check could not be had (campaign.py registry, conclude).
IncompleteConclusionIsExplained ==
  (status = "concluded" /\ ~Complete(Snapshot)) =>
    \/ \E j \in Needed(Requires, RequiredJobs) : records[j].status = "failed"
    \/ GapRequired /\ GapStatus(records, attempts)
                        \in {"waiting", "unavailable", "exhausted"}

\* "Exhaustion or missing native bindings permits an honest conclusion"
\* (docs/agent-campaign.md): while the libraries of a bound gap can still be
\* built, the binding is not missing and the conclusion has to wait.
ConclusionWaitsForBindings ==
  (status = "concluded" /\ GapRequired
     /\ GapStatus(records, attempts) \notin {"accepted", "not-applicable", "exhausted"}) =>
    \A g \in Gaps(records) \cap Cases :
      \E n \in Natives[g] : Status(n) \in {"failed", "blocked"}

\* The strikes count the turns at the end of the evidence that brought nothing
\* new, and the loop is degraded exactly at two of them in a row (loop.py).
IdleTurnsDegrade ==
  /\ Len(evidence) = steps
  /\ \A i \in 1..steps : i > steps - strikes => evidence[i] # "new"
  /\ strikes < steps => evidence[steps - strikes] = "new"
  /\ status = "degraded" <=> strikes = 2

\* Every record in the checkpoint and in the process was made under the manifest
\* and inputs of its fingerprint (campaign.py fingerprint, resume).
InputsConsistent ==
  \A s \in OnDisk, j \in Jobs :
    s.records[j].status # "none" => s.records[j].rev = s.rev

\* "Completed and failed jobs cannot consume another execution"
\* (docs/agent-campaign.md): no job runs to its end twice in a campaign.
SettledOnce == \A j \in Jobs : runs[j] <= 1

\* The checkpoint implements the campaign's ledger.
RecordedJobs == IF ckpt = NoFile THEN [j \in Jobs |-> "none"] ELSE Statuses(ckpt.records)

RecordedAttempts == IF ckpt = NoFile THEN <<>> ELSE ckpt.attempts

Ledger == INSTANCE CampaignLedger WITH ledger <- RecordedJobs, log <- RecordedAttempts

LedgerImplemented == Ledger!Spec

\* A session never hangs: once up, the process comes down again.
SessionEnds == proc = "up" ~> proc = "down"
=============================================================================
