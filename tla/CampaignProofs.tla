--------------------------- MODULE CampaignProofs ---------------------------
(***************************************************************************)
(* Theorems about Campaign for every job graph, every set of gaps and      *)
(* every bound: types, the checkpoint, the ledger it implements, what the  *)
(* files keep from one session to the next, and how a session ends.        *)
(***************************************************************************)
EXTENDS Campaign, TLAPS

-----------------------------------------------------------------------------
(* The agent loop. *)

\* A running loop has at most one strike.
LoopInv == LoopTypeOK /\ (status = "running" => strikes <= 1)

\* A turn keeps the loop's invariant, whatever its handler observed.
LEMMA TurnKeepsLoop ==
  ASSUME LoopInv, NEW ACTION sig, NEW after \in {"running", "concluded"}, Turn(sig, after)
  PROVE  LoopInv'
<1>1. strikes \in 0..1 /\ used \in Nat /\ steps \in Nat /\ evidence \in Seq(EvidenceKind)
  BY DEF LoopInv, LoopTypeOK, Turn, Calling
<1>2. used' \in Nat /\ steps' \in Nat
  BY <1>1 DEF Turn, Spend
<1>3. evidence' \in Seq(EvidenceKind)
  BY <1>1 DEF Turn, EvidenceKind
<1>4. /\ strikes' \in 0..2
      /\ status' \in Stopped \cup {"running", "resumed-complete"}
      /\ status' = "running" => strikes' <= 1
  BY <1>1 DEF Turn, Strike, Stopped
<1> QED
  BY <1>2, <1>3, <1>4 DEF LoopInv, LoopTypeOK

\* So does an invalid reply.
LEMMA InvalidReplyKeepsLoop ==
  ASSUME LoopInv, InvalidReply
  PROVE  LoopInv'
<1>1. strikes \in 0..1 /\ used \in Nat /\ steps \in Nat /\ evidence \in Seq(EvidenceKind)
  BY DEF LoopInv, LoopTypeOK, InvalidReply, Calling
<1>2. used' \in Nat /\ steps' \in Nat
  BY <1>1 DEF InvalidReply, Spend
<1>3. evidence' \in Seq(EvidenceKind)
  BY <1>1 DEF InvalidReply, EvidenceKind
<1>4. /\ strikes' \in 0..2
      /\ status' \in Stopped \cup {"running", "resumed-complete"}
      /\ status' = "running" => strikes' <= 1
  BY <1>1 DEF InvalidReply, Strike, Stopped
<1> QED
  BY <1>2, <1>3, <1>4 DEF LoopInv, LoopTypeOK

\* So do the loop's two limits.
LEMMA LimitKeepsLoop ==
  ASSUME LoopInv, StepCap \/ BudgetGone
  PROVE  LoopInv'
BY DEF LoopInv, LoopTypeOK, StepCap, BudgetGone, Stopped

\* A new process starts with it too.
LEMMA NewLoopKeepsLoop ==
  ASSUME NewLoop
  PROVE  LoopInv'
BY DEF NewLoop, LoopInv, LoopTypeOK, EvidenceKind

-----------------------------------------------------------------------------
(* The job graph. *)

\* Settling a ready job keeps the records closed under dependencies.
LEMMA SettleKeepsClosed ==
  ASSUME NEW J, NEW req \in [J -> SUBSET J], NEW st \in [J -> RecordStatus],
         DependencyClosed(req, st),
         NEW j \in J, Ready(req, st, j), NEW outcome \in {"completed", "failed"}
  PROVE  DependencyClosed(req, [st EXCEPT ![j] = outcome])
BY DEF DependencyClosed, Ready, AllCompleted, RecordStatus

-----------------------------------------------------------------------------
(* Types. *)

\* What the assumptions say of the constants, in the form the leaves cite.
LEMMA Constants ==
  /\ Requires \in [Jobs -> SUBSET Jobs]
  /\ ReportJob \in Jobs
  /\ Cases \subseteq GapNames /\ NoGap \notin GapNames
  /\ Natives \in [Cases -> SUBSET Jobs]
  /\ Found \in [Contents -> SUBSET GapNames]
  /\ MaxAttempts \in Nat \ {0}
  /\ Writes \in [Jobs -> SUBSET Contents]
  /\ Absent \notin Contents
  /\ FirstRevision \in Revisions
  /\ NoFile \notin Saved
BY GapAssumption, CampaignAssumption, SavedAssumption

\* A job that has not run has a record of the type.
LEMMA NoRecordType == NoRecord \in Record
BY Constants DEF NoRecord, Record, RecordStatus, Bytes

\* The record of a run says how it settled and, if completed, what it wrote.
LEMMA RecordOfType ==
  ASSUME NEW j \in Jobs, NEW c \in Bytes, NEW exit \in Exits, inputs \in Revisions
  PROVE  /\ RecordOf(j, c, exit) \in Record
         /\ RecordOf(j, c, exit).status \in {"completed", "failed"}
         /\ RecordOf(j, c, exit).status = "completed" =>
              c \in Contents /\ RecordOf(j, c, exit).hash = c
BY Constants DEF Record, RecordOf, RecordStatus, Bytes

\* What holds of a process and of the files between two steps.
ProcessInv == /\ proc = "up"   => ckpt # NoFile /\ ckpt = Snapshot
              /\ proc = "down" => /\ records = [j \in Jobs |-> NoRecord]
                                 /\ attempts = <<>> /\ selected = NoGap

TypeInv == TypeOK /\ LoopInv /\ ProcessInv

\* The empty directory, with no process.
LEMMA InitType == Init => TypeInv
<1> SUFFICES ASSUME Init PROVE TypeInv
  OBVIOUS
<1>1. records \in [Jobs -> Record] /\ disk \in [Jobs -> Bytes]
  BY NoRecordType DEF Init, Bytes
<1>2. staged \in [1..MaxAttempts -> SUBSET Tools] /\ runs \in [Jobs -> Nat]
  BY DEF Init
<1>3. LoopInv
  BY DEF Init, LoopStart, LoopInv, LoopTypeOK, EvidenceKind
<1> QED
  BY <1>1, <1>2, <1>3, Constants DEF Init, TypeInv, TypeOK, LoopInv, ProcessInv

\* A step after which no process runs.
LEMMA DiesType ==
  ASSUME TypeInv, Dies,
         ckpt' \in Saved \cup {NoFile}, reports' \subseteq Saved,
         disk' \in [Jobs -> Bytes], staged' \in [1..MaxAttempts -> SUBSET Tools],
         runs' \in [Jobs -> Nat], UNCHANGED <<envVars, sessions>>
  PROVE  TypeInv'
<1>1. records' \in [Jobs -> Record]
  BY NoRecordType DEF Dies, NewProcess
<1>2. LoopInv'
  BY NewLoopKeepsLoop DEF Dies, NewProcess
<1> QED
  BY <1>1, <1>2 DEF TypeInv, TypeOK, LoopInv, ProcessInv, Dies, NewProcess, envVars

\* A turn that leaves the campaign as it is.
LEMMA IdleType ==
  ASSUME TypeInv, Up, LoopInv',
         UNCHANGED <<proc, procVars, diskVars, envVars, runs, sessions>>
  PROVE  TypeInv'
<1>1. Snapshot' = Snapshot
  BY DEF Snapshot, procVars, diskVars
<1> QED
  BY <1>1 DEF TypeInv, TypeOK, LoopInv, ProcessInv, Up, procVars, diskVars, envVars

\* A turn that ends with a checkpoint.
LEMMA CheckpointType ==
  ASSUME TypeInv, Up, Checkpoint, LoopInv', proc' = proc,
         records' \in [Jobs -> Record], attempts' \in Seq(Attempt),
         selected' \in Cases \cup {NoGap},
         disk' \in [Jobs -> Bytes], staged' \in [1..MaxAttempts -> SUBSET Tools],
         runs' \in [Jobs -> Nat], UNCHANGED <<reports, envVars, sessions>>
  PROVE  TypeInv'
<1>1. ckpt \in Saved
  BY DEF TypeInv, TypeOK, ProcessInv, Up
<1>2. ckpt.rev \in Revisions
  BY <1>1 DEF Saved
<1>3. ckpt' \in Saved
  BY <1>2 DEF Checkpoint, Saved
<1>4. ckpt' # NoFile
  BY <1>3, Constants
<1>5. ckpt' = Snapshot'
  BY DEF Checkpoint, Snapshot
<1> QED
  BY <1>3, <1>4, <1>5 DEF TypeInv, TypeOK, LoopInv, ProcessInv, Up, envVars

\* Every step keeps the types and the agreement of process and checkpoint.
LEMMA NextType == TypeInv /\ [Next]_vars => TypeInv'
<1> SUFFICES ASSUME TypeInv, [Next]_vars PROVE TypeInv'
  OBVIOUS
<1> USE DEF TypeInv
<1>1. CASE Start
  <2>1. LoopInv'
    BY <1>1, NewLoopKeepsLoop DEF Start, NewProcess
  <2>2. records' \in [Jobs -> Record]
    BY <1>1, NoRecordType DEF Start, NewProcess
  <2>3. ckpt' \in Saved /\ ckpt' = Snapshot'
    BY <1>1, <2>2 DEF Start, NewProcess, Saved, Snapshot, TypeOK
  <2>4. ckpt' # NoFile
    BY <2>3, Constants
  <2>5. proc' = "up" /\ attempts' = <<>> /\ selected' = NoGap
    BY <1>1 DEF Start, NewProcess
  <2>6. TypeOK'
    BY <1>1, <2>1, <2>2, <2>3, <2>5 DEF Start, TypeOK, LoopInv, envVars
  <2> QED
    BY <2>1, <2>3, <2>4, <2>5, <2>6 DEF ProcessInv
<1>2. ASSUME NEW s \in ResumeSources, Resume(s) PROVE TypeInv'
  <2>1. s \in Saved
    BY <1>2 DEF ResumeSources, TypeOK
  <2>2. LoopInv'
    BY <1>2 DEF Resume, LoopInv, LoopTypeOK, EvidenceKind
  <2>3. /\ records' \in [Jobs -> Record] /\ attempts' \in Seq(Attempt)
        /\ selected' \in Cases \cup {NoGap}
    BY <1>2, <2>1 DEF Resume, Saved
  <2>4. ckpt' = Snapshot'
    BY <1>2, <2>1 DEF Resume, Saved, Snapshot
  <2> QED
    BY <1>2, <2>1, <2>2, <2>3, <2>4, Constants DEF Resume, TypeOK, LoopInv, ProcessInv, envVars
<1>3. ASSUME NEW j \in Jobs, StepJob(j) PROVE TypeInv'
  <2>1. PICK c \in AfterRun(j), exit \in Exits :
          /\ disk' = [disk EXCEPT ![j] = c]
          /\ records' = [records EXCEPT ![j] = RecordOf(j, c, exit)]
          /\ UNCHANGED <<attempts, selected>>
          /\ Checkpoint
          /\ Turn(<<"campaign-step", j, records'[j].status>>, "running")
    BY <1>3 DEF StepJob
  <2>2. c \in Bytes
    BY Constants DEF AfterRun, Bytes, TypeOK
  <2>3. RecordOf(j, c, exit) \in Record
    <3>1. inputs \in Revisions
      BY DEF TypeOK
    <3> QED
      BY <2>2, <3>1, RecordOfType
  <2>4. LoopInv'
    BY <2>1, TurnKeepsLoop
  <2>5. records' \in [Jobs -> Record] /\ disk' \in [Jobs -> Bytes]
    BY <2>1, <2>2, <2>3 DEF TypeOK
  <2>6. runs' \in [Jobs -> Nat]
    <3>1. runs \in [Jobs -> Nat] /\ runs' = [runs EXCEPT ![j] = @ + 1]
      BY <1>3 DEF StepJob, TypeOK
    <3> QED
      BY <3>1
  <2> QED
    BY <1>3, <2>1, <2>4, <2>5, <2>6, CheckpointType DEF StepJob, TypeOK
<1>4. ASSUME NEW j \in Jobs, StepRaises(j) \/ StepInterrupted(j) PROVE TypeInv'
  <2>1. PICK c \in AfterRun(j) : disk' = [disk EXCEPT ![j] = c]
    BY <1>4 DEF StepRaises, StepInterrupted
  <2>2. disk' \in [Jobs -> Bytes]
    BY <2>1, Constants DEF AfterRun, Bytes, TypeOK
  <2>3. runs' \in [Jobs -> Nat]
    <3>1. runs \in [Jobs -> Nat]
      BY DEF TypeOK
    <3>2. CASE StepRaises(j)
      BY <3>1, <3>2 DEF StepRaises
    <3>3. CASE StepInterrupted(j)
      BY <3>1, <3>3 DEF StepInterrupted
    <3> QED
      BY <1>4, <3>2, <3>3
  <2> QED
    BY <1>4, <2>2, <2>3, DiesType DEF StepRaises, StepInterrupted, TypeOK
<1>5. ASSUME NEW j \in Jobs, ReadArtifact(j) PROVE TypeInv'
  <2>1. LoopInv'
    BY <1>5, TurnKeepsLoop DEF ReadArtifact
  <2> QED
    BY <1>5, <2>1, IdleType DEF ReadArtifact
<1>6. ASSUME NEW g \in Cases, SelectGap(g) PROVE TypeInv'
  <2>1. LoopInv'
    BY <1>6, TurnKeepsLoop DEF SelectGap
  <2>2. CASE Selectable(g)
    BY <1>6, <2>1, <2>2, CheckpointType DEF SelectGap, TypeOK
  <2>3. CASE ~Selectable(g)
    BY <1>6, <2>1, <2>3, IdleType DEF SelectGap, diskVars
  <2> QED
    BY <2>2, <2>3
<1>7. ASSUME NEW t \in Tools, SynthesizeGapCheck(t) PROVE TypeInv'
  <2>1. PICK verdict \in Verdicts :
          /\ attempts' = Append(attempts, [gap |-> selected, tool |-> t, verdict |-> verdict,
                                           native |-> NativeBytes(selected)])
          /\ UNCHANGED <<records, selected>>
          /\ Checkpoint
          /\ Turn(<<"synthesize-gap-check", t, Len(attempts'), verdict>>, "running")
    BY <1>7 DEF SynthesizeGapCheck
  <2>2. LoopInv'
    BY <2>1, TurnKeepsLoop
  <2>3. NativeBytes(selected) \in [Jobs -> Bytes]
    BY DEF NativeBytes, TypeOK, Bytes
  <2>4. selected \in Cases
    BY <1>7 DEF SynthesizeGapCheck, AttemptsLeft, TypeOK
  <2>5. attempts' \in Seq(Attempt)
    BY <2>1, <2>3, <2>4 DEF Attempt, TypeOK
  <2>6. staged' \in [1..MaxAttempts -> SUBSET Tools]
    BY <1>7, Constants DEF SynthesizeGapCheck, Stage, AttemptsLeft, TypeOK
  <2> QED
    BY <1>7, <2>1, <2>2, <2>5, <2>6, CheckpointType DEF SynthesizeGapCheck, TypeOK
<1>8. ASSUME NEW t \in Tools, SynthesisRefused(t) PROVE TypeInv'
  <2>1. LoopInv'
    BY <1>8, TurnKeepsLoop DEF SynthesisRefused
  <2> QED
    BY <1>8, <2>1, IdleType DEF SynthesisRefused
<1>9. ASSUME NEW t \in Tools, SynthesisInterrupted(t) PROVE TypeInv'
  <2>1. staged' \in [1..MaxAttempts -> SUBSET Tools]
    BY <1>9, Constants DEF SynthesisInterrupted, Stage, AttemptsLeft, TypeOK
  <2> QED
    BY <1>9, <2>1, DiesType DEF SynthesisInterrupted, TypeOK
<1>10. ASSUME NEW w \in Wordings, Conclude(w) PROVE TypeInv'
  <2>1. LoopInv'
    BY <1>10, TurnKeepsLoop DEF Conclude
  <2> QED
    BY <1>10, <2>1, IdleType DEF Conclude
<1>11. CASE BadReply \/ LoopLimit
  <2>1. LoopInv'
    BY <1>11, InvalidReplyKeepsLoop, LimitKeepsLoop DEF BadReply, LoopLimit
  <2> QED
    BY <1>11, <2>1, IdleType DEF BadReply, LoopLimit
<1>12. CASE Finish
  <2>1. ckpt \in Saved
    BY <1>12 DEF Finish, Up, ProcessInv, TypeOK
  <2>2. reports' \subseteq Saved
    BY <1>12, <2>1 DEF Finish, Saved, TypeOK
  <2> QED
    BY <1>12, <2>2, DiesType DEF Finish, TypeOK
<1>13. CASE Crash
  BY <1>13, DiesType DEF Crash, TypeOK, diskVars
<1>14. CASE EditInputs
  BY <1>14 DEF EditInputs, TypeOK, LoopInv, LoopTypeOK, ProcessInv, Snapshot,
               procVars, diskVars, loopVars
<1>15. ASSUME NEW j \in Jobs, Tamper(j) PROVE TypeInv'
  <2>1. disk' \in [Jobs -> Bytes]
    BY <1>15, Constants DEF Tamper, Bytes, TypeOK
  <2> QED
    BY <1>15, <2>1 DEF Tamper, TypeOK, LoopInv, LoopTypeOK, ProcessInv, Snapshot,
                       procVars, loopVars
<1>16. CASE UNCHANGED vars
  BY <1>16 DEF vars, procVars, diskVars, envVars, loopVars, TypeOK, LoopInv, LoopTypeOK,
               ProcessInv, Snapshot
<1> QED
  BY <1>1, <1>2, <1>3, <1>4, <1>5, <1>6, <1>7, <1>8, <1>9, <1>10, <1>11, <1>12, <1>13,
     <1>14, <1>15, <1>16 DEF Next, TurnOfLoop, Interrupt

\* Every variable keeps its type, and the process and its checkpoint agree.
THEOREM TypeInvariant == Spec => []TypeInv
BY InitType, NextType, PTL DEF Spec

\* Every variable of the campaign keeps its type, for every graph and bound.
THEOREM TypeCorrect == Spec => []TypeOK
BY TypeInvariant, PTL DEF TypeInv

\* Between two turns the checkpoint holds all the process knows: whatever the
\* graph and the bounds, a process killed there loses no recorded work.
THEOREM CheckpointCurrent == Spec => []CheckpointIsCurrent
<1>1. TypeInv => CheckpointIsCurrent
  BY DEF TypeInv, ProcessInv, CheckpointIsCurrent, Up
<1> QED
  BY TypeInvariant, <1>1, PTL

-----------------------------------------------------------------------------
(* What every saved snapshot satisfies. *)

Sound(s) == /\ DependencyClosed(Requires, Statuses(s.records))
            /\ s.selected # NoGap => s.selected \in AvailableGaps(s.records)

SoundInv == TypeInv /\ \A s \in OnDisk : Sound(s)

\* Recording a job that had no record changes one status.
LEMMA StatusesOfStep ==
  ASSUME NEW rec \in [Jobs -> Record], NEW j \in Jobs, NEW r \in Record
  PROVE  /\ Statuses(rec) \in [Jobs -> RecordStatus]
         /\ Statuses([rec EXCEPT ![j] = r]) = [Statuses(rec) EXCEPT ![j] = r.status]
BY DEF Statuses, Record

\* A gap whose report and libraries are complete stays so when another job runs.
LEMMA AvailableGrows ==
  ASSUME NEW rec \in [Jobs -> Record], NEW j \in Jobs, rec[j].status = "none",
         NEW r \in Record
  PROVE  AvailableGaps(rec) \subseteq AvailableGaps([rec EXCEPT ![j] = r])
<1> DEFINE after == [rec EXCEPT ![j] = r]
<1> SUFFICES ASSUME NEW g \in AvailableGaps(rec) PROVE g \in AvailableGaps(after)
  OBVIOUS
<1>1. rec[ReportJob].status = "completed"
  BY DEF AvailableGaps, Gaps, Reported
<1>2. after[ReportJob] = rec[ReportJob]
  BY <1>1, Constants
<1>3. Gaps(after) = Gaps(rec)
  BY <1>2 DEF Gaps, Reported
<1>4. g \in Cases /\ \A n \in Natives[g] : n \in Jobs /\ rec[n].status = "completed"
  BY Constants DEF AvailableGaps, Available
<1>5. \A n \in Natives[g] : after[n] = rec[n]
  BY <1>4
<1> HIDE DEF after
<1> QED
  BY <1>3, <1>4, <1>5 DEF AvailableGaps, Available

\* The snapshot of a campaign in which nothing ran.
LEMMA FreshIsSound ==
  ASSUME NEW s, s.records = [j \in Jobs |-> NoRecord], s.selected = NoGap
  PROVE  Sound(s)
BY Constants DEF Sound, DependencyClosed, Statuses, NoRecord

\* A step that leaves the reports and writes a sound checkpoint, or none.
LEMMA CheckpointSound ==
  ASSUME SoundInv, TypeInv', reports' = reports, ckpt' = ckpt \/ Sound(ckpt')
  PROVE  SoundInv'
BY DEF SoundInv, OnDisk, Sound

\* Nothing is on disk at first.
LEMMA InitSound == Init => SoundInv
BY InitType DEF Init, SoundInv, OnDisk

\* Every checkpoint and report a step writes is sound, when those before are.
LEMMA NextSound == SoundInv /\ [Next]_vars => SoundInv'
<1> SUFFICES ASSUME SoundInv, [Next]_vars PROVE SoundInv'
  OBVIOUS
<1>1. TypeInv /\ TypeInv'
  BY NextType DEF SoundInv
<1>2. CASE Start
  <2>1. Sound(ckpt')
    BY <1>2, FreshIsSound DEF Start, NewProcess
  <2> QED
    BY <1>1, <1>2, <2>1, CheckpointSound DEF Start
<1>3. ASSUME NEW s \in ResumeSources, Resume(s) PROVE SoundInv'
  <2>1. Sound(s)
    BY DEF ResumeSources, SoundInv, OnDisk
  <2> QED
    BY <1>1, <1>3, <2>1, CheckpointSound DEF Resume
<1>4. ASSUME NEW j \in Jobs, StepJob(j) PROVE SoundInv'
  <2>1. PICK c \in AfterRun(j), exit \in Exits :
          /\ records' = [records EXCEPT ![j] = RecordOf(j, c, exit)]
          /\ UNCHANGED <<attempts, selected>>
          /\ Checkpoint
    BY <1>4 DEF StepJob
  <2>2. c \in Bytes /\ inputs \in Revisions /\ records \in [Jobs -> Record]
    BY <1>1, Constants DEF AfterRun, Bytes, TypeInv, TypeOK
  <2>3. /\ RecordOf(j, c, exit) \in Record
        /\ RecordOf(j, c, exit).status \in {"completed", "failed"}
    BY <2>2, RecordOfType
  <2>4. Ready(Requires, Statuses(records), j) /\ records[j].status = "none"
    BY <1>4 DEF StepJob, Ready, Statuses
  <2>5. Sound(ckpt)
    BY <1>1, <1>4 DEF SoundInv, OnDisk, TypeInv, ProcessInv, StepJob, Up
  <2>6. ckpt.records = records /\ ckpt.selected = selected
    BY <1>1, <1>4 DEF TypeInv, ProcessInv, StepJob, Up, Snapshot
  <2>7. ckpt'.records = records' /\ ckpt'.selected = selected
    BY <2>1 DEF Checkpoint
  <2>8. DependencyClosed(Requires, Statuses(records'))
    <3>1. DependencyClosed(Requires, [Statuses(records) EXCEPT ![j] = RecordOf(j, c, exit).status])
      <4>1. DependencyClosed(Requires, Statuses(records))
        BY <2>5, <2>6 DEF Sound
      <4>2. Statuses(records) \in [Jobs -> RecordStatus]
        BY <2>2, <2>3, StatusesOfStep
      <4> QED
        BY <2>3, <2>4, <4>1, <4>2, SettleKeepsClosed, Constants
    <3> QED
      BY <2>1, <2>2, <2>3, <3>1, StatusesOfStep
  <2>9. selected # NoGap => selected \in AvailableGaps(records')
    BY <2>1, <2>2, <2>3, <2>4, <2>5, <2>6, AvailableGrows DEF Sound
  <2>10. Sound(ckpt')
    BY <2>7, <2>8, <2>9 DEF Sound
  <2> QED
    BY <1>1, <1>4, <2>10, CheckpointSound DEF StepJob
<1>5. ASSUME NEW g \in Cases, SelectGap(g) PROVE SoundInv'
  <2>1. CASE Selectable(g)
    <3>1. Sound(ckpt) /\ ckpt.records = records
      BY <1>1, <1>5 DEF SoundInv, OnDisk, TypeInv, ProcessInv, SelectGap, Up, Snapshot
    <3>2. ckpt'.records = records /\ ckpt'.selected = g
      BY <1>5, <2>1 DEF SelectGap, Checkpoint
    <3>3. Sound(ckpt')
      BY <2>1, <3>1, <3>2 DEF Sound, Selectable
    <3> QED
      BY <1>1, <1>5, <3>3, CheckpointSound DEF SelectGap
  <2>2. CASE ~Selectable(g)
    BY <1>1, <1>5, <2>2, CheckpointSound DEF SelectGap
  <2> QED
    BY <2>1, <2>2
<1>6. ASSUME NEW t \in Tools, SynthesizeGapCheck(t) PROVE SoundInv'
  <2>1. Sound(ckpt) /\ ckpt.records = records /\ ckpt.selected = selected
    BY <1>1, <1>6 DEF SoundInv, OnDisk, TypeInv, ProcessInv, SynthesizeGapCheck, Up, Snapshot
  <2>2. ckpt'.records = records /\ ckpt'.selected = selected
    BY <1>6 DEF SynthesizeGapCheck, Checkpoint
  <2>3. Sound(ckpt')
    BY <2>1, <2>2 DEF Sound
  <2> QED
    BY <1>1, <1>6, <2>3, CheckpointSound DEF SynthesizeGapCheck
<1>7. CASE Finish
  <2>1. Snapshot = ckpt /\ Sound(ckpt) /\ reports' = reports \cup {Snapshot}
    BY <1>1, <1>7 DEF Finish, Up, TypeInv, ProcessInv, SoundInv, OnDisk, Snapshot
  <2> QED
    BY <1>1, <1>7, <2>1 DEF Finish, SoundInv, OnDisk, Sound
<1>8. CASE UNCHANGED <<ckpt, reports>>
  BY <1>1, <1>8, CheckpointSound
<1> QED
  BY <1>2, <1>3, <1>4, <1>5, <1>6, <1>7, <1>8
     DEF Next, TurnOfLoop, Interrupt, StepRaises, StepInterrupted, ReadArtifact,
         SynthesisRefused, SynthesisInterrupted, Conclude, BadReply, LoopLimit, Crash,
         EditInputs, Tamper, vars, diskVars

\* Whatever is on disk is a snapshot that resume can rely on: its jobs are in
\* dependency order and its selected gap is available.
THEOREM SoundInvariant == Spec => []SoundInv
BY InitSound, NextSound, PTL DEF Spec

\* No job is ever recorded as completed before one it requires, in the process,
\* the checkpoint or a report, whichever of them later sessions resume from.
THEOREM DependenciesFollowed == Spec => []RecordsFollowDependencies
<1>1. SoundInv => RecordsFollowDependencies
  <2> SUFFICES ASSUME SoundInv PROVE RecordsFollowDependencies
    OBVIOUS
  <2>1. \A s \in OnDisk : DependencyClosed(Requires, Statuses(s.records))
    BY DEF SoundInv, Sound
  <2>2. CASE proc = "up"
    BY <2>1, <2>2 DEF SoundInv, TypeInv, ProcessInv, OnDisk, Snapshot, RecordsFollowDependencies
  <2>3. CASE proc = "down"
    <3>1. DependencyClosed(Requires, Statuses(records))
      BY <2>3, Constants DEF SoundInv, TypeInv, ProcessInv, DependencyClosed, Statuses, NoRecord
    <3> QED
      BY <2>1, <3>1 DEF RecordsFollowDependencies
  <2> QED
    BY <2>2, <2>3 DEF SoundInv, TypeInv, TypeOK
<1> QED
  BY SoundInvariant, <1>1, PTL

\* The gap a session works on, a resumed one's included, is listed by the
\* completed report and has all its libraries built.
THEOREM SelectedGapBuilt == Spec => []SelectedIsBuilt
<1>1. SoundInv => SelectedIsBuilt
  BY DEF SoundInv, Sound, SelectedIsBuilt
<1> QED
  BY SoundInvariant, <1>1, PTL

-----------------------------------------------------------------------------
(* The checkpoint implements CampaignLedger. *)

\* The empty ledger.
LEMMA InitLedger == Init => Ledger!Init
BY DEF Init, Ledger!Init, RecordedJobs, RecordedAttempts

\* A running process's memory is what the ledger holds.
LEMMA UpLedger ==
  ASSUME TypeInv, Up
  PROVE  RecordedJobs = Statuses(records) /\ RecordedAttempts = attempts
BY DEF TypeInv, ProcessInv, Up, RecordedJobs, RecordedAttempts, Snapshot

\* After a checkpoint the ledger holds what the process knows.
LEMMA CheckpointLedger ==
  ASSUME TypeInv, TypeInv', Up, proc' = proc, Checkpoint
  PROVE  RecordedJobs' = Statuses(records') /\ RecordedAttempts' = attempts'
<1>1. ckpt' # NoFile /\ ckpt'.records = records' /\ ckpt'.attempts = attempts'
  BY DEF TypeInv, ProcessInv, Up, Checkpoint
<1> QED
  BY <1>1 DEF RecordedJobs, RecordedAttempts

\* Every step is a step of the ledger or leaves it as it is.
LEMMA NextLedger ==
  ASSUME ~StaleReports, SoundInv, [Next]_vars
  PROVE  [Ledger!Next]_<<RecordedJobs, RecordedAttempts>>
<1>1. TypeInv /\ TypeInv'
  BY NextType DEF SoundInv
<1>2. CASE Start
  <2>1. ckpt = NoFile /\ ckpt' # NoFile /\ ckpt'.attempts = <<>>
        /\ ckpt'.records = [j \in Jobs |-> NoRecord]
    BY <1>1, <1>2 DEF Start, FreshAllowed, NewProcess, TypeInv, ProcessInv
  <2> QED
    BY <2>1 DEF RecordedJobs, RecordedAttempts, Statuses, NoRecord
<1>3. ASSUME NEW s \in ResumeSources, Resume(s)
      PROVE  UNCHANGED <<RecordedJobs, RecordedAttempts>>
  BY <1>3 DEF ResumeSources, Resume, RecordedJobs, RecordedAttempts
<1>4. ASSUME NEW j \in Jobs, StepJob(j) PROVE Ledger!Settle(j)
  <2>1. PICK c \in AfterRun(j), exit \in Exits :
          /\ records' = [records EXCEPT ![j] = RecordOf(j, c, exit)]
          /\ UNCHANGED <<attempts, selected>>
          /\ Checkpoint
    BY <1>4 DEF StepJob
  <2>2. c \in Bytes /\ inputs \in Revisions /\ records \in [Jobs -> Record]
    BY <1>1, Constants DEF AfterRun, Bytes, TypeInv, TypeOK
  <2>3. /\ RecordOf(j, c, exit) \in Record
        /\ RecordOf(j, c, exit).status \in {"completed", "failed"}
    BY <2>2, RecordOfType
  <2>4. RecordedJobs = Statuses(records) /\ RecordedAttempts = attempts
    BY <1>1, <1>4, UpLedger DEF StepJob
  <2>5. RecordedJobs' = Statuses(records') /\ RecordedAttempts' = attempts'
    BY <1>1, <1>4, <2>1, CheckpointLedger DEF StepJob
  <2>6. RecordedJobs' = [RecordedJobs EXCEPT ![j] = RecordOf(j, c, exit).status]
    BY <2>1, <2>2, <2>3, <2>4, <2>5, StatusesOfStep
  <2>7. RecordedJobs[j] = "none" /\ \A d \in Requires[j] : RecordedJobs[d] = "completed"
    BY <1>4, <2>4 DEF StepJob, Ready, AllCompleted
  <2> QED
    BY <2>1, <2>3, <2>4, <2>5, <2>6, <2>7 DEF Ledger!Settle, Ledger!Completed
<1>5. ASSUME NEW g \in Cases, SelectGap(g)
      PROVE  UNCHANGED <<RecordedJobs, RecordedAttempts>>
  <2>1. RecordedJobs = Statuses(records) /\ RecordedAttempts = attempts
    BY <1>1, <1>5, UpLedger DEF SelectGap
  <2>2. CASE Selectable(g)
    <3>1. RecordedJobs' = Statuses(records') /\ RecordedAttempts' = attempts'
      BY <1>1, <1>5, <2>2, CheckpointLedger DEF SelectGap
    <3> QED
      BY <1>5, <2>1, <2>2, <3>1 DEF SelectGap
  <2>3. CASE ~Selectable(g)
    BY <1>5, <2>3 DEF SelectGap, RecordedJobs, RecordedAttempts
  <2> QED
    BY <2>2, <2>3
<1>6. ASSUME NEW t \in Tools, SynthesizeGapCheck(t) PROVE Ledger!Next
  <2>1. PICK a : /\ a.gap = selected
                 /\ attempts' = Append(attempts, a)
                 /\ UNCHANGED <<records, selected>>
                 /\ Checkpoint
    BY <1>6 DEF SynthesizeGapCheck
  <2>2. RecordedJobs = Statuses(records) /\ RecordedAttempts = attempts
    BY <1>1, <1>6, UpLedger DEF SynthesizeGapCheck
  <2>3. RecordedJobs' = RecordedJobs /\ RecordedAttempts' = Append(RecordedAttempts, a)
    BY <1>1, <1>6, <2>1, <2>2, CheckpointLedger DEF SynthesizeGapCheck
  <2>4. RecordedAttempts \in Seq(Attempt) /\ Len(RecordedAttempts) < MaxAttempts
    BY <1>1, <1>6, <2>2 DEF TypeInv, TypeOK, SynthesizeGapCheck, AttemptsLeft
  <2>5. /\ RecordedAttempts' # <<>>
        /\ RecordedAttempts'[Len(RecordedAttempts')] = a
    BY <2>3, <2>4
  <2>6. \A d \in {ReportJob} \cup Natives[a.gap] : RecordedJobs[d] = "completed"
    <3>1. Sound(ckpt) /\ ckpt.records = records /\ ckpt.selected = selected
      BY <1>1, <1>6 DEF SoundInv, OnDisk, TypeInv, ProcessInv, SynthesizeGapCheck, Up, Snapshot
    <3>2. selected \in AvailableGaps(records)
      BY <1>6, <3>1 DEF Sound, SynthesizeGapCheck, AttemptsLeft
    <3> QED
      BY <2>1, <2>2, <3>2, Constants
         DEF AvailableGaps, Gaps, Reported, Available, Statuses
  <2> QED
    BY <2>3, <2>4, <2>5, <2>6 DEF Ledger!Next, Ledger!Validate, Ledger!Completed
<1>7. CASE ckpt' = ckpt
  BY <1>7 DEF RecordedJobs, RecordedAttempts
<1> QED
  BY <1>2, <1>3, <1>4, <1>5, <1>6, <1>7
     DEF Next, TurnOfLoop, Interrupt, StepRaises, StepInterrupted, ReadArtifact,
         SynthesisRefused, SynthesisInterrupted, Conclude, BadReply, LoopLimit, Finish, Crash,
         EditInputs, Tamper, vars, diskVars, Ledger!Next

\* Without resumes from older reports, the checkpoint is a ledger: a job settles
\* once and after what it requires, and attempts are only ever added, up to the
\* limit, whatever sessions, crashes, edits and tampering come between.
THEOREM LedgerRefinement ==
  ASSUME ~StaleReports
  PROVE  Spec => LedgerImplemented
<1>1. SoundInv /\ [Next]_vars => [Ledger!Next]_<<RecordedJobs, RecordedAttempts>>
  BY NextLedger
<1> QED
  BY SoundInvariant, InitLedger, <1>1, PTL DEF Spec, LedgerImplemented, Ledger!Spec

-----------------------------------------------------------------------------
(* Steps by what they do to the files. *)

\* A step by its effect on the disk, the inputs and the history.
LEMMA StepKinds ==
  ASSUME [Next]_vars
  PROVE  \/ Start
         \/ \E s \in ResumeSources : Resume(s)
         \/ \E j \in Jobs : StepJob(j)
         \/ \E j \in Jobs : StepRaises(j) \/ StepInterrupted(j)
         \/ \E g \in Cases : SelectGap(g) /\ Selectable(g)
         \/ \E t \in Tools : SynthesizeGapCheck(t)
         \/ \E t \in Tools : SynthesisInterrupted(t)
         \/ Finish
         \/ EditInputs
         \/ \E j \in Jobs : Tamper(j)
         \/ UNCHANGED <<diskVars, inputs, tampers, runs>> /\ (proc' = "up" => proc = "up")
BY DEF Next, TurnOfLoop, Interrupt, ReadArtifact, SelectGap, SynthesisRefused, Conclude,
       BadReply, LoopLimit, Crash, Dies, vars, diskVars, envVars

\* The process that takes a step knows what the checkpoint holds.
LEMMA UpKnows ==
  ASSUME TypeInv, Up
  PROVE  /\ ckpt # NoFile /\ ckpt \in Saved
         /\ ckpt.records = records /\ ckpt.attempts = attempts /\ ckpt.selected = selected
BY DEF TypeInv, TypeOK, ProcessInv, Up, Snapshot

\* What a checkpoint writes.
LEMMA CheckpointWrites ==
  ASSUME Checkpoint, TypeInv'
  PROVE  /\ ckpt'.records = records' /\ ckpt'.attempts = attempts'
         /\ ckpt'.selected = selected' /\ ckpt'.rev = ckpt.rev
BY DEF Checkpoint

\* The step of a job that had no record, in the terms of the checkpoint.
LEMMA JobStep ==
  ASSUME TypeInv, TypeInv', NEW j \in Jobs, StepJob(j)
  PROVE  /\ ckpt # NoFile /\ ckpt' # NoFile
         /\ ckpt.records \in [Jobs -> Record]
         /\ ckpt.records[j].status = "none"
         /\ ckpt'.attempts = ckpt.attempts /\ ckpt'.selected = ckpt.selected
         /\ ckpt'.rev = ckpt.rev
         /\ \E c \in AfterRun(j), exit \in Exits :
              /\ disk' = [disk EXCEPT ![j] = c]
              /\ ckpt'.records = [ckpt.records EXCEPT ![j] = RecordOf(j, c, exit)]
              /\ ~GapsRaise(ckpt'.records)
              /\ RecordOf(j, c, exit) \in Record
              /\ RecordOf(j, c, exit).status # "none"
              /\ RecordOf(j, c, exit).rev = inputs
              /\ RecordOf(j, c, exit).status = "completed" => RecordOf(j, c, exit).hash = c
<1>1. Up /\ Ready(Requires, Statuses(records), j)
  BY DEF StepJob
<1>2. PICK c \in AfterRun(j), exit \in Exits :
        /\ disk' = [disk EXCEPT ![j] = c]
        /\ records' = [records EXCEPT ![j] = RecordOf(j, c, exit)]
        /\ ~GapsRaise(records')
        /\ UNCHANGED <<attempts, selected>>
        /\ Checkpoint
  BY DEF StepJob
<1>3. c \in Bytes /\ inputs \in Revisions /\ records \in [Jobs -> Record]
  BY Constants DEF AfterRun, Bytes, TypeInv, TypeOK
<1>4. /\ RecordOf(j, c, exit) \in Record
      /\ RecordOf(j, c, exit).status \in {"completed", "failed"}
      /\ RecordOf(j, c, exit).status = "completed" => RecordOf(j, c, exit).hash = c
  BY <1>3, RecordOfType
<1>5. RecordOf(j, c, exit).rev = inputs
  BY DEF RecordOf
<1>6. records[j].status = "none"
  BY <1>1 DEF Ready, Statuses
<1>7. ckpt' # NoFile
  BY <1>1 DEF TypeInv, ProcessInv, Up, StepJob
<1> QED
  BY <1>1, <1>2, <1>3, <1>4, <1>5, <1>6, <1>7, UpKnows, CheckpointWrites

\* A run that was not recorded leaves at most its output.
LEMMA JobDies ==
  ASSUME TypeInv, NEW j \in Jobs, StepRaises(j) \/ StepInterrupted(j)
  PROVE  /\ ckpt # NoFile /\ ckpt' = ckpt /\ reports' = reports /\ staged' = staged
         /\ tampers' = tampers /\ inputs' = inputs /\ proc' = "down"
         /\ ckpt.records[j].status = "none"
         /\ \E c \in AfterRun(j) : disk' = [disk EXCEPT ![j] = c]
<1>1. Up /\ Ready(Requires, Statuses(records), j)
  BY DEF StepRaises, StepInterrupted
<1>2. records[j].status = "none"
  BY <1>1 DEF Ready, Statuses
<1> QED
  BY <1>1, <1>2, UpKnows DEF StepRaises, StepInterrupted, Dies, envVars

\* A candidate goes into the directory after those of the recorded attempts.
LEMMA CandidateStaged ==
  ASSUME TypeInv, NEW t \in Tools, SynthesizeGapCheck(t) \/ SynthesisInterrupted(t)
  PROVE  /\ Len(ckpt.attempts) < MaxAttempts
         /\ ckpt # NoFile /\ ckpt.attempts \in Seq(Attempt)
         /\ t \in staged'[Len(ckpt.attempts) + 1]
         /\ \A i \in 1..MaxAttempts : i # Len(ckpt.attempts) + 1 => staged'[i] = staged[i]
<1>1. Up /\ AttemptsLeft /\ Stage(t)
  BY DEF SynthesizeGapCheck, SynthesisInterrupted
<1>2. attempts \in Seq(Attempt) /\ staged \in [1..MaxAttempts -> SUBSET Tools]
  BY DEF TypeInv, TypeOK
<1>3. Len(attempts) + 1 \in 1..MaxAttempts
  BY <1>1, <1>2, Constants DEF AttemptsLeft
<1> QED
  BY <1>1, <1>2, <1>3, UpKnows DEF Stage, AttemptsLeft

\* An attempt that was validated, in the terms of the checkpoint.
LEMMA AttemptAdded ==
  ASSUME TypeInv, TypeInv', NEW t \in Tools, SynthesizeGapCheck(t)
  PROVE  /\ ckpt # NoFile /\ ckpt' # NoFile
         /\ ckpt'.records = ckpt.records /\ ckpt'.rev = ckpt.rev
         /\ ckpt'.selected = ckpt.selected /\ ckpt.selected # NoGap
         /\ ckpt.selected \in Cases
         /\ \E verdict \in Verdicts :
              ckpt'.attempts = Append(ckpt.attempts,
                                      [gap |-> ckpt.selected, tool |-> t, verdict |-> verdict,
                                       native |-> NativeBytes(ckpt.selected)])
<1>1. Up /\ AttemptsLeft /\ Checkpoint
  BY DEF SynthesizeGapCheck
<1>2. selected \in Cases /\ selected # NoGap
  BY <1>1 DEF AttemptsLeft, TypeInv, TypeOK
<1>3. ckpt' # NoFile
  BY <1>1 DEF TypeInv, ProcessInv, Up, SynthesizeGapCheck
<1>4. records' = records /\ selected' = selected
  BY DEF SynthesizeGapCheck
<1>5. PICK verdict \in Verdicts :
        attempts' = Append(attempts, [gap |-> selected, tool |-> t, verdict |-> verdict,
                                      native |-> NativeBytes(selected)])
  BY DEF SynthesizeGapCheck
<1> QED
  BY <1>1, <1>2, <1>3, <1>4, <1>5, UpKnows, CheckpointWrites

-----------------------------------------------------------------------------
(* The checkpoint: what it says is on disk. *)

Staged(s) == /\ Len(s.attempts) <= MaxAttempts
             /\ \A i \in DOMAIN s.attempts : s.attempts[i].tool \in staged[i]

\* Nothing is on disk before the first checkpoint; then outputs and candidates are
\* those it names, unless an output was changed from outside.
CkptInv == /\ (ckpt = NoFile /\ tampers = 0) => \A j \in Jobs : disk[j] = Absent
           /\ ckpt # NoFile => Staged(ckpt) /\ (tampers = 0 => HashesMatch(ckpt))

LEMMA InitCkpt == Init => CkptInv
BY DEF Init, CkptInv

\* Every step keeps it: a run touches the output of a job without a record, and a
\* candidate goes behind those that were judged.
LEMMA NextCkpt == TypeInv /\ CkptInv /\ [Next]_vars => CkptInv'
<1> SUFFICES ASSUME TypeInv, CkptInv, [Next]_vars PROVE CkptInv'
  OBVIOUS
<1>1. TypeInv'
  BY NextType
<1>2. disk \in [Jobs -> Bytes] /\ tampers \in Nat
  BY DEF TypeInv, TypeOK
<1>3. CASE Start
  <2>1. /\ ckpt'.records = [j \in Jobs |-> NoRecord] /\ ckpt'.attempts = <<>>
        /\ ckpt' # NoFile
    BY <1>1, <1>3 DEF Start, NewProcess, TypeInv, ProcessInv
  <2> QED
    BY <2>1, Constants DEF CkptInv, Staged, HashesMatch, NoRecord
<1>4. ASSUME NEW s \in ResumeSources, Resume(s) PROVE CkptInv'
  <2>1. ckpt' = s /\ s # NoFile /\ UNCHANGED <<disk, staged, tampers>>
    BY <1>1, <1>4 DEF Resume, TypeInv, ProcessInv, diskVars, envVars
  <2>2. Acceptable(s)
    BY <1>4 DEF Resume
  <2> QED
    BY <2>1, <2>2 DEF CkptInv, Acceptable, Staged, HashesMatch
<1>5. ASSUME NEW j \in Jobs, StepJob(j) PROVE CkptInv'
  <2>1. staged' = staged /\ tampers' = tampers
    BY <1>5 DEF StepJob, envVars
  <2>2. PICK c \in AfterRun(j), exit \in Exits :
          /\ disk' = [disk EXCEPT ![j] = c]
          /\ ckpt'.records = [ckpt.records EXCEPT ![j] = RecordOf(j, c, exit)]
          /\ RecordOf(j, c, exit).status = "completed" => RecordOf(j, c, exit).hash = c
    BY <1>1, <1>5, JobStep
  <2>3. /\ ckpt # NoFile /\ ckpt' # NoFile /\ ckpt'.attempts = ckpt.attempts
        /\ ckpt.records \in [Jobs -> Record]
    BY <1>1, <1>5, JobStep
  <2>4. HashesMatch(ckpt) => HashesMatch(ckpt)'
    <3> SUFFICES ASSUME HashesMatch(ckpt), NEW k \in Jobs, ckpt'.records[k].status = "completed"
                 PROVE  disk'[k] = ckpt'.records[k].hash
      BY DEF HashesMatch
    <3>1. CASE k = j
      BY <1>2, <2>2, <2>3, <3>1
    <3>2. CASE k # j
      BY <1>2, <2>2, <2>3, <3>2 DEF HashesMatch
    <3> QED
      BY <3>1, <3>2
  <2> QED
    BY <2>1, <2>3, <2>4 DEF CkptInv, Staged
<1>6. ASSUME NEW j \in Jobs, StepRaises(j) \/ StepInterrupted(j) PROVE CkptInv'
  BY <1>2, <1>6, JobDies DEF CkptInv, Staged, HashesMatch
<1>7. ASSUME NEW g \in Cases, SelectGap(g), Selectable(g) PROVE CkptInv'
  <2>1. /\ ckpt # NoFile /\ ckpt' # NoFile /\ UNCHANGED <<disk, staged, tampers>>
        /\ ckpt'.records = ckpt.records /\ ckpt'.attempts = ckpt.attempts
    BY <1>1, <1>7, UpKnows, CheckpointWrites DEF SelectGap, envVars, TypeInv, ProcessInv, Up
  <2> QED
    BY <2>1 DEF CkptInv, Staged, HashesMatch
<1>8. ASSUME NEW t \in Tools, SynthesizeGapCheck(t) PROVE CkptInv'
  <2>1. UNCHANGED <<disk, tampers>>
    BY <1>8 DEF SynthesizeGapCheck, envVars
  <2>2. /\ ckpt # NoFile /\ ckpt' # NoFile /\ ckpt'.records = ckpt.records
        /\ ckpt.attempts \in Seq(Attempt) /\ ckpt'.attempts \in Seq(Attempt)
    BY <1>1, <1>8, AttemptAdded, CandidateStaged DEF TypeInv, TypeOK, Saved
  <2>3. \E a : ckpt'.attempts = Append(ckpt.attempts, a) /\ a.tool = t
    <3>1. PICK verdict \in Verdicts :
            ckpt'.attempts = Append(ckpt.attempts,
                                    [gap |-> ckpt.selected, tool |-> t, verdict |-> verdict,
                                     native |-> NativeBytes(ckpt.selected)])
      BY <1>1, <1>8, AttemptAdded
    <3> WITNESS [gap |-> ckpt.selected, tool |-> t, verdict |-> verdict,
                 native |-> NativeBytes(ckpt.selected)]
    <3> QED
      BY <3>1
  <2>4. PICK a : ckpt'.attempts = Append(ckpt.attempts, a) /\ a.tool = t
    BY <2>3
  <2>5. Staged(ckpt)'
    <3>1. /\ Len(ckpt'.attempts) = Len(ckpt.attempts) + 1
          /\ DOMAIN ckpt'.attempts = 1..(Len(ckpt.attempts) + 1)
          /\ ckpt'.attempts[Len(ckpt.attempts) + 1] = a
          /\ \A i \in 1..Len(ckpt.attempts) : ckpt'.attempts[i] = ckpt.attempts[i]
      BY <2>2, <2>4
    <3>2. /\ Len(ckpt.attempts) < MaxAttempts /\ Len(ckpt.attempts) \in Nat
          /\ t \in staged'[Len(ckpt.attempts) + 1]
          /\ \A i \in 1..Len(ckpt.attempts) : staged'[i] = staged[i]
      BY <1>8, <2>2, CandidateStaged, Constants
    <3>3. \A i \in 1..Len(ckpt.attempts) : ckpt.attempts[i].tool \in staged[i]
      BY <2>2 DEF CkptInv, Staged
    <3> QED
      BY <2>4, <3>1, <3>2, <3>3, Constants DEF Staged
  <2> QED
    BY <2>1, <2>2, <2>5 DEF CkptInv, HashesMatch
<1>9. ASSUME NEW t \in Tools, SynthesisInterrupted(t) PROVE CkptInv'
  <2>1. UNCHANGED <<disk, ckpt, tampers>>
    BY <1>9 DEF SynthesisInterrupted, envVars
  <2>2. /\ ckpt # NoFile /\ ckpt.attempts \in Seq(Attempt)
        /\ \A i \in 1..Len(ckpt.attempts) : staged'[i] = staged[i]
    <3>1. /\ Len(ckpt.attempts) < MaxAttempts /\ ckpt # NoFile
          /\ ckpt.attempts \in Seq(Attempt)
          /\ \A i \in 1..MaxAttempts : i # Len(ckpt.attempts) + 1 => staged'[i] = staged[i]
      BY <1>9, CandidateStaged
    <3> QED
      BY <3>1, Constants
  <2> QED
    BY <2>1, <2>2 DEF CkptInv, Staged, HashesMatch
<1>10. ASSUME NEW j \in Jobs, Tamper(j) PROVE CkptInv'
  <2>1. tampers' # 0 /\ UNCHANGED <<ckpt, staged>>
    BY <1>2, <1>10 DEF Tamper
  <2> QED
    BY <2>1 DEF CkptInv, Staged
<1>11. CASE UNCHANGED <<disk, staged, ckpt, tampers>>
  BY <1>11 DEF CkptInv, Staged, HashesMatch
<1> QED
  BY <1>3, <1>4, <1>5, <1>6, <1>7, <1>8, <1>9, <1>10, <1>11, StepKinds
     DEF Finish, EditInputs, diskVars, envVars

\* What has been judged is in its directory, and what was completed is in its
\* output, whatever the graph, the bounds and the report a session resumed from.
THEOREM CheckpointOnDisk == Spec => []CkptInv
<1>1. Init => TypeInv /\ CkptInv
  BY InitType, InitCkpt
<1>2. (TypeInv /\ CkptInv) /\ [Next]_vars => (TypeInv /\ CkptInv)'
  BY NextType, NextCkpt
<1> QED
  BY <1>1, <1>2, PTL DEF Spec

-----------------------------------------------------------------------------
(* Attempts were validated on the libraries the records name. *)

Grounded(s) ==
  \A i \in DOMAIN s.attempts :
    /\ s.attempts[i].gap \in AvailableGaps(s.records)
    /\ \A n \in Natives[s.attempts[i].gap] : s.attempts[i].native[n] = s.records[n].hash

GroundInv == SoundInv /\ CkptInv /\ AttemptsGrounded

\* The property is that every snapshot on disk is grounded.
LEMMA GroundedOnDisk == AttemptsGrounded <=> (tampers = 0 => \A s \in OnDisk : Grounded(s))
BY DEF AttemptsGrounded, Grounded

LEMMA InitGround == Init => GroundInv
BY InitSound, InitCkpt DEF Init, GroundInv, AttemptsGrounded, OnDisk

\* Settling one more job leaves what the attempts rest on.
LEMMA SettleKeepsGrounded ==
  ASSUME NEW s, NEW t, s.records \in [Jobs -> Record], NEW j \in Jobs, NEW r \in Record,
         s.records[j].status = "none", t.records = [s.records EXCEPT ![j] = r],
         t.attempts = s.attempts, Grounded(s)
  PROVE  Grounded(t)
<1> SUFFICES ASSUME NEW i \in DOMAIN s.attempts
             PROVE  /\ s.attempts[i].gap \in AvailableGaps(t.records)
                    /\ \A n \in Natives[s.attempts[i].gap] :
                         s.attempts[i].native[n] = t.records[n].hash
  BY DEF Grounded
<1>1. s.attempts[i].gap \in AvailableGaps(s.records)
  BY DEF Grounded
<1>2. AvailableGaps(s.records) \subseteq AvailableGaps(t.records)
  BY AvailableGrows
<1>3. ASSUME NEW n \in Natives[s.attempts[i].gap]
      PROVE  s.attempts[i].native[n] = t.records[n].hash
  <2>1. s.attempts[i].gap \in Cases /\ s.records[n].status = "completed" /\ n \in Jobs
    BY <1>1, Constants DEF AvailableGaps, Available
  <2>2. t.records[n] = s.records[n]
    BY <2>1
  <2> QED
    BY <2>2 DEF Grounded
<1> QED
  BY <1>1, <1>2, <1>3

\* A step after which the checkpoint is grounded, or that wrote none.
LEMMA CheckpointGrounded ==
  ASSUME GroundInv, SoundInv', CkptInv', reports' = reports,
         tampers' = 0 => tampers = 0,
         (tampers = 0 /\ \A s \in OnDisk : Grounded(s)) => (ckpt' = ckpt \/ Grounded(ckpt'))
  PROVE  GroundInv'
<1>1. ASSUME tampers' = 0, NEW s \in OnDisk' PROVE Grounded(s)
  <2>1. tampers = 0 /\ \A r \in OnDisk : Grounded(r)
    BY <1>1, GroundedOnDisk DEF GroundInv
  <2>2. s = ckpt' \/ s \in reports
    BY <1>1 DEF OnDisk
  <2>3. CASE s \in OnDisk
    BY <2>1, <2>3
  <2>4. CASE s = ckpt' /\ s \notin OnDisk
    <3>1. ckpt' # ckpt
      BY <1>1, <2>4 DEF OnDisk
    <3> QED
      BY <2>1, <2>4, <3>1
  <2> QED
    BY <2>2, <2>3, <2>4 DEF OnDisk
<1>2. AttemptsGrounded'
  BY <1>1 DEF AttemptsGrounded, Grounded
<1> QED
  BY <1>2 DEF GroundInv

LEMMA NextGround == GroundInv /\ [Next]_vars => GroundInv'
<1> SUFFICES ASSUME GroundInv, [Next]_vars PROVE GroundInv'
  OBVIOUS
<1>1. /\ TypeInv /\ TypeInv' /\ SoundInv /\ SoundInv' /\ CkptInv /\ CkptInv'
  BY NextType, NextSound, NextCkpt DEF GroundInv, SoundInv
<1>2. tampers \in Nat
  BY <1>1 DEF TypeInv, TypeOK
<1>3. CASE Start
  <2>1. ckpt'.attempts = <<>> /\ reports' = reports /\ tampers' = tampers
    BY <1>3 DEF Start, NewProcess, envVars
  <2>2. Grounded(ckpt')
    BY <2>1 DEF Grounded
  <2> QED
    BY <1>1, <2>1, <2>2, CheckpointGrounded
<1>4. ASSUME NEW s \in ResumeSources, Resume(s) PROVE GroundInv'
  <2>1. ckpt' = s /\ s \in OnDisk /\ reports' = reports /\ tampers' = tampers
    BY <1>4 DEF Resume, ResumeSources, OnDisk, envVars
  <2> QED
    BY <1>1, <2>1, CheckpointGrounded
<1>5. ASSUME NEW j \in Jobs, StepJob(j) PROVE GroundInv'
  <2>1. reports' = reports /\ tampers' = tampers
    BY <1>5 DEF StepJob, envVars
  <2>2. ckpt \in OnDisk
    BY <1>1, <1>5, JobStep DEF OnDisk
  <2>3. Grounded(ckpt) => Grounded(ckpt')
    BY <1>1, <1>5, JobStep, SettleKeepsGrounded
  <2> QED
    BY <1>1, <2>1, <2>2, <2>3, CheckpointGrounded
<1>6. ASSUME NEW g \in Cases, SelectGap(g), Selectable(g) PROVE GroundInv'
  <2>1. reports' = reports /\ tampers' = tampers
    BY <1>6 DEF SelectGap, envVars
  <2>2. /\ ckpt \in OnDisk
        /\ ckpt'.records = ckpt.records /\ ckpt'.attempts = ckpt.attempts
    BY <1>1, <1>6, UpKnows, CheckpointWrites DEF SelectGap, OnDisk
  <2>3. Grounded(ckpt) => Grounded(ckpt')
    BY <2>2 DEF Grounded
  <2> QED
    BY <1>1, <2>1, <2>2, <2>3, CheckpointGrounded
<1>7. ASSUME NEW t \in Tools, SynthesizeGapCheck(t) PROVE GroundInv'
  <2>1. reports' = reports /\ tampers' = tampers
    BY <1>7 DEF SynthesizeGapCheck, envVars
  <2>2. ckpt \in OnDisk
    BY <1>1, <1>7, AttemptAdded DEF OnDisk
  <2>3. ASSUME tampers = 0, Grounded(ckpt) PROVE Grounded(ckpt')
    <3> DEFINE g == ckpt.selected
    <3>1. PICK verdict \in Verdicts :
            ckpt'.attempts = Append(ckpt.attempts,
                                    [gap |-> g, tool |-> t, verdict |-> verdict,
                                     native |-> NativeBytes(g)])
      BY <1>1, <1>7, AttemptAdded
    <3>2. ckpt.attempts \in Seq(Attempt) /\ ckpt'.records = ckpt.records
      BY <1>1, <1>7, AttemptAdded, CandidateStaged
    <3>3. g \in AvailableGaps(ckpt.records)
      BY <1>1, <1>7, <2>2, AttemptAdded DEF SoundInv, Sound
    <3>4. ASSUME NEW n \in Natives[g] PROVE NativeBytes(g)[n] = ckpt.records[n].hash
      <4>1. n \in Jobs /\ ckpt.records[n].status = "completed"
        BY <3>3, Constants DEF AvailableGaps, Available
      <4>2. disk[n] = ckpt.records[n].hash
        BY <1>1, <1>7, <2>3, <4>1, AttemptAdded DEF CkptInv, HashesMatch
      <4> QED
        BY <4>1, <4>2 DEF NativeBytes
    <3> HIDE DEF g
    <3>5. ASSUME NEW i \in DOMAIN ckpt'.attempts
          PROVE  /\ ckpt'.attempts[i].gap \in AvailableGaps(ckpt.records)
                 /\ \A n \in Natives[ckpt'.attempts[i].gap] :
                      ckpt'.attempts[i].native[n] = ckpt.records[n].hash
      <4>1. CASE i \in DOMAIN ckpt.attempts
        <5>1. ckpt'.attempts[i] = ckpt.attempts[i]
          BY <3>1, <3>2, <4>1
        <5> QED
          BY <2>3, <4>1, <5>1 DEF Grounded
      <4>2. CASE i \notin DOMAIN ckpt.attempts
        <5>1. ckpt'.attempts[i] = [gap |-> g, tool |-> t, verdict |-> verdict,
                                   native |-> NativeBytes(g)]
          BY <3>1, <3>2, <3>5, <4>2
        <5> QED
          BY <3>3, <3>4, <5>1
      <4> QED
        BY <4>1, <4>2
    <3> QED
      BY <3>2, <3>5 DEF Grounded
  <2> QED
    BY <1>1, <2>1, <2>2, <2>3, CheckpointGrounded
<1>8. CASE Finish
  <2>1. /\ ckpt' = ckpt /\ ckpt # NoFile /\ tampers' = tampers
        /\ reports' = reports \cup {Snapshot} /\ Snapshot = ckpt
    BY <1>1, <1>8 DEF Finish, envVars, TypeInv, ProcessInv, Up, Snapshot
  <2>2. OnDisk' = OnDisk
    BY <2>1 DEF OnDisk
  <2> QED
    BY <1>1, <2>1, <2>2 DEF GroundInv, AttemptsGrounded
<1>9. ASSUME NEW j \in Jobs, Tamper(j) PROVE GroundInv'
  <2>1. tampers' # 0
    BY <1>2, <1>9 DEF Tamper
  <2> QED
    BY <1>1, <2>1 DEF GroundInv, AttemptsGrounded
<1>10. CASE UNCHANGED <<ckpt, reports, tampers>>
  BY <1>1, <1>10, CheckpointGrounded
<1> QED
  BY <1>3, <1>4, <1>5, <1>6, <1>7, <1>8, <1>9, <1>10, StepKinds
     DEF StepRaises, StepInterrupted, SynthesisInterrupted, EditInputs, diskVars, envVars

THEOREM GroundInvariant == Spec => []GroundInv
BY InitGround, NextGround, PTL DEF Spec

\* Every attempt on disk was validated on the very libraries that the records of
\* its snapshot name, whichever reports sessions resumed from.
THEOREM AttemptsAreGrounded == Spec => []AttemptsGrounded
BY GroundInvariant, PTL DEF GroundInv

\* A campaign that nobody disturbs can always go on: whatever a crash left, either
\* a fresh start or a resume of the checkpoint accepts the directory.
THEOREM AlwaysRestartable == Spec => []RestartPossible
<1>1. GroundInv => RestartPossible
  <2> SUFFICES ASSUME GroundInv, tampers = 0, ckpt # NoFile => ckpt.rev = inputs
               PROVE  FreshAllowed \/ (ckpt # NoFile /\ Acceptable(ckpt))
    BY DEF RestartPossible
  <2>1. CASE ckpt = NoFile
    BY <2>1 DEF GroundInv, CkptInv, FreshAllowed
  <2>2. CASE ckpt # NoFile
    <3>1. Sound(ckpt) /\ Grounded(ckpt) /\ Staged(ckpt) /\ HashesMatch(ckpt)
      BY <2>2, GroundedOnDisk DEF GroundInv, SoundInv, CkptInv, OnDisk
    <3>2. ASSUME NEW i \in DOMAIN ckpt.attempts, NEW n \in Natives[ckpt.attempts[i].gap]
          PROVE  disk[n] = ckpt.attempts[i].native[n]
      <4>1. n \in Jobs /\ ckpt.records[n].status = "completed"
        BY <3>1, <3>2, Constants DEF Grounded, AvailableGaps, Available
      <4> QED
        BY <3>1, <3>2, <4>1 DEF Grounded, HashesMatch
    <3>3. SameInputs(ckpt)
      BY <2>2 DEF SameInputs
    <3> QED
      BY <2>2, <3>1, <3>2, <3>3 DEF Acceptable, Sound, Staged
  <2> QED
    BY <2>1, <2>2
<1> QED
  BY GroundInvariant, <1>1, PTL

-----------------------------------------------------------------------------
(* Without resumes from older reports the checkpoint has what every report has. *)

Extends(s, r) ==
  /\ \A j \in Jobs : r.records[j].status # "none" => s.records[j] = r.records[j]
  /\ Len(r.attempts) <= Len(s.attempts)
  /\ \A i \in DOMAIN r.attempts : s.attempts[i] = r.attempts[i]

LineInv == /\ TypeInv
           /\ \A r \in reports : ckpt # NoFile /\ Extends(ckpt, r)

\* A snapshot extends itself.
LEMMA ExtendsItself ==
  ASSUME NEW s \in Saved
  PROVE  Extends(s, s)
<1>1. Len(s.attempts) \in Nat
  BY DEF Saved
<1> QED
  BY <1>1 DEF Extends

\* It is transitive.
LEMMA ExtendsTransitively ==
  ASSUME NEW s \in Saved, NEW t \in Saved, NEW r \in Saved, Extends(t, s), Extends(s, r)
  PROVE  Extends(t, r)
<1>1. /\ r.attempts \in Seq(Attempt) /\ s.attempts \in Seq(Attempt)
      /\ t.attempts \in Seq(Attempt)
  BY DEF Saved
<1>2. Len(r.attempts) <= Len(t.attempts)
  BY <1>1 DEF Extends
<1>3. ASSUME NEW i \in DOMAIN r.attempts PROVE t.attempts[i] = r.attempts[i]
  <2>1. i \in DOMAIN s.attempts
    BY <1>1, <1>3 DEF Extends
  <2> QED
    BY <1>3, <2>1 DEF Extends
<1>4. ASSUME NEW j \in Jobs, r.records[j].status # "none"
      PROVE  t.records[j] = r.records[j]
  BY <1>4 DEF Extends
<1> QED
  BY <1>2, <1>3, <1>4 DEF Extends

\* A step that leaves the reports and extends the checkpoint.
LEMMA CheckpointExtends ==
  ASSUME LineInv, TypeInv', reports' = reports,
         ckpt # NoFile => ckpt' # NoFile /\ Extends(ckpt', ckpt)
  PROVE  LineInv'
<1>1. ASSUME NEW r \in reports PROVE ckpt' # NoFile /\ Extends(ckpt', r)
  <2>1. /\ ckpt # NoFile /\ ckpt' # NoFile
        /\ Extends(ckpt', ckpt) /\ Extends(ckpt, r)
    BY DEF LineInv
  <2>2. r \in Saved /\ ckpt \in Saved /\ ckpt' \in Saved
    BY <2>1 DEF LineInv, TypeInv, TypeOK
  <2> QED
    BY <2>1, <2>2, ExtendsTransitively
<1> QED
  BY <1>1 DEF LineInv

LEMMA InitLine == Init => LineInv
BY InitType DEF Init, LineInv

LEMMA NextLine ==
  ASSUME ~StaleReports
  PROVE  LineInv /\ [Next]_vars => LineInv'
<1> SUFFICES ASSUME LineInv, [Next]_vars PROVE LineInv'
  OBVIOUS
<1>1. TypeInv /\ TypeInv'
  BY NextType DEF LineInv
<1>2. ckpt \in Saved \cup {NoFile} /\ ckpt' \in Saved \cup {NoFile} /\ reports \subseteq Saved
  BY <1>1 DEF TypeInv, TypeOK
<1>3. CASE Start
  <2>1. ckpt = NoFile /\ reports' = reports
    BY <1>3 DEF Start, FreshAllowed
  <2> QED
    BY <1>1, <2>1, CheckpointExtends
<1>4. ASSUME NEW s \in ResumeSources, Resume(s) PROVE LineInv'
  <2>1. ckpt' = ckpt /\ reports' = reports
    BY <1>4 DEF Resume, ResumeSources
  <2> QED
    BY <1>1, <1>2, <2>1, ExtendsItself, CheckpointExtends
<1>5. ASSUME NEW j \in Jobs, StepJob(j) PROVE LineInv'
  <2>1. ckpt # NoFile /\ ckpt' # NoFile /\ ckpt'.attempts = ckpt.attempts
    BY <1>1, <1>5, JobStep
  <2>2. \A k \in Jobs : ckpt.records[k].status # "none" => ckpt'.records[k] = ckpt.records[k]
    BY <1>1, <1>5, JobStep
  <2>3. Len(ckpt.attempts) \in Nat
    BY <1>2, <2>1 DEF Saved
  <2>4. Extends(ckpt', ckpt)
    BY <2>1, <2>2, <2>3 DEF Extends
  <2> QED
    BY <1>1, <1>5, <2>1, <2>4, CheckpointExtends DEF StepJob
<1>6. ASSUME NEW g \in Cases, SelectGap(g), Selectable(g) PROVE LineInv'
  <2>1. /\ ckpt # NoFile /\ ckpt' # NoFile
        /\ ckpt'.records = ckpt.records /\ ckpt'.attempts = ckpt.attempts
    BY <1>1, <1>6, UpKnows, CheckpointWrites DEF SelectGap, TypeInv, ProcessInv, Up
  <2>2. Len(ckpt.attempts) \in Nat
    BY <1>2, <2>1 DEF Saved
  <2>3. Extends(ckpt', ckpt)
    BY <2>1, <2>2 DEF Extends
  <2> QED
    BY <1>1, <1>6, <2>1, <2>3, CheckpointExtends DEF SelectGap
<1>7. ASSUME NEW t \in Tools, SynthesizeGapCheck(t) PROVE LineInv'
  <2>1. /\ ckpt # NoFile /\ ckpt' # NoFile /\ ckpt'.records = ckpt.records
        /\ \E a : ckpt'.attempts = Append(ckpt.attempts, a)
    BY <1>1, <1>7, AttemptAdded
  <2>2. ckpt.attempts \in Seq(Attempt) /\ ckpt'.attempts \in Seq(Attempt)
    BY <1>2, <2>1 DEF Saved
  <2>3. Extends(ckpt', ckpt)
    BY <2>1, <2>2 DEF Extends
  <2> QED
    BY <1>1, <1>7, <2>1, <2>3, CheckpointExtends DEF SynthesizeGapCheck
<1>8. CASE Finish
  <2>1. /\ ckpt' = ckpt /\ ckpt # NoFile
        /\ reports' = reports \cup {Snapshot} /\ Snapshot = ckpt
    BY <1>1, <1>8 DEF Finish, TypeInv, ProcessInv, Up, Snapshot
  <2> QED
    BY <1>1, <1>2, <2>1, ExtendsItself DEF LineInv
<1>9. CASE UNCHANGED <<ckpt, reports>>
  BY <1>1, <1>9, <1>2, ExtendsItself, CheckpointExtends
<1> QED
  BY <1>3, <1>4, <1>5, <1>6, <1>7, <1>8, <1>9, StepKinds
     DEF StepRaises, StepInterrupted, SynthesisInterrupted, EditInputs, Tamper, diskVars

\* Every report is a stage of the one line of checkpoints: no later session takes
\* back a record or an attempt that a report gives.
THEOREM OneLine ==
  ASSUME ~StaleReports
  PROVE  Spec => []LineInv
BY InitLine, NextLine, PTL DEF Spec

\* The outputs that any report vouches for stay as it hashed them, through every
\* later session, crash and resume.
THEOREM VouchedOutputsKept ==
  ASSUME ~StaleReports
  PROVE  Spec => []OutputsOfReportsKept
<1>1. LineInv /\ CkptInv => OutputsOfReportsKept
  <2> SUFFICES ASSUME LineInv, CkptInv, tampers = 0, NEW s \in OnDisk, NEW j \in Jobs,
                      s.records[j].status = "completed"
               PROVE  disk[j] = s.records[j].hash
    BY DEF OutputsOfReportsKept
  <2>1. ckpt # NoFile /\ ckpt.records[j] = s.records[j]
    BY DEF OnDisk, LineInv, Extends
  <2> QED
    BY <2>1 DEF CkptInv, HashesMatch
<1> QED
  BY OneLine, CheckpointOnDisk, <1>1, PTL

\* A candidate that was judged stays in its directory as long as anything on disk
\* names it.
THEOREM JudgedCandidatesKept ==
  ASSUME ~StaleReports
  PROVE  Spec => []AttemptsPreserved
<1>1. LineInv /\ CkptInv => AttemptsPreserved
  <2> SUFFICES ASSUME LineInv, CkptInv, NEW s \in OnDisk, NEW i \in DOMAIN s.attempts
               PROVE  s.attempts[i].tool \in staged[i]
    BY DEF AttemptsPreserved
  <2>1. ckpt # NoFile /\ Len(s.attempts) <= Len(ckpt.attempts)
        /\ ckpt.attempts[i] = s.attempts[i]
    <3>1. ckpt # NoFile /\ (s = ckpt \/ Extends(ckpt, s))
      BY DEF OnDisk, LineInv
    <3>2. Len(ckpt.attempts) \in Nat
      BY <3>1 DEF LineInv, TypeInv, TypeOK, Saved
    <3> QED
      BY <3>1, <3>2 DEF Extends
  <2>2. s.attempts \in Seq(Attempt) /\ ckpt.attempts \in Seq(Attempt)
    BY <2>1 DEF OnDisk, LineInv, TypeInv, TypeOK, Saved
  <2>3. i \in DOMAIN ckpt.attempts
    BY <2>1, <2>2
  <2> QED
    BY <2>1, <2>3 DEF CkptInv, Staged
<1> QED
  BY OneLine, CheckpointOnDisk, <1>1, PTL

-----------------------------------------------------------------------------
(* Revisions of the inputs, and runs of a job. *)

\* A running session sees the inputs of its checkpoint, and so does every record.
RevInv == /\ TypeInv
          /\ Up => ckpt.rev = inputs
          /\ InputsConsistent

LEMMA InitRev == Init => RevInv
BY InitType DEF Init, RevInv, Up, InputsConsistent, OnDisk

\* A step that leaves the reports and whose checkpoint, if new, has one revision.
LEMMA CheckpointRev ==
  ASSUME RevInv, TypeInv', reports' = reports, Up' => ckpt'.rev = inputs',
         ckpt' = ckpt \/ \A j \in Jobs : ckpt'.records[j].status # "none" =>
                                           ckpt'.records[j].rev = ckpt'.rev
  PROVE  RevInv'
BY DEF RevInv, InputsConsistent, OnDisk

LEMMA NextRev == RevInv /\ [Next]_vars => RevInv'
<1> SUFFICES ASSUME RevInv, [Next]_vars PROVE RevInv'
  OBVIOUS
<1>1. TypeInv /\ TypeInv'
  BY NextType DEF RevInv
<1>2. CASE Start
  <2>1. /\ ckpt'.records = [j \in Jobs |-> NoRecord] /\ ckpt'.rev = inputs
        /\ reports' = reports /\ inputs' = inputs
    BY <1>2 DEF Start, NewProcess, envVars
  <2> QED
    BY <1>1, <2>1, CheckpointRev DEF NoRecord
<1>3. ASSUME NEW s \in ResumeSources, Resume(s) PROVE RevInv'
  <2>1. /\ ckpt' = s /\ s \in OnDisk /\ reports' = reports /\ inputs' = inputs
        /\ s.rev = inputs
    BY <1>3 DEF Resume, ResumeSources, OnDisk, envVars, Acceptable, SameInputs
  <2> QED
    BY <1>1, <2>1, CheckpointRev DEF RevInv, InputsConsistent
<1>4. ASSUME NEW j \in Jobs, StepJob(j) PROVE RevInv'
  <2>1. Up /\ reports' = reports /\ inputs' = inputs
    BY <1>4 DEF StepJob, envVars
  <2>2. /\ ckpt # NoFile /\ ckpt'.rev = ckpt.rev /\ ckpt.rev = inputs
        /\ ckpt.records \in [Jobs -> Record]
    BY <1>1, <1>4, <2>1, JobStep DEF RevInv
  <2>3. PICK r : ckpt'.records = [ckpt.records EXCEPT ![j] = r] /\ r.rev = inputs
    BY <1>1, <1>4, JobStep
  <2>4. \A k \in Jobs : ckpt.records[k].status # "none" => ckpt.records[k].rev = ckpt.rev
    BY <2>2 DEF RevInv, InputsConsistent, OnDisk
  <2>5. \A k \in Jobs : ckpt'.records[k].status # "none" => ckpt'.records[k].rev = ckpt'.rev
    BY <2>2, <2>3, <2>4
  <2> QED
    BY <1>1, <2>1, <2>2, <2>5, CheckpointRev
<1>5. ASSUME NEW g \in Cases, SelectGap(g), Selectable(g) PROVE RevInv'
  <2>1. /\ Up /\ reports' = reports /\ inputs' = inputs /\ ckpt # NoFile
        /\ ckpt'.records = ckpt.records /\ ckpt'.rev = ckpt.rev
    BY <1>1, <1>5, UpKnows, CheckpointWrites DEF SelectGap, envVars
  <2> QED
    BY <1>1, <2>1, CheckpointRev DEF RevInv, InputsConsistent, OnDisk
<1>6. ASSUME NEW t \in Tools, SynthesizeGapCheck(t) PROVE RevInv'
  <2>1. /\ Up /\ reports' = reports /\ inputs' = inputs /\ ckpt # NoFile
        /\ ckpt'.records = ckpt.records /\ ckpt'.rev = ckpt.rev
    BY <1>1, <1>6, AttemptAdded DEF SynthesizeGapCheck, envVars
  <2> QED
    BY <1>1, <2>1, CheckpointRev DEF RevInv, InputsConsistent, OnDisk
<1>7. CASE Finish
  <2>1. /\ ckpt' = ckpt /\ ckpt # NoFile /\ proc' = "down"
        /\ reports' = reports \cup {Snapshot} /\ Snapshot = ckpt
    BY <1>1, <1>7 DEF Finish, Dies, TypeInv, ProcessInv, Up, Snapshot
  <2>2. OnDisk' = OnDisk
    BY <2>1 DEF OnDisk
  <2> QED
    BY <1>1, <2>1, <2>2 DEF RevInv, InputsConsistent, Up
<1>8. ASSUME NEW j \in Jobs, Tamper(j) PROVE RevInv'
  <2>1. UNCHANGED <<proc, ckpt, reports, inputs>>
    BY <1>8 DEF Tamper
  <2> QED
    BY <1>1, <2>1, CheckpointRev DEF RevInv, Up
<1>9. CASE EditInputs
  <2>1. UNCHANGED <<ckpt, reports>> /\ ~Up'
    BY <1>9 DEF EditInputs, diskVars, Up
  <2> QED
    BY <1>1, <2>1, CheckpointRev
<1>10. CASE UNCHANGED <<ckpt, reports, inputs>> /\ (proc' = "up" => proc = "up")
  BY <1>1, <1>10, CheckpointRev DEF RevInv, Up
<1> QED
  BY <1>2, <1>3, <1>4, <1>5, <1>6, <1>7, <1>8, <1>9, <1>10, StepKinds
     DEF StepRaises, StepInterrupted, SynthesisInterrupted, Dies, diskVars, envVars

\* No snapshot mixes records made under two states of the inputs, whichever edits
\* and resumes come between the sessions.
THEOREM NoMixedRevisions == Spec => []InputsConsistent
BY InitRev, NextRev, PTL DEF Spec, RevInv

\* What a job has run so far is at most what the checkpoint records of it, when the
\* report job keeps to its format.
RunsInv ==
  /\ LineInv
  /\ disk[ReportJob] \notin BadShape
  /\ ckpt = NoFile => \A j \in Jobs : runs[j] = 0
  /\ ckpt # NoFile =>
       /\ ~GapsRaise(ckpt.records)
       /\ \A j \in Jobs : runs[j] <= IF ckpt.records[j].status = "none" THEN 0 ELSE 1

\* The outputs of a campaign whose report job writes what gaps() accepts.
ShapedReports == Writes[ReportJob] \cap BadShape = {}

LEMMA InitRuns == Init => RunsInv
BY InitLine, Constants, GapAssumption DEF Init, RunsInv

LEMMA NextRuns ==
  ASSUME ~StaleReports, ShapedReports
  PROVE  RunsInv /\ [Next]_vars => RunsInv'
<1> SUFFICES ASSUME RunsInv, [Next]_vars PROVE RunsInv'
  OBVIOUS
<1>1. TypeInv /\ TypeInv' /\ LineInv'
  BY NextType, NextLine DEF RunsInv, LineInv
<1>2. /\ disk \in [Jobs -> Bytes] /\ runs \in [Jobs -> Nat] /\ Absent \notin BadShape
      /\ ReportJob \in Jobs /\ ckpt \in Saved \cup {NoFile}
  BY <1>1, Constants, GapAssumption DEF TypeInv, TypeOK
<1>3. \A j \in Jobs : \A c \in AfterRun(j) :
        disk' = [disk EXCEPT ![j] = c] => disk'[ReportJob] \notin BadShape
  BY <1>2 DEF AfterRun, RunsInv, ShapedReports
<1>4. CASE Start
  <2>1. /\ ckpt = NoFile /\ ckpt' # NoFile /\ UNCHANGED <<disk, runs>>
        /\ ckpt'.records = [j \in Jobs |-> NoRecord]
    BY <1>1, <1>4 DEF Start, FreshAllowed, NewProcess, TypeInv, ProcessInv
  <2> QED
    BY <1>1, <1>2, <2>1 DEF RunsInv, NoRecord, GapsRaise, Reported
<1>5. ASSUME NEW s \in ResumeSources, Resume(s) PROVE RunsInv'
  <2>1. UNCHANGED <<ckpt, disk, runs>>
    BY <1>5 DEF Resume, ResumeSources
  <2> QED
    BY <1>1, <2>1 DEF RunsInv, GapsRaise, Reported
<1>6. ASSUME NEW j \in Jobs, StepJob(j) PROVE RunsInv'
  <2>1. runs' = [runs EXCEPT ![j] = @ + 1]
    BY <1>6 DEF StepJob
  <2>2. /\ ckpt # NoFile /\ ckpt' # NoFile /\ ckpt.records \in [Jobs -> Record]
        /\ ckpt.records[j].status = "none"
    BY <1>1, <1>6, JobStep
  <2>3. PICK c \in AfterRun(j), exit \in Exits :
          /\ disk' = [disk EXCEPT ![j] = c]
          /\ ckpt'.records = [ckpt.records EXCEPT ![j] = RecordOf(j, c, exit)]
          /\ ~GapsRaise(ckpt'.records)
          /\ RecordOf(j, c, exit).status # "none"
    BY <1>1, <1>6, JobStep
  <2>4. runs[j] = 0
    BY <1>2, <2>2 DEF RunsInv
  <2>5. \A k \in Jobs : runs'[k] <= IF ckpt'.records[k].status = "none" THEN 0 ELSE 1
    <3> TAKE k \in Jobs
    <3>1. CASE k = j
      BY <1>2, <2>1, <2>2, <2>3, <2>4, <3>1
    <3>2. CASE k # j
      BY <1>2, <2>1, <2>2, <2>3, <3>2 DEF RunsInv
    <3> QED
      BY <3>1, <3>2
  <2> QED
    BY <1>1, <1>3, <2>2, <2>3, <2>5 DEF RunsInv, GapsRaise, Reported
<1>7. ASSUME NEW j \in Jobs PROVE ~StepRaises(j)
  <2> SUFFICES ASSUME StepRaises(j) PROVE FALSE
    OBVIOUS
  <2>1. /\ ckpt # NoFile /\ ckpt.records = records /\ records \in [Jobs -> Record]
    BY <1>1, UpKnows DEF StepRaises, TypeInv, TypeOK
  <2>2. PICK c \in AfterRun(j) :
          /\ disk' = [disk EXCEPT ![j] = c]
          /\ GapsRaise([records EXCEPT ![j] = RecordOf(j, c, "success")])
    BY DEF StepRaises
  <2>3. CASE j = ReportJob
    <3>1. /\ RecordOf(j, c, "success").status = "completed"
          /\ RecordOf(j, c, "success").hash \in BadShape
      BY <1>2, <2>1, <2>2, <2>3 DEF GapsRaise, Reported
    <3>2. RecordOf(j, c, "success").hash \in {c, Absent}
      BY DEF RecordOf
    <3> QED
      BY <1>2, <1>3, <2>2, <2>3, <3>1, <3>2
  <2>4. CASE j # ReportJob
    BY <1>2, <2>1, <2>2, <2>4 DEF RunsInv, GapsRaise, Reported
  <2> QED
    BY <2>3, <2>4
<1>8. ASSUME NEW j \in Jobs, StepInterrupted(j) PROVE RunsInv'
  <2>1. UNCHANGED <<ckpt, runs>> /\ \E c \in AfterRun(j) : disk' = [disk EXCEPT ![j] = c]
    BY <1>8 DEF StepInterrupted
  <2> QED
    BY <1>1, <1>3, <2>1 DEF RunsInv, GapsRaise, Reported
<1>9. ASSUME NEW g \in Cases, SelectGap(g), Selectable(g) PROVE RunsInv'
  <2>1. /\ ckpt # NoFile /\ ckpt' # NoFile /\ UNCHANGED <<disk, runs>>
        /\ ckpt'.records = ckpt.records
    BY <1>1, <1>9, UpKnows, CheckpointWrites DEF SelectGap, TypeInv, ProcessInv, Up
  <2> QED
    BY <1>1, <2>1 DEF RunsInv, GapsRaise, Reported
<1>10. ASSUME NEW t \in Tools, SynthesizeGapCheck(t) PROVE RunsInv'
  <2>1. /\ ckpt # NoFile /\ ckpt' # NoFile /\ UNCHANGED <<disk, runs>>
        /\ ckpt'.records = ckpt.records
    BY <1>1, <1>10, AttemptAdded DEF SynthesizeGapCheck
  <2> QED
    BY <1>1, <2>1 DEF RunsInv, GapsRaise, Reported
<1>11. ASSUME NEW j \in Jobs, Tamper(j) PROVE RunsInv'
  <2>1. /\ UNCHANGED <<ckpt, runs>>
        /\ \E c \in Writes[j] \cup {Absent} : disk' = [disk EXCEPT ![j] = c]
    BY <1>11 DEF Tamper
  <2>2. disk'[ReportJob] \notin BadShape
    BY <1>2, <2>1 DEF RunsInv, ShapedReports
  <2> QED
    BY <1>1, <2>1, <2>2 DEF RunsInv, GapsRaise, Reported
<1>12. CASE UNCHANGED <<ckpt, disk, runs>>
  BY <1>1, <1>12 DEF RunsInv, GapsRaise, Reported
<1> QED
  BY <1>4, <1>5, <1>6, <1>7, <1>8, <1>9, <1>10, <1>11, <1>12, StepKinds
     DEF Finish, SynthesisInterrupted, EditInputs, diskVars

\* A completed or failed job never runs again, in any session, provided the report
\* job keeps to its format and no older report is resumed from: the runs
\* malformed_report and stale_report show that both are needed.
THEOREM SettledJobsStaySettled ==
  ASSUME ~StaleReports, ShapedReports
  PROVE  Spec => []SettledOnce
<1>1. Spec => []RunsInv
  BY InitRuns, NextRuns, PTL DEF Spec
<1>2. RunsInv => SettledOnce
  <2> SUFFICES ASSUME RunsInv, NEW j \in Jobs PROVE runs[j] <= 1
    BY DEF SettledOnce
  <2>1. runs[j] \in Nat
    BY DEF RunsInv, LineInv, TypeInv, TypeOK
  <2> QED
    BY <2>1 DEF RunsInv
<1> QED
  BY <1>1, <1>2, PTL

-----------------------------------------------------------------------------
(* The end of a session. *)

\* Blocked jobs are themselves closed under the rule that blocks.
LEMMA BlockedIsClosed ==
  ASSUME NEW J, NEW req \in [J -> SUBSET J], NEW st
  PROVE  BlockClosed(req, st, Blocked(req, st))
BY DEF BlockClosed, Blocked

\* So are the needed jobs under what they require.
LEMMA NeededIsClosed ==
  ASSUME NEW J, NEW req \in [J -> SUBSET J], NEW must \in SUBSET J
  PROVE  /\ must \subseteq Needed(req, must) /\ Needed(req, must) \subseteq J
         /\ RequiresClosed(req, Needed(req, must))
<1>1. ASSUME NEW j \in Needed(req, must), NEW d \in req[j] PROVE d \in Needed(req, must)
  <2>1. j \in J /\ d \in J
    BY <1>1 DEF Needed
  <2> QED
    BY <1>1, <2>1 DEF Needed, RequiresClosed
<1> QED
  BY <1>1 DEF Needed, RequiresClosed

\* A needed job is blocked only when a needed job failed.
LEMMA BlockedByNeeded ==
  ASSUME NEW J, NEW req \in [J -> SUBSET J], NEW st, NEW must \in SUBSET J,
         \A j \in Needed(req, must) : st[j] # "failed"
  PROVE  Blocked(req, st) \cap Needed(req, must) = {}
<1> DEFINE B == Blocked(req, st)
           N == Needed(req, must)
<1>1. DOMAIN req = J /\ B \subseteq J /\ B \ N \in SUBSET DOMAIN req
  BY DEF Blocked
<1>2. BlockClosed(req, st, B \ N)
  <2> SUFFICES ASSUME NEW j \in J, st[j] = "none",
                      NEW d \in req[j], st[d] = "failed" \/ d \in B \ N
               PROVE  j \in B \ N
    BY <1>1 DEF BlockClosed
  <2>1. j \in B
    BY <1>1, BlockedIsClosed DEF BlockClosed
  <2>2. d \notin N
    OBVIOUS
  <2>3. j \notin N
    BY <2>2, NeededIsClosed DEF RequiresClosed
  <2> QED
    BY <2>1, <2>3
<1>3. B \subseteq B \ N
  BY <1>1, <1>2 DEF Blocked
<1> QED
  BY <1>3

\* When no needed job can still run and none failed, all of them completed.
LEMMA NothingLeft ==
  ASSUME NEW J, NEW req \in [J -> SUBSET J], NEW st \in [J -> RecordStatus],
         NEW must \in SUBSET J,
         Remaining(req, st, must) = {}, \A j \in Needed(req, must) : st[j] # "failed"
  PROVE  JobsComplete(req, st, must)
<1> SUFFICES ASSUME NEW j \in Needed(req, must), st[j] # "completed" PROVE FALSE
  BY DEF JobsComplete, AllCompleted
<1>1. j \in J /\ st[j] = "none"
  BY NeededIsClosed DEF RecordStatus
<1>2. j \notin Blocked(req, st)
  BY BlockedByNeeded
<1>3. StatusOf(req, st, j) \in {"ready", "pending"}
  BY <1>1, <1>2 DEF StatusOf
<1> QED
  BY <1>3 DEF Remaining

\* A conclusion that was accepted found nothing left to run or to check.
ConcludedInv ==
  /\ TypeInv
  /\ status = "concluded" => StillToRun = {} /\ ~MustContinue(records, attempts)

LEMMA NextConcluded == ConcludedInv /\ [Next]_vars => ConcludedInv'
<1> SUFFICES ASSUME ConcludedInv, [Next]_vars PROVE ConcludedInv'
  OBVIOUS
<1>1. TypeInv /\ TypeInv'
  BY NextType DEF ConcludedInv
<1>2. ASSUME NEW w \in Wordings, Conclude(w) PROVE ConcludedInv'
  <2>1. records' = records /\ attempts' = attempts
    BY <1>2 DEF Conclude, procVars
  <2>2. status' = "concluded" => StillToRun = {} /\ ~MustContinue(records, attempts)
    BY <1>2 DEF Conclude, Turn, Strike
  <2> QED
    BY <1>1, <2>1, <2>2 DEF ConcludedInv, StillToRun
<1>3. CASE status' # "concluded"
  BY <1>1, <1>3 DEF ConcludedInv
<1>4. CASE UNCHANGED <<records, attempts, status>>
  BY <1>1, <1>4 DEF ConcludedInv, StillToRun
<1>5. ASSUME Start \/ \E s \in ResumeSources : Resume(s) PROVE status' # "concluded"
  BY <1>5 DEF Start, Resume, NewProcess, NewLoop
<1>6. ASSUME NEW j \in Jobs,
             StepJob(j) \/ StepRaises(j) \/ StepInterrupted(j) \/ ReadArtifact(j)
      PROVE  status' # "concluded"
  BY <1>6 DEF StepJob, StepRaises, StepInterrupted, ReadArtifact, Turn, Strike, Dies,
              NewProcess, NewLoop
<1>7. ASSUME NEW g \in Cases, SelectGap(g) PROVE status' # "concluded"
  BY <1>7 DEF SelectGap, Turn, Strike
<1>8. ASSUME NEW t \in Tools,
             SynthesizeGapCheck(t) \/ SynthesisRefused(t) \/ SynthesisInterrupted(t)
      PROVE  status' # "concluded"
  BY <1>8 DEF SynthesizeGapCheck, SynthesisRefused, SynthesisInterrupted, Turn, Strike,
              Dies, NewProcess, NewLoop
<1>9. ASSUME BadReply \/ LoopLimit \/ Finish \/ Crash PROVE status' # "concluded"
  BY <1>9 DEF BadReply, InvalidReply, Strike, LoopLimit, StepCap, BudgetGone, Finish,
              Crash, Dies, NewProcess, NewLoop
<1>10. ASSUME EditInputs \/ (\E j \in Jobs : Tamper(j)) \/ UNCHANGED vars
       PROVE  UNCHANGED <<records, attempts, status>>
  BY <1>10 DEF EditInputs, Tamper, vars, procVars, loopVars
<1> QED
  BY <1>2, <1>3, <1>4, <1>5, <1>6, <1>7, <1>8, <1>9, <1>10
     DEF Next, TurnOfLoop, Interrupt

\* When a conclusion is accepted on an incomplete campaign, a needed job failed or
\* the required gap check could not be had, for every job graph.
THEOREM ConclusionExplained == Spec => []IncompleteConclusionIsExplained
<1>1. Init => ConcludedInv
  BY InitType DEF Init, LoopStart, ConcludedInv
<1>2. ConcludedInv => IncompleteConclusionIsExplained
  <2> SUFFICES ASSUME ConcludedInv, status = "concluded", ~Complete(Snapshot),
                      \A j \in Needed(Requires, RequiredJobs) : records[j].status # "failed"
               PROVE  GapRequired /\ GapStatus(records, attempts)
                                       \in {"waiting", "unavailable", "exhausted"}
    BY DEF IncompleteConclusionIsExplained
  <2>1. Remaining(Requires, Statuses(records), RequiredJobs) = {}
    BY DEF ConcludedInv, StillToRun
  <2>2. /\ Requires \in [Jobs -> SUBSET Jobs] /\ RequiredJobs \in SUBSET Jobs
        /\ Statuses(records) \in [Jobs -> RecordStatus]
    BY CampaignAssumption DEF ConcludedInv, TypeInv, TypeOK, Statuses, Record
  <2>3. \A j \in Needed(Requires, RequiredJobs) : Statuses(records)[j] # "failed"
    BY <2>2, NeededIsClosed DEF Statuses
  <2>4. JobsComplete(Requires, Statuses(records), RequiredJobs)
    BY <2>1, <2>2, <2>3, NothingLeft
  <2>5. ~GapsComplete(records, attempts)
    BY <2>4 DEF Complete, Snapshot
  <2>6. GapStatus(records, attempts) # "open" /\ GapRequired
    BY <2>5 DEF ConcludedInv, MustContinue, GapsComplete
  <2> QED
    BY <2>5, <2>6 DEF GapsComplete, GapStatus
<1> QED
  BY <1>1, <1>2, NextConcluded, PTL DEF Spec

-----------------------------------------------------------------------------
(* The strikes of the loop. *)

\* What a step can do to the loop: start a fresh one, take a turn that brought
\* something new, take an idle turn, stop at a limit, or leave it alone.
FreshLoop == steps' = 0 /\ strikes' = 0 /\ evidence' = <<>> /\ status' # "degraded"

NewTurn == /\ status = "running" /\ status' # "degraded"
           /\ steps' = steps + 1 /\ strikes' = 0
           /\ evidence' = Append(evidence, "new")

IdleTurn == /\ status = "running" /\ (status' = "degraded" <=> strikes + 1 >= 2)
            /\ steps' = steps + 1 /\ strikes' = strikes + 1
            /\ \E kind \in EvidenceKind \ {"new"} : evidence' = Append(evidence, kind)

LimitReached == /\ status = "running" /\ status' # "degraded"
                /\ UNCHANGED <<steps, strikes, evidence>>

LoopStep == \/ FreshLoop \/ NewTurn \/ IdleTurn \/ LimitReached
            \/ UNCHANGED <<steps, strikes, evidence, status>>

LEMMA LoopSteps == [Next]_vars => LoopStep
<1> SUFFICES ASSUME [Next]_vars PROVE LoopStep
  OBVIOUS
<1>1. ASSUME Dies \/ Start \/ \E s \in ResumeSources : Resume(s) PROVE FreshLoop
  BY <1>1 DEF Dies, Start, Resume, NewProcess, NewLoop, FreshLoop
<1>2. ASSUME NEW j \in Jobs, StepJob(j) \/ ReadArtifact(j) PROVE LoopStep
  BY <1>2 DEF StepJob, ReadArtifact, Turn, Spend, Strike, Calling, EvidenceKind, LoopStep,
              NewTurn, IdleTurn
<1>3. ASSUME NEW g \in Cases, SelectGap(g) PROVE LoopStep
  BY <1>3 DEF SelectGap, Turn, Spend, Strike, Calling, EvidenceKind, LoopStep, NewTurn,
              IdleTurn
<1>4. ASSUME NEW t \in Tools, SynthesizeGapCheck(t) \/ SynthesisRefused(t) PROVE LoopStep
  BY <1>4 DEF SynthesizeGapCheck, SynthesisRefused, Turn, Spend, Strike, Calling,
              EvidenceKind, LoopStep, NewTurn, IdleTurn
<1>5. ASSUME NEW w \in Wordings, Conclude(w) PROVE LoopStep
  BY <1>5 DEF Conclude, Turn, Spend, Strike, Calling, EvidenceKind, LoopStep, NewTurn,
              IdleTurn
<1>6. ASSUME BadReply \/ LoopLimit PROVE LoopStep
  BY <1>6 DEF BadReply, InvalidReply, LoopLimit, StepCap, BudgetGone, Spend, Strike, Calling,
              EvidenceKind, LoopStep, IdleTurn, LimitReached
<1>7. ASSUME EditInputs \/ (\E j \in Jobs : Tamper(j)) \/ UNCHANGED vars PROVE LoopStep
  BY <1>7 DEF EditInputs, Tamper, vars, loopVars, LoopStep
<1> QED
  BY <1>1, <1>2, <1>3, <1>4, <1>5, <1>6, <1>7
     DEF Next, TurnOfLoop, Interrupt, StepRaises, StepInterrupted, SynthesisInterrupted,
         Finish, Crash, LoopStep

IdleInv == /\ LoopTypeOK
           /\ strikes <= steps
           /\ IdleTurnsDegrade

LEMMA NextIdle == TypeInv' /\ IdleInv /\ [Next]_vars => IdleInv'
<1> SUFFICES ASSUME TypeInv', IdleInv, LoopStep PROVE IdleInv'
  BY LoopSteps
<1>1. /\ steps \in Nat /\ strikes \in 0..2 /\ strikes <= steps
      /\ evidence \in Seq(EvidenceKind) /\ Len(evidence) = steps
      /\ (status = "degraded" <=> strikes = 2)
      /\ LoopTypeOK'
  BY DEF IdleInv, LoopTypeOK, IdleTurnsDegrade, TypeInv, TypeOK
<1>2. CASE FreshLoop
  BY <1>1, <1>2 DEF FreshLoop, IdleInv, IdleTurnsDegrade
<1>3. ASSUME NEW kind \in EvidenceKind, evidence' = Append(evidence, kind), steps' = steps + 1
      PROVE  /\ Len(evidence') = steps'
             /\ evidence'[steps'] = kind
             /\ \A i \in 1..steps : evidence'[i] = evidence[i]
  BY <1>1, <1>3
<1>4. CASE NewTurn
  <2>1. Len(evidence') = steps' /\ evidence'[steps'] = "new"
    BY <1>3, <1>4 DEF NewTurn, EvidenceKind
  <2>2. /\ strikes' = 0 /\ status' # "degraded"
        /\ steps' \in Nat /\ steps' = steps + 1
    BY <1>1, <1>4 DEF NewTurn
  <2>3. strikes' <= steps' /\ steps' - strikes' = steps'
    BY <2>2
  <2>4. \A i \in 1..steps' : ~(i > steps')
    BY <2>2
  <2>5. /\ \A i \in 1..steps' : i > steps' - strikes' => evidence'[i] # "new"
        /\ evidence'[steps' - strikes'] = "new"
    BY <2>1, <2>3, <2>4
  <2>6. status' = "degraded" <=> strikes' = 2
    BY <2>2
  <2> QED
    BY <1>1, <2>1, <2>3, <2>5, <2>6 DEF IdleInv, IdleTurnsDegrade
<1>5. CASE IdleTurn
  <2>1. PICK kind \in EvidenceKind \ {"new"} : evidence' = Append(evidence, kind)
    BY <1>5 DEF IdleTurn
  <2>2. /\ Len(evidence') = steps' /\ evidence'[steps'] = kind
        /\ \A i \in 1..steps : evidence'[i] = evidence[i]
    BY <1>3, <1>5, <2>1 DEF IdleTurn
  <2>3. /\ steps' = steps + 1 /\ strikes' = strikes + 1 /\ strikes' <= steps'
        /\ (status' = "degraded" <=> strikes' = 2)
    BY <1>1, <1>5 DEF IdleTurn
  <2>4. \A i \in 1..steps' : i > steps' - strikes' => evidence'[i] # "new"
    <3> TAKE i \in 1..steps'
    <3>1. CASE i = steps'
      BY <2>1, <2>2, <3>1
    <3>2. CASE i \in 1..steps
      BY <1>1, <2>2, <2>3, <3>2 DEF IdleInv, IdleTurnsDegrade
    <3> QED
      BY <1>1, <2>3, <3>1, <3>2
  <2>5. strikes' < steps' => evidence'[steps' - strikes'] = "new"
    <3>1. strikes' < steps' => strikes < steps /\ steps - strikes \in 1..steps
      BY <1>1, <2>3
    <3>2. steps' - strikes' = steps - strikes
      BY <1>1, <2>3
    <3> QED
      BY <2>2, <3>1, <3>2 DEF IdleInv, IdleTurnsDegrade
  <2> QED
    BY <1>1, <2>2, <2>3, <2>4, <2>5 DEF IdleInv, IdleTurnsDegrade
<1>6. CASE LimitReached
  BY <1>1, <1>6 DEF LimitReached, IdleInv, IdleTurnsDegrade
<1>7. CASE UNCHANGED <<steps, strikes, evidence, status>>
  BY <1>1, <1>7 DEF IdleInv, IdleTurnsDegrade
<1> QED
  BY <1>2, <1>4, <1>5, <1>6, <1>7 DEF LoopStep

\* The strikes are exactly the idle turns at the end of the evidence, and two of them
\* in a row degrade the loop, whatever the handlers of those turns did.
THEOREM IdleLoopDegrades == Spec => []IdleTurnsDegrade
<1>1. Init => IdleInv
  BY InitType DEF Init, LoopStart, IdleInv, IdleTurnsDegrade, TypeInv, TypeOK
<1> QED
  BY <1>1, NextIdle, TypeInvariant, PTL DEF Spec, IdleInv
=============================================================================
