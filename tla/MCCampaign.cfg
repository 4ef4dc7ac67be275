SPECIFICATION Spec
CONSTANTS
  Jobs <- MCJobs
  Requires <- MCRequires
  RequiredJobs = {"report"}
  Contents <- MCContents
  Writes <- MCWrites
  Absent = Absent
  BadJson = {"notjson"}
  BadShape = {"shapeless"}
  ReportJob = "report"
  GapNames = {"g1", "g2"}
  Cases = {"g1"}
  Natives <- MCNatives
  Found <- MCFound
  NoGap = NoGap
  NoFile = NoFile
  MaxAttempts = 2
  GapRequired = TRUE
  EnableSynthesis = TRUE
  Tools = {t1, t2}
  Wordings = {w1}
  Revisions = {1, 2}
  FirstRevision = 1
  StaleReports = FALSE
  MaxSessions = 3
  MaxEdits = 0
  MaxTampers = 0
  MaxSteps = 5
  Budget = 4
CHECK_DEADLOCK FALSE
INVARIANT TypeOK
INVARIANT RecordsFollowDependencies
INVARIANT CheckpointIsCurrent
INVARIANT RestartPossible
INVARIANT SelectedIsBuilt
INVARIANT AttemptsGrounded
INVARIANT OutputsOfReportsKept
INVARIANT AttemptsPreserved
INVARIANT IncompleteConclusionIsExplained
INVARIANT IdleTurnsDegrade
PROPERTY LedgerImplemented
SYMMETRY ToolSymmetry
