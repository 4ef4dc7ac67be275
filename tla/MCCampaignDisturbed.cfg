SPECIFICATION FairSpec
CONSTANTS
  Jobs <- MCJobs
  Requires <- MCRequires
  RequiredJobs = {"report", "native"}
  Contents <- MCContentsWellFormed
  Writes <- MCWritesWellFormed
  Absent = Absent
  BadJson = {"notjson"}
  BadShape = {}
  ReportJob = "report"
  GapNames = {"g1", "g2"}
  Cases = {"g1"}
  Natives <- MCNatives
  Found <- MCFound
  NoGap = NoGap
  NoFile = NoFile
  MaxAttempts = 2
  GapRequired = TRUE
  EnableSynthesis = TRUE
  Tools = {t1}
  Wordings = {w1}
  Revisions = {1, 2}
  FirstRevision = 1
  StaleReports = FALSE
  MaxSessions = 2
  MaxEdits = 1
  MaxTampers = 1
  MaxSteps = 3
  Budget = 4
CHECK_DEADLOCK FALSE
INVARIANT InputsConsistent
INVARIANT SettledOnce
PROPERTY SessionEnds
