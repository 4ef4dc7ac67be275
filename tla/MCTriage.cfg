CONSTANTS
  MaxSteps = 2
  Budget = 2
  FamilyOrder <- MCFamilyOrder
  Owned <- MCOwned
  Hinted <- MCHinted
  NoFamily = "no-family"
  Strategies <- MCStrategies
  Target <- MCTarget
  CanonicalPass <- MCCanonicalPass
  Runner <- MCRunner
  Runnable <- MCStrategies
  PluginGiven = FALSE
  NoName = "no-name"
  NPasses = 2
  Name <- MCName
  HasSource <- MCHasSource
  Texts = {"gone", "folds", "packs"}
  Gone = "gone"
  FirstText <- MCFirstText
  Signals <- MCSignals
  ToolReports <- MCToolReports
  Proposals = {"recover-fold"}
  Rereads = {"recover-fold"}
  Supplied = "supplied"
  GateVerdicts = {"proved"}
  Conclusions = {"needs-human"}
  EnableSynthesis = TRUE
  FailOnRefuted = FALSE
  FailOnAgentRefuted = TRUE
  NoRecord = NoRecord
  Idle = "idle"
  MaxSessions = 2
  MaxEdits = 1
SPECIFICATION Spec
CHECK_DEADLOCK FALSE
INVARIANTS
  TypeOK
  OnlySpentBudgetSkips
  ResumedRecordIsOfThisText
  RefutationStands
  CertifiedByThisText
  GateFollowsVerifiers
PROPERTIES
  ConcludedWorkKept
  SessionEnds
