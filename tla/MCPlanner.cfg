SPECIFICATION Spec
CONSTANTS
  Plans <- MCPlans
  NoPlan = NoPlan
  Files = {f}
  Texts = {x}
  NoText = NoText
  Tools = {t}
  Sources = {src}
  WellFormed <- MCPlans
  UsesFiles <- MCUsesFiles
  UsesTools <- MCUsesNoTools
  Cites <- MCCites
  Proposals <- MCProposals
  Revisions = {1}
  Dirty = Dirty
  Budget = 4
  Rounds = 1
  Execute = TRUE
  MaxDirs = 2
  MaxEdits = 0
CHECK_DEADLOCK FALSE
INVARIANT TypeOK
INVARIANT HistoryReplays
INVARIANT ExecutedWasReviewed
INVARIANT DraftRequalifies
