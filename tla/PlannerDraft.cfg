SPECIFICATION Spec
CONSTANTS
  Plans = {"tool"}
  NoPlan = NoPlan
  Files = {f}
  Texts = {x}
  NoText = NoText
  Tools = {t}
  Sources = {src}
  WellFormed = {"tool"}
  UsesFiles <- MCUsesFiles
  UsesTools <- MCUsesTools
  Cites <- MCCites
  Proposals <- MCSubmissions
  Revisions = {1}
  Dirty = Dirty
  Budget = 4
  Rounds = 1
  Execute = TRUE
  MaxDirs = 2
  MaxEdits = 0
CHECK_DEADLOCK FALSE
INVARIANT DraftRequalifies
