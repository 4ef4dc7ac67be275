SPECIFICATION FairSpec
CONSTANTS
  Plans = {"script"}
  NoPlan = NoPlan
  Files = {f}
  Texts = {x, y}
  NoText = NoText
  Tools = {}
  Sources = {src}
  WellFormed = {"script"}
  UsesFiles <- MCUsesFiles
  UsesTools <- MCUsesTools
  Cites <- MCCites
  Proposals <- MCSubmissions
  Revisions = {1}
  Dirty = Dirty
  Budget = 4
  Rounds = 1
  Execute = TRUE
  MaxDirs = 2
  MaxEdits = 2
CHECK_DEADLOCK FALSE
INVARIANT AcceptedRanReviewed
PROPERTY RunEnds
