SPECIFICATION Spec
CONSTANTS
  Inputs = {"k1", "k2"}
  Outputs = {"x", "y"}
  Same <- MCSame
  Requirements <- MCRequirements
  Slots <- MCSlots
  Hits <- MCHits
  CallCap = 4
  Controls <- MCControls
  Bytes = {"good", "bad"}
  Texts = {"v1", "v2"}
  Missing = absent
  Behaves <- MCBehaves
  Minimum = 1
  Least <- MCLeast
  FirstFiles <- MCFirstFiles
  MaxEdits = 2
CHECK_DEADLOCK FALSE
INVARIANTS
  TypeOK
  TraceAgreesWithLog
  AcceptedSawEveryDefect
  AcceptedRanHashedBytes
PROPERTY
  Decides
