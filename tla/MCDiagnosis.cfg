SPECIFICATION Spec
CONSTANTS
  Vars = {"x", "y"}
  Bits = {0, 1}
  SignBit = 1
  AtomOrder <- MCAtomOrder
  MaxSilent = 1
  Cases <- MCCases
CHECK_DEADLOCK FALSE
INVARIANTS
  TypeOK
  MeaningKept
  NoGuardMissed
