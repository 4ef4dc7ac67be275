SPECIFICATION Spec
CONSTANT Jobs = {j1, j2, j3}
INVARIANT ValidatesIffAcyclic
INVARIANT StatusAgrees
INVARIANT RequiredAgrees
INVARIANT GateHasWork
CHECK_DEADLOCK FALSE
