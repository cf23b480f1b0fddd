SPECIFICATION Spec
CONSTANTS
  Calls = {c1, c2}
  Kinds = {"start", "stop"}
  MaxBusy = 1
  Probes = {TRUE, FALSE}
  NoOne = NoOne
SYMMETRY CallSymmetry
VIEW WithoutStore
INVARIANTS NoOrphan StopIsFinal StartingIsAttended
CHECK_DEADLOCK FALSE
