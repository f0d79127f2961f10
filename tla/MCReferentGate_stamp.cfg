CONSTANTS
  Runs = {r1, r2}
  Tasks = {"t1"}
  Scripts = {"script"}
  MakeTargets = {"target"}
  Versions = {v1, v2}
  MaxAge = 2
  Drift = 1
  Ahead = 1
  MaxTime = 3
  MaxEdits = 1
SPECIFICATION Spec
INVARIANT StampClearsDrift
SYMMETRY Symmetry
