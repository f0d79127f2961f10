CONSTANTS
  Procs = {"make", "check", "daemon"}
  Leader = "make"
SPECIFICATION Spec
INVARIANTS OutputIsComplete KillReachesGroup
PROPERTY EndsUnlessEscaped
