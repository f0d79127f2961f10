CONSTANTS
  Procs = {"drill", "server"}
  Leader = "drill"
  Files = {"file", "link"}
  Links = {"link"}
  Ignored = {"link"}
  Versions = {"v1", "v2"}
  MaxEdits = 1
SPECIFICATION Spec
INVARIANTS ExitZeroIsEarned CopyIsRemoved
PROPERTIES UserWorkIsPreserved DrillStartsClean
