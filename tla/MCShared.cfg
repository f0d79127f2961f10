CONSTANTS
  Docs = {"backlog", "fixtures"}
  Trigger = "backlog"
  Saves <- MCSaves
  MaxSteps = 4
  Runs = {r1, r2, r3}
  N = 2
  MaxVersions = 2
  MaxStarts = 3
  Callers = {c1, c2}
  MaxObjects = 3
SPECIFICATION SharedSpec
INVARIANTS SharedTypes  UserTextSurvives RowsSurvive OrderIsLegal
  SavedIsNeverUndone
CHECK_DEADLOCK FALSE
