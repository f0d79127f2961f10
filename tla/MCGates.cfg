CONSTANTS
  Targets = {"verify", "lint", "test"}
  Verify = "verify"
  MaxTasks = 2
  MaxWords = 1
  Required = {"lint", "test"}
  Categories = {"git", "secrets"}
SPECIFICATION GateSpec
INVARIANTS GateTypes VerdictIsRight CoverageVerdict CatalogVerdict GuardVerdict
PROPERTIES WorkListsSearch GatesAnswer
CHECK_DEADLOCK FALSE
