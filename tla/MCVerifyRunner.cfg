CONSTANTS
  Procs = {"make", "shell"}
  Leader = "make"
  Contents = {"absent", "unreadable", "undecodable", "other", "assign", "bare", "rule", "phony"}
SPECIFICATION VerifySpec
INVARIANTS VerifyTypes PassNeedsRecipe ExitZeroIsEarned
