CONSTANTS
  Procs = {"make", "shell"}
  Leader = "make"
  Contents = {"absent", "rule"}
SPECIFICATION VerifySpec
INVARIANT NeverPassWithNothingRun
