CONSTANTS
  Runs = {a1, a2}
  N = 3
  MaxUser = 2
  MaxRestarts = 2
SPECIFICATION Spec
INVARIANTS FailureIsExplained OneAuthor
PROPERTIES CreatesOnly SuccessIsComplete
SYMMETRY Symmetry
CHECK_DEADLOCK FALSE
