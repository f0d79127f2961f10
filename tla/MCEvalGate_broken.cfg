CONSTANTS
  Tasks = {t1, t2, t3, t4}
  Runs = {r1}
  MaxEdits = 1
  MaxStarts = 1
SPECIFICATION Spec
INVARIANT BrokenTaskFails
CHECK_DEADLOCK FALSE
