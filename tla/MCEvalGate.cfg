CONSTANTS
  Tasks = {t1, t2, t3, t4}
  Runs = {r1, r2}
  MaxEdits = 2
  MaxStarts = 2
SPECIFICATION Spec
INVARIANTS TypeOK GreenIsMeasured BaselineMeetsFloor
PROPERTY NoNewCorpse
SYMMETRY Symmetry
CHECK_DEADLOCK FALSE
