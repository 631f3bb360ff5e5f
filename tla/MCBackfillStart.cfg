CONSTANTS
  c1 = c1
  c2 = c2
  c3 = c3
  whole = whole
  NoClassifier = whole
  Run = {1, 2, 3}
  Caller = {c1, c2, c3}
  Classifier <- SplitRuns
  Clocks = {0, 1}
  SettleWaits = 1
  Budget <- StartBudget
SPECIFICATION Spec
SYMMETRY Symmetry
INVARIANT TypeOK OneRunner
CHECK_DEADLOCK FALSE
