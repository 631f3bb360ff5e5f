CONSTANTS
  c1 = c1
  c2 = c2
  c3 = c3
  whole = whole
  NoClassifier = whole
  Run = {1}
  Caller = {c1, c2}
  Classifier <- OneModel
  Clocks = {0}
  SettleWaits = 1
  Budget <- HoldBudget
SPECIFICATION Spec
SYMMETRY Symmetry
PROPERTY HoldUntilResume
CHECK_DEADLOCK FALSE
