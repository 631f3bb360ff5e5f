CONSTANTS
  c1 = c1
  c2 = c2
  c3 = c3
  whole = whole
  NoClassifier = whole
  Run = {1, 2}
  Caller = {c1, c2}
  Classifier <- OneModel
  Clocks = {0}
  SettleWaits = 1
  Budget <- MixedBudget
SPECIFICATION Spec
SYMMETRY Symmetry
INVARIANT OneRunnerUnlessLostUpdate
PROPERTY StopFinal FollowsLifecycle HoldLasts
CHECK_DEADLOCK FALSE
