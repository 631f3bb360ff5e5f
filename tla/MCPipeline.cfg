CONSTANTS
  Components <- MCComponents
  Needs <- MCNeeds
  Fetches <- MCFetches
  SelectorNeeds = {"user"}
  SelectorSize = 2
  ResultSize = 1
  MaxScore = 1
SPECIFICATION FairSpec
INVARIANTS TypeOK OwnData Conserved 
PROPERTY Completes
CHECK_DEADLOCK FALSE
