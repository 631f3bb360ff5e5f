SPECIFICATION FairSpec
CONSTANTS
    d1 = d1
    d2 = d2
    d3 = d3
    Gone = Gone
    TheRun = TheRun
    Item = {"i", "x"}
    Listed = {"i"}
    Decision = {d1, d3}
    PodOf <- OnePair
    StaleAfter = 1
    DayBudget = 2
    MaxRetries = 1
INVARIANTS TypeOK ClaimHeld RepeatsExplained 
PROPERTY StopQuiets
