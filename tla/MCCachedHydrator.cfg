CONSTANTS
  Request = {r1, r2}
  Key = {k1, k2}
  MaxCandidates = 3
SYMMETRY Symmetry
SPECIFICATION Spec
INVARIANTS TypeOK Aligned NoHole
CHECK_DEADLOCK FALSE
