\* Two calls at a time for two requests about one worktree, two gates.
SPECIFICATION OrchestrationSpec
CONSTANTS
  Caller = {c1, c2}
  Request = {r1, r2}
  Gates = 2
SYMMETRY Interchangeable
INVARIANTS
  OrchestrationInv
PROPERTIES
  
  VerdictsAreFinal
  
CHECK_DEADLOCK FALSE
