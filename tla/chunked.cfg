SPECIFICATION Http1Spec
CONSTANTS
  PerOp = 1
  BudgetLimit = 3
INVARIANTS
  CorrectServicePasses
