\* The budgets of the code and troubles on both sides of every budget.
SPECIFICATION Spec
CONSTANTS
  UidReadAttempts = 3
  UidReadRounds = 3
  ResetReopenAttempts = 8
  OpenFails = {2, 3}
  Drops = {0, 2, 3}
  Lags = {7, 8}
  Kinds = {"uid", "random", "refused"}
  MaxLeaves = 1
INVARIANTS TypeOK OneConnection RoundsBounded InsistsEnough
PROPERTIES BudgetsSpent Ends
