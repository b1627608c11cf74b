\* The budgets, pauses and the grace of the code, one card.
SPECIFICATION StartupSpec
CONSTANTS
  a = a  f = f
  Pairs = {a}
  Feeders = {f}
  Window = 3000
  Grace = 2000
  TableMax = 2
  MaxTime = 4000
  MaxStale = 0
  UidReadAttempts = 3
  UidReadRounds = 3
  UidReadDelay = 60
  ResetReopenAttempts = 8
  ResetReopenSettle = 100
  ResetReopenDelay = 150
INVARIANT LyingSilent
CHECK_DEADLOCK FALSE
