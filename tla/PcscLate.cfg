\* The answer to a stop request comes after waitSlack.
SPECIFICATION FairSpec
CONSTANTS
  Minors = {4}
  LateIn = {"stopping"}
  MaxChanges = 1
INVARIANT InSync
