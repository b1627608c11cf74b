\* Every version of the daemon; late answers where the connection is given up.
SPECIFICATION FairSpec
CONSTANTS
  Minors = {1, 2, 3, 4, 5, 6}
  LateIn = {"context", "states", "dump"}
  MaxChanges = 2
INVARIANTS TypeOK InSync VersionsAgree WaiterIsKnown
PROPERTIES StatesAreSnapshots ChangeSeen CloseUnblocks
