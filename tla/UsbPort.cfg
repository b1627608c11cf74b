\* Inventory and watch over three units, two of which look the same, in four
\* devices, two of which share a devpath.
SPECIFICATION Spec
CONSTANTS
  r1 = r1  r2 = r2  r3 = r3  r4 = r4
  ua = ua  ub = ub  uc = uc  s2 = s2  acs = acs  dual = dual
  d1 = d1  d2 = d2  d3 = d3  d4 = d4
  Readers = {r1, r2, r3, r4}
  Serials = {s2}
  Ports <- MCPorts
  NoSerial = NoSerial  NoPort = NoPort  NoReader = NoReader
  Devices = {d1, d2, d3, d4}
  Devpath <- MCDevpath
  NoDevice = NoDevice
  Units = {ua, ub, uc}
  UnitOf <- MCUnitOf
  Name <- MCName
  Strings <- MCStrings
  UnitSerial <- MCUnitSerial
  ServesChannel = {r4}
  Modulus = 8
  urbWinnerMinDelta = 2
  urbWinnerMargin = 2
  Strays = {0, 1}
  Bursts = {0, 2}
  Histories = {0, 5}
  MaxMoves = 2
INVARIANTS TypeOK PortsAreRight InventoryAgrees
PROPERTY LastIsPinned
SYMMETRY AnyDevice
CONSTRAINT OnEvidence
