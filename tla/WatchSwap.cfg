\* A card is swapped between the state snapshot and the probe.
SPECIFICATION Spec
CONSTANTS
  r1 = r1  r2 = r2  c1 = c1  c2 = c2  c3 = c3
  t1 = t1  t2 = t2  u1 = u1  u2 = u2  s1 = s1  p1 = p1  p2 = p2
  Readers = {r1}
  Serials = {s1}
  Ports = {p1}
  NoSerial = NoSerial  NoPort = NoPort  NoReader = NoReader
  Cards = {c1, c2, c3}
  NoCard = NoCard  NoUid = NoUid  Nobody = Nobody
  TypeOf <- MCTypeOf
  UidOf <- MCUidOf
  UnitSerial <- MCNoSerials
  UnitPorts <- MCNoPorts
  ChanCap = 2
  MaxMoves = 2
  MaxFaults = 0
  Hotplug = FALSE
  ReadMayFail = FALSE
  MayMute = FALSE
INVARIANT TagsAreReal
