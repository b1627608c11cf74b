\* Everything that can go wrong at once, for two readers.
SPECIFICATION Spec
CONSTANTS
  r1 = r1  r2 = r2  c1 = c1  c2 = c2  c3 = c3
  t1 = t1  t2 = t2  u1 = u1  u2 = u2  s1 = s1  p1 = p1  p2 = p2
  Readers = {r1, r2}
  Serials = {s1}
  Ports = {p1}
  NoSerial = NoSerial  NoPort = NoPort  NoReader = NoReader
  Cards = {c1, c3}
  NoCard = NoCard  NoUid = NoUid  Nobody = Nobody
  TypeOf <- MCTypeOf
  UidOf <- MCUidOf
  UnitSerial <- MCUnitSerial
  UnitPorts <- MCUnitPorts
  ChanCap = 1
  MaxMoves = 2
  MaxFaults = 2
  Hotplug = TRUE
  ReadMayFail = FALSE
  MayMute = TRUE
INVARIANTS TypeOK RemovalOwed TurnSettles PortsDisjoint
PROPERTIES ReportedOnce IdentityStable LastingTagIsReal EventsPromised
