\* Two feeders, one of which may judge by a clock that is a moment old, and a
\* table that three pairs overfill.
SPECIFICATION Spec
CONSTANTS
  a = a  b = b  c = c  f = f  g = g
  Pairs = {a, b, c}
  Feeders = {f, g}
  Window = 4
  Grace = 2
  TableMax = 2
  MaxTime = 9
  MaxStale = 1
SYMMETRY Symmetry
INVARIANTS TypeOK QuietIsServed
PROPERTIES LyingServedOnce ServedApart
CHECK_DEADLOCK FALSE
