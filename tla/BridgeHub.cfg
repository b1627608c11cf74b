\* Streams, polls, shutdown and restarts in every order, and what must come
\* to pass among them.
SPECIFICATION FairSpec
CONSTANTS
  s1 = s1  s2 = s2  p1 = p1  p2 = p2
  Streams = {s1}
  Pollers = {p1}
  Cap = 2
  QueueCap = 2
  MaxEvents = 5
  MaxRestarts = 1
INVARIANTS TypeOK RingIsRecent StreamWhole PollsAscend PollsComplete NoLeak
PROPERTIES ShutdownEnds PollsCatchUp
CHECK_DEADLOCK FALSE
