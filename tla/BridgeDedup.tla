---------------------------- MODULE BridgeDedup ----------------------------
(***************************************************************************)
(* The dedup filter of the bridge (bridge.go, allow): nothing is served in *)
(* a grace after the start, and a reader and card pair is served once as   *)
(* long as it keeps presenting within a window; the table of pairs is      *)
(* pruned and in the end cleared when it is full.                          *)
(*                                                                         *)
(* A feeder reads the clock before it takes the lock, so with several of   *)
(* them a presentation is judged by a time that may be past.               *)
(***************************************************************************)
EXTENDS Integers, FiniteSets

CONSTANTS
  Pairs,     \* reader and card pairs
  Feeders,   \* goroutines that feed the bridge; the program has one
  Window,    \* bridgeDedupWindow
  Grace,     \* bridgeStartupGrace
  TableMax,  \* bridgeDedupMax
  MaxTime,   \* bound: how far the clock runs
  MaxStale   \* how long a feeder waits for the lock at most

ASSUME DedupAssumption ==
  /\ Window \in Nat \ {0} /\ Grace \in Nat /\ TableMax \in Nat \ {0}
  /\ MaxTime \in Nat /\ MaxStale \in Nat

VARIABLES
  now,      \* the clock, from the start of the bridge
  last,     \* bridgeDedup: when each pair of the table was seen
  feeder,   \* what each feeder does
  \* history
  shown,    \* when each pair was judged last, past the grace
  served,   \* when each pair was served last
  cleared   \* pairs whose history the table has lost since

vars == <<now, last, feeder, shown, served, cleared>>

Time == 0..MaxTime
Never == -1
Resting == [state |-> "resting"]
Judging(p, t) == [state |-> "judging", pair |-> p, at |-> t]

TypeOK ==
  /\ now \in Time
  /\ DOMAIN last \subseteq Pairs /\ \A p \in DOMAIN last : last[p] \in Time
  /\ feeder \in [Feeders -> {Resting} \cup {Judging(p, t) : p \in Pairs, t \in Time}]
  /\ shown \in [Pairs -> Time \cup {Never}]
  /\ served \in [Pairs -> Time \cup {Never}]
  /\ cleared \subseteq Pairs

Init ==
  /\ now = 0 /\ last = [p \in {} |-> 0]
  /\ feeder = [f \in Feeders |-> Resting]
  /\ shown = [p \in Pairs |-> Never] /\ served = [p \in Pairs |-> Never]
  /\ cleared = {}

\* Time passes, as long as no feeder waits for longer than MaxStale.
Tick ==
  /\ now < MaxTime /\ now' = now + 1
  /\ \A f \in Feeders : feeder[f].state = "judging" => now < feeder[f].at + MaxStale
  /\ UNCHANGED <<last, feeder, shown, served, cleared>>

-----------------------------------------------------------------------------
InGrace(t) == t < Grace

\* A feeder reads the clock; in the grace it is done.
Feed(f, p) ==
  /\ feeder[f] = Resting
  /\ feeder' = [feeder EXCEPT ![f] = IF InGrace(now) THEN Resting ELSE Judging(p, now)]
  /\ UNCHANGED <<now, last, shown, served, cleared>>

\* Mutant: the comparison is the wrong way round.
RecentOutside(p, t) == p \in DOMAIN last /\ t - last[p] > Window

\* Mutant: the difference is the wrong way round.
RecentReversed(p, t) == p \in DOMAIN last /\ last[p] - t < Window

Recent(p, t) == p \in DOMAIN last /\ t - last[p] < Window

\* The pairs a full table keeps: the fresh ones, and none if they still fill it.
Pruned(t) ==
  LET fresh == {p \in DOMAIN last : t - last[p] < Window} IN
  IF Cardinality(DOMAIN last) < TableMax THEN DOMAIN last
  ELSE IF Cardinality(fresh) < TableMax THEN fresh ELSE {}

\* Mutant: a pair that is suppressed is not seen again.
NotedOnce(p, t) == last

\* Mutant: the table holds the end of the window.
NotedAhead(p, t) == [last EXCEPT ![p] = t + Window]

\* A pair that is suppressed is seen again.
Noted(p, t) == [last EXCEPT ![p] = t]

Suppress(f) ==
  /\ feeder[f].state = "judging"
  /\ LET p == feeder[f].pair  t == feeder[f].at IN
     /\ Recent(p, t)
     /\ last' = Noted(p, t)
     /\ shown' = [shown EXCEPT ![p] = t]
  /\ feeder' = [feeder EXCEPT ![f] = Resting]
  /\ UNCHANGED <<now, served, cleared>>

Allow(f) ==
  /\ feeder[f].state = "judging"
  /\ LET p == feeder[f].pair  t == feeder[f].at IN
     /\ ~Recent(p, t)
     /\ last' = [q \in Pruned(t) \cup {p} |-> IF q = p THEN t ELSE last[q]]
     /\ shown' = [shown EXCEPT ![p] = t]
     /\ served' = [served EXCEPT ![p] = t]
     /\ cleared' = (cleared \cup {q \in DOMAIN last \ Pruned(t) : t - last[q] < Window}) \ {p}
  /\ feeder' = [feeder EXCEPT ![f] = Resting]
  /\ UNCHANGED now

Next ==
  \/ Tick
  \/ \E f \in Feeders : Suppress(f) \/ Allow(f) \/ \E p \in Pairs : Feed(f, p)

Spec == Init /\ [][Next]_vars

-----------------------------------------------------------------------------
\* The feeder that judges in a step.
Serves(f, p) ==
  feeder[f].state = "judging" /\ feeder[f].pair = p /\ Allow(f)

\* A pair is served again only a window after it was served, or when a full
\* table was cleared in between (allow: "the same reader+card pair within the
\* window is dropped").  Feeders that wait for the lock shorten it: the one that
\* is served, or one it suppresses, and the one that prunes.
ServedApart ==
  [][\A f \in Feeders, p \in Pairs :
       Serves(f, p) /\ served[p] # Never /\ p \notin cleared
         => feeder[f].at - served[p] >= Window - 2 * MaxStale]_vars

\* A lying card is served once however long it keeps presenting: a pair is
\* served only when it was not shown for a window (bridgeDedupWindow: "against
\* the repeated insert events a card lying on a reader can produce").
LyingServedOnce ==
  [][\A f \in Feeders, p \in Pairs :
       Serves(f, p) /\ shown[p] # Never /\ p \notin cleared
         => feeder[f].at - shown[p] >= Window - MaxStale]_vars

\* A pair that was not shown for a window is served: no card stays suppressed.
QuietIsServed ==
  \A f \in Feeders : feeder[f].state = "judging" =>
    LET p == feeder[f].pair  t == feeder[f].at IN
    Recent(p, t) => shown[p] # Never /\ t - shown[p] < Window

\* Nothing is served in the grace (bridgeStartupGrace).
GraceSilent == \A p \in Pairs : served[p] # Never => served[p] >= Grace

\* The table is bounded, so weeks of many cards cannot leak (bridgeDedupMax).
TableBounded == Cardinality(DOMAIN last) <= TableMax
=============================================================================
