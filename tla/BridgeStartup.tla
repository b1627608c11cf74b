--------------------------- MODULE BridgeStartup ---------------------------
(***************************************************************************)
(* The first turn of the watch loop against the grace of the bridge: the   *)
(* program makes the bridge, then starts to watch, and the cards that lie  *)
(* on the readers are probed one after the other and fed as they are read. *)
(* Time is in milliseconds and only the pauses of the probe count; what    *)
(* the exchanges themselves take comes on top.                             *)
(***************************************************************************)
EXTENDS BridgeDedup

CONSTANTS
  UidReadAttempts, UidReadRounds, UidReadDelay,
  ResetReopenAttempts, ResetReopenSettle, ResetReopenDelay

VARIABLE lying  \* pairs the first turn has still to report

\* How long a round that leaves the card unread pauses, with its reset: it is
\* wedged, or all its attempts fail.
ResetPauses ==
  {k * UidReadDelay + ResetReopenSettle + n * ResetReopenDelay :
     k \in {0, UidReadAttempts - 1}, n \in 0..(ResetReopenAttempts - 1)}

\* The pauses of a probe that reads the uid in a given round.
Pauses[round \in 1..UidReadRounds] ==
  IF round = 1
  THEN {(j + k) * UidReadDelay : j, k \in 0..(UidReadAttempts - 1)}
  ELSE {p + q : p \in Pauses[round - 1], q \in ResetPauses}

ProbeTimes == UNION {Pauses[round] : round \in 1..UidReadRounds}

StartupInit == Init /\ lying = Pairs

\* A card that lies there is read, and its insert event is fed.
Report(f, p) ==
  /\ p \in lying /\ lying' = lying \ {p}
  /\ feeder[f] = Resting
  /\ \E d \in ProbeTimes :
       /\ now' = now + d
       /\ feeder' = [feeder EXCEPT ![f] =
                       IF InGrace(now') THEN Resting ELSE Judging(p, now')]
  /\ UNCHANGED <<last, shown, served, cleared>>

Judge(f) == (Suppress(f) \/ Allow(f)) /\ UNCHANGED lying

StartupNext == \E f \in Feeders : Judge(f) \/ \E p \in Pairs : Report(f, p)

StartupSpec == StartupInit /\ [][StartupNext]_<<vars, lying>>

\* "a card left on a reader never serves an HTTP event after a service restart"
\* (bridgeDedup).  It does when its probe outlasts the grace.
LyingSilent == \A p \in Pairs : served[p] = Never
=============================================================================
