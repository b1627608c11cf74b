-------------------------- MODULE BridgeDedupProofs --------------------------
(***************************************************************************)
(* That the dedup filter keeps its promises for any pairs, feeders,        *)
(* window, grace and table size.  The table is an incomplete memory of     *)
(* what was shown: what it holds is right, and what it lost is old or was  *)
(* cleared.                                                                *)
(***************************************************************************)
EXTENDS BridgeDedup, FiniteSetTheorems, TLAPS

\* A feeder judges by a time past the grace that is at most MaxStale old.
Punctual ==
  \A f \in Feeders : feeder[f].state = "judging" =>
    /\ feeder[f].pair \in Pairs /\ feeder[f].at \in Time
    /\ Grace <= feeder[f].at
    /\ feeder[f].at <= now /\ now <= feeder[f].at + MaxStale

\* The table is right about what it holds.
Tracked == \A p \in DOMAIN last : last[p] = shown[p]

\* What it does not hold was not shown for a window, or cleared.
Forgotten ==
  \A p \in Pairs \ DOMAIN last :
    p \notin cleared /\ shown[p] # Never => now - shown[p] >= Window

\* A pair that was served was shown since, or a moment before.
ServedBefore ==
  \A p \in Pairs : served[p] # Never =>
    /\ shown[p] # Never /\ served[p] <= now
    /\ served[p] <= shown[p] + MaxStale

Table == IsFiniteSet(DOMAIN last) /\ TableBounded

IInv == TypeOK /\ Punctual /\ Tracked /\ Forgotten /\ ServedBefore /\ GraceSilent /\ Table

USE DedupAssumption DEF Time, Never

LEMMA InitIInv == Init => IInv
<1> SUFFICES ASSUME Init PROVE IInv
  OBVIOUS
<1> USE DEF Init
<1>1. TypeOK
  BY DEF TypeOK, Resting
<1>2. Punctual /\ Tracked /\ Forgotten /\ ServedBefore /\ GraceSilent
  BY DEF Punctual, Tracked, Forgotten, ServedBefore, GraceSilent, Resting
<1>3. Table
  <2>1. DOMAIN last = {}
    OBVIOUS
  <2> QED
    BY <2>1, FS_EmptySet DEF Table, TableBounded
<1> QED
  BY <1>1, <1>2, <1>3 DEF IInv

\* A pair that is allowed fits into what the table keeps.
LEMMA PrunedFits ==
  ASSUME Table, NEW t \in Time
  PROVE  /\ Pruned(t) \subseteq DOMAIN last
         /\ IsFiniteSet(Pruned(t)) /\ Cardinality(Pruned(t)) < TableMax
<1> DEFINE fresh == {p \in DOMAIN last : t - last[p] < Window}
<1>1. IsFiniteSet(fresh) /\ Cardinality(fresh) \in Nat
  BY FS_Subset, FS_CardinalityType DEF Table
<1>2. IsFiniteSet({}) /\ Cardinality({}) = 0
  BY FS_EmptySet
<1>3. Cardinality(DOMAIN last) \in Nat
  BY FS_CardinalityType DEF Table
<1> QED
  BY <1>1, <1>2, <1>3 DEF Pruned, Table

LEMMA TypeStep == IInv /\ [Next]_vars => TypeOK'
<1> SUFFICES ASSUME IInv, [Next]_vars PROVE TypeOK'
  OBVIOUS
<1> USE DEF IInv
<1>1. CASE Tick
  BY <1>1 DEF Tick, TypeOK
<1>2. ASSUME NEW f \in Feeders, NEW p \in Pairs, Feed(f, p) PROVE TypeOK'
  BY <1>2 DEF Feed, TypeOK
<1>3. ASSUME NEW f \in Feeders, Suppress(f) PROVE TypeOK'
  BY <1>3 DEF Suppress, TypeOK, Punctual, Noted
<1>4. ASSUME NEW f \in Feeders, Allow(f) PROVE TypeOK'
  <2> DEFINE p == feeder[f].pair  t == feeder[f].at
  <2>1. p \in Pairs /\ t \in Time
    BY <1>4 DEF Allow, Punctual
  <2>2. Pruned(t) \subseteq DOMAIN last
    BY <2>1, PrunedFits
  <2>3. DOMAIN last' = Pruned(t) \cup {p}
    BY <1>4 DEF Allow
  <2>4. \A q \in DOMAIN last' : last'[q] \in Time
    BY <1>4, <2>1, <2>2 DEF Allow, TypeOK
  <2>5. cleared' \subseteq Pairs
    BY <1>4 DEF Allow, TypeOK
  <2>6. feeder' \in [Feeders -> {Resting} \cup {Judging(q, s) : q \in Pairs, s \in Time}]
    BY <1>4 DEF Allow, TypeOK
  <2> QED
    BY <1>4, <2>1, <2>2, <2>3, <2>4, <2>5, <2>6 DEF Allow, TypeOK
<1>5. CASE UNCHANGED vars
  BY <1>5 DEF vars, TypeOK
<1> QED
  BY <1>1, <1>2, <1>3, <1>4, <1>5 DEF Next

LEMMA PunctualStep == IInv /\ [Next]_vars => Punctual'
<1> SUFFICES ASSUME IInv, [Next]_vars PROVE Punctual'
  OBVIOUS
<1> USE DEF IInv, Punctual, TypeOK
<1>1. CASE Tick
  BY <1>1 DEF Tick
<1>2. ASSUME NEW f \in Feeders, NEW p \in Pairs, Feed(f, p) PROVE Punctual'
  BY <1>2 DEF Feed, InGrace, Resting, Judging
<1>3. ASSUME NEW f \in Feeders, Suppress(f) \/ Allow(f) PROVE Punctual'
  BY <1>3 DEF Suppress, Allow, Resting
<1>5. CASE UNCHANGED vars
  BY <1>5 DEF vars
<1> QED
  BY <1>1, <1>2, <1>3, <1>5 DEF Next

\* The memory stays right, and what was served stays within it.
LEMMA MemoryStep ==
  IInv /\ [Next]_vars => (Tracked /\ Forgotten /\ ServedBefore /\ GraceSilent)'
<1> SUFFICES ASSUME IInv, [Next]_vars
             PROVE  (Tracked /\ Forgotten /\ ServedBefore /\ GraceSilent)'
  OBVIOUS
<1> USE DEF IInv, TypeOK, Tracked, Forgotten, ServedBefore, GraceSilent
<1>1. CASE Tick
  BY <1>1 DEF Tick
<1>2. ASSUME NEW f \in Feeders, NEW p \in Pairs, Feed(f, p)
      PROVE  (Tracked /\ Forgotten /\ ServedBefore /\ GraceSilent)'
  BY <1>2 DEF Feed
<1>3. ASSUME NEW f \in Feeders, Suppress(f)
      PROVE  (Tracked /\ Forgotten /\ ServedBefore /\ GraceSilent)'
  BY <1>3 DEF Suppress, Recent, Noted, Punctual
<1>4. ASSUME NEW f \in Feeders, Allow(f)
      PROVE  (Tracked /\ Forgotten /\ ServedBefore /\ GraceSilent)'
  <2> DEFINE p == feeder[f].pair  t == feeder[f].at
  <2>1. p \in Pairs /\ t \in Time /\ Grace <= t /\ t <= now /\ now <= t + MaxStale
    BY <1>4 DEF Allow, Punctual
  <2>2. Pruned(t) \subseteq DOMAIN last
    BY <2>1, PrunedFits
  <2>3. now' = now /\ DOMAIN last' = Pruned(t) \cup {p} /\ last'[p] = t
    BY <1>4 DEF Allow
  <2>4. /\ shown' = [shown EXCEPT ![p] = t] /\ served' = [served EXCEPT ![p] = t]
        /\ cleared' = (cleared \cup {q \in DOMAIN last \ Pruned(t) : t - last[q] < Window}) \ {p}
    BY <1>4 DEF Allow
  <2>5. Tracked'
    <3>1. \A q \in Pruned(t) \ {p} : last'[q] = last[q]
      BY <1>4 DEF Allow
    <3> QED
      BY <2>1, <2>2, <2>3, <2>4, <3>1
  <2>6. Forgotten'
    <3> SUFFICES ASSUME NEW q \in Pairs \ DOMAIN last', q \notin cleared', shown'[q] # Never
                 PROVE  now - shown'[q] >= Window
      BY <2>3
    <3>1. q # p /\ q \notin Pruned(t) /\ shown'[q] = shown[q]
      BY <2>1, <2>3, <2>4
    <3>2. CASE q \in DOMAIN last
      BY <2>1, <2>4, <3>1, <3>2
    <3>3. CASE q \notin DOMAIN last
      BY <2>1, <2>4, <3>1, <3>3
    <3> QED
      BY <3>2, <3>3
  <2>7. ServedBefore' /\ GraceSilent'
    BY <2>1, <2>3, <2>4
  <2> QED
    BY <2>5, <2>6, <2>7
<1>5. CASE UNCHANGED vars
  BY <1>5 DEF vars
<1> QED
  BY <1>1, <1>2, <1>3, <1>4, <1>5 DEF Next

LEMMA TableStep == IInv /\ [Next]_vars => Table'
<1> SUFFICES ASSUME IInv, [Next]_vars PROVE Table'
  OBVIOUS
<1>1. ASSUME NEW f \in Feeders, Suppress(f) PROVE Table'
  <2>1. DOMAIN last' = DOMAIN last
    BY <1>1 DEF Suppress, Noted
  <2> QED
    BY <2>1 DEF IInv, Table, TableBounded
<1>2. ASSUME NEW f \in Feeders, Allow(f) PROVE Table'
  <2> DEFINE p == feeder[f].pair  t == feeder[f].at
  <2>1. p \in Pairs /\ t \in Time
    BY <1>2 DEF Allow, Punctual, IInv
  <2>2. IsFiniteSet(Pruned(t)) /\ Cardinality(Pruned(t)) < TableMax
    BY <2>1, PrunedFits DEF IInv
  <2>3. DOMAIN last' = Pruned(t) \cup {p}
    BY <1>2 DEF Allow
  <2>4. /\ IsFiniteSet(Pruned(t) \cup {p})
        /\ \/ Cardinality(Pruned(t) \cup {p}) = Cardinality(Pruned(t))
           \/ Cardinality(Pruned(t) \cup {p}) = Cardinality(Pruned(t)) + 1
    BY <2>2, FS_AddElement
  <2> QED
    BY <2>2, <2>3, <2>4, FS_CardinalityType DEF Table, TableBounded
<1>3. CASE UNCHANGED last
  BY <1>3 DEF IInv, Table, TableBounded
<1> QED
  BY <1>1, <1>2, <1>3 DEF Next, Tick, Feed, vars

LEMMA Invariance == Spec => []IInv
<1>1. IInv /\ [Next]_vars => IInv'
  BY TypeStep, PunctualStep, MemoryStep, TableStep DEF IInv
<1> QED
  BY InitIInv, <1>1, PTL DEF Spec

\* The types of the filter's state.
THEOREM TypeCorrect == Spec => []TypeOK
<1>1. IInv => TypeOK
  BY DEF IInv
<1> QED
  BY Invariance, <1>1, PTL

\* A pair that was not shown for a window is served (allow).
THEOREM QuietPairsAreServed == Spec => []QuietIsServed
<1>1. IInv => QuietIsServed
  BY DEF IInv, TypeOK, Tracked, Punctual, QuietIsServed, Recent
<1> QED
  BY Invariance, <1>1, PTL

\* Nothing is served in the grace (bridgeStartupGrace).
THEOREM GraceIsSilent == Spec => []GraceSilent
<1>1. IInv => GraceSilent
  BY DEF IInv
<1> QED
  BY Invariance, <1>1, PTL

\* The table never holds more than bridgeDedupMax pairs.
THEOREM TableIsBounded == Spec => []TableBounded
<1>1. IInv => TableBounded
  BY DEF IInv, Table
<1> QED
  BY Invariance, <1>1, PTL

\* A lying card is served once however long it keeps presenting (allow).
THEOREM LyingIsServedOnce == Spec => LyingServedOnce
<1>1. ASSUME IInv, [Next]_vars, NEW f \in Feeders, NEW p \in Pairs,
             Serves(f, p), shown[p] # Never, p \notin cleared
      PROVE  feeder[f].at - shown[p] >= Window - MaxStale
  BY <1>1 DEF IInv, TypeOK, Punctual, Tracked, Forgotten, Serves, Allow, Recent
<1>2. IInv /\ [Next]_vars =>
        [\A f \in Feeders, p \in Pairs :
           Serves(f, p) /\ shown[p] # Never /\ p \notin cleared
             => feeder[f].at - shown[p] >= Window - MaxStale]_vars
  BY <1>1
<1> QED
  BY Invariance, <1>2, PTL DEF Spec, LyingServedOnce

\* A pair is served again only a window after it was served, less what the
\* feeders waited (allow).
THEOREM ServingsAreApart == Spec => ServedApart
<1>1. ASSUME IInv, [Next]_vars, NEW f \in Feeders, NEW p \in Pairs,
             Serves(f, p), served[p] # Never, p \notin cleared
      PROVE  feeder[f].at - served[p] >= Window - 2 * MaxStale
  BY <1>1
  DEF IInv, TypeOK, Punctual, Tracked, Forgotten, ServedBefore, Serves, Allow, Recent
<1>2. IInv /\ [Next]_vars =>
        [\A f \in Feeders, p \in Pairs :
           Serves(f, p) /\ served[p] # Never /\ p \notin cleared
             => feeder[f].at - served[p] >= Window - 2 * MaxStale]_vars
  BY <1>1
<1> QED
  BY Invariance, <1>2, PTL DEF Spec, ServedApart
=============================================================================
