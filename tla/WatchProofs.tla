---------------------------- MODULE WatchProofs ----------------------------
(* Theorems about the watch loop, for any readers, cards, ports and bounds. *)
EXTENDS Watch, UnitRegistryProofs

USE WatchAssumption, UnitAssumption

\* The invariant that is inductive: types, what the loop is working on, the
\* registry's agreement (which the types of an adopted identity rest on) and
\* the removals that are owed.
IInv == TypeOK /\ Working /\ PortsDisjoint /\ RemovalOwed

LEMMA ProbedType ==
  ASSUME TypeOK, cur \in Readers
  PROVE  {Nothing} \cup Probed(cur) \subseteq Identity
  BY DEF TypeOK, Probed, Nothing, Identity, Registry

LEMMA TagType ==
  ASSUME NEW c \in Cards, NEW d \in Cards, UidOf[d] # NoUid
  PROVE  Btag(TypeOf[c], UidOf[d]) \in Btags
  BY DEF Btags

LEMMA ObserveType ==
  ASSUME TypeOK, NEW r \in DOMAIN snap, Observe(r)
  PROVE  /\ present' \in [Readers -> Presence]
         /\ counters' \in [Readers -> Nat \cup {Unset}]
  BY DEF TypeOK, Observe, ReaderState, Presence

LEMMA InitIInv == Init => IInv
<1> SUFFICES ASSUME Init PROVE IInv OBVIOUS
<1>1. TypeOK
  BY EmptyRegistryFacts
  DEF Init, TypeOK, NoSnap, NoEvent, Presence, Unset
<1>2. Working /\ RemovalOwed BY DEF Init, Working, RemovalOwed
<1>3. PortsDisjoint BY EmptyRegistryFacts DEF Init, PortsDisjoint
<1> QED BY <1>1, <1>2, <1>3 DEF IInv

LEMMA TypeStep == ASSUME IInv, [Next]_vars PROVE TypeOK'
<1> USE DEF IInv
<1> USE DEF world, service, tracking, scanning, output, Environment
<1>1. CASE World
  <2>1. ASSUME NEW r \in Readers, TakeCard(r) PROVE TypeOK'
    BY <2>1 DEF TakeCard, Move, Bump, NotWorld, TypeOK
  <2>2. ASSUME NEW r \in Readers, Plug(r) PROVE TypeOK'
    BY <2>2 DEF Plug, Move, NotWorld, TypeOK
  <2>3. ASSUME NEW r \in Readers, Unplug(r) PROVE TypeOK'
    BY <2>3 DEF Unplug, Move, NotWorld, TypeOK
  <2>4. ASSUME NEW r \in Readers, NEW c \in Cards, PutCard(r, c) PROVE TypeOK'
    BY <2>4 DEF PutCard, Move, Bump, NotWorld, TypeOK
  <2> QED BY <1>1, <2>1, <2>2, <2>3, <2>4 DEF World
<1>2. CASE Service
  BY <1>2 DEF Service, DaemonStop, DaemonStart, DaemonMute, ConnectionLost,
              Fault, Lose, TypeOK
<1>3. CASE Cancel \/ CloseOnCancel
  BY <1>3 DEF Cancel, CloseOnCancel, TypeOK
<1>4. CASE Receive BY <1>4 DEF Receive, TypeOK
<1>5. CASE Loop
  <2>1. CASE StartSession
    BY <2>1, EmptyRegistryFacts DEF StartSession, TypeOK, Unset
  <2>2. CASE GetStates BY <2>2 DEF GetStates, TypeOK, ReaderState
  <2>3. CASE StatesFail BY <2>3 DEF StatesFail, TypeOK
  <2>4. CASE Probe
    <3> PICK uid \in {UidOf[c] : c \in Cards} \cup {NoUid},
             fresh \in {Nothing} \cup Probed(cur) :
               /\ ReadUid(cur, uid)
               /\ fresh = Nothing \/ conn = "open"
               /\ units' = Adopt(units, cur, fresh)
               /\ IF uid = NoUid
                  THEN /\ Observe(cur) /\ pc' = "scan" /\ cur' = Nobody
                       /\ UNCHANGED pending
                  ELSE /\ pending' = Insert(cur, Btag(TypeOf[snap[cur].card], uid),
                                            units'.facts[cur])
                       /\ pc' = "emit" /\ UNCHANGED <<cur, present, counters>>
      BY <2>4 DEF Probe
    <3>1. cur \in DOMAIN snap /\ InReader(cur) BY <2>4 DEF Probe, Working
    <3>2. cur \in Readers BY <3>1 DEF TypeOK
    <3>3. units' \in Registry
      BY <3>2, ProbedType, AdoptType DEF TypeOK, PortsDisjoint
    <3>4. CASE uid = NoUid
      BY <2>4, <3>1, <3>3, <3>4, ObserveType DEF Probe, TypeOK
    <3>5. CASE uid # NoUid
      <4>1. snap[cur].card \in Cards
        BY <3>1 DEF InReader, TypeOK, ReaderState
      <4>2. card[cur] \in Cards /\ uid = UidOf[card[cur]]
        BY <3>2, <3>5 DEF ReadUid, TypeOK
      <4>3. Btag(TypeOf[snap[cur].card], uid) \in Btags
        BY <3>5, <4>1, <4>2, TagType
      <4>4. units'.facts[cur] \in Identity BY <3>2, <3>3 DEF Registry
      <4>5. pending' \in Events
        BY <3>2, <3>5, <4>3, <4>4 DEF Insert, Events
      <4> QED BY <2>4, <3>3, <3>5, <4>5 DEF Probe, TypeOK
    <3> QED BY <3>4, <3>5
  <2>5. CASE Emit
    <3>1. cur \in Readers /\ pending \in Events BY <2>5 DEF Emit, Working
    <3>2. /\ ch' \in Seq(Events)
          /\ said' \in [Readers -> Btags \cup {Nobody}]
      BY <2>5, <3>1 DEF Emit, TypeOK, Events
    <3>3. reported' \subseteq Readers \X Nat
      BY <2>5, <3>1 DEF Emit, TypeOK, Working, ReaderState
    <3>4. /\ present' \in [Readers -> Presence]
          /\ counters' \in [Readers -> Nat \cup {Unset}]
          /\ pc' \in {"scan", "gone"}
      BY <2>5, ObserveType DEF Emit, TypeOK
    <3> QED BY <2>5, <3>2, <3>3, <3>4 DEF Emit, TypeOK, NoEvent
  <2>6. CASE EmitCancelled BY <2>6 DEF EmitCancelled, TypeOK
  <2>7. CASE ScanDone \/ TurnDone \/ WaitStops
    BY <2>7 DEF ScanDone, TurnDone, WaitStops, TypeOK
  <2>8. CASE NextTurn BY <2>8 DEF NextTurn, TypeOK, NoSnap
  <2>9. CASE PollReturns BY <2>9 DEF PollReturns, TypeOK, NoSnap
  <2>10. CASE BackoffElapsed \/ BackoffCancelled
    BY <2>10 DEF BackoffElapsed, BackoffCancelled, TypeOK
  <2>11. CASE Dial BY <2>11 DEF Dial, TypeOK
  <2>12. ASSUME NEW r \in Readers, SeeNewCard(r) PROVE TypeOK'
    BY <2>12 DEF SeeNewCard, TypeOK
  <2>13. ASSUME NEW r \in Readers, SeeNoChange(r) PROVE TypeOK'
    <3>1. r \in DOMAIN snap BY <2>13 DEF SeeNoChange, TypeOK
    <3> QED BY <2>13, <3>1, ObserveType DEF SeeNoChange, TypeOK
  <2>14. ASSUME NEW r \in Readers, SeeRemoval(r) PROVE TypeOK'
    BY <2>14 DEF SeeRemoval, TypeOK, Remove, Events, Nothing, Identity
  <2>15. ASSUME NEW r \in Readers, DropReader(r) PROVE TypeOK'
    <3>1. units' \in Registry
      BY <2>15, ForgetType DEF DropReader, TypeOK, PortsDisjoint
    <3>2. cur' \in Readers \cup {Nobody} /\ pending' \in Events \cup {NoEvent}
      BY <2>15 DEF DropReader, TypeOK, Remove, Events, Nothing, Identity
    <3> QED BY <2>15, <3>1, <3>2 DEF DropReader, TypeOK, Presence, Unset
  <2> QED BY <1>5, <2>1, <2>2, <2>3, <2>4, <2>5, <2>6, <2>7, <2>8, <2>9, <2>10,
             <2>11, <2>12, <2>13, <2>14, <2>15 DEF Loop
<1>6. CASE Over \/ UNCHANGED vars BY <1>6 DEF Over, vars, TypeOK
<1> QED BY <1>1, <1>2, <1>3, <1>4, <1>5, <1>6 DEF Next

LEMMA WorkingStep == ASSUME IInv, [Next]_vars PROVE Working'
<1> USE DEF IInv
<1> USE DEF world, service, tracking, scanning, output, Environment
<1>1. CASE World \/ Service \/ Cancel \/ CloseOnCancel \/ Receive
  <2>1. UNCHANGED <<pc, snap, cur, pending>>
    BY <1>1 DEF World, PutCard, TakeCard, Plug, Unplug, NotWorld, Service, DaemonStop,
                DaemonStart, DaemonMute, ConnectionLost, Cancel, CloseOnCancel, Receive
  <2> QED BY <2>1 DEF Working, InReader
<1>2. CASE Loop
  <2>1. CASE Probe
    <3>1. /\ cur \in DOMAIN snap /\ InReader(cur) /\ UNCHANGED snap
          /\ \/ pc' = "scan"
             \/ /\ pc' = "emit" /\ cur' = cur
                /\ \E btag, id : pending' = Insert(cur, btag, id)
      BY <2>1 DEF Probe, Working
    <3>2. pc' = "emit" => pending' \in Events
      <4>1. TypeOK' BY TypeStep
      <4> QED BY <3>1, <4>1 DEF TypeOK, NoEvent, Insert
    <3>3. CASE pc' = "scan" BY <3>3 DEF Working
    <3>4. CASE pc' = "emit"
      BY <3>1, <3>2, <3>4 DEF Working, InReader, Insert, TypeOK
    <3> QED BY <3>1, <3>3, <3>4
  <2>2. ASSUME NEW r \in Readers, SeeNewCard(r) PROVE Working'
    BY <2>2 DEF SeeNewCard, Working, InReader, TypeOK
  <2>3. ASSUME NEW r \in Readers, SeeRemoval(r) PROVE Working'
    BY <2>3 DEF SeeRemoval, Working, Remove, Events, Nothing, Identity
  <2>4. ASSUME NEW r \in Readers, DropReader(r) PROVE Working'
    BY <2>4 DEF DropReader, Working, Remove, Events, Nothing, Identity
  <2>5. ASSUME NEW r \in Readers, SeeNoChange(r) PROVE Working'
    BY <2>5 DEF SeeNoChange, Working
  <2>6. CASE StartSession \/ GetStates \/ StatesFail \/ Emit \/ EmitCancelled
             \/ ScanDone \/ TurnDone \/ NextTurn \/ WaitStops \/ PollReturns
             \/ BackoffElapsed \/ BackoffCancelled \/ Dial
    <3>1. pc' \notin {"probe", "emit"}
      BY <2>6 DEF StartSession, GetStates, StatesFail, Emit, EmitCancelled, ScanDone,
                  TurnDone, NextTurn, WaitStops, PollReturns, BackoffElapsed,
                  BackoffCancelled, Dial
    <3> QED BY <3>1 DEF Working
  <2> QED BY <1>2, <2>1, <2>2, <2>3, <2>4, <2>5, <2>6 DEF Loop
<1>3. CASE Over \/ UNCHANGED vars BY <1>3 DEF Over, vars, Working, InReader
<1> QED BY <1>1, <1>2, <1>3 DEF Next

\* Only three steps touch the registry.
LEMMA UnitsStep ==
  ASSUME IInv, [Next]_vars
  PROVE  \/ pc = "session" /\ units' = EmptyRegistry
         \/ /\ cur \in Readers
            /\ \E fresh \in {Nothing} \cup Probed(cur) : units' = Adopt(units, cur, fresh)
         \/ \E r \in Vanished : pc = "gone" /\ units' = Forget(units, r)
         \/ units' = units
<1> USE DEF IInv
<1> USE DEF world, service, tracking, scanning, output, Environment
<1>1. CASE Probe
  <2>1. cur \in Readers BY <1>1 DEF Probe, Working, TypeOK
  <2> QED BY <1>1, <2>1 DEF Probe
<1>2. ASSUME NEW r \in Readers, DropReader(r)
      PROVE  \E q \in Vanished : pc = "gone" /\ units' = Forget(units, q)
  BY <1>2 DEF DropReader
<1>3. CASE StartSession BY <1>3 DEF StartSession
<1>4. CASE \/ World \/ Service \/ Cancel \/ CloseOnCancel \/ Receive
           \/ Over \/ UNCHANGED vars
  BY <1>4 DEF World, PutCard, TakeCard, Plug, Unplug, NotWorld, Service, DaemonStop,
              DaemonStart, DaemonMute, ConnectionLost, Cancel, CloseOnCancel, Receive,
              Over, vars
<1>5. CASE GetStates \/ StatesFail \/ Emit \/ EmitCancelled \/ ScanDone \/ TurnDone
           \/ NextTurn \/ WaitStops \/ PollReturns \/ BackoffElapsed
           \/ BackoffCancelled \/ Dial
  BY <1>5 DEF GetStates, StatesFail, Emit, EmitCancelled, ScanDone, TurnDone, NextTurn,
              WaitStops, PollReturns, BackoffElapsed, BackoffCancelled, Dial
<1>6. ASSUME NEW r \in Readers, SeeNewCard(r) \/ SeeNoChange(r) \/ SeeRemoval(r)
      PROVE  units' = units
  BY <1>6 DEF SeeNewCard, SeeNoChange, SeeRemoval
<1> QED BY <1>1, <1>2, <1>3, <1>4, <1>5, <1>6 DEF Next, Loop

LEMMA PortsStep == ASSUME IInv, [Next]_vars PROVE PortsDisjoint'
<1> USE DEF IInv, PortsDisjoint
<1>1. units \in Registry BY DEF TypeOK
<1>2. CASE units' = EmptyRegistry BY <1>2, EmptyRegistryFacts
<1>3. ASSUME cur \in Readers,
             NEW fresh \in {Nothing} \cup Probed(cur), units' = Adopt(units, cur, fresh)
      PROVE  PortsDisjoint'
  <2>1. fresh \in Identity BY <1>3, ProbedType
  <2> QED BY <1>1, <1>3, <2>1, AdoptAgrees
<1>4. ASSUME NEW r \in Vanished, units' = Forget(units, r) PROVE PortsDisjoint'
  <2>1. r \in Readers BY DEF Vanished
  <2> QED BY <1>1, <1>4, <2>1, ForgetAgrees
<1>5. CASE units' = units BY <1>5
<1> QED BY <1>2, <1>3, <1>4, <1>5, UnitsStep

LEMMA OwedStep == ASSUME IInv, [Next]_vars PROVE RemovalOwed'
<1> USE DEF IInv
<1> USE DEF world, service, tracking, scanning, output, Environment
<1>1. CASE World \/ Service \/ Cancel \/ CloseOnCancel \/ Receive
  <2>1. UNCHANGED <<pc, cur, pending, present, said>> /\ (ctx' = "live" => ctx = "live")
    BY <1>1 DEF World, PutCard, TakeCard, Plug, Unplug, NotWorld, Service, DaemonStop,
                DaemonStart, DaemonMute, ConnectionLost, Cancel, CloseOnCancel, Receive
  <2> QED BY <2>1 DEF RemovalOwed
<1>2. CASE Over \/ UNCHANGED vars BY <1>2 DEF Over, vars, RemovalOwed
<1>3. CASE StartSession \/ GetStates \/ StatesFail \/ ScanDone \/ TurnDone \/ NextTurn
           \/ WaitStops \/ PollReturns \/ BackoffElapsed \/ BackoffCancelled \/ Dial
  <2>1. UNCHANGED <<ctx, present, said>> /\ pc # "emit"
    BY <1>3 DEF StartSession, GetStates, StatesFail, ScanDone, TurnDone, NextTurn,
                WaitStops, PollReturns, BackoffElapsed, BackoffCancelled, Dial
  <2> QED BY <2>1 DEF RemovalOwed
<1>4. CASE Probe
  <2>1. cur \in DOMAIN snap /\ InReader(cur) BY <1>4 DEF Probe, Working
  <2>2. /\ UNCHANGED <<ctx, said>> /\ pc # "emit"
        /\ \/ UNCHANGED present
           \/ present' = [present EXCEPT ![cur] = "present"]
    BY <1>4, <2>1 DEF Probe, Observe
  <2> QED BY <2>2 DEF RemovalOwed, TypeOK
<1>5. CASE Emit
  <2>1. /\ cur \in Readers /\ pending \in Events /\ ctx' = ctx /\ pc = "emit"
        /\ said' = [said EXCEPT ![cur] = pending.btag]
    BY <1>5 DEF Emit, Working
  <2>2. ASSUME NEW r \in Readers, r # cur
        PROVE  present'[r] = present[r] /\ said'[r] = said[r]
    BY <1>5, <2>1, <2>2 DEF Emit, Observe, TypeOK
  <2>3. CASE pending.kind = "remove"
    <3>1. said'[cur] = Nobody BY <1>5, <2>1, <2>3 DEF Working, TypeOK
    <3> QED BY <2>1, <2>2, <3>1 DEF RemovalOwed
  <2>4. CASE pending.kind = "insert"
    <3>1. present'[cur] = "present"
      BY <1>5, <2>1, <2>4 DEF Emit, Working, Observe, TypeOK
    <3> QED BY <2>1, <2>2, <3>1 DEF RemovalOwed
  <2> QED BY <2>1, <2>3, <2>4 DEF Events
<1>6. CASE EmitCancelled BY <1>6 DEF EmitCancelled, RemovalOwed
<1>7. ASSUME NEW r \in Readers, SeeNewCard(r) PROVE RemovalOwed'
  BY <1>7 DEF SeeNewCard, RemovalOwed
<1>8. ASSUME NEW r \in Readers, SeeNoChange(r) PROVE RemovalOwed'
  BY <1>8 DEF SeeNoChange, Observe, RemovalOwed, TypeOK
<1>9. ASSUME NEW r \in Readers, SeeRemoval(r) PROVE RemovalOwed'
  BY <1>9 DEF SeeRemoval, RemovalOwed
<1>10. ASSUME NEW r \in Readers, DropReader(r) PROVE RemovalOwed'
  BY <1>10 DEF DropReader, RemovalOwed, Remove, TypeOK
<1> QED BY <1>1, <1>2, <1>3, <1>4, <1>5, <1>6, <1>7, <1>8, <1>9, <1>10 DEF Next, Loop

LEMMA Invariance == Spec => []IInv
<1>1. IInv /\ [Next]_vars => IInv'
  BY TypeStep, WorkingStep, PortsStep, OwedStep DEF IInv
<1> QED BY InitIInv, <1>1, PTL DEF Spec

\* The state of the watch loop keeps its types, whatever the environment does.
THEOREM TypeCorrect == Spec => []TypeOK
  BY Invariance, PTL DEF IInv

\* No interleaving of polls, probes, lost connections, restarts and vanishing
\* readers makes the loop forget a removal that it owes.
THEOREM RemovalsAreOwed == Spec => []RemovalOwed
  BY Invariance, PTL DEF IInv

\* Readers of a session never share a port, for any number of readers and
\* ports and any answers of the probes.
THEOREM PortsAreDisjoint == Spec => []PortsDisjoint
  BY Invariance, PTL DEF IInv

\* The identity of a reader does not flip while the reader stays.
THEOREM IdentitiesAreStable == Spec => IdentityStable
<1>1. ASSUME IInv, [Next]_vars, NEW r \in Readers, Known(units.facts[r]),
             units'.facts[r] # units.facts[r]
      PROVE  pc = "session" \/ (pc = "gone" /\ r \in Vanished)
  <2> USE DEF IInv
  <2>1. units \in Registry /\ Agreement(units) BY <1>1 DEF TypeOK, PortsDisjoint
  <2>2. ASSUME cur \in Readers, NEW fresh \in {Nothing} \cup Probed(cur)
        PROVE  units' # Adopt(units, cur, fresh)
    <3>1. fresh \in Identity BY <1>1, <2>2, ProbedType
    <3>2. CASE r = cur
      <4>1. fresh \in {Nothing, units.facts[r]} BY <1>1, <3>2 DEF Probed
      <4> QED BY <1>1, <2>1, <3>2, <4>1, AdoptStable
    <3>3. CASE r # cur BY <1>1, <2>1, <2>2, <3>1, <3>3, AdoptOthers
    <3> QED BY <3>2, <3>3
  <2>3. ASSUME NEW q \in Vanished, units' = Forget(units, q) PROVE r = q
    BY <1>1, <2>1, <2>3, ForgetOthers DEF Vanished
  <2> QED BY <1>1, <2>2, <2>3, UnitsStep
<1>2. IInv /\ [Next]_vars =>
        [\A r \in Readers :
           Known(units.facts[r]) /\ units'.facts[r] # units.facts[r]
             => pc = "session" \/ (pc = "gone" /\ r \in Vanished)]_vars
  BY <1>1
<1> QED BY Invariance, <1>2, PTL DEF Spec, IdentityStable

-----------------------------------------------------------------------------
(* A presentation is reported once.  The invariant relates the daemon's    *)
(* account of a reader, the snapshot of it that is being worked on and     *)
(* what the loop remembers.                                                *)

\* Presentations are numbered upwards; none is reported before it is made.
Numbered ==
  \A r \in Readers : pid[r] <= moves /\ \A x \in reported : x[1] = r => x[2] <= pid[r]

\* A card that is there and was reported is remembered, with the counter the
\* daemon has for it or with none.
Remembered ==
  \A r \in Readers :
    <<r, pid[r]>> \in reported /\ r \in registered /\ card[r] # NoCard
      => /\ present[r] = "present"
         /\ conn = "open" /\ pc # "session" => counters[r] \in {Unset, counter[r]}

\* A snapshot entry that is not outdated tells the truth, an outdated one says
\* that the presentation of now was not reported.
SnapFaithful ==
  \A r \in DOMAIN snap :
    /\ snap[r].pid <= pid[r]
    /\ \A x \in reported : x[1] = r => x[2] <= snap[r].pid
    /\ snap[r].pid = pid[r] /\ card[r] # NoCard =>
         /\ snap[r].card = card[r]
         /\ r \in registered /\ conn = "open" => snap[r].counter = counter[r]

\* A reader that was plugged in after the snapshot holds nothing reported.
PluggedSince ==
  pc \in {"scan", "probe", "emit", "gone"} =>
    \A r \in registered \ DOMAIN snap : <<r, pid[r]>> \notin reported

\* The readers still to be scanned, and the one being reported.
ScanFresh ==
  /\ \A r \in todo :
       snap[r].card # NoCard /\ <<r, snap[r].pid>> \in reported
         => present[r] = "present" /\ counters[r] \in {Unset, snap[r].counter}
  /\ pc \in {"probe", "emit"} => cur \notin todo
  /\ pc = "probe" \/ (pc = "emit" /\ pending.kind = "insert")
       => <<cur, snap[cur].pid>> \notin reported

Disconnected ==
  /\ daemon = "down" => conn # "open"
  /\ pc \in {"session", "backoff", "dial"} => DOMAIN snap = {}

OnceInv == Numbered /\ Remembered /\ SnapFaithful /\ PluggedSince /\ ScanFresh /\ Disconnected

LEMMA InitOnce == Init => OnceInv
  BY DEF Init, OnceInv, Numbered, Remembered, SnapFaithful, PluggedSince, ScanFresh,
         Disconnected, NoSnap, NoEvent

LEMMA ReportedBelow ==
  ASSUME TypeOK, OnceInv, NEW r \in Readers, NEW q \in Nat, <<r, q>> \in reported
  PROVE  /\ q <= pid[r] /\ q <= moves
         /\ r \in DOMAIN snap => q <= snap[r].pid
<1> DEFINE x == <<r, q>>
<1>1. x \in reported /\ x[1] = r /\ x[2] = q OBVIOUS
<1>2. q <= pid[r] /\ pid[r] <= moves BY <1>1 DEF OnceInv, Numbered
<1>3. r \in DOMAIN snap => q <= snap[r].pid BY <1>1 DEF OnceInv, SnapFaithful
<1> QED BY <1>2, <1>3 DEF TypeOK

LEMMA NextUnreported ==
  ASSUME TypeOK, OnceInv, NEW r \in Readers
  PROVE  <<r, moves + 1>> \notin reported
  BY ReportedBelow DEF TypeOK

\* What people do: a new presentation gets a number that nothing mentions.
LEMMA WorldOnce == ASSUME IInv, OnceInv, World PROVE OnceInv'
<1> USE DEF IInv, OnceInv, NotWorld, Move
<1> USE DEF world, service, tracking, scanning, output
<1>1. ASSUME NEW r \in Readers, NEW c \in Cards, PutCard(r, c) PROVE OnceInv'
  <2>1. /\ pid' = [pid EXCEPT ![r] = moves + 1] /\ moves' = moves + 1
        /\ card' = [card EXCEPT ![r] = c]
        /\ \A q \in Readers \ {r} : counter'[q] = counter[q]
        /\ UNCHANGED <<registered, daemon, conn, pc, snap, todo, cur, pending,
                       present, counters, reported>>
    BY <1>1 DEF PutCard, Bump, TypeOK
  <2>2. Numbered' BY <2>1 DEF Numbered, TypeOK
  <2>3. Remembered' BY <2>1, NextUnreported DEF Remembered, TypeOK
  <2>4. SnapFaithful' BY <2>1 DEF SnapFaithful, Numbered, TypeOK, ReaderState
  <2>5. PluggedSince' BY <2>1, NextUnreported DEF PluggedSince, TypeOK
  <2>6. ScanFresh' /\ Disconnected' BY <2>1 DEF ScanFresh, Disconnected
  <2> QED BY <2>2, <2>3, <2>4, <2>5, <2>6
<1>2. ASSUME NEW r \in Readers, TakeCard(r) PROVE OnceInv'
  <2>1. /\ moves' = moves + 1 /\ card' = [card EXCEPT ![r] = NoCard]
        /\ \A q \in Readers \ {r} : counter'[q] = counter[q]
        /\ UNCHANGED <<registered, pid, daemon, conn, pc, snap, todo, cur, pending,
                       present, counters, reported>>
    BY <1>2 DEF TakeCard, Bump, TypeOK
  <2>2. Numbered' BY <2>1 DEF Numbered, TypeOK
  <2>3. Remembered' BY <2>1 DEF Remembered, TypeOK
  <2>4. SnapFaithful' BY <2>1 DEF SnapFaithful, TypeOK
  <2>5. PluggedSince' /\ ScanFresh' /\ Disconnected'
    BY <2>1 DEF PluggedSince, ScanFresh, Disconnected
  <2> QED BY <2>2, <2>3, <2>4, <2>5
<1>3. ASSUME NEW r \in Readers, Plug(r) PROVE OnceInv'
  <2>1. /\ pid' = [pid EXCEPT ![r] = moves + 1] /\ moves' = moves + 1
        /\ registered' = registered \cup {r}
        /\ \A q \in Readers \ {r} : counter'[q] = counter[q]
        /\ UNCHANGED <<card, daemon, conn, pc, snap, todo, cur, pending,
                       present, counters, reported>>
    BY <1>3 DEF Plug, TypeOK
  <2>2. Numbered' BY <2>1 DEF Numbered, TypeOK
  <2>3. Remembered' BY <2>1, NextUnreported DEF Remembered, TypeOK
  <2>4. SnapFaithful' BY <2>1 DEF SnapFaithful, Numbered, TypeOK, ReaderState
  <2>5. PluggedSince' BY <2>1, NextUnreported DEF PluggedSince, TypeOK
  <2>6. ScanFresh' /\ Disconnected' BY <2>1 DEF ScanFresh, Disconnected
  <2> QED BY <2>2, <2>3, <2>4, <2>5, <2>6
<1>4. ASSUME NEW r \in Readers, Unplug(r) PROVE OnceInv'
  <2>1. /\ moves' = moves + 1 /\ registered' = registered \ {r}
        /\ UNCHANGED <<card, pid, counter, daemon, conn, pc, snap, todo, cur, pending,
                       present, counters, reported>>
    BY <1>4 DEF Unplug
  <2>2. Numbered' BY <2>1 DEF Numbered, TypeOK
  <2>3. Remembered' BY <2>1 DEF Remembered
  <2>4. SnapFaithful' BY <2>1 DEF SnapFaithful
  <2>5. PluggedSince' /\ ScanFresh' /\ Disconnected'
    BY <2>1 DEF PluggedSince, ScanFresh, Disconnected
  <2> QED BY <2>2, <2>3, <2>4, <2>5
<1> QED BY <1>1, <1>2, <1>3, <1>4 DEF World

\* The daemon's counters may start over, but then no connection is open.
LEMMA ServiceOnce ==
  ASSUME IInv, OnceInv,
         Service \/ Cancel \/ CloseOnCancel \/ Receive \/ Over \/ UNCHANGED vars
  PROVE  OnceInv'
<1> USE DEF IInv, OnceInv
<1> USE DEF world, service, tracking, scanning, output
<1>1. UNCHANGED <<registered, card, pid, moves, pc, snap, todo, cur, pending,
                  present, counters, reported>>
  BY DEF Service, DaemonStop, DaemonStart, DaemonMute, ConnectionLost, Cancel,
         CloseOnCancel, Receive, Over, vars
<1>2. /\ conn' = "open" => conn = "open" /\ counter' = counter
      /\ daemon' = "down" => conn' # "open"
  BY DEF Service, DaemonStop, DaemonStart, DaemonMute, ConnectionLost, Lose, Cancel,
         CloseOnCancel, Receive, Over, vars, Disconnected
<1>3. Numbered' /\ PluggedSince' BY <1>1 DEF Numbered, PluggedSince
<1>4. Remembered' BY <1>1, <1>2 DEF Remembered
<1>5. SnapFaithful' BY <1>1, <1>2 DEF SnapFaithful
<1>6. ScanFresh' /\ Disconnected' BY <1>1, <1>2 DEF ScanFresh, Disconnected
<1> QED BY <1>3, <1>4, <1>5, <1>6

\* What the loop does.  Remembering a reader from a faithful snapshot keeps
\* what is remembered true.
LEMMA ObserveOnce ==
  ASSUME IInv, OnceInv, NEW r \in DOMAIN snap, Observe(r), pc # "session",
         UNCHANGED <<registered, card, pid, counter, conn, snap>>, pc' # "session",
         \/ reported' = reported
         \/ InReader(r) /\ reported' = reported \cup {<<r, snap[r].pid>>}
  PROVE  Remembered'
<1> USE DEF IInv, OnceInv
<1> SUFFICES ASSUME NEW q \in Readers,
                    <<q, pid[q]>> \in reported', q \in registered, card[q] # NoCard
             PROVE  /\ present'[q] = "present"
                    /\ conn = "open" => counters'[q] \in {Unset, counter[q]}
  BY DEF Remembered
<1>1. CASE q # r BY <1>1 DEF Observe, Remembered, TypeOK
<1>2. CASE q = r
  <2>1. snap[r].pid = pid[r]
    <3>1. snap[r].pid \in Nat /\ pid[r] \in Nat /\ snap[r].pid <= pid[r]
      BY <1>2 DEF SnapFaithful, TypeOK, ReaderState
    <3>2. CASE <<r, pid[r]>> \in reported BY <1>2, <3>1, <3>2, ReportedBelow
    <3>3. CASE <<r, pid[r]>> \notin reported BY <1>2, <3>3
    <3> QED BY <3>2, <3>3
  <2>2. InReader(r) /\ (conn = "open" => snap[r].counter = counter[r])
    BY <1>2, <2>1 DEF SnapFaithful, InReader
  <2> QED BY <1>2, <2>2 DEF Observe, TypeOK
<1> QED BY <1>1, <1>2

LEMMA LoopOnce == ASSUME IInv, OnceInv, Loop PROVE OnceInv'
<1> USE DEF IInv, OnceInv
<1> USE DEF world, service, tracking, scanning, output, Environment
<1>1. CASE StartSession
  BY <1>1 DEF StartSession, Numbered, Remembered, SnapFaithful, PluggedSince, ScanFresh,
              Disconnected, TypeOK
<1>2. CASE GetStates
  <2>1. /\ conn = "open" /\ pc = "states" /\ pc' = "scan" /\ todo' = registered
        /\ DOMAIN snap' = registered
        /\ \A r \in registered :
             snap'[r] = [card |-> card[r], pid |-> pid[r], counter |-> counter[r]]
        /\ UNCHANGED <<registered, card, pid, counter, moves, daemon, conn, cur, pending,
                       present, counters, reported>>
    BY <1>2 DEF GetStates
  <2>2. Numbered' /\ Remembered' BY <2>1 DEF Numbered, Remembered
  <2>3. SnapFaithful' BY <2>1 DEF SnapFaithful, Numbered, TypeOK
  <2>4. PluggedSince' /\ Disconnected' BY <2>1 DEF PluggedSince, Disconnected
  <2>5. ScanFresh' BY <2>1 DEF ScanFresh, Remembered, TypeOK
  <2> QED BY <2>2, <2>3, <2>4, <2>5
<1>3. CASE StatesFail \/ ScanDone \/ TurnDone \/ WaitStops \/ EmitCancelled
           \/ BackoffElapsed \/ BackoffCancelled
  <2>1. /\ UNCHANGED <<registered, card, pid, counter, moves, daemon, conn, snap, todo,
                       present, counters, reported>>
        /\ pc # "session" /\ pc' \notin {"session", "probe", "emit"}
        /\ pc' \in {"backoff", "dial"} => pc \in {"backoff", "dial"}
        /\ pc' \in {"scan", "gone"} => pc = "scan"
    BY <1>3 DEF StatesFail, ScanDone, TurnDone, WaitStops, EmitCancelled,
                BackoffElapsed, BackoffCancelled
  <2>2. Numbered' /\ Remembered' /\ SnapFaithful'
    BY <2>1 DEF Numbered, Remembered, SnapFaithful
  <2>3. PluggedSince' /\ ScanFresh' /\ Disconnected'
    BY <2>1 DEF PluggedSince, ScanFresh, Disconnected
  <2> QED BY <2>2, <2>3
<1>4. CASE NextTurn \/ PollReturns
  <2>1. /\ UNCHANGED <<registered, card, pid, counter, moves, daemon,
                       present, counters, reported>>
        /\ DOMAIN snap' = {} /\ todo' = {} /\ conn' \in {conn, "closed"}
        /\ pc # "session" /\ pc' \in {"states", "done", "backoff"}
    BY <1>4 DEF NextTurn, PollReturns, NoSnap
  <2>2. Numbered' /\ Remembered' BY <2>1 DEF Numbered, Remembered
  <2>3. SnapFaithful' /\ PluggedSince' BY <2>1 DEF SnapFaithful, PluggedSince
  <2>4. ScanFresh' /\ Disconnected' BY <2>1 DEF ScanFresh, Disconnected
  <2> QED BY <2>2, <2>3, <2>4
<1>5. CASE Dial
  <2>1. /\ UNCHANGED <<registered, card, pid, counter, moves, daemon, snap, todo,
                       present, counters, reported>>
        /\ pc = "dial" /\ DOMAIN snap = {}
        /\ \/ pc' = "session" /\ daemon = "up"
           \/ pc' = "backoff" /\ conn' = conn
    BY <1>5 DEF Dial, Disconnected
  <2> QED BY <2>1 DEF Numbered, Remembered, SnapFaithful, PluggedSince, ScanFresh,
                      Disconnected, TypeOK
<1>6. CASE Probe
  <2>1. /\ cur \in DOMAIN snap /\ cur \notin todo /\ pc = "probe"
        /\ <<cur, snap[cur].pid>> \notin reported
    BY <1>6 DEF Probe, Working, ScanFresh
  <2>2. /\ UNCHANGED <<registered, card, pid, counter, moves, daemon, conn, snap, todo,
                       reported>>
        /\ \/ pc' = "scan" /\ Observe(cur)
           \/ pc' = "emit" /\ UNCHANGED <<cur, present, counters>>
    BY <1>6 DEF Probe
  <2>3. Remembered'
    <3>1. CASE pc' = "scan" BY <2>1, <2>2, <3>1, ObserveOnce
    <3>2. CASE pc' = "emit" BY <2>1, <2>2, <3>2 DEF Remembered
    <3> QED BY <2>2, <3>1, <3>2
  <2>4. Numbered' /\ SnapFaithful' /\ PluggedSince' /\ Disconnected'
    BY <2>1, <2>2 DEF Numbered, SnapFaithful, PluggedSince, Disconnected
  <2>5. ScanFresh' BY <2>1, <2>2 DEF ScanFresh, Observe, TypeOK
  <2> QED BY <2>3, <2>4, <2>5
<1>7. CASE Emit
  <2>1. /\ cur \in Readers /\ pending.kind \in {"insert", "remove"} /\ cur \notin todo
        /\ pending.kind = "insert" => cur \in DOMAIN snap /\ InReader(cur)
    BY <1>7 DEF Emit, Working, ScanFresh, Events
  <2>2. /\ UNCHANGED <<registered, card, pid, counter, moves, daemon, conn, snap, todo>>
        /\ pc = "emit"
        /\ \/ cur \in DOMAIN snap /\ Observe(cur) /\ pc' = "scan"
           \/ cur \notin DOMAIN snap /\ UNCHANGED <<present, counters>> /\ pc' = "gone"
        /\ \/ reported' = reported
           \/ /\ cur \in DOMAIN snap /\ InReader(cur)
              /\ reported' = reported \cup {<<cur, snap[cur].pid>>}
    BY <1>7, <2>1 DEF Emit
  <2>3. Remembered'
    <3>1. CASE cur \in DOMAIN snap BY <2>2, <3>1, ObserveOnce
    <3>2. CASE cur \notin DOMAIN snap BY <2>2, <3>2 DEF Remembered
    <3> QED BY <3>1, <3>2
  <2>4. Numbered' BY <2>2 DEF Numbered, SnapFaithful
  <2>5. SnapFaithful' BY <2>2 DEF SnapFaithful, TypeOK, ReaderState
  <2>6. PluggedSince' /\ Disconnected' BY <2>2 DEF PluggedSince, Disconnected
  <2>7. ScanFresh' BY <2>1, <2>2 DEF ScanFresh, Observe, TypeOK
  <2> QED BY <2>3, <2>4, <2>5, <2>6, <2>7
<1>8. ASSUME NEW r \in Readers, SeeNewCard(r) PROVE OnceInv'
  <2>1. /\ UNCHANGED <<registered, card, pid, counter, moves, daemon, conn, snap, pending,
                       present, counters, reported>>
        /\ pc = "scan" /\ pc' = "probe" /\ r \in todo /\ todo' = todo \ {r} /\ cur' = r
        /\ snap[r].card # NoCard /\ LooksNew(r)
    BY <1>8 DEF SeeNewCard, InReader
  <2>2. <<r, snap[r].pid>> \notin reported BY <2>1 DEF ScanFresh, LooksNew
  <2>3. Numbered' /\ Remembered' /\ SnapFaithful'
    BY <2>1 DEF Numbered, Remembered, SnapFaithful
  <2>4. PluggedSince' /\ ScanFresh' /\ Disconnected'
    BY <2>1, <2>2 DEF PluggedSince, ScanFresh, Disconnected
  <2> QED BY <2>3, <2>4
<1>9. ASSUME NEW r \in Readers, SeeNoChange(r) PROVE OnceInv'
  <2>1. /\ UNCHANGED <<registered, card, pid, counter, moves, daemon, conn, pc, snap, cur,
                       pending, reported>>
        /\ pc = "scan" /\ r \in todo /\ todo' = todo \ {r} /\ Observe(r)
        /\ r \in DOMAIN snap
    BY <1>9 DEF SeeNoChange, TypeOK
  <2>2. Remembered' BY <2>1, ObserveOnce
  <2>3. Numbered' /\ SnapFaithful' /\ PluggedSince' /\ Disconnected'
    BY <2>1 DEF Numbered, SnapFaithful, PluggedSince, Disconnected
  <2>4. ScanFresh' BY <2>1 DEF ScanFresh, Observe, TypeOK
  <2> QED BY <2>2, <2>3, <2>4
<1>10. ASSUME NEW r \in Readers, SeeRemoval(r) PROVE OnceInv'
  <2>1. /\ UNCHANGED <<registered, card, pid, counter, moves, daemon, conn, snap,
                       present, counters, reported>>
        /\ pc = "scan" /\ pc' = "emit" /\ todo' = todo \ {r} /\ cur' = r
        /\ pending'.kind = "remove"
    BY <1>10 DEF SeeRemoval, Remove
  <2>2. Numbered' /\ Remembered' /\ SnapFaithful'
    BY <2>1 DEF Numbered, Remembered, SnapFaithful
  <2>3. PluggedSince' /\ ScanFresh' /\ Disconnected'
    BY <2>1 DEF PluggedSince, ScanFresh, Disconnected
  <2> QED BY <2>2, <2>3
<1>11. ASSUME NEW r \in Readers, DropReader(r) PROVE OnceInv'
  <2>1. /\ UNCHANGED <<registered, card, pid, counter, moves, daemon, conn, snap, todo,
                       reported>>
        /\ pc = "gone" /\ r \notin DOMAIN snap /\ r \notin todo
        /\ \A q \in Readers \ {r} : present'[q] = present[q] /\ counters'[q] = counters[q]
        /\ \/ pc' = "emit" /\ cur' = r /\ pending'.kind = "remove"
           \/ pc' = "gone"
    BY <1>11 DEF DropReader, Vanished, Remove, TypeOK
  <2>2. Remembered' BY <2>1 DEF Remembered, PluggedSince
  <2>3. Numbered' /\ SnapFaithful' /\ PluggedSince' /\ Disconnected'
    BY <2>1 DEF Numbered, SnapFaithful, PluggedSince, Disconnected
  <2>4. ScanFresh' BY <2>1 DEF ScanFresh, TypeOK
  <2> QED BY <2>2, <2>3, <2>4
<1> QED BY <1>1, <1>2, <1>3, <1>4, <1>5, <1>6, <1>7, <1>8, <1>9, <1>10, <1>11 DEF Loop

LEMMA OnceInvariance == Spec => []OnceInv
<1>1. IInv /\ OnceInv /\ [Next]_vars => OnceInv'
  BY WorldOnce, ServiceOnce, LoopOnce DEF Next
<1> QED BY Invariance, InitOnce, <1>1, PTL DEF Spec

\* No presentation is reported twice, through any sequence of lost connections,
\* daemon restarts, swaps and replugged readers.
THEOREM EachReportedOnce == Spec => ReportedOnce
<1>1. ASSUME IInv, OnceInv, Next, Len(ch') > Len(ch), ch'[Len(ch')].kind = "insert"
      PROVE  <<cur, snap[cur].pid>> \notin reported
  <2>1. ch \in Seq(Events) BY <1>1 DEF IInv, TypeOK
  <2>2. Emit
    BY <1>1, <2>1
    DEF Next, World, PutCard, TakeCard, Plug, Unplug, NotWorld, Service, DaemonStop,
        DaemonStart, DaemonMute, ConnectionLost, Cancel, CloseOnCancel, Receive, Over, Loop,
        StartSession, GetStates, StatesFail, Probe, EmitCancelled, ScanDone, TurnDone,
        NextTurn, WaitStops, PollReturns, BackoffElapsed, BackoffCancelled, Dial,
        SeeNewCard, SeeNoChange, SeeRemoval, DropReader, vars, output
  <2>3. pending \in Events /\ ch' = Append(ch, pending)
    BY <1>1, <2>2 DEF Emit, IInv, Working
  <2>4. pending.kind = "insert" BY <1>1, <2>1, <2>3
  <2> QED BY <1>1, <2>2, <2>4 DEF Emit, OnceInv, ScanFresh
<1>2. IInv /\ OnceInv /\ [Next]_vars =>
        [Len(ch') > Len(ch) /\ ch'[Len(ch')].kind = "insert"
           => <<cur, snap[cur].pid>> \notin reported]_vars
  BY <1>1
<1> QED BY Invariance, OnceInvariance, <1>2, PTL DEF Spec, ReportedOnce

\* Only a card that was swapped while its presentation was being dealt with gets
\* a tag of two cards, whatever fails: the card that the probe reads is the one of
\* the snapshot as long as the presentation is.
THEOREM LastingTagsAreReal == Spec => LastingTagIsReal
<1>1. ASSUME IInv, OnceInv, Next, pc = "probe", pc' = "emit", pid[cur] = snap[cur].pid
      PROVE  pending'.btag = TagOf(snap[cur].card)
  <2>1. Probe
    BY <1>1
    DEF Next, World, PutCard, TakeCard, Plug, Unplug, NotWorld, Service, DaemonStop,
        DaemonStart, DaemonMute, ConnectionLost, Cancel, CloseOnCancel, Receive, Over, Loop,
        StartSession, GetStates, StatesFail, Emit, EmitCancelled, ScanDone, TurnDone,
        NextTurn, WaitStops, PollReturns, BackoffElapsed, BackoffCancelled, Dial,
        SeeNewCard, SeeNoChange, SeeRemoval, DropReader, vars
  <2>2. PICK uid :
          /\ ReadUid(cur, uid) /\ uid # NoUid
          /\ pending' = Insert(cur, Btag(TypeOf[snap[cur].card], uid), units'.facts[cur])
    BY <1>1, <2>1 DEF Probe
  <2>3. card[cur] # NoCard /\ uid = UidOf[card[cur]]
    BY <2>2 DEF ReadUid
  <2>4. card[cur] = snap[cur].card
    BY <1>1, <2>3 DEF IInv, Working, OnceInv, SnapFaithful
  <2> QED BY <2>2, <2>3, <2>4 DEF Insert, TagOf
<1>2. IInv /\ OnceInv /\ [Next]_vars =>
        [pc = "probe" /\ pc' = "emit" /\ pid[cur] = snap[cur].pid
           => pending'.btag = TagOf(snap[cur].card)]_vars
  BY <1>1
<1> QED BY Invariance, OnceInvariance, <1>2, PTL DEF Spec, LastingTagIsReal

-----------------------------------------------------------------------------
(* What a turn leaves behind.                                              *)

\* A reader is known as the snapshot has it.
Dealt(r) ==
  /\ present[r] = IF InReader(r) THEN "present" ELSE "absent"
  /\ counters[r] = IF InReader(r) THEN snap[r].counter ELSE Unset

\* So are those that the turn has dealt with.
TurnSoFar ==
  /\ pc \in {"scan", "probe", "emit", "gone", "wait"} =>
       \A r \in DOMAIN snap \ todo :
         (pc \in {"probe", "emit"} /\ cur = r) \/ Dealt(r)
  /\ pc \in {"gone", "wait"} \/ (pc = "emit" /\ cur \notin DOMAIN snap) => todo = {}
  /\ pc = "wait" => Vanished = {}

\* Nothing is kept of a reader that is not remembered, but the facts of the one
\* whose insertion is being sent, or was when the context was cancelled.
Untold ==
  \A r \in Readers : present[r] = "unseen" =>
    /\ counters[r] = Unset
    /\ \/ units.facts[r] = Nothing
       \/ pc = "emit" /\ cur = r /\ cur \in DOMAIN snap
       \/ ctx = "cancelled" /\ pc \in {"return", "done"}

TurnInv == TurnSoFar /\ Untold

LEMMA ObserveDeals ==
  ASSUME IInv, NEW r \in DOMAIN snap, Observe(r), UNCHANGED snap
  PROVE  Dealt(r)' /\ \A q \in DOMAIN snap \ {r} : Dealt(q) => Dealt(q)'
<1>1. r \in Readers BY DEF IInv, TypeOK
<1> QED BY <1>1 DEF IInv, TypeOK, Observe, Dealt, InReader

LEMMA InitTurn == Init => TurnInv
  BY EmptyRegistryFacts
  DEF Init, TurnInv, TurnSoFar, Untold, NoSnap, EmptyRegistry

LEMMA AroundTurn ==
  ASSUME IInv, TurnInv,
         World \/ Service \/ Cancel \/ CloseOnCancel \/ Receive \/ Over \/ UNCHANGED vars
  PROVE  TurnInv'
<1> USE DEF world, service, tracking, scanning, output
<1>1. UNCHANGED <<pc, snap, todo, cur, present, counters, units>>
      /\ (ctx = "cancelled" => ctx' = "cancelled")
  BY DEF World, PutCard, TakeCard, Plug, Unplug, NotWorld, Service, DaemonStop, DaemonStart,
         DaemonMute, ConnectionLost, Cancel, CloseOnCancel, Receive, Over, vars
<1> QED BY <1>1 DEF TurnInv, TurnSoFar, Untold, Vanished, Dealt, InReader

LEMMA LoopTurn == ASSUME IInv, TurnInv, Loop PROVE TurnInv'
<1> USE DEF IInv, TurnInv
<1> USE DEF world, service, tracking, scanning, output, Environment
<1>1. CASE StartSession
  BY <1>1 DEF StartSession, TurnSoFar, Untold, EmptyRegistry
<1>2. CASE GetStates
  BY <1>2 DEF GetStates, TurnSoFar, Untold, TypeOK
<1>3. CASE StatesFail \/ NextTurn \/ WaitStops \/ PollReturns \/ BackoffElapsed
           \/ BackoffCancelled \/ Dial
  <2>1. /\ UNCHANGED <<ctx, present, counters, units>> /\ pc # "emit"
        /\ pc' \in {"states", "return", "done", "backoff", "dial", "session"}
        /\ pc \in {"return", "done"} /\ ctx = "cancelled" => pc' = "done"
    BY <1>3 DEF StatesFail, NextTurn, WaitStops, PollReturns, BackoffElapsed,
                BackoffCancelled, Dial
  <2> QED BY <2>1 DEF TurnSoFar, Untold
<1>4. CASE ScanDone \/ TurnDone
  BY <1>4 DEF ScanDone, TurnDone, TurnSoFar, Untold, Vanished, Dealt, InReader
<1>5. CASE EmitCancelled
  BY <1>5 DEF EmitCancelled, TurnSoFar, Untold
<1>6. CASE Probe
  <2>1. /\ cur \in DOMAIN snap /\ cur \in Readers /\ InReader(cur)
        /\ units \in Registry /\ Agreement(units)
    BY <1>6 DEF Probe, Working, TypeOK, PortsDisjoint
  <2>2. PICK fresh \in {Nothing} \cup Probed(cur) : units' = Adopt(units, cur, fresh)
    BY <1>6 DEF Probe
  <2>3. fresh \in Identity BY <2>1, <2>2, ProbedType
  <2>4. \A q \in Readers \ {cur} : units'.facts[q] = units.facts[q]
    BY <2>1, <2>2, <2>3, AdoptOthers
  <2>5. /\ pc = "probe" /\ UNCHANGED <<ctx, snap, todo>>
        /\ \/ pc' = "scan" /\ Observe(cur)
           \/ pc' = "emit" /\ UNCHANGED <<cur, present, counters>>
    BY <1>6 DEF Probe
  <2>6. TurnSoFar'
    <3>1. CASE pc' = "scan"
      BY <2>1, <2>5, <3>1, ObserveDeals DEF TurnSoFar
    <3>2. CASE pc' = "emit"
      BY <2>1, <2>5, <3>2 DEF TurnSoFar, Dealt, InReader
    <3> QED BY <2>5, <3>1, <3>2
  <2>7. Untold'
    BY <2>1, <2>4, <2>5 DEF Untold, Observe, TypeOK
  <2> QED BY <2>6, <2>7
<1>7. CASE Emit
  <2>1. /\ cur \in Readers /\ pc = "emit" /\ UNCHANGED <<ctx, snap, todo, units>>
        /\ \/ cur \in DOMAIN snap /\ Observe(cur) /\ pc' = "scan"
           \/ cur \notin DOMAIN snap /\ UNCHANGED <<present, counters>> /\ pc' = "gone"
    BY <1>7 DEF Emit, Working
  <2>2. TurnSoFar'
    <3>1. CASE pc' = "scan"
      BY <2>1, <3>1, ObserveDeals DEF TurnSoFar
    <3>2. CASE pc' = "gone"
      BY <2>1, <3>2 DEF TurnSoFar, Dealt, InReader
    <3> QED BY <2>1, <3>1, <3>2
  <2>3. Untold'
    BY <2>1 DEF Untold, Observe, TypeOK
  <2> QED BY <2>2, <2>3
<1>8. ASSUME NEW r \in Readers, SeeNewCard(r) PROVE TurnInv'
  BY <1>8 DEF SeeNewCard, TurnSoFar, Untold, Dealt, InReader
<1>9. ASSUME NEW r \in Readers, SeeNoChange(r) PROVE TurnInv'
  <2>1. /\ r \in todo /\ r \in DOMAIN snap /\ todo' = todo \ {r} /\ Observe(r) /\ pc = "scan"
        /\ UNCHANGED <<ctx, pc, snap, cur, units>>
    BY <1>9 DEF SeeNoChange, TypeOK
  <2>2. TurnSoFar'
    BY <2>1, ObserveDeals DEF TurnSoFar
  <2>3. Untold'
    BY <2>1 DEF Untold, Observe, TypeOK
  <2> QED BY <2>2, <2>3
<1>10. ASSUME NEW r \in Readers, SeeRemoval(r) PROVE TurnInv'
  BY <1>10 DEF SeeRemoval, TurnSoFar, Untold, Dealt, InReader, TypeOK
<1>11. ASSUME NEW r \in Readers, DropReader(r) PROVE TurnInv'
  <2>1. /\ r \notin DOMAIN snap /\ pc = "gone" /\ UNCHANGED <<ctx, snap, todo>>
        /\ present' = [present EXCEPT ![r] = "unseen"]
        /\ counters' = [counters EXCEPT ![r] = Unset]
        /\ units' = Forget(units, r)
        /\ \/ pc' = "emit" /\ cur' = r
           \/ pc' = "gone" /\ UNCHANGED cur
    BY <1>11 DEF DropReader, Vanished
  <2>2. /\ units'.facts[r] = Nothing
        /\ \A q \in Readers \ {r} : units'.facts[q] = units.facts[q]
    BY <2>1 DEF Forget, TypeOK, Registry
  <2>3. TurnSoFar'
    <3>1. \A q \in DOMAIN snap : q \in Readers /\ (Dealt(q) => Dealt(q)')
      BY <2>1 DEF Dealt, InReader, TypeOK
    <3> QED BY <2>1, <3>1 DEF TurnSoFar
  <2>4. Untold'
    BY <2>1, <2>2 DEF Untold, TypeOK
  <2> QED BY <2>3, <2>4
<1> QED BY <1>1, <1>2, <1>3, <1>4, <1>5, <1>6, <1>7, <1>8, <1>9, <1>10, <1>11 DEF Loop

\* When the loop goes to wait it remembers its snapshot and nothing else, and the
\* consumer was last told of a card only where the snapshot has one, for any number
\* of readers and any failures on the way.
THEOREM TurnsSettle == Spec => []TurnSettles
<1>1. IInv /\ TurnInv /\ [Next]_vars => TurnInv'
  BY AroundTurn, LoopTurn DEF Next
<1>2. ASSUME IInv, TurnInv PROVE TurnSettles
  <2> SUFFICES ASSUME pc = "wait", NEW r \in Readers
               PROVE  /\ Settled(r)
                      /\ ctx = "live" /\ said[r] # Nobody => r \in DOMAIN snap /\ InReader(r)
    BY DEF TurnSettles
  <2>1. r \in DOMAIN snap =>
          /\ present[r] = IF InReader(r) THEN "present" ELSE "absent"
          /\ counters[r] = IF InReader(r) THEN snap[r].counter ELSE Unset
    BY <1>2 DEF TurnInv, TurnSoFar, Dealt
  <2>2. r \notin DOMAIN snap => present[r] = "unseen"
    BY <1>2 DEF TurnInv, TurnSoFar, Vanished
  <2>3. r \notin DOMAIN snap => counters[r] = Unset /\ units.facts[r] = Nothing
    BY <1>2, <2>2 DEF TurnInv, Untold
  <2>4. ctx = "live" /\ said[r] # Nobody => present[r] = "present"
    BY <1>2 DEF IInv, RemovalOwed
  <2> QED BY <2>1, <2>2, <2>3, <2>4 DEF Settled
<1>3. IInv /\ TurnInv => TurnSettles
  BY <1>2
<1> QED BY Invariance, InitTurn, <1>1, <1>3, PTL DEF Spec
=============================================================================
