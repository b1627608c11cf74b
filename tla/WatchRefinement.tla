-------------------------- MODULE WatchRefinement --------------------------
(* The watch loop implements ReaderEvents, for any readers, cards, channel *)
(* capacity and bounds: every step of Watch is a step of the promise, or   *)
(* leaves all of it as it is.                                              *)
EXTENDS WatchProofs

USE WatchAssumption, UnitAssumption

\* What the mapping of the states needs besides the invariants of WatchProofs:
\* the event being sent is about the reader being worked on, a removal is
\* sent for a reader that is empty or gone, and only a cancelled loop ends.
Sending ==
  pc = "emit" =>
    /\ pending.reader = cur
    /\ pending.kind = "insert" => pending \in Insertions
    /\ pending.kind = "remove" =>
         /\ pending = Remove(cur)
         /\ IF cur \in DOMAIN snap THEN ~InReader(cur) /\ present[cur] = "present"
                                   ELSE present[cur] = "unseen"

Ended == pc = "done" => ctx = "cancelled"

RefInv == Sending /\ Ended /\ moves <= MaxMoves

LEMMA InitRef == Init => RefInv
  BY DEF Init, RefInv, Sending, Ended

LEMMA EndedStep == ASSUME IInv, RefInv, [Next]_vars PROVE Ended' /\ moves' <= MaxMoves
<1> USE DEF IInv, RefInv, Ended
<1> USE DEF world, service, tracking, scanning, output, Environment
<1>1. CASE World \/ Service \/ Cancel \/ CloseOnCancel \/ Receive
  BY <1>1 DEF World, PutCard, TakeCard, Plug, Unplug, Move, NotWorld, Service, DaemonStop,
              DaemonStart, DaemonMute, ConnectionLost, Cancel, CloseOnCancel, Receive, TypeOK
<1>2. CASE Loop
  BY <1>2 DEF Loop, StartSession, GetStates, StatesFail, Probe, Emit, EmitCancelled,
              ScanDone, TurnDone, NextTurn, WaitStops, PollReturns, BackoffElapsed,
              BackoffCancelled, Dial, SeeNewCard, SeeNoChange, SeeRemoval, DropReader
<1>3. CASE Over \/ UNCHANGED vars BY <1>3 DEF Over, vars
<1> QED BY <1>1, <1>2, <1>3 DEF Next

LEMMA SendingStep == ASSUME IInv, RefInv, [Next]_vars PROVE Sending'
<1> USE DEF IInv, RefInv
<1> USE DEF world, service, tracking, scanning, output, Environment
<1>1. CASE World \/ Service \/ Cancel \/ CloseOnCancel \/ Receive
  <2>1. UNCHANGED <<pc, snap, cur, pending, present>>
    BY <1>1 DEF World, PutCard, TakeCard, Plug, Unplug, NotWorld, Service, DaemonStop,
                DaemonStart, DaemonMute, ConnectionLost, Cancel, CloseOnCancel, Receive
  <2> QED BY <2>1 DEF Sending, InReader
<1>2. CASE Probe
  <2> PICK uid \in {UidOf[c] : c \in Cards} \cup {NoUid},
           fresh \in {Nothing} \cup Probed(cur) :
             /\ ReadUid(cur, uid)
             /\ fresh = Nothing \/ conn = "open"
             /\ units' = Adopt(units, cur, fresh)
             /\ IF uid = NoUid
                THEN /\ Observe(cur) /\ pc' = "scan" /\ cur' = Nobody
                     /\ UNCHANGED pending
                ELSE /\ pending' = Insert(cur, Btag(TypeOf[snap[cur].card], uid),
                                          units'.facts[cur])
                     /\ pc' = "emit" /\ UNCHANGED <<cur, present, counters>>
    BY <1>2 DEF Probe
  <2>1. cur \in DOMAIN snap /\ InReader(cur) /\ cur \in Readers
    BY <1>2 DEF Probe, Working, TypeOK
  <2>2. CASE uid = NoUid BY <2>2 DEF Sending
  <2>3. CASE uid # NoUid
    <3>1. snap[cur].card \in Cards BY <2>1 DEF InReader, TypeOK, ReaderState
    <3>2. card[cur] \in Cards /\ uid = UidOf[card[cur]]
      BY <2>1, <2>3 DEF ReadUid, TypeOK
    <3>3. Btag(TypeOf[snap[cur].card], uid) \in Btags BY <2>3, <3>1, <3>2, TagType
    <3>4. units' \in Registry BY TypeStep DEF TypeOK
    <3>5. units'.facts[cur] \in Identity BY <2>1, <3>4 DEF Registry
    <3>6. pending' \in Insertions /\ pending'.reader = cur' /\ pending'.kind = "insert"
      BY <2>1, <2>3, <3>3, <3>5 DEF Insertions, Insert
    <3> QED BY <3>6 DEF Sending
  <2> QED BY <2>2, <2>3
<1>3. ASSUME NEW r \in Readers, SeeRemoval(r) PROVE Sending'
  BY <1>3 DEF SeeRemoval, Sending, Remove, InReader, TypeOK
<1>4. ASSUME NEW r \in Readers, DropReader(r) PROVE Sending'
  BY <1>4 DEF DropReader, Vanished, Sending, Remove, TypeOK
<1>5. CASE \/ StartSession \/ GetStates \/ StatesFail \/ Emit \/ EmitCancelled \/ ScanDone
           \/ TurnDone \/ NextTurn \/ WaitStops \/ PollReturns \/ BackoffElapsed
           \/ BackoffCancelled \/ Dial
           \/ \E r \in Readers : SeeNewCard(r) \/ SeeNoChange(r)
  <2>1. pc' # "emit"
    BY <1>5 DEF StartSession, GetStates, StatesFail, Emit, EmitCancelled, ScanDone,
                TurnDone, NextTurn, WaitStops, PollReturns, BackoffElapsed,
                BackoffCancelled, Dial, SeeNewCard, SeeNoChange
  <2> QED BY <2>1 DEF Sending
<1>6. CASE Over \/ UNCHANGED vars BY <1>6 DEF Over, vars, Sending, InReader
<1> QED BY <1>1, <1>2, <1>3, <1>4, <1>5, <1>6 DEF Next, Loop

LEMMA AllInvariant == Spec => [](IInv /\ OnceInv /\ RefInv)
<1>1. IInv /\ OnceInv /\ [Next]_vars => OnceInv'
  BY WorldOnce, ServiceOnce, LoopOnce DEF Next
<1>2. IInv /\ RefInv /\ [Next]_vars => RefInv' BY EndedStep, SendingStep DEF RefInv
<1> QED BY Invariance, InitOnce, InitRef, <1>1, <1>2, PTL DEF Spec

-----------------------------------------------------------------------------
(* The steps.                                                              *)

Owing == {r \in Readers : present[r] = "present" \/ Removing(r)}
Phase == IF pc = "done" THEN "closed" ELSE ctx

\* A step that moves nothing the consumer knows of.
LEMMA Stutter ==
  ASSUME ch' = ch, reported' = reported, Owing' = Owing, Phase' = Phase
  PROVE  UNCHANGED Promise!vars
  BY DEF Promise!vars, Owing, Phase

LEMMA EmitKeepsPromise ==
  ASSUME IInv, OnceInv, RefInv, Emit PROVE Promise!Next \/ UNCHANGED Promise!vars
<1> USE DEF IInv, RefInv
<1> USE DEF world, service, tracking, scanning, output, Environment
<1>1. /\ cur \in Readers /\ pending \in Events /\ pending.reader = cur
      /\ pc = "emit" /\ pc' \in {"scan", "gone"} /\ ctx' = ctx
      /\ Len(ch) < ChanCap /\ ch' = Append(ch, pending)
  BY DEF Emit, Working, Sending
<1>2. Phase # "closed" /\ Phase' = Phase
  BY <1>1 DEF Phase, TypeOK
<1>3. ~Removing(cur)' /\ \A r \in Readers \ {cur} :
        present'[r] = present[r] /\ ~Removing(r) /\ ~Removing(r)'
  BY <1>1 DEF Emit, Observe, Removing, TypeOK
<1>4. CASE pending.kind = "insert"
  <2>1. cur \in DOMAIN snap /\ InReader(cur) BY <1>1, <1>4 DEF Working
  <2>2. /\ present'[cur] = "present"
        /\ reported' = reported \cup {<<pending.reader, snap[cur].pid>>}
    BY <1>1, <1>4, <2>1 DEF Emit, Observe, TypeOK
  <2>3. Owing' = Owing \cup {pending.reader} BY <1>1, <1>3, <2>2 DEF Owing
  <2>4. snap[cur].pid \in 0..MaxMoves
    <3>1. snap[cur].pid \in Nat /\ pid[cur] \in Nat /\ moves \in Nat /\ MaxMoves \in Nat
      BY <1>1, <2>1 DEF TypeOK, ReaderState
    <3>2. snap[cur].pid <= pid[cur] /\ pid[cur] <= moves /\ moves <= MaxMoves
      BY <1>1, <2>1 DEF OnceInv, SnapFaithful, Numbered
    <3> QED BY <3>1, <3>2
  <2>5. \A x \in reported : x[1] = pending.reader => x[2] < snap[cur].pid
    <3> SUFFICES ASSUME NEW x \in reported, x[1] = cur PROVE x[2] < snap[cur].pid
      BY <1>1
    <3>1. x = <<cur, x[2]>> /\ x[2] \in Nat BY DEF TypeOK
    <3>2. x[2] <= snap[cur].pid BY <1>1, <2>1 DEF OnceInv, SnapFaithful
    <3>3. <<cur, snap[cur].pid>> \notin reported BY <1>1, <1>4 DEF OnceInv, ScanFresh
    <3> QED BY <2>4, <3>1, <3>2, <3>3
  <2>6. pending \in Insertions BY <1>1, <1>4 DEF Sending
  <2> PICK e \in Insertions, k \in 0..MaxMoves : e = pending /\ k = snap[cur].pid
    BY <2>4, <2>6
  <2>7. Promise!Announce(e, k)
    BY <1>1, <1>2, <2>2, <2>3, <2>5 DEF Promise!Announce, Promise!Send, Owing, Phase
  <2> QED BY <2>7 DEF Promise!Next
<1>5. CASE pending.kind = "remove"
  <2>1. pending = Removals[cur] BY <1>1, <1>5 DEF Sending, Removals
  <2>2. present'[cur] # "present"
    BY <1>1, <1>5 DEF Emit, Sending, Observe, TypeOK
  <2>3. cur \in Owing /\ Owing' = Owing \ {cur}
    BY <1>1, <1>3, <1>5, <2>2 DEF Owing, Removing
  <2>4. reported' = reported BY <1>5 DEF Emit
  <2> PICK r \in Readers : r = cur BY <1>1
  <2>5. Promise!Retract(r)
    BY <1>1, <1>2, <2>1, <2>3, <2>4 DEF Promise!Retract, Promise!Send, Owing, Phase
  <2> QED BY <2>5 DEF Promise!Next
<1> QED BY <1>1, <1>4, <1>5 DEF Events

LEMMA StepKeepsPromise ==
  ASSUME IInv, OnceInv, RefInv, [Next]_vars PROVE Promise!Next \/ UNCHANGED Promise!vars
<1> USE DEF IInv, RefInv
<1> USE DEF world, service, tracking, scanning, output, Environment
<1>1. CASE World \/ Service \/ CloseOnCancel
  <2>1. UNCHANGED <<ch, reported, present, pc, cur, pending, ctx>>
    BY <1>1 DEF World, PutCard, TakeCard, Plug, Unplug, NotWorld, Service, DaemonStop,
                DaemonStart, DaemonMute, ConnectionLost, CloseOnCancel
  <2> QED BY <2>1, Stutter DEF Owing, Phase, Removing
<1>2. CASE Cancel
  <2>1. /\ UNCHANGED <<ch, reported, present, pc, cur, pending>>
        /\ ctx = "live" /\ ctx' = "cancelled" /\ pc # "done"
    BY <1>2 DEF Cancel, Ended
  <2>2. Owing' = Owing BY <2>1 DEF Owing, Removing
  <2>3. Promise!Cancel BY <2>1, <2>2 DEF Promise!Cancel, Owing
  <2> QED BY <2>3 DEF Promise!Next
<1>3. CASE Receive
  <2>1. /\ UNCHANGED <<reported, present, pc, cur, pending, ctx>>
        /\ ch # <<>> /\ ch' = Tail(ch)
    BY <1>3 DEF Receive
  <2>2. Owing' = Owing /\ Phase' = Phase BY <2>1 DEF Owing, Phase, Removing
  <2>3. Promise!Receive BY <2>1, <2>2 DEF Promise!Receive, Owing, Phase
  <2> QED BY <2>3 DEF Promise!Next
<1>4. CASE Probe
  <2>1. /\ cur \in DOMAIN snap /\ cur \in Readers /\ InReader(cur) /\ pc = "probe"
        /\ UNCHANGED <<ch, reported, ctx>>
    BY <1>4 DEF Probe, Working, TypeOK
  <2>2. CASE pc' = "scan" /\ Observe(cur)
    <3>1. present' = [present EXCEPT ![cur] = "present"] BY <2>1, <2>2 DEF Observe
    <3>2. Owing' = Owing \cup {cur} BY <2>1, <2>2, <3>1 DEF Owing, Removing, TypeOK
    <3>3. Phase' = Phase /\ Phase # "closed" BY <2>1, <2>2 DEF Phase, TypeOK
    <3> PICK r \in Readers : r = cur BY <2>1
    <3>4. Promise!Notice(r) BY <2>1, <3>2, <3>3 DEF Promise!Notice, Owing, Phase
    <3> QED BY <3>4 DEF Promise!Next
  <2>3. CASE pc' = "emit" /\ pending'.kind = "insert" /\ present' = present
    <3>1. Owing' = Owing /\ Phase' = Phase
      BY <2>1, <2>3 DEF Owing, Removing, Phase
    <3> QED BY <2>1, <3>1, Stutter
  <2>4. \/ pc' = "scan" /\ Observe(cur)
        \/ pc' = "emit" /\ pending'.kind = "insert" /\ present' = present
    BY <1>4 DEF Probe, Insert
  <2> QED BY <2>2, <2>3, <2>4
<1>5. CASE Emit BY <1>5, EmitKeepsPromise
<1>6. CASE EmitCancelled
  <2>1. /\ UNCHANGED <<ch, reported, ctx, present>> /\ ctx = "cancelled"
        /\ pc = "emit" /\ pc' = "return" /\ cur \in Readers
    BY <1>6 DEF EmitCancelled, Working
  <2>2. Phase = "cancelled" /\ Phase' = Phase BY <2>1 DEF Phase
  <2>3. Owing' = {r \in Readers : present[r] = "present"} BY <2>1 DEF Owing, Removing
  <2>4. CASE Owing' = Owing BY <2>1, <2>2, <2>4, Stutter
  <2>5. CASE Owing' # Owing
    <3>1. cur \in Owing /\ Owing' = Owing \ {cur}
      BY <2>1, <2>3, <2>5 DEF Owing, Removing
    <3> PICK r \in Readers : r = cur BY <2>1
    <3>2. Promise!Abandon(r) BY <2>1, <2>2, <3>1 DEF Promise!Abandon, Owing, Phase
    <3> QED BY <3>2 DEF Promise!Next
  <2> QED BY <2>4, <2>5
<1>7. CASE StartSession \/ GetStates \/ StatesFail \/ ScanDone \/ TurnDone \/ NextTurn
           \/ WaitStops \/ PollReturns \/ BackoffElapsed \/ BackoffCancelled \/ Dial
  <2>1. /\ UNCHANGED <<ch, reported, present, ctx>>
        /\ pc \notin {"emit", "done"} /\ pc' # "emit"
        /\ pc' = "done" => ctx = "cancelled"
    BY <1>7 DEF StartSession, GetStates, StatesFail, ScanDone, TurnDone, NextTurn,
                WaitStops, PollReturns, BackoffElapsed, BackoffCancelled, Dial
  <2>2. Owing' = Owing BY <2>1 DEF Owing, Removing
  <2>3. CASE pc' = "done"
    <3>1. Promise!Close BY <2>1, <2>2, <2>3 DEF Promise!Close, Owing
    <3> QED BY <3>1 DEF Promise!Next
  <2>4. CASE pc' # "done"
    <3>1. Phase' = Phase BY <2>1, <2>4 DEF Phase
    <3> QED BY <2>1, <2>2, <3>1, Stutter
  <2> QED BY <2>3, <2>4
<1>8. ASSUME NEW r \in Readers, SeeNewCard(r) \/ SeeNoChange(r) \/ SeeRemoval(r)
                                \/ DropReader(r)
      PROVE  Promise!Next \/ UNCHANGED Promise!vars
  <2>1. UNCHANGED <<ch, reported, ctx>> /\ pc \in {"scan", "gone"} /\ pc' # "done"
    BY <1>8 DEF SeeNewCard, SeeNoChange, SeeRemoval, DropReader
  <2>2. Owing' = Owing
    <3>1. CASE SeeNewCard(r) BY <2>1, <3>1 DEF SeeNewCard, Owing, Removing
    <3>2. CASE SeeNoChange(r)
      <4>1. \A q \in Readers : present'[q] = "present" <=> present[q] = "present"
        BY <3>2 DEF SeeNoChange, Observe, LooksNew, TypeOK
      <4> QED BY <2>1, <3>2, <4>1 DEF SeeNoChange, Owing, Removing
    <3>3. CASE SeeRemoval(r)
      BY <2>1, <3>3 DEF SeeRemoval, Owing, Removing
    <3>4. CASE DropReader(r)
      <4>1. /\ present' = [present EXCEPT ![r] = "unseen"]
            /\ \A q \in Readers : Removing(q)' <=> q = r /\ present[r] = "present"
        BY <2>1, <3>4 DEF DropReader, Removing, Remove
      <4> QED BY <2>1, <4>1 DEF Owing, Removing, TypeOK
    <3> QED BY <1>8, <3>1, <3>2, <3>3, <3>4
  <2> QED BY <2>1, <2>2, Stutter DEF Phase
<1>9. CASE Over \/ UNCHANGED vars
  <2>1. UNCHANGED <<ch, reported, present, pc, cur, pending, ctx>>
    BY <1>9 DEF Over, vars
  <2> QED BY <2>1, Stutter DEF Owing, Phase, Removing
<1> QED BY <1>1, <1>2, <1>3, <1>4, <1>5, <1>6, <1>7, <1>8, <1>9 DEF Next, Loop

\* Whatever people, the daemon and the connection do, for any number of readers
\* and cards: the consumer of Watch gets the stream that ReaderEvents promises.
THEOREM WatchKeepsItsPromise == Spec => EventsPromised
<1>1. Init => Promise!Init
  BY DEF Init, Promise!Init, Removing
<1>2. IInv /\ OnceInv /\ RefInv /\ [Next]_vars => Promise!Next \/ UNCHANGED Promise!vars
  BY StepKeepsPromise
<1> QED BY AllInvariant, <1>1, <1>2, PTL DEF Spec, EventsPromised, Promise!Spec
=============================================================================
