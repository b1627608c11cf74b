-------------------------- MODULE PcscClientProofs --------------------------
(***************************************************************************)
(* What holds of the connection for any versions of the daemon and any     *)
(* number of changes.                                                      *)
(*                                                                         *)
(* Whatever answers are late: the types, the version that is spoken, that  *)
(* the states a call answers are those of a moment of that call, and that  *)
(* no registration is lost (BInv, OneSnapshot, WaitBehind).  As long as no *)
(* answer is late where the client goes on with the connection: that both  *)
(* sides stay in step.  For that IInv lists, for each position of the      *)
(* client, what may be on its way in both directions and whether the       *)
(* daemon may have the connection on its waiter list.                      *)
(***************************************************************************)
EXTENDS PcscClient, SequenceTheorems, TLAPS

\* Calls after which the client reuses a connection that owes it an answer.
Careful == LateIn \subseteq {"context", "states", "dump"}

Kinds(s) == [i \in 1..Len(s) |-> s[i].kind]
Down == Kinds(toDaemon)
Up == Kinds(toClient)

\* Nothing is owed; with a stop that was overtaken by a signal, or without.
Settling == ~registered /\ Up = <<>> /\ Down \in {<<>>, <<"stop">>}

\* A request behind such a stop, or its answer.  A daemon that died answers none.
Pending(request, answers) ==
  /\ ~registered
  /\ \/ Up = <<>> /\ Down \in {<<request>>, <<"stop", request>>}
     \/ Down = <<>> /\ (Up = <<>> \/ \E a \in answers : Up = <<a>>)

\* A wait of 4.4 and newer is answered by a dump, which the signal may follow.
Registering ==
  \/ Pending("wait", {"dump"})
  \/ Down = <<>> /\ Up = <<"dump">>
  \/ Down = <<>> /\ Up = <<"dump", "signal">> /\ ~registered

\* Registered, or signalled; the older wait may still be on its way.
Waited ==
  \/ ~registered /\ Up = <<>> /\ ~New(minor) /\ Down \in {<<"wait">>, <<"stop", "wait">>}
  \/ Down = <<>> /\ (Up = <<>> \/ (Up = <<"signal">> /\ ~registered))

\* The stop follows whatever of the wait was on its way; one answer comes.
Stopping ==
  \/ ~registered /\ Up = <<>> /\ ~New(minor)
       /\ Down \in {<<"wait", "stop">>, <<"stop", "wait", "stop">>}
  \/ Down = <<"stop">> /\ (Up = <<>> \/ (Up = <<"signal">> /\ ~registered))
  \/ Down = <<>> /\ ~registered /\ (Up = <<>> \/ Up = <<"signal">> \/ Up = <<"stopped">>)

InStep ==
  closer = "none" =>
    /\ pc \in {"propose", "establish"} => Settling /\ Down = <<>>
    /\ pc = "agree" => Pending("version", {"agreed", "other"})
    /\ pc = "context" => Pending("establish", {"context"})
    /\ pc \in {"fetch", "probing"} => Settling
    /\ pc = "states" => Pending("states", {"states"})
    /\ pc = "exchange" => Pending("exchange", {"answer"})
    /\ pc = "dump" => New(minor) /\ Registering
    /\ pc = "signal" => Waited
    /\ pc = "stopping" => Stopping
    /\ pc # "astray"

\* What the answers say is true.
Truthful(answer) ==
  /\ answer.kind \in {"states", "dump"} => answer.data <= changes
  /\ answer.kind \in {"agreed", "other"} => answer.data = offered
  /\ answer.kind = "agreed" => offered >= protocolVersionMinorBackward
  /\ answer.kind = "other" => round = 1 \/ offered < protocolVersionMinorBackward

Honest == \A i \in 1..Len(toClient) : Truthful(toClient[i])

\* The first round proposes the client's version, the second the daemon's.
Proposing ==
  /\ \A i \in 1..Len(toDaemon) :
       toDaemon[i].kind = "version" => toDaemon[i].data = proposal
  /\ IF round = 1 THEN proposal = protocolVersionMinor
                  ELSE proposal = offered /\ offered >= protocolVersionMinorBackward
  /\ pc # "over" => (minor = 0 <=> pc \in {"propose", "agree"})
  /\ minor = 0 => closer \in {"none", "closed"} /\ (closer = "closed" => pc = "over")
  /\ minor # 0 => minor = offered /\ offered >= protocolVersionMinorBackward

\* No deadline leaves the handshake with a connection: its answers are its own.
Greeting ==
  closer = "none" =>
    /\ pc = "propose" => Settling /\ Down = <<>>
    /\ pc = "agree" => Pending("version", {"agreed", "other"})

BInv == TypeOK /\ Greeting /\ Honest /\ Proposing

IInv == BInv /\ InStep

-----------------------------------------------------------------------------
(* Sequences and their kinds.                                              *)

LEMMA AppendOne == ASSUME NEW a, NEW b PROVE Append(<<a>>, b) = <<a, b>>
<1> DEFINE S == {a, b}
<1>1. <<a>> \in Seq(S) /\ <<a, b>> \in Seq(S)
  OBVIOUS
<1>2. Append(<<a>>, b) \in Seq(S) /\ Len(Append(<<a>>, b)) = 2 /\ Len(<<a, b>>) = 2
  BY <1>1
<1>3. \A i \in 1..2 : Append(<<a>>, b)[i] = <<a, b>>[i]
  BY <1>1
<1> QED BY <1>1, <1>2, <1>3, SeqEqual

LEMMA AppendTwo ==
  ASSUME NEW a, NEW b, NEW c PROVE Append(<<a, b>>, c) = <<a, b, c>>
<1> DEFINE S == {a, b, c}
<1>1. <<a, b>> \in Seq(S) /\ <<a, b, c>> \in Seq(S)
  OBVIOUS
<1>2. Append(<<a, b>>, c) \in Seq(S) /\ Len(Append(<<a, b>>, c)) = 3 /\ Len(<<a, b, c>>) = 3
  BY <1>1
<1>3. \A i \in 1..3 : Append(<<a, b>>, c)[i] = <<a, b, c>>[i]
  BY <1>1
<1> QED BY <1>1, <1>2, <1>3, SeqEqual

LEMMA Tuples ==
  ASSUME NEW a, NEW b, NEW c
  PROVE  /\ Tail(<<a>>) = <<>> /\ Tail(<<a, b>>) = <<b>> /\ Tail(<<a, b, c>>) = <<b, c>>
         /\ Head(<<a>>) = a /\ Head(<<a, b>>) = a /\ Head(<<a, b, c>>) = a
         /\ Append(<<>>, a) = <<a>> /\ Append(<<a>>, b) = <<a, b>>
         /\ Append(<<a, b>>, c) = <<a, b, c>>
         /\ <<a>> # <<>> /\ <<a, b>> # <<>> /\ <<a, b, c>> # <<>>
<1>1. Tail(<<a>>) = <<>> /\ Tail(<<a, b>>) = <<b>> /\ Tail(<<a, b, c>>) = <<b, c>>
  OBVIOUS
<1>2. Head(<<a>>) = a /\ Head(<<a, b>>) = a /\ Head(<<a, b, c>>) = a
  OBVIOUS
<1>3. Append(<<>>, a) = <<a>>
  OBVIOUS
<1>4. <<a>> # <<>> /\ <<a, b>> # <<>> /\ <<a, b, c>> # <<>>
  OBVIOUS
<1> QED BY <1>1, <1>2, <1>3, <1>4, AppendOne, AppendTwo

LEMMA KindsAppend ==
  ASSUME NEW S, NEW s \in Seq(S), NEW m \in S
  PROVE  Kinds(Append(s, m)) = Append(Kinds(s), m.kind)
  BY DEF Kinds

LEMMA KindsTail ==
  ASSUME NEW S, NEW s \in Seq(S), s # <<>>
  PROVE  Kinds(Tail(s)) = Tail(Kinds(s)) /\ Head(Kinds(s)) = Head(s).kind
  BY DEF Kinds

LEMMA KindsEmpty ==
  ASSUME NEW S, NEW s \in Seq(S)
  PROVE  Kinds(s) = <<>> <=> s = <<>>
  BY DEF Kinds

-----------------------------------------------------------------------------
(* What the steps do to the kinds.                                         *)

LEMMA KindsOf ==
  ASSUME TypeOK
  PROVE  /\ toDaemon \in Seq(Requests) /\ toClient \in Seq(Answers)
         /\ Down = <<>> <=> toDaemon = <<>>
         /\ Up = <<>> <=> toClient = <<>>
         /\ toDaemon # <<>> => Head(Down) = Head(toDaemon).kind
         /\ toClient # <<>> => Head(Up) = Head(toClient).kind
<1>1. toDaemon \in Seq(Requests) /\ toClient \in Seq(Answers)
  BY DEF TypeOK
<1> QED BY <1>1, KindsEmpty, KindsTail DEF Down, Up

LEMMA KindsMove ==
  ASSUME TypeOK, TypeOK'
  PROVE  /\ \A m \in Requests : toDaemon' = Append(toDaemon, m) => Down' = Append(Down, m.kind)
         /\ \A m \in Answers : toClient' = Append(toClient, m) => Up' = Append(Up, m.kind)
         /\ toDaemon # <<>> /\ toDaemon' = Tail(toDaemon) => Down' = Tail(Down)
         /\ toClient # <<>> /\ toClient' = Tail(toClient) => Up' = Tail(Up)
         /\ toDaemon' = toDaemon => Down' = Down
         /\ toClient' = toClient => Up' = Up
         /\ toDaemon' = <<>> => Down' = <<>>
<1>1. /\ toDaemon \in Seq(Requests) /\ toClient \in Seq(Answers)
      /\ toDaemon' \in Seq(Requests)
  BY DEF TypeOK
<1>2. toDaemon' = <<>> => Down' = <<>>
  BY <1>1, KindsEmpty DEF Down
<1> QED BY <1>1, <1>2, KindsAppend, KindsTail DEF Down, Up

-----------------------------------------------------------------------------
USE ClientAssumption

LEMMA InitIInv == Init => BInv /\ IInv
<1> SUFFICES ASSUME Init PROVE BInv /\ IInv
  OBVIOUS
<1>1. Down = <<>> /\ Up = <<>>
  BY DEF Init, Down, Up, Kinds
<1>2. TypeOK
  <2>1. serving \in BOOLEAN /\ registered \in BOOLEAN
    BY DEF Init
  <2>2. toDaemon \in Seq(Requests)
    BY DEF Init
  <2>3. toClient \in Seq(Answers)
    BY DEF Init
  <2>4. offered \in Minors /\ changes \in Nat /\ owed \in Nat /\ proposal \in Nat
    BY DEF Init, protocolVersionMinor
  <2>5. round \in 1..2 /\ minor \in Nat
    BY DEF Init
  <2>6. fetched \in 0..changes
    BY DEF Init
  <2>7. pc = "propose" /\ closer = "none"
    BY DEF Init
  <2> QED BY <2>1, <2>2, <2>3, <2>4, <2>5, <2>6, <2>7 DEF TypeOK
<1>3. InStep /\ Greeting
  BY <1>1 DEF Init, InStep, Greeting, Settling
<1>4. Honest /\ Proposing
  BY DEF Init, Honest, Proposing
<1> QED BY <1>2, <1>3, <1>4 DEF BInv, IInv

\* The parts of TypeOK.
Flags == serving \in BOOLEAN /\ registered \in BOOLEAN
Streams == toDaemon \in Seq(Requests) /\ toClient \in Seq(Answers)
Numbers ==
  /\ offered \in Minors /\ changes \in Nat /\ owed \in Nat
  /\ proposal \in Nat /\ round \in 1..2 /\ minor \in Nat
  /\ fetched \in 0..changes
Places ==
  /\ pc \in {"propose", "agree", "establish", "context", "fetch", "states", "probing",
             "exchange", "dump", "signal", "stopping", "astray", "over"}
  /\ closer \in {"none", "stop", "release", "closed"}

LEMMA TypeParts == TypeOK <=> Flags /\ Streams /\ Numbers /\ Places
  BY DEF TypeOK, Flags, Streams, Numbers, Places

LEMMA FlagsStep == ASSUME Flags, [Next]_vars PROVE Flags'
<1> USE DEF daemon, client, Flags
<1>1. CASE Change \/ Wake
  BY <1>1 DEF Change, Wake
<1>2. CASE Serve
  BY <1>2 DEF Serve, ServeVersion, ServeEstablish, ServeStates, ServeExchange, ServeWait,
     ServeStop, ServeRelease, Hangup, Reject, Ends, Simply
<1>3. CASE Die
  BY <1>3 DEF Die, Reject, Ends
<1>4. CASE Client
  BY <1>4 DEF Client, Handshake, SendVersion, TakeVersion, TakeOther, Refused, Asks, Pause,
     WaitChange, TakeAnswer, Tick, Late, GoAstray, Fail, Sends, Takes
<1>5. CASE Close \/ Over \/ UNCHANGED vars
  BY <1>5 DEF Close, CloseStop, CloseRelease, CloseSocket, CloseSends, Over, vars
<1> QED BY <1>1, <1>2, <1>3, <1>4, <1>5 DEF Next, Daemon

LEMMA StreamsStep == ASSUME BInv, [Next]_vars PROVE Streams'
<1> USE DEF daemon, client
<1>0. Streams /\ Numbers
  BY TypeParts DEF BInv
<1>1. \A k \in {"version", "establish", "states", "exchange", "wait", "stop", "release"} :
        \A n \in Nat : Msg(k, n) \in Requests
  BY DEF Msg, Requests
<1>2. \A k \in {"agreed", "other", "context", "states", "answer", "dump", "signal",
                "stopped", "released"} :
        \A n \in Nat : Msg(k, n) \in Answers
  BY DEF Msg, Answers
<1>3. \A r \in Requests : Append(toDaemon, r) \in Seq(Requests)
  BY <1>0 DEF Streams
<1>4. \A a \in Answers : Append(toClient, a) \in Seq(Answers)
  BY <1>0 DEF Streams
<1>5. /\ toDaemon # <<>> => Tail(toDaemon) \in Seq(Requests)
      /\ toClient # <<>> => Tail(toClient) \in Seq(Answers)
  BY <1>0 DEF Streams
<1>6. <<>> \in Seq(Requests)
  OBVIOUS
<1>7. CASE Change \/ Wake
  BY <1>7, <1>0, <1>2, <1>4 DEF Change, Wake, Bare, Streams
<1>8. CASE ServeVersion \/ ServeEstablish \/ ServeStates \/ ServeExchange
  <2>1. PICK k \in {"agreed", "other", "context", "states", "answer"}, n \in Nat :
          Reply(Msg(k, n)) /\ toDaemon # <<>>
    BY <1>8, <1>0 DEF ServeVersion, ServeEstablish, ServeStates, ServeExchange, Simply, Bare,
       Numbers, Request, ClientAssumption
  <2> QED BY <2>1, <1>2, <1>4, <1>5 DEF Reply, Streams
<1>9. CASE ServeWait \/ ServeStop
  <2>1. CASE toDaemon' = Tail(toDaemon) /\ toDaemon # <<>> /\ UNCHANGED toClient
    BY <2>1, <1>0, <1>5 DEF Streams
  <2>2. CASE toDaemon' = <<>> /\ UNCHANGED toClient
    BY <2>2, <1>0, <1>6 DEF Streams
  <2>3. CASE toDaemon # <<>> /\ (Reply(Msg("dump", changes)) \/ Reply(Msg("stopped", 0)))
    BY <2>3, <1>0, <1>2, <1>4, <1>5 DEF Reply, Streams, Numbers
  <2> QED BY <1>9, <2>1, <2>2, <2>3
          DEF ServeWait, ServeStop, Request, NoReply, Reject, Ends, Bare
<1>10. CASE ServeRelease \/ Hangup \/ Die
  BY <1>10, <1>0, <1>2, <1>4, <1>6 DEF ServeRelease, Hangup, Die, Reject, Ends, Bare, Streams
<1>11. CASE SendVersion \/ Asks \/ WaitChange \/ Tick
  <2>1. PICK k \in {"version", "establish", "states", "exchange", "wait", "stop"}, n \in Nat :
          toDaemon' = Append(toDaemon, Msg(k, n)) /\ UNCHANGED toClient
    BY <1>11, <1>0 DEF SendVersion, Asks, WaitChange, Tick, Sends, Bare, WaitBody, Numbers
  <2> QED BY <2>1, <1>0, <1>1, <1>3 DEF Streams
<1>12. CASE TakeVersion \/ TakeOther \/ TakeAnswer
  <2>1. toClient # <<>> /\ toClient' = Tail(toClient) /\ UNCHANGED toDaemon
    BY <1>12 DEF TakeVersion, TakeOther, TakeAnswer, Takes, Readable
  <2> QED BY <2>1, <1>0, <1>5 DEF Streams
<1>13. CASE Refused \/ Pause \/ Late \/ GoAstray \/ Fail \/ CloseSocket \/ Over \/ UNCHANGED vars
  BY <1>13, <1>0 DEF Refused, Pause, Late, GoAstray, Fail, CloseSocket, Over, vars, Streams
<1>14. CASE CloseStop \/ CloseRelease
  BY <1>14, <1>0, <1>1, <1>3 DEF CloseStop, CloseRelease, CloseSends, Bare, Streams
<1> QED BY <1>7, <1>8, <1>9, <1>10, <1>11, <1>12, <1>13, <1>14
        DEF Next, Daemon, Serve, Client, Handshake, Close

LEMMA NumbersStep == ASSUME BInv, [Next]_vars PROVE Numbers'
<1> USE DEF daemon, client, Numbers
<1>0. Streams /\ Numbers /\ Honest
  BY TypeParts DEF BInv
<1>1. CASE Change
  BY <1>1, <1>0 DEF Change
<1>2. CASE Wake
  BY <1>2, <1>0 DEF Wake
<1>3. CASE Serve \/ (Die /\ UNCHANGED <<offered, changes, owed, client>>)
  BY <1>3, <1>0 DEF Serve
<1>4. CASE TakeVersion \/ TakeOther
  <2>1. toClient # <<>> /\ Head(toClient) \in Answers
    BY <1>4, <1>0 DEF TakeVersion, TakeOther, Takes, Readable, Streams
  <2>2. Head(toClient).data \in Nat
    BY <2>1 DEF Answers
  <2> QED BY <1>4, <1>0, <2>2 DEF TakeVersion, TakeOther, Takes, Agreed, Negotiable
<1>5. CASE TakeAnswer
  <2>1. UNCHANGED <<offered, changes, owed, proposal, round, minor>>
    BY <1>5 DEF TakeAnswer, Takes, Settled
  <2>2. CASE UNCHANGED fetched
    BY <1>0, <2>1, <2>2
  <2>3. CASE Takes("states") /\ fetched' = Head(toClient).data
    <3>1. toClient # <<>> /\ Head(toClient).kind \in {"states", "dump"}
      BY <2>3 DEF Takes, Readable, Awaited
    <3>2. Head(toClient) = toClient[1] /\ 1 \in 1..Len(toClient) /\ toClient[1] \in Answers
      BY <3>1, <1>0 DEF Streams
    <3>3. Head(toClient).data \in 0..changes
      BY <3>1, <3>2, <1>0 DEF Honest, Truthful, Answers
    <3> QED BY <1>0, <2>1, <2>3, <3>3
  <2> QED BY <1>5, <2>2, <2>3 DEF TakeAnswer
<1>6. CASE SendVersion \/ Refused \/ Asks \/ Pause \/ WaitChange \/ Tick
  BY <1>6, <1>0 DEF SendVersion, Refused, Asks, Pause, WaitChange, Tick, Sends, Settled
<1>7. CASE Late \/ GoAstray \/ Fail \/ Close \/ Over \/ UNCHANGED vars
  BY <1>7, <1>0 DEF Late, GoAstray, Fail, Close, CloseStop, CloseRelease, CloseSocket,
     CloseSends, Over, vars
<1> QED BY <1>1, <1>2, <1>3, <1>4, <1>5, <1>6, <1>7 DEF Next, Daemon, Client, Handshake

LEMMA PlacesStep == ASSUME Places, [Next]_vars PROVE Places'
<1> USE DEF daemon, client, Places
<1>1. CASE Daemon
  BY <1>1 DEF Daemon, Change, Wake, Serve
<1>2. CASE Handshake \/ Asks \/ Pause \/ WaitChange \/ Tick
  BY <1>2 DEF Handshake, SendVersion, TakeVersion, TakeOther, Refused, Asks, Pause, WaitChange,
     Tick, Sends, Takes
<1>3. CASE TakeAnswer
  BY <1>3 DEF TakeAnswer, Takes
<1>4. CASE Late \/ GoAstray \/ Fail
  <2>1. CASE Late
    BY <2>1 DEF Late, Belated, ClientAssumption
  <2> QED BY <1>4, <2>1 DEF GoAstray, Fail
<1>5. CASE Close \/ Over \/ UNCHANGED vars
  BY <1>5 DEF Close, CloseStop, CloseRelease, CloseSocket, CloseSends, Over, vars
<1> QED BY <1>1, <1>2, <1>3, <1>4, <1>5 DEF Next, Client

LEMMA TypeStep == ASSUME BInv, [Next]_vars PROVE TypeOK'
<1>1. Flags' /\ Streams' /\ Numbers' /\ Places'
  BY TypeParts, FlagsStep, StreamsStep, NumbersStep, PlacesStep DEF BInv
<1> QED BY <1>1 DEF TypeOK, Flags, Streams, Numbers, Places

-----------------------------------------------------------------------------
LEMMA HonestStep == ASSUME BInv, [Next]_vars PROVE Honest'
<1> USE DEF daemon, client
<1>0. Streams /\ Numbers /\ Honest /\ Proposing /\ Greeting /\ TypeOK
  BY TypeParts DEF BInv
<1>1. ASSUME UNCHANGED <<offered, round>>, changes' \in Nat, changes' >= changes,
             toClient' = toClient
      PROVE  Honest'
  <2> SUFFICES ASSUME NEW i \in 1..Len(toClient) PROVE Truthful(toClient[i])'
    BY <1>1 DEF Honest
  <2>1. Truthful(toClient[i])
    BY <1>0 DEF Honest
  <2>2. toClient[i] \in Answers
    BY <1>0 DEF Streams
  <2>3. toClient[i].data \in Nat
    BY <2>2 DEF Answers
  <2>4. toClient'[i] = toClient[i]
    BY <1>1
  <2> QED BY <2>1, <2>3, <2>4, <1>0, <1>1 DEF Truthful, Numbers
<1>2. ASSUME UNCHANGED <<offered, round, changes>>, toClient # <<>>, toClient' = Tail(toClient)
      PROVE  Honest'
  BY <1>0, <1>2 DEF Honest, Truthful, Streams
<1>3. ASSUME UNCHANGED <<offered, round, changes>>,
             NEW a \in Answers, Truthful(a), toClient' = Append(toClient, a)
      PROVE  Honest'
  BY <1>0, <1>3 DEF Honest, Truthful, Streams
<1>4. \A k \in {"context", "answer", "signal", "stopped", "released"} :
        Bare(k) \in Answers /\ Truthful(Bare(k))
  BY DEF Bare, Msg, Answers, Truthful
<1>5. \A k \in {"states", "dump"} : Msg(k, changes) \in Answers /\ Truthful(Msg(k, changes))
  BY <1>0 DEF Msg, Answers, Truthful, Numbers
<1>6. CASE Change
  BY <1>6, <1>1, <1>0 DEF Change, Numbers
<1>7. CASE Wake
  BY <1>7, <1>1, <1>3, <1>4, <1>0 DEF Wake, Numbers
<1>8. CASE Serve
  <2>0. UNCHANGED <<offered, round, changes>>
    BY <1>8 DEF Serve
  <2>1. CASE ServeVersion
    <3> DEFINE v == Head(toDaemon).data
               a == Msg(IF Accepts(v) THEN "agreed" ELSE "other", offered)
    <3>1. toDaemon # <<>> /\ Head(toDaemon).kind = "version" /\ toClient' = Append(toClient, a)
      BY <2>1 DEF ServeVersion, Request, Simply, Reply
    <3>2. v = proposal
      <4>1. Head(toDaemon) = toDaemon[1] /\ 1 \in 1..Len(toDaemon)
        BY <3>1, <1>0 DEF Streams
      <4> QED BY <3>1, <4>1, <1>0 DEF Proposing
    <3>3. a \in Answers
      BY <1>0 DEF Msg, Answers, Numbers, ClientAssumption
    <3>4. Truthful(a)
      BY <3>2, <1>0 DEF Truthful, Msg, Accepts, Proposing, Numbers, protocolVersionMinor,
         protocolVersionMinorBackward, ClientAssumption
    <3> QED BY <2>0, <3>1, <3>3, <3>4, <1>3
  <2>2. CASE ServeEstablish \/ ServeExchange
    BY <2>0, <2>2, <1>3, <1>4 DEF ServeEstablish, ServeExchange, Simply, Reply
  <2>3. CASE ServeStates
    BY <2>0, <2>3, <1>3, <1>5 DEF ServeStates, Simply, Reply
  <2>4. CASE ServeWait \/ ServeStop
    BY <2>0, <2>4, <1>0, <1>1, <1>3, <1>4, <1>5
       DEF ServeWait, ServeStop, Reply, NoReply, Reject, Numbers
  <2>5. CASE ServeRelease
    BY <2>0, <2>5, <1>3, <1>4 DEF ServeRelease
  <2>6. CASE Hangup
    BY <2>0, <2>6, <1>0, <1>1 DEF Hangup, Reject, Numbers
  <2> QED BY <1>8, <2>1, <2>2, <2>3, <2>4, <2>5, <2>6 DEF Serve
<1>9. CASE Die /\ UNCHANGED <<offered, changes, owed, client>>
  BY <1>9, <1>0, <1>1 DEF Die, Reject, Numbers
<1>10. CASE TakeOther
  <2>1. closer = "none"
    BY <1>10, <1>0 DEF TakeOther, Takes, Proposing
  <2>2. Up = <<"agreed">> \/ Up = <<"other">>
    BY <1>10, <2>1, <1>0, KindsOf DEF TakeOther, Takes, Readable, Greeting, Pending
  <2>3. Len(toClient) = 1
    <3>1. Len(Up) = 1
      BY <2>2
    <3> QED BY <3>1, <1>0 DEF Up, Kinds, Streams
  <2>4. Len(toClient') = 0
    BY <2>3, <1>10, <1>0 DEF TakeOther, Takes, Readable, Streams
  <2> QED BY <2>4 DEF Honest
<1>11. CASE TakeVersion \/ TakeAnswer
  BY <1>11, <1>2 DEF TakeVersion, TakeAnswer, Takes, Readable, Settled
<1>12. CASE SendVersion \/ Refused \/ Asks \/ Pause \/ WaitChange \/ Tick
  BY <1>12, <1>0, <1>1
     DEF SendVersion, Refused, Asks, Pause, WaitChange, Tick, Sends, Settled, Numbers
<1>13. CASE Late \/ GoAstray \/ Fail \/ Close \/ Over \/ UNCHANGED vars
  BY <1>13, <1>0, <1>1 DEF Late, GoAstray, Fail, Close, CloseStop, CloseRelease, CloseSocket,
     CloseSends, Over, vars, Numbers
<1> QED BY <1>6, <1>7, <1>8, <1>9, <1>10, <1>11, <1>12, <1>13 DEF Next, Daemon, Client, Handshake

LEMMA ProposingStep == ASSUME BInv, [Next]_vars PROVE Proposing'
<1> USE DEF daemon, client
<1>0. Streams /\ Numbers /\ Places /\ Honest /\ Proposing /\ Greeting /\ TypeOK
  BY TypeParts DEF BInv
<1>1. ASSUME UNCHANGED <<offered, pc, proposal, round, minor, closer>>,
             \A i \in 1..Len(toDaemon') : \E j \in 1..Len(toDaemon) : toDaemon'[i] = toDaemon[j]
      PROVE  Proposing'
  BY <1>0, <1>1 DEF Proposing
<1>2. (\/ toDaemon' = toDaemon
       \/ toDaemon' = <<>>
       \/ toDaemon # <<>> /\ toDaemon' = Tail(toDaemon))
      => \A i \in 1..Len(toDaemon') : \E j \in 1..Len(toDaemon) : toDaemon'[i] = toDaemon[j]
  <2>1. CASE toDaemon' = toDaemon
    BY <2>1
  <2>2. CASE toDaemon' = <<>>
    BY <2>2
  <2>3. CASE toDaemon # <<>> /\ toDaemon' = Tail(toDaemon)
    <3>1. \A i \in 1..Len(toDaemon') :
            i + 1 \in 1..Len(toDaemon) /\ toDaemon'[i] = toDaemon[i + 1]
      BY <2>3, <1>0 DEF Streams
    <3> QED BY <3>1
  <2> QED BY <2>1, <2>2, <2>3
<1>3. CASE Daemon
  <2>1. UNCHANGED <<offered, pc, proposal, round, minor, closer>>
    BY <1>3 DEF Daemon, Change, Wake, Serve
  <2>2. \/ toDaemon' = toDaemon
        \/ toDaemon' = <<>>
        \/ toDaemon # <<>> /\ toDaemon' = Tail(toDaemon)
    BY <1>3 DEF Daemon, Change, Wake, Serve, ServeVersion, ServeEstablish, ServeStates,
       ServeExchange, ServeWait, ServeStop, ServeRelease, Hangup, Die, Reject, Ends, Reply,
       NoReply, Simply, Request
  <2> QED BY <1>1, <1>2, <2>1, <2>2
\* A request that is not a version, or the version proposed now.
<1>4. ASSUME NEW r \in Requests, r.kind = "version" => r.data = proposal,
             toDaemon' = Append(toDaemon, r), UNCHANGED proposal
      PROVE  \A i \in 1..Len(toDaemon') :
               toDaemon'[i].kind = "version" => toDaemon'[i].data = proposal'
  BY <1>0, <1>4 DEF Proposing, Streams
<1>5. ASSUME NEW k \in {"establish", "states", "exchange", "wait", "stop", "release"},
             NEW n \in Nat
      PROVE  Msg(k, n) \in Requests /\ Msg(k, n).kind # "version"
  BY DEF Msg, Requests
<1>6. CASE SendVersion
  <2>1. Msg("version", proposal) \in Requests /\ Msg("version", proposal).data = proposal
    BY <1>0 DEF Msg, Requests, Numbers
  <2>2. \A i \in 1..Len(toDaemon') :
          toDaemon'[i].kind = "version" => toDaemon'[i].data = proposal'
    BY <1>4, <1>6, <2>1 DEF SendVersion, Sends
  <2> QED BY <1>6, <2>2, <1>0 DEF SendVersion, Sends, Proposing
<1>7. CASE TakeVersion
  <2>1. toClient # <<>> /\ Head(toClient).kind = "agreed" /\ Truthful(Head(toClient))
    <3>1. toClient # <<>> /\ Head(toClient).kind = "agreed"
      BY <1>7 DEF TakeVersion, Takes, Readable
    <3>2. Head(toClient) = toClient[1] /\ 1 \in 1..Len(toClient)
      BY <3>1, <1>0 DEF Streams
    <3> QED BY <3>1, <3>2, <1>0 DEF Honest
  <2>2. minor' = offered /\ offered >= protocolVersionMinorBackward
    BY <1>7, <2>1 DEF TakeVersion, Agreed, Truthful
  <2>3. pc = "agree" /\ pc' = "establish" /\ closer # "closed"
        /\ UNCHANGED <<daemon, toDaemon, proposal, round, closer>>
    BY <1>7 DEF TakeVersion, Takes, Readable
  <2>4. minor' # 0
    BY <2>2, <1>0 DEF Numbers, protocolVersionMinorBackward, ClientAssumption
  <2> QED BY <2>2, <2>3, <2>4, <1>0 DEF Proposing
<1>8. CASE TakeOther
  <2>1. pc = "agree" /\ closer # "closed" /\ toClient # <<>> /\ Head(toClient).kind = "other"
        /\ Negotiable /\ pc' = "propose" /\ proposal' = Head(toClient).data /\ round' = round + 1
        /\ UNCHANGED <<daemon, toDaemon, minor, closer>>
    BY <1>8 DEF TakeOther, Takes, Readable
  <2>2. Head(toClient) = toClient[1] /\ 1 \in 1..Len(toClient)
    BY <2>1, <1>0 DEF Streams
  <2>3. proposal' = offered /\ offered >= protocolVersionMinorBackward
    BY <2>1, <2>2, <1>0 DEF Honest, Truthful, Negotiable
  <2>4. closer = "none" /\ minor = 0
    BY <2>1, <1>0 DEF Proposing
  <2>5. toDaemon = <<>>
    <3>1. Up # <<>>
      BY <2>1, <1>0, KindsOf
    <3>2. Down = <<>>
      BY <2>1, <2>4, <3>1, <1>0 DEF Greeting, Pending
    <3> QED BY <3>2, <1>0, KindsOf
  <2>6. round' # 1
    BY <2>1, <1>0 DEF Numbers
  <2> QED BY <2>1, <2>3, <2>4, <2>5, <2>6, <1>0 DEF Proposing
<1>9. CASE Asks \/ WaitChange \/ Tick
  <2>1. PICK k \in {"establish", "states", "exchange", "wait", "stop"}, n \in Nat :
          toDaemon' = Append(toDaemon, Msg(k, n))
    BY <1>9, <1>0 DEF Asks, WaitChange, Tick, Sends, Bare, WaitBody, Numbers
  <2>2. /\ UNCHANGED <<offered, proposal, round, minor, closer>> /\ closer # "closed"
        /\ pc \in {"establish", "fetch", "probing", "signal"}
        /\ pc' \in {"context", "states", "exchange", "dump", "signal", "stopping"}
    BY <1>9 DEF Asks, WaitChange, Tick, Sends, Settled
  <2>3. \A i \in 1..Len(toDaemon') :
          toDaemon'[i].kind = "version" => toDaemon'[i].data = proposal'
    BY <1>4, <1>5, <2>1, <2>2
  <2> QED BY <2>2, <2>3, <1>0 DEF Proposing
<1>10. CASE Refused \/ Pause \/ TakeAnswer \/ Late \/ GoAstray \/ Fail
  <2>1. UNCHANGED <<offered, toDaemon, proposal, round, minor>>
    BY <1>10 DEF Refused, Pause, TakeAnswer, Takes, Settled, Late, GoAstray, Fail
  <2>2. closer' = closer \/ (closer' = "closed" /\ pc' = "over")
    BY <1>10 DEF Refused, Pause, TakeAnswer, Takes, Late, Belated, GoAstray, Fail
  <2>3. CASE Refused \/ Fail
    BY <2>1, <2>2, <2>3, <1>0 DEF Refused, Fail, Refusing, Readable, Proposing
  <2>4. CASE Pause \/ TakeAnswer
    BY <2>1, <2>2, <2>4, <1>0 DEF Pause, TakeAnswer, Takes, Readable, Proposing
  <2>5. CASE Late
    <3>1. minor # 0 /\ pc' \notin {"propose", "agree"}
      BY <2>5, <1>0 DEF Late, Belated, Proposing, ClientAssumption
    <3> QED BY <2>1, <2>2, <3>1, <1>0 DEF Proposing
  <2>6. CASE GoAstray
    <3>1. toClient # <<>> /\ closer # "closed" /\ Head(toClient).kind \notin Awaited[pc]
          /\ pc \in DOMAIN Awaited /\ pc' = "astray" /\ UNCHANGED closer
      BY <2>6 DEF GoAstray, Readable, Waiting
    <3>2. pc # "agree"
      <4> SUFFICES ASSUME pc = "agree" PROVE FALSE
        OBVIOUS
      <4>1. closer = "none"
        BY <3>1, <1>0 DEF Proposing
      <4>2. Up # <<>> /\ Head(Up) = Head(toClient).kind
        BY <3>1, <1>0, KindsOf
      <4>3. Head(Up) \in {"agreed", "other"}
        BY <4>1, <4>2, <1>0 DEF Greeting, Pending
      <4> QED BY <3>1, <4>2, <4>3 DEF Awaited
    <3>3. pc \notin {"propose", "over"}
      BY <3>1 DEF Awaited
    <3> QED BY <2>1, <3>1, <3>2, <3>3, <1>0 DEF Proposing
  <2> QED BY <1>10, <2>3, <2>4, <2>5, <2>6
<1>11. CASE CloseStop \/ CloseRelease
  <2>1. minor # 0
    BY <1>11, <1>0 DEF CloseStop, CloseRelease, CloseSends, Established, Proposing
  <2>2. PICK k \in {"stop", "release"} :
          toDaemon' = toDaemon \/ toDaemon' = Append(toDaemon, Msg(k, 0))
    BY <1>11 DEF CloseStop, CloseRelease, CloseSends, Bare
  <2>3. UNCHANGED <<offered, pc, proposal, round, minor>>
    BY <1>11 DEF CloseStop, CloseRelease, CloseSends
  <2>4. \A i \in 1..Len(toDaemon') :
          toDaemon'[i].kind = "version" => toDaemon'[i].data = proposal'
    BY <1>4, <1>5, <2>2, <2>3, <1>0 DEF Proposing
  <2> QED BY <2>1, <2>3, <2>4, <1>0 DEF Proposing
<1>12. CASE CloseSocket
  BY <1>12, <1>0 DEF CloseSocket, Proposing
<1>13. CASE Over \/ UNCHANGED vars
  BY <1>13, <1>0 DEF Over, vars, Proposing
<1> QED BY <1>3, <1>6, <1>7, <1>8, <1>9, <1>10, <1>11, <1>12, <1>13
        DEF Next, Client, Handshake, Close

LEMMA GreetingStep == ASSUME BInv, TypeOK', [Next]_vars PROVE Greeting'
<1> USE DEF daemon, client
<1>0. Greeting /\ Streams /\ Places /\ TypeOK
  BY TypeParts DEF BInv
<1> SUFFICES ASSUME closer' = "none", pc' \in {"propose", "agree"} PROVE Greeting'
  BY DEF Greeting
<1>1. ASSUME UNCHANGED <<pc, closer, registered, toDaemon, toClient>> PROVE Greeting'
  <2>1. Down' = Down /\ Up' = Up
    BY <1>1 DEF Down, Up, Kinds
  <2> QED BY <1>0, <1>1, <2>1 DEF Greeting, Settling, Pending
<1>2. CASE Daemon
  <2>1. pc' = pc /\ closer = "none"
    BY <1>2 DEF Daemon, Change, Wake, Serve
  <2>2. ~registered
    BY <1>0, <2>1 DEF Greeting, Settling, Pending
  <2>3. ASSUME Down' = <<>>, Up' = Up, registered' = FALSE PROVE Greeting'
    BY <1>0, <2>1, <2>3 DEF Greeting, Settling, Pending
  <2>4. CASE Change \/ Wake
    <3>1. registered' = FALSE /\ Down' = Down /\ Up' = Up
      BY <1>0, <2>2, <2>4, KindsMove DEF Change, Wake, TypeOK
    <3> QED BY <1>0, <2>1, <3>1 DEF Greeting, Settling, Pending
  <2>5. CASE Hangup \/ Die
    BY <1>0, <2>3, <2>5, KindsMove DEF Hangup, Die, Reject, Ends
  <2>6. CASE Serve /\ ~Hangup
    <3>1. serving /\ Down # <<>> /\ Head(Down) = Head(toDaemon).kind
      BY <1>0, <2>6, KindsOf DEF Serve, ServeVersion, ServeEstablish, ServeStates,
         ServeExchange, ServeWait, ServeStop, ServeRelease, Request
    <3>2. pc = "agree" /\ Up = <<>> /\ Down \in {<<"version">>, <<"stop", "version">>}
      BY <1>0, <2>1, <3>1 DEF Greeting, Settling, Pending
    <3>3. Head(Down) \in {"version", "stop"}
      BY <3>2
    <3>4. CASE ServeVersion
      <4>1. PICK a \in {"agreed", "other"} :
              Reply(Msg(a, offered)) /\ UNCHANGED registered /\ toDaemon # <<>>
        BY <3>4 DEF ServeVersion, Simply, Request
      <4>2. Msg(a, offered) \in Answers /\ Msg(a, offered).kind = a
        BY <1>0, ClientAssumption DEF Msg, Answers, TypeOK
      <4>3. Down' = Tail(Down) /\ Up' = Append(Up, a)
        BY <1>0, <4>1, <4>2, KindsMove DEF Reply
      <4>4. Head(Down) = "version"
        BY <3>1, <3>4 DEF ServeVersion, Request
      <4>5. Down = <<"version">>
        BY <3>2, <4>4
      <4>6. Down' = <<>> /\ Up' = <<a>>
        BY <3>2, <4>3, <4>5, Tuples
      <4> QED BY <2>1, <2>2, <3>2, <4>1, <4>6 DEF Greeting, Pending
    <3>5. CASE ServeStop
      <4>1. CASE Framed
        <5>1. Down' = Tail(Down) /\ Up' = Up /\ registered' = FALSE
          BY <1>0, <2>2, <3>5, <4>1, KindsMove DEF ServeStop, NoReply, Request
        <5>2. Head(Down) = "stop"
          BY <3>1, <3>5 DEF ServeStop, Request
        <5>3. Down = <<"stop", "version">>
          BY <3>2, <5>2
        <5>4. Down' = <<"version">> /\ Up' = <<>>
          BY <3>2, <5>1, <5>3, Tuples
        <5> QED BY <2>1, <3>2, <5>1, <5>4 DEF Greeting, Pending
      <4>2. CASE ~Framed
        BY <1>0, <2>3, <3>5, <4>2, KindsMove DEF ServeStop, Reject, Ends
      <4> QED BY <4>1, <4>2
    <3> QED BY <2>6, <3>1, <3>3, <3>4, <3>5
            DEF Serve, ServeEstablish, ServeStates, ServeExchange, ServeWait, ServeRelease, Request
  <2> QED BY <1>2, <2>4, <2>5, <2>6 DEF Daemon
<1>3. CASE SendVersion
  <2>1. Msg("version", proposal) \in Requests /\ Msg("version", proposal).kind = "version"
    BY <1>0 DEF Msg, Requests, TypeOK
  <2>2. pc = "propose" /\ pc' = "agree" /\ closer = "none" /\ UNCHANGED <<registered, toClient>>
    BY <1>3 DEF SendVersion, Sends
  <2>3. Down = <<>> /\ Up = <<>> /\ ~registered
    BY <1>0, <2>2 DEF Greeting, Settling
  <2>4. Down' = <<"version">> /\ Up' = <<>>
    BY <1>0, <1>3, <2>1, <2>3, KindsMove, Tuples DEF SendVersion, Sends
  <2> QED BY <2>2, <2>3, <2>4 DEF Greeting, Pending
<1>4. CASE TakeOther
  <2>1. /\ pc = "agree" /\ pc' = "propose" /\ closer = "none" /\ UNCHANGED registered
        /\ toClient # <<>> /\ toClient' = Tail(toClient) /\ toDaemon' = toDaemon
    BY <1>4 DEF TakeOther, Takes, Readable
  <2>2. Up # <<>> /\ Up' = Tail(Up) /\ Down' = Down
    BY <1>0, <2>1, KindsOf, KindsMove
  <2>3. ~registered /\ Down = <<>> /\ \E a \in {"agreed", "other"} : Up = <<a>>
    BY <1>0, <2>1, <2>2 DEF Greeting, Pending
  <2>4. Down' = <<>> /\ Up' = <<>>
    BY <2>2, <2>3, Tuples
  <2> QED BY <2>1, <2>3, <2>4 DEF Greeting, Settling
<1>5. CASE Close \/ Over \/ UNCHANGED vars
  <2>1. CASE Close
    BY <2>1 DEF Close, CloseStop, CloseRelease, CloseSocket, CloseSends
  <2>2. CASE Over \/ UNCHANGED vars
    BY <1>1, <2>2 DEF Over, vars
  <2> QED BY <1>5, <2>1, <2>2
<1>6. CASE Client /\ ~SendVersion /\ ~TakeOther
  <2>1. CASE Late
    BY <2>1, ClientAssumption DEF Late, Belated
  <2>2. CASE Client /\ ~Late
    BY <1>6, <2>2 DEF Client, Handshake, TakeVersion, Refused, Asks, Pause, WaitChange,
       TakeAnswer, Tick, GoAstray, Fail, Sends, Takes
  <2> QED BY <1>6, <2>1, <2>2
<1> QED BY <1>2, <1>3, <1>4, <1>5, <1>6 DEF Next

LEMMA Foundation == Spec => []BInv
<1>1. Init => BInv
  BY InitIInv
<1>2. ASSUME BInv, [Next]_vars PROVE BInv'
  BY <1>2, TypeStep, HonestStep, ProposingStep, GreetingStep DEF BInv
<1>3. BInv /\ [Next]_vars => BInv'
  BY <1>2
<1> QED BY <1>1, <1>3, PTL DEF Spec

-----------------------------------------------------------------------------
(* The states a call answers, whatever is late.  Two answers have the size *)
(* of the states, and a call that reads one of them reads the only one     *)
(* there is.                                                               *)

Asking(request) == request.kind = "states" \/ (request.kind = "wait" /\ New(offered))
Sized(answer) == answer.kind \in {"states", "dump"}

\* The requests of that size that are on their way, and the answers.
Calls == {i \in 1..Len(toDaemon) : Asking(toDaemon[i])}
Replies == {i \in 1..Len(toClient) : Sized(toClient[i])}

Quiet == Calls = {} /\ Replies = {}

\* One call is pending: request or answer, if any of them, is there once.
Single(request, answer) ==
  /\ \A i, j \in Calls : i = j
  /\ \A i, j \in Replies : i = j
  /\ Calls = {} \/ Replies = {}
  /\ \A i \in Calls : toDaemon[i].kind = request
  /\ \A i \in Replies : toClient[i].kind = answer

OneSnapshot ==
  /\ pc = "states" => Single("states", "states")
  /\ pc = "dump" => Single("wait", "dump")
  /\ pc \notin {"states", "dump", "astray", "over"} => Quiet

LEMMA QuietIsSingle == ASSUME NEW q, NEW a, Quiet PROVE Single(q, a)
  BY DEF Quiet, Single

\* Nothing of that size comes: messages go away, others come.
LEMMA NothingCalled ==
  ASSUME Streams, UNCHANGED offered,
         \/ toDaemon' = toDaemon
         \/ toDaemon' = <<>>
         \/ toDaemon # <<>> /\ toDaemon' = Tail(toDaemon)
         \/ \E r \in Requests : ~Asking(r) /\ toDaemon' = Append(toDaemon, r)
  PROVE  /\ Calls = {} => Calls' = {}
         /\ (\A i, j \in Calls : i = j) => \A i, j \in Calls' : i = j
         /\ \A q : (\A i \in Calls : toDaemon[i].kind = q)
                     => \A i \in Calls' : toDaemon'[i].kind = q
<1>1. PICK d \in 0..1 : \A i \in Calls' : i + d \in Calls /\ toDaemon'[i] = toDaemon[i + d]
  <2>1. CASE toDaemon' = toDaemon \/ toDaemon' = <<>>
    <3>1. \A i \in Calls' : i + 0 \in Calls /\ toDaemon'[i] = toDaemon[i + 0]
      BY <2>1 DEF Calls, Asking
    <3> QED BY <3>1
  <2>2. CASE toDaemon # <<>> /\ toDaemon' = Tail(toDaemon)
    <3>1. \A i \in 1..Len(toDaemon') : i + 1 \in 1..Len(toDaemon) /\ toDaemon'[i] = toDaemon[i + 1]
      BY <2>2 DEF Streams
    <3>2. \A i \in Calls' : i + 1 \in Calls /\ toDaemon'[i] = toDaemon[i + 1]
      BY <3>1 DEF Calls, Asking
    <3> QED BY <3>2
  <2>3. CASE \E r \in Requests : ~Asking(r) /\ toDaemon' = Append(toDaemon, r)
    <3>1. PICK r \in Requests : ~Asking(r) /\ toDaemon' = Append(toDaemon, r)
      BY <2>3
    <3>2. \A i \in 1..Len(toDaemon') :
            \/ i \in 1..Len(toDaemon) /\ toDaemon'[i] = toDaemon[i]
            \/ toDaemon'[i] = r
      BY <3>1 DEF Streams
    <3>3. \A i \in Calls' : i + 0 \in Calls /\ toDaemon'[i] = toDaemon[i + 0]
      BY <3>1, <3>2 DEF Calls, Asking
    <3> QED BY <3>3
  <2> QED BY <2>1, <2>2, <2>3
<1>2. \A i, j \in Calls' : i \in Nat /\ j \in Nat /\ (i + d = j + d => i = j)
  BY DEF Calls
<1> QED BY <1>1, <1>2

LEMMA NothingSent ==
  ASSUME Streams,
         \/ toClient' = toClient
         \/ toClient # <<>> /\ toClient' = Tail(toClient)
         \/ \E a \in Answers : ~Sized(a) /\ toClient' = Append(toClient, a)
  PROVE  /\ Replies = {} => Replies' = {}
         /\ (\A i, j \in Replies : i = j) => \A i, j \in Replies' : i = j
         /\ \A k : (\A i \in Replies : toClient[i].kind = k)
                     => \A i \in Replies' : toClient'[i].kind = k
<1>1. PICK d \in 0..1 : \A i \in Replies' : i + d \in Replies /\ toClient'[i] = toClient[i + d]
  <2>1. CASE toClient' = toClient
    <3>1. \A i \in Replies' : i + 0 \in Replies /\ toClient'[i] = toClient[i + 0]
      BY <2>1 DEF Replies, Sized
    <3> QED BY <3>1
  <2>2. CASE toClient # <<>> /\ toClient' = Tail(toClient)
    <3>1. \A i \in 1..Len(toClient') : i + 1 \in 1..Len(toClient) /\ toClient'[i] = toClient[i + 1]
      BY <2>2 DEF Streams
    <3>2. \A i \in Replies' : i + 1 \in Replies /\ toClient'[i] = toClient[i + 1]
      BY <3>1 DEF Replies, Sized
    <3> QED BY <3>2
  <2>3. CASE \E a \in Answers : ~Sized(a) /\ toClient' = Append(toClient, a)
    <3>1. PICK a \in Answers : ~Sized(a) /\ toClient' = Append(toClient, a)
      BY <2>3
    <3>2. \A i \in 1..Len(toClient') :
            \/ i \in 1..Len(toClient) /\ toClient'[i] = toClient[i]
            \/ toClient'[i] = a
      BY <3>1 DEF Streams
    <3>3. \A i \in Replies' : i + 0 \in Replies /\ toClient'[i] = toClient[i + 0]
      BY <3>1, <3>2 DEF Replies, Sized
    <3> QED BY <3>3
  <2> QED BY <2>1, <2>2, <2>3
<1>2. \A i, j \in Replies' : i \in Nat /\ j \in Nat /\ (i + d = j + d => i = j)
  BY DEF Replies
<1> QED BY <1>1, <1>2

\* What neither calls nor replies with that size leaves a pending call and a
\* quiet connection as they are.
Unrelated ==
  /\ \/ toDaemon' = toDaemon
     \/ toDaemon' = <<>>
     \/ toDaemon # <<>> /\ toDaemon' = Tail(toDaemon)
     \/ \E r \in Requests : ~Asking(r) /\ toDaemon' = Append(toDaemon, r)
  /\ \/ toClient' = toClient
     \/ toClient # <<>> /\ toClient' = Tail(toClient)
     \/ \E a \in Answers : ~Sized(a) /\ toClient' = Append(toClient, a)

LEMMA StillSingle ==
  ASSUME Streams, UNCHANGED offered, Unrelated
  PROVE  (Quiet => Quiet') /\ \A q, a : Single(q, a) => Single(q, a)'
<1>1. Quiet => Quiet'
  BY NothingCalled, NothingSent DEF Unrelated, Quiet
<1>2. ASSUME NEW q, NEW a, Single(q, a) PROVE Single(q, a)'
  <2>1. (\A i, j \in Calls' : i = j) /\ (\A i \in Calls' : toDaemon'[i].kind = q)
        /\ (Calls = {} => Calls' = {})
    BY <1>2, NothingCalled DEF Unrelated, Single
  <2>2. (\A i, j \in Replies' : i = j) /\ (\A i \in Replies' : toClient'[i].kind = a)
        /\ (Replies = {} => Replies' = {})
    BY <1>2, NothingSent DEF Unrelated, Single
  <2> QED BY <1>2, <2>1, <2>2 DEF Single
<1> QED BY <1>1, <1>2

\* The daemon answers the call that is pending: it was the only one.
LEMMA SingleAnswered ==
  ASSUME Streams, UNCHANGED offered, NEW q, NEW a, Single(q, a),
         toDaemon # <<>>, Asking(Head(toDaemon)), NEW m \in Answers, m.kind = a, Sized(m),
         Reply(m)
  PROVE  Single(q, a)' /\ Replies = {} /\ Replies' = {Len(toClient) + 1}
<1>1. 1 \in Calls
  BY DEF Streams, Calls
<1>2. Replies = {} /\ \A i \in Calls : i = 1
  BY <1>1 DEF Single
<1>3. Calls' = {}
  <2>1. \A i \in 1..Len(toDaemon') : i + 1 \in 1..Len(toDaemon) /\ toDaemon'[i] = toDaemon[i + 1]
    BY DEF Streams, Reply
  <2>2. \A i \in Calls' : i \in Nat /\ i + 1 \in Calls /\ i + 1 # 1
    BY <2>1 DEF Calls, Asking
  <2> QED BY <1>2, <2>2
<1>4. Replies' = {Len(toClient) + 1} /\ toClient'[Len(toClient) + 1] = m
  BY <1>2 DEF Streams, Reply, Replies, Sized
<1> QED BY <1>2, <1>3, <1>4 DEF Single

\* The client calls on a quiet connection.
LEMMA SingleCalled ==
  ASSUME Streams, Quiet, NEW r \in Requests, NEW a, UNCHANGED <<offered, toClient>>,
         toDaemon' = Append(toDaemon, r)
  PROVE  Single(r.kind, a)'
<1>1. Replies' = {}
  BY DEF Quiet, Replies, Sized
<1>2. \A i \in Calls' : i = Len(toDaemon) + 1 /\ toDaemon'[i] = r
  BY DEF Streams, Quiet, Calls, Asking
<1> QED BY <1>1, <1>2 DEF Single

\* The client takes the answer of its call: the connection is quiet again.
LEMMA SingleTaken ==
  ASSUME Streams, UNCHANGED <<offered, toDaemon>>, NEW q, NEW a, Single(q, a),
         toClient # <<>>, Sized(Head(toClient)), toClient' = Tail(toClient)
  PROVE  Quiet' /\ Head(toClient).kind = a
<1>1. 1 \in Replies /\ toClient[1] = Head(toClient)
  BY DEF Streams, Replies
<1>2. Calls = {} /\ (\A i \in Replies : i = 1) /\ Head(toClient).kind = a
  BY <1>1 DEF Single
<1>3. Calls' = {}
  BY <1>2 DEF Calls, Asking
<1>4. Replies' = {}
  <2>1. \A i \in 1..Len(toClient') : i + 1 \in 1..Len(toClient) /\ toClient'[i] = toClient[i + 1]
    BY DEF Streams
  <2>2. \A i \in Replies' : i \in Nat /\ i + 1 \in Replies /\ i + 1 # 1
    BY <2>1 DEF Replies, Sized
  <2> QED BY <1>2, <2>2
<1> QED BY <1>2, <1>3, <1>4 DEF Quiet

\* A message of the size of the states, in the position that has one pending.
LEMMA OnlyCall ==
  ASSUME OneSnapshot, Streams, pc \notin {"astray", "over"},
         toDaemon # <<>>, Asking(Head(toDaemon))
  PROVE  \/ pc = "states" /\ Single("states", "states") /\ Head(toDaemon).kind = "states"
         \/ pc = "dump" /\ Single("wait", "dump") /\ Head(toDaemon).kind = "wait"
<1>1. 1 \in Calls /\ toDaemon[1] = Head(toDaemon)
  BY DEF Calls, Streams
<1> QED BY <1>1 DEF OneSnapshot, Quiet, Single

LEMMA OneSnapshotStep == ASSUME BInv, OneSnapshot, [Next]_vars PROVE OneSnapshot'
<1> USE DEF daemon, client
<1>0. Streams /\ Numbers /\ Proposing
  BY TypeParts DEF BInv
<1>1. UNCHANGED offered
  BY DEF Next, vars, Daemon, Change, Wake, Serve, Client, Handshake, SendVersion, TakeVersion,
     TakeOther, Refused, Asks, Pause, WaitChange, TakeAnswer, Tick, Late, GoAstray, Fail, Sends,
     Takes, Close, CloseStop, CloseRelease, CloseSocket, CloseSends, Over
<1>2. ASSUME Unrelated, UNCHANGED pc PROVE OneSnapshot'
  BY <1>0, <1>1, <1>2, StillSingle DEF OneSnapshot
<1>3. ASSUME Unrelated, Quiet, pc' \notin {"states", "dump"} PROVE OneSnapshot'
  BY <1>0, <1>1, <1>3, StillSingle DEF OneSnapshot
<1>4. \A k \in {"version", "establish", "exchange", "stop", "release"}, n \in Nat :
        Msg(k, n) \in Requests /\ ~Asking(Msg(k, n))
  BY DEF Msg, Requests, Asking
<1>5. \A k \in {"agreed", "other", "context", "answer", "signal", "stopped", "released"}, n \in Nat :
        Msg(k, n) \in Answers /\ ~Sized(Msg(k, n))
  BY DEF Msg, Answers, Sized
<1>6. CASE Change \/ Wake
  BY <1>2, <1>5, <1>6 DEF Change, Wake, Bare, Unrelated
<1>7. CASE Serve /\ ~ServeStates /\ ~ServeWait
  <2>1. UNCHANGED pc /\ offered \in Nat
    BY <1>7, <1>0, ClientAssumption DEF Serve, Numbers
  <2>2. CASE ServeVersion \/ ServeEstablish \/ ServeExchange
    <3>1. PICK k \in {"agreed", "other", "context", "answer"}, n \in Nat :
            Reply(Msg(k, n)) /\ toDaemon # <<>>
      BY <2>1, <2>2 DEF ServeVersion, ServeEstablish, ServeExchange, Simply, Bare, Request
    <3> QED BY <1>2, <1>5, <2>1, <3>1 DEF Reply, Unrelated
  <2>3. CASE ServeStop \/ ServeRelease \/ Hangup
    BY <1>2, <1>5, <2>1, <2>3 DEF ServeStop, ServeRelease, Hangup, Reply, NoReply, Reject, Ends,
       Bare, Request, Unrelated
  <2> QED BY <1>7, <2>2, <2>3 DEF Serve
<1>8. CASE Serve /\ ServeStates
  <2>1. toDaemon # <<>> /\ Head(toDaemon).kind = "states" /\ UNCHANGED pc
        /\ Reply(Msg("states", changes))
    BY <1>8 DEF Serve, ServeStates, Request, Simply
  <2>2. Msg("states", changes) \in Answers /\ Msg("states", changes).kind = "states"
        /\ Sized(Msg("states", changes))
    BY <1>0 DEF Msg, Answers, Sized, Numbers
  <2>3. CASE pc \in {"astray", "over"}
    BY <2>1, <2>3 DEF OneSnapshot
  <2>4. CASE pc \notin {"astray", "over"}
    <3>1. pc = "states" /\ Single("states", "states")
      BY <1>0, <2>1, <2>4, OnlyCall DEF Asking
    <3>2. Single("states", "states")'
      BY <1>0, <1>1, <2>1, <2>2, <3>1, SingleAnswered DEF Asking
    <3> QED BY <2>1, <3>1, <3>2 DEF OneSnapshot
  <2> QED BY <2>3, <2>4
<1>9. CASE Serve /\ ServeWait
  <2>1. toDaemon # <<>> /\ Head(toDaemon).kind = "wait" /\ UNCHANGED pc
    BY <1>9 DEF Serve, ServeWait, Request
  <2>2. CASE ~New(offered)
    BY <1>2, <1>9, <2>1, <2>2 DEF ServeWait, NoReply, Reject, Ends, Unrelated
  <2>3. CASE New(offered)
    <3>1. Reply(Msg("dump", changes))
      BY <1>9, <2>3 DEF ServeWait, Framed
    <3>2. Msg("dump", changes) \in Answers /\ Msg("dump", changes).kind = "dump"
          /\ Sized(Msg("dump", changes))
      BY <1>0 DEF Msg, Answers, Sized, Numbers
    <3>3. CASE pc \in {"astray", "over"}
      BY <2>1, <3>3 DEF OneSnapshot
    <3>4. CASE pc \notin {"astray", "over"}
      <4>1. pc = "dump" /\ Single("wait", "dump")
        BY <1>0, <2>1, <2>3, <3>4, OnlyCall DEF Asking
      <4>2. Single("wait", "dump")'
        BY <1>0, <1>1, <2>1, <2>3, <3>1, <3>2, <4>1, SingleAnswered DEF Asking
      <4> QED BY <2>1, <4>1, <4>2 DEF OneSnapshot
    <3> QED BY <3>3, <3>4
  <2> QED BY <2>2, <2>3
<1>10. CASE Die /\ UNCHANGED <<offered, changes, owed, client>>
  BY <1>2, <1>10 DEF Die, Reject, Ends, Unrelated
<1>11. CASE SendVersion \/ Tick
  <2>1. PICK k \in {"version", "stop"}, n \in Nat :
          toDaemon' = Append(toDaemon, Msg(k, n)) /\ UNCHANGED toClient
    BY <1>11, <1>0 DEF SendVersion, Tick, Sends, WaitBody, Numbers
  <2>2. Quiet /\ pc' \notin {"states", "dump"}
    BY <1>11 DEF SendVersion, Tick, Sends, OneSnapshot
  <2> QED BY <1>3, <1>4, <2>1, <2>2 DEF Unrelated
<1>12. CASE Asks
  <2>1. Quiet /\ UNCHANGED toClient
    BY <1>12 DEF Asks, Sends, OneSnapshot
  <2>2. CASE pc' = "states"
    <3>1. Bare("states") \in Requests /\ Bare("states").kind = "states"
      BY DEF Bare, Msg, Requests
    <3>2. toDaemon' = Append(toDaemon, Bare("states"))
      BY <1>12, <2>2 DEF Asks, Sends
    <3>3. Single("states", "states")'
      BY <1>0, <1>1, <2>1, <3>1, <3>2, SingleCalled
    <3> QED BY <2>2, <3>3 DEF OneSnapshot
  <2>3. CASE pc' # "states"
    <3>1. PICK k \in {"establish", "exchange"} : toDaemon' = Append(toDaemon, Msg(k, 0))
      BY <1>12, <2>3 DEF Asks, Sends, Bare
    <3>2. pc' \notin {"states", "dump"}
      BY <1>12, <2>3 DEF Asks, Sends
    <3> QED BY <1>3, <1>4, <2>1, <3>1, <3>2 DEF Unrelated
  <2> QED BY <2>2, <2>3
<1>13. CASE WaitChange
  <2>1. Quiet /\ UNCHANGED toClient /\ toDaemon' = Append(toDaemon, Msg("wait", WaitBody))
        /\ pc' = IF New(offered) THEN "dump" ELSE "signal"
    BY <1>0, <1>13 DEF WaitChange, Sends, OneSnapshot, Proposing
  <2>2. Msg("wait", WaitBody) \in Requests /\ Msg("wait", WaitBody).kind = "wait"
    BY DEF Msg, Requests, WaitBody
  <2>3. CASE New(offered)
    <3>1. Single("wait", "dump")'
      BY <1>0, <1>1, <2>1, <2>2, SingleCalled
    <3> QED BY <2>1, <2>3, <3>1 DEF OneSnapshot
  <2>4. CASE ~New(offered)
    <3>1. ~Asking(Msg("wait", WaitBody)) /\ pc' = "signal"
      BY <2>1, <2>2, <2>4 DEF Asking
    <3> QED BY <1>3, <2>1, <2>2, <3>1 DEF Unrelated
  <2> QED BY <2>3, <2>4
<1>14. CASE TakeVersion \/ TakeOther \/ TakeAnswer
  <2>1. toClient # <<>> /\ toClient' = Tail(toClient) /\ UNCHANGED toDaemon
        /\ pc' \notin {"states", "dump"}
        /\ Head(toClient).kind \in Awaited[pc] /\ pc \notin {"astray", "over"}
    BY <1>14 DEF TakeVersion, TakeOther, TakeAnswer, Takes, Readable
  <2>2. CASE pc \in {"states", "dump"}
    <3>1. Sized(Head(toClient))
      BY <2>1, <2>2 DEF Awaited, Sized
    <3>2. \E q \in {"states", "wait"}, a \in {"states", "dump"} : Single(q, a)
      BY <2>2 DEF OneSnapshot
    <3>3. Quiet'
      BY <1>0, <1>1, <2>1, <3>1, <3>2, SingleTaken
    <3> QED BY <2>1, <3>3 DEF OneSnapshot
  <2>3. CASE pc \notin {"states", "dump"}
    BY <1>3, <2>1, <2>3 DEF OneSnapshot, Unrelated
  <2> QED BY <2>2, <2>3
<1>15. CASE Pause \/ Late
  <2>1. UNCHANGED <<toDaemon, toClient>>
    BY <1>15 DEF Pause, Late
  <2>2. CASE pc' = "over"
    BY <2>2 DEF OneSnapshot
  <2>3. CASE pc' # "over"
    <3>1. pc \in {"probing", "exchange", "stopping"} /\ pc' \in {"probing", "fetch"}
      <4>1. CASE Pause
        BY <4>1 DEF Pause
      <4>2. CASE Late
        <5>1. pc \in {"context", "states", "dump", "exchange", "stopping"} /\ pc' = Belated[pc]
          BY <4>2, ClientAssumption DEF Late
        <5> QED BY <2>3, <5>1 DEF Belated
      <4> QED BY <1>15, <4>1, <4>2
    <3>2. Quiet
      BY <3>1 DEF OneSnapshot
    <3> QED BY <1>3, <2>1, <3>1, <3>2 DEF Unrelated
  <2> QED BY <2>2, <2>3
<1>16. CASE Refused \/ GoAstray \/ Fail
  BY <1>16 DEF Refused, GoAstray, Fail, OneSnapshot
<1>17. CASE Close
  <2>1. UNCHANGED <<pc, toClient>>
    BY <1>17 DEF Close, CloseStop, CloseRelease, CloseSocket, CloseSends
  <2>2. CASE toDaemon' = toDaemon
    BY <1>2, <2>1, <2>2 DEF Unrelated
  <2>3. CASE toDaemon' # toDaemon
    <3>1. PICK k \in {"stop", "release"} : toDaemon' = Append(toDaemon, Msg(k, 0))
      BY <1>17, <2>3 DEF Close, CloseStop, CloseRelease, CloseSocket, CloseSends, Bare
    <3> QED BY <1>2, <1>4, <2>1, <3>1 DEF Unrelated
  <2> QED BY <2>2, <2>3
<1>18. CASE Over \/ UNCHANGED vars
  BY <1>2, <1>18 DEF Over, vars, Unrelated
<1> QED BY <1>6, <1>7, <1>8, <1>9, <1>10, <1>11, <1>12, <1>13, <1>14, <1>15, <1>16, <1>17, <1>18
        DEF Next, Daemon, Client, Handshake

LEMMA SnapshotsKnown == Spec => [](BInv /\ OneSnapshot)
<1>1. Init => OneSnapshot
  BY DEF Init, OneSnapshot, Quiet, Calls, Replies
<1>2. BInv /\ OneSnapshot /\ [Next]_vars => OneSnapshot'
  BY OneSnapshotStep
<1> QED BY <1>1, <1>2, Foundation, PTL DEF Spec

LEMMA ArrivingAppend ==
  ASSUME Streams, NEW a \in Answers, toClient' = Append(toClient, a)
  PROVE  Arriving' = Arriving \cup (IF a.kind = "states" THEN {a.data} ELSE {})
<1>1. /\ Len(toClient') = Len(toClient) + 1 /\ toClient'[Len(toClient) + 1] = a
      /\ \A i \in 1..Len(toClient) : toClient'[i] = toClient[i]
      /\ Len(toClient) \in Nat
  BY DEF Streams
<1>2. ASSUME NEW x \in Arriving' PROVE x \in Arriving \/ (a.kind = "states" /\ x = a.data)
  <2>1. PICK i \in 1..Len(toClient') : toClient'[i].kind = "states" /\ x = toClient'[i].data
    BY <1>2 DEF Arriving
  <2>2. i \in 1..Len(toClient) \/ i = Len(toClient) + 1
    BY <1>1, <2>1
  <2> QED BY <1>1, <2>1, <2>2 DEF Arriving
<1>3. ASSUME NEW x \in Arriving PROVE x \in Arriving'
  <2>1. PICK i \in 1..Len(toClient) : toClient[i].kind = "states" /\ x = toClient[i].data
    BY <1>3 DEF Arriving
  <2>2. i \in 1..Len(toClient')
    BY <1>1, <2>1
  <2> QED BY <1>1, <2>1, <2>2 DEF Arriving
<1>4. a.kind = "states" => a.data \in Arriving'
  <2>1. Len(toClient) + 1 \in 1..Len(toClient')
    BY <1>1
  <2> QED BY <1>1, <2>1 DEF Arriving
<1> QED BY <1>2, <1>3, <1>4

\* Each step of the connection is one of the abstract call, or none.
LEMMA SnapshotStep ==
  ASSUME BInv, OneSnapshot, [Next]_vars
  PROVE  [Snapshots!Next]_(Snapshots!vars)
<1> USE DEF daemon, client
<1>0. Streams /\ Numbers
  BY TypeParts DEF BInv
\* Nothing the caller notices.
<1>1. ASSUME UNCHANGED <<changes, fetched, pc>>, pc = "states" => Arriving' = Arriving
      PROVE  UNCHANGED Snapshots!vars
  BY <1>1 DEF Snapshots!vars
<1>2. ASSUME UNCHANGED <<changes, fetched>>, pc # "states", pc' # "states"
      PROVE  UNCHANGED Snapshots!vars
  BY <1>2 DEF Snapshots!vars
<1>3. ASSUME UNCHANGED <<changes, fetched>>, pc = "states", pc' # "states"
      PROVE  Snapshots!Next
  BY <1>3 DEF Snapshots!Next, Snapshots!Fail
<1>4. toClient' = toClient => Arriving' = Arriving
  BY DEF Arriving
<1>5. \A k \in {"agreed", "other", "context", "answer", "dump", "signal", "stopped", "released"},
         n \in Nat :
        toClient' = Append(toClient, Msg(k, n)) => Arriving' = Arriving
  <2>1. \A k \in {"agreed", "other", "context", "answer", "dump", "signal", "stopped",
                  "released"}, n \in Nat :
          Msg(k, n) \in Answers /\ Msg(k, n).kind # "states"
    BY DEF Msg, Answers
  <2> QED BY <1>0, <2>1, ArrivingAppend
<1>6. CASE Change
  <2>1. Arriving' = Arriving /\ UNCHANGED <<pc, fetched>> /\ changes' = changes + 1
    BY <1>4, <1>6 DEF Change
  <2> QED BY <2>1 DEF Snapshots!Next, Snapshots!Change
<1>7. CASE Wake
  BY <1>1, <1>4, <1>5, <1>7 DEF Wake, Bare
<1>8. CASE Serve /\ ~ServeStates
  <2>1. UNCHANGED <<changes, fetched, pc>> /\ offered \in Nat /\ changes \in Nat
    BY <1>8, <1>0, ClientAssumption DEF Serve, Numbers
  <2>2. \/ toClient' = toClient
        \/ \E k \in {"agreed", "other", "context", "answer", "dump", "stopped", "released"},
              n \in Nat : toClient' = Append(toClient, Msg(k, n))
    BY <1>8, <2>1 DEF Serve, ServeVersion, ServeEstablish, ServeExchange, ServeWait, ServeStop,
       ServeRelease, Hangup, Simply, Reply, NoReply, Reject, Bare
  <2> QED BY <1>1, <1>4, <1>5, <2>1, <2>2
<1>9. CASE Serve /\ ServeStates
  <2>1. UNCHANGED <<changes, fetched, pc>> /\ Reply(Msg("states", changes))
        /\ toDaemon # <<>> /\ Head(toDaemon).kind = "states"
    BY <1>9 DEF Serve, ServeStates, Simply, Request
  <2>2. CASE pc # "states"
    BY <1>1, <2>1, <2>2
  <2>3. CASE pc = "states"
    <3>1. Replies = {}
      <4>1. 1 \in Calls
        BY <1>0, <2>1 DEF Calls, Asking, Streams
      <4> QED BY <2>3, <4>1 DEF OneSnapshot, Single
    <3>2. Arriving = {}
      BY <3>1 DEF Arriving, Replies, Sized
    <3>3. Msg("states", changes) \in Answers /\ Msg("states", changes).kind = "states"
          /\ Msg("states", changes).data = changes
      BY <1>0 DEF Msg, Answers, Numbers
    <3>4. Arriving' = {changes}
      BY <1>0, <2>1, <3>2, <3>3, ArrivingAppend DEF Reply
    <3> QED BY <2>1, <2>3, <3>2, <3>4 DEF Snapshots!Next, Snapshots!Look
  <2> QED BY <2>2, <2>3
<1>10. CASE Die /\ UNCHANGED <<offered, changes, owed, client>>
  BY <1>1, <1>4, <1>10 DEF Die, Reject
<1>11. CASE Asks
  <2>1. UNCHANGED <<changes, fetched, toClient>> /\ pc # "states"
    BY <1>11 DEF Asks, Sends
  <2>2. CASE pc' = "states"
    <3>1. Quiet
      BY <1>11 DEF Asks, Sends, OneSnapshot
    <3>2. Arriving' = {}
      BY <1>4, <2>1, <3>1 DEF Quiet, Arriving, Replies, Sized
    <3> QED BY <2>1, <2>2, <3>2 DEF Snapshots!Next, Snapshots!Call
  <2> QED BY <1>2, <2>1, <2>2
<1>12. CASE TakeAnswer
  <2>1. CASE pc # "states"
    <3>1. UNCHANGED <<changes, fetched>> /\ pc' # "states"
      BY <1>12, <2>1 DEF TakeAnswer, Takes
    <3> QED BY <1>2, <2>1, <3>1
  <2>2. CASE pc = "states"
    <3>1. toClient # <<>> /\ Head(toClient).kind \in {"states", "dump"} /\ pc' = "probing"
          /\ fetched' = Head(toClient).data /\ UNCHANGED changes
      BY <1>12, <2>2 DEF TakeAnswer, Takes, Readable, Awaited
    <3>2. 1 \in Replies /\ toClient[1] = Head(toClient)
      BY <1>0, <3>1 DEF Streams, Replies, Sized
    <3>3. Head(toClient).kind = "states"
      BY <2>2, <3>2 DEF OneSnapshot, Single
    <3>4. Head(toClient).data \in Arriving
      BY <3>2, <3>3 DEF Replies, Arriving
    <3> QED BY <2>2, <3>1, <3>4 DEF Snapshots!Next, Snapshots!Return
  <2> QED BY <2>1, <2>2
<1>13. CASE Handshake \/ Pause \/ WaitChange \/ Tick
  <2>1. UNCHANGED <<changes, fetched>> /\ pc # "states" /\ pc' # "states"
    BY <1>13 DEF Handshake, SendVersion, TakeVersion, TakeOther, Refused, Refusing, Pause,
       WaitChange, Tick, Sends, Takes
  <2> QED BY <1>2, <2>1
<1>14. CASE Late
  <2>1. UNCHANGED <<changes, fetched>> /\ pc' # "states"
    BY <1>14, ClientAssumption DEF Late, Belated
  <2> QED BY <1>2, <1>3, <2>1
<1>15. CASE GoAstray \/ Fail
  <2>1. UNCHANGED <<changes, fetched>> /\ pc' # "states"
    BY <1>15 DEF GoAstray, Fail
  <2> QED BY <1>2, <1>3, <2>1
<1>16. CASE Close \/ Over \/ UNCHANGED vars
  <2>1. UNCHANGED <<changes, fetched, pc, toClient>>
    BY <1>16 DEF Close, CloseStop, CloseRelease, CloseSocket, CloseSends, Over, vars
  <2> QED BY <1>1, <1>4, <2>1
<1> QED BY <1>6, <1>7, <1>8, <1>9, <1>10, <1>11, <1>12, <1>13, <1>14, <1>15, <1>16
        DEF Next, Daemon, Client

-----------------------------------------------------------------------------
(* The positions of a connection nobody closes.                            *)

\* What the next request says of the position.
LEMMA Asked ==
  ASSUME InStep, Places, closer = "none", pc # "over", Down # <<>>
  PROVE  /\ ~registered \/ (pc = "stopping" /\ Down = <<"stop">> /\ Up = <<>>)
         /\ Up = <<>> \/ (pc = "stopping" /\ Down = <<"stop">> /\ Up = <<"signal">> /\ ~registered)
         /\ Head(Down) = "version" => pc = "agree" /\ Down = <<"version">>
         /\ Head(Down) = "establish" => pc = "context" /\ Down = <<"establish">>
         /\ Head(Down) = "states" => pc = "states" /\ Down = <<"states">>
         /\ Head(Down) = "exchange" => pc = "exchange" /\ Down = <<"exchange">>
         /\ Head(Down) = "wait" =>
              \/ pc \in {"dump", "signal"} /\ Down = <<"wait">>
              \/ pc = "stopping" /\ Down = <<"wait", "stop">>
         /\ Head(Down) # "release"
<1>1. CASE pc \in {"propose", "establish", "fetch", "probing"}
  BY <1>1 DEF InStep, Settling
<1>2. CASE pc = "agree"
  BY <1>2 DEF InStep, Pending
<1>3. CASE pc = "context"
  BY <1>3 DEF InStep, Pending
<1>4. CASE pc = "states"
  BY <1>4 DEF InStep, Pending
<1>5. CASE pc = "exchange"
  BY <1>5 DEF InStep, Pending
<1>6. CASE pc = "dump"
  BY <1>6 DEF InStep, Pending, Registering
<1>7. CASE pc = "signal"
  BY <1>7 DEF InStep, Waited
<1>8. CASE pc = "stopping"
  BY <1>8 DEF InStep, Stopping
<1>9. pc # "astray"
  BY DEF InStep
<1> QED BY <1>1, <1>2, <1>3, <1>4, <1>5, <1>6, <1>7, <1>8, <1>9 DEF Places

\* The answer that is read is one the position waits for, and the last one
\* except for the signal that may follow a dump.
LEMMA Answered ==
  ASSUME InStep, Places, closer = "none", pc # "over", Up # <<>>
  PROVE  /\ pc \in DOMAIN Awaited /\ Head(Up) \in Awaited[pc]
         /\ pc # "dump" => /\ ~registered /\ Tail(Up) = <<>>
                           /\ Down = <<>> \/ (pc = "stopping" /\ Down = <<"stop">>)
         /\ pc = "dump" => /\ Down = <<>>
                           /\ Tail(Up) = <<>> \/ (Tail(Up) = <<"signal">> /\ ~registered)
<1> DEFINE One(a) == Up = <<a>> /\ Head(Up) = a /\ Tail(Up) = <<>>
<1>0. ASSUME NEW a, Up = <<a>> PROVE One(a)
  BY <1>0, Tuples
<1>1. pc \notin {"propose", "establish", "fetch", "probing", "astray"}
  BY DEF InStep, Settling
<1>2. CASE pc \in {"agree", "context", "states", "exchange"}
  <2>1. Down = <<>> /\ ~registered /\ \E a \in Awaited[pc] : Up = <<a>>
    BY <1>2 DEF InStep, Pending, Awaited
  <2> QED BY <1>0, <1>2, <2>1 DEF Awaited
<1>3. CASE pc = "dump"
  <2>1. Down = <<>> /\ (Up = <<"dump">> \/ (Up = <<"dump", "signal">> /\ ~registered))
    BY <1>3 DEF InStep, Registering, Pending
  <2>2. Head(<<"dump", "signal">>) = "dump" /\ Tail(<<"dump", "signal">>) = <<"signal">>
    BY Tuples
  <2> QED BY <1>0, <1>3, <2>1, <2>2 DEF Awaited
<1>4. CASE pc = "signal"
  <2>1. Down = <<>> /\ ~registered /\ Up = <<"signal">>
    BY <1>4 DEF InStep, Waited
  <2> QED BY <1>0, <1>4, <2>1 DEF Awaited
<1>5. CASE pc = "stopping"
  <2>1. Down \in {<<>>, <<"stop">>} /\ ~registered /\ (Up = <<"signal">> \/ Up = <<"stopped">>)
    BY <1>5 DEF InStep, Stopping
  <2> QED BY <1>0, <1>5, <2>1 DEF Awaited
<1> QED BY <1>1, <1>2, <1>3, <1>4, <1>5 DEF Places

LEMMA DaemonInStep == ASSUME IInv, TypeOK', Daemon PROVE InStep'
<1> USE DEF daemon, client
<1>0. InStep /\ Places /\ Streams /\ TypeOK /\ UNCHANGED <<pc, closer, minor>>
  BY TypeParts DEF BInv, IInv, Daemon, Change, Wake, Serve
<1> SUFFICES ASSUME closer = "none", pc # "over" PROVE InStep'
  BY <1>0 DEF InStep
<1>1. ASSUME Down' = Down, Up' = Up, registered' = registered PROVE InStep'
  BY <1>0, <1>1 DEF InStep, Settling, Pending, Registering, Waited, Stopping
\* A connection that ends loses the requests, not the answers.
<1>2. ASSUME Down' = <<>>, Up' = Up, registered' = FALSE PROVE InStep'
  <2>1. CASE Down = <<>>
    BY <1>0, <1>2, <2>1 DEF InStep, Settling, Pending, Registering, Waited, Stopping
  <2>2. CASE Down # <<>>
    BY <1>0, <1>2, <2>2, Asked DEF InStep, Settling, Pending, Registering, Waited, Stopping
  <2> QED BY <2>1, <2>2
<1>3. CASE Change
  BY <1>0, <1>1, <1>3, KindsMove DEF Change
<1>4. CASE Wake
  <2>1. CASE ~registered
    <3>1. registered' = registered
      BY <1>0, <1>4, <2>1 DEF Wake, TypeOK
    <3>2. Down' = Down /\ Up' = Up
      BY <1>0, <1>4, <2>1, KindsMove DEF Wake
    <3> QED BY <1>1, <3>1, <3>2
  <2>2. CASE registered
    <3>1. Bare("signal") \in Answers /\ Bare("signal").kind = "signal"
      BY DEF Bare, Msg, Answers
    <3>2. registered' = FALSE /\ Down' = Down /\ Up' = Append(Up, "signal")
      BY <1>0, <1>4, <2>2, <3>1, KindsMove DEF Wake
    <3>3. \/ pc = "dump" /\ New(minor) /\ Down = <<>> /\ Up = <<"dump">>
          \/ pc = "signal" /\ Down = <<>> /\ Up = <<>>
          \/ pc = "stopping" /\ Down = <<"stop">> /\ Up = <<>>
      BY <1>0, <2>2 DEF InStep, Places, Settling, Pending, Registering, Waited, Stopping
    <3>4. Append(<<"dump">>, "signal") = <<"dump", "signal">>
          /\ Append(<<>>, "signal") = <<"signal">>
      BY Tuples
    <3>5. CASE pc = "dump"
      <4>1. Down' = <<>> /\ Up' = <<"dump", "signal">> /\ New(minor')
        BY <1>0, <3>2, <3>3, <3>4, <3>5
      <4> QED BY <1>0, <3>2, <3>5, <4>1 DEF InStep, Registering
    <3>6. CASE pc = "signal"
      <4>1. Down' = <<>> /\ Up' = <<"signal">>
        BY <3>2, <3>3, <3>4, <3>6
      <4> QED BY <1>0, <3>2, <3>6, <4>1 DEF InStep, Waited
    <3>7. CASE pc = "stopping"
      <4>1. Down' = <<"stop">> /\ Up' = <<"signal">>
        BY <3>2, <3>3, <3>4, <3>7
      <4> QED BY <1>0, <3>2, <3>7, <4>1 DEF InStep, Stopping
    <3> QED BY <3>3, <3>5, <3>6, <3>7
  <2> QED BY <2>1, <2>2
<1>5. CASE ServeVersion \/ ServeEstablish \/ ServeStates \/ ServeExchange
  <2>1. PICK k \in {"version", "establish", "states", "exchange"},
             a \in {"agreed", "other", "context", "states", "answer"}, n \in Nat :
          /\ toDaemon # <<>> /\ Head(toDaemon).kind = k
          /\ Reply(Msg(a, n)) /\ UNCHANGED registered
          /\ k = "version" => a \in {"agreed", "other"}
          /\ k = "establish" => a = "context"
          /\ k = "states" => a = "states"
          /\ k = "exchange" => a = "answer"
    <3>1. offered \in Nat /\ changes \in Nat /\ 0 \in Nat
      BY <1>0, ClientAssumption DEF TypeOK
    <3>2. CASE ServeVersion
      BY <3>1, <3>2 DEF ServeVersion, Simply, Request
    <3>3. CASE ServeEstablish
      BY <3>1, <3>3 DEF ServeEstablish, Simply, Request, Bare
    <3>4. CASE ServeStates
      BY <3>1, <3>4 DEF ServeStates, Simply, Request
    <3>5. CASE ServeExchange
      BY <3>1, <3>5 DEF ServeExchange, Simply, Request, Bare
    <3> QED BY <1>5, <3>2, <3>3, <3>4, <3>5
  <2>2. Msg(a, n) \in Answers /\ Msg(a, n).kind = a
    BY DEF Msg, Answers
  <2>3. Down # <<>> /\ Head(Down) = k /\ Down' = Tail(Down) /\ Up' = Append(Up, a)
    BY <1>0, <2>1, <2>2, KindsOf, KindsMove DEF Reply
  <2>4. Down = <<k>> /\ Up = <<>> /\ ~registered
        /\ pc = CASE k = "version" -> "agree" [] k = "establish" -> "context" [] OTHER -> k
    BY <1>0, <2>3, Asked
  <2>5. Down' = <<>> /\ Up' = <<a>>
    BY <2>3, <2>4, Tuples
  <2> QED BY <1>0, <2>1, <2>4, <2>5 DEF InStep, Pending
<1>6. CASE ServeWait
  <2>0. toDaemon # <<>> /\ Head(toDaemon).kind = "wait"
    BY <1>6 DEF ServeWait, Request
  <2>1. Down # <<>> /\ Head(Down) = "wait"
    BY <1>0, <2>0, KindsOf
  <2>2. Up = <<>> /\ ~registered
        /\ \/ pc = "dump" /\ Down = <<"wait">> /\ New(minor)
           \/ pc = "signal" /\ Down = <<"wait">> /\ ~New(minor)
           \/ pc = "stopping" /\ Down = <<"wait", "stop">> /\ ~New(minor)
    BY <1>0, <2>1, Asked DEF InStep, Waited, Stopping
  <2>3. CASE ~Framed
    BY <1>0, <1>2, <1>6, <2>3, KindsMove DEF ServeWait, Reject, Ends
  <2>4. CASE Framed
    <3>1. offered = minor
      BY <2>2 DEF BInv, IInv, Proposing
    <3>2. Msg("dump", changes) \in Answers /\ Msg("dump", changes).kind = "dump"
      BY <1>0 DEF Msg, Answers, TypeOK
    <3>3. Down' = Tail(Down) /\ Up' = IF New(minor) THEN Append(Up, "dump") ELSE Up
      BY <1>0, <1>6, <2>0, <2>4, <3>1, <3>2, KindsMove DEF ServeWait, Reply, NoReply
    <3>4. CASE pc = "dump"
      <4>1. Down' = <<>> /\ Up' = <<"dump">> /\ New(minor')
        BY <1>0, <2>2, <3>3, <3>4, Tuples
      <4> QED BY <1>0, <3>4, <4>1 DEF InStep, Registering
    <3>5. CASE pc = "signal"
      <4>1. Down' = <<>> /\ Up' = <<>>
        BY <2>2, <3>3, <3>5, Tuples
      <4> QED BY <1>0, <3>5, <4>1 DEF InStep, Waited
    <3>6. CASE pc = "stopping"
      <4>1. Tail(<<"wait", "stop">>) = <<"stop">>
        BY Tuples
      <4>2. Down' = <<"stop">> /\ Up' = <<>>
        BY <2>2, <3>3, <3>6, <4>1
      <4> QED BY <1>0, <3>6, <4>2 DEF InStep, Stopping
    <3> QED BY <2>2, <3>4, <3>5, <3>6
  <2> QED BY <2>3, <2>4
<1>7. CASE ServeStop
  <2>0. toDaemon # <<>> /\ Head(toDaemon).kind = "stop"
    BY <1>7 DEF ServeStop, Request
  <2>1. Down # <<>> /\ Head(Down) = "stop"
    BY <1>0, <2>0, KindsOf
  <2>2. CASE ~Framed
    BY <1>0, <1>2, <1>7, <2>2, KindsMove DEF ServeStop, Reject, Ends
  <2>3. CASE Framed /\ registered
    <3>1. Bare("stopped") \in Answers /\ Bare("stopped").kind = "stopped"
      BY DEF Bare, Msg, Answers
    <3>2. pc = "stopping" /\ Down = <<"stop">> /\ Up = <<>>
      BY <1>0, <2>1, <2>3, Asked
    <3>3. Down' = Tail(Down) /\ Up' = Append(Up, "stopped") /\ registered' = FALSE
      BY <1>0, <1>7, <2>0, <2>3, <3>1, KindsMove DEF ServeStop, Reply
    <3>4. Down' = <<>> /\ Up' = <<"stopped">>
      BY <3>2, <3>3, Tuples
    <3> QED BY <1>0, <3>2, <3>3, <3>4 DEF InStep, Stopping
  <2>4. CASE Framed /\ ~registered
    <3>1. Down' = Tail(Down) /\ Up' = Up /\ registered' = FALSE
      BY <1>0, <1>7, <2>0, <2>4, KindsMove DEF ServeStop, NoReply
    <3>2. CASE pc \in {"propose", "establish", "fetch", "probing"}
      <4>1. Down = <<"stop">> /\ Up = <<>> /\ pc \in {"fetch", "probing"}
        BY <1>0, <2>1, <3>2 DEF InStep, Settling
      <4>2. Down' = <<>> /\ Up' = <<>>
        BY <3>1, <4>1, Tuples
      <4> QED BY <1>0, <3>1, <4>1, <4>2 DEF InStep, Settling
    <3>3. ASSUME NEW k, Down = <<"stop", k>>, Up = <<>>
          PROVE  Down' = <<k>> /\ Up' = <<>>
      BY <3>1, <3>3, Tuples
    <3>4. CASE pc = "agree"
      <4>1. Down = <<"stop", "version">> /\ Up = <<>>
        BY <1>0, <2>1, <3>4 DEF InStep, Pending
      <4> QED BY <1>0, <3>1, <3>3, <3>4, <4>1 DEF InStep, Pending
    <3>5. CASE pc = "context"
      <4>1. Down = <<"stop", "establish">> /\ Up = <<>>
        BY <1>0, <2>1, <3>5 DEF InStep, Pending
      <4> QED BY <1>0, <3>1, <3>3, <3>5, <4>1 DEF InStep, Pending
    <3>6. CASE pc = "states"
      <4>1. Down = <<"stop", "states">> /\ Up = <<>>
        BY <1>0, <2>1, <3>6 DEF InStep, Pending
      <4> QED BY <1>0, <3>1, <3>3, <3>6, <4>1 DEF InStep, Pending
    <3>7. CASE pc = "exchange"
      <4>1. Down = <<"stop", "exchange">> /\ Up = <<>>
        BY <1>0, <2>1, <3>7 DEF InStep, Pending
      <4> QED BY <1>0, <3>1, <3>3, <3>7, <4>1 DEF InStep, Pending
    <3>8. CASE pc = "dump"
      <4>1. Down = <<"stop", "wait">> /\ Up = <<>> /\ New(minor)
        BY <1>0, <2>1, <3>8 DEF InStep, Registering, Pending
      <4> QED BY <1>0, <3>1, <3>3, <3>8, <4>1 DEF InStep, Registering, Pending
    <3>9. CASE pc = "signal"
      <4>1. Down = <<"stop", "wait">> /\ Up = <<>> /\ ~New(minor)
        BY <1>0, <2>1, <3>9 DEF InStep, Waited
      <4> QED BY <1>0, <3>1, <3>3, <3>9, <4>1 DEF InStep, Waited
    <3>10. CASE pc = "stopping" /\ Down = <<"stop">>
      <4>1. Down' = <<>>
        BY <3>1, <3>10, Tuples
      <4> QED BY <1>0, <3>1, <3>10, <4>1 DEF InStep, Stopping
    <3>11. CASE pc = "stopping" /\ Down # <<"stop">>
      <4>1. Down = <<"stop", "wait", "stop">> /\ Up = <<>> /\ ~New(minor)
        BY <1>0, <2>1, <3>11 DEF InStep, Stopping
      <4>2. Down' = <<"wait", "stop">>
        BY <3>1, <4>1, Tuples
      <4> QED BY <1>0, <3>1, <3>11, <4>1, <4>2 DEF InStep, Stopping
    <3>12. pc # "astray"
      BY <1>0 DEF InStep
    <3> QED BY <1>0, <3>2, <3>4, <3>5, <3>6, <3>7, <3>8, <3>9, <3>10, <3>11, <3>12 DEF Places
  <2> QED BY <2>2, <2>3, <2>4
<1>8. CASE ServeRelease
  BY <1>0, <1>8, KindsOf, Asked DEF ServeRelease, Request
<1>9. CASE Hangup \/ Die
  BY <1>0, <1>2, <1>9, KindsMove DEF Hangup, Die, Reject, Ends
<1> QED BY <1>3, <1>4, <1>5, <1>6, <1>7, <1>8, <1>9 DEF Daemon, Serve

LEMMA ClientInStep == ASSUME IInv, TypeOK', Careful, Client PROVE InStep'
<1> USE DEF daemon, client
<1>0. InStep /\ Places /\ Streams /\ TypeOK /\ Proposing
  BY TypeParts DEF BInv, IInv
<1> SUFFICES ASSUME closer' = "none" PROVE InStep'
  BY DEF InStep
<1>1. closer = "none" /\ UNCHANGED registered
  BY <1>0 DEF Client, Handshake, SendVersion, TakeVersion, TakeOther, Refused, Asks, Pause,
     WaitChange, TakeAnswer, Tick, Late, GoAstray, Fail, Sends, Takes
<1>2. CASE SendVersion
  <2>1. Msg("version", proposal) \in Requests /\ Msg("version", proposal).kind = "version"
    BY <1>0 DEF Msg, Requests, TypeOK
  <2>2. Down = <<>> /\ Up = <<>> /\ ~registered
    BY <1>0, <1>1, <1>2 DEF SendVersion, Sends, InStep, Settling
  <2>3. Down' = <<"version">> /\ Up' = <<>>
    BY <1>0, <1>2, <2>1, <2>2, KindsMove, Tuples DEF SendVersion, Sends
  <2> QED BY <1>1, <1>2, <2>2, <2>3 DEF SendVersion, Sends, InStep, Pending
\* A call that is answered: its request goes behind what is on its way.
<1>3. ASSUME NEW k, Down' = Append(Down, k), Up' = Up, Settling
      PROVE  ~registered' /\ Up' = <<>> /\ Down' \in {<<k>>, <<"stop", k>>}
  BY <1>1, <1>3, Tuples DEF Settling
<1>4. CASE Asks
  <2>1. \A k \in {"establish", "states", "exchange"} :
          Bare(k) \in Requests /\ Bare(k).kind = k
    BY DEF Bare, Msg, Requests
  <2>2. PICK from \in {"establish", "fetch", "probing"},
             k \in {"establish", "states", "exchange"} :
          /\ pc = from /\ pc' = IF k = "establish" THEN "context" ELSE k
          /\ toDaemon' = Append(toDaemon, Bare(k)) /\ UNCHANGED toClient
    BY <1>4 DEF Asks, Sends
  <2>3. Down' = Append(Down, k) /\ Up' = Up
    BY <1>0, <2>1, <2>2, KindsMove
  <2>4. Settling
    BY <1>0, <1>1, <2>2 DEF InStep
  <2>5. ~registered' /\ Up' = <<>> /\ Down' \in {<<k>>, <<"stop", k>>}
    BY <1>3, <2>3, <2>4
  <2> QED BY <2>2, <2>5 DEF InStep, Pending
<1>5. CASE Pause
  <2>1. Down' = Down /\ Up' = Up
    BY <1>0, <1>5, KindsMove DEF Pause
  <2> QED BY <1>0, <1>1, <1>5, <2>1 DEF Pause, InStep, Settling
<1>6. CASE WaitChange
  <2>1. Msg("wait", WaitBody) \in Requests /\ Msg("wait", WaitBody).kind = "wait"
    BY DEF WaitBody, Msg, Requests
  <2>2. Down' = Append(Down, "wait") /\ Up' = Up
    BY <1>0, <1>6, <2>1, KindsMove DEF WaitChange, Sends
  <2>3. Settling
    BY <1>0, <1>1, <1>6 DEF WaitChange, Sends, InStep
  <2>4. ~registered' /\ Up' = <<>> /\ Down' \in {<<"wait">>, <<"stop", "wait">>}
    BY <1>3, <2>2, <2>3
  <2> QED BY <1>6, <2>4 DEF WaitChange, Sends, InStep, Registering, Pending, Waited
<1>7. CASE Tick
  <2>1. Msg("stop", WaitBody) \in Requests /\ Msg("stop", WaitBody).kind = "stop"
    BY DEF WaitBody, Msg, Requests
  <2>2. Down' = Append(Down, "stop") /\ Up' = Up /\ UNCHANGED minor
    BY <1>0, <1>7, <2>1, KindsMove DEF Tick, Sends
  <2>3. Waited /\ pc' = "stopping"
    BY <1>0, <1>1, <1>7 DEF Tick, Sends, InStep
  <2>4. /\ Append(<<>>, "stop") = <<"stop">>
        /\ Append(<<"wait">>, "stop") = <<"wait", "stop">>
        /\ Append(<<"stop", "wait">>, "stop") = <<"stop", "wait", "stop">>
    <3>1. Append(<<>>, "stop") = <<"stop">>
      BY Tuples
    <3>2. Append(<<"wait">>, "stop") = <<"wait", "stop">>
      BY AppendOne
    <3>3. Append(<<"stop", "wait">>, "stop") = <<"stop", "wait", "stop">>
      BY AppendTwo
    <3> QED BY <3>1, <3>2, <3>3
  <2>5. Stopping'
    BY <1>1, <2>2, <2>3, <2>4 DEF Waited, Stopping
  <2> QED BY <2>3, <2>5 DEF InStep
<1>8. CASE Refused \/ GoAstray
  <2>1. CASE Refused
    BY <2>1 DEF Refused
  <2>2. CASE GoAstray
    <3>1. toClient # <<>> /\ pc \in DOMAIN Awaited /\ Head(toClient).kind \notin Awaited[pc]
      BY <2>2 DEF GoAstray, Waiting, Readable
    <3>2. Up # <<>> /\ Head(Up) = Head(toClient).kind /\ pc # "over"
      BY <1>0, <3>1, KindsOf DEF Awaited
    <3> QED BY <1>0, <1>1, <3>1, <3>2, Answered
  <2> QED BY <1>8, <2>1, <2>2
<1>9. CASE TakeVersion \/ TakeOther \/ TakeAnswer
  <2>1. /\ toClient # <<>> /\ toClient' = Tail(toClient) /\ UNCHANGED toDaemon
        /\ \/ pc = "agree" /\ pc' \in {"establish", "propose"}
           \/ pc = "dump" /\ pc' = "signal"
           \/ pc \in {"context", "states", "exchange", "signal", "stopping"}
              /\ pc' \in {"fetch", "probing"}
    BY <1>9 DEF TakeVersion, TakeOther, TakeAnswer, Takes, Readable
  <2>2. Up # <<>> /\ Up' = Tail(Up) /\ Down' = Down
    BY <1>0, <2>1, KindsOf, KindsMove
  <2>3. CASE pc = "dump"
    BY <1>0, <1>1, <2>1, <2>2, <2>3, Answered DEF InStep, Waited
  <2>4. CASE pc # "dump"
    <3>1. Up' = <<>> /\ ~registered' /\ (Down' = <<>> \/ (pc = "stopping" /\ Down' = <<"stop">>))
      BY <1>0, <1>1, <2>1, <2>2, <2>4, Answered
    <3> QED BY <2>1, <2>4, <3>1 DEF InStep, Settling
  <2> QED BY <2>3, <2>4
<1>10. CASE Late \/ Fail
  <2>1. CASE Late
    <3>1. pc \in {"context", "states", "dump"} /\ pc' = Belated[pc]
      BY <2>1 DEF Careful, Late
    <3> QED BY <3>1 DEF Belated, InStep
  <2>2. CASE Fail
    BY <2>2 DEF Fail, InStep
  <2> QED BY <1>10, <2>1, <2>2
<1> QED BY <1>2, <1>4, <1>5, <1>6, <1>7, <1>8, <1>9, <1>10 DEF Client, Handshake

LEMMA Invariance == ASSUME Careful PROVE Spec => []IInv
<1>1. Init => IInv
  BY InitIInv
<1>2. ASSUME IInv, [Next]_vars PROVE IInv'
  <2>1. TypeOK' /\ BInv'
    BY <1>2, TypeStep, HonestStep, ProposingStep, GreetingStep DEF BInv, IInv
  <2>2. InStep'
    <3>1. CASE Daemon
      BY <1>2, <2>1, <3>1, DaemonInStep
    <3>2. CASE Client
      BY <1>2, <2>1, <3>2, ClientInStep
    <3>3. CASE Close
      BY <3>3 DEF Close, CloseStop, CloseRelease, CloseSocket, CloseSends, InStep
    <3>4. CASE Over \/ UNCHANGED vars
      <4>1. UNCHANGED vars
        BY <3>4 DEF Over
      <4>2. Down' = Down /\ Up' = Up /\ UNCHANGED <<pc, closer, registered, minor>>
        BY <4>1 DEF vars, daemon, client, Down, Up
      <4> QED BY <1>2, <4>2
              DEF IInv, InStep, Settling, Pending, Registering, Waited, Stopping
    <3> QED BY <1>2, <3>1, <3>2, <3>3, <3>4 DEF Next
  <2> QED BY <2>1, <2>2 DEF IInv
<1>3. IInv /\ [Next]_vars => IInv'
  BY <1>2
<1> QED BY <1>1, <1>3, PTL DEF Spec

\* The variables keep their types: in particular what is read as the states
\* never tells of more changes than there were.
THEOREM TypeCorrect == Spec => []TypeOK
<1>1. BInv => TypeOK
  BY DEF BInv
<1> QED BY <1>1, Foundation, PTL

\* Whichever of a signal and a stop comes first, at whatever moment the daemon
\* dies, and whatever minor version it speaks: as long as no late answer is left
\* on a connection that is used again and nobody closes it, no call reads the
\* answer of another, and between two calls nothing is owed.
THEOREM StaysInSync == ASSUME Careful PROVE Spec => []InSync
<1>1. ASSUME IInv PROVE InSync
  <2> SUFFICES ASSUME closer = "none" PROVE (Idle => /\ toClient = <<>> /\ ~registered
               /\ \A i \in 1..Len(toDaemon) : toDaemon[i].kind = "stop") /\ pc # "astray"
    BY DEF InSync
  <2>1. pc # "astray" /\ (Idle => Settling)
    BY <1>1 DEF IInv, InStep, Idle
  <2>2. Settling => ~registered /\ toClient = <<>>
    BY <1>1, KindsOf DEF BInv, IInv, Settling
  <2>3. ASSUME Settling, NEW i \in 1..Len(toDaemon) PROVE toDaemon[i].kind = "stop"
    <3>1. toDaemon \in Seq(Requests) /\ (Down = <<>> \/ Down = <<"stop">>)
      BY <1>1, <2>3 DEF BInv, IInv, TypeOK, Settling
    <3>2. Len(Down) = Len(toDaemon) /\ Down[i] = toDaemon[i].kind
      BY <3>1 DEF Down, Kinds
    <3>3. CASE Down = <<>>
      BY <3>1, <3>2, <3>3
    <3>4. CASE Down = <<"stop">>
      <4>1. Len(<<"stop">>) = 1 /\ <<"stop">>[1] = "stop"
        OBVIOUS
      <4>2. Len(Down) = 1 /\ Down[1] = "stop"
        BY <3>4, <4>1
      <4>3. Len(toDaemon) = 1
        BY <3>2, <4>2
      <4>4. i = 1
        BY <4>3
      <4> QED BY <3>2, <4>2, <4>4
    <3> QED BY <3>1, <3>3, <3>4
  <2> QED BY <2>1, <2>2, <2>3
<1>2. IInv => InSync
  BY <1>1
<1> QED BY <1>2, Invariance, PTL

\* The version the client goes by is the one the daemon speaks, and a daemon is
\* refused only when it is too old.
THEOREM SpeaksOneVersion == Spec => []VersionsAgree
<1>1. ASSUME BInv PROVE VersionsAgree
  <2>1. minor # 0 => minor = offered /\ offered >= protocolVersionMinorBackward
    BY <1>1 DEF BInv, Proposing
  <2>2. ASSUME Refusing PROVE offered < protocolVersionMinorBackward
    <3>1. toClient # <<>> /\ Head(toClient).kind = "other" /\ ~Negotiable
      BY <2>2 DEF Refusing, Readable
    <3>2. Truthful(Head(toClient))
      <4>1. Head(toClient) = toClient[1] /\ 1 \in 1..Len(toClient)
        BY <1>1, <3>1 DEF BInv, TypeOK
      <4> QED BY <1>1, <4>1 DEF BInv, Honest
    <3>3. offered \in Nat /\ round \in 1..2
      BY <1>1 DEF BInv, TypeOK
    <3> QED BY <3>1, <3>2, <3>3 DEF Truthful, Negotiable, protocolVersionMinorBackward
  <2> QED BY <2>1, <2>2 DEF VersionsAgree
<1>2. BInv => VersionsAgree
  BY <1>1
<1> QED BY <1>2, Foundation, PTL

-----------------------------------------------------------------------------
(***************************************************************************)
(* The waiter list.  The request of a wait is the last that is on its way  *)
(* to the daemon while the client waits: a stop request of an earlier wait *)
(* comes before it.                                                        *)
(***************************************************************************)
LastIsWait == toDaemon = <<>> \/ toDaemon[Len(toDaemon)].kind = "wait"

WaitBehind == pc \in {"dump", "signal"} /\ closer = "none" => LastIsWait

\* What a step does to the requests on their way while the client waits after it.
LEMMA WaitingMoves ==
  ASSUME BInv, [Next]_vars, pc' \in {"dump", "signal"}, closer' = "none"
  PROVE  /\ closer = "none"
         /\ \/ WaitChange
            \/ /\ pc \in {"dump", "signal"}
               /\ \/ UNCHANGED toDaemon
                  \/ toDaemon # <<>> /\ toDaemon' = Tail(toDaemon) /\ Serve
                  \/ toDaemon' = <<>> /\ ~serving'
<1> USE DEF daemon, client
<1>1. CASE Change \/ Wake \/ UNCHANGED vars \/ Over
  BY <1>1 DEF Change, Wake, Over, vars
<1>2. CASE Serve
  <2>1. pc' = pc /\ closer' = closer
    BY <1>2 DEF Serve
  <2>2. CASE ServeVersion \/ ServeEstablish \/ ServeStates \/ ServeExchange
    BY <1>2, <2>1, <2>2 DEF ServeVersion, ServeEstablish, ServeStates, ServeExchange, Request,
         Simply, Reply
  <2>3. CASE ServeWait \/ ServeStop
    BY <1>2, <2>1, <2>3 DEF ServeWait, ServeStop, Request, Reply, NoReply, Reject, Ends
  <2>4. CASE ServeRelease \/ Hangup
    BY <2>1, <2>4 DEF ServeRelease, Hangup, Reject, Ends
  <2> QED BY <1>2, <2>2, <2>3, <2>4 DEF Serve
<1>3. CASE Die /\ UNCHANGED <<offered, changes, owed, client>>
  BY <1>3 DEF Die, Reject, Ends
<1>4. CASE WaitChange
  BY <1>4 DEF WaitChange, Sends
<1>5. CASE TakeAnswer
  BY <1>5 DEF TakeAnswer, Takes
<1>6. CASE Close
  BY <1>6 DEF Close, CloseStop, CloseRelease, CloseSocket, CloseSends
<1>7. CASE Late
  BY <1>7, ClientAssumption DEF Late, Belated
<1>8. CASE Handshake \/ Asks \/ Pause \/ Tick \/ GoAstray \/ Fail
  BY <1>8 DEF Handshake, SendVersion, TakeVersion, TakeOther, Refused, Asks, Pause, Tick,
     GoAstray, Fail, Sends, Takes
<1> QED BY <1>1, <1>2, <1>3, <1>4, <1>5, <1>6, <1>7, <1>8 DEF Next, Daemon, Client

LEMMA WaitSent == ASSUME Streams, WaitChange PROVE LastIsWait' /\ toDaemon' # <<>>
<1>1. Msg("wait", WaitBody) \in Requests /\ Msg("wait", WaitBody).kind = "wait"
  BY DEF WaitBody, Msg, Requests
<1>2. toDaemon' = Append(toDaemon, Msg("wait", WaitBody))
  BY DEF WaitChange, Sends
<1>3. Len(toDaemon') = Len(toDaemon) + 1 /\ toDaemon'[Len(toDaemon')] = Msg("wait", WaitBody)
  BY <1>1, <1>2 DEF Streams
<1>4. toDaemon' # <<>>
  BY <1>1, <1>2 DEF Streams
<1> QED BY <1>1, <1>3, <1>4 DEF LastIsWait

LEMMA LastStays ==
  ASSUME Streams, LastIsWait, toDaemon # <<>>, toDaemon' = Tail(toDaemon)
  PROVE  /\ LastIsWait'
         /\ toDaemon' = <<>> => Head(toDaemon).kind = "wait"
<1>1. Len(toDaemon') = Len(toDaemon) - 1 /\ Len(toDaemon) \in Nat \ {0}
  BY DEF Streams
<1>2. CASE Len(toDaemon) = 1
  <2>1. toDaemon' = <<>> /\ Head(toDaemon) = toDaemon[Len(toDaemon)]
    BY <1>1, <1>2 DEF Streams
  <2> QED BY <2>1 DEF LastIsWait
<1>3. CASE Len(toDaemon) > 1
  <2>1. \A i \in 1..Len(toDaemon') : toDaemon'[i] = toDaemon[i + 1]
    BY <1>1 DEF Streams
  <2>2. Len(toDaemon') \in 1..Len(toDaemon') /\ Len(toDaemon') + 1 = Len(toDaemon)
    BY <1>1, <1>3
  <2>3. toDaemon'[Len(toDaemon')] = toDaemon[Len(toDaemon)]
    BY <2>1, <2>2
  <2>4. toDaemon' # <<>>
    <3>1. Len(<<>>) = 0 /\ Len(toDaemon') # 0
      BY <1>1, <1>3
    <3> QED BY <3>1
  <2> QED BY <2>3, <2>4 DEF LastIsWait
<1> QED BY <1>1, <1>2, <1>3

LEMMA WaitBehindStep == ASSUME BInv, WaitBehind, [Next]_vars PROVE WaitBehind'
<1>0. Streams
  BY TypeParts DEF BInv
<1> SUFFICES ASSUME pc' \in {"dump", "signal"}, closer' = "none" PROVE LastIsWait'
  BY DEF WaitBehind
<1>1. CASE WaitChange
  BY <1>0, <1>1, WaitSent
<1>2. CASE pc \in {"dump", "signal"} /\ UNCHANGED toDaemon
  BY <1>2, WaitingMoves DEF WaitBehind, LastIsWait
<1>3. CASE pc \in {"dump", "signal"} /\ toDaemon # <<>> /\ toDaemon' = Tail(toDaemon)
  BY <1>0, <1>3, WaitingMoves, LastStays DEF WaitBehind
<1>4. CASE toDaemon' = <<>>
  BY <1>4 DEF LastIsWait
<1> QED BY <1>1, <1>2, <1>3, <1>4, WaitingMoves

LEMMA WaiterStep ==
  ASSUME BInv, BInv', WaitBehind, WaitBehind', WaiterIsKnown, [Next]_vars
  PROVE  WaiterIsKnown'
<1> USE DEF daemon, client
<1>0. Streams /\ Streams'
  BY DEF BInv, TypeOK, Streams
<1> SUFFICES ASSUME pc' \in {"dump", "signal"}, closer' = "none", serving',
                    ~registered', toDaemon' = <<>>
             PROVE  \E i \in 1..Len(toClient') : toClient'[i].kind = "signal"
  <2>1. ASSUME toDaemon' # <<>>, LastIsWait'
        PROVE  \E i \in 1..Len(toDaemon') : toDaemon'[i].kind = "wait"
    <3>1. Len(toDaemon') \in 1..Len(toDaemon')
      BY <1>0, <2>1 DEF Streams
    <3> QED BY <2>1, <3>1 DEF LastIsWait
  <2> QED BY <2>1 DEF WaiterIsKnown, WaitBehind
<1>1. closer = "none" /\ ~WaitChange
  <2>1. ~WaitChange
    BY <1>0, WaitSent
  <2> QED BY <2>1, WaitingMoves
<1>2. pc \in {"dump", "signal"}
  BY <1>1, WaitingMoves
<1>signal. ASSUME serving, ~registered, toDaemon = <<>>
           PROVE  \E i \in 1..Len(toClient) : toClient[i].kind = "signal"
  <2>1. ~\E i \in 1..Len(toDaemon) : toDaemon[i].kind = "wait"
    BY <1>signal
  <2> QED BY <1>1, <1>2, <1>signal, <2>1 DEF WaiterIsKnown
<1>3. CASE Serve
  <2>1. toDaemon # <<>> /\ toDaemon' = Tail(toDaemon)
    BY <1>1, <1>3, WaitingMoves DEF Serve, ServeVersion, ServeEstablish, ServeStates,
         ServeExchange, ServeWait, ServeStop, ServeRelease, Hangup, Request, Simply, Reply,
         NoReply, Reject, Ends
  <2>2. Head(toDaemon).kind = "wait"
    BY <1>0, <1>1, <1>2, <2>1, LastStays DEF WaitBehind
  <2>3. ServeWait \/ Hangup
    BY <1>3, <2>2 DEF Serve, ServeVersion, ServeEstablish, ServeStates, ServeExchange,
         ServeStop, ServeRelease, Request
  <2> QED BY <2>3 DEF ServeWait, Hangup, Reject, Ends
<1>4. CASE Wake
  <2>1. CASE registered
    <3>1. Bare("signal") \in Answers /\ Bare("signal").kind = "signal"
      BY DEF Bare, Msg, Answers
    <3>2. Len(toClient) + 1 \in 1..Len(toClient') /\ toClient'[Len(toClient) + 1] = Bare("signal")
      BY <1>0, <1>4, <2>1, <3>1 DEF Wake, Streams
    <3> QED BY <3>1, <3>2
  <2>2. CASE ~registered
    BY <1>4, <1>signal, <2>2 DEF Wake
  <2> QED BY <2>1, <2>2
<1>5. CASE Change \/ UNCHANGED vars \/ Over
  <2>1. UNCHANGED <<serving, registered, toDaemon, toClient>>
    BY <1>5 DEF Change, Over, vars
  <2> QED BY <1>signal, <2>1
<1>6. CASE Die
  BY <1>6 DEF Die, Reject, Ends
<1>7. CASE TakeAnswer
  <2>1. /\ pc = "dump" /\ toClient # <<>>
        /\ toClient' = Tail(toClient) /\ Head(toClient).kind \in {"states", "dump"}
        /\ UNCHANGED <<serving, registered, toDaemon>>
    BY <1>7 DEF TakeAnswer, Takes, Readable, Awaited
  <2>2. PICK i \in 1..Len(toClient) : toClient[i].kind = "signal"
    BY <1>signal, <2>1
  <2>3. i # 1
    BY <1>0, <2>1, <2>2 DEF Streams
  <2>4. i - 1 \in 1..Len(toClient') /\ toClient'[i - 1] = toClient[i]
    BY <1>0, <2>1, <2>2, <2>3 DEF Streams
  <2> QED BY <2>2, <2>4
<1>8. CASE Close
  BY <1>8 DEF Close, CloseStop, CloseRelease, CloseSocket, CloseSends
<1>9. CASE Late
  BY <1>9, ClientAssumption DEF Late, Belated
<1>10. CASE Handshake \/ Asks \/ Pause \/ Tick \/ GoAstray \/ Fail
  BY <1>10 DEF Handshake, SendVersion, TakeVersion, TakeOther, Refused, Asks, Pause, Tick,
     GoAstray, Fail, Sends, Takes
<1> QED BY <1>1, <1>3, <1>4, <1>5, <1>6, <1>7, <1>8, <1>9, <1>10 DEF Next, Daemon, Client

\* A client that waits is known to the daemon, or its wake-up or the request is on its
\* way, whatever answers are late: no stop request of an earlier wait and no change
\* at the same moment loses a registration.
THEOREM NoWaitIsLost == Spec => []WaiterIsKnown
<1>1. Init => WaitBehind /\ WaiterIsKnown
  BY DEF Init, WaitBehind, WaiterIsKnown
<1>2. BInv /\ WaitBehind /\ [Next]_vars => WaitBehind'
  BY WaitBehindStep
<1>3. BInv /\ BInv' /\ WaitBehind /\ WaitBehind' /\ WaiterIsKnown /\ [Next]_vars
        => WaiterIsKnown'
  BY WaiterStep
<1> QED BY <1>1, <1>2, <1>3, Foundation, PTL DEF Spec

\* Whatever answers are late, whenever the daemon dies or somebody closes the
\* connection: the states a call answers are those of a moment of that call.
THEOREM StatesAreTrue == Spec => StatesAreSnapshots
<1>1. Init => Snapshots!Init
  BY DEF Init, Snapshots!Init
<1>2. BInv /\ OneSnapshot /\ [Next]_vars => [Snapshots!Next]_(Snapshots!vars)
  BY SnapshotStep
<1> QED BY <1>1, <1>2, SnapshotsKnown, PTL DEF Spec, StatesAreSnapshots, Snapshots!Spec
=============================================================================
