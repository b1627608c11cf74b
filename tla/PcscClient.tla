----------------------------- MODULE PcscClient -----------------------------
(***************************************************************************)
(* One connection to pcscd (pcsc/ipc.go): the version handshake, the calls *)
(* the watch loop makes in its turns (States, the exchanges of a probe,    *)
(* WaitChange) and Close, which another goroutine may call at any time.    *)
(*                                                                         *)
(* The socket carries two streams of messages.  An answer has no header,   *)
(* the client reads as many bytes as it expects, so what it reads is right *)
(* only as long as both sides agree on what comes next: that is the        *)
(* question here.  Messages are not split: each is one write.  The daemon  *)
(* is the one the repository's tests run, internal/pcscfake.               *)
(***************************************************************************)
EXTENDS Naturals, Sequences

CONSTANTS
  Minors,      \* minor protocol versions a daemon may offer
  LateIn,      \* calls whose answer may come after its deadline
  MaxChanges   \* bound: reader state changes

ASSUME ClientAssumption ==
  /\ Minors \subseteq Nat \ {0} /\ MaxChanges \in Nat
  /\ LateIn \subseteq {"context", "states", "dump", "exchange", "stopping"}

VARIABLES
  \* the daemon
  offered,     \* its minor version
  serving,     \* whether its goroutine serves this connection
  registered,  \* whether the connection is on the waiter list
  changes,     \* reader state changes so far
  owed,        \* changes whose waiters are still to be woken
  \* the streams
  toDaemon, toClient,
  \* the client
  pc,
  proposal,    \* the minor version it proposes
  round,       \* rounds of the handshake
  minor,       \* the agreed minor version, 0 before
  closer,      \* how far a Close has got
  fetched      \* changes the states fetched last account for

daemon == <<offered, serving, registered, changes, owed>>
client == <<pc, proposal, round, minor, closer, fetched>>
vars == <<daemon, toDaemon, toClient, client>>

protocolVersionMinor == 4
protocolVersionMinorBackward == 2

\* The wait of protocol 4.4 and newer.
New(m) == m >= 4

Msg(kind, data) == [kind |-> kind, data |-> data]
Bare(kind) == Msg(kind, 0)
Requests == [kind : {"version", "establish", "states", "exchange", "wait", "stop", "release"},
             data : Nat]
Answers == [kind : {"agreed", "other", "context", "states", "answer", "dump", "signal",
                    "stopped", "released"}, data : Nat]

TypeOK ==
  /\ offered \in Minors /\ serving \in BOOLEAN /\ registered \in BOOLEAN
  /\ changes \in Nat /\ owed \in Nat
  /\ toDaemon \in Seq(Requests) /\ toClient \in Seq(Answers)
  /\ pc \in {"propose", "agree", "establish", "context", "fetch", "states", "probing",
             "exchange", "dump", "signal", "stopping", "astray", "over"}
  /\ proposal \in Nat /\ round \in 1..2 /\ minor \in Nat
  /\ closer \in {"none", "stop", "release", "closed"}
  /\ fetched \in 0..changes

Init ==
  /\ offered \in Minors /\ serving = TRUE /\ registered = FALSE
  /\ changes = 0 /\ owed = 0
  /\ toDaemon = <<>> /\ toClient = <<>>
  /\ pc = "propose" /\ proposal = protocolVersionMinor /\ round = 1 /\ minor = 0
  /\ closer = "none" /\ fetched = 0

-----------------------------------------------------------------------------
(* The daemon.                                                             *)

\* InsertCard, RemoveCard: the state changes, then the waiters are woken.
Change ==
  /\ changes < MaxChanges
  /\ changes' = changes + 1 /\ owed' = owed + 1
  /\ UNCHANGED <<offered, serving, registered, toDaemon, toClient, client>>

\* Mutant: waiters are woken without a change.
WakeAnyway ==
  /\ owed' = owed - 1
  /\ registered' = FALSE
  /\ toClient' = IF registered THEN Append(toClient, Bare("signal")) ELSE toClient
  /\ UNCHANGED <<offered, serving, changes, toDaemon, client>>

\* A registration does not survive its signal.
Wake ==
  /\ owed > 0 /\ owed' = owed - 1
  /\ registered' = FALSE
  /\ toClient' = IF registered THEN Append(toClient, Bare("signal")) ELSE toClient
  /\ UNCHANGED <<offered, serving, changes, toDaemon, client>>

\* The serving goroutine ends; it closes the socket and leaves the list.
Ends == serving' = FALSE /\ registered' = FALSE /\ toDaemon' = <<>>

Request(kind) == serving /\ toDaemon # <<>> /\ Head(toDaemon).kind = kind
Reply(answer) == toClient' = Append(toClient, answer) /\ toDaemon' = Tail(toDaemon)
NoReply == UNCHANGED toClient /\ toDaemon' = Tail(toDaemon)
Simply(answer) == Reply(answer) /\ UNCHANGED <<serving, registered>>

Accepts(m) == m = offered \/ (offered = 5 /\ m = 4)

ServeVersion ==
  /\ Request("version")
  /\ Simply(Msg(IF Accepts(Head(toDaemon).data) THEN "agreed" ELSE "other", offered))

ServeEstablish == Request("establish") /\ Simply(Bare("context"))
ServeStates == Request("states") /\ Simply(Msg("states", changes))
ServeExchange == Request("exchange") /\ Simply(Bare("answer"))

\* Whether the wait struct is there if the daemon wants it.
Framed == New(offered) \/ Head(toDaemon).data = 8

Reject == Ends /\ UNCHANGED toClient

\* Mutant: a change that is being told is taken to have told this waiter too.
ServeWaitUnlocked ==
  /\ Request("wait")
  /\ IF Framed
     THEN /\ registered' = (owed = 0) /\ UNCHANGED serving
          /\ IF New(offered) THEN Reply(Msg("dump", changes)) ELSE NoReply
     ELSE Reject

\* The dump is written under the lock that the waking takes.
ServeWait ==
  /\ Request("wait")
  /\ IF Framed
     THEN /\ registered' = TRUE /\ UNCHANGED serving
          /\ IF New(offered) THEN Reply(Msg("dump", changes)) ELSE NoReply
     ELSE Reject

\* A connection that has been signalled gets no answer.
ServeStop ==
  /\ Request("stop")
  /\ IF Framed
     THEN /\ registered' = FALSE /\ UNCHANGED serving
          /\ IF registered THEN Reply(Bare("stopped")) ELSE NoReply
     ELSE Reject

ServeRelease ==
  /\ Request("release")
  /\ Ends /\ toClient' = Append(toClient, Bare("released"))

\* The client has closed the socket.
Hangup == serving /\ closer = "closed" /\ Reject

Die == serving /\ Reject

Serve ==
  /\ \/ ServeVersion \/ ServeEstablish \/ ServeStates \/ ServeExchange
     \/ ServeWait \/ ServeStop \/ ServeRelease \/ Hangup
  /\ UNCHANGED <<offered, changes, owed, client>>

Daemon ==
  \/ Change \/ Wake \/ Serve
  \/ Die /\ UNCHANGED <<offered, changes, owed, client>>

-----------------------------------------------------------------------------
(* The client.                                                             *)

Sends(from, request, to) ==
  /\ pc = from /\ serving /\ closer # "closed"
  /\ toDaemon' = Append(toDaemon, request)
  /\ pc' = to
  /\ UNCHANGED <<daemon, toClient, minor, closer, fetched>>

\* What the client waits for in each position.  Answers of the same size are
\* not told apart.
Awaited ==
  [agree |-> {"agreed", "other"}, context |-> {"context"},
   states |-> {"states", "dump"}, exchange |-> {"answer"}, dump |-> {"states", "dump"},
   signal |-> {"signal", "stopped", "released"},
   stopping |-> {"signal", "stopped", "released"}]

Waiting == pc \in DOMAIN Awaited
Readable == toClient # <<>> /\ closer # "closed"

Takes(from) ==
  /\ pc = from /\ Readable /\ Head(toClient).kind \in Awaited[from]
  /\ toClient' = Tail(toClient)
  /\ UNCHANGED <<daemon, toDaemon, closer>>

SendVersion ==
  Sends("propose", Msg("version", proposal), "agree") /\ UNCHANGED <<proposal, round>>

\* Mutant: the version the client had proposed.
AgreedOwn(answer) == protocolVersionMinor

Agreed(answer) == answer.data

TakeVersion ==
  /\ Takes("agree") /\ Head(toClient).kind = "agreed"
  /\ minor' = Agreed(Head(toClient)) /\ pc' = "establish"
  /\ UNCHANGED <<proposal, round, fetched>>

\* The daemon proposes another minor; it is tried once.
Negotiable == Head(toClient).data >= protocolVersionMinorBackward /\ round < 2

TakeOther ==
  /\ Takes("agree") /\ Head(toClient).kind = "other" /\ Negotiable
  /\ proposal' = Head(toClient).data /\ round' = round + 1 /\ pc' = "propose"
  /\ UNCHANGED <<minor, fetched>>

Refusing ==
  pc = "agree" /\ Readable /\ Head(toClient).kind = "other" /\ ~Negotiable

\* dialIPC closes the socket.
Refused ==
  /\ Refusing
  /\ pc' = "over" /\ closer' = "closed"
  /\ UNCHANGED <<daemon, toDaemon, toClient, proposal, round, minor, fetched>>

Handshake == SendVersion \/ TakeVersion \/ TakeOther \/ Refused

Settled == UNCHANGED <<proposal, round>>

Asks ==
  /\ \/ Sends("establish", Bare("establish"), "context")
     \/ Sends("fetch", Bare("states"), "states")
     \/ Sends("probing", Bare("exchange"), "exchange")
  /\ Settled

\* With no reader registered there is nothing to wait on.
Pause ==
  /\ pc = "probing" /\ pc' = "fetch"
  /\ UNCHANGED <<daemon, toDaemon, toClient, proposal, round, minor, closer, fetched>>

WaitBody == IF New(minor) THEN 0 ELSE 8

WaitChange ==
  /\ Sends("probing", Msg("wait", WaitBody), IF New(minor) THEN "dump" ELSE "signal")
  /\ Settled

TakeAnswer ==
  /\ \/ Takes("context") /\ pc' = "fetch" /\ UNCHANGED fetched
     \/ Takes("states") /\ pc' = "probing" /\ fetched' = Head(toClient).data
     \/ Takes("exchange") /\ pc' = "probing" /\ UNCHANGED fetched
     \/ Takes("dump") /\ pc' = "signal" /\ UNCHANGED fetched
     \/ (Takes("signal") \/ Takes("stopping")) /\ pc' = "fetch" /\ UNCHANGED fetched
  /\ Settled /\ UNCHANGED minor

\* Mutant: a wait that times out leaves its registration behind.
TickLeavesIt ==
  /\ pc = "signal" /\ serving /\ closer # "closed" /\ pc' = "fetch"
  /\ UNCHANGED <<daemon, toDaemon, toClient, proposal, round, minor, closer, fetched>>

\* The wait times out: the registration is withdrawn.  A signal that is there
\* already does not keep the deadline from passing.
Tick == Sends("signal", Msg("stop", WaitBody), "stopping") /\ Settled

\* Mutant: the watch loop asks for the states again on the same connection.
BelatedAgain == [context |-> "over", states |-> "fetch", dump |-> "over",
                 exchange |-> "probing", stopping |-> "fetch"]

\* Where the client goes when a deadline passes before the answer comes.  The
\* watch loop gives up a connection that leaves it without states or without a
\* registration; a probe goes on with it, and a wait reports its timeout.
Belated == [context |-> "over", states |-> "over", dump |-> "over",
            exchange |-> "probing", stopping |-> "fetch"]

Late ==
  /\ pc \in LateIn /\ closer # "closed"
  /\ pc' = Belated[pc]
  /\ closer' = IF pc = "context" THEN "closed" ELSE closer
  /\ UNCHANGED <<daemon, toDaemon, toClient, proposal, round, minor, fetched>>

\* An answer of another size leaves the client in the middle of the stream.
GoAstray ==
  /\ Waiting /\ Readable /\ Head(toClient).kind \notin Awaited[pc]
  /\ pc' = "astray"
  /\ UNCHANGED <<daemon, toDaemon, toClient, proposal, round, minor, closer, fetched>>

\* A read or a write fails.
Fail ==
  /\ pc # "over"
  /\ \/ closer = "closed"
     \/ ~serving /\ (Waiting => toClient = <<>>)
  /\ pc' = "over"
  /\ closer' = IF minor = 0 \/ pc \in {"establish", "context"} THEN "closed" ELSE closer
  /\ UNCHANGED <<daemon, toDaemon, toClient, proposal, round, minor, fetched>>

-----------------------------------------------------------------------------
(* Close: the watch loop's, when it is done with the connection, or that   *)
(* of the goroutine that runs on cancellation.                             *)

Established == minor # 0 /\ pc \notin {"establish", "context"}

CloseSends(from, wanted, request, to) ==
  /\ closer = from /\ closer' = to
  /\ toDaemon' = IF serving /\ wanted THEN Append(toDaemon, request) ELSE toDaemon
  /\ UNCHANGED <<daemon, toClient, pc, proposal, round, minor, fetched>>

CloseStop == Established /\ CloseSends("none", New(minor), Bare("stop"), "stop")
CloseRelease == CloseSends("stop", TRUE, Bare("release"), "release")

\* Mutant: the release is taken for the end of the connection.
CloseSocketNever == FALSE /\ UNCHANGED vars

CloseSocket ==
  /\ closer = "release" /\ closer' = "closed"
  /\ UNCHANGED <<daemon, toDaemon, toClient, pc, proposal, round, minor, fetched>>

Close == CloseStop \/ CloseRelease \/ CloseSocket

Client ==
  \/ Handshake \/ Asks \/ Pause \/ WaitChange \/ TakeAnswer \/ Tick
  \/ Late \/ GoAstray \/ Fail

Over == pc = "over" /\ closer = "closed" /\ ~serving /\ UNCHANGED vars

Next == Daemon \/ Client \/ Close \/ Over

Spec == Init /\ [][Next]_vars

\* The client's goroutine runs and deadlines pass, the watch loop closes the
\* connection it has given up, and a Close that has begun goes on; whether the
\* daemon answers is up to it.
FairSpec ==
  /\ Spec
  /\ WF_vars(Client) /\ WF_vars(pc = "over" /\ CloseStop)
  /\ WF_vars(CloseRelease) /\ WF_vars(CloseSocket)

-----------------------------------------------------------------------------
Idle == pc \in {"fetch", "probing"}

(* Between two calls the daemon owes the client nothing: no answer is on   *)
(* its way, no signal can come, and all that may still be on its way to    *)
(* the daemon is a stop request that was overtaken by a signal and will    *)
(* not be answered.  So no call reads an answer that is not its own,       *)
(* whichever of a signal and a stop comes first (waitChangeNew: "the       *)
(* stream stays in sync either way").  Close ends that, for its requests   *)
(* are answered to whoever reads.                                          *)
InSync ==
  closer = "none" =>
    /\ Idle => /\ toClient = <<>> /\ ~registered
               /\ \A i \in 1..Len(toDaemon) : toDaemon[i].kind = "stop"
    /\ pc # "astray"

\* The client goes by the version the daemon speaks, not by the one it proposed,
\* so both frame the wait alike, and a daemon is refused exactly when it is too
\* old (handshake).
VersionsAgree ==
  /\ minor # 0 => minor = offered /\ offered >= protocolVersionMinorBackward
  /\ Refusing => offered < protocolVersionMinorBackward

\* A client that waits is on the waiter list, has its wake-up on the way, or its
\* wait has yet to arrive: no stop request of an earlier wait that was overtaken
\* by a signal withdraws the new registration, and none is lost to a change that
\* comes at the same time (waitChangeNew; fakeConn of pcscfake).
WaiterIsKnown ==
  pc \in {"dump", "signal"} /\ closer = "none" /\ serving =>
    \/ registered
    \/ \E i \in 1..Len(toClient) : toClient[i].kind = "signal"
    \/ \E i \in 1..Len(toDaemon) : toDaemon[i].kind = "wait"

\* The states that are on their way to the call that asked for them.
Arriving == {toClient[i].data : i \in {i \in 1..Len(toClient) : toClient[i].kind = "states"}}

Snapshots == INSTANCE ReaderStates WITH
  call <- IF pc = "states" THEN "states" ELSE "idle",
  seen <- IF pc = "states" THEN Arriving ELSE {}

\* Whatever is late, stopped or closed: the states that a call answers are those of
\* a moment of that call, never an older answer and never the dump of a wait,
\* which has their size (States: "answers with the current snapshot").
StatesAreSnapshots == Snapshots!Spec

\* The daemon serves its connections and wakes its waiters; a probe ends.
Served == WF_vars(Serve) /\ WF_vars(Wake) /\ SF_vars(WaitChange \/ Pause)

\* Every change comes to be fetched while the connection lasts, even one whose
\* signal was taken for the answer of a stop request ("picked up by the states
\* fetch of the next loop turn").
ChangeSeen == Served =>
  \A n \in 1..MaxChanges :
    changes >= n /\ minor # 0 ~> fetched >= n \/ closer # "none" \/ ~serving

\* Close unblocks whatever call is in progress, even when the daemon does
\* not answer (Client: "to unblock a pending WaitChange").
CloseUnblocks == closer # "none" ~> pc = "over"
=============================================================================
