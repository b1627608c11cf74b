------------------------------- MODULE Watch -------------------------------
(***************************************************************************)
(* The watch loop of pcscid.go: one goroutine (watchLoop, pollLoop) polls  *)
(* the reader states of pcscd, compares them with what it remembers        *)
(* (readerTracking), probes the card of a reader that looks new and emits  *)
(* insert and remove events on a bounded channel, across lost connections  *)
(* and daemon restarts, until its context is cancelled.                    *)
(*                                                                         *)
(* Around it run, at their own pace: people who move cards and plug        *)
(* readers, the daemon, the owner of the context, the AfterFunc goroutine  *)
(* that closes the connection on cancellation, and the consumer of the     *)
(* channel.  A card is read (Probe) later than the state snapshot that     *)
(* asked for it, and its event is emitted later still.                     *)
(***************************************************************************)
EXTENDS UnitRegistry, Sequences, FiniteSets

CONSTANTS
  Cards,        \* physical cards
  NoCard,       \* an empty reader
  TypeOf,       \* [Cards -> card type], what the ATR tells
  UidOf,        \* [Cards -> uid], NoUid for a random or unsupported uid
  NoUid,
  UnitSerial,   \* [Readers -> serial its driver serves, or NoSerial]
  UnitPorts,    \* [Readers -> ports a probe may resolve for it], {} without USBPathID
  ChanCap,      \* capacity of the event channel (8 in the code)
  MaxMoves,     \* bound: cards moved and readers plugged or unplugged
  MaxFaults,    \* bound: connections lost, daemon stops
  Hotplug,      \* whether readers are plugged and unplugged
  ReadMayFail,  \* whether the uid of a readable card may stay unread
  MayMute,      \* whether the daemon may accept connections and never answer
  Nobody        \* no card reported on a reader; no reader being processed

ASSUME WatchAssumption ==
  /\ NoCard \notin Cards
  /\ UnitSerial \in [Readers -> Serials \cup {NoSerial}]
  /\ UnitPorts \in [Readers -> SUBSET Ports]
  /\ ChanCap \in Nat \ {0} /\ MaxMoves \in Nat /\ MaxFaults \in Nat
  /\ Hotplug \in BOOLEAN /\ ReadMayFail \in BOOLEAN /\ MayMute \in BOOLEAN
  /\ Nobody \notin Readers

VARIABLES
  \* the readers, the cards on them and the daemon's account of both
  registered,   \* readers the daemon knows
  card,         \* the card on each reader
  pid,          \* number of the presentation that put it there
  counter,      \* the daemon's event counter of each reader
  moves,        \* moves made so far
  daemon,       \* "up", "down" or "mute"
  faults,       \* faults so far
  \* the context and the connection
  ctx,          \* "live" or "cancelled"
  conn,         \* "open", "lost" or "closed"
  \* the goroutine
  pc,
  snap,         \* the answer of States being worked on
  todo,         \* its readers not yet looked at
  cur,          \* the reader being probed or reported
  pending,      \* the event being emitted
  present, counters, units,     \* readerTracking
  \* the channel
  ch,
  \* history
  since,        \* after a reconnect, moves made before the first snapshot
  said,         \* per reader, the last event sent: a btag, or Nobody
  reported      \* presentations seen in a snapshot and reported as inserted

world    == <<registered, card, pid, counter, moves>>
service  == <<daemon, faults>>
tracking == <<present, counters, units>>
scanning == <<snap, todo, cur, pending>>
output   == <<ch, said, reported>>
vars     == <<world, service, ctx, conn, pc, scanning, tracking, output, since>>

-----------------------------------------------------------------------------
Unset == -1
Presence == {"unseen", "absent", "present"}
Btag(type, uid) == <<type, uid>>
TagOf(c) == Btag(TypeOf[c], UidOf[c])
Btags == {Btag(TypeOf[c], UidOf[d]) : c \in Cards, d \in {d \in Cards : UidOf[d] # NoUid}}

Insert(r, btag, id) == [kind |-> "insert", reader |-> r, btag |-> btag, id |-> id]
Remove(r) == [kind |-> "remove", reader |-> r, btag |-> Nobody, id |-> Nothing]
Events == [kind : {"insert", "remove"}, reader : Readers,
           btag : Btags \cup {Nobody}, id : Identity]
NoEvent == [kind |-> "none"]

ReaderState == [card : Cards \cup {NoCard}, pid : Nat, counter : Nat]
NoSnap == [r \in {} |-> NoEvent]

TypeOK ==
  /\ registered \subseteq Readers
  /\ card \in [Readers -> Cards \cup {NoCard}]
  /\ pid \in [Readers -> Nat]
  /\ counter \in [Readers -> Nat]
  /\ moves \in Nat
  /\ daemon \in {"up", "down", "mute"} /\ faults \in Nat
  /\ ctx \in {"live", "cancelled"}
  /\ conn \in {"open", "lost", "closed"}
  /\ pc \in {"session", "states", "scan", "probe", "emit", "gone", "wait",
             "return", "backoff", "dial", "done"}
  /\ DOMAIN snap \subseteq Readers
  /\ \A r \in DOMAIN snap : snap[r] \in ReaderState
  /\ todo \subseteq DOMAIN snap
  /\ cur \in Readers \cup {Nobody}
  /\ pending \in Events \cup {NoEvent}
  /\ present \in [Readers -> Presence]
  /\ counters \in [Readers -> Nat \cup {Unset}]
  /\ units \in Registry
  /\ ch \in Seq(Events)
  /\ since \in Nat \cup {-1}
  /\ said \in [Readers -> Btags \cup {Nobody}]
  /\ reported \subseteq Readers \X Nat

Init ==
  /\ registered \in SUBSET Readers
  /\ card \in [Readers -> Cards \cup {NoCard}]
  /\ \A q, r \in Readers : card[q] = card[r] => q = r \/ card[r] = NoCard
  /\ pid = [r \in Readers |-> 0]
  /\ counter = [r \in Readers |-> 0]
  /\ moves = 0 /\ daemon = "up" /\ faults = 0
  /\ ctx = "live" /\ conn = "open" /\ pc = "session"
  /\ snap = NoSnap /\ todo = {} /\ cur = Nobody /\ pending = NoEvent
  /\ present = [r \in Readers |-> "unseen"]
  /\ counters = [r \in Readers |-> Unset]
  /\ units = EmptyRegistry
  /\ ch = <<>>
  /\ since = -1 /\ said = [r \in Readers |-> Nobody] /\ reported = {}

-----------------------------------------------------------------------------
(* The readers and the cards.  A presentation is numbered by the move that *)
(* makes it; the daemon counts insertions and removals per reader.         *)

Move == moves < MaxMoves /\ moves' = moves + 1
NotWorld == UNCHANGED <<service, ctx, conn, pc, scanning, tracking, output, since>>
Bump(r) == IF daemon # "down" /\ r \in registered
           THEN [counter EXCEPT ![r] = @ + 1] ELSE counter

PutCard(r, c) ==
  /\ card[r] = NoCard /\ \A q \in Readers : card[q] # c
  /\ Move
  /\ card' = [card EXCEPT ![r] = c]
  /\ pid' = [pid EXCEPT ![r] = moves + 1]
  /\ counter' = Bump(r)
  /\ UNCHANGED registered /\ NotWorld

TakeCard(r) ==
  /\ card[r] # NoCard
  /\ Move
  /\ card' = [card EXCEPT ![r] = NoCard]
  /\ counter' = Bump(r)
  /\ UNCHANGED <<registered, pid>> /\ NotWorld

\* A card lying on a reader that is plugged in is a new presentation.
Plug(r) ==
  /\ Hotplug /\ r \notin registered
  /\ Move
  /\ registered' = registered \cup {r}
  /\ counter' = [counter EXCEPT ![r] = 0]
  /\ pid' = [pid EXCEPT ![r] = moves + 1]
  /\ UNCHANGED card /\ NotWorld

Unplug(r) ==
  /\ Hotplug /\ r \in registered
  /\ Move
  /\ registered' = registered \ {r}
  /\ UNCHANGED <<card, pid, counter>> /\ NotWorld

World == \E r \in Readers : TakeCard(r) \/ Plug(r) \/ Unplug(r)
                            \/ \E c \in Cards : PutCard(r, c)

-----------------------------------------------------------------------------
(* The daemon, the connection, the context and the consumer.               *)

Fault == faults < MaxFaults /\ faults' = faults + 1
Lose == conn' = IF conn = "open" THEN "lost" ELSE conn

\* A daemon that hangs may be stopped any time; that is no further fault.
DaemonStop ==
  /\ daemon # "down" /\ IF daemon = "mute" THEN UNCHANGED faults ELSE Fault
  /\ daemon' = "down" /\ Lose
  /\ UNCHANGED <<world, ctx, pc, scanning, tracking, output, since>>

\* A fresh daemon counts from zero.
DaemonStart ==
  /\ daemon = "down"
  /\ daemon' = "up" /\ counter' = [r \in Readers |-> 0]
  /\ UNCHANGED <<registered, card, pid, moves, faults>>
  /\ UNCHANGED <<ctx, conn, pc, scanning, tracking, output, since>>

\* The daemon lives and accepts, and answers nothing: requests time out.
DaemonMute ==
  /\ MayMute /\ daemon = "up" /\ Fault
  /\ daemon' = "mute" /\ Lose
  /\ UNCHANGED <<world, ctx, pc, scanning, tracking, output, since>>

\* The connection breaks, or a request on it times out.
ConnectionLost ==
  /\ conn = "open" /\ Fault /\ conn' = "lost"
  /\ UNCHANGED <<world, daemon, ctx, pc, scanning, tracking, output, since>>

Service == DaemonStop \/ DaemonStart \/ DaemonMute \/ ConnectionLost

Cancel ==
  /\ ctx = "live" /\ ctx' = "cancelled"
  /\ UNCHANGED <<world, service, conn, pc, scanning, tracking, output, since>>

\* The AfterFunc goroutine, armed while pollLoop runs.
CloseOnCancel ==
  /\ ctx = "cancelled" /\ conn # "closed"
  /\ pc \in {"session", "states", "scan", "probe", "emit", "gone", "wait"}
  /\ conn' = "closed"
  /\ UNCHANGED <<world, service, ctx, pc, scanning, tracking, output, since>>

\* The consumer takes an event.
Receive ==
  /\ ch # <<>>
  /\ ch' = Tail(ch)
  /\ UNCHANGED <<world, service, ctx, conn, pc, scanning, tracking, since, said, reported>>

-----------------------------------------------------------------------------
(* pollLoop: one turn takes a snapshot, scans it, drops the readers that   *)
(* are gone and waits for a change.                                        *)

Environment == <<world, service, ctx>>

\* Mutant: the presence of the readers starts over with the session too.
StartSessionAfresh ==
  /\ pc = "session"
  /\ present' = [r \in Readers |-> "unseen"]
  /\ counters' = [r \in Readers |-> Unset]
  /\ units' = EmptyRegistry
  /\ pc' = "states"
  /\ UNCHANGED <<Environment, conn, scanning, output, since>>

\* Counters and units start over, the presence of the readers does not.
StartSession ==
  /\ pc = "session"
  /\ counters' = [r \in Readers |-> Unset]
  /\ units' = EmptyRegistry
  /\ pc' = "states"
  /\ UNCHANGED <<Environment, conn, scanning, present, output, since>>

GetStates ==
  /\ pc = "states" /\ conn = "open"
  /\ snap' = [r \in registered |->
                [card |-> card[r], pid |-> pid[r], counter |-> counter[r]]]
  /\ todo' = registered
  /\ since' = IF since = MaxMoves THEN moves ELSE since
  /\ pc' = "scan"
  /\ UNCHANGED <<Environment, conn, cur, pending, tracking, output>>

StatesFail ==
  /\ pc = "states" /\ conn # "open"
  /\ pc' = "return"
  /\ UNCHANGED <<Environment, conn, scanning, tracking, output, since>>

InReader(r) == snap[r].card # NoCard

\* Mutant: the counter of a reader that is dealt with is not kept up to date.
ObserveKeepsCounter(r) ==
  /\ present' = [present EXCEPT ![r] = IF InReader(r) THEN "present" ELSE "absent"]
  /\ UNCHANGED counters

\* What a turn remembers of the reader it has just dealt with.
Observe(r) ==
  /\ present' = [present EXCEPT ![r] = IF InReader(r) THEN "present" ELSE "absent"]
  /\ counters' = [counters EXCEPT ![r] = IF InReader(r) THEN snap[r].counter ELSE Unset]

\* Mutant: an unknown counter counts as a moved one.
LooksNewUnknown(r) == present[r] # "present" \/ counters[r] # snap[r].counter

\* Mutant: presence alone decides.
LooksNewPresence(r) == present[r] # "present"

LooksNew(r) ==
  \/ present[r] # "present"
  \/ counters[r] # Unset /\ counters[r] # snap[r].counter

SeeNewCard(r) ==
  /\ pc = "scan" /\ r \in todo /\ InReader(r) /\ LooksNew(r)
  /\ todo' = todo \ {r} /\ cur' = r /\ pc' = "probe"
  /\ UNCHANGED <<Environment, conn, snap, pending, tracking, output, since>>

SeeNoChange(r) ==
  /\ pc = "scan" /\ r \in todo
  /\ IF InReader(r) THEN ~LooksNew(r) ELSE present[r] # "present"
  /\ todo' = todo \ {r} /\ Observe(r)
  /\ UNCHANGED <<Environment, conn, pc, snap, cur, pending, units, output, since>>

SeeRemoval(r) ==
  /\ pc = "scan" /\ r \in todo /\ ~InReader(r) /\ present[r] = "present"
  /\ todo' = todo \ {r} /\ cur' = r /\ pending' = Remove(r) /\ pc' = "emit"
  /\ UNCHANGED <<Environment, conn, snap, tracking, output, since>>

\* The identity facts a probe over an open card connection can answer.
Probed(r) ==
  IF Known(units.facts[r]) THEN {units.facts[r]}
  ELSE {[serial |-> UnitSerial[r], port |-> NoPort]}
       \cup [serial : {NoSerial}, port : UnitPorts[r] \cup {NoPort}]

\* Mutant: the card connection may be that of another reader.
ReadUidAnywhere(r, uid) ==
  \/ /\ conn = "open"
     /\ \E q \in registered : card[q] # NoCard /\ uid = UidOf[card[q]]
  \/ uid = NoUid

\* The uid of the card that is on the reader now; a card that is gone, that
\* changed since the snapshot or whose reads fail leaves no uid.
ReadUid(r, uid) ==
  \/ /\ conn = "open" /\ r \in registered /\ card[r] # NoCard
     /\ uid = UidOf[card[r]]
  \/ /\ \/ conn # "open" \/ r \notin registered \/ ReadMayFail
        \/ pid[r] # snap[r].pid \/ card[r] = NoCard
     /\ uid = NoUid

\* probeReaderCard, adopt and identify: no uid, no event.
Probe ==
  /\ pc = "probe"
  /\ \E uid \in {UidOf[c] : c \in Cards} \cup {NoUid},
        fresh \in {Nothing} \cup Probed(cur) :
       /\ ReadUid(cur, uid)
       /\ fresh = Nothing \/ conn = "open"
       /\ units' = Adopt(units, cur, fresh)
       /\ IF uid = NoUid
          THEN /\ Observe(cur) /\ pc' = "scan" /\ cur' = Nobody
               /\ UNCHANGED pending
          ELSE /\ pending' = Insert(cur, Btag(TypeOf[snap[cur].card], uid),
                                    units'.facts[cur])
               /\ pc' = "emit" /\ UNCHANGED <<cur, present, counters>>
  /\ UNCHANGED <<Environment, conn, snap, todo, output, since>>

Emit ==
  /\ pc = "emit" /\ Len(ch) < ChanCap
  /\ ch' = Append(ch, pending)
  /\ said' = [said EXCEPT ![cur] = pending.btag]
  /\ reported' = IF pending.kind = "insert" THEN reported \cup {<<cur, snap[cur].pid>>}
                                            ELSE reported
  /\ IF cur \in DOMAIN snap THEN Observe(cur) /\ pc' = "scan"
                            ELSE pc' = "gone" /\ UNCHANGED <<present, counters>>
  /\ cur' = Nobody /\ pending' = NoEvent
  /\ UNCHANGED <<Environment, conn, snap, todo, units, since>>

\* Mutant: the send does not watch the context.
EmitRegardless ==
  /\ pc = "emit" /\ ctx = "cancelled" /\ Len(ch) < ChanCap
  /\ pc' = "return" /\ cur' = Nobody /\ pending' = NoEvent
  /\ UNCHANGED <<Environment, conn, snap, todo, tracking, output, since>>

EmitCancelled ==
  /\ pc = "emit" /\ ctx = "cancelled"
  /\ pc' = "return" /\ cur' = Nobody /\ pending' = NoEvent
  /\ UNCHANGED <<Environment, conn, snap, todo, tracking, output, since>>

ScanDone ==
  /\ pc = "scan" /\ todo = {}
  /\ pc' = "gone"
  /\ UNCHANGED <<Environment, conn, scanning, tracking, output, since>>

Vanished == {r \in Readers : present[r] # "unseen"} \ DOMAIN snap

\* Mutant: a reader that vanishes with its card on it is dropped in silence.
DropReaderSilently(r) ==
  /\ pc = "gone" /\ r \in Vanished
  /\ present' = [present EXCEPT ![r] = "unseen"]
  /\ counters' = [counters EXCEPT ![r] = Unset]
  /\ units' = Forget(units, r)
  /\ UNCHANGED <<Environment, conn, pc, scanning, output, since>>

DropReader(r) ==
  /\ pc = "gone" /\ r \in Vanished
  /\ present' = [present EXCEPT ![r] = "unseen"]
  /\ counters' = [counters EXCEPT ![r] = Unset]
  /\ units' = Forget(units, r)
  /\ IF present[r] = "present"
     THEN cur' = r /\ pending' = Remove(r) /\ pc' = "emit"
     ELSE UNCHANGED <<cur, pending, pc>>
  /\ UNCHANGED <<Environment, conn, snap, todo, output, since>>

TurnDone ==
  /\ pc = "gone" /\ Vanished = {}
  /\ pc' = "wait"
  /\ UNCHANGED <<Environment, conn, scanning, tracking, output, since>>

\* A change was signalled, the tick elapsed, or the pause with no reader did.
NextTurn ==
  /\ pc = "wait"
  /\ IF DOMAIN snap = {} THEN ctx = "live" ELSE conn = "open"
  /\ pc' = "states" /\ snap' = NoSnap /\ todo' = {}
  /\ UNCHANGED <<Environment, conn, cur, pending, tracking, output, since>>

WaitStops ==
  /\ pc = "wait"
  /\ ctx = "cancelled" \/ (conn # "open" /\ DOMAIN snap # {})
  /\ pc' = "return"
  /\ UNCHANGED <<Environment, conn, scanning, tracking, output, since>>

-----------------------------------------------------------------------------
(* watchLoop: reconnect until the context is cancelled.                    *)

\* Mutant: the readers left to scan outlive the snapshot.
PollReturnsEarly ==
  /\ pc = "return"
  /\ conn' = "closed" /\ snap' = NoSnap
  /\ pc' = IF ctx = "cancelled" THEN "done" ELSE "backoff"
  /\ UNCHANGED <<Environment, todo, cur, pending, tracking, output, since>>

PollReturns ==
  /\ pc = "return"
  /\ conn' = "closed"
  /\ snap' = NoSnap /\ todo' = {}
  /\ pc' = IF ctx = "cancelled" THEN "done" ELSE "backoff"
  /\ UNCHANGED <<Environment, cur, pending, tracking, output, since>>

\* The select commits to whichever comes first, the delay or the cancellation.
BackoffElapsed ==
  /\ pc = "backoff" /\ ctx = "live" /\ pc' = "dial"
  /\ UNCHANGED <<Environment, conn, scanning, tracking, output, since>>

BackoffCancelled ==
  /\ pc = "backoff" /\ ctx = "cancelled" /\ pc' = "done"
  /\ UNCHANGED <<Environment, conn, scanning, tracking, output, since>>

\* The dial ends only when the daemon answers or refuses.
Dial ==
  /\ pc = "dial"
  /\ \/ daemon = "up" /\ conn' = "open" /\ pc' = "session" /\ since' = MaxMoves
     \/ daemon = "down" /\ pc' = "backoff" /\ UNCHANGED <<conn, since>>
  /\ UNCHANGED <<Environment, scanning, tracking, output>>

Loop ==
  \/ StartSession \/ GetStates \/ StatesFail
  \/ Probe \/ Emit \/ EmitCancelled
  \/ ScanDone \/ TurnDone \/ NextTurn \/ WaitStops
  \/ PollReturns \/ BackoffElapsed \/ BackoffCancelled \/ Dial
  \/ \E r \in Readers : SeeNewCard(r) \/ SeeNoChange(r) \/ SeeRemoval(r) \/ DropReader(r)

\* The loop is over and its last events are taken.
Over == pc = "done" /\ ch = <<>> /\ UNCHANGED vars

Next == World \/ Service \/ Cancel \/ CloseOnCancel \/ Receive \/ Loop \/ Over

Spec == Init /\ [][Next]_vars

\* The goroutine and the AfterFunc goroutine are scheduled; what people, the
\* daemon, the owner of the context and the consumer do is up to them.
FairSpec == Spec /\ WF_vars(Loop) /\ WF_vars(CloseOnCancel)

\* The consumer keeps reading its channel.
Reading == WF_vars(Receive)

-----------------------------------------------------------------------------
\* What the goroutine's position tells of the reader it is working on.
Working ==
  /\ pc = "probe" => cur \in DOMAIN snap /\ InReader(cur)
  /\ pc = "emit" =>
       /\ cur \in Readers /\ pending \in Events
       /\ pending.kind = "insert" => cur \in DOMAIN snap /\ InReader(cur)
       /\ pending.kind = "remove" => pending.btag = Nobody

(* A card that was reported as inserted stays remembered as present until  *)
(* its removal is on its way: no restart, lost connection, unplugged       *)
(* reader or suppressed probe makes the loop forget that it owes the       *)
(* consumer a removal (pollLoop; README: "reconnects across pcscd          *)
(* restarts").  Cancellation ends the obligation.                          *)
RemovalOwed ==
  ctx = "live" =>
    \A r \in Readers : said[r] # Nobody =>
      present[r] = "present" \/ (pc = "emit" /\ cur = r /\ pending.kind = "remove")

\* What a turn is to know of a reader when it is over.
Settled(r) ==
  IF r \in DOMAIN snap
  THEN /\ present[r] = IF InReader(r) THEN "present" ELSE "absent"
       /\ counters[r] = IF InReader(r) THEN snap[r].counter ELSE Unset
  ELSE present[r] = "unseen" /\ counters[r] = Unset /\ units.facts[r] = Nothing

\* When the loop goes to wait, it remembers of every reader what its snapshot
\* says, nothing of a reader that is not in it, and the consumer was last told of
\* a card only where the snapshot has one: whatever happened to the probes and
\* the connection of the turn, the next one compares with this one (pollLoop).
TurnSettles ==
  pc = "wait" =>
    \A r \in Readers :
      /\ Settled(r)
      /\ ctx = "live" /\ said[r] # Nobody => r \in DOMAIN snap /\ InReader(r)

\* No two readers of a session hold the same port, and the claims agree with
\* the remembered facts (unitRegistry) whatever the probes answer.
PortsDisjoint == Agreement(units)

\* A presentation is reported at most once, even when the connection is lost
\* or the daemon restarts and counts from zero in between (readerTracking: "a
\* daemon restart does not re-report cards that never moved").
ReportedOnce ==
  [][Len(ch') > Len(ch) /\ ch'[Len(ch')].kind = "insert"
       => <<cur, snap[cur].pid>> \notin reported]_vars

\* Once a reader's serial or port is known it does not change while the
\* session lasts and the reader stays: failed probes of later presentations
\* do not flip its tag (adopt).
IdentityStable ==
  [][\A r \in Readers :
       Known(units.facts[r]) /\ units'.facts[r] # units.facts[r]
         => pc = "session" \/ (pc = "gone" /\ r \in Vanished)]_vars

\* Every btag sent is the btag of a card (README: "The same card produces the
\* same btag everywhere").  It is not so: the type comes from the snapshot's
\* ATR and the uid from the card the probe finds.
TagsAreReal ==
  \A i \in 1..Len(ch) : ch[i].kind = "insert" => \E c \in Cards : ch[i].btag = TagOf(c)

\* The tag of a presentation that lasts from the snapshot to the end of its probe
\* is that of its card: only a card swapped in between mixes the tags of two.
LastingTagIsReal ==
  [][pc = "probe" /\ pc' = "emit" /\ pid[cur] = snap[cur].pid
       => pending'.btag = TagOf(snap[cur].card)]_vars

Insertions == [kind : {"insert"}, reader : Readers, btag : Btags, id : Identity]
Removals == [r \in Readers |-> Remove(r)]

\* The reader whose removal waits to be sent.
Removing(r) == pc = "emit" /\ cur = r /\ pending.kind = "remove"

\* The loop as its consumer sees it.
Promise == INSTANCE ReaderEvents WITH
  Numbers  <- 0..MaxMoves,
  Inserts  <- Insertions,
  Removal  <- Removals,
  Capacity <- ChanCap,
  sent  <- ch,
  told  <- reported,
  owes  <- {r \in Readers : present[r] = "present" \/ Removing(r)},
  phase <- IF pc = "done" THEN "closed" ELSE ctx

\* Through every fault and interleaving the consumer gets the stream that
\* ReaderEvents promises: each presentation at most once and in order, one
\* removal for what was noticed on a reader and none for a reader on which
\* nothing was, and no event behind the close of the channel (Watch, pollLoop).
EventsPromised == Promise!Spec

Steady == ctx = "live" /\ daemon = "up"
Lies(c, r) == r \in registered /\ card[r] = c

\* When a reader is unplugged or its card is taken for good, the last
\* event about the reader comes to be a removal, whatever failed before.
RemovalReported == Reading =>
  \A r \in Readers :
    <>[](Steady /\ (r \notin registered \/ card[r] = NoCard)) => <>[](said[r] = Nobody)

\* A readable card that was there when Watch started, or was put on a reader
\* after the first snapshot that follows a reconnect, is reported with its own
\* btag when it is left there and the session lasts, whatever was swapped
\* during earlier probes.
InsertReported == Reading =>
  \A r \in Readers, c \in Cards :
    UidOf[c] # NoUid =>
      (<>[](Steady /\ Lies(c, r) /\ pid[r] > since) => <>[](said[r] = TagOf(c)))

\* A readable card that is left on its reader is reported (Watch: "reports
\* card insertions"), whenever it came.  A probe cut off by a lost connection
\* is taken for a card without a uid, and presence alone is remembered.
LyingCardReported == Reading =>
  \A r \in Readers, c \in Cards :
    UidOf[c] # NoUid => (<>[](Steady /\ Lies(c, r)) => <>[](said[r] = TagOf(c)))

\* "The channel is closed once ctx is cancelled" (Watch), whether or not the
\* consumer still reads.
CancelCloses == ctx = "cancelled" ~> pc = "done"
=============================================================================
