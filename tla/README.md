# A verification of pcscid in TLA+

`pcscid` watches the smart card readers of a machine through the `pcscd`
daemon, gives every presented card a short tag (the btag), and serves the
presentations to browser pages over a loopback HTTP bridge. This directory
holds TLA+ models of the parts of it that keep state and run concurrently, TLC
configurations that check them on small instances, and proofs that TLAPS
checks for every value of the constants.

Paths such as `pcscid.go:430` are relative to the repository root (`src/` here).

## 1. Inventory

| Component | Source | State | Operations | Interacts through |
| --- | --- | --- | --- | --- |
| Watch loop | `pcscid.go` | the current snapshot and reader, the connection, the tracking below | `watchLoop`, `pollLoop`, `identify`, `emit` | calls the pcsc client; sends on a channel of 8 events; an `AfterFunc` goroutine closes its connection when the context is cancelled |
| Reader tracking, unit registry | `pcscid.go:414`, `readerid.go:320` | presence and event counter per reader name; identity facts per reader and an owner per USB port | `cached`, `adopt`, `forget` | used by the watch loop and by the inventory, one goroutine each |
| Unit probe, USB port resolution | `readerid.go:138`, `:546` | the live card connection of one probe | `probeReaderCard`, `usbPortPathByReader`, `usbUrbWinner` | card connections; sysfs |
| UID read | `uid.go` | the round, the attempt, the connection | `openCard`, `insistUID`, `transmitUID`, `reopenCardAfterReset` | connects, transmits, resets through the client |
| Tags and identities | `pcscid.go:145-300` | none | `Btag`, `ReaderTag*` | pure |
| ATR, card type | `atr.go`, `cardtype.go` | none | `ParseATR`, `DetectType` | pure |
| Reader inventory | `readers.go` | its own registry, one pass | `IdentifyReaders` | states and probes through its own client |
| Bridge hub, HTTP | `bridge.go` | the last id, a ring of 64 events, the subscribed channels (16 events each) | `Feed`, `/events`, `/pending`, `ServeListener` | one mutex between the feeding goroutine and the request handlers |
| Bridge dedup | `bridge.go:371` | when each pair of reader and card was seen | `allow` | its mutex; the clock is read before it is taken |
| Program | `cmd/pcscid/main.go` | none | starts the bridge, then the watch, then feeds | order of the start |
| pcsc client | `pcsc/ipc.go`, `pcsc/pcsc.go` | the agreed minor version, the position in the byte stream | handshake, `States`, `WaitChange`, card calls, `Close` | a socket without request ids or answer headers; `Close` may come from another goroutine |
| Fake daemon | `internal/pcscfake` | readers, waiter list | serves the protocol to the tests | the client's environment |
| Signer | `sign.go` | a key | `SignLine` | pure |

### What is hard here

* **Stale snapshots.** A turn of `pollLoop` works through a snapshot while the
  world moves: probes take seconds, a send may block, cards are swapped and
  readers unplugged meanwhile, so an event joins facts of different moments.
* **Sessions.** A lost connection or a daemon restart forgets counters and
  identities on purpose, and presence on purpose not. What may be repeated and
  what may be lost hangs on which of the three is kept.
* **Cancellation** arrives in any of these positions, from another goroutine.
* **A stream without framing.** Answers have no headers: after a deadline or a
  stop request that races a signal, both sides must still agree on what the
  next bytes are.
* **Guessed ports.** Identical units are told apart by which of them moved USB
  traffic during the probe, and by which ports are claimed already: a guess
  built on guesses, while units come and go.
* **Budgets.** The uid read retries on three levels, with card resets between.
* **Time windows and full tables** in the bridge; slow, disappearing and
  reconnecting pages; a shutdown with pages that do not read.

The full list, with lines and the properties that cover each, is `hazards` in
`PROJECT.json`.

### What makes each part correct

* Watch loop: what the consumer was told last agrees in the end with what lies
  on the reader; no presentation is reported twice; a removal is never
  forgotten, and sent only where something was noticed; a cancelled watch ends;
  every btag is some card's.
* Unit registry: claims and facts agree, so no two readers share a port; an
  identity does not flip while a session lasts.
* Port resolution and inventory: a port that is answered is the one the reader
  sits in, the last unit of its kind is always told, and the tag that the inventory
  prints is the tag of the events to come.
* UID read: one connection at a time, none left behind; as long as its budgets
  and no longer; it ends.
* Bridge: the ring is the newest events; a stream is gap-free up to its queue,
  a poll sees each event once; nothing leaks; feeding never waits; the end
  comes. Dedup: once per window, silence in the grace, a bounded table.
* Client: a call never reads an answer that is not its own; both sides speak
  one version; no change is missed; `Close` unblocks.

## 2. Modules

| Module | Models | State against the code |
| --- | --- | --- |
| `UnitRegistry` | `unitRegistry`, as pure operators | `facts`, `byPort`; the zero facts stand for a missing entry |
| `Watch` (extends it) | the goroutine of `Watch` with readers, cards, daemon, context and consumer around it | `present`, `counters`, `units` are `readerTracking`; `snap`, `todo`, `cur`, `pending` the locals of `pollLoop`; `pc` its position; `ch` the channel |
| `ReaderEvents` | what the channel of `Watch` promises, abstractly | `sent` is the channel, `told` the presentations announced, `owes` the readers for which a removal will be sent, `phase` the life of the watch. `Watch!Promise` maps to it: `owes` are the readers remembered as present, less the one whose removal is being sent or with the one whose insert is |
| `UsbPort` (extends `UnitRegistry`) | `IdentifyReaders`, then the turns of `pollLoop`, as far as they decide where a reader sits: `usbPortPathByReader`, `usbUrbWinner`, names and slots | `reg` is the registry of the phase, `measured` the devices of the first counter snapshot, `listed` the readers of the turn, `place` where each unit is really plugged in |
| `CardProbe` | one `probeReaderCard` with the uid insistence | `round`, `attempt`, `live`; `handles` is what became of every connection |
| `BridgeHub` | hub, handlers, server | `next`, `buf`, `subs` are `bridgeHub`; `queue`, `handler` the channel and position of each stream |
| `BridgeDedup` | the filter | `last` is the table; `feeder` a `Feed` between its clock and its lock |
| `BridgeStartup` (extends it) | the first turn of the watch against the grace | `lying`: cards still to be reported; times in ms, the constants of `uid.go` and `bridge.go` |
| `PcscClient` | one connection: client, streams, daemon | `pc` the client's position; `registered` the waiter list; `closer` how far `Close` is |
| `ReaderStates` | what a call of `States` promises, abstractly | `seen` is what the call in progress has looked at. `PcscClient!Snapshots` maps to it: the call is `pc = "states"`, and it has seen the states that are on their way to it |

`MCWatch`, `MCUsbPort`, `MCBridgeHub`, `MCBridgeDedup` and `MCBridgeStartup` name the
members of the sets for TLC. `CardProbe` and `PcscClient` have constants of
numbers and words only and are run as they are.

How they fit: `Watch` takes a probe as one step that answers an identity and a
uid, or nothing; `CardProbe` is what happens inside that step, and `UsbPort`
what port it may answer and whether it is right. `Watch` implements
`ReaderEvents`, which says what a consumer may rely on. `Watch` takes the
connection as open, lost or closed and `States()` as one step that sees the
readers as they are; `PcscClient` is what happens on the connection, and that it
implements `ReaderStates` is what justifies the one step.
The inserts of `Watch` are the presentations that `Feed` of `BridgeDedup`
judges, and what it allows is what `Feed` of `BridgeHub` records. Except for
the two refinements, for the registry under `Watch` and `UsbPort`, for inventory and
watch in `UsbPort`, and for the grace in `BridgeStartup`, these compositions
are argued here and not checked.

### Correspondence and abstraction

* **Watch.** One action per piece of `pollLoop` between two points where
  another actor can matter. `States()` is one step; the probe another, so a
  card may be swapped in between; `emit` a third, blocked by a full channel.
  The snapshot is a Go slice and the vanished readers are ranged over a map: both
  are taken in any order, which contains the code's. A `card` has a type (its
  ATR) and a uid or none (random or unsupported). A `pid` numbers
  presentations and exists for the properties. `since`, `said`, `reported` are
  history. `daemon = "mute"` is a daemon that accepts and does not answer:
  requests on an open connection time out (the connection counts as lost), a
  dial waits, for the handshake has no deadline. The environment can answer a
  port from `UnitPorts` or none to each probe, which contains what the sysfs
  scan can answer, right or wrong.
* **UsbPort.** The code has two keys for a device: candidates and URB counters go
  by the name of the sysfs entry (`readerid.go:576`, `:659`), claims, facts and
  tags by the content of its `devpath` file (`:579`, `:508`), which leaves the
  bus out: `1-2` and `3-2` both hold `2`. `Devices` are the entries, so two units are never in
  one; `Devpath` is any function of them, and `portIdentity` goes through it.
  A probe takes the URB counters of all devices, works, takes them
  again. The model keeps which devices the first snapshot had and draws, at the
  second, by how much each counter grew: the probed unit by a burst or nothing,
  an idle one by less than `urbWinnerMinDelta` (`Strays`, the assumption the code
  makes at `readerid.go:665`), a counter that wraps by a negative difference,
  a device that was replugged in between by whatever its history leaves. Names are
  sequences of words, groups and suffixes; digests are injective. `place`,
  `steady`, `stale` and `astray` are the truth against which the answer is
  judged. `stale` are readers unplugged since the loop believed in them: the
  properties except what was resolved from such evidence (`Misled`). They except,
  too, what was resolved by name for a reader whose port was owned by one in
  another device of the same devpath (`TwinOwns`): there the code is wrong
  (section 5). Left out: the time pcscd takes to notice a plug, sysfs files that cannot be read,
  devices that are no readers.
* **CardProbe.** What a presentation has in store (`trouble`) is drawn once:
  connects that fail, rounds that are wedged, exchanges dropped per round, the
  time each reset takes, the final answer. So a property can say what the
  budgets should have achieved. A connect that fails leaves no handle: one that
  times out at the client and is served by the daemon all the same is a failed
  connect here, and the handle it leaves with the daemon, which the client does
  not know and cannot disconnect, is not represented. Pauses are left out (they are `BridgeStartup`'s).
* **BridgeHub.** Each method of the hub holds one mutex and does not wait, so
  it is a step. A handler is in its select, or in a write, which lasts as long
  as the page does not read and fails once the connection is broken. Closing
  the server breaks the connections. The ring is ascending, so `Since` is a
  suffix of it. `Restart` is the process ending or dying
  at any point; pages keep their cursors. `came` remembers what a page cannot ask
  for, the ids its cursor of the last process hides. A listener that fails is not
  modelled.
* **BridgeDedup.** Time is discrete. The program feeds from one goroutine, the
  library allows several: `MaxStale` bounds how long one waits for the lock.
* **PcscClient.** A message is one step. An answer of the awaited size is
  taken for the awaited answer, whatever it is: the dump and the states have
  one size, as have signal, stop answer and release answer. Any other answer
  leads to `astray`. `Late` is a deadline that passes before the answer came.

## 3. Runs

Every run ends within its limit on two workers; sizes are distinct states.

| Run | Shows | Bounds, and why they are enough |
| --- | --- | --- |
| `Watch` (5.6 M) | `RemovalOwed`, `TurnSettles`, `PortsDisjoint`, `ReportedOnce`, `IdentityStable`, `LastingTagIsReal`, and `EventsPromised`, the refinement of `ReaderEvents`, in every interleaving of two readers | Two readers that resolve one port (a collision needs two), one with a serial; a card with and one without a uid; a channel of 1 so that sends block; 2 moves and 2 faults: a swap, or a move on either side of a restart. The proofs lift all bounds |
| `WatchLive` (305 k) | `RemovalReported`, `InsertReported`, `CancelCloses` | One reader, three cards, 4 moves: two swaps; 1 fault; a channel of 2. No hot plugging and no mute daemon: the latter is `WatchMute` |
| `CardProbe` (383 k) | `OneConnection`, `RoundsBounded`, `InsistsEnough`, `BudgetsSpent`, `Ends` | The code's budgets (3 rounds, 3 attempts, 8 connects), and troubles at and next to each budget; the card leaves once |
| `UsbPort` (1.8 M) | `PortsAreRight`, `InventoryAgrees`, `LastIsPinned` | Four devices, two of which share a devpath, and four readers: two identical units, one of them with a serial, and a unit of two slots whose strings hold the name of the others, one slot with a channel id. So there are placements of three candidates with and without a shared devpath. 2 moves: a replug, or a unit that comes and one that goes. Minimum and margin of 2, growths at and next to them, counters modulo 8 so that they wrap. Symmetry on the devices under the permutations that keep `Devpath` (the two that share swap, the other two swap); nothing else tells devices apart. The constraint `OnEvidence` leaves a phase in which a resolution was misled: `PortsAreRight`, `InventoryAgrees` and `LastIsPinned` say nothing until it ends, and an inventory that ends so leaves the state of one whose probes failed, which is explored. No other run has a constraint |
| `BridgeHub` (925 k) | `RingIsRecent`, `StreamWhole`, `PollsAscend`, `PollsComplete`, `NoLeak`, `ShutdownEnds`, `PollsCatchUp` | Ring and queue of 2 with events enough to overflow both; one stream that may come and go, one poller, one restart |
| `BridgeDedup` (891 k) | `QuietIsServed`, `LyingServedOnce`, `ServedApart` | Three pairs and a table of 2, so it is pruned and cleared; time 9 is two windows of 4 past the grace; symmetry on pairs and feeders, sound as neither is named by a property. The proofs lift all bounds |
| `PcscClient` (23 k) | `InSync`, `VersionsAgree`, `WaiterIsKnown`, `ChangeSeen`, `CloseUnblocks`, and `StatesAreSnapshots`, the refinement of `ReaderStates` | Minor versions 1 to 6: too old, the wait of 4.2 and 4.3, 4.4, 4.5 and one to come; 2 changes: one that is signalled while another is on its way; late answers wherever the code gives up the connection |
| `WatchSwap`, `WatchLost`, `WatchMute`, `BridgeStartup`, `PcscLate` | what the code does not do (section 5) | the smallest instance that shows it |

Two properties reach further than their instance. `BridgeHub` has one stream, so
that a full queue takes events from its own stream only is not explored: it rests
on the theorem `StreamsAreWhole`, which is for any set of streams.
The ports of `Watch` are abstract, so its `PortsDisjoint` is about claims and facts
and would not notice slots that share a port; `LastIsPinned` of `UsbPort` does.

Deadlock is checked except for the bridge: its process may have ended, its
clock run out. The loop that is over, the probe that is done and the
connection that is over stutter explicitly (`Over`), so any other stop is found.

### Fairness

* `Watch`: weak fairness of the loop and of the `AfterFunc` goroutine, which
  the Go scheduler provides. The world, the daemon, the owner of the context
  owe nothing. `RemovalReported` and `InsertReported` assume that the consumer
  reads (`Reading`); `CancelCloses` does not.
* `CardProbe`: weak fairness of the probe: its calls have deadlines.
* `BridgeHub`: weak fairness of the feeding goroutine's `Add`, of the server
  and its two-second drain, of the answer to a poll, and of a handler in its
  select or in a write on a broken connection; never of a write to a page that
  lives. `PollsCatchUp` assumes that the page asks and that its answers are
  not lost for ever.
* `PcscClient`: weak fairness of the client with its deadlines and of a
  `Close` that has begun. `ChangeSeen` adds a daemon that serves and a probe that
  ends; `CloseUnblocks` does not need the daemon.

## 4. Proofs

| Module | Theorems | Argument |
| --- | --- | --- |
| `UnitRegistryProofs` | `AdoptAgrees`, `ForgetAgrees`, `AdoptStable` | Lemmas about pure operators: a claim released belongs to the reader's former port only; a port adopted was free or its own |
| `WatchProofs` | `TypeCorrect`, `RemovalsAreOwed`, `PortsAreDisjoint`, `IdentitiesAreStable`, `EachReportedOnce`, `TurnsSettle`, `LastingTagsAreReal` | Below |
| `WatchRefinement` | `WatchKeepsItsPromise` | Every step of `Watch` is a step of `ReaderEvents` or a stutter under the mapping. It rests on the invariants of `WatchProofs` and on `Sending`: the event being sent is about the reader being worked on |
| `UsbPortProofs` | `TypeCorrect`, `PortsRight`, `Disjoint`, `Agreed`, `Pinned`, `TagsOutliveIndices` | Below |
| `CardProbeProofs` | `TypeCorrect`, `HoldsOneConnection`, `ResetsAreBounded`, `InsistsAsBudgeted`, `ProbeIsBounded` | `Handles` ties the number of handles to the round: one per round, the last of them live or already disconnected. `Account` is what the failures so far say about a card that never left: rounds that are over could not have answered and their resets were within the budget. `Left` is a ranking function: the exchanges and connects that the budgets leave; no attempt gets past its budget (`Budgeted`), so every step of a probe lowers `Left` and it stays a natural number |
| `BridgeHubProofs` | `TypeCorrect`, `RingHoldsNewest`, `StreamsAreWhole`, `NothingLeaks`, `PollsInOrder`, `PollsAreComplete` | `WholeStep` is about one queue: what was got and what waits is joined+1, joined+2, ... as long as the queue had room, which fewer than `QueueCap` events always find. Ids above the last are fresh, so order is kept. A poll gets a suffix of the ring (`SinceSuffix`), so an answer fits behind what was seen (`Fits`), also one that was asked for before a restart |
| `BridgeDedupProofs` | `TypeCorrect`, `QuietPairsAreServed`, `GraceIsSilent`, `TableIsBounded`, `LyingIsServedOnce`, `ServingsAreApart` | What the table holds is when the pair was shown last (`Tracked`), what it lost is a window old or was cleared (`Forgotten`), a serving is at most `MaxStale` later than the last showing (`ServedBefore`), and no feeder judges by an older time (`Punctual`) |
| `PcscClientProofs` | `TypeCorrect`, `SpeaksOneVersion`, `StatesAreTrue`, `StaysInSync`, `NoWaitIsLost` | Below |

`WatchProofs`. `RemovalOwed` is not inductive: that the removal being emitted
belongs to the reader that owes it, and that an insert being emitted is about a
reader in the snapshot, is what `Working` says; `IInv` is `TypeOK`, `Working`,
`PortsDisjoint` and `RemovalOwed`. `EachReportedOnce` needs a second invariant
`OnceInv` that relates the daemon's account of a reader, the snapshot and the
memory: a card that was reported and is still there is remembered as present
with the daemon's counter or with none (`Remembered`), a snapshot that is not
outdated tells the truth, card and all (`SnapFaithful`), and whatever is still
to be scanned and was reported does not look new (`ScanFresh`). A new session
forgets the counter, not the presence, which keeps all three. `LastingTagIsReal`
is an action property of the same invariant: a presentation that lasts is the
one in the snapshot, so the probe reads the uid of the card whose ATR was taken.
`TurnSettles` speaks of the end of a turn; `TurnInv` carries it through the turn:
readers that were dealt with are remembered as the snapshot has them (`TurnSoFar`,
`Dealt`), and of an unseen reader neither a counter nor an identity is remembered
(`Untold`). What the consumer was told follows with `RemovalOwed`.

`UsbPortProofs`. That ports are right is inductive only together with what
makes the evidence good: as long as nothing stale was used, every port held by
a reader is that of the device it sits in (`PortsAreRight`), no two readers have one
(`PortsDisjoint`, `Apart`), and the devices of the probe are still what they were
(`Awaited`). Then an idle unit grows by less than the minimum and a device
without a base by nothing (`IdleIsQuiet`), so the winner is the probed unit;
and its own port is free to it (`OwnIsFree`), so what elimination leaves is its
own too (`ResolvedIsOwn`). `OwnIsFree` is where devpaths count: who owns the port
sits in a device of that devpath, which is the reader's own, hence the reader,
unless it is another one with the same devpath; that is `TwinOwns`, which the
three properties except when the reader is resolved by name. Nothing assumes that
devpaths differ, and readers with a channel id, a serial or a twin that owns
nothing are not excepted. This holds for any units, names, slots, devpaths,
modulus and thresholds that satisfy `UsbAssumption`. It shows too that `urbWinnerMargin` is
not needed for being right when idle units stay under `urbWinnerMinDelta`: it guards
against ones that do not.

`TagsOutliveIndices` is about every name: whatever decimal indices pcscd appends,
readers of one product have one tag for one identity. That a name has a last field
that is no index needs the least element of a set of positions, which
the library's well-foundedness of the naturals gives (`Smallest`) without an
induction.

`PcscClientProofs`. Two invariants, for two kinds of facts. `BInv` holds
whatever answers are late: `Honest` says that every answer on its way is true,
`Proposing` that the second round proposes the daemon's version, and `Greeting`
that as long as the versions are being agreed the connection is used for nothing
else; hence `TypeCorrect` and `SpeaksOneVersion`. `StatesAreTrue`, the refinement of
`ReaderStates`, adds `OneSnapshot`: at most one states request or answer is on its
way, likewise of a 4.4 wait request or its dump, and neither in any position from
which the client goes on, because it gives up a connection on which one of them is
late (`Belated`).
`NoWaitIsLost` adds `WaitBehind`: while the client waits, the request of that wait
is the last on its way to the daemon, so no stop request comes after it. Neither
needs an assumption on `LateIn`: an exchange or a stop request that left an answer
behind may lead the client astray, not to old states and not to a lost wait.

`InSync` speaks of two positions; to carry it from one turn
to the next the invariant must know all of them, for a stop that was overtaken
by a signal stays on its way behind the next requests (`Settling`, `Pending`).
`InStep` lists for each position of the client what may be on its way in both
directions and whether the daemon may have it on the waiter list. `StaysInSync`
follows, for any minor versions and any number of changes, under
`Careful`: no answer is late in a call after which the code uses the connection
again. The run `PcscLate` shows that it is needed.

Assumptions: `Careful` in `StaysInSync`, and otherwise only the
named `ASSUME`s of the modules (the null values are not
members of the sets, bounds are natural numbers, capacities at least 1). TLC
evaluates them in the runs. The bounds `MaxMoves`, `MaxFaults`, `MaxEvents`,
`MaxTime` and the like are arbitrary in the proofs.

Only model-checked: the liveness properties `RemovalReported`, `InsertReported`,
`CancelCloses`, `Ends`, `ShutdownEnds`, `PollsCatchUp`,
`ChangeSeen` and `CloseUnblocks` (temporal reasoning under fairness is out of
the prover's reach). Every other property of a passing run is proved. Proved and
not run are `GraceSilent` and `TableBounded` of `BridgeDedup`, which one action's
definition nearly shows, and `PortsDisjoint` of `UsbPort`, which the run `Watch`
checks for the same registry.

## 5. What the code does not do

1. **A btag of no card** (`WatchSwap`, `TagsAreReal`). The type comes from the
   snapshot's ATR, the uid from the card found by the probe
   (`pcscid.go:466`). Swap in between, and the insert joins one card's type
   with another's uid. The next turn sees the counter and reports the second
   card properly (`InsertReported`).
2. **A card that is never reported** (`WatchLost`, `LyingCardReported`). A
   probe cut off by a lost connection answers no uid; the loop takes that for
   a card without one and marks the reader present (`pcscid.go:490`). After
   the reconnect presence alone counts.
3. **A watch that outlives its context** (`WatchMute`, `CancelCloses`). A dial
   to a daemon that accepts and does not answer has no deadline
   (`pcsc/ipc.go:97`) and is not closed by the cancellation.
4. **A lying card served after a restart** (`BridgeStartup`, `LyingSilent`).
   The grace of 2 s counts from the start of the bridge (`bridge.go:391`), a
   probe that resets the card may pause for longer before its insert is fed.
5. **A stream out of step** (`PcscLate`, `InSync`). A late stop answer is
   taken for one that was read (`pcsc/ipc.go:251`), the next call reads it.

Noted on the way, without a run of their own:

* **Equal devpaths on two buses.** "The correlation is exact"
  (`readerid.go:534`) and "none of the owned candidates can be this one"
  (`readerid.go:622-623`) rely on a devpath naming one device, which no line
  ensures. Take identical units A on `1-2`, B on `3-2` and C on `1-4`, and let A
  own port `2`. B is probed without decisive traffic, or listed without a card:
  `2` is claimed, so both `1-2` and `3-2` count as owned, the one free port is
  `4`, and B is given the port of C. If in the watch B's card is read
  first and its traffic decides, B gets `2`: another tag than announced, of the
  same kind. With A and B alone, B is refused as soon as A owns `2`, by
  traffic and by elimination, and never pinned. The run `UsbPort` has such
  devices. Without the disjunct `TwinOwns(r)` of `Misled` it violates
  `PortsAreRight`, `InventoryAgrees` and `LastIsPinned`, each of them also with
  `MaxMoves = 0`, where no unit is ever moved; with the
  disjunct all three hold and are proved.
* A `Close` racing a wait may let `WaitChange` return without an error, for the
  answer to its stop request is read as a signal.
* A probe's exchange that times out and is retried on the same connection reads
  the first answer (`PcscClient` with `"exchange"` in `LateIn`).
* Cursors of `/pending` do not survive a restart of the program
  (`bridge.go:322`); README.md:207 leaves that to the page.
* The inventory announces a reader that serves a serial by its port when no card
  lies on it and elimination finds one: the events to come carry the serial's
  tag. `InventoryAgrees` speaks of readers that both go by one kind of fact.
* The claim of a reader that was unplugged and is not dropped yet, and a reader
  replugged within a turn, mislead the elimination: a unit may be given the
  port of another until the session ends. The comment at `readerid.go:124`
  accepts the cached identity; `Misled` names these cases.
* Another program that uses an idle unit during a probe breaks the assumption on
  `Strays`; then the traffic may point at the wrong unit.
* pcscd writes the index of a reader in hexadecimal, `isHotplugIndex` takes decimal
  digits (`pcscid.go:288`): from the eleventh reader on (`0A`) the index stays in
  the name, changes the tag with the order of enumeration, and matches no
  device.
* Two slots of one unit that serves a serial carry one serial, hence differ in
  their tags by their names only.

## 6. Not modelled, and the plan

Not modelled because there is nothing to explore: `sign.go` (cryptography),
`version.go`, `pcsc/const.go`, flags and printing, encodings of `wire.go`,
`/info`, `/health` and CORS. The two writes of `transmit` and the retries of `connect`
on a sharing violation are inside one step of `PcscClient`.

ATR parsing and card types (`atr.go`, `cardtype.go`) are pure functions of one
byte string that keep no state and meet no other part; the repository's tests
enumerate their error paths. `Watch` takes a card's type as given by its ATR.

What is left, in the order of what it would add:

1. `Kiosk`: the events of `Watch` through dedup and hub to a page. It can use
   `ReaderEvents` in the place of `Watch`, which is what the refinement is for.
2. The two writes of a transmit and the retries of a connect as steps of
   `PcscClient`.
3. Pure modules: ATR parsing and card types against a reference definition over
   bounded inputs; what they compute for every input can be proved with
   `Smallest`, as the names are.

Twelve runs are what the project keeps: new questions join a run of their
module where the instance allows, or replace a weaker one.
