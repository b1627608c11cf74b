------------------------------ MODULE UsbPort ------------------------------
(***************************************************************************)
(* Which USB port a reader is said to sit in (readerid.go,                 *)
(* probeReaderCard and usbPortPathByReader), and whether it does: one pass *)
(* of the startup inventory (readers.go, IdentifyReaders), then the turns  *)
(* of a watch session (pcscid.go, pollLoop), while units are plugged and   *)
(* unplugged.                                                              *)
(*                                                                         *)
(* A probe takes the URB counters of all units, works on the card, takes   *)
(* them again and looks for the unit whose counter moved; units come and   *)
(* go meanwhile.  Where the traffic is not decisive the one candidate that *)
(* nobody claims is taken.  The registry of claims is UnitRegistry's.      *)
(*                                                                         *)
(* A device has two keys: counters and candidates go by the name of its    *)
(* sysfs entry, claims, facts and tags by what its devpath file holds, and *)
(* devices on different buses may share that.                              *)
(*                                                                         *)
(* Of the two snapshots the model keeps which devices the first measured   *)
(* and draws, when the second is taken, by how much each counter grew.     *)
(***************************************************************************)
EXTENDS UnitRegistry, Sequences, FiniteSets

CONSTANTS
  Devices,        \* places to plug a unit in: the names of their sysfs entries
  Devpath,        \* [Devices -> the content of the entry's devpath file], which
                  \* leaves the bus out: 1-2 and 3-2 both hold "2"
  NoDevice,       \* where an unplugged unit is
  Units,          \* reader units
  UnitOf,         \* [Readers -> Units]: a unit may have several slots
  Name,           \* [Readers -> the fields of its pcscd name]
  Strings,        \* [Units -> the words of its manufacturer and product]
  UnitSerial,     \* [Readers -> the serial its driver may serve, or NoSerial]
  ServesChannel,  \* readers whose driver may serve a channel id
  Modulus,        \* of an URB counter (2^32)
  urbWinnerMinDelta, urbWinnerMargin,
  Strays,         \* URBs an idle unit may submit during a probe
  Bursts,         \* URBs the probed unit may submit, none included
  Histories,      \* where the counter of a device just plugged in may stand
  MaxMoves        \* bound: units plugged and unplugged

-----------------------------------------------------------------------------
(* Reader names.  A field is a word, a hexadecimal group of two digits, or *)
(* a parenthesized suffix.                                                 *)

Word(w) == [kind |-> "word", is |-> w]
Group(n) == [kind |-> "group", is |-> n]
Suffix(s) == [kind |-> "suffix", is |-> s]

\* Decimal digits only: "0A" is a group of pcscd and not a hotplug index here.
isHotplugIndex(field) ==
  field.kind = "group" /\ field.is % 16 < 10 /\ field.is \div 16 < 10

\* The trailing hotplug indices go, the first field stays.
normalizeReaderName(name) ==
  SubSeq(name, 1, CHOOSE k \in DOMAIN name :
                    /\ k = 1 \/ ~isHotplugIndex(name[k])
                    /\ \A i \in DOMAIN name : i > k => isHotplugIndex(name[i]))

\* What must appear among the strings of the reader's device.
readerNameTokens(name) ==
  {f \in {normalizeReaderName(name)[i] : i \in DOMAIN normalizeReaderName(name)} :
     ~isHotplugIndex(f) /\ f.kind # "suffix"}

\* The slot of a name that ends in two groups, 0 being the first.
Slot(name) ==
  LET n == Len(name)
  IN  IF n >= 2 /\ name[n].kind = "group" /\ name[n - 1].kind = "group"
      THEN name[n].is ELSE 0

SlotOf == [r \in Readers |-> Slot(Name[r])]

\* The units whose strings hold every token of the reader's name.
Matching ==
  [r \in Readers |->
     {u \in Units : /\ readerNameTokens(Name[r]) # {}
                    /\ readerNameTokens(Name[r]) \subseteq Strings[u]}]

\* What of an identity goes into the reader tag.
unitTier(id) ==
  IF id.serial # NoSerial THEN "serial" ELSE IF id.port # NoPort THEN "port" ELSE "model"

\* The tag of a reader.  Digests are taken to be injective, each tier has a hash
\* domain of its own, and the machine's part is the same for all.
ReaderTag(r, id) ==
  [name |-> normalizeReaderName(Name[r]), tier |-> unitTier(id),
   unit |-> IF unitTier(id) = "serial" THEN id.serial ELSE id.port]

\* Mutant: the slots of a unit share its port.
portIdentityPlain(r, device) == <<Devpath[device], 0>>

\* What names a device from here on: its entry is gone from it.
portIdentity(r, device) == <<Devpath[device], SlotOf[r]>>

ASSUME UsbAssumption ==
  /\ NoDevice \notin Devices
  /\ UnitOf \in [Readers -> Units]
  /\ UnitSerial \in [Readers -> Serials \cup {NoSerial}]
  /\ ServesChannel \subseteq Readers
  /\ DOMAIN Devpath = Devices
  /\ Ports = {Devpath[d] : d \in Devices} \X {SlotOf[r] : r \in Readers}
  /\ urbWinnerMinDelta \in Nat \ {0} /\ urbWinnerMargin \in Nat \ {0}
  /\ Bursts \subseteq 0..Modulus - 1 /\ Histories \subseteq 0..Modulus - 1
  /\ Modulus \in Nat /\ MaxMoves \in Nat
  \* "An idle identical unit moves its counter by at most a stray poll URB."
  /\ Strays \subseteq 0..urbWinnerMinDelta - 1 /\ urbWinnerMinDelta < Modulus
  \* The readers of one unit differ in their slots.
  /\ \A q, r \in Readers :
       UnitOf[q] = UnitOf[r] /\ SlotOf[q] = SlotOf[r] => q = r
  \* A name that matches a unit at all matches its own.
  /\ \A r \in Readers : Matching[r] # {} => UnitOf[r] \in Matching[r]

VARIABLES
  place,     \* [Units -> Devices \cup {NoDevice}]
  moves,
  phase,     \* "inventory" or "watch"
  pc,        \* "turn", "scan", "probe" or "gone"
  listed,    \* the readers of the snapshot
  todo,      \* those not yet looked at
  cur,       \* the reader being probed
  measured,  \* the devices whose URB counters were taken before its probe
  reg,       \* the unitRegistry of the phase
  \* history
  inventory, \* what the inventory answered for the readers that stayed since
  steady,    \* devices that hold what they held when the probe began
  stale,     \* readers unplugged since they were listed or their identity adopted
  astray     \* an identity was resolved while the evidence was stale

world == <<place, moves, steady, stale, inventory>>
vars == <<world, phase, pc, listed, todo, cur, measured, reg, astray>>

At(r) == place[UnitOf[r]]
Plugged == {r \in Readers : At(r) # NoDevice}
Present == {place[u] : u \in Units} \ {NoDevice}

TypeOK ==
  /\ place \in [Units -> Devices \cup {NoDevice}] /\ moves \in Nat
  /\ phase \in {"inventory", "watch"} /\ pc \in {"turn", "scan", "probe", "gone"}
  /\ todo \subseteq listed /\ listed \subseteq Readers
  /\ cur \in Readers \cup {NoReader}
  /\ measured \subseteq Devices
  /\ reg \in Registry /\ inventory \in [Readers -> Identity]
  /\ steady \subseteq measured
  /\ stale \subseteq Readers /\ astray \in BOOLEAN

Init ==
  /\ place \in [Units -> Devices \cup {NoDevice}]
  /\ \A t, u \in Units : place[t] = place[u] => t = u \/ place[u] = NoDevice
  /\ moves = 0 /\ phase = "inventory" /\ pc = "turn"
  /\ listed = {} /\ todo = {} /\ cur = NoReader /\ measured = {}
  /\ reg = EmptyRegistry /\ inventory = EmptyRegistry.facts
  /\ steady = {} /\ stale = {} /\ astray = FALSE

-----------------------------------------------------------------------------
(* Units are plugged and unplugged at any time.                            *)

Move == moves < MaxMoves /\ moves' = moves + 1

Plug(u, d) ==
  /\ Move /\ place[u] = NoDevice /\ d \notin Present
  /\ place' = [place EXCEPT ![u] = d]
  /\ UNCHANGED <<steady, stale, inventory>>
  /\ UNCHANGED <<phase, pc, listed, todo, cur, measured, reg, astray>>

Unplug(u) ==
  /\ place[u] # NoDevice /\ Move
  /\ place' = [place EXCEPT ![u] = NoDevice]
  /\ steady' = steady \ {place[u]}
  /\ stale' = stale \cup {r \in Readers : UnitOf[r] = u}
  /\ inventory' = [r \in Readers |-> IF UnitOf[r] = u THEN Nothing ELSE inventory[r]]
  /\ UNCHANGED <<phase, pc, listed, todo, cur, measured, reg, astray>>

-----------------------------------------------------------------------------
(* Resolving a reader by its name.                                         *)

Candidates(r) == {place[u] : u \in Matching[r]} \ {NoDevice}

\* Mutant: a device that came during the probe counts from zero.
DeltaFromZero(grown, d) == grown[d]

\* A device that is missing in the first snapshot cannot win.
Delta(grown, d) == IF d \in measured THEN grown[d] ELSE 0

\* Mutant: the busiest device wins, however little it did.
usbUrbWinnerAny(grown, candidates) ==
  {d \in candidates :
     /\ Delta(grown, d) > 0
     /\ \A e \in candidates \ {d} : Delta(grown, d) > Delta(grown, e)}

\* The candidate that moved most, as a set: empty when nothing is decisive.
usbUrbWinner(grown, candidates) ==
  {d \in candidates :
     /\ Delta(grown, d) >= urbWinnerMinDelta
     /\ Delta(grown, d) >= urbWinnerMargin
     /\ \A e \in candidates \ {d} : Delta(grown, d) - Delta(grown, e) >= urbWinnerMargin}

\* Candidates that belong to no other reader.
Free(r) == {d \in Candidates(r) : Claimable(reg, portIdentity(r, d), r)}

\* Mutant: the first of the free candidates is taken.
EliminatedAny(r) == IF Free(r) = {} THEN {} ELSE {CHOOSE d \in Free(r) : TRUE}

\* The one candidate that is left.
Eliminated(r) == LET free == Free(r) IN {d \in free : free = {d}}

\* The traffic decides among several candidates, elimination where it cannot.
Resolved(r, grown) ==
  LET candidates == Candidates(r)
      winner == usbUrbWinner(grown, candidates)
  IN  IF Cardinality(candidates) > 1 /\ winner # {} THEN winner \cap Free(r)
      ELSE Eliminated(r)

usbPortPathByReader(r, grown) ==
  LET device == Resolved(r, grown)
  IN  IF device = {} THEN NoPort ELSE portIdentity(r, CHOOSE d \in device : TRUE)

\* By how much a counter may differ after n URBs: it may wrap, and the two
\* are subtracted as integers.
Growth(n) == IF n = 0 THEN {0} ELSE {n, n - Modulus}

\* How the counter of device d may grow during the probe of r: the probed unit
\* submits a burst or nothing, an idle one a stray URB, and a device that was
\* not there all the time shows its own history.
Grows(r, d) ==
  IF d \notin measured THEN Histories
  ELSE IF d \notin steady THEN {h - k : h, k \in Histories}
  ELSE UNION {Growth(n) : n \in IF d = At(r) THEN Bursts ELSE Strays}

Grown(r) ==
  LET grows == [d \in Candidates(r) |-> Grows(r, d)]
  IN  {grown \in [DOMAIN grows -> UNION {grows[d] : d \in DOMAIN grows}] :
         \A d \in DOMAIN grows : grown[d] \in grows[d]}

-----------------------------------------------------------------------------
(* The probe of one reader.                                                *)

Adopts(r, serial, port) == reg' = Adopt(reg, r, [serial |-> serial, port |-> port])

PortOf(r) == reg.facts[r].port

\* The unit of r is plugged in where port says.
SitsIn(r, port) == At(r) # NoDevice /\ port = portIdentity(r, At(r))

\* The reader's port is rightly that of a reader in another device, which has the
\* same devpath: "none of the owned candidates can be this one" does not hold then.
TwinOwns(r) ==
  At(r) # NoDevice /\ \E q \in Readers \ {r} :
    At(q) # At(r) /\ PortOf(q) = portIdentity(r, At(r)) /\ SitsIn(q, PortOf(q))

\* An identity that is resolved by name rests on the claims of the others, on
\* the devices of the probe, and on the reader's own port being nobody else's.
Misled(r) ==
  \/ r \in stale
  \/ TwinOwns(r)
  \/ steady # measured
  \/ \E q \in stale \ {r} : PortOf(q) # NoPort

ProbeStarts(r) ==
  /\ pc = "scan" /\ r \in todo
  /\ todo' = todo \ {r} /\ cur' = r /\ pc' = "probe"
  /\ IF Known(reg.facts[r])
     THEN measured' = {} ELSE measured' = Present
  /\ steady' = measured'
  /\ UNCHANGED <<place, moves, stale, inventory, phase, listed, reg, astray>>

ProbeEnds ==
  /\ pc = "probe" /\ pc' = "scan"
  /\ cur' = NoReader /\ measured' = {} /\ steady' = {}
  /\ UNCHANGED <<place, moves, stale, inventory, phase, listed, todo>>

\* The identity is cached, or the card connection fails.
ProbeNothing == ProbeEnds /\ UNCHANGED <<reg, astray>>

ReadsSerial ==
  /\ ProbeEnds /\ ~Known(reg.facts[cur]) /\ UnitSerial[cur] # NoSerial
  /\ Adopts(cur, UnitSerial[cur], NoPort) /\ UNCHANGED astray

\* The channel id names the device, unless the reader was replugged.
ReadsChannel ==
  /\ ProbeEnds /\ ~Known(reg.facts[cur])
  /\ cur \in ServesChannel /\ At(cur) \in steady
  /\ Adopts(cur, NoSerial, portIdentity(cur, At(cur))) /\ UNCHANGED astray

ReadsTraffic ==
  /\ ProbeEnds /\ ~Known(reg.facts[cur])
  /\ \E port \in {usbPortPathByReader(cur, grown) : grown \in Grown(cur)} :
       Adopts(cur, NoSerial, port)
  /\ astray' = (astray \/ Misled(cur))

Probe == ProbeNothing \/ ReadsSerial \/ ReadsChannel \/ ReadsTraffic

-----------------------------------------------------------------------------
(* The turns.                                                              *)

\* Mutant: readers of the last turns are looked at again.
StartTurnRemembers ==
  /\ pc = "turn" /\ pc' = "scan"
  /\ listed' = Plugged /\ todo' = Plugged \cup {r \in Readers : Known(reg.facts[r])}
  /\ stale' = {r \in stale : Known(reg.facts[r])}
  /\ UNCHANGED <<place, moves, steady, inventory, phase, cur, measured, reg, astray>>

\* States() answers the readers that are plugged in.
StartTurn ==
  /\ pc = "turn" /\ pc' = "scan"
  /\ listed' = Plugged /\ todo' = Plugged
  /\ stale' = {r \in stale : Known(reg.facts[r])}
  /\ UNCHANGED <<place, moves, steady, inventory, phase, cur, measured, reg, astray>>

\* No card, or none that looks new.
Skip(r) ==
  /\ pc = "scan" /\ phase = "watch" /\ r \in todo
  /\ todo' = todo \ {r}
  /\ UNCHANGED <<world, phase, pc, listed, cur, measured, reg, astray>>

\* Without a card the inventory goes by the claims alone.
InventoryCardless(r) ==
  /\ pc = "scan" /\ phase = "inventory" /\ r \in todo
  /\ todo' = todo \ {r}
  /\ LET port == usbPortPathByReader(r, [d \in Candidates(r) |-> 0])
     IN  IF port # NoPort THEN Adopts(r, NoSerial, port) ELSE UNCHANGED reg
  /\ astray' = (astray \/ Misled(r))
  /\ UNCHANGED <<world, phase, pc, listed, cur, measured>>

\* The inventory is printed; the watch loop starts with a registry of its own.
InventoryDone ==
  /\ pc = "scan" /\ phase = "inventory" /\ todo = {}
  /\ inventory' = [r \in Readers |-> IF astray \/ r \in stale THEN Nothing ELSE reg.facts[r]]
  /\ phase' = "watch" /\ pc' = "turn"
  /\ reg' = EmptyRegistry /\ stale' = {} /\ astray' = FALSE
  /\ listed' = {}
  /\ UNCHANGED <<place, moves, steady, todo, cur, measured>>

ScanDone ==
  /\ pc = "scan" /\ phase = "watch" /\ todo = {}
  /\ pc' = "gone"
  /\ UNCHANGED <<world, phase, listed, todo, cur, measured, reg, astray>>

Vanished == {r \in Readers \ listed : reg.facts[r] # Nothing}

DropReader(r) ==
  /\ pc = "gone" /\ r \in Vanished
  /\ reg' = Forget(reg, r)
  /\ stale' = stale \ {r}
  /\ UNCHANGED <<place, moves, steady, inventory>>
  /\ UNCHANGED <<phase, pc, listed, todo, cur, measured, astray>>

TurnDone ==
  /\ pc = "gone" /\ Vanished = {}
  /\ pc' = "turn" /\ listed' = {}
  /\ UNCHANGED <<world, phase, todo, cur, measured, reg, astray>>

Next ==
  \/ \E u \in Units : Unplug(u) \/ \E d \in Devices : Plug(u, d)
  \/ \E r \in Readers : \/ ProbeStarts(r) \/ Skip(r)
                        \/ InventoryCardless(r) \/ DropReader(r)
  \/ Probe \/ StartTurn \/ InventoryDone \/ ScanDone \/ TurnDone

Spec == Init /\ [][Next]_vars

-----------------------------------------------------------------------------
(* A port a reader is given is the one its unit sits in, whatever order    *)
(* readers are probed in, however little or much the probe moves, and      *)
(* whatever is plugged in meanwhile, whether devpaths are shared or not,   *)
(* as long as nothing that a resolution went by had been unplugged and no  *)
(* reader was resolved by name while the one in another device of its      *)
(* devpath owned the port (usbPortPathByReader: "the correlation is exact  *)
(* and independent of the daemon's reader order").                         *)
PortsAreRight ==
  ~astray => \A r \in Readers \ stale : PortOf(r) # NoPort => SitsIn(r, PortOf(r))

\* No two readers share a port and claims agree with facts, through
\* inventory, probes and drops (unitRegistry).
PortsDisjoint == Agreement(reg)

\* The tag the inventory announced for a reader is the one its insertions carry,
\* if it stayed where it was, no resolution was misled, by the owner of a shared
\* devpath for one, and both went by the same kind of fact (IdentifyReaders: "the
\* reported Tag is exactly the tag the reader's insertion events will carry").
\* A reader with a serial is announced by its port when no card lies on it.
InventoryAgrees ==
  phase = "watch" /\ ~astray =>
    \A r \in Readers :
      unitTier(inventory[r]) = unitTier(reg.facts[r])
        => ReaderTag(r, inventory[r]) = ReaderTag(r, reg.facts[r])

\* The last unit of its kind is pinned whatever the traffic: when all other
\* candidates are claimed, a probe that gets as far as the scan gives the reader
\* a port ("the one free candidate identifies the unit by elimination"), unless
\* that port is owned by the reader in another device of the same devpath.
LastIsPinned ==
  [][(/\ pc = "probe" /\ Matching[cur] # {} /\ ~astray'
      /\ \A d \in Candidates(cur) \ {At(cur)} :
           \E q \in Readers : PortOf(q) = portIdentity(cur, d)
      /\ ReadsTraffic)
     => reg'.facts[cur].port # NoPort]_vars
=============================================================================
