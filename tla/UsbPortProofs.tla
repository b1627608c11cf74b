--------------------------- MODULE UsbPortProofs ---------------------------
(***************************************************************************)
(* Proofs about UsbPort: for any readers, units and devices, any names and *)
(* any counters, a port that was resolved on current evidence is the one   *)
(* the reader sits in.                                                     *)
(*                                                                         *)
(* The argument: a device that was not probed cannot win by its traffic,   *)
(* and the reader's own device is never struck from the candidates,        *)
(* because who claims it would, claims being right, sit in it, or in one   *)
(* of the same devpath and own the port rightly (TwinOwns).  That devpaths *)
(* differ is nowhere assumed.                                              *)
(*                                                                         *)
(* At the end: the tag of a reader does not depend on its index.           *)
(***************************************************************************)
EXTENDS UsbPort, UnitRegistryProofs, WellFoundedInduction, TLAPS

\* No two units sit in one device.
Apart ==
  \A t, u \in Units : place[t] = place[u] => t = u \/ place[u] = NoDevice

\* A reader that is about to be probed, or being probed, is plugged in unless
\* it is known to be stale.
Awaited ==
  /\ pc = "probe" => cur \in Readers
  /\ pc = "gone" => todo = {}
  /\ \A r \in Readers \ stale :
       (pc = "scan" /\ r \in todo) \/ (pc = "probe" /\ (r = cur \/ r \in todo))
         => At(r) # NoDevice

\* A serial is the unit's own.
SerialsAreOwn ==
  \A r \in Readers : reg.facts[r].serial \in {UnitSerial[r], NoSerial}

\* What the inventory said of the readers that stayed.
Announced ==
  phase = "watch" =>
    \A r \in Readers : Known(inventory[r]) =>
      /\ r \notin stale
      /\ inventory[r].serial \in {UnitSerial[r], NoSerial}
      /\ inventory[r].port # NoPort => SitsIn(r, inventory[r].port)

IInv ==
  /\ TypeOK /\ PortsDisjoint /\ PortsAreRight
  /\ Apart /\ Awaited /\ SerialsAreOwn /\ Announced

-----------------------------------------------------------------------------
(* Ports and slots.                                                        *)

LEMMA PortIsAPort ==
  ASSUME NEW r \in Readers, NEW d \in Devices
  PROVE  portIdentity(r, d) \in Ports /\ portIdentity(r, d) # NoPort
<1>1. /\ SlotOf[r] \in {SlotOf[q] : q \in Readers}
      /\ Devpath[d] \in {Devpath[e] : e \in Devices}
  OBVIOUS
<1> QED BY <1>1, UsbAssumption, UnitAssumption DEF portIdentity

\* Two readers of one device that have one port are one reader.
LEMMA PortIsOwn ==
  ASSUME Apart, NEW q \in Readers, NEW r \in Readers,
         At(r) # NoDevice, At(q) = At(r), portIdentity(q, At(q)) = portIdentity(r, At(r))
  PROVE  q = r
<1>1. SlotOf[q] = SlotOf[r] BY DEF portIdentity
<1>2. UnitOf[q] \in Units /\ UnitOf[r] \in Units BY UsbAssumption
<1>3. UnitOf[q] = UnitOf[r] BY <1>2 DEF Apart, At
<1> QED BY <1>1, <1>3, UsbAssumption

LEMMA CandidatesAreDevices ==
  ASSUME TypeOK, NEW r \in Readers
  PROVE  Candidates(r) \subseteq Devices
<1>1. Matching[r] \subseteq Units BY DEF Matching
<1> QED BY <1>1 DEF Candidates, TypeOK

LEMMA ResolvedAreCandidates ==
  ASSUME NEW r \in Readers, NEW grown
  PROVE  Resolved(r, grown) \subseteq Candidates(r)
<1>1. Free(r) \subseteq Candidates(r) BY DEF Free
<1>2. Eliminated(r) \subseteq Free(r) BY DEF Eliminated
<1> QED BY <1>1, <1>2 DEF Resolved

\* What the scan answers is an identity, right or not.
LEMMA ScanType ==
  ASSUME TypeOK, NEW r \in Readers, NEW grown
  PROVE  [serial |-> NoSerial, port |-> usbPortPathByReader(r, grown)] \in Identity
<1>1. usbPortPathByReader(r, grown) \in Ports \cup {NoPort}
  <2>1. CASE Resolved(r, grown) = {}
    BY <2>1 DEF usbPortPathByReader
  <2>2. CASE Resolved(r, grown) # {}
    <3> DEFINE d == CHOOSE e \in Resolved(r, grown) : TRUE
    <3>1. d \in Devices BY <2>2, ResolvedAreCandidates, CandidatesAreDevices
    <3>2. portIdentity(r, d) \in Ports BY <3>1, PortIsAPort
    <3> QED BY <2>2, <3>2 DEF usbPortPathByReader
  <2> QED BY <2>1, <2>2
<1> QED BY <1>1 DEF Identity

-----------------------------------------------------------------------------
(* The evidence.                                                           *)

\* What the devices that were not probed did during the probe: nothing that
\* clears the minimum.
Quiet(r, grown) ==
  \A d \in Candidates(r) \ {At(r)} : ~(Delta(grown, d) >= urbWinnerMinDelta)

\* An idle device never clears the minimum, its counter wrapping or not, and
\* one that came during the probe does not count.
LEMMA IdleIsQuiet ==
  ASSUME TypeOK, NEW r \in Readers, steady = measured, NEW grown \in Grown(r)
  PROVE  Quiet(r, grown)
<1> SUFFICES ASSUME NEW d \in Candidates(r) \ {At(r)}
             PROVE  ~(Delta(grown, d) >= urbWinnerMinDelta)
  BY DEF Quiet
<1>1. CASE d \notin measured
  BY <1>1, UsbAssumption DEF Delta
<1>2. CASE d \in measured
  <2>1. grown[d] \in Grows(r, d) BY DEF Grown
  <2>2. Grows(r, d) = UNION {Growth(n) : n \in Strays} BY <1>2 DEF Grows
  <2>3. PICK n \in Strays : grown[d] \in Growth(n) BY <2>1, <2>2
  <2>4. n \in Nat /\ n < urbWinnerMinDelta /\ urbWinnerMinDelta \in Nat /\ Modulus \in Nat
    BY UsbAssumption
  <2>5. grown[d] \in {n, n - Modulus} BY <2>3, <2>4 DEF Growth
  <2> QED BY <1>2, <2>4, <2>5 DEF Delta
<1> QED BY <1>1, <1>2

\* Before any traffic every device is quiet.
LEMMA NothingIsQuiet ==
  ASSUME NEW r \in Readers
  PROVE  Quiet(r, [d \in Candidates(r) |-> 0])
  BY UsbAssumption DEF Quiet, Delta

\* What elimination goes by is current: the reader sits somewhere, no twin owns its
\* port, and whoever has a port sits in it.
Current(r) ==
  /\ At(r) # NoDevice /\ ~TwinOwns(r)
  /\ \A q \in Readers \ {r} : PortOf(q) # NoPort => SitsIn(q, PortOf(q))

LEMMA CurrentEvidence ==
  ASSUME IInv, NEW r \in Readers, ~astray, ~Misled(r),
         (pc = "scan" /\ r \in todo) \/ (pc = "probe" /\ r = cur)
  PROVE  Current(r)
<1>1. r \notin stale /\ ~TwinOwns(r) BY DEF Misled
<1>2. At(r) # NoDevice BY <1>1 DEF IInv, Awaited
<1>3. \A q \in Readers \ {r} : PortOf(q) # NoPort => q \notin stale
  BY DEF Misled, PortOf
<1>4. \A q \in Readers \ {r} : PortOf(q) # NoPort => SitsIn(q, PortOf(q))
  BY <1>3 DEF IInv, PortsAreRight
<1> QED BY <1>1, <1>2, <1>4 DEF Current

\* The reader's own device is never struck from the candidates.
LEMMA OwnIsFree ==
  ASSUME IInv, NEW r \in Readers, Current(r), Matching[r] # {}
  PROVE  At(r) \in Free(r)
<1> DEFINE p == portIdentity(r, At(r))
<1>1. UnitOf[r] \in Matching[r] /\ At(r) \in Candidates(r)
  BY UsbAssumption DEF Current, Candidates, At
<1>2. At(r) \in Devices
  BY <1>1, CandidatesAreDevices DEF IInv
<1>3. p \in Ports /\ p # NoPort BY <1>2, PortIsAPort
<1>4. ASSUME NEW q \in Readers, q # r, reg.byPort[p] = q PROVE FALSE
  <2>1. PortOf(q) = p BY <1>3, <1>4 DEF IInv, PortsDisjoint, Agreement, PortOf
  <2>2. SitsIn(q, p) BY <1>3, <1>4, <2>1 DEF Current
  <2>3. At(q) = At(r) BY <1>4, <2>1, <2>2 DEF Current, TwinOwns
  <2> QED BY <1>4, <2>2, <2>3, PortIsOwn DEF IInv, Current, SitsIn
<1>5. reg.byPort[p] \in Readers \cup {NoReader} BY <1>3 DEF IInv, TypeOK, Registry
<1>6. Claimable(reg, p, r) BY <1>3, <1>4, <1>5 DEF Claimable
<1> QED BY <1>1, <1>6 DEF Free

\* The resolution by traffic and by elimination names the reader's own device
\* or none.
LEMMA ResolvedIsOwn ==
  ASSUME IInv, NEW r \in Readers, Current(r), NEW grown, Quiet(r, grown)
  PROVE  Resolved(r, grown) \subseteq {At(r)}
<1> SUFFICES ASSUME NEW d \in Resolved(r, grown) PROVE d = At(r)
  OBVIOUS
<1>1. d \in Candidates(r) BY ResolvedAreCandidates
<1>2. Matching[r] # {} BY <1>1 DEF Candidates
<1>3. At(r) \in Free(r) BY <1>2, OwnIsFree
<1>4. CASE d \in usbUrbWinner(grown, Candidates(r))
  BY <1>1, <1>4 DEF Quiet, usbUrbWinner
<1>5. CASE d \in Eliminated(r)
  BY <1>3, <1>5 DEF Eliminated
<1> QED BY <1>4, <1>5 DEF Resolved

LEMMA ScanIsRight ==
  ASSUME IInv, NEW r \in Readers, Current(r), NEW grown, Quiet(r, grown)
  PROVE  LET port == usbPortPathByReader(r, grown)
         IN  port = NoPort \/ SitsIn(r, port)
<1>1. Resolved(r, grown) \subseteq {At(r)} BY ResolvedIsOwn
<1>2. Resolved(r, grown) # {} =>
        (CHOOSE d \in Resolved(r, grown) : TRUE) = At(r)
  BY <1>1
<1> QED BY <1>2 DEF usbPortPathByReader, Current, SitsIn

-----------------------------------------------------------------------------
(* Adopting what a probe resolved.                                         *)

LEMMA AdoptedFacts ==
  ASSUME TypeOK, NEW r \in Readers, NEW fresh \in Identity
  PROVE  /\ Adopt(reg, r, fresh).facts[r].serial \in {fresh.serial, reg.facts[r].serial}
         /\ Adopt(reg, r, fresh).facts[r].port \in {fresh.port, PortOf(r), NoPort}
         /\ \A q \in Readers \ {r} : Adopt(reg, r, fresh).facts[q] = reg.facts[q]
<1>1. \A q \in Readers \ {r} : Adopt(reg, r, fresh).facts[q] = reg.facts[q]
  BY AdoptOthers DEF TypeOK
<1>2. Adopt(reg, r, fresh).facts[r] = Adopted(reg, r, fresh)
  BY DEF Adopt, TypeOK, Registry
<1>3. Adopted(reg, r, fresh).serial \in {fresh.serial, reg.facts[r].serial}
  BY DEF Adopted, AdoptedSerial
<1>4. Adopted(reg, r, fresh).port \in {fresh.port, PortOf(r), NoPort}
  BY DEF Adopted, AdoptedPort, PortOf
<1> QED BY <1>1, <1>2, <1>3, <1>4

\* A step that gives r a serial of its own and a port of its own, or resolves
\* one on stale evidence, and leaves the units alone.
LEMMA AdoptingKeepsRight ==
  ASSUME IInv, NEW r \in Readers, NEW fresh \in Identity,
         fresh.serial \in {UnitSerial[r], NoSerial},
         reg' = Adopt(reg, r, fresh),
         ~astray' => /\ ~astray
                     /\ r \in stale \/ fresh.port = NoPort \/ SitsIn(r, fresh.port),
         UNCHANGED <<place, stale>>
  PROVE  reg' \in Registry /\ PortsDisjoint' /\ PortsAreRight' /\ SerialsAreOwn'
<1> USE DEF IInv
<1>1. reg \in Registry /\ Agreement(reg) BY DEF TypeOK, PortsDisjoint
<1>2. reg' \in Registry /\ PortsDisjoint'
  BY <1>1, AdoptType, AdoptAgrees DEF PortsDisjoint
<1>3. SerialsAreOwn' BY AdoptedFacts DEF SerialsAreOwn
<1>4. PortsAreRight'
  <2> SUFFICES ASSUME ~astray', NEW q \in Readers \ stale, reg'.facts[q].port # NoPort
               PROVE  SitsIn(q, reg'.facts[q].port)
    BY DEF PortsAreRight, PortOf, SitsIn, At, portIdentity
  <2>1. CASE q # r
    BY <2>1, AdoptedFacts DEF PortsAreRight, PortOf
  <2>2. CASE q = r
    BY <2>2, AdoptedFacts DEF PortsAreRight, PortOf
  <2> QED BY <2>1, <2>2
<1> QED BY <1>2, <1>3, <1>4

-----------------------------------------------------------------------------
(* Invariance.                                                             *)

LEMMA InitIInv == Init => IInv
<1> SUFFICES ASSUME Init PROVE IInv OBVIOUS
<1>1. reg \in Registry /\ Agreement(reg) /\ reg = EmptyRegistry
  BY EmptyRegistryFacts DEF Init
<1>2. \A r \in Readers : reg.facts[r] = Nothing BY <1>1 DEF EmptyRegistry
<1>3. TypeOK BY <1>1 DEF Init, TypeOK, Registry
<1>4. PortsAreRight /\ SerialsAreOwn /\ Announced
  BY <1>2 DEF PortsAreRight, PortOf, SerialsAreOwn, Announced, Nothing, Init
<1>5. Apart /\ Awaited BY DEF Init, Apart, Awaited
<1> QED BY <1>1, <1>3, <1>4, <1>5 DEF IInv, PortsDisjoint

\* A step that leaves reg, units, staleness and announcements alone.
LEMMA QuietStep ==
  ASSUME IInv, UNCHANGED <<place, stale, inventory, phase, reg, astray>>
  PROVE  PortsDisjoint' /\ PortsAreRight' /\ Apart' /\ SerialsAreOwn' /\ Announced'
<1>1. PortsDisjoint' BY DEF IInv, PortsDisjoint
<1>2. PortsAreRight' BY DEF IInv, PortsAreRight, PortOf, SitsIn, At, portIdentity
<1>3. Apart' BY DEF IInv, Apart
<1>4. SerialsAreOwn' BY DEF IInv, SerialsAreOwn
<1>5. Announced' BY DEF IInv, Announced, SitsIn, At, portIdentity
<1> QED BY <1>1, <1>2, <1>3, <1>4, <1>5

LEMMA PlugStep ==
  ASSUME IInv, NEW u \in Units, NEW d \in Devices, Plug(u, d)
  PROVE  IInv'
<1> USE DEF Plug, Move
<1>1. TypeOK' BY DEF IInv, TypeOK
<1>2. \A r \in Readers : At(r) # NoDevice => At(r)' = At(r)
  BY UsbAssumption DEF IInv, TypeOK, At
<1>3. \A r \in Readers : \A port : SitsIn(r, port) => SitsIn(r, port)'
  BY <1>2 DEF SitsIn, portIdentity
<1>4. PortsAreRight'
  BY <1>3 DEF IInv, PortsAreRight, PortOf
<1>5. Announced'
  BY <1>3 DEF IInv, Announced
<1>6. Apart'
  BY DEF IInv, TypeOK, Apart, Present
<1>7. Awaited' BY <1>2, UsbAssumption DEF IInv, Awaited, At, TypeOK
<1>8. PortsDisjoint' /\ SerialsAreOwn' BY DEF IInv, PortsDisjoint, SerialsAreOwn
<1> QED BY <1>1, <1>4, <1>5, <1>6, <1>7, <1>8 DEF IInv

LEMMA UnplugStep ==
  ASSUME IInv, NEW u \in Units, Unplug(u)
  PROVE  IInv'
<1> USE DEF Unplug, Move
<1>1. TypeOK'
  <2>1. \A r \in Readers : Nothing \in Identity /\ inventory[r] \in Identity
    BY DEF IInv, TypeOK, Nothing, Identity
  <2> QED BY <2>1 DEF IInv, TypeOK
<1>2. \A r \in Readers : r \notin stale' => r \notin stale /\ At(r)' = At(r)
  BY UsbAssumption DEF IInv, TypeOK, At
<1>3. \A r \in Readers : \A port : SitsIn(r, port) /\ r \notin stale' => SitsIn(r, port)'
  BY <1>2 DEF SitsIn, portIdentity
<1>4. PortsAreRight'
  BY <1>2, <1>3 DEF IInv, PortsAreRight, PortOf
<1>5. Announced'
  <2> SUFFICES ASSUME phase = "watch", NEW r \in Readers, Known(inventory'[r])
               PROVE  /\ r \notin stale'
                      /\ inventory'[r].serial \in {UnitSerial[r], NoSerial}
                      /\ (inventory[r].port # NoPort => SitsIn(r, inventory[r].port))'
    BY DEF Announced
  <2>1. UnitOf[r] # u BY DEF Known, Nothing
  <2>2. inventory'[r] = inventory[r] BY <2>1
  <2>3. r \notin stale' BY <2>1, <2>2 DEF IInv, Announced
  <2> QED BY <1>3, <2>2, <2>3 DEF IInv, Announced
<1>6. Apart' BY DEF IInv, TypeOK, Apart
<1>7. Awaited' BY <1>2 DEF IInv, Awaited
<1>8. PortsDisjoint' /\ SerialsAreOwn' BY DEF IInv, PortsDisjoint, SerialsAreOwn
<1> QED BY <1>1, <1>4, <1>5, <1>6, <1>7, <1>8 DEF IInv

LEMMA ProbeStartsStep ==
  ASSUME IInv, NEW r \in Readers, ProbeStarts(r)
  PROVE  IInv'
<1> USE DEF ProbeStarts
<1>1. TypeOK' BY DEF IInv, TypeOK, Present
<1>2. Awaited' BY DEF IInv, Awaited, At
<1> QED BY <1>1, <1>2, QuietStep DEF IInv

\* The probe of cur ended and gave it fresh.
LEMMA ProbeAdopts ==
  ASSUME IInv, ProbeEnds, NEW fresh \in Identity,
         fresh.serial \in {UnitSerial[cur], NoSerial},
         reg' = Adopt(reg, cur, fresh), astray' \in BOOLEAN,
         ~astray' => /\ ~astray
                     /\ cur \in stale \/ fresh.port = NoPort \/ SitsIn(cur, fresh.port)
  PROVE  IInv'
<1> USE DEF ProbeEnds
<1>1. PICK r \in Readers : r = cur BY DEF IInv, Awaited
<1>2. reg' \in Registry /\ PortsDisjoint' /\ PortsAreRight' /\ SerialsAreOwn'
  BY <1>1, AdoptingKeepsRight
<1>3. TypeOK' BY <1>2 DEF IInv, TypeOK
<1>4. Apart' /\ Awaited' BY DEF IInv, Apart, Awaited, At
<1>5. Announced' BY DEF IInv, Announced, SitsIn, At, portIdentity
<1> QED BY <1>2, <1>3, <1>4, <1>5 DEF IInv

LEMMA ProbeStep ==
  ASSUME IInv, Probe
  PROVE  IInv'
<1>1. CASE ProbeNothing
  <2> USE <1>1 DEF ProbeNothing, ProbeEnds
  <2>1. TypeOK' BY DEF IInv, TypeOK
  <2>2. Awaited' BY DEF IInv, Awaited, At
  <2> QED BY <2>1, <2>2, QuietStep DEF IInv
<1>2. CASE ReadsSerial
  <2> USE <1>2 DEF ReadsSerial, ProbeEnds, Adopts
  <2> DEFINE fresh == [serial |-> UnitSerial[cur], port |-> NoPort]
  <2>1. cur \in Readers BY DEF IInv, Awaited
  <2>2. fresh \in Identity BY <2>1, UsbAssumption DEF Identity
  <2> QED BY <2>2, ProbeAdopts DEF IInv, TypeOK
<1>3. CASE ReadsChannel
  <2> USE <1>3 DEF ReadsChannel, ProbeEnds, Adopts
  <2> DEFINE fresh == [serial |-> NoSerial, port |-> portIdentity(cur, At(cur))]
  <2>1. cur \in Readers /\ At(cur) \in Devices BY DEF IInv, Awaited, TypeOK
  <2>2. fresh \in Identity BY <2>1, PortIsAPort DEF Identity
  <2>3. SitsIn(cur, fresh.port) BY <2>1, UsbAssumption DEF SitsIn
  <2> QED BY <2>2, <2>3, ProbeAdopts DEF IInv, TypeOK
<1>4. CASE ReadsTraffic
  <2> USE <1>4 DEF ReadsTraffic, ProbeEnds, Adopts
  <2>1. PICK r \in Readers : r = cur BY DEF IInv, Awaited
  <2>2. PICK grown \in Grown(r) :
          reg' = Adopt(reg, r, [serial |-> NoSerial, port |-> usbPortPathByReader(r, grown)])
    BY <2>1
  <2> DEFINE fresh == [serial |-> NoSerial, port |-> usbPortPathByReader(r, grown)]
  <2>3. fresh \in Identity BY ScanType DEF IInv
  <2>4. ASSUME ~astray' PROVE fresh.port = NoPort \/ SitsIn(r, fresh.port)
    <3>1. ~astray /\ ~Misled(r) BY <2>1, <2>4
    <3>2. Current(r) BY <2>1, <3>1, CurrentEvidence
    <3>3. Quiet(r, grown) BY <3>1, IdleIsQuiet DEF IInv, Misled
    <3> QED BY <3>2, <3>3, ScanIsRight
  <2>5. astray' \in BOOLEAN /\ (~astray' => ~astray) BY DEF IInv, TypeOK, Misled
  <2> HIDE DEF fresh
  <2>6. reg' = Adopt(reg, cur, fresh) BY <2>1, <2>2 DEF fresh
  <2>7. fresh.serial \in {UnitSerial[cur], NoSerial} BY DEF fresh
  <2> QED BY <2>1, <2>3, <2>4, <2>5, <2>6, <2>7, ProbeAdopts
<1> QED BY <1>1, <1>2, <1>3, <1>4 DEF Probe

LEMMA StartTurnStep == ASSUME IInv, StartTurn PROVE IInv'
<1> USE DEF StartTurn
<1>1. TypeOK' BY DEF IInv, TypeOK, Plugged
<1>2. PortsAreRight'
  <2> SUFFICES ASSUME ~astray, NEW r \in Readers \ stale', PortOf(r) # NoPort
               PROVE  SitsIn(r, PortOf(r))
    BY DEF PortsAreRight, PortOf, SitsIn, portIdentity, At
  <2>1. r \notin stale BY DEF Known, PortOf
  <2> QED BY <2>1 DEF IInv, PortsAreRight
<1>3. Awaited' BY DEF IInv, Awaited, At, Plugged
<1>4. Announced' BY DEF IInv, Announced, SitsIn, At, portIdentity
<1>5. PortsDisjoint' /\ SerialsAreOwn' /\ Apart'
  BY DEF IInv, PortsDisjoint, SerialsAreOwn, Apart
<1> QED BY <1>1, <1>2, <1>3, <1>4, <1>5 DEF IInv

LEMMA SkipStep == ASSUME IInv, NEW r \in Readers, Skip(r) PROVE IInv'
<1> USE DEF Skip, world
<1>1. TypeOK' BY DEF IInv, TypeOK
<1>2. Awaited' BY DEF IInv, Awaited, At
<1> QED BY <1>1, <1>2, QuietStep DEF IInv

LEMMA InventoryCardlessStep ==
  ASSUME IInv, NEW r \in Readers, InventoryCardless(r)
  PROVE  IInv'
<1> USE DEF InventoryCardless, world, Adopts
<1> DEFINE grown == [d \in Candidates(r) |-> 0]
           fresh == [serial |-> NoSerial, port |-> usbPortPathByReader(r, grown)]
<1>1. fresh \in Identity BY ScanType DEF IInv
<1>2. astray' \in BOOLEAN /\ (~astray' => ~astray) BY DEF IInv, TypeOK, Misled
<1>3. Awaited' BY DEF IInv, Awaited, At
<1>4. Apart' BY DEF IInv, Apart
<1>5. Announced' BY DEF IInv, Announced, SitsIn, At, portIdentity
<1>6. CASE usbPortPathByReader(r, grown) = NoPort
  <2>1. UNCHANGED reg BY <1>6
  <2>2. TypeOK' BY <1>2, <2>1 DEF IInv, TypeOK
  <2>3. PortsDisjoint' /\ SerialsAreOwn' BY <2>1 DEF IInv, PortsDisjoint, SerialsAreOwn
  <2>4. PortsAreRight'
    BY <1>2, <2>1 DEF IInv, PortsAreRight, PortOf, SitsIn, At, portIdentity
  <2> QED BY <1>3, <1>4, <1>5, <2>2, <2>3, <2>4 DEF IInv
<1>7. CASE usbPortPathByReader(r, grown) # NoPort
  <2>1. reg' = Adopt(reg, r, fresh) BY <1>7
  <2>2. ASSUME ~astray' PROVE fresh.port = NoPort \/ SitsIn(r, fresh.port)
    <3>1. ~astray /\ ~Misled(r) BY <2>2
    <3>2. Current(r) BY <3>1, CurrentEvidence
    <3>3. Quiet(r, grown) BY NothingIsQuiet
    <3> QED BY <3>2, <3>3, ScanIsRight
  <2> HIDE DEF fresh
  <2>3. fresh.serial \in {UnitSerial[r], NoSerial} BY DEF fresh
  <2>4. reg' \in Registry /\ PortsDisjoint' /\ PortsAreRight' /\ SerialsAreOwn'
    BY <1>1, <1>2, <2>1, <2>2, <2>3, AdoptingKeepsRight
  <2>5. TypeOK' BY <1>2, <2>4 DEF IInv, TypeOK
  <2> QED BY <1>3, <1>4, <1>5, <2>4, <2>5 DEF IInv
<1> QED BY <1>6, <1>7

LEMMA InventoryDoneStep == ASSUME IInv, InventoryDone PROVE IInv'
<1> USE DEF InventoryDone
<1>1. reg' \in Registry /\ Agreement(reg') /\ reg' = EmptyRegistry
  BY EmptyRegistryFacts
<1>2. \A r \in Readers : reg'.facts[r] = Nothing BY <1>1 DEF EmptyRegistry
<1>3. Nothing \in Identity BY DEF Nothing, Identity
<1>4. TypeOK' BY <1>1, <1>3 DEF IInv, TypeOK, Registry
<1>5. PortsAreRight' /\ SerialsAreOwn'
  BY <1>2 DEF PortsAreRight, PortOf, SerialsAreOwn, Nothing
<1>6. Apart' /\ Awaited' BY DEF IInv, Apart, Awaited, At
<1>7. Announced'
  <2> SUFFICES ASSUME NEW r \in Readers, Known(inventory'[r])
               PROVE  /\ inventory'[r].serial \in {UnitSerial[r], NoSerial}
                      /\ inventory'[r].port # NoPort => SitsIn(r, inventory'[r].port)
    BY DEF Announced, SitsIn, portIdentity, At
  <2>1. ~astray /\ r \notin stale /\ inventory'[r] = reg.facts[r]
    BY DEF Known, Nothing
  <2> QED BY <2>1 DEF IInv, PortsAreRight, PortOf, SerialsAreOwn
<1> QED BY <1>1, <1>4, <1>5, <1>6, <1>7 DEF IInv, PortsDisjoint

LEMMA TurnEndsStep == ASSUME IInv, ScanDone \/ TurnDone PROVE IInv'
<1> USE DEF ScanDone, TurnDone, world
<1>1. TypeOK' BY DEF IInv, TypeOK, Awaited
<1>2. Awaited' BY DEF IInv, Awaited, At
<1> QED BY <1>1, <1>2, QuietStep DEF IInv

LEMMA DropReaderStep == ASSUME IInv, NEW r \in Readers, DropReader(r) PROVE IInv'
<1> USE DEF DropReader
<1>1. reg \in Registry /\ Agreement(reg) BY DEF IInv, TypeOK, PortsDisjoint
<1>2. reg' \in Registry /\ Agreement(reg') BY <1>1, ForgetType, ForgetAgrees
<1>3. reg'.facts[r] = Nothing /\ \A q \in Readers \ {r} : reg'.facts[q] = reg.facts[q]
  BY <1>1, ForgetOthers DEF Forget, Registry
<1>4. TypeOK' BY <1>2 DEF IInv, TypeOK
<1>5. PortsAreRight'
  BY <1>3 DEF IInv, PortsAreRight, PortOf, Nothing, SitsIn, At, portIdentity
<1>6. SerialsAreOwn' BY <1>3 DEF IInv, SerialsAreOwn, Nothing
<1>7. Apart' /\ Awaited' BY DEF IInv, Apart, Awaited, At
<1>8. Announced' BY DEF IInv, Announced, SitsIn, At, portIdentity
<1> QED BY <1>2, <1>4, <1>5, <1>6, <1>7, <1>8 DEF IInv, PortsDisjoint

LEMMA NextIInv == IInv /\ [Next]_vars => IInv'
<1> SUFFICES ASSUME IInv, [Next]_vars PROVE IInv' OBVIOUS
<1>1. CASE \E u \in Units : Unplug(u) \/ \E d \in Devices : Plug(u, d)
  BY <1>1, UnplugStep, PlugStep
<1>2. CASE \E r \in Readers : ProbeStarts(r) \/ Skip(r) \/ InventoryCardless(r) \/ DropReader(r)
  BY <1>2, ProbeStartsStep, SkipStep, InventoryCardlessStep, DropReaderStep
<1>3. CASE Probe BY <1>3, ProbeStep
<1>4. CASE StartTurn BY <1>4, StartTurnStep
<1>5. CASE InventoryDone BY <1>5, InventoryDoneStep
<1>6. CASE ScanDone \/ TurnDone BY <1>6, TurnEndsStep
<1>7. CASE UNCHANGED vars
  <2> USE <1>7 DEF vars, world
  <2>1. TypeOK' BY DEF IInv, TypeOK
  <2>2. Awaited' BY DEF IInv, Awaited, At
  <2> QED BY <2>1, <2>2, QuietStep DEF IInv
<1> QED BY <1>1, <1>2, <1>3, <1>4, <1>5, <1>6, <1>7 DEF Next

LEMMA Invariance == Spec => []IInv
BY InitIInv, NextIInv, PTL DEF Spec

-----------------------------------------------------------------------------
(* The theorems.                                                           *)

\* The variables keep to their types: what a probe resolves is an identity,
\* right or wrong.
THEOREM TypeCorrect == Spec => []TypeOK
<1>1. IInv => TypeOK BY DEF IInv
<1> QED BY <1>1, Invariance, PTL

\* A reader whose port was resolved on current evidence sits in it: the
\* correlation does not depend on the order of the probes, on how the idle
\* units' counters stray or wrap, or on units that come meanwhile.  Devices may
\* share devpaths, as long as no reader is resolved by name whose twin owns its
\* port.
THEOREM PortsRight == Spec => []PortsAreRight
<1>1. IInv => PortsAreRight BY DEF IInv
<1> QED BY <1>1, Invariance, PTL

\* Through the inventory and the watch, claims and facts agree and no two
\* readers have the same port, on stale evidence too.
THEOREM Disjoint == Spec => []PortsDisjoint
<1>1. IInv => PortsDisjoint BY DEF IInv
<1> QED BY <1>1, Invariance, PTL

\* Where the inventory and the watch go by the same kind of fact about a reader
\* that stayed where it was, and no resolution was misled, they give it the same
\* tag, also where devices share devpaths.
THEOREM Agreed == Spec => []InventoryAgrees
<1>1. IInv => InventoryAgrees
  <2> SUFFICES ASSUME IInv, phase = "watch", ~astray, NEW r \in Readers,
                      unitTier(inventory[r]) = unitTier(reg.facts[r])
               PROVE  ReaderTag(r, inventory[r]) = ReaderTag(r, reg.facts[r])
    BY DEF InventoryAgrees
  <2> DEFINE i == inventory[r]
             f == reg.facts[r]
  <2>1. CASE unitTier(i) = "serial"
    <3>1. i.serial # NoSerial /\ f.serial # NoSerial BY <2>1 DEF unitTier
    <3>2. i.serial = f.serial BY <3>1 DEF IInv, Announced, SerialsAreOwn, Known
    <3> QED BY <2>1, <3>2 DEF ReaderTag
  <2>2. CASE unitTier(i) = "port"
    <3>1. i.port # NoPort /\ f.port # NoPort BY <2>2 DEF unitTier
    <3>2. r \notin stale /\ SitsIn(r, i.port)
      BY <3>1 DEF IInv, Announced, Known
    <3>3. SitsIn(r, f.port)
      BY <3>1, <3>2 DEF IInv, PortsAreRight, PortOf
    <3> QED BY <2>2, <3>2, <3>3 DEF ReaderTag, SitsIn
  <2>3. CASE unitTier(i) = "model"
    <3>1. i.port = NoPort /\ f.port = NoPort BY <2>3 DEF unitTier
    <3> QED BY <2>3, <3>1 DEF ReaderTag
  <2> QED BY <2>1, <2>2, <2>3 DEF unitTier
<1> QED BY <1>1, Invariance, PTL

\* When every other candidate is claimed, the scan of a probe gives the reader
\* its port, unless a twin owns it.
LEMMA LastStep ==
  ASSUME IInv, ReadsTraffic, pc = "probe", Matching[cur] # {}, ~astray',
         \A d \in Candidates(cur) \ {At(cur)} :
           \E q \in Readers : PortOf(q) = portIdentity(cur, d)
  PROVE  reg'.facts[cur].port # NoPort
<1> USE DEF ReadsTraffic
<1>1. PICK r \in Readers : r = cur BY DEF IInv, Awaited
<1>2. PICK grown \in Grown(r) :
        reg' = Adopt(reg, r, [serial |-> NoSerial, port |-> usbPortPathByReader(r, grown)])
  BY <1>1 DEF Adopts
<1>3. ~astray /\ ~Misled(r) BY <1>1
<1>4. Current(r) BY <1>1, <1>3, CurrentEvidence
<1>5. Quiet(r, grown) BY <1>3, IdleIsQuiet DEF IInv, Misled
<1>6. At(r) \in Free(r) BY <1>1, <1>4, OwnIsFree
<1>7. Free(r) = {At(r)}
  <2> SUFFICES ASSUME NEW d \in Free(r), d # At(r) PROVE FALSE
    BY <1>6
  <2>1. d \in Candidates(r) /\ Claimable(reg, portIdentity(r, d), r) BY DEF Free
  <2>2. d \in Devices BY <2>1, CandidatesAreDevices DEF IInv
  <2>3. portIdentity(r, d) \in Ports /\ portIdentity(r, d) # NoPort BY <2>2, PortIsAPort
  <2>4. PICK q \in Readers : PortOf(q) = portIdentity(r, d) BY <1>1, <2>1
  <2>5. reg.byPort[portIdentity(r, d)] = q
    BY <2>3, <2>4 DEF IInv, PortsDisjoint, Agreement, PortOf
  <2>6. PortOf(r) = NoPort BY <1>1 DEF Known, PortOf
  <2> QED BY <2>1, <2>3, <2>4, <2>5, <2>6, UnitAssumption DEF Claimable
<1>8. Resolved(r, grown) = {At(r)}
  <2>1. Resolved(r, grown) \subseteq {At(r)} BY <1>4, <1>5, ResolvedIsOwn
  <2>2. CASE /\ Cardinality(Candidates(r)) > 1
             /\ usbUrbWinner(grown, Candidates(r)) # {}
    <3>1. PICK d \in usbUrbWinner(grown, Candidates(r)) : TRUE BY <2>2
    <3>2. d = At(r) BY <1>5, <3>1 DEF Quiet, usbUrbWinner
    <3> QED BY <1>6, <2>1, <2>2, <3>1, <3>2 DEF Resolved
  <2>3. CASE ~(/\ Cardinality(Candidates(r)) > 1
               /\ usbUrbWinner(grown, Candidates(r)) # {})
    <3>1. Resolved(r, grown) = Eliminated(r) BY <2>3 DEF Resolved
    <3> QED BY <1>7, <3>1 DEF Eliminated
  <2> QED BY <2>2, <2>3
<1> DEFINE p == portIdentity(r, At(r))
<1>9. usbPortPathByReader(r, grown) = p BY <1>8 DEF usbPortPathByReader
<1>10. p # NoPort /\ Claimable(reg, p, r) BY <1>6 DEF Free, Claimable
<1> HIDE DEF p
<1>11. reg'.facts[r] = Adopted(reg, r, [serial |-> NoSerial, port |-> p])
  BY <1>2, <1>9 DEF Adopt, IInv, TypeOK, Registry
<1>12. reg'.facts[r].port = p BY <1>10, <1>11 DEF Adopted, AdoptedPort
<1> QED BY <1>1, <1>10, <1>12

THEOREM Pinned == Spec => LastIsPinned
<1>1. IInv /\ [Next]_vars =>
        [(/\ pc = "probe" /\ Matching[cur] # {} /\ ~astray'
          /\ \A d \in Candidates(cur) \ {At(cur)} :
               \E q \in Readers : PortOf(q) = portIdentity(cur, d)
          /\ ReadsTraffic)
         => reg'.facts[cur].port # NoPort]_vars
  BY LastStep
<1> QED BY <1>1, Invariance, PTL DEF Spec, LastIsPinned

-----------------------------------------------------------------------------
(***************************************************************************)
(* Names.  pcscd appends index groups to the name of a reader, in the      *)
(* order in which it found the readers.  What normalizeReaderName leaves   *)
(* is the prefix up to the last field that is none (or the first field):   *)
(* that there is one such prefix takes the least number of a set, which    *)
(* the well-foundedness of the naturals gives without an induction.        *)
(***************************************************************************)
LEMMA Smallest ==
  ASSUME NEW T \in SUBSET Nat, T # {}
  PROVE  \E x \in T : \A y \in T : x <= y
<1> DEFINE less == {p \in Nat \X Nat : p[1] < p[2]}
<1>1. IsWellFoundedOn(less, Nat)
  BY NatLessThanWellFounded, Zenon DEF OpToRel
<1>2. PICK x \in T : \A y \in T : <<y, x>> \notin less
  <2> HIDE DEF less
  <2> QED BY <1>1, WFMin
<1>3. \A y \in T : ~(y < x)
  BY <1>2
<1> QED BY <1>3

\* How many fields of a name stay.
Stays(name, k) ==
  /\ k = 1 \/ ~isHotplugIndex(name[k])
  /\ \A i \in DOMAIN name : i > k => isHotplugIndex(name[i])

\* The names over a set of fields, and what pcscd may append to one.
Names(F) == Seq(F) \ {<<>>}
Indices(F) == {s \in Seq(F) : \A i \in 1..Len(s) : isHotplugIndex(s[i])}

LEMMA SomeStay ==
  ASSUME NEW F, NEW name \in Names(F)
  PROVE  \E k \in DOMAIN name : Stays(name, k)
<1> DEFINE T == {k \in 1..Len(name) : \A i \in 1..Len(name) : i > k => isHotplugIndex(name[i])}
<1>1. Len(name) \in T /\ T \subseteq Nat /\ DOMAIN name = 1..Len(name) /\ Len(name) \in Nat
  BY DEF Names
<1>2. PICK k \in T : \A j \in T : k <= j
  <2> HIDE DEF T
  <2> QED BY <1>1, Smallest
<1>3. k \in 1..Len(name) /\ \A i \in 1..Len(name) : i > k => isHotplugIndex(name[i])
  BY <1>2
<1>4. k = 1 \/ ~isHotplugIndex(name[k])
  <2> SUFFICES ASSUME k # 1, isHotplugIndex(name[k]) PROVE FALSE
    OBVIOUS
  <2>1. k - 1 \in T
    BY <1>1, <1>3
  <2> HIDE DEF T
  <2> QED BY <1>1, <1>2, <2>1
<1> QED
  BY <1>1, <1>3, <1>4 DEF Stays

LEMMA OneStays ==
  ASSUME NEW F, NEW name \in Names(F), NEW j \in DOMAIN name, NEW k \in DOMAIN name,
         Stays(name, j), Stays(name, k)
  PROVE  j = k
  BY DEF Stays, Names

LEMMA NormalName ==
  ASSUME NEW F, NEW name \in Names(F), NEW k \in DOMAIN name, Stays(name, k)
  PROVE  normalizeReaderName(name) = SubSeq(name, 1, k)
<1>1. \A j \in DOMAIN name : Stays(name, j) <=> j = k
  BY OneStays
<1>2. (CHOOSE j \in DOMAIN name : Stays(name, j)) = k
  BY <1>1
<1> QED
  BY <1>2 DEF normalizeReaderName, Stays

\* Whatever indices are appended to a name, the same product part is left.
THEOREM IndicesAreVolatile ==
  ASSUME NEW F, NEW name \in Names(F), NEW s \in Indices(F)
  PROVE  normalizeReaderName(name \o s) = normalizeReaderName(name)
<1>1. PICK k \in DOMAIN name : Stays(name, k)
  BY SomeStay
<1> DEFINE long == name \o s
<1>2. /\ long \in Names(F) /\ Len(long) = Len(name) + Len(s)
      /\ \A i \in 1..Len(name) : long[i] = name[i]
      /\ \A i \in 1..Len(long) : i > Len(name) => long[i] = s[i - Len(name)]
  BY DEF Names, Indices
<1>3. k \in 1..Len(name) /\ k \in DOMAIN long
  BY <1>2 DEF Names
<1>4. ASSUME NEW i \in 1..Len(long), i > k PROVE isHotplugIndex(long[i])
  <2>1. CASE i <= Len(name)
    BY <1>1, <1>2, <1>4, <2>1 DEF Stays, Names
  <2>2. CASE i > Len(name)
    <3>1. i - Len(name) \in 1..Len(s)
      BY <1>2, <2>2 DEF Names, Indices
    <3> QED BY <1>2, <2>2, <3>1 DEF Indices
  <2> QED BY <2>1, <2>2 DEF Names
<1>5. Stays(long, k)
  BY <1>1, <1>2, <1>3, <1>4 DEF Stays, Names
<1>6. SubSeq(long, 1, k) = SubSeq(name, 1, k)
  BY <1>2, <1>3 DEF Names
<1>7. /\ normalizeReaderName(long) = SubSeq(long, 1, k)
      /\ normalizeReaderName(name) = SubSeq(name, 1, k)
  <2> HIDE DEF long
  <2> QED BY <1>1, <1>2, <1>3, <1>5, NormalName
<1> QED
  BY <1>6, <1>7

\* Readers of one product that differ in their indices only have one tag for one
\* identity and match the same units: a tag does not depend on the order in which
\* pcscd enumerates (ReaderTag, readerNameTokens).  The indices are those that the
\* code takes for such, two decimal digits.
THEOREM TagsOutliveIndices ==
  ASSUME NEW F, NEW product \in Names(F), NEW s \in Indices(F), NEW t \in Indices(F),
         NEW q \in Readers, NEW r \in Readers, Name[q] = product \o s, Name[r] = product \o t,
         NEW id \in Identity
  PROVE  /\ ReaderTag(q, id) = ReaderTag(r, id)
         /\ Matching[q] = Matching[r]
<1>1. normalizeReaderName(Name[q]) = normalizeReaderName(Name[r])
  BY IndicesAreVolatile
<1>2. readerNameTokens(Name[q]) = readerNameTokens(Name[r])
  BY <1>1, Zenon DEF readerNameTokens
<1>3. Matching[q] = Matching[r]
  <2>1. Matching[q] = {u \in Units : /\ readerNameTokens(Name[r]) # {}
                                    /\ readerNameTokens(Name[r]) \subseteq Strings[u]}
    BY <1>2, Zenon DEF Matching
  <2> QED BY <2>1, Zenon DEF Matching
<1>4. ReaderTag(q, id) = ReaderTag(r, id)
  BY <1>1, Zenon DEF ReaderTag
<1> QED
  BY <1>3, <1>4
=============================================================================
