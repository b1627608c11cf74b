---------------------------- MODULE UnitRegistry ----------------------------
(***************************************************************************)
(* The session registry of per-unit reader identities (readerid.go,        *)
(* unitRegistry): which identity facts a reader name has been given in     *)
(* this daemon session, and which reader name owns which USB port.         *)
(*                                                                         *)
(* A registry is a record of two functions.  In the code both are maps; a  *)
(* reader that was never probed answers the zero facts, so the map entry   *)
(* that is missing and the entry that holds the zero facts are the same    *)
(* value here (Nothing).  The uid and the protocol stored beside the       *)
(* identity are never read back from the registry and are left out.        *)
(***************************************************************************)
EXTENDS Integers

CONSTANTS
  Readers,    \* pcscd reader names
  Serials,    \* usable hardware serials
  Ports,      \* port identities: a devpath, with its slot when not the first
  NoSerial,   \* the empty serial
  NoPort,     \* the empty port
  NoReader    \* a port that nobody claims

ASSUME UnitAssumption ==
  /\ NoSerial \notin Serials
  /\ NoPort \notin Ports
  /\ NoReader \notin Readers

Identity == [serial : Serials \cup {NoSerial}, port : Ports \cup {NoPort}]

\* The zero readerFacts.
Nothing == [serial |-> NoSerial, port |-> NoPort]

Registry ==
  [facts : [Readers -> Identity], byPort : [Ports -> Readers \cup {NoReader}]]

EmptyRegistry ==
  [facts |-> [r \in Readers |-> Nothing], byPort |-> [p \in Ports |-> NoReader]]

\* A reader whose serial or port is known is not probed for it again.
Known(id) == id.serial # NoSerial \/ id.port # NoPort

\* Nobody else claims port p, so r may.
Claimable(reg, p, r) == p # NoPort /\ reg.byPort[p] \in {NoReader, r}

\* Mutant: a failed probe loses the serial.
AdoptedSerialFresh(reg, r, fresh) == fresh.serial

AdoptedSerial(reg, r, fresh) ==
  IF fresh.serial # NoSerial THEN fresh.serial ELSE reg.facts[r].serial

\* Mutant: a fresh port is taken whoever owns it.
AdoptedPortAnyway(reg, r, fresh) ==
  IF fresh.port # NoPort THEN fresh.port ELSE reg.facts[r].port

\* The fresh port when it is free, else the port r had, else none.
AdoptedPort(reg, r, fresh) ==
  IF Claimable(reg, fresh.port, r) THEN fresh.port
  ELSE IF Claimable(reg, reg.facts[r].port, r) THEN reg.facts[r].port
  ELSE NoPort

Adopted(reg, r, fresh) ==
  [serial |-> AdoptedSerial(reg, r, fresh), port |-> AdoptedPort(reg, r, fresh)]

\* Only the claim of r itself on its former port is released.
Released(reg, r) ==
  [p \in Ports |-> IF p = reg.facts[r].port /\ reg.byPort[p] = r
                   THEN NoReader ELSE reg.byPort[p]]

Adopt(reg, r, fresh) ==
  LET id   == Adopted(reg, r, fresh)
      kept == IF id.port = reg.facts[r].port THEN reg.byPort ELSE Released(reg, r)
  IN  [facts  |-> [reg.facts EXCEPT ![r] = id],
       byPort |-> [p \in Ports |-> IF p = id.port THEN r ELSE kept[p]]]

Forget(reg, r) ==
  [facts |-> [reg.facts EXCEPT ![r] = Nothing], byPort |-> Released(reg, r)]

-----------------------------------------------------------------------------
(* The two maps agree: a port is owned by r exactly when r's facts name    *)
(* it.  In particular no two readers of a session carry the same port,     *)
(* hence no two identical units the same port-level tag (readerid.go,      *)
(* unitRegistry: "two readers must never share one port fact").            *)
Agreement(reg) ==
  \A r \in Readers, p \in Ports : reg.byPort[p] = r <=> reg.facts[r].port = p

=============================================================================
