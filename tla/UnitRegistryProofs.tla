------------------------- MODULE UnitRegistryProofs -------------------------
(* What Adopt and Forget return, preserve and never change, for any set of *)
(* readers, serials and ports and any facts a probe may come up with.      *)
EXTENDS UnitRegistry, TLAPS

LEMMA EmptyRegistryFacts == EmptyRegistry \in Registry /\ Agreement(EmptyRegistry)
  BY UnitAssumption DEF EmptyRegistry, Registry, Identity, Nothing, Agreement

LEMMA ReleasedFacts ==
  ASSUME NEW reg \in Registry, Agreement(reg), NEW r \in Readers
  PROVE  /\ Released(reg, r) \in [Ports -> Readers \cup {NoReader}]
         /\ \A p \in Ports : Released(reg, r)[p] # r
         /\ \A q \in Readers \ {r}, p \in Ports :
              Released(reg, r)[p] = q <=> reg.byPort[p] = q
  BY UnitAssumption DEF Released, Registry, Identity, Agreement

LEMMA AdoptedType ==
  ASSUME NEW reg \in Registry, NEW r \in Readers, NEW fresh \in Identity
  PROVE  Adopted(reg, r, fresh) \in Identity
<1>1. AdoptedSerial(reg, r, fresh) \in Serials \cup {NoSerial}
  BY DEF AdoptedSerial, Registry, Identity
<1>2. AdoptedPort(reg, r, fresh) \in Ports \cup {NoPort}
  BY DEF AdoptedPort, Registry, Identity
<1> QED BY <1>1, <1>2 DEF Adopted, Identity

LEMMA AdoptType ==
  ASSUME NEW reg \in Registry, Agreement(reg), NEW r \in Readers, NEW fresh \in Identity
  PROVE  Adopt(reg, r, fresh) \in Registry
<1> DEFINE id == Adopted(reg, r, fresh)
<1>1. id \in Identity BY AdoptedType
<1>2. Released(reg, r) \in [Ports -> Readers \cup {NoReader}] BY ReleasedFacts
<1>3. [reg.facts EXCEPT ![r] = id] \in [Readers -> Identity] BY <1>1 DEF Registry
<1> QED BY <1>2, <1>3 DEF Adopt, Registry

\* The port that is adopted was free or r's own.
LEMMA AdoptedPortClaimable ==
  ASSUME NEW reg \in Registry, NEW r \in Readers, NEW fresh \in Identity,
         Adopted(reg, r, fresh).port # NoPort
  PROVE  Claimable(reg, Adopted(reg, r, fresh).port, r)
  BY DEF Adopted, AdoptedPort, Claimable

\* adopt keeps claims and facts in agreement, so that two readers never share
\* a port, even when the probe resolves a port that another reader owns.
THEOREM AdoptAgrees ==
  ASSUME NEW reg \in Registry, Agreement(reg), NEW r \in Readers, NEW fresh \in Identity
  PROVE  Agreement(Adopt(reg, r, fresh))
<1> DEFINE id   == Adopted(reg, r, fresh)
           old  == reg.facts[r].port
           kept == IF id.port = old THEN reg.byPort ELSE Released(reg, r)
           new  == Adopt(reg, r, fresh)
<1>1. id \in Identity BY AdoptedType
<1>2. /\ new.facts = [reg.facts EXCEPT ![r] = id]
      /\ new.byPort = [p \in Ports |-> IF p = id.port THEN r ELSE kept[p]]
  BY DEF Adopt
<1>3. \A q \in Readers : new.facts[q] = IF q = r THEN id ELSE reg.facts[q]
  BY <1>2 DEF Registry
<1> SUFFICES ASSUME NEW q \in Readers, NEW p \in Ports
             PROVE  new.byPort[p] = q <=> new.facts[q].port = p
  BY DEF Agreement
<1>4. CASE q = r
  <2>1. p # id.port => kept[p] # r
    <3>1. CASE id.port = old BY <3>1 DEF Agreement
    <3>2. CASE id.port # old BY <3>2, ReleasedFacts
    <3> QED BY <3>1, <3>2
  <2> QED BY <1>2, <1>3, <1>4, <2>1
<1>5. CASE q # r
  <2>1. kept[p] = q <=> reg.byPort[p] = q
    <3>1. CASE id.port = old BY <3>1
    <3>2. CASE id.port # old BY <1>5, <3>2, ReleasedFacts
    <3> QED BY <3>1, <3>2
  <2>2. p = id.port => reg.byPort[p] # q
    BY <1>5, AdoptedPortClaimable, UnitAssumption DEF Claimable
  <2> QED BY <1>2, <1>3, <1>5, <2>1, <2>2 DEF Agreement
<1> QED BY <1>4, <1>5

LEMMA ForgetType ==
  ASSUME NEW reg \in Registry, Agreement(reg), NEW r \in Readers
  PROVE  Forget(reg, r) \in Registry
  BY ReleasedFacts DEF Forget, Registry, Identity, Nothing

\* forget releases the port of the reader that left and no other claim.
THEOREM ForgetAgrees ==
  ASSUME NEW reg \in Registry, Agreement(reg), NEW r \in Readers
  PROVE  Agreement(Forget(reg, r))
<1> DEFINE new == Forget(reg, r)
<1>1. /\ new.facts = [reg.facts EXCEPT ![r] = Nothing]
      /\ new.byPort = Released(reg, r)
  BY DEF Forget
<1> SUFFICES ASSUME NEW q \in Readers, NEW p \in Ports
             PROVE  new.byPort[p] = q <=> new.facts[q].port = p
  BY DEF Agreement
<1>2. new.facts[q] = IF q = r THEN Nothing ELSE reg.facts[q]
  BY <1>1 DEF Registry
<1>3. CASE q = r BY <1>1, <1>2, <1>3, ReleasedFacts, UnitAssumption DEF Nothing
<1>4. CASE q # r BY <1>1, <1>2, <1>4, ReleasedFacts DEF Agreement
<1> QED BY <1>3, <1>4

\* A probe that fails, or that answers the remembered facts, changes nothing.
THEOREM AdoptStable ==
  ASSUME NEW reg \in Registry, Agreement(reg), NEW r \in Readers,
         NEW fresh \in {Nothing, reg.facts[r]}
  PROVE  Adopt(reg, r, fresh).facts[r] = reg.facts[r]
<1> DEFINE id == reg.facts[r]
<1>1. id \in Identity BY DEF Registry
<1>2. fresh \in Identity BY <1>1, UnitAssumption DEF Nothing, Identity
<1>3. id.port # NoPort => Claimable(reg, id.port, r)
  BY <1>1 DEF Agreement, Claimable, Identity
<1>4. AdoptedPort(reg, r, fresh) = id.port
  BY <1>1, <1>3 DEF AdoptedPort, Nothing, Claimable
<1>5. AdoptedSerial(reg, r, fresh) = id.serial
  BY DEF AdoptedSerial, Nothing
<1>6. Adopted(reg, r, fresh) = id BY <1>1, <1>4, <1>5 DEF Adopted, Identity
<1> QED BY <1>6 DEF Adopt, Registry

\* Nor does the adoption of one reader's facts touch another reader's.
LEMMA AdoptOthers ==
  ASSUME NEW reg \in Registry, NEW r \in Readers, NEW q \in Readers, q # r,
         NEW fresh \in Identity
  PROVE  Adopt(reg, r, fresh).facts[q] = reg.facts[q]
  BY DEF Adopt, Registry

LEMMA ForgetOthers ==
  ASSUME NEW reg \in Registry, NEW r \in Readers, NEW q \in Readers, q # r
  PROVE  Forget(reg, r).facts[q] = reg.facts[q]
  BY DEF Forget, Registry
=============================================================================
