----------------------------- MODULE MCUsbPort -----------------------------
(* Two identical units and one of two slots whose strings hold theirs, on  *)
(* two buses: the devices d1 and d4 have one devpath.                      *)
EXTENDS UsbPort, TLC
CONSTANTS d1, d2, d3, d4, r1, r2, r3, r4, ua, ub, uc, s2, acs, dual

MCUnitOf == [r \in Readers |-> CASE r = r1 -> ua [] r = r2 -> ub [] OTHER -> uc]
MCName ==
  [r \in Readers |->
     CASE r = r1 -> <<Word(acs), Group(0), Group(0)>>
       [] r = r2 -> <<Word(acs), Group(1), Suffix(0), Group(0), Group(0)>>
       [] r = r3 -> <<Word(acs), Word(dual), Group(2), Group(0)>>
       [] r = r4 -> <<Word(acs), Word(dual), Group(2), Group(1)>>]
MCStrings == [u \in Units |-> {Word(acs)} \cup IF u = uc THEN {Word(dual)} ELSE {}]
MCUnitSerial == [r \in Readers |-> IF r = r2 THEN s2 ELSE NoSerial]
\* A devpath is told by the devices that have it.
MCDevpath == [d \in Devices |-> IF d \in {d1, d4} THEN {d1, d4} ELSE {d}]
MCPorts == {MCDevpath[d] : d \in Devices} \X {Slot(Name[r]) : r \in Readers}
\* The permutations of the devices that keep their devpaths apart or together.
AnyDevice ==
  {p \in Permutations(Devices) :
     \A d \in Devices : MCDevpath[p[d]] = {p[e] : e \in MCDevpath[d]}}
(* A phase in which a resolution was misled is not followed to its end:    *)
(* until it ends no property but TypeOK says anything, and an inventory    *)
(* that ends so leaves the state of one that learned nothing, which failed *)
(* probes lead to as well.                                                 *)
OnEvidence == ~astray
=============================================================================
