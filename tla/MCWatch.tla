------------------------------ MODULE MCWatch ------------------------------
(* Two readers of one model, one of which serves a serial now and then, and *)
(* three cards: two of different types with a uid, one without.            *)
EXTENDS Watch
CONSTANTS r1, r2, c1, c2, c3, t1, t2, u1, u2, s1, p1, p2

MCTypeOf == [c \in Cards |-> IF c = c2 THEN t2 ELSE t1]
MCUidOf == [c \in Cards |-> CASE c = c1 -> u1 [] c = c2 -> u2 [] OTHER -> NoUid]
MCUnitSerial == [r \in Readers |-> IF r = r1 THEN s1 ELSE NoSerial]
MCNoSerials == [r \in Readers |-> NoSerial]
MCUnitPorts == [r \in Readers |-> {p1}]
MCNoPorts == [r \in Readers |-> {}]
=============================================================================
