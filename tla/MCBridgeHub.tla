---------------------------- MODULE MCBridgeHub ----------------------------
(* The bridge hub with named streams and pages.                            *)
EXTENDS BridgeHub
CONSTANTS s1, s2, p1, p2
=============================================================================
