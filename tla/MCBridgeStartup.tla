-------------------------- MODULE MCBridgeStartup --------------------------
(* One card lies on a reader when the program starts.                      *)
EXTENDS BridgeStartup
CONSTANTS a, f
=============================================================================
