---------------------------- MODULE ReaderStates ----------------------------
(***************************************************************************)
(* What the caller of Client.States may rely on (pcsc/pcsc.go), without    *)
(* streams, versions, deadlines or a daemon: the states that a call        *)
(* answers are what the readers were at one moment of that very call.      *)
(*                                                                         *)
(* The states are known by the number of changes they account for.  A call *)
(* looks at them at most once; one that fails tells nothing.               *)
(***************************************************************************)
EXTENDS Naturals

VARIABLES
  changes,  \* reader state changes so far
  call,     \* "idle" or "states"
  seen,     \* what the call in progress has seen: nothing yet, or one number
  fetched   \* what the last call that succeeded answered

vars == <<changes, call, seen, fetched>>

Init == changes = 0 /\ call = "idle" /\ seen = {} /\ fetched = 0

Change ==
  /\ changes' = changes + 1
  /\ UNCHANGED <<call, seen, fetched>>

Call ==
  /\ call = "idle" /\ call' = "states" /\ seen' = {}
  /\ UNCHANGED <<changes, fetched>>

Look ==
  /\ call = "states" /\ seen = {} /\ seen' = {changes}
  /\ UNCHANGED <<changes, call, fetched>>

Return ==
  /\ call = "states" /\ call' = "idle"
  /\ fetched' \in seen /\ seen' = {}
  /\ UNCHANGED changes

Fail ==
  /\ call = "states" /\ call' = "idle" /\ seen' = {}
  /\ UNCHANGED <<changes, fetched>>

Next == Change \/ Call \/ Look \/ Return \/ Fail

Spec == Init /\ [][Next]_vars
=============================================================================
