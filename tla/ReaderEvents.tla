---------------------------- MODULE ReaderEvents ----------------------------
(***************************************************************************)
(* What the channel of Watch promises its consumer (pcscid.go, Watch and   *)
(* the tests of it), without polls, probes, sessions or faults.            *)
(*                                                                         *)
(* The cards presented on a reader are numbered in the order in which they *)
(* come.  A presentation is announced at most once and never after a later *)
(* one.  Noticing one, announced or not, makes the loop owe a removal for  *)
(* that reader; a removal is sent only where it is owed and pays the debt, *)
(* however many presentations came in between.  Debts are given up only    *)
(* after the cancellation, and nothing is sent once the channel is closed. *)
(***************************************************************************)
EXTENDS Integers, Sequences

CONSTANTS
  Readers,
  Numbers,   \* numbers of presentations
  Inserts,   \* insert events, each of a .reader
  Removal,   \* [Readers -> removal events]
  Capacity   \* of the channel

VARIABLES
  sent,      \* the channel: events the consumer has not taken yet
  told,      \* <<reader, number>> of the presentations announced
  owes,      \* readers for which the consumer gets a removal
  phase      \* "live", "cancelled" or "closed"

vars == <<sent, told, owes, phase>>

Init == sent = <<>> /\ told = {} /\ owes = {} /\ phase = "live"

Send(e) ==
  /\ phase # "closed" /\ Len(sent) < Capacity
  /\ sent' = Append(sent, e)

\* A presentation is announced: a new one, and later than any announced before.
Announce(e, k) ==
  /\ Send(e)
  /\ \A x \in told : x[1] = e.reader => x[2] < k
  /\ told' = told \cup {<<e.reader, k>>}
  /\ owes' = owes \cup {e.reader}
  /\ UNCHANGED phase

\* A card is noticed of which nothing is said: it serves no uid.
Notice(r) ==
  /\ phase # "closed"
  /\ owes' = owes \cup {r}
  /\ UNCHANGED <<sent, told, phase>>

\* A removal ends everything that was noticed on the reader.
Retract(r) ==
  /\ r \in owes /\ Send(Removal[r])
  /\ owes' = owes \ {r}
  /\ UNCHANGED <<told, phase>>

Cancel ==
  /\ phase = "live" /\ phase' = "cancelled"
  /\ UNCHANGED <<sent, told, owes>>

\* A cancelled loop stops in the middle of what it was about to send.
Abandon(r) ==
  /\ phase = "cancelled" /\ r \in owes
  /\ owes' = owes \ {r}
  /\ UNCHANGED <<sent, told, phase>>

Close ==
  /\ phase = "cancelled" /\ phase' = "closed"
  /\ UNCHANGED <<sent, told, owes>>

Receive ==
  /\ sent # <<>> /\ sent' = Tail(sent)
  /\ UNCHANGED <<told, owes, phase>>

Next ==
  \/ Cancel \/ Close \/ Receive
  \/ \E e \in Inserts, k \in Numbers : Announce(e, k)
  \/ \E r \in Readers : Notice(r) \/ Retract(r) \/ Abandon(r)

Spec == Init /\ [][Next]_vars
=============================================================================
