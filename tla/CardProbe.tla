----------------------------- MODULE CardProbe -----------------------------
(***************************************************************************)
(* One probe of a presented card: probeReaderCard opens a card connection  *)
(* (openCard), reads the attributes of the unit, insists on the uid across *)
(* card resets (insistUID, transmitUID, reopenCardAfterReset), strengthens *)
(* the USB traffic when a port must be pinned, and disconnects.            *)
(*                                                                         *)
(* What the card and the reader will do is drawn once, as a trouble: how   *)
(* many connects fail before the card is activated, which activations are  *)
(* wedged, how many exchanges each loses, how long each reset keeps the    *)
(* reader from seeing the card, and what the card answers in the end.      *)
(* Besides, the card may be taken off the reader and put back at any time; *)
(* a connection to pcscd that breaks looks the same to the probe.  Either  *)
(* way the handles of the time before answer errors from then on.          *)
(***************************************************************************)
EXTENDS Integers, Sequences, FiniteSets

CONSTANTS
  UidReadAttempts,      \* connects of openCard, exchanges on one connection
  UidReadRounds,        \* connections the uid is tried on
  ResetReopenAttempts,  \* connects after a reset
  OpenFails, Drops, Lags,  \* numbers of failures the troubles range over
  Kinds,                \* final answers: "uid", "random", "refused"
  MaxLeaves             \* bound: times the card is taken away

ASSUME ProbeAssumption ==
  /\ UidReadAttempts \in Nat \ {0} /\ UidReadRounds \in Nat \ {0}
  /\ ResetReopenAttempts \in Nat \ {0}
  /\ OpenFails \subseteq Nat /\ Drops \subseteq Nat /\ Lags \subseteq Nat
  /\ Kinds \subseteq {"uid", "random", "refused"}
  /\ MaxLeaves \in Nat

Rounds == 1..UidReadRounds

VARIABLES
  trouble,  \* what this presentation has in store
  there,    \* whether the card is on the reader
  leaves,   \* times it was taken away
  pc,
  round, attempt,
  live,     \* the handle the probe holds, 0 for none
  valid,    \* whether the card of that handle has not left since
  handles,  \* what became of each handle: "open", "reset" or "leave"
  pin,      \* whether the port is to be pinned by traffic
  uid       \* the uid read, "uid" or "none"

vars == <<trouble, there, leaves, pc, round, attempt, live, valid, handles, pin, uid>>

Troubles == [open : OpenFails, wedged : [Rounds -> BOOLEAN], drops : [Rounds -> Drops],
             lag : [Rounds -> Lags], kind : Kinds]

TypeOK ==
  /\ trouble \in Troubles
  /\ there \in BOOLEAN /\ leaves \in Nat
  /\ pc \in {"open", "attrs", "read", "reopen", "pin", "teardown", "done"}
  /\ round \in Rounds /\ attempt \in Nat \ {0}
  /\ live \in 0..Len(handles)
  /\ valid \in BOOLEAN
  /\ handles \in Seq({"open", "reset", "leave"})
  /\ pin \in BOOLEAN /\ uid \in {"uid", "none"}

\* The lag after the last round is never met: no reset follows that round.
Init ==
  /\ trouble \in Troubles
  /\ \E n \in Lags : trouble.lag[UidReadRounds] = n /\ \A m \in Lags : n <= m
  /\ there = TRUE /\ leaves = 0
  /\ pc = "open" /\ round = 1 /\ attempt = 1
  /\ live = 0 /\ valid = FALSE /\ handles = <<>>
  /\ pin = FALSE /\ uid = "none"

-----------------------------------------------------------------------------
Leave ==
  /\ there /\ leaves < MaxLeaves
  /\ there' = FALSE /\ leaves' = leaves + 1 /\ valid' = FALSE
  /\ UNCHANGED <<trouble, pc, round, attempt, live, handles, pin, uid>>

Return ==
  /\ ~there /\ there' = TRUE
  /\ UNCHANGED <<trouble, leaves, pc, round, attempt, live, valid, handles, pin, uid>>

-----------------------------------------------------------------------------
Connected ==
  /\ live' = Len(handles) + 1
  /\ handles' = Append(handles, "open")
  /\ valid' = TRUE /\ attempt' = 1

\* One attempt is connectCard: the negotiated connect, then the raw one when the
\* protocols mismatch.
Activated == there /\ attempt > trouble.open

\* Mutant: an attempt that fails is not counted.
OpenRetryForever ==
  /\ pc = "open" /\ ~Activated
  /\ UNCHANGED vars

OpenCard ==
  /\ pc = "open" /\ Activated
  /\ Connected /\ pc' = "attrs"
  /\ UNCHANGED <<trouble, there, leaves, round, pin, uid>>

OpenRetry ==
  /\ pc = "open" /\ ~Activated /\ attempt < UidReadAttempts
  /\ attempt' = attempt + 1
  /\ UNCHANGED <<trouble, there, leaves, pc, round, live, valid, handles, pin, uid>>

\* No connection, no facts.
OpenGivesUp ==
  /\ pc = "open" /\ ~Activated /\ attempt >= UidReadAttempts
  /\ pc' = "done"
  /\ UNCHANGED <<trouble, there, leaves, round, attempt, live, valid, handles, pin, uid>>

\* The serial and the channel id; whether the unit stays unidentified.
Attributes ==
  /\ pc = "attrs" /\ pc' = "read"
  /\ pin' \in BOOLEAN
  /\ UNCHANGED <<trouble, there, leaves, round, attempt, live, valid, handles, uid>>

\* What follows the insistence, with a connection or without.
Insisted == IF pin THEN "pin" ELSE "teardown"

\* What one uid exchange answers.
Answer ==
  IF ~valid THEN "error"
  ELSE IF trouble.wedged[round] THEN "wedged"
  ELSE IF attempt <= trouble.drops[round] THEN "error"
  ELSE trouble.kind

ReadFinal ==
  /\ pc = "read" /\ Answer \in {"uid", "random"}
  /\ uid' = IF Answer = "uid" THEN "uid" ELSE "none"
  /\ pc' = Insisted
  /\ UNCHANGED <<trouble, there, leaves, round, attempt, live, valid, handles, pin>>

ReadRetry ==
  /\ pc = "read" /\ Answer \in {"error", "refused"}
  /\ attempt < UidReadAttempts /\ attempt' = attempt + 1
  /\ UNCHANGED <<trouble, there, leaves, pc, round, live, valid, handles, pin, uid>>

NoAnswer ==
  Answer = "wedged" \/ (Answer \in {"error", "refused"} /\ attempt >= UidReadAttempts)

\* Mutant: the last round resets the card too.
NextRoundAlways == NoAnswer

NextRound == NoAnswer /\ round < UidReadRounds

\* The last connection stays open for the caller to disconnect.
InsistGivesUp ==
  /\ pc = "read" /\ NoAnswer /\ ~NextRound
  /\ pc' = Insisted
  /\ UNCHANGED <<trouble, there, leaves, round, attempt, live, valid, handles, pin, uid>>

\* Mutant: the connection is abandoned without a disconnect.
ResetCardAbandoned ==
  /\ pc = "read" /\ NextRound
  /\ valid' = FALSE
  /\ pc' = "reopen" /\ attempt' = 1
  /\ UNCHANGED <<trouble, there, leaves, round, live, handles, pin, uid>>

\* The reset disconnect; whether it is answered makes no difference.
ResetCard ==
  /\ pc = "read" /\ NextRound
  /\ handles' = [handles EXCEPT ![live] = "reset"] /\ valid' = FALSE
  /\ pc' = "reopen" /\ attempt' = 1
  /\ UNCHANGED <<trouble, there, leaves, round, live, pin, uid>>

Reactivated == there /\ attempt > trouble.lag[round]

ReopenCard ==
  /\ pc = "reopen" /\ Reactivated
  /\ Connected /\ round' = round + 1 /\ pc' = "read"
  /\ UNCHANGED <<trouble, there, leaves, pin, uid>>

\* Mutant: one connect fewer after a reset.
ReopenBudgetShort == attempt + 1 < ResetReopenAttempts

\* Mutant: connects to a reader without a card do not count.
ReopenBudgetPresent == ~there \/ attempt < ResetReopenAttempts

ReopenBudget == attempt < ResetReopenAttempts

ReopenRetry ==
  /\ pc = "reopen" /\ ~Reactivated /\ ReopenBudget
  /\ attempt' = attempt + 1
  /\ UNCHANGED <<trouble, there, leaves, pc, round, live, valid, handles, pin, uid>>

ReopenGivesUp ==
  /\ pc = "reopen" /\ ~Reactivated /\ ~ReopenBudget
  /\ live' = 0 /\ pc' = Insisted
  /\ UNCHANGED <<trouble, there, leaves, round, attempt, valid, handles, pin, uid>>

\* The pinning exchanges, whose answers are ignored, and the port scan.
Pinning ==
  /\ pc = "pin" /\ pc' = "teardown"
  /\ UNCHANGED <<trouble, there, leaves, round, attempt, live, valid, handles, pin, uid>>

\* The deferred disconnect leaves the card as it is.
Teardown ==
  /\ pc = "teardown"
  /\ handles' = IF live = 0 THEN handles ELSE [handles EXCEPT ![live] = "leave"]
  /\ pc' = "done"
  /\ UNCHANGED <<trouble, there, leaves, round, attempt, live, valid, pin, uid>>

Probe ==
  \/ OpenCard \/ OpenRetry \/ OpenGivesUp \/ Attributes
  \/ ReadFinal \/ ReadRetry \/ InsistGivesUp
  \/ ResetCard \/ ReopenCard \/ ReopenRetry \/ ReopenGivesUp
  \/ Pinning \/ Teardown

Over == pc = "done" /\ UNCHANGED vars

Next == Probe \/ Leave \/ Return \/ Over

Spec == Init /\ [][Next]_vars /\ WF_vars(Probe)

-----------------------------------------------------------------------------
(* The probe holds one connection at most: whatever it has opened and not  *)
(* disconnected is the handle it uses, nothing it uses was disconnected,   *)
(* and nothing is left open in pcscd when it is done (insistUID: "the      *)
(* returned live connection is the one the caller must disconnect").       *)
OneConnection ==
  /\ \A h \in DOMAIN handles : handles[h] = "open" => h = live /\ pc # "done"
  /\ pc \in {"attrs", "read"} => live # 0
  /\ live # 0 /\ pc \notin {"reopen", "done"} => handles[live] = "open"

\* One connection per round at most, and the card is reset between rounds only.
RoundsBounded ==
  /\ Len(handles) <= UidReadRounds
  /\ Len(handles) = UidReadRounds => handles[UidReadRounds] # "reset"

\* Whether round k gets a final answer out of a card that stays.
Answers(k) ==
  ~trouble.wedged[k] /\ trouble.drops[k] < UidReadAttempts /\ trouble.kind # "refused"

\* The insistence is as long as its budgets say and no longer: the uid of a
\* card that stays is read exactly when some round answers and no connect
\* budget runs out before, and no connection that would have answered is reset.
InsistsEnough ==
  pc = "done" /\ leaves = 0 =>
    /\ uid = "uid" <=>
         /\ trouble.kind = "uid" /\ trouble.open < UidReadAttempts
         /\ \E k \in Rounds : Answers(k)
              /\ \A j \in 1..(k - 1) : trouble.lag[j] < ResetReopenAttempts
    /\ \A h \in DOMAIN handles : handles[h] = "reset" => ~Answers(h)

\* What the probe may still do to the card: the exchanges and connects that its
\* budgets leave it, and what it does in any case.
Left ==
  LET rounds == (ResetReopenAttempts + UidReadAttempts) * (UidReadRounds - round)
  IN  CASE pc = "open"     -> rounds + 2 * UidReadAttempts + 4 - attempt
        [] pc = "attrs"    -> rounds + UidReadAttempts + 3
        [] pc = "read"     -> rounds + UidReadAttempts + 3 - attempt
        [] pc = "reopen"   -> rounds + 3 - attempt
        [] pc = "pin"      -> 2
        [] pc = "teardown" -> 1
        [] pc = "done"     -> 0

\* Every step spends of it and none overdraws it, however often the card is taken
\* away and put back: so long a probe keeps the watch loop, and no longer
\* (uidReadAttempts, uidReadRounds and resetReopenAttempts "bound" the insistence).
BudgetsSpent == [][Probe => Left' \in 0..(Left - 1)]_vars

\* A probe ends, with the card or without: the watch loop gets its turn back.
Ends == <>(pc = "done")
=============================================================================
