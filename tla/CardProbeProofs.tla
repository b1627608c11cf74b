--------------------------- MODULE CardProbeProofs ---------------------------
(***************************************************************************)
(* That a probe opens one connection at a time and at most one per round,  *)
(* for every budget and whatever the card and the reader do.  The          *)
(* invariant says what the handles are worth at each point of the probe:   *)
(* all but the last were given up by a reset, and the last one is open,    *)
(* reset, or left with the card as it was.                                 *)
(* That the insistence is worth its budgets needs the account of a card    *)
(* that stays (Account): what the failures so far say about the trouble.   *)
(* That the probe is bounded: a number of steps its budgets leave (Left).  *)
(***************************************************************************)
EXTENDS CardProbe, TLAPS

AllReset(n) == \A h \in 1..n : handles[h] = "reset"

Holding ==
  /\ live = Len(handles) /\ live = round
  /\ handles[live] = "open" /\ AllReset(live - 1)

LostIt ==
  /\ Len(handles) = round /\ round < UidReadRounds
  /\ AllReset(Len(handles))

\* What the handles are worth at each point of the probe.
Handles ==
  /\ pc = "open" => handles = <<>> /\ live = 0 /\ round = 1
  /\ pc \in {"attrs", "read"} => Holding
  /\ pc = "attrs" => attempt = 1
  /\ pc = "reopen" => LostIt /\ live = round
  /\ pc \in {"pin", "teardown"} => Holding \/ (live = 0 /\ LostIt)
  /\ pc = "done" =>
       /\ \A h \in DOMAIN handles : handles[h] # "open"
       /\ Len(handles) <= UidReadRounds
       /\ Len(handles) = UidReadRounds => handles[UidReadRounds] # "reset"

IInv == TypeOK /\ Handles

USE DEF Rounds

LEMMA InitIInv == Init => IInv
<1> SUFFICES ASSUME Init PROVE IInv
  OBVIOUS
<1> USE ProbeAssumption DEF Init
<1>1. TypeOK
  <2>1. there \in BOOLEAN /\ valid \in BOOLEAN /\ pin \in BOOLEAN
    BY Zenon
  <2> QED
    BY <2>1 DEF TypeOK
<1>2. Handles
  BY DEF Handles
<1> QED
  BY <1>1, <1>2 DEF IInv

\* The steps of the probe keep the types.
LEMMA TypeStep == IInv /\ [Next]_vars => TypeOK'
<1> SUFFICES ASSUME IInv, [Next]_vars PROVE TypeOK'
  OBVIOUS
<1> USE ProbeAssumption DEF TypeOK, IInv
<1>1. CASE Leave
  <2>1. there' \in BOOLEAN /\ valid' \in BOOLEAN
    BY <1>1, Zenon DEF Leave
  <2> QED
    BY <1>1, <2>1 DEF Leave
<1>2. CASE Return
  BY <1>2 DEF Return
<1>3. CASE OpenCard
  BY <1>3 DEF OpenCard, Connected
<1>4. CASE OpenRetry
  BY <1>4 DEF OpenRetry
<1>5. CASE OpenGivesUp
  BY <1>5 DEF OpenGivesUp
<1>6. CASE Attributes
  BY <1>6 DEF Attributes
<1>7. CASE ReadFinal
  BY <1>7 DEF ReadFinal, Insisted
<1>8. CASE ReadRetry
  BY <1>8 DEF ReadRetry
<1>9. CASE InsistGivesUp
  BY <1>9 DEF InsistGivesUp, Insisted
<1>10. CASE ResetCard
  <2>1. valid' \in BOOLEAN
    BY <1>10, Zenon DEF ResetCard
  <2>2. handles' \in Seq({"open", "reset", "leave"}) /\ Len(handles') = Len(handles)
    BY <1>10 DEF ResetCard, Handles, Holding
  <2> QED
    BY <1>10, <2>1, <2>2 DEF ResetCard
<1>11. CASE ReopenCard
  <2>1. valid' \in BOOLEAN
    BY <1>11, Zenon DEF ReopenCard, Connected
  <2> QED
    BY <1>11, <2>1 DEF ReopenCard, Connected, Handles, LostIt
<1>12. CASE ReopenRetry
  BY <1>12 DEF ReopenRetry
<1>13. CASE ReopenGivesUp
  BY <1>13 DEF ReopenGivesUp, Insisted
<1>14. CASE Pinning
  BY <1>14 DEF Pinning
<1>15. CASE Teardown
  BY <1>15 DEF Teardown
<1>16. CASE UNCHANGED vars
  BY <1>16 DEF vars
<1> QED
  BY <1>1, <1>2, <1>3, <1>4, <1>5, <1>6, <1>7, <1>8, <1>9, <1>10, <1>11,
     <1>12, <1>13, <1>14, <1>15, <1>16 DEF Next, Probe, Over

\* And the worth of the handles.
LEMMA HandlesStep == IInv /\ [Next]_vars => Handles'
<1> SUFFICES ASSUME IInv, [Next]_vars PROVE Handles'
  OBVIOUS
<1> USE ProbeAssumption DEF TypeOK, IInv, Handles, Holding, LostIt, AllReset
<1>1. CASE Leave
  BY <1>1 DEF Leave
<1>2. CASE Return
  BY <1>2 DEF Return
<1>3. CASE OpenCard
  BY <1>3 DEF OpenCard, Connected
<1>4. CASE OpenRetry
  BY <1>4 DEF OpenRetry
<1>5. CASE OpenGivesUp
  BY <1>5 DEF OpenGivesUp
<1>6. CASE Attributes
  BY <1>6 DEF Attributes
<1>7. CASE ReadFinal
  BY <1>7 DEF ReadFinal, Insisted
<1>8. CASE ReadRetry
  BY <1>8 DEF ReadRetry
<1>9. CASE InsistGivesUp
  BY <1>9 DEF InsistGivesUp, Insisted
<1>10. CASE ResetCard
  BY <1>10 DEF ResetCard, NextRound
<1>11. CASE ReopenCard
  BY <1>11 DEF ReopenCard, Connected
<1>12. CASE ReopenRetry
  BY <1>12 DEF ReopenRetry
<1>13. CASE ReopenGivesUp
  BY <1>13 DEF ReopenGivesUp, Insisted
<1>14. CASE Pinning
  BY <1>14 DEF Pinning
<1>15. CASE Teardown
  BY <1>15 DEF Teardown
<1>16. CASE UNCHANGED vars
  BY <1>16 DEF vars
<1> QED
  BY <1>1, <1>2, <1>3, <1>4, <1>5, <1>6, <1>7, <1>8, <1>9, <1>10, <1>11,
     <1>12, <1>13, <1>14, <1>15, <1>16 DEF Next, Probe, Over

LEMMA Invariance == Spec => []IInv
<1>1. IInv /\ [Next]_vars => IInv'
  BY TypeStep, HandlesStep DEF IInv
<1> QED
  BY InitIInv, <1>1, PTL DEF Spec

\* The types of the probe's state.
THEOREM TypeCorrect == Spec => []TypeOK
<1>1. IInv => TypeOK
  BY DEF IInv
<1> QED
  BY Invariance, <1>1, PTL

\* A probe holds one connection at most and leaves none behind, whatever the
\* reader does and whatever the budgets are (insistUID, the deferred disconnect).
THEOREM HoldsOneConnection == Spec => []OneConnection
<1>1. IInv => OneConnection
  BY ProbeAssumption
  DEF IInv, TypeOK, Handles, Holding, LostIt, AllReset, OneConnection
<1> QED
  BY Invariance, <1>1, PTL

\* It opens one connection per round at most, and never resets the last one
\* (insistUID: a reset is only spent when another round follows it).
THEOREM ResetsAreBounded == Spec => []RoundsBounded
<1>1. IInv => RoundsBounded
  BY ProbeAssumption
  DEF IInv, TypeOK, Handles, Holding, LostIt, AllReset, RoundsBounded
<1> QED
  BY Invariance, <1>1, PTL

-----------------------------------------------------------------------------
\* What a connection of the card that still lies there has shown so far.
Sticking == pc = "read" /\ attempt > 1 /\ valid => ~trouble.wedged[round]

LEMMA StickingStep == IInv /\ Sticking /\ [Next]_vars => Sticking'
<1> SUFFICES ASSUME IInv, Sticking, [Next]_vars PROVE Sticking'
  OBVIOUS
<1> USE ProbeAssumption DEF Sticking
<1>1. CASE ReadRetry
  <2>1. valid => ~trouble.wedged[round]
    BY <1>1, Zenon DEF ReadRetry, Answer
  <2> QED
    BY <1>1, <2>1 DEF ReadRetry
<1>2. CASE Attributes
  BY <1>2 DEF Attributes, IInv, Handles
<1>3. CASE ReopenCard
  BY <1>3 DEF ReopenCard, Connected
<1>4. CASE Leave
  BY <1>4 DEF Leave
<1>5. CASE Return
  BY <1>5 DEF Return
<1>6. CASE UNCHANGED vars
  BY <1>6 DEF vars
<1>7. CASE OpenCard \/ OpenRetry \/ OpenGivesUp
  BY <1>7 DEF OpenCard, OpenRetry, OpenGivesUp
<1>8. CASE ReadFinal \/ InsistGivesUp \/ ReopenGivesUp
  BY <1>8 DEF ReadFinal, InsistGivesUp, ReopenGivesUp, Insisted
<1>9. CASE ResetCard \/ ReopenRetry \/ Pinning \/ Teardown
  BY <1>9 DEF ResetCard, ReopenRetry, Pinning, Teardown
<1> QED
  BY <1>1, <1>2, <1>3, <1>4, <1>5, <1>6, <1>7, <1>8, <1>9 DEF Next, Probe, Over

\* What the trouble allows: some round answers, and no connect budget runs
\* out before it.
Enough ==
  /\ trouble.kind = "uid" /\ trouble.open < UidReadAttempts
  /\ \E k \in Rounds : Answers(k)
       /\ \A j \in 1..(k - 1) : trouble.lag[j] < ResetReopenAttempts

\* The rounds before n were met by the trouble, not by a budget of a reopen.
Failed(n) == \A j \in 1..n : ~Answers(j)
Survived(n) == \A j \in 1..n : trouble.lag[j] < ResetReopenAttempts

\* What the probe knows of a card that never left.
Account ==
  /\ there
  /\ pc \in {"attrs", "read"} => valid
  /\ Failed(round - 1) /\ Survived(round - 1)
  /\ \A h \in DOMAIN handles : handles[h] = "reset" => ~Answers(h)
  /\ pc \in {"open", "attrs", "read", "reopen"} => uid = "none"
  /\ pc \in {"open", "attrs", "read"} => attempt <= UidReadAttempts
  /\ pc \in {"attrs", "read", "reopen"} => trouble.open < UidReadAttempts
  /\ pc = "reopen" => Failed(round) /\ attempt <= ResetReopenAttempts
  /\ pc \in {"pin", "teardown", "done"} => (uid = "uid" <=> Enough)

Accounted == leaves = 0 => Account

\* The numbers of a trouble.
LEMMA TroubleTypes ==
  ASSUME TypeOK
  PROVE  /\ trouble.open \in Nat /\ trouble.kind \in {"uid", "random", "refused"}
         /\ \A k \in Rounds : trouble.wedged[k] \in BOOLEAN
         /\ \A k \in Rounds : trouble.drops[k] \in Nat /\ trouble.lag[k] \in Nat
  BY ProbeAssumption DEF TypeOK, Troubles

\* Rounds that all failed are not enough.
LEMMA FailedIsNotEnough ==
  ASSUME TypeOK, NEW n \in Rounds, Failed(n),
         n = UidReadRounds \/ trouble.lag[n] >= ResetReopenAttempts
  PROVE  ~Enough
<1> SUFFICES ASSUME NEW k \in Rounds, Answers(k),
                    \A j \in 1..(k - 1) : trouble.lag[j] < ResetReopenAttempts
             PROVE  FALSE
  BY DEF Enough
<1>1. k > n
  BY ProbeAssumption DEF Failed
<1>2. trouble.lag[n] < ResetReopenAttempts
  BY <1>1, ProbeAssumption
<1> QED
  BY <1>1, <1>2, TroubleTypes, ProbeAssumption

\* A round that answers nothing could not have.
LEMMA NoAnswerFails ==
  ASSUME TypeOK, valid, NoAnswer
  PROVE  ~Answers(round)
<1>1. round \in Rounds
  BY DEF TypeOK
<1>2. CASE Answer = "wedged"
  <2>1. trouble.wedged[round]
    BY <1>2, TroubleTypes DEF Answer
  <2> QED
    BY <2>1 DEF Answers
<1>3. CASE Answer \in {"error", "refused"} /\ attempt >= UidReadAttempts
  <2>1. attempt <= trouble.drops[round] \/ trouble.kind = "refused"
    BY <1>3, TroubleTypes DEF Answer
  <2> QED
    BY <2>1, <1>1, <1>3, TroubleTypes, ProbeAssumption DEF Answers, TypeOK
<1> QED
  BY <1>2, <1>3 DEF NoAnswer

LEMMA InitAccounted == Init => Accounted
  BY ProbeAssumption DEF Init, Accounted, Account, Failed, Survived


\* While the card is still being opened or read, or reopened.
LEMMA AccountStep ==
  ASSUME IInv, IInv', Account, leaves = 0, leaves' = 0, [Next]_vars
  PROVE  Account'
<1> USE ProbeAssumption, TroubleTypes
    DEF Account, IInv, TypeOK, Handles, Holding, LostIt, AllReset, Failed, Survived,
        Answers, Enough
<1>1. CASE UNCHANGED vars
  BY <1>1 DEF vars
<1>2. CASE OpenCard
  BY <1>2 DEF OpenCard, Activated, Connected
<1>3. CASE OpenRetry
  BY <1>3 DEF OpenRetry
<1>4. CASE OpenGivesUp
  BY <1>4 DEF OpenGivesUp, Activated
<1>5. CASE Attributes
  BY <1>5 DEF Attributes
<1>6. CASE ReadFinal
  <2>1. /\ ~trouble.wedged[round] /\ attempt > trouble.drops[round]
        /\ Answer = trouble.kind /\ trouble.kind \in {"uid", "random"}
    BY <1>6 DEF ReadFinal, Answer
  <2>2. Answers(round)
    BY <2>1, <1>6 DEF ReadFinal
  <2>3. uid' = "uid" <=> Enough
    BY <2>1, <2>2, <1>6 DEF ReadFinal
  <2> QED
    BY <2>3, <1>6 DEF ReadFinal, Insisted
<1>7. CASE ReadRetry
  BY <1>7 DEF ReadRetry
<1>8. CASE InsistGivesUp
  <2>1. Failed(round)
    BY <1>8, NoAnswerFails DEF InsistGivesUp
  <2>2. ~Enough
    BY <1>8, <2>1, FailedIsNotEnough DEF InsistGivesUp, NextRound
  <2> QED
    BY <2>2, <1>8 DEF InsistGivesUp, Insisted
<1>9. CASE ResetCard
  <2>1. ~Answers(round)
    BY <1>9, NoAnswerFails DEF ResetCard, NextRound
  <2> QED
    BY <2>1, <1>9 DEF ResetCard, NextRound
<1>10. CASE ReopenCard
  BY <1>10 DEF ReopenCard, Reactivated, Connected
<1>11. CASE ReopenRetry
  BY <1>11 DEF ReopenRetry, ReopenBudget
<1>12. CASE ReopenGivesUp
  <2>1. ~Enough
    BY <1>12, FailedIsNotEnough DEF ReopenGivesUp, ReopenBudget, Reactivated
  <2> QED
    BY <2>1, <1>12 DEF ReopenGivesUp, Insisted
<1>13. CASE Pinning
  BY <1>13 DEF Pinning
<1>14. CASE Teardown
  BY <1>14 DEF Teardown
<1>15. CASE Leave
  BY <1>15 DEF Leave
<1>16. CASE Return
  BY <1>16 DEF Return
<1> QED
  BY <1>1, <1>2, <1>3, <1>4, <1>5, <1>6, <1>7, <1>8, <1>9, <1>10, <1>11,
     <1>12, <1>13, <1>14, <1>15, <1>16 DEF Next, Probe, Over


LEMMA LeavesOnlyGrow == IInv /\ [Next]_vars /\ leaves' = 0 => leaves = 0
  BY DEF IInv, TypeOK, Next, Probe, Over, vars, OpenCard, OpenRetry, OpenGivesUp,
     Attributes, ReadFinal, ReadRetry, InsistGivesUp, ResetCard, ReopenCard,
     ReopenRetry, ReopenGivesUp, Pinning, Teardown, Leave, Return

LEMMA Insistence == Spec => []Sticking /\ []Accounted
<1>1. Init => Sticking /\ Accounted
  BY InitAccounted DEF Init, Sticking
<1>2. IInv /\ IInv' /\ Sticking /\ Accounted /\ [Next]_vars => Sticking' /\ Accounted'
  BY StickingStep, AccountStep, LeavesOnlyGrow DEF Accounted
<1> QED
  BY <1>1, <1>2, Invariance, PTL DEF Spec

\* For all budgets and troubles, a card that stays gives its uid exactly when a
\* round would answer before a connect budget runs out, and no connection that
\* would have answered is given up (openCard, insistUID, reopenCardAfterReset).
THEOREM InsistsAsBudgeted == Spec => []InsistsEnough
<1>1. Accounted => InsistsEnough
  BY DEF Accounted, Account, InsistsEnough, Enough
<1> QED
  BY Insistence, <1>1, PTL
-----------------------------------------------------------------------------
(* How long a probe takes.  No counter of attempts gets past its budget,   *)
(* wherever the card is, and so every step spends of what is left.         *)

Budgeted ==
  /\ pc \in {"open", "read"} => attempt <= UidReadAttempts
  /\ pc = "reopen" => attempt <= ResetReopenAttempts

\* The attempts and connects that the rounds to come may take.
PerRound == ResetReopenAttempts + UidReadAttempts

LEMMA BudgetedStep == IInv /\ Budgeted /\ [Next]_vars => Budgeted'
<1> SUFFICES ASSUME IInv, Budgeted, [Next]_vars PROVE Budgeted'
  OBVIOUS
<1> USE ProbeAssumption DEF Budgeted, IInv, TypeOK, Handles
<1>1. CASE Leave \/ Return \/ UNCHANGED vars
  BY <1>1 DEF Leave, Return, vars
<1>2. CASE OpenCard \/ OpenRetry \/ OpenGivesUp \/ Attributes
  BY <1>2 DEF OpenCard, OpenRetry, OpenGivesUp, Attributes, Connected
<1>3. CASE ReadFinal \/ ReadRetry \/ InsistGivesUp \/ ResetCard
  BY <1>3 DEF ReadFinal, ReadRetry, InsistGivesUp, ResetCard, Insisted
<1>4. CASE ReopenCard \/ ReopenRetry \/ ReopenGivesUp
  BY <1>4 DEF ReopenCard, ReopenRetry, ReopenGivesUp, ReopenBudget, Connected, Insisted
<1>5. CASE Pinning \/ Teardown
  BY <1>5 DEF Pinning, Teardown
<1> QED
  BY <1>1, <1>2, <1>3, <1>4, <1>5 DEF Next, Probe, Over

\* The rounds that are left are worth something, the next one takes its share.
LEMMA RoundsLeft ==
  ASSUME NEW k \in Rounds
  PROVE  /\ PerRound * (UidReadRounds - k) \in Nat
         /\ k < UidReadRounds =>
              /\ k + 1 \in Rounds
              /\ PerRound * (UidReadRounds - (k + 1)) \in Nat
              /\ PerRound * (UidReadRounds - k) =
                   PerRound * (UidReadRounds - (k + 1)) + PerRound
<1>1. PerRound \in Nat /\ UidReadRounds \in Nat /\ k \in 1..UidReadRounds
  BY ProbeAssumption DEF PerRound
<1>2. \A c, n \in Nat : c * n \in Nat
  OBVIOUS
<1>3. \A c, n \in Nat : c * (n + 1) = c * n + c
  OBVIOUS
<1>4. UidReadRounds - k \in Nat
  BY <1>1
<1>5. k < UidReadRounds =>
        /\ UidReadRounds - (k + 1) \in Nat
        /\ UidReadRounds - k = (UidReadRounds - (k + 1)) + 1
  BY <1>1
<1> QED
  BY <1>1, <1>2, <1>3, <1>4, <1>5

LEMMA LeftStep == IInv /\ Budgeted /\ Probe => Left' \in 0..(Left - 1)
<1> SUFFICES ASSUME IInv, Budgeted, Probe PROVE Left' \in 0..(Left - 1)
  OBVIOUS
<1> DEFINE rest == PerRound * (UidReadRounds - round)
<1>1. rest \in Nat /\ round \in Rounds /\ attempt \in Nat \ {0}
  BY RoundsLeft DEF IInv, TypeOK
<1>2. /\ pc = "open" => Left = rest + 2 * UidReadAttempts + 4 - attempt
      /\ pc = "attrs" => Left = rest + UidReadAttempts + 3
      /\ pc = "read" => Left = rest + UidReadAttempts + 3 - attempt
      /\ pc = "reopen" => Left = rest + 3 - attempt
      /\ pc = "pin" => Left = 2
      /\ pc = "teardown" => Left = 1
  BY DEF Left, PerRound
<1>3. /\ pc' = "open" => Left' = rest' + 2 * UidReadAttempts + 4 - attempt'
      /\ pc' = "attrs" => Left' = rest' + UidReadAttempts + 3
      /\ pc' = "read" => Left' = rest' + UidReadAttempts + 3 - attempt'
      /\ pc' = "reopen" => Left' = rest' + 3 - attempt'
      /\ pc' = "pin" => Left' = 2
      /\ pc' = "teardown" => Left' = 1
      /\ pc' = "done" => Left' = 0
  BY DEF Left, PerRound
<1>4. round' = round => rest' = rest
  OBVIOUS
\* A reset is only spent where a round follows.
<1>5. round < UidReadRounds => rest >= ResetReopenAttempts + UidReadAttempts
  BY <1>1, RoundsLeft, ProbeAssumption DEF PerRound
<1> HIDE DEF rest
<1> USE ProbeAssumption DEF Budgeted
<1>6. CASE OpenCard
  BY <1>1, <1>2, <1>3, <1>4, <1>6 DEF OpenCard, Connected
<1>7. CASE OpenRetry
  BY <1>1, <1>2, <1>3, <1>4, <1>7 DEF OpenRetry
<1>8. CASE OpenGivesUp
  BY <1>1, <1>2, <1>3, <1>4, <1>8 DEF OpenGivesUp
<1>9. CASE Attributes
  <2>1. attempt = 1
    BY <1>9 DEF Attributes, IInv, Handles
  <2> QED
    BY <2>1, <1>1, <1>2, <1>3, <1>4, <1>9 DEF Attributes
<1>10. CASE ReadFinal \/ InsistGivesUp
  <2>1. pc = "read" /\ pc' \in {"pin", "teardown"}
    BY <1>10 DEF ReadFinal, InsistGivesUp, Insisted
  <2> QED
    BY <2>1, <1>1, <1>2, <1>3
<1>11. CASE ReadRetry
  BY <1>1, <1>2, <1>3, <1>4, <1>11 DEF ReadRetry
<1>12. CASE ResetCard
  BY <1>1, <1>2, <1>3, <1>4, <1>5, <1>12 DEF ResetCard, NextRound
<1>13. CASE ReopenCard
  <2>1. pc = "reopen" /\ pc' = "read" /\ attempt' = 1 /\ round' = round + 1
        /\ round < UidReadRounds
    BY <1>13 DEF ReopenCard, Connected, IInv, Handles, LostIt
  <2> DEFINE later == PerRound * (UidReadRounds - (round + 1))
  <2>2. later \in Nat /\ rest = later + ResetReopenAttempts + UidReadAttempts
    BY <1>1, <2>1, RoundsLeft DEF rest, PerRound
  <2>3. Left' = later + UidReadAttempts + 2
    BY <2>1 DEF Left, PerRound
  <2>4. Left = later + ResetReopenAttempts + UidReadAttempts + 3 - attempt
    BY <2>1, <2>2, <1>2
  <2>5. attempt <= ResetReopenAttempts
    BY <2>1
  <2> HIDE DEF later
  <2> QED
    BY <2>2, <2>3, <2>4, <2>5, <1>1
<1>14. CASE ReopenRetry
  BY <1>1, <1>2, <1>3, <1>4, <1>5, <1>14
     DEF ReopenRetry, ReopenBudget, IInv, Handles, LostIt
<1>15. CASE ReopenGivesUp
  <2>1. pc = "reopen" /\ pc' \in {"pin", "teardown"} /\ round < UidReadRounds
    BY <1>15 DEF ReopenGivesUp, Insisted, IInv, Handles, LostIt
  <2> QED
    BY <2>1, <1>1, <1>2, <1>3, <1>5
<1>16. CASE Pinning \/ Teardown
  BY <1>2, <1>3, <1>16 DEF Pinning, Teardown
<1> QED
  BY <1>6, <1>7, <1>8, <1>9, <1>10, <1>11, <1>12, <1>13, <1>14, <1>15, <1>16, Zenon DEF Probe

\* A probe takes at most Left steps, for all budgets, whatever the card does: with
\* the budgets of the code, and the attributes, the pinning and the disconnect, some
\* thirty.  (That it takes them is a matter of fairness, and Ends.)
THEOREM ProbeIsBounded == Spec => BudgetsSpent
<1>1. Init => Budgeted
  BY ProbeAssumption DEF Init, Budgeted
<1>2. IInv /\ Budgeted /\ [Next]_vars => Budgeted'
  BY BudgetedStep
<1>3. IInv /\ Budgeted /\ [Next]_vars => [Probe => Left' \in 0..(Left - 1)]_vars
  BY LeftStep
<1> QED
  BY <1>1, <1>2, <1>3, Invariance, PTL DEF Spec, BudgetsSpent
=============================================================================
