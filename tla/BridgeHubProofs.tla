-------------------------- MODULE BridgeHubProofs --------------------------
(***************************************************************************)
(* That the ring holds the newest events, that every stream is served      *)
(* whole and that polls see each event once and in order, for any          *)
(* capacities, streams and pages, through restarts.  What a stream was     *)
(* given and what waits for it change together: taking an event moves it   *)
(* from the one to the other.  What a poll answers begins where the page's *)
(* cursor ends and is the end of the ring.                                 *)
(***************************************************************************)
EXTENDS BridgeHub, SequenceTheorems, TLAPS

HubTypes ==
  /\ next \in Nat /\ subs \subseteq Streams
  /\ queue \in [Streams -> Seq(Nat)]
  /\ handler \in [Streams -> {"none", "select", "write"}]
  /\ joined \in [Streams -> Nat] /\ got \in [Streams -> Seq(Nat)]

QueuesBounded == \A s \in Streams : Len(queue[s]) <= QueueCap

\* No stream is ahead of the hub.
Behind == \A s \in subs : \A i \in 1..Len(Served(s)) : Served(s)[i] <= next

IInv == HubTypes /\ QueuesBounded /\ Behind /\ StreamWhole /\ NoLeak /\ RingIsRecent

USE HubAssumption

-----------------------------------------------------------------------------
LEMMA AppendServed ==
  ASSUME NEW g \in Seq(Nat), NEW q \in Seq(Nat), NEW x \in Nat
  PROVE  g \o Append(q, x) = Append(g \o q, x)
  OBVIOUS

LEMMA OfferServed ==
  ASSUME NEW g \in Seq(Nat), NEW q \in Seq(Nat), NEW x \in Nat
  PROVE  \/ g \o Offered(q, x) = g \o q /\ Len(g \o q) >= QueueCap
         \/ g \o Offered(q, x) = Append(g \o q, x)
<1>1. CASE Len(q) < QueueCap
  BY <1>1, AppendServed DEF Offered
<1>2. CASE Len(q) >= QueueCap
  <2>1. Offered(q, x) = q
    BY <1>2 DEF Offered
  <2>2. Len(g \o q) = Len(g) + Len(q) /\ Len(g) \in Nat /\ Len(q) \in Nat
    OBVIOUS
  <2>3. Len(g \o q) >= QueueCap
    BY <1>2, <2>2
  <2> QED
    BY <2>1, <2>3
<1>3. Len(q) < QueueCap \/ Len(q) >= QueueCap
  OBVIOUS
<1> QED
  BY <1>1, <1>2, <1>3, Zenon

LEMMA TakeServed ==
  ASSUME NEW g \in Seq(Nat), NEW q \in Seq(Nat), q # <<>>
  PROVE  Append(g, Head(q)) \o Tail(q) = g \o q
<1>1. Head(q) \in Nat /\ Tail(q) \in Seq(Nat) /\ Len(Tail(q)) = Len(q) - 1
  OBVIOUS
<1>2. Append(g, Head(q)) \in Seq(Nat) /\ Len(Append(g, Head(q))) = Len(g) + 1
  BY <1>1
<1>3. Append(g, Head(q)) \o Tail(q) \in Seq(Nat) /\ g \o q \in Seq(Nat)
  BY <1>1, <1>2
<1>4. Len(Append(g, Head(q)) \o Tail(q)) = Len(g \o q)
  BY <1>1, <1>2
<1>5. ASSUME NEW i \in 1..Len(g \o q)
      PROVE  (Append(g, Head(q)) \o Tail(q))[i] = (g \o q)[i]
  <2>1. CASE i <= Len(g)
    BY <1>1, <1>2, <2>1
  <2>2. CASE i = Len(g) + 1
    BY <1>1, <1>2, <2>2
  <2>3. CASE i > Len(g) + 1
    BY <1>1, <1>2, <2>3
  <2> QED
    BY <2>1, <2>2, <2>3
<1> QED
  BY <1>3, <1>4, <1>5, SeqEqual

\* What a stream is worth, told of its events alone.
Whole(h, j, n) ==
  /\ Ascending(h)
  /\ \A i \in 1..Len(h) : i <= QueueCap => h[i] = j + i
  /\ Len(h) < QueueCap => Len(h) = n - j

LEMMA WholeStep ==
  ASSUME NEW h \in Seq(Nat), NEW j \in Nat, NEW n \in Nat, Whole(h, j, n),
         \A i \in 1..Len(h) : h[i] <= n
  PROVE  /\ Whole(Append(h, n + 1), j, n + 1)
         /\ \A i \in 1..Len(Append(h, n + 1)) : Append(h, n + 1)[i] <= n + 1
<1> DEFINE a == Append(h, n + 1)
<1>1. /\ a \in Seq(Nat) /\ Len(a) = Len(h) + 1 /\ a[Len(h) + 1] = n + 1
      /\ \A i \in 1..Len(h) : a[i] = h[i] /\ h[i] \in Nat
  OBVIOUS
<1> HIDE DEF a
<1>2. Len(h) \in Nat /\ \A i \in 1..Len(a) : i \in 1..Len(h) \/ i = Len(h) + 1
  BY <1>1
<1>6. Ascending(a)
  <2> SUFFICES ASSUME NEW i \in 1..Len(a), NEW k \in 1..Len(a), i < k
               PROVE  a[i] < a[k]
    BY <1>1 DEF Ascending
  <2>1. i \in 1..Len(h)
    BY <1>1, <1>2
  <2>2. CASE k \in 1..Len(h)
    <3>1. Ascending(h) /\ DOMAIN h = 1..Len(h)
      BY DEF Whole
    <3>2. h[i] < h[k]
      BY <2>1, <2>2, <3>1 DEF Ascending
    <3> QED
      BY <1>1, <2>1, <2>2, <3>2
  <2>3. CASE k = Len(h) + 1
    BY <1>1, <2>1, <2>3
  <2> QED
    BY <1>2, <2>2, <2>3
<1>3. ASSUME NEW i \in 1..Len(a), i <= QueueCap PROVE a[i] = j + i
  <2>1. CASE i \in 1..Len(h)
    BY <1>1, <1>3, <2>1 DEF Whole
  <2>2. CASE i = Len(h) + 1
    BY <1>1, <1>2, <1>3, <2>2 DEF Whole
  <2> QED
    BY <1>2, <2>1, <2>2
<1>4. Len(a) < QueueCap => Len(a) = n + 1 - j
  BY <1>1 DEF Whole
<1>5. ASSUME NEW i \in 1..Len(a) PROVE a[i] <= n + 1
  <2>1. CASE i \in 1..Len(h)
    <3>1. a[i] = h[i] /\ h[i] \in Nat /\ h[i] <= n
      BY <1>1, <2>1
    <3> QED
      BY <3>1
  <2>2. CASE i = Len(h) + 1
    BY <1>1, <2>2
  <2> QED
    BY <1>2, <2>1, <2>2
<1> QED
  BY <1>3, <1>4, <1>5, <1>6 DEF Whole, a

\* The ring after an event is recorded.
LEMMA RingStep ==
  ASSUME NEW n \in Nat
  PROVE  Trimmed(Append(UpTo(n, IF n < Cap THEN n ELSE Cap), n + 1))
           = UpTo(n + 1, IF n + 1 < Cap THEN n + 1 ELSE Cap)
<1> DEFINE k == IF n < Cap THEN n ELSE Cap
           r == UpTo(n, k)
           a == Append(r, n + 1)
<1>1. k \in Nat /\ k <= Cap
  OBVIOUS
<1>2. r \in Seq(Nat) /\ Len(r) = k /\ \A i \in 1..k : r[i] = n - k + i
  BY <1>1 DEF UpTo
<1>3. a \in Seq(Nat) /\ Len(a) = k + 1 /\ \A i \in 1..(k + 1) : a[i] = n - k + i
  BY <1>1, <1>2
<1> HIDE DEF r, a, k
<1>4. CASE n < Cap
  <2>1. k = n /\ Trimmed(a) = a
    BY <1>3, <1>4 DEF Trimmed, k
  <2>2. a = [i \in 1..(n + 1) |-> i]
    BY <1>3, <2>1
  <2>3. UpTo(n + 1, n + 1) = [i \in 1..(n + 1) |-> i]
    BY DEF UpTo
  <2>4. (IF n + 1 < Cap THEN n + 1 ELSE Cap) = n + 1
    BY <1>4
  <2> QED
    BY <2>1, <2>2, <2>3, <2>4 DEF a, r, k
<1>5. CASE n >= Cap
  <2>1. k = Cap
    BY <1>5 DEF k
  <2>2. Trimmed(a) = SubSeq(a, 2, Cap + 1)
    BY <1>3, <2>1 DEF Trimmed
  <2>3. /\ Len(SubSeq(a, 2, Cap + 1)) = Cap /\ SubSeq(a, 2, Cap + 1) \in Seq(Nat)
        /\ \A i \in 1..Cap : SubSeq(a, 2, Cap + 1)[i] = n + 1 - Cap + i
    <3>1. \A i \in 2..(Cap + 1) : a[i] \in Nat /\ a[i] = n - Cap + i
      BY <1>3, <2>1
    <3>2. /\ SubSeq(a, 2, Cap + 1) \in Seq(Nat)
          /\ Len(SubSeq(a, 2, Cap + 1)) = (Cap + 1) - 2 + 1
          /\ \A i \in 1..((Cap + 1) - 2 + 1) : SubSeq(a, 2, Cap + 1)[i] = a[2 + i - 1]
      BY <3>1, SubSeqProperties
    <3>3. \A i \in 1..Cap : 2 + i - 1 \in 2..(Cap + 1) /\ n - Cap + (2 + i - 1) = n + 1 - Cap + i
      OBVIOUS
    <3> QED
      BY <3>1, <3>2, <3>3
  <2>4. SubSeq(a, 2, Cap + 1) = [i \in 1..Cap |-> n + 1 - Cap + i]
    BY <2>3
  <2>5. (IF n + 1 < Cap THEN n + 1 ELSE Cap) = Cap
    BY <1>5
  <2>6. UpTo(n + 1, Cap) = [i \in 1..Cap |-> n + 1 - Cap + i]
    BY DEF UpTo
  <2> QED
    BY <2>2, <2>4, <2>5, <2>6 DEF a, r, k
<1> QED
  BY <1>4, <1>5

-----------------------------------------------------------------------------
LEMMA Fresh ==
  /\ Idle(Streams, <<>>) \in [Streams -> Seq(Nat)]
  /\ Idle(Streams, 0) \in [Streams -> Nat]
  /\ Idle(Streams, "none") \in [Streams -> {"none", "select", "write"}]
  /\ <<>> = UpTo(0, IF 0 < Cap THEN 0 ELSE Cap)
  BY DEF Idle, UpTo

\* A fresh hub, at the start or after a restart.
LEMMA InitIInv == Init => IInv
<1> SUFFICES ASSUME Init PROVE IInv
  OBVIOUS
<1> USE Fresh DEF Init
<1>1. HubTypes /\ RingIsRecent
  BY DEF HubTypes, RingIsRecent
<1>2. QueuesBounded /\ Behind /\ StreamWhole /\ NoLeak
  BY DEF QueuesBounded, Behind, StreamWhole, NoLeak, Idle
<1> QED
  BY <1>1, <1>2 DEF IInv

LEMMA RestartStep == Restart => IInv'
<1> SUFFICES ASSUME Restart PROVE IInv'
  OBVIOUS
<1> USE Fresh DEF Restart
<1>1. HubTypes' /\ RingIsRecent'
  BY DEF HubTypes, RingIsRecent
<1>2. (QueuesBounded /\ Behind /\ StreamWhole /\ NoLeak)'
  BY DEF QueuesBounded, Behind, StreamWhole, NoLeak, Idle
<1> QED
  BY <1>1, <1>2 DEF IInv

\* What a subscribed stream is worth depends on five variables.
LEMMA AddStep == IInv /\ Add => IInv'
<1> SUFFICES ASSUME IInv, Add PROVE IInv'
  OBVIOUS
<1> USE DEF IInv
<1>1. next \in Nat /\ next' = next + 1 /\ subs' = subs /\ got' = got /\ joined' = joined
  BY DEF Add, HubTypes
<1>2. ASSUME NEW s \in Streams
      PROVE  /\ queue'[s] \in Seq(Nat) /\ Len(queue'[s]) <= QueueCap
             /\ s \in subs => queue'[s] = Offered(queue[s], next + 1)
  BY <1>1 DEF Add, HubTypes, QueuesBounded, Offered
<1>3. HubTypes'
  BY <1>1, <1>2 DEF Add, HubTypes
<1>4. ASSUME NEW s \in subs
      PROVE  \/ Served(s)' = Served(s) /\ Len(Served(s)) >= QueueCap
             \/ Served(s)' = Append(Served(s), next + 1)
  <2>1. got[s] \in Seq(Nat) /\ queue[s] \in Seq(Nat)
    BY DEF HubTypes
  <2>2. Served(s)' = got[s] \o Offered(queue[s], next + 1)
    BY <1>1, <1>2 DEF Served, HubTypes
  <2>3. Served(s) = got[s] \o queue[s]
    BY DEF Served
  <2>4. next + 1 \in Nat
    BY <1>1
  <2>5. \/ got[s] \o Offered(queue[s], next + 1) = got[s] \o queue[s]
           /\ Len(got[s] \o queue[s]) >= QueueCap
        \/ got[s] \o Offered(queue[s], next + 1) = Append(got[s] \o queue[s], next + 1)
    BY <2>1, <2>4, OfferServed
  <2> QED
    BY <2>2, <2>3, <2>5
<1>5. ASSUME NEW s \in subs
      PROVE  Served(s) \in Seq(Nat) /\ joined[s] \in Nat
  BY DEF Served, HubTypes
<1>6. ASSUME NEW s \in subs
      PROVE  /\ Whole(Served(s)', joined[s], next + 1)
             /\ \A i \in 1..Len(Served(s)') : Served(s)'[i] <= next + 1
  <2>1. Whole(Served(s), joined[s], next) /\ \A i \in 1..Len(Served(s)) : Served(s)[i] <= next
    BY DEF StreamWhole, Behind, Whole
  <2>2. CASE Served(s)' = Served(s) /\ Len(Served(s)) >= QueueCap
    BY <1>1, <1>5, <2>1, <2>2 DEF Whole
  <2>3. CASE Served(s)' = Append(Served(s), next + 1)
    BY <1>1, <1>5, <2>1, <2>3, WholeStep
  <2> QED
    BY <1>4, <2>2, <2>3
<1>7. Behind' /\ StreamWhole'
  BY <1>1, <1>6 DEF Behind, StreamWhole, Whole, Ascending
<1>8. QueuesBounded' /\ NoLeak'
  BY <1>1, <1>2 DEF QueuesBounded, NoLeak, Add
<1>9. RingIsRecent'
  BY <1>1, RingStep DEF Add, RingIsRecent
<1> QED
  BY <1>3, <1>7, <1>8, <1>9

\* A step that serves nothing.
LEMMA ServedStep ==
  ASSUME IInv, UNCHANGED <<next, buf, queue, joined, got>>, subs' \subseteq subs,
         HubTypes', NoLeak'
  PROVE  IInv'
<1>1. \A t \in Streams : Served(t)' = Served(t)
  BY DEF Served
<1>2. QueuesBounded' /\ RingIsRecent'
  BY DEF IInv, QueuesBounded, RingIsRecent
<1>3. Behind' /\ StreamWhole'
  BY <1>1 DEF IInv, HubTypes, Behind, StreamWhole, Ascending
<1> QED
  BY <1>2, <1>3 DEF IInv

LEMMA StreamStep == ASSUME IInv, NEW s \in Streams, Stream(s) PROVE IInv'
<1> USE DEF IInv
<1>1. CASE Subscribe(s)
  <2> USE <1>1 DEF Subscribe
  <2>1. HubTypes' /\ QueuesBounded' /\ NoLeak' /\ RingIsRecent'
    BY DEF HubTypes, QueuesBounded, NoLeak, RingIsRecent
  <2>2. Served(s)' = <<>> /\ joined'[s] = next
    BY DEF Served, HubTypes
  <2>3. \A t \in subs' \ {s} : t \in subs /\ Served(t)' = Served(t) /\ joined'[t] = joined[t]
    BY DEF Served, HubTypes
  <2>4. Behind'
    BY <2>2, <2>3 DEF Behind
  <2>5. StreamWhole'
    BY <2>2, <2>3 DEF StreamWhole, Ascending, HubTypes
  <2> QED
    BY <2>1, <2>4, <2>5
<1>2. CASE Take(s)
  <2> USE <1>2 DEF Take
  <2>1. queue[s] \in Seq(Nat) /\ got[s] \in Seq(Nat) /\ queue[s] # <<>>
    BY DEF HubTypes
  <2>2. /\ queue'[s] = Tail(queue[s]) /\ got'[s] = Append(got[s], Head(queue[s]))
        /\ \A t \in Streams \ {s} : queue'[t] = queue[t] /\ got'[t] = got[t]
    BY DEF HubTypes
  <2>3. HubTypes' /\ QueuesBounded' /\ NoLeak' /\ RingIsRecent'
    BY <2>1, <2>2 DEF HubTypes, QueuesBounded, NoLeak, RingIsRecent, hub
  <2>4. ASSUME NEW t \in subs PROVE Served(t)' = Served(t)
    <3>1. Served(t)' = got'[t] \o queue'[t] /\ Served(t) = got[t] \o queue[t]
      BY DEF Served
    <3>2. CASE t = s
      <4>1. Append(got[s], Head(queue[s])) \o Tail(queue[s]) = got[s] \o queue[s]
        BY <2>1, TakeServed
      <4> QED
        BY <2>2, <3>1, <3>2, <4>1, Zenon
    <3>3. CASE t # s
      BY <2>2, <3>1, <3>3 DEF Served, HubTypes
    <3> QED
      BY <3>2, <3>3
  <2>5. Behind' /\ StreamWhole'
    BY <2>4 DEF Behind, StreamWhole, Ascending, hub
  <2> QED
    BY <2>3, <2>5
<1>3. CASE Written(s) \/ HangUp(s) \/ Unsubscribe(s)
  <2> USE <1>3 DEF Written, HangUp, Unsubscribe, hub
  <2>1. HubTypes' /\ NoLeak'
    BY DEF HubTypes, NoLeak
  <2>2. UNCHANGED <<next, buf, queue, joined, got>> /\ subs' \subseteq subs
    OBVIOUS
  <2> QED
    BY <2>1, <2>2, ServedStep
<1> QED
  BY <1>1, <1>2, <1>3 DEF Stream

LEMMA Invariance == Spec => []IInv
<1>1. IInv /\ [Next]_vars => IInv'
  <2> SUFFICES ASSUME IInv, [Next]_vars PROVE IInv'
    OBVIOUS
  <2>1. CASE UNCHANGED <<hub, streams>>
    BY <2>1 DEF IInv, HubTypes, QueuesBounded, Behind, StreamWhole, NoLeak,
                RingIsRecent, Served, Ascending, hub, streams
  <2>2. ASSUME NEW p \in Pollers, Poll(p) PROVE UNCHANGED <<hub, streams>>
    BY <2>2 DEF Poll, Ask, Pending, Deliver, Lose
  <2> QED
    BY <2>1, <2>2, AddStep, RestartStep, StreamStep
    DEF Next, Feed, Cancel, Server, Shutdown, Drained, ForceClose, vars
<1> QED
  BY InitIInv, <1>1, PTL DEF Spec

\* The ring holds the newest events, consecutive and complete (add).
THEOREM RingHoldsNewest == Spec => []RingIsRecent
<1>1. IInv => RingIsRecent
  BY DEF IInv
<1> QED
  BY Invariance, <1>1, PTL

\* Every stream is served in order, and without a gap but behind QueueCap
\* events (add, subscribe).
THEOREM StreamsAreWhole == Spec => []StreamWhole
<1>1. IInv => StreamWhole
  BY DEF IInv
<1> QED
  BY Invariance, <1>1, PTL

\* Subscriptions end with their handlers (subscribe: the deferred cancel).
THEOREM NothingLeaks == Spec => []NoLeak
<1>1. IInv => NoLeak
  BY DEF IInv
<1> QED
  BY Invariance, <1>1, PTL

-----------------------------------------------------------------------------
(* The polls.                                                              *)

PageTypes ==
  /\ feeding \in BOOLEAN /\ hungUp \subseteq Streams
  /\ ask \in [Pollers -> {"idle", "asked", "answered"}]
  /\ reply \in [Pollers -> Seq(Nat)]
  /\ serve \in {"up", "draining", "returned"}
  /\ ctx \in {"live", "cancelled"} /\ restarts \in Nat
  /\ cursor \in [Pollers -> Nat] /\ seen \in [Pollers -> Seq(Nat)]
  /\ came \in [Pollers -> Nat]

\* Nothing above a and up to b is missing in s but what the ring has lost.
Complete(s, a, b) ==
  \A id \in a + 1..b : (\E i \in 1..Len(s) : s[i] = id) \/ id + Cap <= next

\* What a page has seen ends at its cursor.
SeenUpTo(p) ==
  /\ came[p] <= cursor[p] /\ Ascending(seen[p])
  /\ \A i \in 1..Len(seen[p]) : seen[p][i] <= cursor[p]
  /\ Complete(seen[p], came[p], cursor[p])

\* An answer begins where the cursor ends.
Fits(s, after) ==
  /\ Ascending(s)
  /\ \A i \in 1..Len(s) : after < s[i]
  /\ s # <<>> => Complete(s, after, s[Len(s)])

Polled(p) == SeenUpTo(p) /\ (ask[p] = "answered" => Fits(reply[p], cursor[p]))

PInv == IInv /\ PageTypes /\ \A p \in Pollers : Polled(p)

\* The suffix of the ring that since returns.
LEMMA SinceSuffix ==
  ASSUME IInv, NEW after \in Nat
  PROVE  /\ Since(after) \in Seq(Nat)
         /\ \E k \in 0..Len(buf) :
              /\ \A i \in 1..Len(buf) : i > k <=> buf[i] > after
              /\ Len(Since(after)) = Len(buf) - k
              /\ \A i \in 1..Len(Since(after)) : Since(after)[i] = buf[k + i]
<1> DEFINE n == IF next < Cap THEN next ELSE Cap
           P(k) == \A i \in DOMAIN buf : i > k <=> buf[i] > after
<1>1. next \in Nat /\ n \in Nat /\ n <= next
  BY DEF IInv, HubTypes
<1>2. buf \in Seq(Nat) /\ Len(buf) = n /\ \A i \in 1..n : buf[i] = next - n + i
  BY <1>1 DEF IInv, RingIsRecent, UpTo
<1> HIDE DEF n
<1>3. \E k \in 0..Len(buf) : P(k)
  <2>1. CASE after < next - n
    <3>1. P(0) BY <1>1, <1>2, <2>1
    <3> QED BY <1>1, <1>2, <3>1
  <2>2. CASE next - n <= after /\ after <= next
    <3> DEFINE k == after - (next - n)
    <3>1. k \in 0..Len(buf) BY <1>1, <1>2, <2>2
    <3>2. P(k) BY <1>1, <1>2, <2>2
    <3> QED BY <3>1, <3>2
  <2>3. CASE after > next
    <3>1. P(n) BY <1>1, <1>2, <2>3
    <3> QED BY <1>1, <1>2, <3>1
  <2> QED BY <1>1, <2>1, <2>2, <2>3
<1> DEFINE k == CHOOSE j \in 0..Len(buf) : P(j)
<1>4. k \in 0..Len(buf) /\ P(k)
  BY <1>3
<1>5. Since(after) = SubSeq(buf, k + 1, Len(buf))
  BY DEF Since, Newer
<1> HIDE DEF k
<1>6. \A i \in k + 1..Len(buf) : buf[i] \in Nat
  BY <1>1, <1>2, <1>4
<1>7. /\ SubSeq(buf, k + 1, Len(buf)) \in Seq(Nat)
      /\ Len(SubSeq(buf, k + 1, Len(buf))) = Len(buf) - k
      /\ \A i \in 1..Len(buf) - k : SubSeq(buf, k + 1, Len(buf))[i] = buf[k + i]
  BY <1>1, <1>2, <1>4, <1>6, SubSeqProperties
<1>8. DOMAIN buf = 1..Len(buf)
  BY <1>2
<1> QED BY <1>4, <1>5, <1>7, <1>8

LEMMA SinceFits ==
  ASSUME IInv, NEW after \in Nat
  PROVE  Since(after) \in Seq(Nat) /\ Fits(Since(after), after)
<1> DEFINE n == IF next < Cap THEN next ELSE Cap
           s == Since(after)
<1>1. next \in Nat /\ n \in Nat /\ n <= next /\ Cap \in Nat /\ (n = next \/ n = Cap)
  BY DEF IInv, HubTypes
<1>2. Len(buf) = n /\ \A i \in 1..n : buf[i] = next - n + i
  BY <1>1 DEF IInv, RingIsRecent, UpTo
<1> HIDE DEF n
<1>3. s \in Seq(Nat)
  BY SinceSuffix
<1>4. PICK k \in 0..n :
        /\ \A i \in 1..n : i > k <=> buf[i] > after
        /\ Len(s) = n - k
        /\ \A i \in 1..Len(s) : s[i] = buf[k + i]
  BY <1>2, SinceSuffix
<1> HIDE DEF s
<1>5. ASSUME NEW i \in 1..Len(s) PROVE s[i] = next - n + k + i /\ s[i] > after
  <2>1. k + i \in 1..n /\ k + i > k BY <1>1, <1>4
  <2>2. s[i] = buf[k + i] BY <1>4
  <2>3. buf[k + i] > after BY <1>4, <2>1
  <2> QED BY <1>1, <1>2, <2>1, <2>2, <2>3
<1>6. Ascending(s)
  BY <1>1, <1>3, <1>4, <1>5 DEF Ascending
<1>7. ASSUME s # <<>>, NEW id \in after + 1..s[Len(s)]
      PROVE  (\E i \in 1..Len(s) : s[i] = id) \/ id + Cap <= next
  <2>1. Len(s) \in 1..Len(s)
    BY <1>3, <1>7
  <2>2. s[Len(s)] = next
    BY <1>1, <1>4, <1>5, <2>1
  <2>3. CASE id > next - n + k
    <3> DEFINE i == id - (next - n + k)
    <3>1. id \in Int /\ id <= next
      BY <1>1, <1>7, <2>2
    <3>2. i \in 1..Len(s)
      BY <1>1, <1>4, <2>3, <3>1
    <3>3. next - n + k + i = id
      BY <1>1, <3>1
    <3> HIDE DEF i
    <3>4. s[i] = id
      BY <1>5, <3>2, <3>3
    <3> QED BY <3>2, <3>4
  <2>4. CASE id <= next - n + k
    <3>1. k = 0
      <4> SUFFICES ASSUME k # 0 PROVE FALSE OBVIOUS
      <4>1. k \in 1..n /\ buf[k] = next - n + k BY <1>1, <1>2, <1>4
      <4>2. ~(buf[k] > after) BY <1>1, <1>4, <4>1
      <4> QED BY <1>1, <1>7, <2>4, <4>1, <4>2
    <3> QED BY <1>1, <1>7, <2>4, <3>1
  <2> QED BY <1>1, <1>7, <2>3, <2>4
<1> QED BY <1>3, <1>5, <1>6, <1>7 DEF Fits, Complete, s

\* Ids only grow, so what is complete stays complete.
LEMMA CompleteStays ==
  ASSUME next \in Nat, next' \in Nat, next <= next', NEW s, NEW a \in Nat, NEW b \in Nat,
         Complete(s, a, b)
  PROVE  \A id \in a + 1..b : (\E i \in 1..Len(s) : s[i] = id) \/ id + Cap <= next'
<1> SUFFICES ASSUME NEW id \in a + 1..b, ~(\E i \in 1..Len(s) : s[i] = id)
             PROVE  id + Cap <= next'
  OBVIOUS
<1>1. id + Cap <= next /\ id \in Int BY DEF Complete
<1> QED BY <1>1

LEMMA PolledStays ==
  ASSUME PInv, NEW p \in Pollers, UNCHANGED polls, next' \in Nat, next <= next'
  PROVE  Polled(p)'
<1> USE DEF polls
<1>1. /\ next \in Nat /\ came[p] \in Nat /\ cursor[p] \in Nat
      /\ seen[p] \in Seq(Nat) /\ reply[p] \in Seq(Nat)
  BY DEF PInv, IInv, HubTypes, PageTypes
<1>2. SeenUpTo(p) /\ (ask[p] = "answered" => Fits(reply[p], cursor[p]))
  BY DEF PInv, Polled
<1>3. SeenUpTo(p)'
  <2>1. \A id \in came[p] + 1..cursor[p] :
          (\E i \in 1..Len(seen[p]) : seen[p][i] = id) \/ id + Cap <= next'
    BY <1>1, <1>2, CompleteStays DEF SeenUpTo
  <2> QED BY <1>2, <2>1 DEF SeenUpTo, Complete, Ascending
<1>4. ASSUME ask[p] = "answered" PROVE Fits(reply[p], cursor[p])'
  <2>1. Fits(reply[p], cursor[p]) BY <1>2, <1>4
  <2>2. ASSUME reply[p] # <<>>
        PROVE  \A id \in cursor[p] + 1..reply[p][Len(reply[p])] :
                 (\E i \in 1..Len(reply[p]) : reply[p][i] = id) \/ id + Cap <= next'
    <3>1. reply[p][Len(reply[p])] \in Nat BY <1>1, <2>2
    <3> QED BY <1>1, <2>1, <2>2, <3>1, CompleteStays DEF Fits
  <2> QED BY <2>1, <2>2 DEF Fits, Complete, Ascending
<1> QED BY <1>3, <1>4 DEF Polled

LEMMA ConcatFacts ==
  ASSUME NEW a \in Seq(Nat), NEW b \in Seq(Nat)
  PROVE  /\ a \o b \in Seq(Nat) /\ Len(a \o b) = Len(a) + Len(b)
         /\ Len(a) \in Nat /\ Len(b) \in Nat
         /\ \A i \in 1..Len(a) : (a \o b)[i] = a[i] /\ a[i] \in Nat
         /\ \A i \in 1..Len(b) : (a \o b)[Len(a) + i] = b[i] /\ b[i] \in Nat
<1>1. /\ a \o b \in Seq(Nat) /\ Len(a \o b) = Len(a) + Len(b)
      /\ Len(a) \in Nat /\ Len(b) \in Nat
      /\ \A i \in 1..Len(a) : a[i] \in Nat
      /\ \A i \in 1..Len(b) : b[i] \in Nat
  OBVIOUS
<1>2. \A i \in 1..Len(a) : (a \o b)[i] = a[i]
  BY <1>1
<1>3. ASSUME NEW i \in 1..Len(b) PROVE (a \o b)[Len(a) + i] = b[i]
  BY <1>1
<1> QED BY <1>1, <1>2, <1>3

\* Taking an answer extends what was seen, in order and without a new gap.
LEMMA DeliverStep ==
  ASSUME PInv, NEW p \in Pollers, Deliver(p)
  PROVE  SeenUpTo(p)' /\ seen' \in [Pollers -> Seq(Nat)] /\ cursor' \in [Pollers -> Nat]
<1> USE DEF Deliver, hub
<1> DEFINE a == seen[p]
           b == reply[p]
           c == cursor[p]
           s == a \o b
           d == IF b = <<>> THEN c ELSE b[Len(b)]
<1>1. /\ next \in Nat /\ came[p] \in Nat /\ c \in Nat /\ a \in Seq(Nat) /\ b \in Seq(Nat)
      /\ SeenUpTo(p) /\ Fits(b, c) /\ next' = next /\ came' = came
  BY DEF PInv, IInv, HubTypes, PageTypes, Polled
<1>2. /\ seen' = [seen EXCEPT ![p] = s] /\ cursor' = [cursor EXCEPT ![p] = d]
      /\ seen'[p] = s /\ cursor'[p] = d
  BY DEF PInv, PageTypes, Last
<1> HIDE DEF a, b, c, d, s
<1>3. /\ s \in Seq(Nat) /\ Len(s) = Len(a) + Len(b) /\ Len(a) \in Nat /\ Len(b) \in Nat
      /\ \A i \in 1..Len(a) : s[i] = a[i] /\ a[i] \in Nat
      /\ \A i \in 1..Len(b) : s[Len(a) + i] = b[i] /\ b[i] \in Nat
  BY <1>1, ConcatFacts DEF s
<1>4. /\ Ascending(a) /\ Ascending(b) /\ DOMAIN a = 1..Len(a) /\ DOMAIN b = 1..Len(b)
      /\ DOMAIN s = 1..Len(s)
      /\ \A i \in 1..Len(a) : a[i] <= c
      /\ \A i \in 1..Len(b) : c < b[i]
      /\ came[p] <= c
  BY <1>1, <1>3 DEF SeenUpTo, Fits, a, b, c
<1>5. ASSUME NEW i \in 1..Len(s)
      PROVE  i \in 1..Len(a) \/ \E j \in 1..Len(b) : i = Len(a) + j
  <2>1. CASE i <= Len(a) BY <1>3, <2>1
  <2>2. CASE i > Len(a)
    <3>1. i - Len(a) \in 1..Len(b) /\ i = Len(a) + (i - Len(a)) BY <1>3, <2>2
    <3> QED BY <3>1
  <2> QED BY <1>3, <2>1, <2>2
<1>6. d \in Nat /\ c <= d /\ \A i \in 1..Len(b) : b[i] <= d
  <2>1. CASE b = <<>>
    BY <1>1, <1>3, <2>1 DEF d
  <2>2. CASE b # <<>>
    <3>1. Len(b) \in 1..Len(b) /\ d = b[Len(b)] BY <1>1, <1>3, <2>2 DEF d
    <3>2. ASSUME NEW i \in 1..Len(b) PROVE b[i] <= d
      <4>1. CASE i = Len(b) BY <1>3, <3>1, <4>1
      <4>2. CASE i < Len(b) BY <1>3, <1>4, <3>1, <4>2 DEF Ascending
      <4> QED BY <1>3, <4>1, <4>2
    <3>3. d \in Nat /\ c < d BY <1>3, <1>4, <3>1
    <3> QED BY <1>1, <3>2, <3>3 DEF c
  <2> QED BY <2>1, <2>2
<1>7. Ascending(s)
  <2> SUFFICES ASSUME NEW i \in 1..Len(s), NEW j \in 1..Len(s), i < j PROVE s[i] < s[j]
    BY <1>4 DEF Ascending
  <2>1. CASE j \in 1..Len(a)
    <3>1. i \in 1..Len(a) BY <1>3, <2>1
    <3> QED BY <1>3, <1>4, <2>1, <3>1 DEF Ascending
  <2>2. CASE i \in 1..Len(a) /\ \E k \in 1..Len(b) : j = Len(a) + k
    <3>1. PICK k \in 1..Len(b) : j = Len(a) + k BY <2>2
    <3>2. s[i] <= c /\ c < s[j] /\ s[i] \in Nat /\ s[j] \in Nat
      BY <1>3, <1>4, <2>2, <3>1
    <3> QED BY <1>1, <3>2 DEF c
  <2>3. CASE (\E k \in 1..Len(b) : i = Len(a) + k) /\ (\E k \in 1..Len(b) : j = Len(a) + k)
    <3>1. PICK k \in 1..Len(b) : i = Len(a) + k BY <2>3
    <3>2. PICK m \in 1..Len(b) : j = Len(a) + m BY <2>3
    <3>3. k < m BY <1>3, <3>1, <3>2
    <3> QED BY <1>3, <1>4, <3>1, <3>2, <3>3 DEF Ascending
  <2> QED BY <1>5, <2>1, <2>2, <2>3
<1>8. ASSUME NEW i \in 1..Len(s) PROVE s[i] <= d
  <2>1. CASE i \in 1..Len(a) BY <1>1, <1>3, <1>4, <1>6, <2>1 DEF c
  <2>2. CASE \E j \in 1..Len(b) : i = Len(a) + j BY <1>3, <1>6, <2>2
  <2> QED BY <1>5, <2>1, <2>2
<1>9. ASSUME NEW id \in came[p] + 1..d
      PROVE  (\E i \in 1..Len(s) : s[i] = id) \/ id + Cap <= next
  <2>1. CASE id <= c
    <3>1. id \in came[p] + 1..c BY <1>1, <1>6, <2>1 DEF c
    <3>2. (\E i \in 1..Len(a) : a[i] = id) \/ id + Cap <= next
      BY <1>1, <3>1 DEF SeenUpTo, Complete, a, c
    <3>3. \A i \in 1..Len(a) : i \in 1..Len(s) BY <1>3
    <3> QED BY <1>3, <3>2, <3>3
  <2>2. CASE id > c
    <3>1. b # <<>> /\ d = b[Len(b)] BY <1>1, <1>6, <2>2 DEF d, c
    <3>2. id \in c + 1..b[Len(b)] BY <1>1, <1>6, <2>2, <3>1 DEF c
    <3>3. (\E i \in 1..Len(b) : b[i] = id) \/ id + Cap <= next
      BY <1>1, <3>1, <3>2 DEF Fits, Complete
    <3>4. \A i \in 1..Len(b) : Len(a) + i \in 1..Len(s) BY <1>3
    <3> QED BY <1>3, <3>3, <3>4
  <2> QED BY <1>1, <1>6, <2>1, <2>2 DEF c
<1>10. SeenUpTo(p)'
  <2>1. /\ came'[p] = came[p] /\ next' = next
        /\ seen'[p] = s /\ cursor'[p] = d
    BY <1>1, <1>2
  <2>2. came[p] <= d
    BY <1>1, <1>4, <1>6 DEF c
  <2>3. Ascending(seen[p])'
    BY <1>7, <2>1 DEF Ascending
  <2>4. Complete(seen[p], came[p], cursor[p])'
    BY <1>9, <2>1 DEF Complete
  <2> QED BY <1>8, <2>1, <2>2, <2>3, <2>4 DEF SeenUpTo
<1> QED BY <1>2, <1>3, <1>6, <1>10 DEF PInv, PageTypes

\* What a step of a page leaves to the other pages.
LEMMA PollStep ==
  ASSUME PInv, NEW p \in Pollers, Poll(p)
  PROVE  PInv'
<1> DEFINE other(q) == UNCHANGED <<ask[q], reply[q], cursor[q], seen[q], came[q]>>
<1>1. UNCHANGED <<hub, feeding, streams, server>>
  BY DEF Poll, Ask, Pending, Deliver, Lose
<1>2. next \in Nat /\ UNCHANGED next
  BY <1>1 DEF PInv, IInv, HubTypes, hub
<1>3. IInv'
  <2> USE <1>1 DEF hub, streams, PInv, IInv
  <2>1. \A s \in Streams : Served(s)' = Served(s) BY DEF Served
  <2>2. HubTypes' /\ QueuesBounded' BY DEF HubTypes, QueuesBounded
  <2>3. Behind' /\ StreamWhole'
    BY <2>1 DEF Behind, StreamWhole, Ascending, HubTypes
  <2>4. NoLeak' /\ RingIsRecent' BY DEF NoLeak, RingIsRecent
  <2> QED BY <2>2, <2>3, <2>4
<1>4. \A q \in Pollers \ {p} : other(q)
  BY DEF PInv, PageTypes, Poll, Ask, Pending, Deliver, Lose
<1>5. ASSUME NEW q \in Pollers, q # p PROVE Polled(q)'
  <2>1. Polled(q) /\ other(q) BY <1>4, <1>5 DEF PInv
  <2> QED BY <1>2, <2>1 DEF Polled, SeenUpTo, Fits, Complete, Ascending
<1>6. PageTypes' /\ Polled(p)'
  <2>1. CASE Ask(p) \/ Lose(p)
    <3>1. UNCHANGED <<reply, cursor, seen, came>> /\ ask'[p] # "answered"
      BY <2>1 DEF Ask, Lose, PInv, PageTypes
    <3>2. PageTypes'
      BY <1>1, <2>1, <3>1 DEF Ask, Lose, PInv, PageTypes, streams, server
    <3>3. Polled(p)'
      BY <1>2, <3>1 DEF PInv, Polled, SeenUpTo, Complete, Ascending
    <3> QED BY <3>2, <3>3
  <2>2. CASE Pending(p)
    <3>1. UNCHANGED <<cursor, seen, came>> /\ cursor[p] \in Nat
      BY <2>2 DEF Pending, PInv, PageTypes
    <3>2. Since(cursor[p]) \in Seq(Nat) /\ Fits(Since(cursor[p]), cursor[p])
      BY <3>1, SinceFits DEF PInv
    <3>3. reply' = [reply EXCEPT ![p] = Since(cursor[p])] /\ reply'[p] = Since(cursor[p])
      BY <2>2 DEF Pending, PInv, PageTypes
    <3>4. PageTypes'
      BY <1>1, <2>2, <3>1, <3>2, <3>3 DEF Pending, PInv, PageTypes, streams, server
    <3>5. SeenUpTo(p)'
      BY <1>2, <3>1 DEF PInv, Polled, SeenUpTo, Complete, Ascending
    <3>6. Fits(reply[p], cursor[p])'
      BY <1>2, <3>1, <3>2, <3>3 DEF Fits, Complete, Ascending
    <3> QED BY <3>4, <3>5, <3>6 DEF Polled
  <2>3. CASE Deliver(p)
    <3>1. UNCHANGED <<reply, came>> /\ ask'[p] = "idle" /\ ask' = [ask EXCEPT ![p] = "idle"]
      BY <2>3 DEF Deliver, PInv, PageTypes
    <3>2. PageTypes'
      BY <1>1, <2>3, <3>1, DeliverStep DEF PInv, PageTypes, streams, server
    <3> QED BY <2>3, <3>1, <3>2, DeliverStep DEF Polled
  <2> QED BY <2>1, <2>2, <2>3 DEF Poll
<1> QED BY <1>3, <1>5, <1>6 DEF PInv

LEMMA FreshPages ==
  /\ Idle(Pollers, "idle") \in [Pollers -> {"idle", "asked", "answered"}]
  /\ Idle(Pollers, <<>>) \in [Pollers -> Seq(Nat)]
  /\ Idle(Pollers, 0) \in [Pollers -> Nat]
  BY DEF Idle

LEMMA InitPInv == Init => PInv
<1> SUFFICES ASSUME Init PROVE PInv OBVIOUS
<1> USE DEF Init
<1>1. PageTypes BY FreshPages DEF PageTypes
<1>2. \A p \in Pollers : Polled(p)
  BY DEF Polled, SeenUpTo, Complete, Ascending, Idle
<1> QED BY <1>1, <1>2, InitIInv DEF PInv

\* After a restart a page has seen nothing above the cursor it comes with.
LEMMA RestartPages == PInv /\ Restart => PInv'
<1> SUFFICES ASSUME PInv, Restart PROVE PInv' OBVIOUS
<1> USE DEF Restart
<1>1. restarts' \in Nat /\ cursor \in [Pollers -> Nat] BY DEF PInv, PageTypes
<1>2. PageTypes'
  <2>1. feeding' \in BOOLEAN /\ hungUp' \subseteq Streams OBVIOUS
  <2>2. serve' \in {"up", "draining", "returned"} /\ ctx' \in {"live", "cancelled"} OBVIOUS
  <2>3. /\ ask' \in [Pollers -> {"idle", "asked", "answered"}]
        /\ reply' \in [Pollers -> Seq(Nat)] /\ seen' \in [Pollers -> Seq(Nat)]
    BY FreshPages
  <2>4. cursor' \in [Pollers -> Nat] /\ came' \in [Pollers -> Nat] BY <1>1
  <2> QED BY <1>1, <2>1, <2>2, <2>3, <2>4 DEF PageTypes
<1>3. \A p \in Pollers : Polled(p)'
  BY DEF PInv, PageTypes, Polled, SeenUpTo, Complete, Ascending, Idle
<1> QED BY <1>2, <1>3, RestartStep DEF PInv

LEMMA PagesInvariance == Spec => []PInv
<1>1. PInv /\ [Next]_vars => PInv'
  <2> SUFFICES ASSUME PInv, [Next]_vars PROVE PInv'
    OBVIOUS
  <2>1. CASE UNCHANGED polls /\ next' \in Nat /\ next <= next' /\ IInv' /\ PageTypes'
    BY <2>1, PolledStays DEF PInv
  <2>2. CASE Add
    <3>1. UNCHANGED polls /\ next' = next + 1 /\ next \in Nat /\ IInv'
      BY <2>2, AddStep DEF PInv, IInv, HubTypes, Add
    <3>2. PageTypes'
      BY <2>2 DEF Add, PInv, PageTypes, polls, server
    <3> QED BY <2>1, <3>1, <3>2
  <2>3. ASSUME NEW s \in Streams, Stream(s) PROVE PInv'
    <3>1. IInv' BY <2>3, StreamStep DEF PInv
    <3>2. UNCHANGED polls /\ next' = next /\ next \in Nat
      BY <2>3 DEF PInv, IInv, HubTypes, Stream, Subscribe, Take, Written, HangUp, Unsubscribe, hub
    <3>3. PageTypes'
      BY <2>3 DEF PInv, PageTypes, Stream, Subscribe, Take, Written, HangUp, Unsubscribe,
                  polls, server
    <3> QED BY <2>1, <3>1, <3>2, <3>3
  <2>4. CASE Feed \/ Cancel \/ Server \/ UNCHANGED vars
    <3> USE <2>4 DEF Feed, Cancel, Server, Shutdown, Drained, ForceClose, vars
    <3>1. UNCHANGED <<hub, streams, polls>> OBVIOUS
    <3>2. IInv'
      BY <3>1 DEF PInv, IInv, HubTypes, QueuesBounded, Behind, StreamWhole, NoLeak,
                  RingIsRecent, Served, Ascending, hub, streams
    <3>3. next' = next /\ next \in Nat BY <3>1 DEF PInv, IInv, HubTypes, hub
    <3>4. PageTypes' BY <3>1 DEF PInv, PageTypes, streams, polls, server
    <3> QED BY <2>1, <3>1, <3>2, <3>3, <3>4
  <2>5. ASSUME NEW p \in Pollers, Poll(p) PROVE PInv'
    BY <2>5, PollStep
  <2> QED
    BY <2>2, <2>3, <2>4, <2>5, RestartPages DEF Next
<1> QED
  BY InitPInv, <1>1, PTL DEF Spec

\* Type correctness of hub, handlers, server and pages.
THEOREM TypeCorrect == Spec => []TypeOK
<1>1. PInv => TypeOK
  <2> SUFFICES ASSUME PInv PROVE TypeOK OBVIOUS
  <2>1. next \in Nat /\ (IF next < Cap THEN next ELSE Cap) \in 0..next
    BY DEF PInv, IInv, HubTypes
  <2>2. buf \in Seq(Nat) BY <2>1 DEF PInv, IInv, RingIsRecent, UpTo
  <2> QED BY <2>2 DEF PInv, IInv, HubTypes, QueuesBounded, PageTypes, TypeOK
<1> QED BY PagesInvariance, <1>1, PTL

\* A polling page gets every event at most once and in order, whatever answers
\* are lost (since, /pending).
THEOREM PollsInOrder == Spec => []PollsAscend
<1>1. PInv => PollsAscend
  BY DEF PInv, Polled, SeenUpTo, PollsAscend
<1> QED BY PagesInvariance, <1>1, PTL

\* It misses nothing above the cursor it came with but what the ring has lost,
\* after any number of restarts (since, add).
THEOREM PollsAreComplete == Spec => []PollsComplete
<1>1. PInv => PollsComplete
  <2> SUFFICES ASSUME PInv, NEW p \in Pollers, NEW id \in came[p] + 1..cursor[p]
               PROVE  id \in ToSet(seen[p]) \/ id + Cap <= next
    BY DEF PollsComplete
  <2>1. seen[p] \in Seq(Nat) BY DEF PInv, PageTypes
  <2>2. (\E i \in 1..Len(seen[p]) : seen[p][i] = id) \/ id + Cap <= next
    BY DEF PInv, Polled, SeenUpTo, Complete
  <2> QED BY <2>1, <2>2 DEF ToSet
<1> QED BY PagesInvariance, <1>1, PTL
=============================================================================
