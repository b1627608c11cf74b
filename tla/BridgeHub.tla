----------------------------- MODULE BridgeHub -----------------------------
(***************************************************************************)
(* The hub of the bridge (bridge.go): presentations are numbered, kept in  *)
(* a ring and broadcast to the SSE handlers through bounded queues; pages  *)
(* read them as a stream (/events) or poll with a cursor (/pending), and   *)
(* the server drains when its context is cancelled.                        *)
(*                                                                         *)
(* The hub's methods run under one mutex and never wait while they hold    *)
(* it, so each is one step.  An SSE handler is between two of its selects, *)
(* or in a write that lasts as long as its page does not read.  What an    *)
(* event carries besides its id does not matter here.                      *)
(***************************************************************************)
EXTENDS Naturals, Sequences, SequencesExt, FiniteSets

CONSTANTS
  Streams,     \* SSE requests a page may have open
  Pollers,     \* pages that poll
  Cap,         \* events the ring retains (64)
  QueueCap,    \* events queued for one stream (16)
  MaxEvents,   \* bound: events recorded by one process
  MaxRestarts  \* bound: restarts of the process

ASSUME HubAssumption ==
  /\ Cap \in Nat \ {0} /\ QueueCap \in Nat \ {0}
  /\ MaxEvents \in Nat /\ MaxRestarts \in Nat

VARIABLES
  next, buf, subs,  \* bridgeHub: last id, ring, subscribed channels
  feeding,          \* a presentation is being fed
  queue,            \* the channel of each stream
  handler,          \* "none", "select" or "write"
  hungUp,           \* streams whose page closed the connection
  ask,              \* "idle", "asked" or "answered", per poller
  reply,            \* the answer on its way to the poller
  serve,            \* "up", "draining" or "returned"
  ctx,              \* "live" or "cancelled"
  restarts,
  \* the pages, and history
  cursor,           \* the last id a poller has seen
  seen,             \* the ids this process gave it, in order
  came,             \* the cursor it came into this process with
  joined,           \* the last id when the stream subscribed
  got               \* the ids its handler took from the queue

hub     == <<next, buf, subs>>
streams == <<queue, handler, hungUp, joined, got>>
polls   == <<ask, reply, cursor, seen, came>>
server  == <<serve, ctx, restarts>>
vars    == <<hub, feeding, streams, polls, server>>

TypeOK ==
  /\ next \in Nat /\ buf \in Seq(Nat) /\ subs \subseteq Streams
  /\ feeding \in BOOLEAN
  /\ queue \in [Streams -> Seq(Nat)] /\ \A s \in Streams : Len(queue[s]) <= QueueCap
  /\ handler \in [Streams -> {"none", "select", "write"}]
  /\ hungUp \subseteq Streams
  /\ ask \in [Pollers -> {"idle", "asked", "answered"}]
  /\ reply \in [Pollers -> Seq(Nat)]
  /\ serve \in {"up", "draining", "returned"}
  /\ ctx \in {"live", "cancelled"} /\ restarts \in Nat
  /\ cursor \in [Pollers -> Nat] /\ seen \in [Pollers -> Seq(Nat)]
  /\ came \in [Pollers -> Nat]
  /\ joined \in [Streams -> Nat] /\ got \in [Streams -> Seq(Nat)]

Idle(S, x) == [s \in S |-> x]

Init ==
  /\ next = 0 /\ buf = <<>> /\ subs = {} /\ feeding = FALSE
  /\ queue = Idle(Streams, <<>>) /\ handler = Idle(Streams, "none")
  /\ hungUp = {}
  /\ ask = Idle(Pollers, "idle") /\ reply = Idle(Pollers, <<>>)
  /\ serve = "up" /\ ctx = "live" /\ restarts = 0
  /\ cursor = Idle(Pollers, 0) /\ seen = Idle(Pollers, <<>>)
  /\ came = Idle(Pollers, 0)
  /\ joined = Idle(Streams, 0) /\ got = Idle(Streams, <<>>)

-----------------------------------------------------------------------------
(* Feed, past the dedup filter.                                            *)

Feed ==
  /\ ~feeding /\ next < MaxEvents
  /\ feeding' = TRUE
  /\ UNCHANGED <<hub, streams, polls, server>>

\* Mutant: the ring keeps the oldest events.
TrimmedOldest(s) == IF Len(s) > Cap THEN SubSeq(s, 1, Cap) ELSE s

\* The ring after an append.
Trimmed(s) == IF Len(s) > Cap THEN SubSeq(s, Len(s) - Cap + 1, Len(s)) ELSE s

\* Mutant: a full queue gives up its oldest event.
OfferedDropOldest(q, id) ==
  IF Len(q) < QueueCap THEN Append(q, id) ELSE Append(Tail(q), id)

\* Mutant: the channel has no bound.
OfferedUnbounded(q, id) == Append(q, id)

\* The send of add: a full queue misses the event.
Offered(q, id) == IF Len(q) < QueueCap THEN Append(q, id) ELSE q

Add ==
  /\ feeding /\ feeding' = FALSE
  /\ next' = next + 1
  /\ buf' = Trimmed(Append(buf, next'))
  /\ queue' = [s \in Streams |-> IF s \in subs THEN Offered(queue[s], next') ELSE queue[s]]
  /\ UNCHANGED <<subs, handler, hungUp, joined, got, polls, server>>

-----------------------------------------------------------------------------
(* GET /events                                                             *)

\* The page connects; the handler subscribes a fresh channel and says hello.
Subscribe(s) ==
  /\ serve = "up" /\ handler[s] = "none"
  /\ handler' = [handler EXCEPT ![s] = "select"]
  /\ subs' = subs \cup {s}
  /\ queue' = [queue EXCEPT ![s] = <<>>]
  /\ hungUp' = hungUp \ {s}
  /\ joined' = [joined EXCEPT ![s] = next] /\ got' = [got EXCEPT ![s] = <<>>]
  /\ UNCHANGED <<next, buf, feeding, polls, server>>

Take(s) ==
  /\ handler[s] = "select" /\ queue[s] # <<>>
  /\ handler' = [handler EXCEPT ![s] = "write"]
  /\ got' = [got EXCEPT ![s] = Append(@, Head(queue[s]))]
  /\ queue' = [queue EXCEPT ![s] = Tail(@)]
  /\ UNCHANGED <<hub, feeding, hungUp, joined, polls, server>>

\* Whether the connection is gone, so that a write returns at once.
Broken(s) == s \in hungUp \/ serve = "returned"

\* The page reads, or the write fails; the handler looks at neither.
Written(s) ==
  /\ handler[s] = "write"
  /\ handler' = [handler EXCEPT ![s] = "select"]
  /\ UNCHANGED <<hub, feeding, queue, hungUp, joined, got, polls, server>>

HangUp(s) ==
  /\ handler[s] # "none" /\ s \notin hungUp
  /\ hungUp' = hungUp \cup {s}
  /\ UNCHANGED <<hub, feeding, queue, handler, joined, got, polls, server>>

\* The request's context is done.
Done(s) == Broken(s) \/ ctx = "cancelled"

\* Mutant: the channel stays subscribed.
UnsubscribeLeaks(s) ==
  /\ handler[s] = "select" /\ Done(s)
  /\ handler' = [handler EXCEPT ![s] = "none"]
  /\ UNCHANGED <<hub, feeding, queue, hungUp, joined, got, polls, server>>

\* The deferred cancel removes the channel.
Unsubscribe(s) ==
  /\ handler[s] = "select" /\ Done(s)
  /\ handler' = [handler EXCEPT ![s] = "none"]
  /\ subs' = subs \ {s}
  /\ UNCHANGED <<next, buf, feeding, queue, hungUp, joined, got, polls, server>>

Stream(s) == Subscribe(s) \/ Take(s) \/ Written(s) \/ HangUp(s) \/ Unsubscribe(s)

-----------------------------------------------------------------------------
(* GET /pending                                                            *)

Ask(p) ==
  /\ serve = "up" /\ ask[p] = "idle"
  /\ ask' = [ask EXCEPT ![p] = "asked"]
  /\ UNCHANGED <<hub, feeding, streams, reply, cursor, seen, came, server>>

\* The ids in the ring that are greater than after.  They ascend in the ring, so
\* the filter of since leaves a suffix of it.
Newer(after) ==
  LET k == CHOOSE k \in 0..Len(buf) : \A i \in DOMAIN buf : i > k <=> buf[i] > after
  IN  SubSeq(buf, k + 1, Len(buf))

\* Mutant: the cursor's own event is replayed.
SinceInclusive(after) == Newer(after - 1)

\* Mutant: the cursor is taken for the first id wanted, less one.
SinceSkips(after) == Newer(after + 1)

Since(after) == Newer(after)

Pending(p) ==
  /\ ask[p] = "asked"
  /\ ask' = [ask EXCEPT ![p] = "answered"]
  /\ reply' = [reply EXCEPT ![p] = Since(cursor[p])]
  /\ UNCHANGED <<hub, feeding, streams, cursor, seen, came, server>>

\* The page takes the answer and moves its cursor to the last id of it.
Deliver(p) ==
  /\ ask[p] = "answered"
  /\ ask' = [ask EXCEPT ![p] = "idle"]
  /\ seen' = [seen EXCEPT ![p] = @ \o reply[p]]
  /\ cursor' = [cursor EXCEPT ![p] = IF reply[p] = <<>> THEN @ ELSE Last(reply[p])]
  /\ UNCHANGED <<hub, feeding, streams, reply, came, server>>

\* The answer is lost; the page asks again with the same cursor.  (A request
\* that is lost changes as little.)
Lose(p) ==
  /\ ask[p] = "answered"
  /\ ask' = [ask EXCEPT ![p] = "idle"]
  /\ UNCHANGED <<hub, feeding, streams, reply, cursor, seen, came, server>>

Poll(p) == Ask(p) \/ Pending(p) \/ Deliver(p) \/ Lose(p)

-----------------------------------------------------------------------------
(* ServeListener and the process.                                          *)

Cancel ==
  /\ ctx = "live" /\ ctx' = "cancelled"
  /\ UNCHANGED <<hub, feeding, streams, polls, serve, restarts>>

\* Shutdown closes the listener and waits for the requests to end.
Shutdown ==
  /\ ctx = "cancelled" /\ serve = "up" /\ serve' = "draining"
  /\ UNCHANGED <<hub, feeding, streams, polls, ctx, restarts>>

Drained ==
  /\ serve = "draining"
  /\ \A s \in Streams : handler[s] = "none"
  /\ \A p \in Pollers : ask[p] # "asked"
  /\ serve' = "returned"
  /\ UNCHANGED <<hub, feeding, streams, polls, ctx, restarts>>

\* Mutant: Shutdown has no deadline.
ForceCloseNever == Drained

\* The two seconds are over: Close breaks the connections that are left.
ForceClose ==
  /\ serve = "draining" /\ serve' = "returned"
  /\ UNCHANGED <<hub, feeding, streams, polls, ctx, restarts>>

\* The process ends or dies, and the service manager starts it again.  The hub
\* is a new one; the pages keep their cursors.
Restart ==
  /\ restarts < MaxRestarts
  /\ restarts' = restarts + 1
  /\ next' = 0 /\ buf' = <<>> /\ subs' = {} /\ feeding' = FALSE
  /\ queue' = Idle(Streams, <<>>) /\ handler' = Idle(Streams, "none")
  /\ hungUp' = {} /\ joined' = Idle(Streams, 0) /\ got' = Idle(Streams, <<>>)
  /\ ask' = Idle(Pollers, "idle") /\ reply' = Idle(Pollers, <<>>)
  /\ serve' = "up" /\ ctx' = "live"
  /\ seen' = Idle(Pollers, <<>>)
  /\ came' = cursor /\ UNCHANGED cursor

Server == Shutdown \/ Drained \/ ForceClose

Next ==
  \/ Feed \/ Add \/ Cancel \/ Server \/ Restart
  \/ \E s \in Streams : Stream(s)
  \/ \E p \in Pollers : Poll(p)

Spec == Init /\ [][Next]_vars

\* Goroutines are scheduled: the feeding one, the server with its drain timer,
\* and the handlers as far as they do not wait for a page to read.
FairSpec ==
  /\ Spec
  /\ WF_vars(Add) /\ WF_vars(Shutdown) /\ WF_vars(Drained \/ ForceClose)
  /\ \A s \in Streams : /\ WF_vars(Unsubscribe(s))
                        /\ WF_vars(Broken(s) /\ Written(s))
  /\ \A p \in Pollers : WF_vars(Pending(p))

-----------------------------------------------------------------------------
Ascending(s) == \A i, j \in DOMAIN s : i < j => s[i] < s[j]
UpTo(n, k) == [i \in 1..k |-> n - k + i]

\* The ring holds the newest events, consecutive and complete (TestBridgeHub
\* RingAndBroadcast: "replay must return the newest 4 events").
RingIsRecent == buf = UpTo(next, IF next < Cap THEN next ELSE Cap)

\* What a stream has been given and what waits for it.
Served(s) == got[s] \o queue[s]

\* A stream is served from the moment it subscribed, in order, each event once,
\* and the first QueueCap events without a gap: an event is missed only behind
\* QueueCap others ("a slow consumer rides over short bursts").
StreamWhole ==
  \A s \in subs :
    /\ Ascending(Served(s))
    /\ \A i \in 1..Len(Served(s)) : i <= QueueCap => Served(s)[i] = joined[s] + i
    /\ Len(Served(s)) < QueueCap => Len(Served(s)) = next - joined[s]

\* A polling page gets no event twice and none out of order, whatever answers
\* are lost and repeated.
PollsAscend == \A p \in Pollers : Ascending(seen[p])

\* A polling page misses nothing but what the ring has overwritten and, when the
\* process was restarted, the ids that its cursor of the last process hides
\* (README: "pass the last seen id as after and /pending replays only what
\* came after it").
PollsComplete ==
  \A p \in Pollers : \A id \in came[p] + 1..cursor[p] :
    id \in ToSet(seen[p]) \/ id + Cap <= next

\* Subscribed channels belong to handlers that will remove them: a page that
\* comes and goes leaves nothing behind ("the cancel func always removes it").
NoLeak == subs = {s \in Streams : handler[s] # "none"}

\* Cancelling ends the server, and the streams with it even where a page
\* does not read (ServeListener: "must not outlive ServeListener either"),
\* unless the process dies first.
ShutdownEnds ==
  ctx = "cancelled" ~>
    ctx = "live" \/ (serve = "returned" /\ \A s \in Streams : handler[s] = "none")

\* A page keeps polling, and its polls do not fail for ever.
Polling(p) == WF_vars(Ask(p)) /\ SF_vars(Deliver(p))

\* A page that keeps polling comes to have seen the newest event, also after
\* restarts, unless its id is not above the cursor that the page brought along.
PollsCatchUp ==
  \A p \in Pollers : Polling(p) =>
    (<>[](ctx = "live") => <>[](next <= came[p] \/ next \in ToSet(seen[p])))
=============================================================================
