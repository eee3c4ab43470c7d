------------------------------ MODULE Ingress ------------------------------
(***************************************************************************)
(* How events reach the partitions: the TCP server (ingress/tcp_server),   *)
(* one IngressPipeline per connection and one for the generated events     *)
(* (ingress/ingress_pipeline, app/motor_main.cpp), and the inbox of each   *)
(* partition (module Ring).  One thread serves the connections and is the  *)
(* producer of every inbox; each partition consumes its own.               *)
(*                                                                         *)
(* A frame is a header and a payload and travels as two units; a chunk may *)
(* end between them.  A stream is known beforehand (script), so a          *)
(* pipeline's buffer is given by how much of the stream was read and how   *)
(* much of that was consumed.  Timestamps and counters are left out.       *)
(***************************************************************************)
EXTENDS Ring, Sequences, SequencesExt

CONSTANTS
  Partitions,     \* 0 .. num_inboxes_ - 1
  Clients,        \* connections
  Local,          \* the pipeline motor_main feeds itself
  Scripts,        \* what the streams may hold: frames, by stream
  Segment,        \* bound of the model: units of a stream sent together
  ChunkMax,       \* units one recv returns at most
  BufferSize,     \* kBufferSize, in units
  MaxClients      \* kMaxClients

Sources == Clients \cup {Local}

\* The frames a stream may hold: for one partition or for all, or one that the
\* pipeline refuses (a template, a schema or a length it does not know).
Frames == [kind : {"broadcast", "single", "unknown", "schema", "oversize"}, to : Partitions]

ASSUME IngressAssumption ==
  /\ Partitions # {} /\ Partitions \subseteq Nat
  /\ Local \notin Clients
  /\ {Segment, ChunkMax, BufferSize, MaxClients} \subseteq Nat \ {0}
  /\ Scripts \subseteq [Sources -> Seq(Frames)]
  /\ \A sc \in Scripts :
       /\ \A n \in DOMAIN sc[Local] : sc[Local][n].kind \in {"broadcast", "single"}
       /\ \A s \in Sources : {s} \X DOMAIN sc[s] \subseteq Items

VARIABLES
  script,     \* the frames of each stream
  inbox,      \* the ring of each partition
  reading,    \* partitions that hold the slot they peeked
  received,   \* history: what each partition has popped, oldest first
  stuck,      \* partitions that stopped and consume no more
  peer,       \* the far end of each connection
  sent,       \* units of each stream that were sent
  read,       \* units its pipeline has received
  done,       \* units its pipeline has consumed
  kept,       \* the frames of the local stream that found room in its buffer
  backlog,    \* connections not accepted yet
  conns,      \* clients_: accepted connections, in order
  stalled,    \* connections waiting for room in an inbox
  pc,         \* what the serving thread does next
  at,         \* position in conns of the client being served
  events,     \* revents of the last poll
  feed        \* the call of feed in progress

inboxVars == <<inbox, reading, received, stuck>>
peerVars == <<peer, sent>>
pipeVars == <<read, done, kept>>
serverVars == <<backlog, conns, stalled>>
threadVars == <<pc, at, events, feed>>
vars == <<script, inboxVars, peerVars, pipeVars, serverVars, threadVars>>

Idle == [source |-> Local, retry |-> FALSE, failed |-> FALSE, targets |-> {}]

-----------------------------------------------------------------------------
(* The far ends: connect, send, close, break. *)

Connect(c) ==
  /\ peer[c] = "away" /\ pc # "stopped" /\ script[c] # <<>>
  /\ peer' = [peer EXCEPT ![c] = "open"]
  /\ backlog' = Append(backlog, c)
  /\ UNCHANGED <<script, inboxVars, sent, pipeVars, conns, stalled, threadVars>>

Send(c) ==
  /\ peer[c] = "open"
  /\ sent[c] < 2 * Len(script[c])
  /\ sent' = [sent EXCEPT ![c] = IF @ + Segment < 2 * Len(script[c])
                                  THEN @ + Segment ELSE 2 * Len(script[c])]
  /\ UNCHANGED <<script, inboxVars, peer, pipeVars, serverVars, threadVars>>

\* A connection is closed in order once all is sent, or breaks at any time.
Leave(c, how) ==
  /\ peer[c] = "open"
  /\ how = "closed" => sent[c] = 2 * Len(script[c])
  /\ peer' = [peer EXCEPT ![c] = how]
  /\ UNCHANGED <<script, inboxVars, sent, pipeVars, serverVars, threadVars>>

-----------------------------------------------------------------------------
(* IngressPipeline::feed, one frame at a time. *)

Buffered(s) == read[s] - done[s]

\* The k-th frame that was put into a buffer; the first that is not consumed yet.
Number(s, k) == IF s = Local THEN kept[k] ELSE k
Item(s) == <<s, Number(s, done[s] \div 2 + 1)>>
FrameOf(item) == script[item[1]][item[2]]
Frame(s) == FrameOf(Item(s))

Targets(f) == IF f.kind = "broadcast" THEN Partitions ELSE {f.to}

\* Mutant: a frame that finds an inbox full is taken off the buffer all the same.
ConsumedMut(s, outcome) == done[s] + 2

\* How far the buffer is consumed: a malformed header discards it, an inbox
\* without room leaves the frame where it is.
Consumed(s, outcome) ==
  CASE outcome = "malformed" -> read[s]
    [] outcome = "block" -> done[s]
    [] OTHER -> done[s] + 2

\* What the client's turn comes to when feed returns.
Return(s, outcome) ==
  CASE s = Local -> "poll"
    [] s # Local /\ outcome = "block" -> "blocked"
    [] s # Local /\ outcome = "error" -> "close"
    [] OTHER -> IF feed.retry THEN "events" ELSE "recv"

Feed(s, retry) == [source |-> s, retry |-> retry, failed |-> FALSE, targets |-> {}]

\* No whole frame is left in the buffer.
FeedReturns ==
  /\ pc = "feed" /\ feed.targets = {}
  /\ LET s == feed.source IN
     /\ \/ Buffered(s) < 1
        \/ Buffered(s) = 1 /\ Frame(s).kind \notin {"schema", "oversize"}
     /\ pc' = Return(s, IF feed.failed THEN "error" ELSE "ok")
  /\ feed' = Idle
  /\ UNCHANGED <<script, inboxVars, peerVars, pipeVars, serverVars, at, events>>

\* An unknown schema, or a payload too long: what is buffered is thrown away.
FeedMalformed ==
  /\ pc = "feed" /\ feed.targets = {}
  /\ LET s == feed.source IN
     /\ Buffered(s) >= 1 /\ Frame(s).kind \in {"schema", "oversize"}
     /\ done' = [done EXCEPT ![s] = Consumed(s, "malformed")]
     /\ pc' = Return(s, "error")
  /\ feed' = Idle
  /\ UNCHANGED <<script, inboxVars, peerVars, read, kept, serverVars, at, events>>

\* An unknown template is skipped and remembered as the error to return.
FeedUnknown ==
  /\ pc = "feed" /\ feed.targets = {}
  /\ LET s == feed.source IN
     /\ Buffered(s) >= 2 /\ Frame(s).kind = "unknown"
     /\ done' = [done EXCEPT ![s] = Consumed(s, "unknown")]
  /\ feed' = [feed EXCEPT !.failed = TRUE]
  /\ UNCHANGED <<script, inboxVars, peerVars, read, kept, serverVars, pc, at, events>>

\* Mutant: inboxes without room are left out of a broadcast.
ClaimedTargetsMut(f) == {p \in Targets(f) : ~ClaimFails(inbox[p])}

ClaimedTargets(f) == Targets(f)

\* route_and_dispatch claims a slot in every target, in order, and gives up at the
\* first that has none; nothing is published until all are claimed.
FeedDispatch ==
  /\ pc = "feed" /\ feed.targets = {}
  /\ LET s == feed.source
         ps == ClaimedTargets(Frame(s))
         full == {p \in ps : ClaimFails(inbox[p])}
         tried == {p \in ps : \A q \in full : p <= q}
     IN
     /\ Buffered(s) >= 2 /\ Frame(s).kind \in {"broadcast", "single"}
     /\ inbox' = [p \in Partitions |-> IF p \in tried THEN Claimed(inbox[p]) ELSE inbox[p]]
     /\ \/ /\ full = {}
           /\ feed' = [feed EXCEPT !.targets = ps]
           /\ UNCHANGED <<pc, done>>
        \/ /\ full # {}
           /\ done' = [done EXCEPT ![s] = Consumed(s, "block")]
           /\ pc' = Return(s, "block")
           /\ feed' = Idle
  /\ UNCHANGED <<script, reading, received, stuck, peerVars, read, kept, serverVars, at, events>>

\* The claimed slots are written and published one after the other; after the last
\* the frame is taken off the buffer.
FeedPublish ==
  /\ pc = "feed"
  /\ \E p \in feed.targets :
     LET s == feed.source IN
     /\ \A q \in feed.targets : p <= q
     /\ inbox' = [inbox EXCEPT ![p] = Published(Written(@, Item(s)))]
     /\ feed' = [feed EXCEPT !.targets = @ \ {p}]
     /\ done' = IF feed.targets = {p} THEN [done EXCEPT ![s] = Consumed(s, "routed")] ELSE done
  /\ UNCHANGED <<script, reading, received, stuck, peerVars, read, kept, serverVars, pc, at, events>>

-----------------------------------------------------------------------------
(* TcpIngressServer::poll_once *)

\* A closed connection reads as ready; without bytes it may be a hang-up instead.
Reported(c) ==
  CASE peer[c] = "broken" -> {"err"}
    [] peer[c] # "broken" /\ sent[c] > read[c] -> {"in"}
    [] peer[c] = "closed" /\ sent[c] = read[c] -> {"in", "hup"}
    [] OTHER -> {"none"}

\* accept_ready takes connections while there is room for them.
Accepted == LET room == MaxClients - Len(conns)
            IN  IF room < Len(backlog) THEN room ELSE Len(backlog)

\* poll reports nothing: poll_once returns at once, whoever is stalled.
PollIdle ==
  /\ pc = "poll"
  /\ backlog = <<>> /\ \A c \in Range(conns) : Reported(c) = {"none"}
  /\ pc' = "ingest"
  /\ UNCHANGED <<script, inboxVars, peerVars, pipeVars, serverVars, at, events, feed>>

\* Connections accepted in this call have no descriptor in it, hence no event.
Poll ==
  /\ pc = "poll"
  /\ backlog # <<>> \/ \E c \in Range(conns) : Reported(c) # {"none"}
  /\ events' \in {f \in [Clients -> {"none", "in", "hup", "err"}] :
                    \A c \in Clients :
                      f[c] \in (IF c \in Range(conns) THEN Reported(c) ELSE {"none"})}
  /\ conns' = conns \o SubSeq(backlog, 1, Accepted)
  /\ backlog' = SubSeq(backlog, Accepted + 1, Len(backlog))
  /\ at' = Len(conns')
  /\ pc' = "serve"
  /\ UNCHANGED <<script, inboxVars, peerVars, pipeVars, stalled, feed>>

\* Mutant: a connection that is stalled is passed over.
RetryMut(c) == /\ pc' = "blocked" /\ feed' = feed

\* A stalled connection first tries again what is in its buffer.
Retry(c) == /\ pc' = "feed" /\ feed' = Feed(c, TRUE)

Serve ==
  /\ pc = "serve" /\ at > 0
  /\ IF conns[at] \in stalled
     THEN Retry(conns[at])
     ELSE pc' = "events" /\ UNCHANGED feed
  /\ UNCHANGED <<script, inboxVars, peerVars, pipeVars, serverVars, at, events>>

Served ==
  /\ pc = "serve" /\ at = 0
  /\ pc' = "ingest"
  /\ events' = [c \in Clients |-> "none"]
  /\ UNCHANGED <<script, inboxVars, peerVars, pipeVars, serverVars, at, feed>>

\* feed found an inbox full: the connection waits, and is not read meanwhile.
Blocked ==
  /\ pc = "blocked"
  /\ stalled' = stalled \cup {conns[at]}
  /\ at' = at - 1 /\ pc' = "serve"
  /\ UNCHANGED <<script, inboxVars, peerVars, pipeVars, backlog, conns, events, feed>>

\* The events of the descriptor, once a retry has gone through.
Events ==
  /\ pc = "events"
  /\ stalled' = stalled \ {conns[at]}
  /\ LET ev == events[conns[at]] IN
     \/ ev \in {"err", "hup"} /\ pc' = "close" /\ at' = at
     \/ ev = "none" /\ pc' = "serve" /\ at' = at - 1
     \/ ev = "in" /\ pc' = "recv" /\ at' = at
  /\ UNCHANGED <<script, inboxVars, peerVars, pipeVars, backlog, conns, events, feed>>

\* recv returns bytes, which are fed; or nothing more to read; or the end.
Recv ==
  /\ pc = "recv"
  /\ LET c == conns[at]
         rest == sent[c] - read[c]
         chunk == IF rest < ChunkMax THEN rest ELSE ChunkMax
     IN
     \/ /\ peer[c] # "broken" /\ rest > 0 /\ Buffered(c) + chunk <= BufferSize
        /\ read' = [read EXCEPT ![c] = @ + chunk]
        /\ pc' = "feed" /\ feed' = Feed(c, FALSE) /\ at' = at
     \/ /\ \/ peer[c] = "broken"
           \/ peer[c] = "closed" /\ rest = 0
           \/ rest > 0 /\ Buffered(c) + chunk > BufferSize
        /\ pc' = "close" /\ UNCHANGED <<read, feed, at>>
     \/ /\ peer[c] = "open" /\ rest = 0
        /\ pc' = "serve" /\ at' = at - 1 /\ UNCHANGED <<read, feed>>
  /\ UNCHANGED <<script, inboxVars, peerVars, done, kept, serverVars, events>>

\* finish discards what is left of a frame; close_client forgets the connection.
Close ==
  /\ pc = "close"
  /\ conns' = RemoveAt(conns, at)
  /\ stalled' = stalled \ {conns[at]}
  /\ peer' = [peer EXCEPT ![conns[at]] = "gone"]
  /\ at' = at - 1 /\ pc' = "serve"
  /\ UNCHANGED <<script, inboxVars, sent, pipeVars, backlog, events, feed>>

-----------------------------------------------------------------------------
(* The loop of motor_main: an event of its own, then the connections. *)

\* The status of feed is ignored: a frame that finds no room stays in the buffer,
\* and one that does not fit in the buffer is lost.
Ingest ==
  /\ pc = "ingest"
  /\ IF sent[Local] = 2 * Len(script[Local])
     THEN pc' = "poll" /\ UNCHANGED <<sent, read, kept, feed>>
     ELSE /\ sent' = [sent EXCEPT ![Local] = @ + 2]
          /\ IF Buffered(Local) + 2 > BufferSize
             THEN pc' = "poll" /\ UNCHANGED <<read, kept, feed>>
             ELSE /\ read' = [read EXCEPT ![Local] = @ + 2]
                  /\ kept' = Append(kept, sent[Local] \div 2 + 1)
                  /\ pc' = "feed" /\ feed' = Feed(Local, FALSE)
  /\ UNCHANGED <<script, inboxVars, peer, done, serverVars, at, events>>

\* A signal ends the loop: the server closes every connection.
Stop ==
  /\ pc = "ingest"
  /\ pc' = "stopped"
  /\ conns' = <<>> /\ backlog' = <<>> /\ stalled' = {}
  /\ peer' = [c \in Clients |-> IF peer[c] = "away" THEN "away" ELSE "gone"]
  /\ UNCHANGED <<script, inboxVars, sent, pipeVars, at, events, feed>>

-----------------------------------------------------------------------------
(* The partitions. *)

Peek(p) ==
  /\ p \notin reading \cup stuck
  /\ inbox' = [inbox EXCEPT ![p] = Peeked(@)]
  /\ reading' = IF PeekFails(inbox[p]) THEN reading ELSE reading \cup {p}
  /\ UNCHANGED <<script, received, stuck, peerVars, pipeVars, serverVars, threadVars>>

Pop(p) ==
  /\ p \in reading \ stuck
  /\ received' = [received EXCEPT ![p] = Append(@, Oldest(inbox[p]))]
  /\ inbox' = [inbox EXCEPT ![p] = Popped(@)]
  /\ reading' = reading \ {p}
  /\ UNCHANGED <<script, stuck, peerVars, pipeVars, serverVars, threadVars>>

\* A fatal event stops the partition with the slot still in the inbox.
Halt(p) ==
  /\ p \in reading \ stuck
  /\ stuck' = stuck \cup {p}
  /\ UNCHANGED <<script, inbox, reading, received, peerVars, pipeVars, serverVars, threadVars>>

-----------------------------------------------------------------------------
Init ==
  /\ script \in Scripts
  /\ inbox = [p \in Partitions |-> EmptyRing]
  /\ reading = {} /\ stuck = {}
  /\ received = [p \in Partitions |-> <<>>]
  /\ peer = [c \in Clients |-> "away"]
  /\ sent = [s \in Sources |-> 0]
  /\ read = [s \in Sources |-> 0]
  /\ done = [s \in Sources |-> 0]
  /\ kept = <<>>
  /\ backlog = <<>> /\ conns = <<>> /\ stalled = {}
  /\ pc = "ingest" /\ at = 0 /\ feed = Idle
  /\ events = [c \in Clients |-> "none"]

Server ==
  \/ Ingest \/ Stop
  \/ PollIdle \/ Poll \/ Serve \/ Served \/ Blocked \/ Events \/ Recv \/ Close
  \/ FeedReturns \/ FeedMalformed \/ FeedUnknown \/ FeedDispatch \/ FeedPublish

Next ==
  \/ Server
  \/ \E c \in Clients : Connect(c) \/ Send(c) \/ \E how \in {"closed", "broken"} : Leave(c, how)
  \/ \E p \in Partitions : Peek(p) \/ Pop(p) \/ Halt(p)

\* The serving thread and the partitions' threads keep running.
Spec ==
  /\ Init /\ [][Next]_vars
  /\ WF_vars(Server)
  /\ \A p \in Partitions : WF_vars(Peek(p)) /\ WF_vars(Pop(p))

-----------------------------------------------------------------------------
\* The producer never writes the slot a partition is reading, and each side's copy
\* of the other's cursor errs on the safe side only (SpscRing::claim and peek).
RingsSafe ==
  \A p \in Partitions :
    /\ CursorsInOrder(inbox[p])
    /\ p \in reading => inbox[p].tail < inbox[p].head_cache
    /\ p \in reading /\ p \in feed.targets =>
         Index(inbox[p].head) # Index(inbox[p].tail)

\* Everything ever published to p, oldest first.
History(p) == received[p] \o Contents(inbox[p])

\* Where the frames of s are in what p was sent.
From(s, p) == {i \in DOMAIN History(p) : History(p)[i][1] = s}

\* The frames of s that are through its pipeline and were meant for p; after a
\* malformed header there are none.
Routed(s, p) ==
  {n \in {Number(s, k) : k \in 1 .. done[s] \div 2} :
     /\ \A m \in 1 .. n : script[s][m].kind \notin {"schema", "oversize"}
     /\ script[s][n].kind # "unknown" /\ p \in Targets(script[s][n])}

\* The frame half way through a broadcast, if p has its copy.
UnderWay(s, p) ==
  IF /\ feed.source = s /\ feed.targets # {}
     /\ p \notin feed.targets /\ p \in Targets(Frame(s))
  THEN {Item(s)[2]} ELSE {}

\* Each partition gets the frames of a stream that are meant for it, all of them,
\* once each and in the order of the stream, while inboxes fill, chunks end anywhere
\* and connections come and go (feed and route_and_dispatch).
DeliveredOnceInOrder ==
  \A s \in Sources, p \in Partitions :
    /\ {History(p)[i][2] : i \in From(s, p)} = Routed(s, p) \cup UnderWay(s, p)
    /\ \A i, j \in From(s, p) : i < j => History(p)[i][2] < History(p)[j][2]

\* Where the broadcasts are in what p was sent, and which come before position i.
Broadcasts(p) == {i \in DOMAIN History(p) : FrameOf(History(p)[i]).kind = "broadcast"}
BroadcastsBefore(p, i) == {h \in Broadcasts(p) : h < i}

\* All partitions see the broadcasts (the opening of a day, closing prices, the
\* end of the day) in one order, and none skips one that another has, whatever
\* connections they come from: what two partitions saw after equally many broadcasts
\* is the same broadcast.
BroadcastsAgree ==
  \A p, q \in Partitions :
    \A i \in Broadcasts(p), j \in Broadcasts(q) :
      Cardinality(BroadcastsBefore(p, i)) = Cardinality(BroadcastsBefore(q, j)) =>
        History(p)[i] = History(q)[j]

Orderly(c) == \A n \in DOMAIN script[c] : script[c][n].kind \in {"broadcast", "single"}

\* Once a client has sent its stream and closed, every frame of it is taken by the
\* partitions it is for: back-pressure delays and never loses, and closing is what
\* makes poll report a connection that is stalled.  As long as the server runs and
\* no partition stops.
EverythingArrives ==
  [](pc # "stopped" /\ stuck = {}) =>
    \A c \in Clients :
      (peer[c] = "closed" /\ c \in Range(conns) /\ Orderly(c)) ~>
      (\A p \in Partitions :
         Len(SelectSeq(received[p], LAMBDA item : item[1] = c)) =
           Len(SelectSeq(script[c], LAMBDA f : p \in Targets(f))))
=============================================================================
