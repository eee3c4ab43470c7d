-------------------------------- MODULE Edge --------------------------------
(***************************************************************************)
(* The observability edge (edge/metrics_server.cpp, edge/observability.cpp) *)
(* beside the engine's thread (app/motor_main.cpp).  The engine polls its  *)
(* partitions and now and then copies their counters into the collector;   *)
(* the metrics server's worker thread renders the collector for whoever    *)
(* asks.  Only running_ and is_ready_ are atomic: the snapshots are plain  *)
(* structures that one thread writes while the other reads, so a copy is   *)
(* one step per field, in any order, and rendering reads field by field.   *)
(* Texts and labels are left out; what a page shows is the value of each   *)
(* field it reads.                                                         *)
(***************************************************************************)
EXTENDS Integers, Sequences, FiniteSets, FiniteSetsExt

CONSTANTS
  N,           \* number of partitions
  MaxEvents,   \* bound: events of all partitions
  Backlog      \* connections that may wait to be accepted, 32 in the source

ASSUME EdgeAssumption == N \in Nat \ {0} /\ MaxEvents \in Nat /\ Backlog \in Nat

Partitions == 0 .. N - 1

VARIABLES
  truth,    \* per partition: what the partition's own counters hold
  epc, at,  \* the engine: where it is, and the partition it is copying
  snap,     \* snap: the engine's local PartitionMetricsSnapshot
  todo,     \* fields of snap not copied yet
  coll,     \* partitions_ of the collector
  ready,    \* is_ready_
  running,  \* running_
  listen,   \* listen_fd_ is open
  pipe,     \* bytes in stop_pipe_, or Closed
  wpc,      \* the worker: where it is
  backlog,  \* connections waiting to be accepted
  page,     \* what is left to read for the answer being rendered
  health,   \* the answer of is_healthy as far as it got
  shown,    \* history: the value of each counter last shown
  known,    \* history: partitions whose failure was copied before the request
  answers   \* history: answers to /healthz, each with what was known when it was asked

engine == <<truth, epc, at, snap, todo, coll, ready>>
worker == <<wpc, page, health, shown, known, answers>>
server == <<running, listen, pipe>>
vars == <<engine, worker, server, backlog>>

Closed == -1

\* PartitionMetricsSnapshot, its fields grouped by what makes them move: an event
\* (last_lsn, what apply counts, the log's appends, what the outbox stages), a fatal
\* one, a divergence, a commit (durable_lsn, the log's groups and latencies, what the
\* outbox releases).  The counts of refusals (wal_full, outbox_full) are left out.
Fields == {"last", "fatal", "halted", "durable"}
Zero == [f \in Fields |-> 0]

-----------------------------------------------------------------------------
(* What the pages read of each partition, in order. *)

\* Sections 1 to 3 of render_prometheus: applied, closed and rejected events.
EventsSection == <<"last", "fatal">>
\* Section 4: the durable LSN, then the last one.
LsnSection == <<"durable", "last">>
\* Sections 5 and 6: checksum and halt, accounts and positions.
StateSection == <<"last", "halted">>
\* Section 7: the log's appends, then its groups and bytes.  Sections 8 and 9 show
\* what moves with them: the latencies of commits, what the outbox took and released.
IoSection == <<"last", "durable">>

\* render_prometheus goes through all partitions for each metric in turn.
MetricsPage ==
  LET fields == EventsSection \o LsnSection \o StateSection \o IoSection
  IN  [k \in 1 .. N * Len(fields) |-> <<(k - 1) % N, fields[((k - 1) \div N) + 1]>>]

\* render_json_status takes the fields of one partition after the other.
StatusPage ==
  LET fields == <<"halted", "durable", "last", "fatal">>
  IN  [k \in 1 .. N * Len(fields) |-> <<(k - 1) \div Len(fields), fields[((k - 1) % Len(fields)) + 1]>>]

\* Mutant: the loop leaves the last partition out.
HealthScanMut == [k \in 1 .. 2 * (N - 1) |-> <<(k - 1) \div 2, IF k % 2 = 1 THEN "halted" ELSE "fatal">>]

\* is_healthy: each partition's halt flag, then its fatal count.
HealthScan == [k \in 1 .. 2 * N |-> <<(k - 1) \div 2, IF k % 2 = 1 THEN "halted" ELSE "fatal">>]

-----------------------------------------------------------------------------
(* The engine. *)

Failed(v) == v["halted"] > 0 \/ v["fatal"] > 0

Init ==
  /\ truth = [p \in Partitions |-> Zero]
  /\ epc = "boot" /\ at = 0 /\ snap = Zero /\ todo = {}
  /\ coll = [p \in Partitions |-> Zero] /\ ready = FALSE
  /\ running = FALSE /\ listen = FALSE /\ pipe = Closed
  /\ wpc = "none" /\ page = <<>> /\ health = TRUE
  /\ backlog = 0
  /\ shown = [p \in Partitions |-> Zero] /\ known = {} /\ answers = {}

\* start and bind_and_listen.
Start ==
  /\ epc = "boot" /\ epc' = "ready"
  /\ running' = TRUE /\ listen' = TRUE /\ pipe' = 0 /\ wpc' = "check"
  /\ UNCHANGED <<truth, at, snap, todo, coll, ready, page, health, shown, known, answers, backlog>>

\* bind_and_listen fails and closes what it had opened; the engine goes on without
\* the server.
StartFails ==
  /\ epc = "boot" /\ epc' = "ready"
  /\ UNCHANGED <<truth, at, snap, todo, coll, ready, worker, backlog, server>>

\* Ready is announced before the first collection.
SetReady ==
  /\ epc = "ready" /\ epc' = "gather" /\ at' = 0
  /\ ready' = TRUE
  /\ UNCHANGED <<truth, snap, todo, coll, worker, backlog, server>>

\* Mutant: the collector's entry is cleared before it is filled again.
GatherMut ==
  /\ epc = "gather" /\ epc' = "copy"
  /\ snap' = truth[at] /\ todo' = Fields
  /\ coll' = [coll EXCEPT ![at] = Zero]
  /\ UNCHANGED <<truth, at, ready, worker, backlog, server>>

\* atualiza_metricas_coletor: a snapshot of one partition.
Gather ==
  /\ epc = "gather" /\ epc' = "copy"
  /\ snap' = truth[at] /\ todo' = Fields
  /\ UNCHANGED <<truth, at, coll, ready, worker, backlog, server>>

\* update_partition copies the structure, in no particular order.  After the last
\* partition comes update_ingress and the loop is over.
Copy(f) ==
  /\ epc = "copy"
  /\ coll' = [coll EXCEPT ![at][f] = snap[f]]
  /\ todo' = todo \ {f}
  /\ at' = IF todo' = {} THEN (at + 1) % N ELSE at
  /\ epc' = CASE todo' # {} -> "copy"
              [] todo' = {} /\ at + 1 < N -> "gather"
              [] OTHER -> "poll"
  /\ UNCHANGED <<truth, snap, ready, worker, backlog, server>>

\* Events the partitions have taken so far, all together.
EventsTaken == MapThenSumSet(LAMBDA q : truth[q]["last"], Partitions)

\* Partition::poll: an event is applied, is fatal, or shows a divergence.
Poll(p) ==
  /\ epc = "poll" /\ truth[p]["fatal"] = 0 /\ EventsTaken < MaxEvents
  /\ \E outcome \in {"accepted", "fatal", "halted"} :
       truth' = [truth EXCEPT ![p]["last"] = @ + 1,
                              ![p]["fatal"] = IF outcome = "fatal" THEN 1 ELSE @,
                              ![p]["halted"] = IF outcome = "halted" THEN 1 ELSE @]
  /\ UNCHANGED <<epc, at, snap, todo, coll, ready, worker, backlog, server>>

\* A commit, here or in the next poll.
Commit(p) ==
  /\ epc = "poll" /\ truth[p]["durable"] < truth[p]["last"]
  /\ truth' = [truth EXCEPT ![p]["durable"] = truth[p]["last"]]
  /\ UNCHANGED <<epc, at, snap, todo, coll, ready, worker, backlog, server>>

\* Every thousand events, at the end of the load, and on every turn of the server.
Refresh ==
  /\ epc = "poll" /\ epc' = "gather"
  /\ UNCHANGED <<truth, at, snap, todo, coll, ready, worker, backlog, server>>

\* The end of the load, or a signal.
Finish ==
  /\ epc = "poll" /\ epc' = "stop"
  /\ UNCHANGED <<truth, at, snap, todo, coll, ready, worker, backlog, server>>

\* Mutant: stop wakes the worker without telling it to stop.
StopMut ==
  /\ epc = "stop" /\ running
  /\ epc' = "write"
  /\ UNCHANGED <<running, truth, at, snap, todo, coll, ready, listen, pipe, worker, backlog>>

\* stop takes running_ down, so that a second stop finds nothing to do.
Stop ==
  /\ epc = "stop" /\ running
  /\ running' = FALSE /\ epc' = "write"
  /\ UNCHANGED <<truth, at, snap, todo, coll, ready, listen, pipe, worker, backlog>>

StopIdle ==
  /\ epc = "stop" /\ ~running
  /\ listen' = FALSE /\ pipe' = Closed /\ epc' = "done"
  /\ UNCHANGED <<truth, at, snap, todo, coll, ready, running, worker, backlog>>

WritePipe ==
  /\ epc = "write" /\ epc' = "join"
  /\ pipe' = pipe + 1
  /\ UNCHANGED <<truth, at, snap, todo, coll, ready, running, listen, worker, backlog>>

\* Mutant: the descriptors go before the worker does.
JoinMut ==
  /\ epc = "join"
  /\ epc' = "close"
  /\ UNCHANGED <<truth, at, snap, todo, coll, ready, worker, backlog, server>>

Join ==
  /\ epc = "join" /\ wpc = "gone"
  /\ epc' = "close"
  /\ UNCHANGED <<truth, at, snap, todo, coll, ready, worker, backlog, server>>

Close ==
  /\ epc = "close" /\ epc' = "done"
  /\ listen' = FALSE /\ pipe' = Closed
  /\ UNCHANGED <<truth, at, snap, todo, coll, ready, running, worker, backlog>>

-----------------------------------------------------------------------------
(* The worker. *)

\* run_loop
Check ==
  /\ wpc = "check"
  /\ wpc' = IF running THEN "poll" ELSE "gone"
  /\ UNCHANGED <<engine, server, backlog, page, health, shown, known, answers>>

\* poll_once: the pipe is looked at first, and a byte in it ends the turn.
PollStop ==
  /\ wpc = "poll" /\ pipe > 0
  /\ pipe' = 0 /\ wpc' = "check"
  /\ UNCHANGED <<engine, running, listen, backlog, page, health, shown, known, answers>>

\* The 100 ms run out.
PollIdle ==
  /\ wpc = "poll" /\ pipe <= 0 /\ backlog = 0
  /\ wpc' = "check"
  /\ UNCHANGED <<engine, server, backlog, page, health, shown, known, answers>>

PollReady ==
  /\ wpc = "poll" /\ pipe <= 0 /\ backlog > 0
  /\ wpc' = "accept"
  /\ UNCHANGED <<engine, server, backlog, page, health, shown, known, answers>>

\* The accept loop goes on until nobody is waiting, whatever the pipe says.
Accept ==
  /\ wpc = "accept"
  /\ wpc' = IF backlog > 0 THEN "handle" ELSE "check"
  /\ backlog' = IF backlog > 0 THEN backlog - 1 ELSE 0
  /\ UNCHANGED <<engine, server, page, health, shown, known, answers>>

\* handle_connection, when nothing is sent within a second, the connection is lost, or
\* the answer (405, 404, /ready) takes nothing from the snapshots.
HandleSimple ==
  /\ wpc = "handle" /\ wpc' = "accept"
  /\ UNCHANGED <<engine, server, backlog, page, health, shown, known, answers>>

HandleMetrics ==
  /\ wpc = "handle" /\ wpc' = "render" /\ page' = MetricsPage
  /\ UNCHANGED <<engine, server, backlog, health, shown, known, answers>>

\* The partitions whose failure is in the collector: copied whole, not in progress.
Published == {p \in Partitions : Failed(coll[p]) /\ ~(epc = "copy" /\ at = p)}

HandleHealth ==
  /\ wpc = "handle" /\ wpc' = "scan" /\ page' = HealthScan
  /\ health' = TRUE /\ known' = Published
  /\ UNCHANGED <<engine, server, backlog, shown, answers>>

HandleStatus ==
  /\ wpc = "handle" /\ wpc' = "render" /\ page' = HealthScan \o StatusPage
  /\ UNCHANGED <<engine, server, backlog, health, shown, known, answers>>

\* One field of one partition; the text is sent once it is complete (send_all gives
\* up on a client that does not read).
Render ==
  /\ wpc = "render" /\ page # <<>>
  /\ LET p == Head(page)[1]  f == Head(page)[2]
     IN  shown' = [shown EXCEPT ![p][f] = coll[p][f]]
  /\ page' = Tail(page)
  /\ wpc' = IF Tail(page) = <<>> THEN "accept" ELSE "render"
  /\ UNCHANGED <<engine, server, backlog, health, known, answers>>

\* is_healthy returns at the first partition that failed.
Scan ==
  /\ wpc = "scan" /\ page # <<>>
  /\ health' = (coll[Head(page)[1]][Head(page)[2]] = 0)
  /\ page' = IF health' THEN Tail(page) ELSE <<>>
  /\ UNCHANGED <<engine, server, backlog, wpc, shown, known, answers>>

Answer ==
  /\ wpc = "scan" /\ page = <<>>
  /\ answers' = answers \cup {[ok |-> health, known |-> known]}
  /\ wpc' = "accept" /\ health' = TRUE /\ known' = {}
  /\ UNCHANGED <<engine, server, backlog, page, shown>>

\* A client connects while the port is open.  Nothing bounds how many do, in time.
Connect ==
  /\ listen /\ backlog < Backlog
  /\ backlog' = backlog + 1
  /\ UNCHANGED <<engine, server, worker>>

Engine ==
  \/ Start \/ StartFails \/ SetReady \/ Gather
  \/ \E f \in todo : Copy(f)
  \/ \E p \in Partitions : Poll(p) \/ Commit(p)
  \/ Refresh \/ Finish
  \/ Stop \/ StopIdle \/ WritePipe \/ Join \/ Close

Worker ==
  \/ Check \/ PollStop \/ PollIdle \/ PollReady \/ Accept
  \/ HandleSimple \/ HandleMetrics \/ HandleHealth \/ HandleStatus
  \/ Render \/ Scan \/ Answer

Next == Engine \/ Worker \/ Connect

\* Both threads run; nobody has to connect.
Spec == Init /\ [][Next]_vars /\ WF_vars(Engine) /\ WF_vars(Worker)

-----------------------------------------------------------------------------
\* What /healthz says holds although the snapshots change under it: ok only if no
\* failure had been copied when the request came, degraded only if some partition
\* really failed (is_healthy, update_partition).
HealthAnswersHold ==
  \A a \in answers : /\ a.ok => a.known = {}
                     /\ ~a.ok => \E p \in Partitions : Failed(truth[p])

\* None of these counters of a partition is ever shown with a smaller value than
\* before, to whoever asks and whatever is being copied meanwhile (Prometheus
\* counters never go back).  Those of update_ingress are not among them.
CountersNeverGoBack ==
  [][\A p \in Partitions, f \in Fields : shown'[p][f] >= shown[p][f]]_vars

\* stop closes the descriptors only after the worker is gone.
DescriptorsOutliveWorker ==
  wpc \in {"check", "poll", "accept", "handle", "render", "scan"} => listen /\ pipe # Closed

\* stop returns unless clients keep coming for ever: the worker leaves its poll,
\* finishes those who are waiting, and is joined.  The condition is needed, because
\* the accept loop looks neither at running_ nor at the pipe while it finds somebody.
StopReturnsOnceQuiet ==
  []<><<Connect>>_vars \/ (epc = "stop" ~> epc = "done")
=============================================================================
