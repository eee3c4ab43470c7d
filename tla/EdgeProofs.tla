----------------------------- MODULE EdgeProofs -----------------------------
(***************************************************************************)
(* Proofs about module Edge, for any number of partitions, events and      *)
(* connections: the metrics thread reads what the engine's thread is       *)
(* writing, and what it shows and answers holds all the same.              *)
(***************************************************************************)
EXTENDS Edge, SequenceTheorems, TLAPS

Counters == [Fields -> Nat]

Serving == {"check", "poll", "accept", "handle", "render", "scan"}

EdgeTypeOK ==
  /\ truth \in [Partitions -> Counters]
  /\ \A p \in Partitions : truth[p]["halted"] <= 1
  /\ coll \in [Partitions -> Counters]
  /\ shown \in [Partitions -> Counters]
  /\ snap \in Counters
  /\ at \in Partitions
  /\ todo \subseteq Fields
  /\ epc \in {"boot", "ready", "gather", "copy", "poll", "stop", "write", "join", "close", "done"}
  /\ wpc \in Serving \cup {"none", "gone"}
  /\ running \in BOOLEAN /\ listen \in BOOLEAN /\ health \in BOOLEAN
  /\ pipe \in Nat \cup {Closed}
  /\ page \in Seq(Partitions \X Fields)
  /\ known \subseteq Partitions

\* A value only moves from a partition to the snapshot, to the collector and to a
\* page, and on the way the later place never holds more than the earlier one.
Downstream ==
  /\ \A p \in Partitions, f \in Fields : shown[p][f] <= coll[p][f] /\ coll[p][f] <= truth[p][f]
  /\ epc = "copy" => \A f \in Fields : coll[at][f] <= snap[f] /\ snap[f] <= truth[at][f]

\* The life of the worker: it runs from start until running_ is down, and stop goes
\* on to close the descriptors only when it is gone.
Lives ==
  /\ epc = "boot" => wpc = "none"
  /\ epc \in {"ready", "gather", "copy", "poll", "stop"} /\ wpc # "none" => running
  /\ wpc = "none" => ~running
  /\ epc = "close" => wpc = "gone"
  /\ epc = "done" => wpc \in {"none", "gone"}
  /\ wpc \in Serving => listen /\ pipe \in Nat

\* While /healthz goes through the partitions, each failure known when the request
\* came is still ahead, unless one was found.
Ahead ==
  wpc = "scan" =>
    /\ \A i \in 1 .. Len(page) : page[i][2] \in {"halted", "fatal"}
    /\ health => \A p \in known : \E i \in 1 .. Len(page) :
                   page[i][1] = p /\ coll[p][page[i][2]] > 0
    /\ ~health => page = <<>> /\ \E p \in Partitions : Failed(truth[p])

EInv == EdgeTypeOK /\ Downstream /\ Lives /\ Ahead /\ HealthAnswersHold

-----------------------------------------------------------------------------
\* Going through n things for each of m others, the k-th is a pair of both.
LEMMA Grid ==
  ASSUME NEW n \in Nat \ {0}, NEW m \in Nat, NEW k \in 1 .. n * m
  PROVE  (k - 1) % n \in 0 .. n - 1 /\ (k - 1) \div n \in 0 .. m - 1
<1> DEFINE q == (k - 1) \div n
           r == (k - 1) % n
<1>1. q \in Int /\ r \in 0 .. n - 1
  OBVIOUS
<1>2. k - 1 = n * q + r
  OBVIOUS
<1> HIDE DEF q, r
<1>3. q >= 0
  BY <1>1, <1>2
<1>4. q < m
  BY <1>1, <1>2
<1> QED  BY <1>1, <1>3, <1>4 DEF q, r

\* A page that goes through all partitions for each of the metrics in turn.
LEMMA PageByMetric ==
  ASSUME NEW m \in Nat, NEW metrics \in Seq(Fields), Len(metrics) = m
  PROVE  [k \in 1 .. N * m |-> <<(k - 1) % N, metrics[((k - 1) \div N) + 1]>>]
           \in Seq(Partitions \X Fields)
<1> USE EdgeAssumption
<1>1. ASSUME NEW k \in 1 .. N * m
      PROVE  (k - 1) % N \in Partitions /\ metrics[((k - 1) \div N) + 1] \in Fields
  <2>1. (k - 1) % N \in 0 .. N - 1 /\ (k - 1) \div N \in 0 .. m - 1
    BY Grid
  <2>2. ((k - 1) \div N) + 1 \in 1 .. Len(metrics)
    BY <2>1
  <2> QED  BY <2>1, <2>2, ElementOfSeq DEF Partitions
<1>2. N * m \in Nat
  OBVIOUS
<1> QED  BY <1>1, <1>2

\* The pages name partitions and fields; that of is_healthy has both fields of each.
LEMMA PagesTyped ==
  /\ MetricsPage \in Seq(Partitions \X Fields)
  /\ StatusPage \in Seq(Partitions \X Fields)
  /\ HealthScan \in Seq(Partitions \X Fields)
<1> USE EdgeAssumption
<1>1. HealthScan \in Seq(Partitions \X Fields)
  <2>1. \A k \in 1 .. 2 * N : (k - 1) \div 2 \in 0 .. N - 1
    OBVIOUS
  <2> QED  BY <2>1 DEF HealthScan, Partitions, Fields
<1>2. MetricsPage \in Seq(Partitions \X Fields)
  <2> DEFINE fields == EventsSection \o LsnSection \o StateSection \o IoSection
  <2>1. fields \in Seq(Fields) /\ Len(fields) = 8
    BY DEF EventsSection, LsnSection, StateSection, IoSection, Fields
  <2>2. MetricsPage = [k \in 1 .. N * 8 |-> <<(k - 1) % N, fields[((k - 1) \div N) + 1]>>]
    BY <2>1 DEF MetricsPage
  <2> HIDE DEF fields
  <2> QED  BY <2>1, <2>2, PageByMetric
<1>3. StatusPage \in Seq(Partitions \X Fields)
  <2> DEFINE read == <<"halted", "durable", "last", "fatal">>
  <2>1. read \in Seq(Fields) /\ Len(read) = 4
    BY DEF Fields
  <2>2. \A k \in 1 .. N * 4 : (k - 1) % 4 \in 0 .. 3 /\ (k - 1) \div 4 \in 0 .. N - 1
    OBVIOUS
  <2>3. \A k \in 1 .. N * 4 : read[((k - 1) % 4) + 1] \in Fields
    BY <2>1, <2>2, ElementOfSeq
  <2>4. StatusPage = [k \in 1 .. N * 4 |-> <<(k - 1) \div 4, read[((k - 1) % 4) + 1]>>]
    BY <2>1 DEF StatusPage
  <2> HIDE DEF read
  <2>5. N * 4 \in Nat
    OBVIOUS
  <2> QED  BY <2>2, <2>3, <2>4, <2>5 DEF Partitions
<1> QED  BY <1>1, <1>2, <1>3

\* Every partition has its place in what is_healthy reads, with both its fields.
LEMMA ScanCoversAll ==
  ASSUME NEW p \in Partitions, NEW f \in {"halted", "fatal"}
  PROVE  \E i \in 1 .. Len(HealthScan) : HealthScan[i] = <<p, f>>
<1> USE EdgeAssumption
<1>0. /\ Len(HealthScan) = 2 * N
      /\ \A i \in 1 .. 2 * N : HealthScan[i] = <<(i - 1) \div 2, IF i % 2 = 1 THEN "halted" ELSE "fatal">>
  <2>1. 2 * N \in Nat
    OBVIOUS
  <2> QED  BY <2>1 DEF HealthScan
<1>1. \E i \in 1 .. 2 * N : (i - 1) \div 2 = p /\ i % 2 = 1
  <2>1. 2 * p + 1 \in 1 .. 2 * N /\ ((2 * p + 1) - 1) \div 2 = p /\ (2 * p + 1) % 2 = 1
    BY DEF Partitions
  <2> USE <2>1
  <2> WITNESS 2 * p + 1 \in 1 .. 2 * N
  <2> QED  BY <2>1
<1>2. \E i \in 1 .. 2 * N : (i - 1) \div 2 = p /\ i % 2 # 1
  <2>1. 2 * p + 2 \in 1 .. 2 * N /\ ((2 * p + 2) - 1) \div 2 = p /\ (2 * p + 2) % 2 # 1
    BY DEF Partitions
  <2> USE <2>1
  <2> WITNESS 2 * p + 2 \in 1 .. 2 * N
  <2> QED  BY <2>1
<1>3. CASE f = "halted"
  <2>1. PICK i \in 1 .. 2 * N : (i - 1) \div 2 = p /\ i % 2 = 1
    BY <1>1
  <2>2. HealthScan[i] = <<p, "halted">>
    BY <1>0, <2>1
  <2> QED  BY <1>0, <1>3, <2>2
<1>4. CASE f = "fatal"
  <2>1. PICK i \in 1 .. 2 * N : (i - 1) \div 2 = p /\ i % 2 # 1
    BY <1>2
  <2>2. HealthScan[i] = <<p, "fatal">>
    BY <1>0, <2>1
  <2> QED  BY <1>0, <1>4, <2>2
<1> QED  BY <1>3, <1>4

-----------------------------------------------------------------------------
\* Nothing is collected, shown or asked at first, and there is no worker.
LEMMA EdgeInit == Init => EInv
<1> SUFFICES ASSUME Init  PROVE EInv
  OBVIOUS
<1> USE EdgeAssumption DEF Init
<1>1. Zero \in Counters /\ 0 \in Partitions
  BY DEF Zero, Counters, Partitions
<1>2. EdgeTypeOK
  <2>1. \A p \in Partitions : truth[p]["halted"] <= 1
    BY DEF Zero, Fields
  <2> QED  BY <1>1, <2>1 DEF EdgeTypeOK, Serving, Closed
<1>3. Downstream
  BY DEF Downstream, Zero
<1>4. Lives /\ Ahead /\ HealthAnswersHold
  BY DEF Lives, Ahead, HealthAnswersHold, Serving
<1> QED  BY <1>2, <1>3, <1>4 DEF EInv

\* The answers that were right stay right: a partition that failed has failed for good.
LEMMA AnswersStay ==
  ASSUME EInv, answers' = answers,
         \A p \in Partitions : Failed(truth[p]) => Failed(truth'[p])
  PROVE  HealthAnswersHold'
  BY DEF EInv, HealthAnswersHold

\* What is ahead of /healthz stays there while counters only grow under it.
LEMMA AheadStays ==
  ASSUME EInv, UNCHANGED <<wpc, page, health, known>>,
         \A p \in Partitions, f \in Fields : coll'[p][f] \in Nat /\ coll'[p][f] >= coll[p][f],
         \A p \in Partitions : Failed(truth[p]) => Failed(truth'[p])
  PROVE  Ahead'
<1> SUFFICES ASSUME wpc = "scan"  PROVE Ahead'
  BY DEF Ahead
<1>1. Ahead /\ EdgeTypeOK
  BY DEF EInv
<1>2. ASSUME health, NEW p \in known
      PROVE  \E i \in 1 .. Len(page) : page[i][1] = p /\ coll'[p][page[i][2]] > 0
  <2>1. PICK i \in 1 .. Len(page) : page[i][1] = p /\ coll[p][page[i][2]] > 0
    BY <1>1, <1>2 DEF Ahead
  <2>2. p \in Partitions /\ page[i][2] \in Fields
    BY <1>1, ElementOfSeq DEF EdgeTypeOK
  <2>3. coll[p][page[i][2]] \in Nat
    BY <1>1, <2>2 DEF EdgeTypeOK, Counters
  <2> QED  BY <2>1, <2>2, <2>3
<1>3. ASSUME ~health  PROVE page = <<>> /\ \E p \in Partitions : Failed(truth'[p])
  BY <1>1, <1>3 DEF Ahead
<1> QED  BY <1>1, <1>2, <1>3 DEF Ahead

\* What a page still has to read names a partition and a field.
LEMMA HeadOfPage ==
  ASSUME EdgeTypeOK, page # <<>>
  PROVE  Head(page)[1] \in Partitions /\ Head(page)[2] \in Fields
  BY HeadTailProperties DEF EdgeTypeOK

\* Every step of the engine, the worker or a client keeps the invariant.
LEMMA EdgeNext == EInv /\ [Next]_vars => EInv'
<1> SUFFICES ASSUME EInv, [Next]_vars  PROVE EInv'
  OBVIOUS
<1> USE EdgeAssumption DEF engine, worker, server
<1>0. EdgeTypeOK /\ Downstream /\ Lives /\ Ahead /\ HealthAnswersHold
  BY DEF EInv
<1>1. CASE Start
  <2> USE <1>0, <1>1 DEF Start
  <2>1. EdgeTypeOK' /\ Downstream'
    BY DEF EdgeTypeOK, Downstream, Serving
  <2>2. Lives' /\ Ahead'
    BY DEF Lives, Ahead, Serving
  <2> QED  BY <2>1, <2>2, AnswersStay DEF EInv
<1>2. CASE StartFails \/ SetReady \/ Refresh \/ Finish
  <2> USE <1>0, <1>2 DEF StartFails, SetReady, Refresh, Finish
  <2>0. /\ UNCHANGED <<truth, coll, shown, snap, todo, wpc, running, listen, health, pipe, page, known>>
        /\ at' \in Partitions /\ epc' \in {"ready", "gather", "stop"}
    BY DEF EdgeTypeOK, Partitions
  <2>1. EdgeTypeOK'
    BY <2>0 DEF EdgeTypeOK
  <2>3. Downstream'
    BY DEF Downstream
  <2>2. Lives' /\ Ahead'
    BY DEF Lives, Ahead, Serving
  <2> QED  BY <2>1, <2>2, <2>3, AnswersStay DEF EInv
<1>3. CASE Gather
  <2> USE <1>0, <1>3 DEF Gather
  <2>1. EdgeTypeOK'
    BY DEF EdgeTypeOK
  <2>2. Downstream'
    BY DEF EdgeTypeOK, Downstream, Counters
  <2>3. Lives' /\ Ahead'
    BY DEF Lives, Ahead, Serving
  <2> QED  BY <2>1, <2>2, <2>3, AnswersStay DEF EInv
<1>4. ASSUME NEW f \in todo, Copy(f)  PROVE EInv'
  <2>0. f \in Fields
    BY <1>0 DEF EdgeTypeOK
  <2>1. /\ UNCHANGED <<truth, shown, snap, wpc, running, listen, health, pipe, page, known, answers>>
        /\ coll' = [coll EXCEPT ![at][f] = snap[f]] /\ todo' = todo \ {f} /\ epc = "copy"
        /\ epc' \in {"copy", "gather", "poll"} /\ (epc' = "copy" => at' = at)
        /\ at' \in {at, (at + 1) % N}
    BY <1>4, Zenon DEF Copy
  <2>2. at' \in Partitions
    BY <1>0, <2>1 DEF EdgeTypeOK, Partitions
  <2>3. EdgeTypeOK'
    BY <1>0, <2>0, <2>1, <2>2 DEF EdgeTypeOK, Counters
  <2>4. \A q \in Partitions, g \in Fields :
          coll'[q][g] = IF q = at /\ g = f THEN snap[f] ELSE coll[q][g]
    BY <1>0, <2>0, <2>1 DEF EdgeTypeOK, Counters
  <2>5. \A q \in Partitions, g \in Fields : coll[q][g] <= coll'[q][g] /\ coll'[q][g] <= truth[q][g]
    BY <1>0, <2>0, <2>1, <2>4, SMTT(40) DEF EdgeTypeOK, Counters, Downstream
  <2>6. Downstream'
    <3>1. \A q \in Partitions, g \in Fields :
            shown[q][g] \in Nat /\ coll[q][g] \in Nat /\ coll'[q][g] \in Nat
      BY <1>0, <2>3 DEF EdgeTypeOK, Counters
    <3>2. \A q \in Partitions, g \in Fields : shown'[q][g] <= coll'[q][g] /\ coll'[q][g] <= truth'[q][g]
      BY <1>0, <2>1, <2>5, <3>1 DEF Downstream
    <3>3. ASSUME epc' = "copy", NEW g \in Fields
          PROVE  coll'[at'][g] <= snap'[g] /\ snap'[g] <= truth'[at'][g]
      BY <1>0, <2>1, <2>4, <3>3 DEF EdgeTypeOK, Counters, Downstream
    <3> QED  BY <3>2, <3>3 DEF Downstream
  <2>7. Lives'
    BY <1>0, <2>1 DEF Lives
  <2>8. Ahead'
    BY <2>1, <2>3, <2>5, AheadStays, SMTT(40) DEF EdgeTypeOK, Counters
  <2> QED  BY <2>1, <2>3, <2>6, <2>7, <2>8, AnswersStay DEF EInv
<1>5. CASE Stop \/ StopIdle \/ WritePipe \/ Join \/ Close
  <2> USE <1>0, <1>5 DEF Stop, StopIdle, WritePipe, Join, Close
  <2>0. /\ UNCHANGED <<truth, coll, shown, snap, todo, at, wpc, health, page, known>>
        /\ epc' \in {"write", "join", "close", "done"}
        /\ running' \in BOOLEAN /\ listen' \in BOOLEAN
    BY Zenon DEF EdgeTypeOK
  <2>4. pipe' \in Nat \cup {Closed}
    <3>1. pipe' \in {pipe, pipe + 1, Closed}
      BY Zenon
    <3> QED  BY <3>1 DEF EdgeTypeOK, Closed
  <2>1. EdgeTypeOK'
    BY <2>0, <2>4 DEF EdgeTypeOK
  <2>3. Downstream'
    BY DEF Downstream
  <2>2. Lives' /\ Ahead'
    BY DEF EdgeTypeOK, Lives, Ahead, Serving
  <2> QED  BY <2>1, <2>2, <2>3, AnswersStay DEF EInv
<1>6. CASE Check \/ PollStop \/ PollIdle \/ PollReady \/ Accept \/ HandleSimple \/ Connect
  <2> USE <1>0, <1>6 DEF Check, PollStop, PollIdle, PollReady, Accept, HandleSimple, Connect
  <2>0. /\ UNCHANGED <<truth, coll, shown, snap, todo, at, epc, running, listen, health, page, known>>
        /\ wpc' \in Serving \cup {"none", "gone"} /\ pipe' \in Nat \cup {Closed}
    BY DEF EdgeTypeOK, Serving, Closed
  <2>1. EdgeTypeOK'
    BY <2>0 DEF EdgeTypeOK
  <2>3. Downstream'
    BY DEF Downstream
  <2>2. Lives' /\ Ahead'
    BY DEF EdgeTypeOK, Lives, Ahead, Serving
  <2> QED  BY <2>1, <2>2, <2>3, AnswersStay DEF EInv
<1>7. CASE HandleMetrics \/ HandleStatus
  <2> USE <1>0, <1>7, PagesTyped DEF HandleMetrics, HandleStatus
  <2>0. /\ UNCHANGED <<truth, coll, shown, snap, todo, at, epc, running, listen, health, pipe, known>>
        /\ wpc' = "render" /\ page' \in {MetricsPage, HealthScan \o StatusPage}
    BY Zenon
  <2>4. page' \in Seq(Partitions \X Fields)
    BY <2>0, ConcatProperties
  <2>1. EdgeTypeOK'
    BY <2>0, <2>4 DEF EdgeTypeOK, Serving
  <2>3. Downstream'
    BY DEF Downstream
  <2>2. Lives' /\ Ahead'
    BY DEF Lives, Ahead, Serving
  <2> QED  BY <2>1, <2>2, <2>3, AnswersStay DEF EInv
<1>8. ASSUME NEW p \in Partitions, Poll(p) \/ Commit(p)  PROVE EInv'
  <2>1. UNCHANGED <<epc, at, snap, todo, coll, shown, wpc, running, listen, health, pipe, page, known, answers>>
        /\ epc = "poll"
    BY <1>8, Zenon DEF Poll, Commit
  <2>2. /\ truth' \in [Partitions -> Counters]
        /\ \A q \in Partitions : truth'[q]["halted"] <= 1
        /\ \A q \in Partitions, g \in Fields : truth[q][g] <= truth'[q][g]
    <3>0. /\ truth \in [Partitions -> Counters] /\ truth[p] \in [Fields -> Nat]
          /\ truth[p]["halted"] \in Nat /\ truth[p]["halted"] <= 1
          /\ truth[p]["last"] \in Nat /\ truth[p]["fatal"] \in Nat /\ truth[p]["durable"] \in Nat
      <4>1. truth \in [Partitions -> Counters] /\ truth[p]["halted"] <= 1
        BY <1>0 DEF EdgeTypeOK
      <4>2. truth[p] \in [Fields -> Nat]
        BY <4>1 DEF Counters
      <4> QED  BY <4>1, <4>2 DEF Fields
    <3>1. PICK v \in [Fields -> Nat] : /\ truth' = [truth EXCEPT ![p] = v]
                                       /\ v["halted"] <= 1
                                       /\ \A g \in Fields : truth[p][g] <= v[g]
      <4>1. CASE Poll(p)
        <5>1. PICK outcome \in {"accepted", "fatal", "halted"} :
                truth' = [truth EXCEPT ![p]["last"] = @ + 1,
                                       ![p]["fatal"] = IF outcome = "fatal" THEN 1 ELSE @,
                                       ![p]["halted"] = IF outcome = "halted" THEN 1 ELSE @]
          BY <4>1 DEF Poll
        <5>2. truth[p]["fatal"] = 0
          BY <4>1 DEF Poll
        <5> DEFINE v == [truth[p] EXCEPT !["last"] = @ + 1,
                                         !["fatal"] = IF outcome = "fatal" THEN 1 ELSE @,
                                         !["halted"] = IF outcome = "halted" THEN 1 ELSE @]
        <5>3. truth' = [truth EXCEPT ![p] = v]
          BY <3>0, <5>1
        <5>4. v \in [Fields -> Nat]
          <6>1. \A g \in Fields : v[g] \in Nat
            BY <3>0 DEF Fields
          <6>2. v = [g \in Fields |-> v[g]]
            BY <3>0
          <6> HIDE DEF v
          <6> QED  BY <6>1, <6>2
        <5>5. /\ v["last"] = truth[p]["last"] + 1 /\ v["durable"] = truth[p]["durable"]
              /\ v["fatal"] \in {0, 1} /\ v["halted"] \in {1, truth[p]["halted"]}
          BY <3>0, <5>2 DEF Fields
        <5> HIDE DEF v
        <5>6. v["halted"] <= 1 /\ \A g \in Fields : truth[p][g] <= v[g]
          BY <3>0, <5>2, <5>5 DEF Fields
        <5> QED  BY <5>3, <5>4, <5>6
      <4>2. CASE Commit(p)
        <5> DEFINE v == [truth[p] EXCEPT !["durable"] = truth[p]["last"]]
        <5>1. truth' = [truth EXCEPT ![p] = v] /\ truth[p]["durable"] < truth[p]["last"]
          BY <4>2, <3>0 DEF Commit
        <5>2. v \in [Fields -> Nat] /\ v["halted"] <= 1 /\ \A g \in Fields : truth[p][g] <= v[g]
          BY <3>0, <5>1 DEF Fields
        <5> QED  BY <5>1, <5>2
      <4> QED  BY <1>8, <4>1, <4>2
    <3>2. \A q \in Partitions : truth'[q] = IF q = p THEN v ELSE truth[q]
      BY <3>0, <3>1
    <3>3. \A q \in Partitions, g \in Fields : truth[q][g] \in Nat
      BY <3>0 DEF Counters
    <3>4. truth' \in [Partitions -> Counters]
      BY <3>0, <3>1 DEF Counters
    <3>5. \A q \in Partitions : truth'[q]["halted"] <= 1
      BY <1>0, <3>1, <3>2 DEF EdgeTypeOK
    <3>6. \A q \in Partitions, g \in Fields : truth[q][g] <= truth'[q][g]
      BY <3>1, <3>2, <3>3
    <3> QED  BY <3>4, <3>5, <3>6
  <2>3. EdgeTypeOK'
    BY <1>0, <2>1, <2>2 DEF EdgeTypeOK
  <2>4. Downstream'
    <3>1. \A q \in Partitions, g \in Fields : coll[q][g] \in Nat /\ truth[q][g] \in Nat /\ truth'[q][g] \in Nat
      BY <1>0, <2>2 DEF EdgeTypeOK, Counters
    <3> QED  BY <1>0, <2>1, <2>2, <3>1 DEF Downstream
  <2>5. \A q \in Partitions : Failed(truth[q]) => Failed(truth'[q])
    <3>1. \A q \in Partitions, g \in Fields : truth[q][g] \in Nat /\ truth'[q][g] \in Nat
      BY <1>0, <2>2 DEF EdgeTypeOK, Counters
    <3>2. "halted" \in Fields /\ "fatal" \in Fields
      BY DEF Fields
    <3> QED  BY <2>2, <3>1, <3>2 DEF Failed
  <2>6. Lives'
    BY <1>0, <2>1 DEF Lives
  <2>7. Ahead'
    BY <1>0, <2>1, <2>5, AheadStays DEF EdgeTypeOK, Counters
  <2> QED  BY <2>1, <2>3, <2>4, <2>5, <2>6, <2>7, AnswersStay DEF EInv
<1>9. CASE HandleHealth
  <2>1. /\ UNCHANGED <<truth, epc, at, snap, todo, coll, shown, running, listen, pipe, answers>>
        /\ wpc = "handle" /\ wpc' = "scan" /\ page' = HealthScan /\ health' = TRUE /\ known' = Published
    BY <1>9 DEF HandleHealth
  <2>2. EdgeTypeOK'
    BY <1>0, <2>1, PagesTyped DEF EdgeTypeOK, Serving, Published
  <2>3. Downstream' /\ Lives'
    BY <1>0, <2>1 DEF Downstream, Lives, Serving
  <2>4. \A i \in 1 .. Len(HealthScan) : HealthScan[i][2] \in {"halted", "fatal"}
    <3>1. 2 * N \in Nat
      OBVIOUS
    <3> QED  BY <3>1 DEF HealthScan
  <2>5. ASSUME NEW p \in Published
        PROVE  \E i \in 1 .. Len(HealthScan) : HealthScan[i][1] = p /\ coll[p][HealthScan[i][2]] > 0
    <3>1. PICK f \in {"halted", "fatal"} : coll[p][f] > 0
      BY <2>5 DEF Published, Failed
    <3>2. p \in Partitions
      BY <2>5 DEF Published
    <3>3. PICK i \in 1 .. Len(HealthScan) : HealthScan[i] = <<p, f>>
      BY <3>2, ScanCoversAll
    <3> QED  BY <3>1, <3>3
  <2>6. Ahead'
    BY <2>1, <2>4, <2>5 DEF Ahead
  <2> QED  BY <2>1, <2>2, <2>3, <2>6, AnswersStay DEF EInv
<1>10. CASE Render
  <2>0. /\ UNCHANGED <<truth, epc, at, snap, todo, coll, running, listen, health, pipe, known, answers>>
        /\ wpc = "render" /\ wpc' \in {"accept", "render"} /\ page # <<>> /\ page' = Tail(page)
    BY <1>10, Zenon DEF Render
  <2>1. PICK p \in Partitions, f \in Fields : shown' = [shown EXCEPT ![p][f] = coll[p][f]]
    BY <1>10, HeadOfPage DEF Render, EInv
  <2>2. /\ shown' \in [Partitions -> Counters] /\ page' \in Seq(Partitions \X Fields)
        /\ \A q \in Partitions, g \in Fields :
             shown'[q][g] = IF q = p /\ g = f THEN coll[p][f] ELSE shown[q][g]
    <3>1. shown \in [Partitions -> Counters] /\ coll \in [Partitions -> Counters]
      BY <1>0 DEF EdgeTypeOK
    <3>2. page' \in Seq(Partitions \X Fields)
      BY <1>0, <2>0, HeadTailProperties DEF EdgeTypeOK
    <3> QED  BY <2>1, <3>1, <3>2 DEF Counters
  <2>3. EdgeTypeOK'
    BY <1>0, <2>0, <2>2 DEF EdgeTypeOK, Serving
  <2>4. Downstream'
    <3>1. \A q \in Partitions, g \in Fields : coll[q][g] \in Nat
      BY <1>0 DEF EdgeTypeOK, Counters
    <3> QED  BY <1>0, <2>0, <2>2, <3>1 DEF Downstream
  <2>5. Lives' /\ Ahead'
    BY <1>0, <2>0 DEF Lives, Ahead, Serving
  <2> QED  BY <2>0, <2>3, <2>4, <2>5, AnswersStay DEF EInv
<1>11. CASE Scan
  <2>0. /\ UNCHANGED <<truth, epc, at, snap, todo, coll, running, listen, pipe, wpc, shown, known, answers>>
        /\ wpc = "scan" /\ page # <<>>
        /\ health' = (coll[Head(page)[1]][Head(page)[2]] = 0)
        /\ page' = IF health' THEN Tail(page) ELSE <<>>
    BY <1>11, Zenon DEF Scan
  <2>1. /\ page \in Seq(Partitions \X Fields) /\ Tail(page) \in Seq(Partitions \X Fields)
        /\ Len(page) \in Nat \ {0} /\ Len(Tail(page)) = Len(page) - 1 /\ Head(page) = page[1]
        /\ \A i \in 1 .. Len(page) - 1 : Tail(page)[i] = page[i + 1]
    BY <1>0, <2>0, HeadTailProperties, EmptySeq, LenProperties DEF EdgeTypeOK
  <2>2. health
    BY <1>0, <2>0 DEF Ahead
  <2>3. EdgeTypeOK'
    <3>1. page' \in Seq(Partitions \X Fields) /\ health' \in BOOLEAN
      BY <2>0, <2>1
    <3> QED  BY <1>0, <2>0, <3>1 DEF EdgeTypeOK
  <2>4. Downstream' /\ Lives'
    BY <1>0, <2>0 DEF Downstream, Lives
  <2>5. CASE health'
    <3>1. page' = Tail(page) /\ coll[page[1][1]][page[1][2]] = 0
      BY <2>0, <2>1, <2>5
    <3>2. \A i \in 1 .. Len(page') : i + 1 \in 1 .. Len(page) /\ page'[i] = page[i + 1]
      BY <2>1, <3>1
    <3>3. \A i \in 1 .. Len(page') : page'[i][2] \in {"halted", "fatal"}
      BY <1>0, <2>0, <3>2 DEF Ahead
    <3>4. ASSUME NEW p \in known
          PROVE  \E i \in 1 .. Len(page') : page'[i][1] = p /\ coll[p][page'[i][2]] > 0
      <4>1. PICK i \in 1 .. Len(page) : page[i][1] = p /\ coll[p][page[i][2]] > 0
        BY <1>0, <2>0, <2>2 DEF Ahead
      <4>2. i # 1
        BY <3>1, <4>1
      <4>3. i - 1 \in 1 .. Len(page') /\ page'[i - 1] = page[i]
        BY <2>1, <3>1, <4>2
      <4> QED  BY <4>1, <4>3
    <3>5. Ahead'
      BY <2>0, <2>5, <3>3, <3>4 DEF Ahead
    <3> QED  BY <2>0, <2>3, <2>4, <3>5, AnswersStay DEF EInv
  <2>6. CASE ~health'
    <3>1. page' = <<>> /\ coll[page[1][1]][page[1][2]] # 0
      BY <2>0, <2>1, <2>6
    <3>2. page[1][1] \in Partitions /\ page[1][2] \in {"halted", "fatal"}
      BY <1>0, <2>0, <2>1 DEF Ahead
    <3>3. Failed(truth[page[1][1]])
      <4>1. \A p \in Partitions, f \in {"halted", "fatal"} :
              coll[p][f] \in Nat /\ truth[p][f] \in Nat /\ coll[p][f] <= truth[p][f]
        <5>1. {"halted", "fatal"} \subseteq Fields
          BY DEF Fields
        <5> QED  BY <1>0, <5>1, SMTT(40) DEF EdgeTypeOK, Downstream, Counters
      <4> QED  BY <3>1, <3>2, <4>1 DEF Failed
    <3>4. Ahead'
      BY <2>0, <2>6, <3>1, <3>2, <3>3 DEF Ahead
    <3> QED  BY <2>0, <2>3, <2>4, <3>4, AnswersStay DEF EInv
  <2> QED  BY <2>5, <2>6
<1>12. CASE Answer
  <2>0. /\ UNCHANGED <<truth, epc, at, snap, todo, coll, running, listen, pipe, shown, page>>
        /\ wpc = "scan" /\ wpc' = "accept" /\ page = <<>> /\ health' = TRUE /\ known' = {}
        /\ answers' = answers \cup {[ok |-> health, known |-> known]}
    BY <1>12 DEF Answer
  <2>1. EdgeTypeOK'
    BY <1>0, <2>0 DEF EdgeTypeOK, Serving
  <2>2. Downstream' /\ Lives' /\ Ahead'
    BY <1>0, <2>0 DEF Downstream, Lives, Ahead, Serving
  <2>3. health => known = {}
    BY <1>0, <2>0 DEF Ahead
  <2>4. ~health => \E p \in Partitions : Failed(truth[p])
    BY <1>0, <2>0 DEF Ahead
  <2>5. HealthAnswersHold'
    BY <1>0, <2>0, <2>3, <2>4 DEF HealthAnswersHold
  <2> QED  BY <2>1, <2>2, <2>5 DEF EInv
<1>13. CASE UNCHANGED vars
  <2>1. EdgeTypeOK' /\ Downstream' /\ Lives'
    BY <1>0, <1>13 DEF vars, EdgeTypeOK, Downstream, Lives
  <2>2. Ahead' /\ HealthAnswersHold'
    BY <1>0, <1>13 DEF vars, Ahead, HealthAnswersHold
  <2> QED  BY <2>1, <2>2 DEF EInv
<1> QED
  BY <1>1, <1>2, <1>3, <1>4, <1>5, <1>6, <1>7, <1>8, <1>9, <1>10, <1>11, <1>12, <1>13
     DEF Next, Engine, Worker

\* The inductive invariant of the metrics server and the engine beside it.
THEOREM SpecEInv == Spec => []EInv
  BY EdgeInit, EdgeNext, PTL DEF Spec

\* /healthz says ok only if no failure had been copied when it was asked, and degraded
\* only if a partition really failed, whatever the engine copies meanwhile.
THEOREM EdgeHealthAnswers == Spec => []HealthAnswersHold
<1>1. EInv => HealthAnswersHold
  BY DEF EInv
<1> QED  BY <1>1, SpecEInv, PTL

\* stop closes the listening socket and the pipe only when the worker is gone.
THEOREM EdgeDescriptors == Spec => []DescriptorsOutliveWorker
<1>1. EInv => DescriptorsOutliveWorker
  <2> SUFFICES ASSUME EInv, wpc \in Serving  PROVE listen /\ pipe # Closed
    BY DEF DescriptorsOutliveWorker, Serving
  <2>1. listen /\ pipe \in Nat
    BY DEF EInv, Lives
  <2> QED  BY <2>1 DEF Closed
<1> QED  BY <1>1, SpecEInv, PTL

\* No scrape shows a counter smaller than an earlier one did, although the snapshots
\* are copied field by field while they are read.
THEOREM EdgeCounters == Spec => CountersNeverGoBack
<1>1. EInv /\ [Next]_vars => [\A p \in Partitions, f \in Fields : shown'[p][f] >= shown[p][f]]_vars
  <2> SUFFICES ASSUME EInv, [Next]_vars, NEW p \in Partitions, NEW f \in Fields
               PROVE  shown'[p][f] >= shown[p][f]
    OBVIOUS
  <2>1. /\ shown \in [Partitions -> Counters] /\ shown[p][f] \in Nat /\ coll[p][f] \in Nat
        /\ shown[p][f] <= coll[p][f]
    BY DEF EInv, EdgeTypeOK, Downstream, Counters
  <2>2. CASE Render
    <3>1. PICK q \in Partitions, g \in Fields : shown' = [shown EXCEPT ![q][g] = coll[q][g]]
      BY <2>2, HeadOfPage DEF Render, EInv
    <3> QED  BY <2>1, <3>1 DEF Counters
  <2>3. CASE shown' = shown
    BY <2>1, <2>3
  <2> QED
    BY <2>2, <2>3, Zenon
       DEF Next, Engine, Worker, vars, engine, worker, Start, StartFails, SetReady, Gather, Copy, Poll,
           Commit, Refresh, Finish, Stop, StopIdle, WritePipe, Join, Close, Check, PollStop,
           PollIdle, PollReady, Accept, HandleSimple, HandleMetrics, HandleHealth, HandleStatus,
           Scan, Answer, Connect
<1> QED  BY <1>1, SpecEInv, PTL DEF Spec, CountersNeverGoBack
=============================================================================
