--------------------------- MODULE PartitionProofs ---------------------------
(***************************************************************************)
(* Proofs about module Partition, for any log that keeps the contract of   *)
(* core::Journal, any outbox, inbox and batch size and any reservation.    *)
(* WalProofs shows that WalT is such a log.                                *)
(***************************************************************************)
EXTENDS Partition, SequenceTheorems, TLAPS

\* The gate: durable_lsn is a stored prefix of the log, and what left the outbox
\* is at or below it.
Gate ==
  /\ durable <= last
  /\ 1 .. durable \subseteq stable
  /\ \A i \in 1 .. released : entries[i].lsn <= durable

\* A fatal result freezes the outbox and ends the drain for good.
Frozen == parado => frozen /\ pc # "drain"

PInv == TypeOK /\ Gate /\ Frozen /\ FramesLoggedOnce

-----------------------------------------------------------------------------
\* The LSN of a released output is a number.
LEMMA EntryLsn ==
  ASSUME OutboxTypeOK, NEW i \in 1 .. released
  PROVE  i \in 1 .. Len(entries) /\ entries[i].lsn \in Nat
<1>1. entries \in Seq(EntryType) /\ Len(entries) \in Nat /\ released \in 0 .. Len(entries)
  BY LenProperties DEF OutboxTypeOK
<1>2. i \in 1 .. Len(entries)
  BY <1>1
<1>3. entries[i] \in EntryType
  BY <1>1, <1>2, ElementOfSeq
<1> QED  BY <1>2, <1>3 DEF EntryType

\* An output that stage accepts fits in the buffer where it is placed.
LEMMA PlaceFits ==
  ASSUME OutboxTypeOK, NEW len \in Nat, ~NoPlace(len)
  PROVE  Place(len) \in 0 .. BufCap /\ Place(len) + len \in 0 .. BufCap
<1> USE OutboxAssumption
<1>1. Len(entries) \in Nat /\ Count \in Nat /\ buf_head \in 0 .. BufCap /\ len <= BufCap
  BY LenProperties DEF OutboxTypeOK, NoPlace, Count
<1>2. CASE Count = 0
  BY <1>1, <1>2 DEF Place
<1>3. CASE Count > 0
  <2>1. released + 1 \in 1 .. Len(entries)
    BY <1>1, <1>3 DEF OutboxTypeOK, Count
  <2>2. entries[released + 1] \in EntryType
    BY <2>1, ElementOfSeq DEF OutboxTypeOK
  <2>3. Vivo \in 0 .. BufCap
    BY <2>2 DEF Vivo, EntryType
  <2>4. CASE buf_head >= Vivo /\ buf_head + len > BufCap
    BY <1>1, <1>3, <2>3, <2>4 DEF Place, NoPlace
  <2>5. CASE ~ (buf_head >= Vivo /\ buf_head + len > BufCap)
    <3>1. Place(len) = buf_head
      BY <1>1, <1>3, <2>5 DEF Place
    <3>2. buf_head + len <= BufCap
      BY <1>1, <1>3, <2>3, <2>5 DEF NoPlace
    <3> QED  BY <1>1, <3>1, <3>2
  <2> QED  BY <2>4, <2>5
<1> QED  BY <1>1, <1>2, <1>3

\* stage adds an entry at the end and touches no other.
LEMMA StageFacts ==
  ASSUME OutboxTypeOK, NEW lsn \in Nat, NEW len \in Nat, Stage(lsn, len)
  PROVE  /\ OutboxTypeOK' /\ released' = released /\ frozen' = frozen
         /\ released \in 0 .. Len(entries)
         /\ \A i \in 1 .. Len(entries) : entries'[i] = entries[i]
<1>1. Place(len) \in 0 .. BufCap /\ Place(len) + len \in 0 .. BufCap
  BY PlaceFits DEF Stage
<1>2. entries \in Seq(EntryType) /\ Len(entries) \in Nat /\ released \in 0 .. Len(entries)
  BY LenProperties DEF OutboxTypeOK
<1>3. [lsn |-> lsn, off |-> Place(len), len |-> len] \in EntryType
  BY <1>1 DEF EntryType
<1>4. /\ entries' \in Seq(EntryType) /\ Len(entries') = Len(entries) + 1
      /\ \A i \in 1 .. Len(entries) : entries'[i] = entries[i]
  BY <1>2, <1>3 DEF Stage
<1>5. released' = released /\ frozen' = frozen /\ released' \in 0 .. Len(entries')
  BY <1>2, <1>4 DEF Stage
<1>6. bytes' \in [0 .. BufCap - 1 -> Nat]
  BY <1>2 DEF Stage, OutboxTypeOK
<1>7. buf_head' \in 0 .. BufCap
  BY <1>1 DEF Stage
<1> QED  BY <1>2, <1>4, <1>5, <1>6, <1>7 DEF OutboxTypeOK

\* An append that succeeds: the frame at the head of the inbox gets the next LSN.
LEMMA LoggedFacts ==
  ASSUME PInv, CanDrain, Logged
  PROVE  /\ ~parado /\ popped + 1 \in 1 .. arrived
         /\ last' = last + 1 /\ last' \in Nat /\ UNCHANGED <<durable, stopped, stable>>
         /\ frame_of' \in Seq(Nat) /\ Len(frame_of') = popped + 1
         /\ \A i \in DOMAIN frame_of' : frame_of'[i] = i
<1>1. ~parado
  BY DEF PInv, Frozen, CanDrain
<1>2. popped + 1 \in 1 .. arrived /\ popped \in Nat /\ last \in Nat
  BY DEF CanDrain, PInv, TypeOK
<1>3. last' = last + 1 /\ UNCHANGED <<durable, stopped, stable>>
  BY DEF Logged, J!Append
<1>4. frame_of \in Seq(Nat) /\ Len(frame_of) = popped /\ \A i \in 1 .. popped : frame_of[i] = i
  BY <1>1, LenProperties DEF PInv, TypeOK, FramesLoggedOnce
<1>5. frame_of' = Append(frame_of, popped + 1)
  BY DEF Logged
<1>6. /\ frame_of' \in Seq(Nat) /\ Len(frame_of') = popped + 1
      /\ DOMAIN frame_of' = 1 .. popped + 1
      /\ \A i \in 1 .. popped : frame_of'[i] = frame_of[i]
      /\ frame_of'[popped + 1] = popped + 1
  BY <1>2, <1>4, <1>5
<1>7. \A i \in 1 .. popped + 1 : i \in 1 .. popped \/ i = popped + 1
  BY <1>2
<1> QED  BY <1>1, <1>2, <1>3, <1>4, <1>6, <1>7

\* What an accepted or rejected event does to the loop.
LEMMA ConsumeFacts ==
  ASSUME PInv, CanDrain, Logged, Consume
  PROVE  /\ popped' \in 0 .. arrived' /\ arrived' \in Nat /\ aplicados' \in 0 .. Batch
         /\ FramesLoggedOnce' /\ UNCHANGED <<pc, parado>>
<1>1. /\ ~parado /\ popped + 1 \in 1 .. arrived
      /\ Len(frame_of') = popped + 1
      /\ \A i \in DOMAIN frame_of' : frame_of'[i] = i
  BY LoggedFacts
<1>2. popped' = popped + 1 /\ aplicados' = aplicados + 1 /\ UNCHANGED <<arrived, pc, parado>>
  BY DEF Consume
<1>3. aplicados + 1 \in 0 .. Batch
  BY LoopAssumption DEF CanDrain, PInv, TypeOK
<1>4. popped' <= Len(frame_of') /\ popped' = Len(frame_of')
  BY <1>1, <1>2
<1> QED  BY <1>1, <1>2, <1>3, <1>4 DEF FramesLoggedOnce, PInv, TypeOK

-----------------------------------------------------------------------------
\* The partition starts with an empty outbox and a stored log.
LEMMA PartitionInit == Init => PInv
<1> SUFFICES ASSUME Init  PROVE PInv
  OBVIOUS
<1> USE OutboxAssumption, LoopAssumption
<1>1. /\ last \in Nat /\ durable = 0 /\ stopped = FALSE /\ stable = 1 .. last
      /\ arrived = 0 /\ popped = 0 /\ pc = "idle" /\ aplicados = 0
      /\ parado = FALSE /\ frame_of = <<>> /\ OutboxInit
  BY DEF Init
<1>2. OutboxTypeOK /\ released = 0
  BY <1>1 DEF OutboxInit, OutboxTypeOK
<1>3. TypeOK
  <2>1. frame_of \in Seq(Nat)
    BY <1>1
  <2>2. aplicados \in 0 .. Batch /\ popped \in 0 .. arrived /\ arrived \in Nat
    BY <1>1
  <2>3. pc \in {"idle", "drain", "submit", "reap", "publish"}
    BY <1>1
  <2>4. stopped \in BOOLEAN /\ parado \in BOOLEAN
    BY <1>1
  <2>5. last \in Nat /\ durable \in Nat /\ stable \in SUBSET Nat
    BY <1>1
  <2> QED  BY <1>2, <2>1, <2>2, <2>3, <2>4, <2>5 DEF TypeOK
<1>4. Gate
  BY <1>1, <1>2 DEF Gate
<1>5. Frozen /\ FramesLoggedOnce
  BY <1>1 DEF Frozen, FramesLoggedOnce
<1> QED  BY <1>3, <1>4, <1>5 DEF PInv

\* Every step of the loop, of the ingress and of the device keeps PInv.
LEMMA PartitionNext == PInv /\ [Next]_vars => PInv'
<1> SUFFICES ASSUME PInv, [Next]_vars  PROVE PInv'
  OBVIOUS
<1>0. TypeOK /\ Gate /\ Frozen /\ FramesLoggedOnce
  BY DEF PInv
<1>1. CASE Arrive
  <2>1. arrived' = arrived + 1
        /\ UNCHANGED <<last, durable, stopped, stable, popped, pc, aplicados, parado, frame_of,
                       entries, released, buf_head, bytes, frozen>>
    BY <1>1 DEF Arrive, journalVars, loopVars, outboxVars
  <2>2. popped' \in 0 .. arrived' /\ arrived' \in Nat
    BY <1>0, <2>1 DEF TypeOK
  <2> QED  BY <1>0, <2>1, <2>2 DEF PInv, TypeOK, OutboxTypeOK, Gate, Frozen, FramesLoggedOnce
<1>2. ASSUME NEW n \in 1 .. last, Store(n)  PROVE PInv'
  <2>1. stable' = stable \cup {n}
        /\ UNCHANGED <<last, durable, stopped, arrived, popped, pc, aplicados, parado, frame_of,
                       entries, released, buf_head, bytes, frozen>>
    BY <1>2 DEF Store, inboxVars, loopVars, outboxVars
  <2>2. stable' \in SUBSET Nat /\ stable \subseteq stable'
    BY <1>0, <2>1 DEF TypeOK
  <2>3. TypeOK'
    BY <1>0, <2>1, <2>2 DEF TypeOK, OutboxTypeOK
  <2>4. Gate'
    BY <1>0, <2>1, <2>2 DEF Gate
  <2> QED  BY <1>0, <2>1, <2>3, <2>4 DEF PInv, Frozen, FramesLoggedOnce
<1>3. ASSUME UNCHANGED <<last, durable, stopped, stable, arrived, popped, parado, frame_of,
                         entries, released, buf_head, bytes, frozen>>,
             pc' \in {"idle", "drain", "submit", "reap", "publish"},
             aplicados' \in 0 .. Batch, parado => pc' # "drain"
      PROVE  PInv'
  BY <1>0, <1>3 DEF PInv, TypeOK, OutboxTypeOK, Gate, Frozen, FramesLoggedOnce
<1>4. CASE Poll
  BY <1>0, <1>3, <1>4, LoopAssumption
     DEF Poll, journalVars, inboxVars, outboxVars, TypeOK
<1>5. CASE ForceCommit
  BY <1>0, <1>3, <1>5 DEF ForceCommit, journalVars, inboxVars, outboxVars, TypeOK
<1>6. CASE DrainEnd
  BY <1>0, <1>3, <1>6 DEF DrainEnd, journalVars, inboxVars, outboxVars, TypeOK
<1>7. ASSUME CanDrain, Logged, Consume, OutboxTypeOK', released' = released, frozen' = frozen,
             \A i \in 1 .. released : entries'[i] = entries[i]
      PROVE  PInv'
  <2>1. /\ ~parado /\ last' = last + 1 /\ last' \in Nat
        /\ UNCHANGED <<durable, stopped, stable>> /\ frame_of' \in Seq(Nat)
    BY <1>7, LoggedFacts
  <2>2. /\ popped' \in 0 .. arrived' /\ arrived' \in Nat /\ aplicados' \in 0 .. Batch
        /\ FramesLoggedOnce' /\ UNCHANGED <<pc, parado>>
    BY <1>7, ConsumeFacts
  <2>3. TypeOK'
    BY <1>0, <1>7, <2>1, <2>2 DEF TypeOK
  <2>4. Gate'
    <3>1. durable' <= last'
      BY <1>0, <2>1 DEF Gate, TypeOK
    <3>2. \A i \in 1 .. released' : entries'[i].lsn <= durable'
      BY <1>0, <1>7, <2>1 DEF Gate
    <3> QED  BY <1>0, <2>1, <3>1, <3>2 DEF Gate
  <2> QED  BY <2>1, <2>2, <2>3, <2>4 DEF PInv, Frozen
<1>8. CASE DrainQuiet
  <2>1. OutboxTypeOK' /\ UNCHANGED <<entries, released, frozen>>
    BY <1>0, <1>8 DEF DrainQuiet, outboxVars, TypeOK, OutboxTypeOK
  <2> QED  BY <1>7, <1>8, <2>1 DEF DrainQuiet
<1>9. ASSUME NEW len \in OutLens, DrainOutput(len)  PROVE PInv'
  <2>1. CanDrain /\ Logged /\ Consume /\ Stage(last', len)
    BY <1>9 DEF DrainOutput
  <2>2. last' \in Nat /\ len \in Nat
    BY <2>1, LoggedFacts, LoopAssumption
  <2>3. /\ OutboxTypeOK' /\ released' = released /\ frozen' = frozen
        /\ released \in 0 .. Len(entries)
        /\ \A i \in 1 .. Len(entries) : entries'[i] = entries[i]
    BY <1>0, <2>1, <2>2, StageFacts DEF TypeOK
  <2>4. Len(entries) \in Nat
    BY <1>0, LenProperties DEF TypeOK, OutboxTypeOK
  <2>5. \A i \in 1 .. released : i \in 1 .. Len(entries)
    BY <2>3, <2>4
  <2> QED  BY <1>7, <2>1, <2>3, <2>5
<1>10. CASE DrainFatal
  <2>1. /\ last' = last + 1 /\ last' \in Nat
        /\ UNCHANGED <<durable, stopped, stable>> /\ frame_of' \in Seq(Nat)
        /\ Len(frame_of') = popped + 1 /\ \A i \in DOMAIN frame_of' : frame_of'[i] = i
    BY <1>10, LoggedFacts DEF DrainFatal
  <2>2. /\ parado' = TRUE /\ frozen' = TRUE /\ pc' = "submit"
        /\ UNCHANGED <<arrived, popped, aplicados, entries, released, buf_head, bytes>>
    BY <1>10 DEF DrainFatal, Freeze, inboxVars
  <2>3. TypeOK'
    BY <1>0, <2>1, <2>2 DEF TypeOK, OutboxTypeOK
  <2>4. Gate'
    BY <1>0, <2>1, <2>2 DEF Gate, TypeOK
  <2>5. FramesLoggedOnce'
    BY <1>0, <2>1, <2>2 DEF FramesLoggedOnce, TypeOK
  <2> QED  BY <2>2, <2>3, <2>4, <2>5 DEF PInv, Frozen
<1>11. CASE Submit
  <2>1. /\ UNCHANGED <<last, durable, stable, arrived, popped, aplicados, parado, frame_of,
                       entries, released, buf_head, bytes, frozen>>
        /\ pc' = "reap"
    BY <1>11 DEF Submit, J!Halt, journalVars, inboxVars, outboxVars
  <2>2. stopped' \in BOOLEAN
    BY <1>0, <1>11 DEF Submit, J!Halt, journalVars, TypeOK
  <2> QED
    BY <1>0, <2>1, <2>2 DEF PInv, TypeOK, OutboxTypeOK, Gate, Frozen, FramesLoggedOnce
<1>12. CASE Reap
  <2>1. /\ UNCHANGED <<last, stable, arrived, popped, aplicados, parado, frame_of,
                       entries, released, buf_head, bytes, frozen>>
        /\ pc' = "publish"
    BY <1>12 DEF Reap, J!Reap, journalVars, inboxVars, outboxVars
  <2>2. /\ stopped' \in BOOLEAN /\ durable' \in Nat
        /\ durable <= durable' /\ durable' <= last /\ 1 .. durable' \subseteq stable
    BY <1>0, <1>12 DEF Reap, J!Reap, journalVars, TypeOK, Gate
  <2>3. \A i \in 1 .. released : entries[i].lsn \in Nat
    BY <1>0, EntryLsn DEF TypeOK
  <2>4. Gate'
    BY <1>0, <2>1, <2>2, <2>3 DEF Gate, TypeOK
  <2> QED  BY <1>0, <2>1, <2>2, <2>4 DEF PInv, TypeOK, OutboxTypeOK, Frozen, FramesLoggedOnce
<1>13. CASE Publish
  <2>1. /\ UNCHANGED <<last, durable, stopped, stable, arrived, popped, aplicados, parado,
                       frame_of, entries, buf_head, bytes, frozen>>
        /\ pc' = "idle"
    BY <1>13 DEF Publish, Commit, journalVars, inboxVars
  <2>2. PICK n \in 0 .. Count : Ready(durable, n) /\ released' = released + n
    BY <1>13 DEF Publish, Commit
  <2>3. Len(entries) \in Nat /\ released \in 0 .. Len(entries)
    BY <1>0, LenProperties DEF TypeOK, OutboxTypeOK
  <2>4. released' \in 0 .. Len(entries) /\ n \in Nat
    BY <2>2, <2>3 DEF Count
  <2>5. \A i \in 1 .. released' : entries[i].lsn <= durable
    <3>1. \A i \in 1 .. released' : i \in 1 .. released \/ i \in released + 1 .. released + n
      BY <2>2, <2>3, <2>4
    <3> QED  BY <1>0, <2>2, <3>1 DEF Ready, Gate
  <2>6. TypeOK'
    BY <1>0, <2>1, <2>4 DEF TypeOK, OutboxTypeOK
  <2>7. Gate'
    BY <1>0, <2>1, <2>5 DEF Gate
  <2> QED  BY <1>0, <2>1, <2>6, <2>7 DEF PInv, Frozen, FramesLoggedOnce
<1>14. CASE UNCHANGED vars
  BY <1>0, <1>3, <1>14
     DEF vars, journalVars, inboxVars, loopVars, outboxVars, TypeOK, Frozen
<1> QED
  BY <1>1, <1>2, <1>4, <1>5, <1>6, <1>8, <1>9, <1>10, <1>11, <1>12, <1>13, <1>14 DEF Next

\* The inductive invariant of the loop.
THEOREM SpecPInv == Spec => []PInv
  BY PartitionInit, PartitionNext, PTL DEF Spec

\* The state of the loop, its inbox and its outbox keeps its type.
THEOREM PartitionTypeOK == Spec => []TypeOK
<1>1. PInv => TypeOK
  BY DEF PInv
<1> QED  BY <1>1, SpecPInv, PTL

\* I10: no output leaves before the record of its event, and every record before
\* that one, is on stable storage.
THEOREM PartitionNoEarlyOutput == Spec => []NoEarlyOutput
<1>1. PInv => NoEarlyOutput
  <2> SUFFICES ASSUME PInv, NEW i \in 1 .. released
               PROVE  1 .. entries[i].lsn \subseteq stable
    BY DEF NoEarlyOutput
  <2>1. entries[i].lsn <= durable /\ 1 .. durable \subseteq stable /\ durable \in Nat
    BY DEF PInv, Gate, TypeOK
  <2>2. entries[i].lsn \in Nat
    BY EntryLsn DEF PInv, TypeOK
  <2> QED  BY <2>1, <2>2
<1> QED  BY <1>1, SpecPInv, PTL

\* Back-pressure neither loses a frame nor logs it twice.
THEOREM PartitionFramesOnce == Spec => []FramesLoggedOnce
<1>1. PInv => FramesLoggedOnce
  BY DEF PInv
<1> QED  BY <1>1, SpecPInv, PTL

\* After a fatal result nothing leaves the outbox.
THEOREM PartitionStops == Spec => NothingAfterStop
<1>1. PInv /\ [Next]_vars => [parado => released' = released]_vars
  <2> SUFFICES ASSUME PInv, [Next]_vars, parado  PROVE released' = released
    OBVIOUS
  <2>1. frozen /\ released \in Nat /\ Len(entries) \in Nat
    BY LenProperties DEF PInv, Frozen, TypeOK, OutboxTypeOK
  <2>2. CASE Publish
    <3>1. PICK n \in 0 .. Count : Ready(durable, n) /\ released' = released + n
      BY <2>2 DEF Publish, Commit
    <3> QED  BY <2>1, <3>1 DEF Ready
  <2> QED
    BY <2>2 DEF Next, vars, outboxVars, Arrive, Store, Poll, ForceCommit, DrainQuiet,
                DrainOutput, Stage, DrainFatal, Freeze, DrainEnd, Submit, Reap
<1> QED  BY <1>1, SpecPInv, PTL DEF Spec, NothingAfterStop

-----------------------------------------------------------------------------
(* The payloads in the circular buffer, when every output is smaller than    *)
(* what has_room reserves, as it is in the code: 32 of 256 bytes.            *)

\* The byte after the payload of output e, and whether that payload lies below the head.
End(e) == e.off + e.len
Low(e, head) == End(e) <= head

\* How the pending payloads lie.  Oldest first, they go up to the head; once the buffer
\* has wrapped, those that have not wrapped start at vivo, strictly above the head.
Laid ==
  \A i \in Pending :
    /\ End(entries[i]) <= BufCap
    /\ buf_head >= Vivo => Low(entries[i], buf_head) /\ entries[i].off >= Vivo
    /\ buf_head < Vivo => Low(entries[i], buf_head) \/ entries[i].off >= Vivo
    /\ \A j \in Pending : i < j =>
         /\ Low(entries[i], buf_head) => Low(entries[j], buf_head)
         /\ (Low(entries[i], buf_head) <=> Low(entries[j], buf_head)) => End(entries[i]) <= entries[j].off

\* The numbers of the outbox.
LEMMA OutboxNumbers ==
  ASSUME OutboxTypeOK
  PROVE  /\ Len(entries) \in Nat /\ released \in 0 .. Len(entries) /\ Count \in Nat
         /\ buf_head \in 0 .. BufCap /\ BufCap \in Nat
         /\ \A i \in 1 .. Len(entries) :
              entries[i].off \in 0 .. BufCap /\ entries[i].len \in Nat /\ End(entries[i]) \in Nat
         /\ Pending \subseteq 1 .. Len(entries)
         /\ Count > 0 => released + 1 \in Pending /\ Vivo \in 0 .. BufCap
<1>1. entries \in Seq(EntryType) /\ Len(entries) \in Nat /\ released \in 0 .. Len(entries)
  BY LenProperties DEF OutboxTypeOK
<1>2. \A i \in 1 .. Len(entries) : entries[i] \in EntryType
  BY <1>1, ElementOfSeq
<1>3. \A i \in 1 .. Len(entries) : entries[i].off \in 0 .. BufCap /\ entries[i].len \in Nat
  BY <1>2 DEF EntryType
<1>4. Count \in Nat /\ Pending \subseteq 1 .. Len(entries) /\ (Count > 0 => released + 1 \in Pending)
  BY <1>1 DEF Count, Pending
<1>5. BufCap \in Nat /\ buf_head \in 0 .. BufCap
  BY OutboxAssumption DEF OutboxTypeOK
<1>6. \A i \in 1 .. Len(entries) : End(entries[i]) \in Nat
  BY <1>3, <1>5 DEF End
<1>7. Count > 0 => Vivo \in 0 .. BufCap
  BY <1>3, <1>4 DEF Vivo
<1> QED  BY <1>1, <1>3, <1>4, <1>5, <1>6, <1>7

\* stage writes no byte of a pending payload and keeps the order of the payloads, if the
\* reservation was granted and the output is smaller than it.
LEMMA StageLays ==
  ASSUME OutboxTypeOK, Laid, PayloadIntact, NEW lsn \in Nat, NEW len \in Nat, len > 0,
         len < ReserveBytes, HasRoom(ReserveEntries, ReserveBytes), Stage(lsn, len)
  PROVE  Laid' /\ PayloadIntact'
<1> DEFINE at == Place(len)
<1>n. PICK n : n = Len(entries)
  OBVIOUS
<1>0. /\ n \in Nat /\ released \in 0 .. n /\ Count \in Nat /\ Count = n - released
      /\ buf_head \in 0 .. BufCap /\ BufCap \in Nat
      /\ \A i \in 1 .. n : entries[i].off \in 0 .. BufCap /\ entries[i].len \in Nat /\ End(entries[i]) \in Nat
      /\ Pending \subseteq 1 .. n
      /\ Count > 0 => released + 1 \in Pending /\ Vivo \in 0 .. BufCap
      /\ ReserveBytes \in Nat
  BY <1>n, OutboxNumbers, LoopAssumption DEF Count
<1>1. at \in 0 .. BufCap /\ at + len \in 0 .. BufCap
  BY PlaceFits DEF Stage
<1>2. /\ entries' = Append(entries, [lsn |-> lsn, off |-> at, len |-> len])
      /\ buf_head' = at + len /\ released' = released
      /\ bytes' = [k \in DOMAIN bytes |-> IF k \in at .. at + len - 1 THEN n + 1 ELSE bytes[k]]
      /\ ~NoPlace(len)
  BY <1>n DEF Stage
<1>3. /\ Len(entries') = n + 1 /\ \A i \in 1 .. n : entries'[i] = entries[i]
      /\ entries'[n + 1] = [lsn |-> lsn, off |-> at, len |-> len]
  BY <1>n, <1>0, <1>2 DEF OutboxTypeOK
<1>4. /\ \A i \in 1 .. n : End(entries'[i]) = End(entries[i])
      /\ entries'[n + 1].off = at /\ entries'[n + 1].len = len /\ End(entries'[n + 1]) = at + len
  BY <1>3 DEF End
<1>5. Pending' = Pending \cup {n + 1} /\ n + 1 \notin Pending
  BY <1>n, <1>0, <1>2, <1>3 DEF Pending
<1>6. Count > 0 => Vivo' = Vivo
  <2> SUFFICES ASSUME Count > 0 PROVE Vivo' = Vivo
    OBVIOUS
  <2>1. released + 1 \in 1 .. n
    BY <1>0
  <2> QED  BY <1>2, <1>3, <2>1 DEF Vivo
<1>7. Count = 0 => Pending = {} /\ at = 0 /\ Vivo' = 0
  <2> SUFFICES ASSUME Count = 0 PROVE Pending = {} /\ at = 0 /\ Vivo' = 0
    OBVIOUS
  <2>1. at = 0 /\ released = n
    BY <1>0 DEF Place
  <2>2. Pending = {}
    BY <1>n, <1>0, <2>1 DEF Pending
  <2> HIDE DEF at
  <2>3. Vivo' = 0
    BY <1>2, <1>4, <2>1 DEF Vivo
  <2> QED  BY <2>1, <2>2, <2>3
<1>8. Count > 0 =>
        \/ at = buf_head /\ buf_head >= Vivo
        \/ at = buf_head /\ buf_head < Vivo /\ at + len < Vivo
        \/ at = 0 /\ buf_head >= Vivo /\ len < Vivo
  BY <1>0, <1>2, SMTT(40) DEF HasRoom, NoPlace, Place
<1>h. buf_head' = at + len /\ at \in Nat /\ at + len \in Nat /\ at + len <= BufCap /\ n + 1 \in Nat
  BY <1>0, <1>1, <1>2
<1> HIDE DEF at
<1>9. \A i \in Pending : End(entries[i]) <= at \/ (at + len <= entries[i].off)
  <2> SUFFICES ASSUME NEW i \in Pending  PROVE End(entries[i]) <= at \/ (at + len <= entries[i].off)
    OBVIOUS
  <2>1. Count > 0 /\ i \in 1 .. n
    BY <1>0, <1>7
  <2>2. /\ buf_head >= Vivo => Low(entries[i], buf_head) /\ entries[i].off >= Vivo
        /\ buf_head < Vivo => Low(entries[i], buf_head) \/ entries[i].off >= Vivo
    BY DEF Laid
  <2> QED  BY <1>0, <1>1, <1>8, <2>1, <2>2 DEF Low
<1>10. PayloadIntact'
  <2> SUFFICES ASSUME NEW i \in Pending', NEW k \in Extent(entries[i])'  PROVE bytes'[k] = i
    BY DEF PayloadIntact
  <2>0. DOMAIN bytes = 0 .. BufCap - 1
    BY DEF OutboxTypeOK
  <2>1. CASE i = n + 1
    <3>1. k \in at .. at + len - 1
      BY <1>4, <2>1 DEF Extent
    <3>2. k \in 0 .. BufCap - 1
      BY <1>0, <1>1, <3>1
    <3> QED  BY <1>2, <2>0, <2>1, <3>1, <3>2
  <2>2. CASE i \in Pending
    <3>1. i \in 1 .. n /\ k \in Extent(entries[i]) /\ entries'[i] = entries[i]
      BY <1>0, <1>3, <2>2 DEF Extent
    <3>2. bytes[k] = i
      BY <2>2, <3>1 DEF PayloadIntact
    <3>3. k \in entries[i].off .. End(entries[i]) - 1 /\ End(entries[i]) <= BufCap
      <4>1. k \in entries[i].off .. End(entries[i]) - 1
        BY <1>0, <3>1 DEF Extent, End
      <4> QED  BY <2>2, <4>1 DEF Laid
    <3>4. k \notin at .. at + len - 1 /\ k \in 0 .. BufCap - 1
      BY <1>0, <1>1, <1>9, <2>2, <3>1, <3>3
    <3> QED  BY <1>2, <2>0, <3>2, <3>4
  <2> QED  BY <1>5, <2>1, <2>2
<1>11. \A i \in Pending :
         /\ End(entries[i]) \in Nat /\ entries[i].off \in Nat /\ entries[i].off <= End(entries[i])
         /\ End(entries[i]) <= BufCap /\ i \in 1 .. n /\ i < n + 1
         /\ End(entries'[i]) = End(entries[i]) /\ entries'[i] = entries[i] /\ Count > 0 /\ Vivo' = Vivo
  BY <1>0, <1>3, <1>4, <1>6, <1>7, SMTT(40) DEF Laid, End
<1>12. Low(entries'[n + 1], buf_head')
  BY <1>h, <1>4 DEF Low
<1>13. \A i \in Pending :
         /\ buf_head >= Vivo => Low(entries[i], buf_head) /\ entries[i].off >= Vivo
         /\ buf_head < Vivo => Low(entries[i], buf_head) \/ entries[i].off >= Vivo
         /\ \A j \in Pending : i < j =>
              /\ Low(entries[i], buf_head) => Low(entries[j], buf_head)
              /\ (Low(entries[i], buf_head) <=> Low(entries[j], buf_head)) =>
                   End(entries[i]) <= entries[j].off
  BY DEF Laid
<1>14. CASE Count = 0
  <2>1. Pending' = {n + 1} /\ Vivo' = 0 /\ at = 0 /\ ~(n + 1 < n + 1)
    <3>1. Pending = {} /\ Vivo' = 0 /\ at = 0
      BY <1>7, <1>14
    <3>2. Pending' = {n + 1}
      BY <1>5, <3>1
    <3> QED  BY <1>h, <3>1, <3>2
  <2>2. End(entries'[n + 1]) <= BufCap /\ entries'[n + 1].off >= Vivo' /\ buf_head' >= Vivo'
    BY <1>h, <1>4, <2>1
  <2> QED  BY <1>10, <1>12, <2>1, <2>2 DEF Laid
<1>15. CASE Count > 0
  <2>0. Vivo' = Vivo /\ Vivo \in Nat /\ buf_head \in Nat /\ at \in Nat /\ at + len \in Nat /\ n + 1 \in Nat
    BY <1>0, <1>h, <1>6, <1>15
  <2>1. ASSUME NEW i \in Pending
        PROVE  /\ End(entries'[i]) <= BufCap
               /\ buf_head' >= Vivo' => Low(entries'[i], buf_head') /\ entries'[i].off >= Vivo'
               /\ buf_head' < Vivo' => Low(entries'[i], buf_head') \/ entries'[i].off >= Vivo'
               /\ Low(entries'[i], buf_head') => End(entries'[i]) <= at
               /\ Low(entries'[i], buf_head') <=> Low(entries[i], buf_head) /\ at = buf_head
    <3>1. Low(entries[i], buf_head) <=> End(entries[i]) <= buf_head
      BY DEF Low
    <3>2. Low(entries'[i], buf_head') <=> End(entries[i]) <= at + len
      BY <1>h, <1>11, <2>1 DEF Low
    <3>3. /\ End(entries[i]) \in Nat /\ entries[i].off \in Nat /\ End(entries[i]) <= BufCap
          /\ End(entries'[i]) = End(entries[i]) /\ entries'[i] = entries[i] /\ entries[i].off <= End(entries[i])
      BY <1>11, <2>1
    <3>4. /\ buf_head >= Vivo => Low(entries[i], buf_head) /\ entries[i].off >= Vivo
          /\ buf_head < Vivo => Low(entries[i], buf_head) \/ entries[i].off >= Vivo
      BY <1>13, <2>1
    <3>5. CASE at = buf_head
      BY <1>h, <1>8, <1>15, <2>0, <3>1, <3>2, <3>3, <3>4, <3>5
    <3>6. CASE at # buf_head
      BY <1>h, <1>8, <1>15, <2>0, <3>1, <3>2, <3>3, <3>4, <3>6
    <3> QED  BY <3>5, <3>6
  <2>2. /\ End(entries'[n + 1]) <= BufCap
        /\ buf_head' >= Vivo' => entries'[n + 1].off >= Vivo'
    BY <1>h, <1>4, <1>8, <1>15, <2>0
  <2>3. ASSUME NEW i \in Pending, NEW j \in Pending, i < j
        PROVE  /\ Low(entries'[i], buf_head') => Low(entries'[j], buf_head')
               /\ (Low(entries'[i], buf_head') <=> Low(entries'[j], buf_head')) =>
                    End(entries'[i]) <= entries'[j].off
    <3>1. /\ Low(entries'[i], buf_head') <=> Low(entries[i], buf_head) /\ at = buf_head
          /\ Low(entries'[j], buf_head') <=> Low(entries[j], buf_head) /\ at = buf_head
      BY <2>1, <2>3
    <3>2. /\ Low(entries[i], buf_head) => Low(entries[j], buf_head)
          /\ (Low(entries[i], buf_head) <=> Low(entries[j], buf_head)) => End(entries[i]) <= entries[j].off
      BY <1>13, <2>3, Zenon
    <3>3. End(entries'[i]) = End(entries[i]) /\ entries'[j].off = entries[j].off
      BY <1>11, <2>3
    <3>4. at # buf_head => Low(entries[i], buf_head) /\ Low(entries[j], buf_head)
      BY <1>8, <1>13, <1>15, <2>3
    <3> QED  BY <3>1, <3>2, <3>3, <3>4, Zenon
  <2>4. ASSUME NEW i \in Pending
        PROVE  /\ Low(entries'[i], buf_head') => Low(entries'[n + 1], buf_head')
               /\ (Low(entries'[i], buf_head') <=> Low(entries'[n + 1], buf_head')) =>
                    End(entries'[i]) <= entries'[n + 1].off
    BY <1>4, <1>12, <2>1, <2>4
  <2>5. \A i \in Pending' : i \in Pending \/ i = n + 1
    BY <1>5
  <2>6. \A j \in Pending' : ~(n + 1 < j)
    BY <1>11, <2>0, <2>5
  <2> QED  BY <1>10, <1>12, <2>1, <2>2, <2>3, <2>4, <2>5, <2>6 DEF Laid
<1> QED  BY <1>0, <1>14, <1>15

\* The payloads that stay after a release lie as they did.
LEMMA CommitLays ==
  ASSUME OutboxTypeOK, Laid, PayloadIntact, NEW m \in 0 .. Count, Commit(m)
  PROVE  Laid' /\ PayloadIntact'
<1>0. /\ Len(entries) \in Nat /\ released \in 0 .. Len(entries) /\ Count = Len(entries) - released
      /\ buf_head \in 0 .. BufCap /\ BufCap \in Nat
      /\ \A i \in 1 .. Len(entries) :
           entries[i].off \in 0 .. BufCap /\ entries[i].len \in Nat /\ End(entries[i]) \in Nat
      /\ Pending \subseteq 1 .. Len(entries)
      /\ Count > 0 => Vivo \in 0 .. BufCap
  BY OutboxNumbers DEF Count
<1>1. released' = released + m /\ UNCHANGED <<entries, buf_head, bytes>>
  BY DEF Commit
<1>2. Pending' \subseteq Pending
  BY <1>0, <1>1 DEF Pending
<1>3. PayloadIntact'
  BY <1>1, <1>2 DEF PayloadIntact, Extent
<1>4. \A i \in Pending' : /\ Low(entries'[i], buf_head') = Low(entries[i], buf_head)
                          /\ End(entries'[i]) = End(entries[i])
  BY <1>1 DEF Low, End
<1> DEFINE v == released' + 1
<1>5. ASSUME NEW i \in Pending'
      PROVE  /\ v \in Pending /\ Vivo' = entries[v].off /\ (v < i \/ v = i)
             /\ Count > 0 /\ i \in 1 .. Len(entries) /\ v \in 1 .. Len(entries)
  BY <1>0, <1>1, <1>5 DEF Pending, Vivo
<1> HIDE DEF v
<1>6. ASSUME NEW i \in Pending'
      PROVE  /\ buf_head >= Vivo' => Low(entries[i], buf_head) /\ entries[i].off >= Vivo'
             /\ buf_head < Vivo' => Low(entries[i], buf_head) \/ entries[i].off >= Vivo'
  <2>1. /\ v \in Pending /\ i \in Pending /\ Vivo' = entries[v].off /\ (v < i \/ v = i)
        /\ i \in 1 .. Len(entries) /\ v \in 1 .. Len(entries) /\ Vivo \in Nat
    BY <1>0, <1>2, <1>5, <1>6
  <2>2. /\ entries[i].off \in Nat /\ entries[v].off \in Nat /\ End(entries[i]) \in Nat /\ End(entries[v]) \in Nat
        /\ entries[v].off <= End(entries[v]) /\ buf_head \in Nat
    <3>1. \A k \in 1 .. Len(entries) : entries[k].off \in Nat /\ entries[k].len \in Nat
      BY <1>0
    <3>2. /\ entries[i].off \in Nat /\ entries[v].off \in Nat
          /\ entries[i].len \in Nat /\ entries[v].len \in Nat
      BY <2>1, <3>1, Zenon
    <3>3. buf_head \in Nat
      BY <1>0
    <3> QED  BY <3>2, <3>3 DEF End
  <2>3. v < i => /\ Low(entries[v], buf_head) => Low(entries[i], buf_head)
                 /\ (Low(entries[v], buf_head) <=> Low(entries[i], buf_head)) => End(entries[v]) <= entries[i].off
    BY <2>1 DEF Laid
  <2>4. /\ buf_head >= Vivo => Low(entries[i], buf_head) /\ Low(entries[v], buf_head) /\ entries[i].off >= Vivo
        /\ buf_head < Vivo => /\ Low(entries[i], buf_head) \/ entries[i].off >= Vivo
                              /\ Low(entries[v], buf_head) \/ entries[v].off >= Vivo
    BY <2>1 DEF Laid
  <2>5. /\ Low(entries[v], buf_head) <=> End(entries[v]) <= buf_head
        /\ Low(entries[i], buf_head) <=> End(entries[i]) <= buf_head
    BY DEF Low
  <2> QED  BY <2>1, <2>2, <2>3, <2>4, <2>5
<1>7. \A i \in Pending' : entries'[i] = entries[i] /\ buf_head' = buf_head
  BY <1>1
<1> QED  BY <1>2, <1>3, <1>4, <1>6, <1>7 DEF Laid

\* A step that leaves the buffer and its entries leaves the payloads.
LEMMA LaidFrame ==
  ASSUME Laid, PayloadIntact, UNCHANGED <<entries, released, buf_head, bytes>>
  PROVE  Laid' /\ PayloadIntact'
<1>1. Pending' = Pending /\ Vivo' = Vivo
  BY DEF Pending, Vivo
<1>2. \A i \in Pending : /\ Low(entries'[i], buf_head') = Low(entries[i], buf_head)
                         /\ End(entries'[i]) = End(entries[i]) /\ entries'[i] = entries[i]
                         /\ Extent(entries[i])' = Extent(entries[i])
  BY DEF Low, End, Extent
<1>3. Laid'
  BY <1>1, <1>2 DEF Laid
<1>4. PayloadIntact'
  BY <1>1, <1>2 DEF PayloadIntact
<1> QED  BY <1>3, <1>4

\* Every step of the loop keeps the payloads, if outputs are smaller than the reservation.
LEMMA PartitionLays ==
  ASSUME ReserveBytes \notin OutLens, PInv, Laid, PayloadIntact, [Next]_vars
  PROVE  Laid' /\ PayloadIntact'
<1>0. OutboxTypeOK
  BY DEF PInv, TypeOK
<1>1. ASSUME NEW len \in OutLens, DrainOutput(len)  PROVE Laid' /\ PayloadIntact'
  <2>1. CanDrain /\ Logged /\ Stage(last', len)
    BY <1>1 DEF DrainOutput
  <2>2. last' \in Nat /\ len \in Nat /\ len > 0 /\ len < ReserveBytes
    BY <2>1, LoggedFacts, LoopAssumption
  <2> QED  BY <1>0, <2>1, <2>2, StageLays DEF CanDrain
<1>2. CASE Publish
  <2>1. PICK m \in 0 .. Count : Commit(m)
    BY <1>2 DEF Publish
  <2> QED  BY <1>0, <2>1, CommitLays
<1>3. CASE UNCHANGED <<entries, released, buf_head, bytes>>
  BY <1>3, LaidFrame
<1> QED
  BY <1>1, <1>2, <1>3 DEF Next, vars, outboxVars, Arrive, Store, Poll, ForceCommit, DrainQuiet,
                          DrainFatal, Freeze, DrainEnd, Submit, Reap

\* The circular buffer reuses no byte of a payload that has not left, for every size of
\* buffer, ring and batch, as long as an output is smaller than the reservation (32 bytes
\* of kMaxOutputBytesPerEvent in apply.cpp, publica_posicao).  Without that condition
\* MCOutbox.cfg loses a payload.
THEOREM PartitionPayloads ==
  ASSUME ReserveBytes \notin OutLens
  PROVE  Spec => []PayloadIntact
<1>1. Init => Laid /\ PayloadIntact
  BY DEF Init, OutboxInit, Laid, PayloadIntact, Pending
<1>2. PInv /\ (Laid /\ PayloadIntact) /\ [Next]_vars => (Laid /\ PayloadIntact)'
  BY PartitionLays
<1> QED  BY <1>1, <1>2, SpecPInv, PTL DEF Spec
=============================================================================
