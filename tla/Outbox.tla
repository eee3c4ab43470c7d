------------------------------- MODULE Outbox -------------------------------
(***************************************************************************)
(* The outbox of a partition (core/outbox.cpp): the only way out of the    *)
(* core.  An output is staged with the LSN of the event that made it and   *)
(* leaves once that LSN is durable.  Its payload lives in a circular byte  *)
(* buffer, never split in two.                                             *)
(*                                                                         *)
(* "entries" keeps every output staged, in order; the ring of slots is its *)
(* part after the first "released" ones, as staged_total_ and              *)
(* released_total_ count them.  A byte of the buffer holds the number of   *)
(* the output that wrote it last.                                          *)
(***************************************************************************)
EXTENDS Integers, Sequences

CONSTANTS
  Slots,   \* mask_ + 1: entries the ring holds
  BufCap   \* buf_cap_: bytes of the payload buffer

ASSUME OutboxAssumption == Slots \in Nat \ {0} /\ BufCap \in Nat \ {0}

VARIABLES
  entries,   \* every output staged: lsn, offset and length of its payload
  released,  \* how many left: released_total_
  buf_head,  \* buf_head_: offset of the next free byte
  bytes,     \* buf_: which output wrote each byte
  frozen     \* frozen_: nothing leaves any more

outboxVars == <<entries, released, buf_head, bytes, frozen>>

OutboxInit ==
  /\ entries = <<>>
  /\ released = 0
  /\ buf_head = 0
  /\ bytes = [k \in 0 .. BufCap - 1 |-> 0]
  /\ frozen = FALSE

Pending == released + 1 .. Len(entries)
Count == Len(entries) - released
Extent(e) == e.off .. e.off + e.len - 1

\* Mutant: the newest pending output instead of the oldest.
VivoMut == entries[Len(entries)].off

\* vivo: where the payload of the oldest pending output starts.
Vivo == entries[released + 1].off

-----------------------------------------------------------------------------
\* has_room: the worst case is having to wrap, which needs the bytes from zero.
HasRoom(n, len) ==
  /\ Count + n <= Slots
  /\ len <= BufCap
  /\ \/ Count = 0
     \/ Count > 0 /\ buf_head >= Vivo /\ (BufCap - buf_head >= len \/ Vivo >= len)
     \/ Count > 0 /\ buf_head < Vivo /\ Vivo - buf_head >= len

\* stage fails (ArenaExhausted or OutOfRange), with no effect.
NoPlace(len) ==
  \/ Count >= Slots
  \/ len > BufCap
  \/ /\ Count > 0
     /\ \/ buf_head >= Vivo /\ buf_head + len > BufCap /\ len > Vivo
        \/ buf_head < Vivo /\ buf_head + len > Vivo

\* stage: where the payload goes (escrita).
Place(len) ==
  CASE Count = 0 -> 0
    [] Count > 0 /\ buf_head >= Vivo /\ buf_head + len > BufCap -> 0
    [] OTHER -> buf_head

Stage(lsn, len) ==
  /\ ~NoPlace(len)
  /\ entries' = Append(entries, [lsn |-> lsn, off |-> Place(len), len |-> len])
  /\ buf_head' = Place(len) + len
  /\ bytes' = [k \in DOMAIN bytes |->
                 IF k \in Place(len) .. Place(len) + len - 1 THEN Len(entries) + 1
                                                             ELSE bytes[k]]
  /\ UNCHANGED <<released, frozen>>

\* Mutant: off by one, an output at durable_lsn itself does not leave.
ReadyMut(durable, n) ==
  /\ n \in 0 .. Count
  /\ frozen => n = 0
  /\ \A i \in released + 1 .. released + n : entries[i].lsn < durable
  /\ ~frozen /\ n < Count => entries[released + n + 1].lsn >= durable

\* ready: n is the length of the longest pending prefix with lsn <= durable.
Ready(durable, n) ==
  /\ n \in 0 .. Count
  /\ frozen => n = 0
  /\ \A i \in released + 1 .. released + n : entries[i].lsn <= durable
  /\ ~frozen /\ n < Count => entries[released + n + 1].lsn > durable

\* commit: the n outputs just published leave the ring.
Commit(n) ==
  /\ released' = released + n
  /\ UNCHANGED <<entries, buf_head, bytes, frozen>>

\* Mutant: a fail-stop does not close the outbox.
FreezeMut == UNCHANGED outboxVars

Freeze ==
  /\ frozen' = TRUE
  /\ UNCHANGED <<entries, released, buf_head, bytes>>

-----------------------------------------------------------------------------
EntryType == [lsn : Nat, off : 0 .. BufCap, len : Nat]

OutboxTypeOK ==
  /\ entries \in Seq(EntryType)
  /\ released \in 0 .. Len(entries)
  /\ buf_head \in 0 .. BufCap
  /\ bytes \in [0 .. BufCap - 1 -> Nat]
  /\ frozen \in BOOLEAN

\* The payload of every output still waiting is the one that was staged: the
\* circular buffer never reuses a byte of it before it is released.
PayloadIntact == \A i \in Pending : \A k \in Extent(entries[i]) : bytes[k] = i
=============================================================================
