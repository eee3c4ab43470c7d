----------------------------- MODULE MCIngress -----------------------------
(* Two connections and the local stream, two partitions.  In the first      *)
(* instance broadcasts of two streams meet; in the second a stream has      *)
(* every kind of error; in the third the local buffer overflows.            *)
EXTENDS Ingress

Broadcast == [kind |-> "broadcast", to |-> 0]
Single(p) == [kind |-> "single", to |-> p]
Bad(kind) == [kind |-> kind, to |-> 0]

MCPartitions == {0, 1}
Streams(s1, s2, own) ==
  [s \in Sources |-> CASE s = "c1" -> s1 [] s = "c2" -> s2 [] OTHER -> own]
MCScripts == {
  Streams(<<Broadcast, Single(1)>>, <<Broadcast>>, <<>>),
  Streams(<<Single(1), Bad("unknown"), Broadcast, Bad("schema"), Single(0)>>, <<>>, <<Single(1)>>),
  Streams(<<>>, <<Single(0), Broadcast>>, <<Single(1), Broadcast, Single(1), Single(0)>>) }
MCItems == Sources \X (1 .. 5)
=============================================================================
