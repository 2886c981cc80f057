----------------------------- MODULE MCConsumer -----------------------------
(* Consumer with two members and two partitions.                           *)
EXTENDS Consumer, TLC

CONSTANTS m1, m2, p1, p2

TwoMembers == {m1, m2}
TwoPartitions == {p1, p2}

\* Two messages beside one: enough for a commit to pass a message of its own
\* partition and one of the other.
TwoAndOne == (p1 :> 2) @@ (p2 :> 1)
=============================================================================
