------------------------ MODULE MCWordPartitionAsks ------------------------
(* One word in two partitions, three peers, asks sent at once or in turn. *)
EXTENDS WordPartitionAsks

CONSTANTS p1, p2, p3

RainAt0 == <<"rain", 0>>
RainAt1 == <<"rain", 1>>

TwoWordPartitions == {RainAt0, RainAt1}

\* The partitions share their replicas, in another order.
Shared ==
  [wp \in TwoWordPartitions |-> IF wp = RainAt0 THEN <<p1, p2, p3>> ELSE <<p3, p1, p2>>]

\* An ask that is twice in a batch is put once.
OneOrTwo == {<<RainAt0, RainAt1>>, <<RainAt0, RainAt0>>, <<RainAt1>>}
=============================================================================
