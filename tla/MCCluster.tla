----------------------------- MODULE MCCluster ------------------------------
(* Up to three slaves, on the ring in the order 0, 2, 1, and up to three    *)
(* vectors: 2 has the number of a slave, and so its position.  Vectors 2, 3 *)
(* and 4 have slaves 1, 0 and 2 as their primaries.                         *)
EXTENDS Cluster

CONSTANTS Count, VecCount

MCSlaves == 0..(Count - 1)
MCVecs == 2..(VecCount + 1)
MCHashBound == 12
MCHash == [s \in MCSlaves |-> CASE s = 0 -> 3 [] s = 1 -> 11 [] OTHER -> 7]
MCVecHash == [v \in MCVecs |-> CASE v = 2 -> 7 [] v = 3 -> 1 [] OTHER -> 5]
=============================================================================
