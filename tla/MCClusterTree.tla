--------------------------- MODULE MCClusterTree ----------------------------
(* Up to four slaves, on the ring in the order 0, 2, 3, 1.  A vector with    *)
(* the number of a slave has its position.  The vectors from 4 on are        *)
(* between the slaves: slaves 0, 2, 3 and 1 are their primaries.             *)
EXTENDS ClusterTree

CONSTANTS Count, FirstVec, LastVec

MCSlaves == 0..(Count - 1)
MCVecs == FirstVec..LastVec
MCHashBound == 16
Position(s) == CASE s = 0 -> 3 [] s = 1 -> 15 [] s = 2 -> 7 [] s = 3 -> 11
MCHash == [s \in MCSlaves |-> Position(s)]
MCVecHash == [v \in MCVecs |-> CASE v = 4 -> 1 [] v = 5 -> 5 [] v = 6 -> 9
                                [] v = 7 -> 13 [] OTHER -> Position(v)]
=============================================================================
