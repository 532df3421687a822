----------------------------- MODULE MCHashRing -----------------------------
(* Seven ids at the even positions 2..14, in an order unlike that of their *)
(* ids, and a lookup at every position from below the first to past the    *)
(* last one.                                                               *)
EXTENDS HashRing

MCIds == 0..6
MCHash == [i \in MCIds |-> 2 * ((3 * i) % 7) + 2]
MCHashBound == 16
MCPoints == 0..MCHashBound
=============================================================================
