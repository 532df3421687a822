---------------------------- MODULE MCQueryPipe -----------------------------
(* Three slaves, on the ring in the order 0, 2, 1; ranges that overlap, one  *)
(* of which has a vector for each slave.                                     *)
EXTENDS QueryPipe

MCSlaves == 0..2
MCVecs == 1..3
MCAfter == [s \in MCSlaves |-> CASE s = 0 -> 2 [] s = 2 -> 1 [] OTHER -> 0]
MCQueries == {<< <<1, 3>> >>, << <<1, 3>>, <<1, 2>> >>, << <<3, 3>>, <<1, 3>> >>}
=============================================================================
