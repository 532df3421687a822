--------------------------- MODULE MCCentralQuery ---------------------------
(* Three queries of up to three ranges; the arrays differ in length.         *)
EXTENDS CentralQuery

MCVecs == 1..3
A == <<1, 2>>
B == <<2, 3>>
C == <<3, 3>>
MCWorkloads ==
    {<< <<A, B, C>>, <<C, A>>, <<B>> >>, << <<C>>, <<B, A>>, <<A, B, C>> >>,
     << <<A, B>>, <<A, C>>, <<C, B>> >>}
=============================================================================
