------------------------------- MODULE MCDbms -------------------------------
(* Up to two slaves, a queue of two messages, tests that send more than that, *)
(* and two queries to a debugging master.                                    *)
EXTENDS Dbms

CONSTANTS a1, a2

MCFiles == {NoFile, <<Comment, a1, Terminator, a2>>, <<a1, Comment, a2>>}
MCTests == {<<"put", "range", "range">>, <<"put", "put", "put", "range">>}
MCLeftovers == {<<>>, <<"range">>}
=============================================================================
