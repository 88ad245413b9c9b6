---------------------------- MODULE MCDirectory ----------------------------
(* A small instance of Directory for TLC. *)
EXTENDS Directory

TwoQueries == {<<1, 2>>, <<2>>}
OneQuery   == {<<1, 2>>}
=============================================================================
