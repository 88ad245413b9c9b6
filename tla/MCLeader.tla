------------------------------ MODULE MCLeader ------------------------------
(* A small instance of Leader for TLC. *)
EXTENDS Leader
=============================================================================
