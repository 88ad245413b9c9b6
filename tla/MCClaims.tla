------------------------------ MODULE MCClaims ------------------------------
(* Small instances of Claims for TLC. *)
EXTENDS Claims, TLC

\* Users, requests and tokens are interchangeable.
Symmetry == Permutations(Users) \cup Permutations(Requests) \cup Permutations(Logins)
=============================================================================
