----------------------------- MODULE MCSessions -----------------------------
(* Small instances of Sessions for TLC.                                     *)
EXTENDS Sessions, TLC

\* Request slots are interchangeable: no action prefers one.
Symmetry == Permutations(Requests)
=============================================================================
