----------------------------- MODULE MCMailJobs -----------------------------
(* Small instances of MailJobs for TLC.                                     *)
EXTENDS MailJobs, TLC

\* Workers are interchangeable: no action prefers one.
Symmetry == Permutations(Workers)
=============================================================================
