----------------------------- MODULE TokenChain -----------------------------
(***************************************************************************)
(* What a refresh-token family promises, whatever the handlers interleave: *)
(* it has at most one current token, a token becomes current only when it  *)
(* is issued, is issued once, and only to a family without a current one.  *)
(***************************************************************************)
EXTENDS Naturals

CONSTANT Token      \* tokens; a family is named by its first one

VARIABLES
    current,        \* current[f]: the token family f accepts, 0 when none
    issued          \* tokens issued so far

Init == current = [f \in Token |-> 0] /\ issued = {}

\* Login opens family f with token f; a rotation issues its next token.
Issue(f, n) ==
    /\ current[f] = 0
    /\ n \in Token \ issued
    /\ current' = [current EXCEPT ![f] = n]
    /\ issued' = issued \cup {n}

\* The current tokens of the families in F are retired: by a rotation about to
\* issue the next one, or for good.
Retire(F) ==
    /\ current' = [f \in Token |-> IF f \in F THEN 0 ELSE current[f]]
    /\ UNCHANGED issued

Next == (\E f, n \in Token : Issue(f, n)) \/ (\E F \in SUBSET Token : Retire(F))

Spec == Init /\ [][Next]_<<current, issued>>
=============================================================================
