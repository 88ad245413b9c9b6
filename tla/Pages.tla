-------------------------------- MODULE Pages -------------------------------
(***************************************************************************)
(* One browser tab with its pages: those that deal with credentials         *)
(* (SignIn, over the auth service of Credentials), the product console and  *)
(* the settings lists (Console), and the frame around them (Shell). The tab *)
(* works in one of them at a time; a sitting says where, and how much.      *)
(***************************************************************************)
EXTENDS SignIn, Console, Shell

VARIABLE part   \* where the tab works

pagesVars == <<signInVars, consoleVars, shellVars, part>>

Parts == {"signin", "console", "frame"}

\* The bounds of the other parts are nothing.
Idle(p) ==
    CASE p = "signin" -> left.asks + left.others = 0 /\ left.page = "away"
      [] p = "console" -> rest.tools = {}
      [] p = "frame" -> budget.parts = {}

Init ==
    /\ part \in Parts
    /\ SignInInit /\ ConsoleInit /\ ShellInit
    /\ \A p \in Parts : Idle(p) <=> p # part

Next ==
    \/ part = "signin" /\ SignInNext /\ UNCHANGED <<consoleVars, shellVars, part>>
    \/ part = "console" /\ ConsoleNext /\ UNCHANGED <<signInVars, shellVars, part>>
    \/ part = "frame" /\ ShellNext /\ UNCHANGED <<signInVars, consoleVars, part>>

Spec == Init /\ [][Next]_pagesVars
FairSpec == Spec /\ SignInFairness /\ ConsoleFairness

\* Every page's variables keep their types.
TypeOK == part \in Parts /\ SignInTypeOK /\ ConsoleTypeOK /\ ShellTypeOK

\* No button rests for good, whatever was answered and in which order (the services answer;
\* nobody has to click).
PagesSettle == SubmitSettles /\ BusySettles
=============================================================================
