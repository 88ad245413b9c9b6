------------------------------ MODULE MCPages ------------------------------
(* The sittings of Pages for TLC: where the tab is, and how much is asked. *)
EXTENDS Pages

Plain == FirstRow
Old == [FirstRow EXCEPT !.stale = TRUE]
Mfa == [FirstRow EXCEPT !.mfa = 1]

Away == [page |-> "away", asks |-> 0, others |-> 0, kinds |-> {}, leaves |-> 0, faults |-> 0,
         accounts |-> {Plain}]
At_(page, asks, others, kinds) ==
    [Away EXCEPT !.page = page, !.asks = asks, !.others = others, !.kinds = kinds]

TheSittings == {Away,
    [At_("login", 4, 0, {}) EXCEPT !.faults = 1],
    [At_("login", 2, 1, {"login"}) EXCEPT !.leaves = 1],
    [At_("login", 2, 0, {}) EXCEPT !.leaves = 1, !.accounts = {Mfa}],
    [At_("login", 1, 1, {"login"}) EXCEPT !.accounts = {Mfa}],
    [At_("away", 0, 2, {"login", "change", "reset"}) EXCEPT !.faults = 1, !.accounts = {Plain, Old}],
    At_("away", 0, 3, {"login", "set"}),
    [At_("away", 0, 3, {"login", "lock", "unlock"}) EXCEPT !.faults = 1],
    [At_("away", 0, 2, {"login", "codes", "enroll", "verify"}) EXCEPT !.accounts = {Mfa}],
    At_("away", 0, 3, {"enroll", "verify"}),
    [At_("settings", 3, 0, {}) EXCEPT !.accounts = {Mfa}],
    [At_("settings", 2, 1, {"codes", "enroll"}) EXCEPT !.accounts = {Mfa}],
    [At_("settings", 2, 0, {}) EXCEPT !.faults = 1],
    [At_("reset", 2, 1, {"reset"}) EXCEPT !.faults = 1, !.leaves = 1],
    [At_("forgot", 2, 0, {}) EXCEPT !.faults = 1],
    [At_("register", 3, 1, {"register"}) EXCEPT !.leaves = 1],
    At_("magic", 1, 2, {"magic", "consume"}),
    [At_("verify", 1, 0, {}) EXCEPT !.faults = 1]}

Closed_ == [tools |-> {}, clicks |-> 0, others |-> 0, faults |-> 0]
Uses(tools, clicks, failing) ==
    [Closed_ EXCEPT !.tools = tools, !.clicks = clicks, !.faults = failing]

TheVisits == {Closed_,
    Uses({"list", "create"}, 3, 1),
    [Uses({"list", "rows"}, 2, 1) EXCEPT !.others = 1],
    Uses({"list", "import"}, 2, 1),
    Uses({"create", "rows"}, 2, 1),
    Uses({"boxes"}, 3, 0), Uses({"boxes"}, 2, 1),
    Uses({"live"}, 3, 2),
    Uses({"cards"}, 2, 1)}

TheFrames == {[parts |-> {}, acts |-> 0]}
    \cup [parts : {{"keys"}, {"drawer"}, {"scroll"}, {"health"}}, acts : {5}]
    \cup [parts : {{"keys", "scroll"}}, acts : {3}]
=============================================================================
