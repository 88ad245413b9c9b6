------------------------------ MODULE MCAccess ------------------------------
EXTENDS Access, TLC

CONSTANTS a, b, p, u, v

Session(users, uses, edits, others, faults, reads) ==
    [users |-> users, uses |-> uses, edits |-> edits, others |-> others, faults |-> faults,
     reads |-> reads]

TheSessions ==
    {Session({u}, {"usage"}, 2, 0, 0, 1),
     Session({u, v}, {"usage"}, 2, 0, 0, 0),
     Session({u}, {"usage"}, 2, 0, 1, 0),
     Session({u}, {"usage"}, 1, 1, 1, 1),
     Session({u}, {"usage", "drop"}, 2, 0, 0, 0),
     Session({}, {"matrix"}, 2, 1, 1, 1),
     Session({}, {"matrix", "editor"}, 2, 0, 1, 0),
     Session({}, {"matrix", "creator"}, 2, 0, 1, 0),
     Session({}, {"editor", "pages"}, 2, 0, 0, 0),
     Session({}, {"editor"}, 1, 1, 1, 0),
     Session({u}, {"drop", "drawer", "pages"}, 2, 0, 0, 0),
     Session({u}, {"drawer"}, 2, 0, 1, 0),
     Session({u}, {"drawer"}, 1, 1, 1, 0),
     Session({u}, {"directory", "pages"}, 2, 0, 0, 1),
     Session({u, v}, {"directory"}, 2, 1, 1, 0),
     Session({u}, {"register"}, 2, 0, 0, 0),
     Session({}, {"register"}, 1, 0, 1, 0),
     Session({u}, {"profile"}, 2, 0, 0, 0)}

=============================================================================
