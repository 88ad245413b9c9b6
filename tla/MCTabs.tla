------------------------------- MODULE MCTabs -------------------------------
(* Small sittings in two tabs for TLC.                                      *)
EXTENDS Tabs

None == [tabs |-> Tabs, signins |-> 0, signouts |-> 0, supports |-> 0, beats |-> 0, calls |-> 0,
         reloads |-> 0, revokes |-> 0, faults |-> 0, settings |-> 0]

TwoClients == {<<t, "host">> : t \in Tabs} \cup {<<1, "remote">>}

TheSittings ==
    {[None EXCEPT !.signins = 2, !.signouts = 1, !.faults = 1],
     [None EXCEPT !.signins = 2, !.settings = 1],
     [None EXCEPT !.signins = 2, !.beats = 1],
     [None EXCEPT !.signins = 2, !.calls = 1],
     [None EXCEPT !.signins = 2, !.reloads = 1],
     [None EXCEPT !.reloads = 3],
     [None EXCEPT !.signins = 1, !.beats = 1, !.reloads = 1, !.faults = 1],
     [None EXCEPT !.signins = 1, !.beats = 2, !.revokes = 1],
     [None EXCEPT !.signins = 1, !.supports = 1, !.settings = 1],
     [None EXCEPT !.tabs = {1}, !.signins = 2, !.signouts = 1, !.settings = 2],
     [None EXCEPT !.tabs = {1}, !.signins = 1, !.supports = 2, !.faults = 1]}
=============================================================================
