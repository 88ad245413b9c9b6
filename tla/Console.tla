------------------------------- MODULE Console ------------------------------
(***************************************************************************)
(* The product console (apps/web/src/ProductPage.tsx) and the lists and     *)
(* cards of the settings page that keep records of the same kind            *)
(* (apps/web/src/App.tsx), in one tab: loads that follow a filter, records  *)
(* created, completed and imported, searches, the live socket, things put   *)
(* away once they are saved. Calls are answered in any order; other         *)
(* administrators write the same records.                                   *)
(***************************************************************************)
EXTENDS Naturals, Sequences, FiniteSets

CONSTANTS
    MaxLines,   \* lines of a file that bulkInvite takes
    Visits      \* bounds: the tools used, the clicks, those of others, the calls that fail

ASSUME ConsoleAssumption == MaxLines \in Nat \ {0}

VARIABLES
    records,   \* the records of the users service: their list, its version, that of the page's last write
    saved,     \* cards whose record the service has stored
    calls,     \* calls under way
    view,      \* what the page shows and its history
    rest       \* what is left of the bounds

consoleVars == <<records, saved, calls, view, rest>>

RecordKinds == {"invitation", "notification"}
Filters == {"all"} \cup RecordKinds
Boxes == {"search", "simulate"}
\* Calls that read the list or write what it shows.
ListCalls == {"load", "create", "update", "invite"}
\* What is saved on the settings page: the checklist and the notifications, a new address, the
\* list of sessions, the deletion of the account; and on the page of a missing permission.
Inbox == {"onboarding", "note"}
Address == {"mail"}
SessionList == {"session"}
Privacy == {"erase"}
Request == {"access"}
SavedCards == Inbox \cup Address \cup SessionList \cup Privacy \cup Request

\* A call: "by" is what sent a load, "for" a filter or a kind, "lines" what is left of a file,
\* "made" and "stored" its lines counted by the page and by the service.
Call == [n |-> 0, what |-> "load", by |-> "effect", for |-> "all", id |-> 0, status |-> "open",
         lines |-> 0, made |-> 0, stored |-> 0, at |-> "sent", rows |-> <<>>, asOf |-> 0]

\* The first render, whose effect loads the lists.
ConsoleInit ==
    /\ rest \in Visits
    /\ records = [list |-> <<[kind |-> "notification", status |-> "open"]>>, version |-> 0, own |-> 0]
    /\ saved = {}
    /\ calls = IF rest.tools \subseteq {"cards"} THEN {} ELSE {[Call EXCEPT !.n = 1]}
    /\ view = [filter |-> "all", busy |-> calls # {}, rows |-> <<>>, shown |-> "all", asOf |-> 0,
               count |-> 1, last |-> 0, doubt |-> {}, early |-> FALSE, told |-> [said |-> 0, stored |-> 0],
               box |-> [b \in Boxes |-> [typed |-> 0, result |-> 0, last |-> 0, doubt |-> {}]],
               away |-> {}, asking |-> FALSE, connected |-> FALSE, socks |-> {}, socket |-> 0,
               twice |-> FALSE]

Use(what) == rest[what] > 0 /\ rest' = [rest EXCEPT ![what] = @ - 1]

\* The page sends call c; v is the view after it.
Submits(c, v) ==
    /\ Use("clicks")
    /\ calls' = calls \cup {[c EXCEPT !.n = view.count + 1]}
    /\ view' = [v EXCEPT !.count = @ + 1]
    /\ UNCHANGED <<records, saved>>

-----------------------------------------------------------------------------
(* Clicks                                                                  *)

\* Choosing a filter makes a new "load", and the effect that depends on it runs.
FilterBy(f) ==
    /\ "list" \in rest.tools /\ f # view.filter
    /\ Submits([Call EXCEPT !.for = f], [view EXCEPT !.filter = f, !.busy = TRUE])

\* Refresh, and Apply of the audit viewer.
Refresh ==
    /\ "list" \in rest.tools
    /\ Submits([Call EXCEPT !.by = "button", !.for = view.filter], view)

\* A slip: the button never rests.
Always == TRUE
MayCreate == ~view.busy

\* A payload that is no JSON is refused before any call.
CreateRecord(kind) ==
    /\ "create" \in rest.tools /\ MayCreate
    /\ Submits([Call EXCEPT !.what = "create", !.by = view.filter, !.for = kind],
             [view EXCEPT !.busy = TRUE])

\* The button of a row completes it or opens it again, by the status on screen.
UpdateRecord(i) ==
    /\ "rows" \in rest.tools /\ i \in DOMAIN view.rows
    /\ Submits([Call EXCEPT !.what = "update", !.by = view.filter, !.id = i,
                          !.status = IF view.rows[i] = "open" THEN "complete" ELSE "open"], view)

Least(m, n) == IF m < n THEN m ELSE n

\* The first lines of a file, one call each, without a header.
BulkInvite(n, header) ==
    /\ "import" \in rest.tools /\ n > 0
    /\ LET lines == Least(n, MaxLines) - (IF header THEN 1 ELSE 0)
       IN /\ lines > 0
          /\ Submits([Call EXCEPT !.what = "invite", !.by = view.filter, !.for = "invitation",
                                !.lines = lines], view)

\* Search and permission simulation: fields that are edited and forms that ask.
BoxEdited(box) == [box EXCEPT !.typed = @ + 1, !.doubt = @ \cup {"edited"}]
BoxAsks(box) == [box EXCEPT !.doubt = @ \ {"edited"}]

Edit(b) ==
    /\ "boxes" \in rest.tools /\ view.box[b].typed < 2
    /\ view' = [view EXCEPT !.box[b] = BoxEdited(view.box[b])]
    /\ UNCHANGED <<records, saved, calls, rest>>

\* A slip: the form asks with the field of the render before.
Previous(b) == view.box[b].typed - 1
Query(b) == view.box[b].typed

AskBox(b) ==
    /\ "boxes" \in rest.tools /\ view.box[b].typed > 0
    /\ Submits([Call EXCEPT !.what = b, !.id = Query(b)],
             [view EXCEPT !.box[b] = BoxAsks(view.box[b])])

\* The live panel: where its socket is has to be asked first.
Connect ==
    /\ "live" \in rest.tools /\ ~view.connected
    /\ Submits([Call EXCEPT !.what = "connect"],
             [view EXCEPT !.twice = @ \/ view.socks # {} \/ \E c \in calls : c.what = "connect"])

\* A slip: the page puts the card away and then saves.
PutFirst(v, what) == [v EXCEPT !.away = @ \cup {what}]
Waits(v, what) == v

\* Onboarding, a notification read, a session revoked, a new address, access asked for,
\* and, once a question is answered with yes, the account scheduled for deletion.
Save(what) ==
    /\ "cards" \in rest.tools /\ what \in SavedCards \ view.away
    /\ what \in Privacy <=> view.asking
    /\ Submits([Call EXCEPT !.what = "save", !.by = what],
             [Waits(view, what) EXCEPT !.asking = FALSE])

\* eraseAccount asks first.
AskErase ==
    /\ "cards" \in rest.tools /\ ~view.asking /\ "erase" \notin view.away
    /\ view' = [view EXCEPT !.asking = TRUE]
    /\ UNCHANGED <<records, saved, calls, rest>>

CancelErase ==
    /\ view.asking
    /\ view' = [view EXCEPT !.asking = FALSE]
    /\ UNCHANGED <<records, saved, calls, rest>>

\* The tour is put away before its record is sent, and nobody looks at the answer.
FinishTour ==
    /\ "import" \in rest.tools /\ "tour" \notin view.away
    /\ Submits([Call EXCEPT !.what = "save", !.by = "tour"], [view EXCEPT !.away = @ \cup {"tour"}])

-----------------------------------------------------------------------------
(* The service                                                             *)

Becomes(c, d) == calls' = (calls \ {c}) \cup {d}

Stores(list, own) ==
    records' = [list |-> list, version |-> records.version + 1,
                own |-> IF own THEN records.version + 1 ELSE records.own]

Matching(f) == {i \in DOMAIN records.list : f \in {"all", records.list[i].kind}}

Listed(c) ==
    /\ c.what = "load"
    /\ Becomes(c, [c EXCEPT !.at = "ok", !.asOf = records.version,
                            !.rows = [i \in Matching(c.for) |-> records.list[i].status]])
    /\ UNCHANGED <<records, saved>>

Stored(c) ==
    /\ c.what \in {"create", "invite"}
    /\ Stores(Append(records.list, [kind |-> c.for, status |-> "open"]), TRUE)
    /\ Becomes(c, [c EXCEPT !.at = "ok", !.stored = @ + 1])
    /\ UNCHANGED saved

Updated(c) ==
    /\ c.what = "update"
    /\ Stores([records.list EXCEPT ![c.id].status = c.status], TRUE)
    /\ Becomes(c, [c EXCEPT !.at = "ok"])
    /\ UNCHANGED saved

Kept(c) ==
    /\ c.what \in Boxes \cup {"save", "connect"}
    /\ saved' = IF c.what = "save" THEN saved \cup {c.by} ELSE saved
    /\ Becomes(c, [c EXCEPT !.at = "ok"])
    /\ UNCHANGED records

ServeConsole ==
    /\ \E c \in calls : c.at = "sent" /\ (Listed(c) \/ Stored(c) \/ Updated(c) \/ Kept(c))
    /\ UNCHANGED <<view, rest>>

\* A call fails before it is served, or its answer is lost.
CallFails ==
    /\ \E c \in calls : c.at # "failed" /\ Becomes(c, [c EXCEPT !.at = "failed"])
    /\ Use("faults")
    /\ UNCHANGED <<records, saved, view>>

\* Another administrator completes a record.
OtherWrites ==
    /\ \E i \in DOMAIN records.list :
           records.list[i].status = "open"
           /\ Stores([records.list EXCEPT ![i].status = "complete"], FALSE)
    /\ Use("others")
    /\ UNCHANGED <<saved, calls, view>>

-----------------------------------------------------------------------------
(* Answers                                                                 *)

Later(m, n) == IF m > n THEN m ELSE n

\* A slip: whoever waits with a resting button goes on waiting.
KeepsBusy(c) == view.busy
Rests(c) == IF c.by \in {"effect", "create"} THEN FALSE ELSE view.busy

\* A load released the button while a record was still being created.
TooEarly(c) == c.by = "effect" /\ \E d \in calls : d.what = "create" \/ d.by = "create"

LoadArrives(c) ==
    /\ c.what = "load" /\ c.at = "ok"
    /\ calls' = calls \ {c}
    /\ LET late == IF c.n <= view.last THEN {"overtaken"} ELSE {}
           old == IF c.for # view.filter THEN {"closure"} ELSE {}
       IN view' = [view EXCEPT !.rows = c.rows, !.shown = c.for, !.asOf = c.asOf,
                               !.last = Later(c.n, @), !.doubt = late \cup old,
                               !.busy = Rests(c), !.early = @ \/ TooEarly(c)]
    /\ UNCHANGED <<records, saved, rest>>

\* What is shown under a form stays after a failure, and changes with an answer.
BoxFails(box, c) == [box EXCEPT !.doubt = @ \cup {"failed"}, !.last = Later(c.n, @)]
BoxShows(box, c) ==
    [box EXCEPT !.result = c.id, !.last = Later(c.n, @),
                !.doubt = (@ \cap {"edited"}) \cup (IF c.n < box.last THEN {"overtaken"} ELSE {})]

\* The page tells of the failure and shows what it has shown.
CallFailed(c) ==
    /\ c.at = "failed"
    /\ calls' = calls \ {c}
    /\ view' = [view EXCEPT
           !.doubt = IF c.what \in ListCalls THEN @ \cup {"failed"} ELSE @,
           !.last = CASE c.what = "load" -> Later(c.n, @)
                      [] c.what \in ListCalls \ {"load"} -> view.count
                      [] OTHER -> @,
           !.box = IF c.what \in Boxes THEN [@ EXCEPT ![c.what] = BoxFails(view.box[c.what], c)] ELSE @,
           !.busy = IF c.what = "create" THEN FALSE ELSE IF c.what = "load" THEN Rests(c) ELSE @,
           !.early = @ \/ (c.what = "load" /\ TooEarly(c))]
    /\ UNCHANGED <<records, saved, rest>>

\* A slip: the list stays as it was.
NoReload(c, by, v) ==
    /\ calls' = calls \ {c}
    /\ view' = [v EXCEPT !.busy = FALSE]
    /\ UNCHANGED <<records, saved, rest>>

\* After a record is written the page loads, with the "load" of the render it was clicked in.
Reloads(c, by, v) ==
    /\ calls' = (calls \ {c}) \cup {[Call EXCEPT !.n = view.count + 1, !.by = by, !.for = c.by]}
    /\ view' = [v EXCEPT !.count = @ + 1]
    /\ UNCHANGED <<records, saved, rest>>

RecordWritten(c) ==
    /\ c.what \in {"create", "update"} /\ c.at = "ok"
    /\ Reloads(c, c.what, view)

LineQueued(c) ==
    /\ c.what = "invite" /\ c.at = "ok"
    /\ IF c.lines > 1
       THEN /\ Becomes(c, [c EXCEPT !.at = "sent", !.lines = @ - 1, !.made = @ + 1])
            /\ UNCHANGED <<records, saved, view, rest>>
       ELSE Reloads(c, "invite",
                    [view EXCEPT !.told = [said |-> c.made + 1, stored |-> c.stored]])

\* A slip: a line that fails is left out, and counted.
GoesOnCounting(c) ==
    /\ c.what = "invite" /\ c.at = "failed"
    /\ Reloads(c, "invite", [view EXCEPT !.told = [said |-> c.made + 1, stored |-> c.stored]])
Ends(c) == c.what = "invite" /\ CallFailed(c)

BoxAnswered(c) ==
    /\ c.what \in Boxes /\ c.at = "ok"
    /\ calls' = calls \ {c}
    /\ view' = [view EXCEPT !.box[c.what] = BoxShows(view.box[c.what], c)]
    /\ UNCHANGED <<records, saved, rest>>

CardSaved(c) ==
    /\ c.what = "save" /\ c.at = "ok"
    /\ calls' = calls \ {c}
    /\ view' = [view EXCEPT !.away = @ \cup {c.by}]
    /\ UNCHANGED <<records, saved, rest>>

SocketStarts(c) ==
    /\ c.what = "connect" /\ c.at = "ok"
    /\ calls' = calls \ {c}
    /\ view' = [view EXCEPT !.socket = c.n, !.socks = @ \cup {[n |-> c.n, open |-> FALSE]}]
    /\ UNCHANGED <<records, saved, rest>>

SocketOpens(s) ==
    /\ ~s.open
    /\ view' = [view EXCEPT !.socks = (@ \ {s}) \cup {[s EXCEPT !.open = TRUE]}, !.connected = TRUE]
    /\ UNCHANGED <<records, saved, calls, rest>>

\* A slip: a socket that closes leaves its label.
StaysUp(on) == on
GoesDown(on) == FALSE

SocketCloses(s) ==
    /\ view' = [view EXCEPT !.socks = @ \ {s}, !.connected = GoesDown(@)]
    /\ Use("faults")
    /\ UNCHANGED <<records, saved, calls>>

Arrive ==
    \E c \in calls :
        \/ LoadArrives(c) \/ (c.what # "invite" /\ CallFailed(c)) \/ Ends(c)
        \/ RecordWritten(c) \/ LineQueued(c) \/ BoxAnswered(c) \/ CardSaved(c) \/ SocketStarts(c)

Clicks ==
    \/ \E f \in Filters : FilterBy(f)
    \/ Refresh
    \/ \E kind \in RecordKinds : CreateRecord(kind)
    \/ \E i \in DOMAIN records.list : UpdateRecord(i)
    \/ \E n \in 1..MaxLines + 1, header \in BOOLEAN : BulkInvite(n, header)
    \/ \E b \in Boxes : Edit(b) \/ AskBox(b)
    \/ Connect \/ AskErase \/ CancelErase \/ FinishTour
    \/ \E what \in SavedCards : Save(what)

Sockets == \E s \in view.socks : SocketOpens(s) \/ SocketCloses(s)

ConsoleNext == Clicks \/ ServeConsole \/ CallFails \/ OtherWrites \/ Arrive \/ Sockets

\* Calls are served and answered; nobody has to click.
ConsoleFairness == WF_consoleVars(ServeConsole) /\ WF_consoleVars(Arrive)

-----------------------------------------------------------------------------
(* What the page promises                                                  *)

ConsoleTypeOK ==
    /\ records.list \in Seq([kind : RecordKinds, status : {"open", "complete"}])
    /\ records.own \in 0..records.version
    /\ saved \subseteq SavedCards \cup {"tour"}
    /\ \A c \in calls :
           /\ c.at \in {"sent", "ok", "failed"} /\ c.n \in 1..view.count
           /\ \A d \in calls : c.n = d.n => c = d
    /\ view.filter \in Filters /\ view.shown \in Filters
    /\ DOMAIN view.rows \subseteq DOMAIN records.list
    /\ view.busy \in BOOLEAN /\ view.connected \in BOOLEAN /\ view.asking \in BOOLEAN
    /\ view.away \subseteq SavedCards \cup {"tour"}

\* With nothing under way the list is that of the filter on screen and holds all the page itself
\* has written, unless the last list came late, was asked for with the filter of an earlier
\* render, or a call has failed since.
ListIsCurrent ==
    view.last > 0 /\ view.doubt = {} /\ (\A c \in calls : c.what \notin ListCalls) =>
        view.shown = view.filter /\ view.asOf >= records.own

\* One record is created at a time, except after a list that was loading released the button
\* (busy is one flag for lists and records).
OneCreate ==
    view.early \/ Cardinality({c \in calls : c.what = "create"}) <= 1

\* An import says how many invitations it has queued, and as many are stored.
ToldIsStored == view.told.said = view.told.stored

\* What is shown under a search or a simulation belongs to what stands in its fields, unless they
\* were edited since, an answer came late, or failed.
AnswersMatch ==
    \A b \in Boxes :
        view.box[b].doubt = {} /\ (\A c \in calls : c.what # b) => view.box[b].result = view.box[b].typed

\* A card that has gone is stored, except that of the tour.
AwayIsStored == view.away \ {"tour"} \subseteq saved

\* "Connected" is shown exactly while the socket that would send is open, unless Connect was
\* pressed again before the first socket was open.
ConnectedIsTrue ==
    view.twice \/ (view.connected <=> [n |-> view.socket, open |-> TRUE] \in view.socks)

\* The list and the answers on screen are what was asked for last.
ShownIsAsked == ListIsCurrent /\ AnswersMatch

\* What the page says was saved, sent or connected is.
SaidIsTrue == ToldIsStored /\ AwayIsStored /\ ConnectedIsTrue

\* The page does not stay busy.
BusySettles == view.busy ~> ~view.busy
=============================================================================
