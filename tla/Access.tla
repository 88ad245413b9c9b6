------------------------------- MODULE Access -------------------------------
(***************************************************************************)
(* The administration pages as writers of roles and of role assignments    *)
(* (RolesPage.tsx, UsersPage.tsx): the usage list of a role, the matrix,   *)
(* the role editor, deletion with a fallback, the user drawer, bulk        *)
(* assignment, the registration and the profile form.                      *)
(*                                                                         *)
(* Every write replaces a whole set, computed from a copy the page holds: a *)
(* cached row, or what a form captured when it opened.  The model is one    *)
(* browser tab, its three cached lists, its one open dialog and its one     *)
(* confirmation, against a server other administrators write to as well.   *)
(***************************************************************************)
EXTENDS Integers, Sequences, FiniteSets, Functions

CONSTANTS
    Roles, Perms,   \* roles, known by their names, and permissions
    Accounts,       \* identifiers of accounts
    Default,        \* the role every registered account gets
    Sessions        \* bounds: the accounts there are at first, what the administrator
                    \* uses in a session, how many writes are sent, others write,
                    \* calls fail, lists are read again

Budget == [users : SUBSET Accounts, uses : SUBSET STRING,
           edits : Nat, others : Nat, faults : Nat, reads : Nat]

ASSUME ConstantsAssumption ==
    /\ IsFiniteSet(Roles) /\ IsFiniteSet(Perms) /\ IsFiniteSet(Accounts)
    /\ Default \in Roles /\ (Roles \cup Accounts) \cap {"none"} = {}
    /\ Sessions \subseteq Budget

VARIABLES
    perms,    \* perms[r]: the permissions of each role there is
    holds,    \* holds[u]: the roles of each account there is
    events,   \* registrations that rbac has not heard of yet
    lists,    \* lists[k]: a cached list and its fetch
    page,     \* the page on screen
    modal,    \* the dialog or drawer on screen
    ask,      \* the confirmation on screen
    calls,    \* requests under way
    behind,   \* behind[k]: rows that changed since list k was read, untold
    missed,   \* the same since the read that is still under way
    budget    \* what is left of the session's bounds

server == <<perms, holds, events>>
aging  == <<behind, missed>>
vars == <<perms, holds, events, lists, page, modal, ask, calls, behind, missed, budget>>

Spend(what) == budget[what] > 0 /\ budget' = [budget EXCEPT ![what] = @ - 1]

\* The administrator works with such a dialog or control in this session.
Uses(what) == what \in budget.uses

Flip(S, x) == IF x \in S THEN S \ {x} ELSE S \cup {x}
Apart(S, T) == (S \ T) \cup (T \ S)

-----------------------------------------------------------------------------
(* Cached lists: the roles, the accounts the usage dialog offers, and the   *)
(* accounts of the user directory.                                         *)

Key == {"roles", "usage", "users"}
PageList == IF page = "roles" THEN "roles" ELSE "users"

\* What the server answers now.
Answer(k) == IF k = "roles" THEN perms ELSE holds

Blank == [data |-> <<>>, phase |-> "idle", resp |-> <<>>, fresh |-> FALSE, bad |-> FALSE]

\* Some component on screen reads the list.
Active(k) == CASE k = "roles" -> TRUE
               [] k = "usage" -> modal.kind = "usage"
               [] k = "users" -> page = "users"

Fetching(l) == [l EXCEPT !.phase = "asked", !.resp = <<>>]

\* A component that reads list k appears.
Mounted(L, k) ==
    IF L[k].fresh \/ L[k].phase # "idle" THEN L ELSE [L EXCEPT ![k] = Fetching(@)]

\* invalidateQueries: what is on screen is fetched again, a fetch under way restarted.
Invalidated(L, K) ==
    [k \in Key |->
        IF k \notin K THEN L[k]
        ELSE LET l == [L[k] EXCEPT !.fresh = FALSE] IN IF Active(k) THEN Fetching(l) ELSE l]

\* The lists of K do not learn that the rows X changed.
Untold(K, X) ==
    /\ behind' = [k \in Key |-> IF k \in K THEN behind[k] \cup X ELSE behind[k]]
    /\ missed' = [k \in Key |-> IF k \in K /\ lists[k].phase = "read" THEN missed[k] \cup X
                               ELSE missed[k]]

\* A closed dialog's fetch is not restarted: its answer, from before the write,
\* passes for an up to date list.
Overtaken(K, X) ==
    /\ missed' = [k \in Key |-> IF k \in K /\ ~Active(k) /\ lists[k].phase = "read"
                                THEN missed[k] \cup X ELSE missed[k]]
    /\ UNCHANGED behind

-----------------------------------------------------------------------------
(* Writes.  A call names the set it puts in place of another, what the user *)
(* meant to change in it (want) and, for a form that makes several requests, *)
(* those still to make.                                                    *)

Op == {"assign", "bulk", "matrix", "editor", "creator", "drop",
       "drawer", "directory", "register", "profile"}

\* The lists a write of the kind changes, and those it refreshes afterwards.
Changes(op) == CASE op \in {"matrix", "editor", "creator"} -> {"roles"}
                 [] op = "drop" -> Key
                 [] op = "profile" -> {}
                 [] OTHER -> {"usage", "users"}

\* A slip: the usage list is not refreshed.
ForgetsUsage(op) == CASE op \in {"assign", "bulk", "matrix", "editor", "creator", "drop"} -> {"roles"}
                      [] OTHER -> {"users"}

Refreshes(op) == CASE op \in {"assign", "bulk"} -> {"usage", "roles"}
                   [] op \in {"matrix", "editor", "creator", "drop"} -> {"roles"}
                   [] OTHER -> {"users"}

\* Nothing is on its way that could change what list k shows.
Quiet(k) ==
    /\ lists[k].phase = "idle" /\ ~lists[k].bad
    /\ \A c \in calls : k \notin Changes(c.op)

Certain(k, x) == Quiet(k) /\ x \notin behind[k]

\* "tie": what is left of the component that sent the call: its dialog, only its
\* page, nothing, or (a bulk write that has failed) not even its mutation.
Call(op, x, want, ids, todo, tie, old, seen) ==
    [id |-> budget["edits"], op |-> op, on |-> x, want |-> want, ids |-> ids, todo |-> todo,
     st |-> "sent", tie |-> tie, old |-> old, seen |-> seen, undo |-> <<>>]

Pending(op, ties) == \E c \in calls : c.op = op /\ c.tie \in ties

\* The calls of one mutation.
Batch(c) == {d \in calls : d.id = c.id /\ d.tie # "stray"}

Loosened(C, from, to) == {IF c.tie \in from THEN [c EXCEPT !.tie = to] ELSE c : c \in C}

-----------------------------------------------------------------------------
NoModal == [kind |-> "none", on |-> "none", base |-> {}, ids |-> {}, old |-> FALSE,
            seen |-> {}, busy |-> FALSE, hung |-> FALSE]
NoQuestion == [q |-> "none", form |-> NoModal, tie |-> "modal", first |-> "modal"]

Forms    == {"editor", "creator", "profile"}  \* dialogs that ask before they are lost
Overlays == {"none", "drawer"}                \* what is on screen whatever the page

Dirty == modal.kind \in Forms /\ modal.ids # modal.base

Fields == {"email", "password"}
Items  == Roles \cup Perms \cup Fields

TypeOK ==
    /\ DOMAIN perms \subseteq Roles /\ DOMAIN holds \subseteq Accounts
    /\ \A r \in DOMAIN perms : perms[r] \subseteq Perms
    /\ \A u \in DOMAIN holds : holds[u] \subseteq DOMAIN perms
    /\ events \subseteq DOMAIN holds
    /\ \A k \in Key : lists[k].phase \in {"idle", "asked", "read"}
    /\ \A u \in DOMAIN lists["users"].data : lists["users"].data[u] \subseteq Roles
    /\ page \in {"roles", "users"}
    /\ modal.ids \subseteq Items /\ modal.base \subseteq Items
    /\ ask.q \in {"none", "reduce", "discard"}
    /\ \A c \in calls : c.op \in Op /\ c.todo # <<>>
    /\ behind \in [Key -> SUBSET (Roles \cup Accounts)]
    /\ missed \in [Key -> SUBSET (Roles \cup Accounts)]
    /\ \A what \in {"edits", "others", "faults", "reads"} : budget[what] \in Nat

\* The roles have been loaded, no role is held yet, the default one is empty.
Init ==
    /\ perms = [r \in Roles |-> IF r = Default THEN {} ELSE Perms]
    /\ budget \in Sessions
    /\ holds = [u \in budget.users |-> {}]
    /\ events = {}
    /\ page \in {"roles", "users"}
    /\ LET loaded == [k \in Key |-> IF k = "roles" THEN [Blank EXCEPT !.data = perms, !.fresh = TRUE]
                                     ELSE Blank]
       IN  lists = Mounted(loaded, PageList)
    /\ modal = NoModal /\ ask = NoQuestion
    /\ calls = {}
    /\ behind = [k \in Key |-> {}] /\ missed = [k \in Key |-> {}]
-----------------------------------------------------------------------------
(* Fetches                                                                 *)

Reads(k) ==
    /\ lists[k].phase = "asked"
    /\ lists' = [lists EXCEPT ![k].phase = "read", ![k].resp = Answer(k)]
    /\ missed' = [missed EXCEPT ![k] = {}]
    /\ UNCHANGED <<server, page, modal, ask, calls, behind, budget>>

Arrives(k) ==
    /\ lists[k].phase = "read"
    /\ lists' = [lists EXCEPT ![k] = [Blank EXCEPT !.data = lists[k].resp, !.fresh = TRUE]]
    /\ behind' = [behind EXCEPT ![k] = missed[k]]
    /\ missed' = [missed EXCEPT ![k] = {}]
    /\ UNCHANGED <<server, page, modal, ask, calls, budget>>

\* The list of the page itself failed: its dialog goes with it, and shows what it
\* started from when it is back.
FetchFails(k) ==
    /\ lists[k].phase # "idle" /\ Spend("faults")
    /\ lists' = [lists EXCEPT ![k].phase = "idle", ![k].resp = <<>>, ![k].bad = TRUE]
    /\ IF k = PageList /\ modal.kind \notin Overlays
       THEN /\ modal' = [NoModal EXCEPT !.kind = modal.kind, !.on = modal.on, !.base = modal.base,
                                        !.ids = modal.base, !.old = modal.old, !.seen = modal.seen]
            /\ calls' = Loosened(calls, {"modal"}, "page")
            /\ ask' = IF ask.tie = "modal" /\ ask.q # "none" THEN [ask EXCEPT !.tie = "page"] ELSE ask
       ELSE UNCHANGED <<modal, calls, ask>>
    /\ UNCHANGED <<server, page, aging>>

\* The Retry button, or the window gets the focus back after staleTime.
Refetches(k) ==
    /\ Active(k) /\ lists[k].phase = "idle"
    /\ IF lists[k].bad THEN UNCHANGED budget ELSE Spend("reads")
    /\ lists' = [lists EXCEPT ![k] = Fetching(@)]
    /\ UNCHANGED <<server, page, modal, ask, calls, aging>>

-----------------------------------------------------------------------------
(* The server                                                              *)

Served(c, st) == calls' = (calls \ {c}) \cup {[c EXCEPT !.st = st]}
Asks(c, what) == c.st = "sent" /\ Head(c.todo) = what

Holders(r) == {u \in DOMAIN holds : r \in holds[u]}

\* The lists that a write changes and its success leaves as they were: each page
\* refreshes its own.
Unheard(c) == IF c.tie = "stray" THEN Changes(c.op)
              ELSE CASE c.op \in {"assign", "bulk"} -> {"users"}
                     [] c.op = "drop" -> {"usage", "users"}
                     [] OTHER -> {"usage"}

\* SetUserRoles: the whole set, all of whose roles must be there.
SetUserRoles(c) ==
    /\ Asks(c, "put") /\ c.ids \subseteq DOMAIN perms
    /\ holds' = [holds EXCEPT ![c.on] = c.ids]
    /\ Untold(Unheard(c), {c.on})
    /\ UNCHANGED <<perms, events>>

UpdateRole(c) ==
    /\ Asks(c, "patch") /\ c.on \in DOMAIN perms
    /\ perms' = [perms EXCEPT ![c.on] = c.ids]
    /\ UNCHANGED <<holds, events, aging>>

CreateRole(c) ==
    /\ Asks(c, "post") /\ c.on \notin DOMAIN perms
    /\ perms' = [r \in DOMAIN perms \cup {c.on} |-> IF r = c.on THEN c.ids ELSE perms[r]]
    /\ UNCHANGED <<holds, events, aging>>

\* A slip: the holders of a deleted role are not moved.
NotMoved(c) == holds

\* The holders of a deleted role get the fallback instead.
Moved(c) == [u \in DOMAIN holds |->
                IF u \in Holders(c.on) THEN (holds[u] \ {c.on}) \cup c.ids ELSE holds[u]]

\* The role the holders are moved to is another one, and there.
Fallback(c) == c.ids # {} /\ c.ids \subseteq DOMAIN perms \ {c.on}

DeleteRole(c) ==
    /\ Asks(c, "drop") /\ c.on \in DOMAIN perms
    /\ Holders(c.on) # {} => Fallback(c)
    /\ holds' = Moved(c)
    /\ perms' = [r \in DOMAIN perms \ {c.on} |-> perms[r]]
    /\ Untold(Unheard(c), Holders(c.on))
    /\ UNCHANGED events

RegisterAccount(c) ==
    /\ Asks(c, "register") /\ c.on \notin DOMAIN holds
    /\ holds' = [u \in DOMAIN holds \cup {c.on} |-> IF u = c.on THEN {} ELSE holds[u]]
    /\ events' = events \cup {c.on}
    /\ Untold({"usage"}, {c.on})
    /\ UNCHANGED perms

\* The profile, the password of the administrator, the new password of the account.
Plain(c) ==
    /\ \E what \in {"details", "verify", "profile", "password"} : Asks(c, what)
    /\ UNCHANGED <<server, aging>>

Serve(c) ==
    /\ \/ SetUserRoles(c) \/ UpdateRole(c) \/ CreateRole(c) \/ DeleteRole(c)
       \/ RegisterAccount(c) \/ Plain(c)
    /\ Served(c, "ok")
    /\ UNCHANGED <<lists, page, modal, ask, budget>>

\* The server says no: the set names a role that is gone, the role is gone or
\* there already, its holders have nowhere to go, the address is taken, a
\* password is wrong or weak, the profile is not there yet.
Refuses(c) ==
    /\ c.st = "sent"
    /\ CASE Head(c.todo) = "put"      -> ~(c.ids \subseteq DOMAIN perms)
         [] Head(c.todo) = "patch"    -> c.on \notin DOMAIN perms
         [] Head(c.todo) = "post"     -> c.on \in DOMAIN perms
         [] Head(c.todo) = "drop"     -> \/ c.on \notin DOMAIN perms
                                         \/ Holders(c.on) # {} /\ ~Fallback(c)
         [] Head(c.todo) = "register" -> c.on \in DOMAIN holds
         [] OTHER                     -> TRUE
    /\ Served(c, "bad")
    /\ UNCHANGED <<server, lists, page, modal, ask, aging, budget>>

\* The call never reaches the server, or its answer never the browser.
Breaks(c) ==
    /\ c.st \in {"sent", "ok"} /\ Spend("faults")
    /\ Served(c, IF c.st = "ok" THEN "lost" ELSE "bad")
    /\ UNCHANGED <<server, lists, page, modal, ask, aging>>

\* AssignDefaultRole: rbac hears of a registration, adds the default role, and
\* creates that role again when it is gone.
AssignDefaultRole(u) ==
    /\ u \in events
    /\ events' = events \ {u}
    /\ perms' = [r \in DOMAIN perms \cup {Default} |-> IF r \in DOMAIN perms THEN perms[r] ELSE {}]
    /\ holds' = [holds EXCEPT ![u] = @ \cup {Default}]
    /\ Untold(Key, {u} \cup ({Default} \ DOMAIN perms))
    /\ UNCHANGED <<lists, page, modal, ask, calls, budget>>

\* Another administrator changes the roles of an account or a role.
OtherAssigns(u) ==
    /\ Spend("others")
    /\ \E r \in DOMAIN perms : holds' = [holds EXCEPT ![u] = Flip(@, r)]
    /\ Untold({"usage", "users"}, {u})
    /\ UNCHANGED <<perms, events, lists, page, modal, ask, calls>>

OtherEdits(r) ==
    /\ Spend("others")
    /\ \E p \in Perms : perms' = [perms EXCEPT ![r] = Flip(@, p)]
    /\ Untold({"roles"}, {r})
    /\ UNCHANGED <<holds, events, lists, page, modal, ask, calls>>

-----------------------------------------------------------------------------
(* Answers reach the browser                                               *)

\* The dialogs a page-level callback closes, whichever role or account they show.
Closes(op) == IF op \in {"editor", "creator", "drop", "register", "profile"} THEN {op} ELSE {}

Orphaned(a) == IF a.q # "none" /\ a.tie = "modal" THEN [a EXCEPT !.tie = "page"] ELSE a

\* The next request of a form that makes several.
Continues(c) ==
    /\ c.st = "ok" /\ Len(c.todo) > 1
    /\ calls' = (calls \ {c}) \cup {[c EXCEPT !.st = "sent", !.todo = Tail(@)]}
    /\ UNCHANGED <<server, lists, page, modal, ask, aging, budget>>

\* onSuccess: of a bulk write when all its calls are through.
Succeeds(c) ==
    /\ c.tie # "stray"
    /\ \A d \in Batch(c) : d.st = "ok" /\ Len(d.todo) = 1
    /\ lists' = Invalidated(lists, Refreshes(c.op))
    /\ Overtaken(Refreshes(c.op), {d.on : d \in Batch(c)})
    /\ LET rest == calls \ Batch(c)
       IN  IF c.tie # "away" /\ modal.kind \in Closes(c.op)
           THEN /\ modal' = NoModal
                /\ calls' = Loosened(rest, {"modal"}, "page")
                /\ ask' = Orphaned(ask)
           ELSE /\ modal' = IF c.op = "drawer" /\ c.tie = "modal"
                            THEN [modal EXCEPT !.base = c.ids, !.seen = c.ids, !.busy = FALSE]
                            ELSE modal
                /\ calls' = IF c.op = "directory" /\ c.tie = "page"
                            THEN rest \cup {[c EXCEPT !.st = "done"]} ELSE rest
                /\ UNCHANGED ask
    /\ UNCHANGED <<server, page, budget>>

\* The matrix brings back the list it had, and asks for it again.
RolledBack(c) == IF c.op # "matrix" THEN lists
                 ELSE Invalidated([lists EXCEPT !["roles"].data = c.undo], {"roles"})

\* onError: the form says so and stays.  Nothing is refreshed, although the call
\* may have been served, and the other calls of a bulk write go on.
Fails(c) ==
    /\ c.st \in {"bad", "lost"} /\ c.tie # "stray"
    /\ calls' = {IF d \in Batch(c) THEN [d EXCEPT !.tie = "stray"] ELSE d : d \in calls \ {c}}
    /\ lists' = RolledBack(c)
    /\ modal' = IF c.tie = "modal" THEN [modal EXCEPT !.busy = FALSE] ELSE modal
    /\ Untold(Changes(c.op), {d.on : d \in {e \in Batch(c) : e.st \in {"ok", "lost"}}})
    /\ UNCHANGED <<server, page, ask, budget>>

\* assignBulkRole waits for the rows before its button comes back.
RefreshEnds(c) ==
    /\ c.st = "done" /\ lists["users"].phase = "idle"
    /\ calls' = calls \ {c}
    /\ UNCHANGED <<server, lists, page, modal, ask, aging, budget>>

Forgotten(c) ==
    /\ c.tie = "stray" /\ c.st # "sent"
    /\ calls' = calls \ {c}
    /\ UNCHANGED <<server, lists, page, modal, ask, aging, budget>>

-----------------------------------------------------------------------------
(* The user                                                                *)

\* The page is there, not its error message, and nothing covers it.
Free == modal.kind = "none" /\ ask.q = "none" /\ ~lists[PageList].bad

\* The dialog is there to work with.
Shown(kind) == modal.kind = kind /\ ask.q = "none" /\ (kind \in Overlays \/ ~lists[PageList].bad)

Row(k, x) == lists[k].data[x]
Rows(k)   == DOMAIN lists[k].data
Now(k, x) == IF x \in DOMAIN Answer(k) THEN Answer(k)[x] ELSE {}

Open(kind, x, base, ids) ==
    modal' = [NoModal EXCEPT !.kind = kind, !.on = x, !.base = base, !.ids = ids, !.seen = base]

\* A form that starts from a row keeps what the row said when it opened.
OpenRow(kind, k, x) ==
    modal' = [NoModal EXCEPT !.kind = kind, !.on = x, !.base = Row(k, x), !.ids = Row(k, x),
                             !.old = ~Certain(k, x), !.seen = Now(k, x)]

OpenUsage(r) ==
    /\ page = "roles" /\ Free /\ r \in Rows("roles")
    /\ Open("usage", r, {}, {})
    /\ lists' = Mounted(lists, "usage")

OpenEditor(r) ==
    /\ page = "roles" /\ Free /\ r \in Rows("roles")
    /\ OpenRow("editor", "roles", r)
    /\ UNCHANGED lists

\* A new role, empty or a copy of another, under a name that may be taken.
OpenCreator(r) ==
    /\ page = "roles" /\ Free
    /\ \E P \in {{}} \cup Range(lists["roles"].data) : Open("creator", r, P, P)
    /\ UNCHANGED lists

OpenDeletion(r) ==
    /\ page = "roles" /\ Free /\ r \in Rows("roles")
    /\ Open("drop", r, {}, {})
    /\ UNCHANGED lists

OpenDrawer(u) ==
    /\ page = "users" /\ Free /\ u \in Rows("users")
    /\ OpenRow("drawer", "users", u)
    /\ lists' = Mounted(lists, "roles")

\* A new account, with the roles of another one when it is a duplicate.
OpenRegistration(u) ==
    /\ page = "users" /\ Free
    /\ \E R \in {{}} \cup Range(lists["users"].data) : Open("register", u, R, R)
    /\ lists' = Mounted(lists, "roles")

OpenProfile(u) ==
    /\ page = "users" /\ Free /\ u \in Rows("users")
    /\ Open("profile", u, {}, {})
    /\ UNCHANGED lists

Opens ==
    /\ \/ \E r \in Roles : OpenUsage(r) \/ OpenEditor(r) \/ OpenCreator(r) \/ OpenDeletion(r)
       \/ \E u \in Accounts : OpenDrawer(u) \/ OpenProfile(u)
       \/ \E u \in Accounts \ budget.users : OpenRegistration(u)
    /\ Uses(modal'.kind)
    /\ UNCHANGED <<server, page, ask, calls, aging, budget>>

\* A box is ticked, a field typed into.
Ticks(kind, choices) ==
    /\ Shown(kind)
    /\ \E x \in choices : modal' = [modal EXCEPT !.ids = Flip(@, x)]
    /\ UNCHANGED <<server, lists, page, ask, calls, aging, budget>>

TicksPermission   == Ticks("editor", Perms) \/ Ticks("creator", Perms)
TicksDrawer       == Ticks("drawer", Rows("roles"))
TicksRegistration == Ticks("register", Rows("roles"))
EditsProfile      == Ticks("profile", Fields)

\* The fallback is one of the other roles on the page; none is needed when the
\* role's row, which may be old, counts no user.
ChoosesFallback ==
    /\ Shown("drop")
    /\ \E R \in {{r} : r \in Rows("roles") \ {modal.on}} : modal' = [modal EXCEPT !.ids = R]
    /\ UNCHANGED <<server, lists, page, ask, calls, aging, budget>>

-----------------------------------------------------------------------------
(* Writes from rows: the usage dialog, the matrix, the bulk assignment      *)

RowCall(op, k, x, item, ids, what, tie) ==
    Call(op, x, {item}, ids, <<what>>, tie, ~Certain(k, x), Now(k, x))

\* The set that is sent: what the row shows, with or without the role.
With(S, r, add) == IF add THEN S \cup {r} ELSE S \ {r}

Sends(C) ==
    /\ Spend("edits")
    /\ calls' = calls \cup C
    /\ UNCHANGED <<server, page, ask, aging>>

Assign(u) ==
    /\ Shown("usage") /\ u \in Rows("usage") /\ ~Pending("assign", {"modal"})
    /\ Sends({RowCall("assign", "usage", u, modal.on,
                  With(Row("usage", u), modal.on, modal.on \notin Row("usage", u)), "put", "modal")})
    /\ UNCHANGED <<lists, modal>>

Bulk(U, add) ==
    /\ Shown("usage") /\ U # {} /\ ~Pending("bulk", {"modal"})
    /\ Sends({RowCall("bulk", "usage", u, modal.on,
                   With(Row("usage", u), modal.on, add), "put", "modal") : u \in U})
    /\ UNCHANGED <<lists, modal>>

AssignSelected(U, r) ==
    /\ Uses("directory") /\ page = "users" /\ Free
    /\ U # {} /\ r \in Rows("roles") /\ ~Pending("directory", {"page"})
    /\ Sends({RowCall("directory", "users", u, r, With(Row("users", u), r, TRUE), "put", "page") :
                 u \in U})
    /\ UNCHANGED <<lists, modal>>

\* The box flips at once: a fetch under way is given up, and the list kept for
\* the case of a failure.
ToggleMatrix(r, p) ==
    /\ Uses("matrix") /\ page = "roles" /\ Free
    /\ r \in Rows("roles") /\ ~Pending("matrix", {"page"})
    /\ Sends({[RowCall("matrix", "roles", r, p, Flip(Row("roles", r), p), "patch", "page")
                  EXCEPT !.undo = lists["roles"].data]})
    /\ lists' = [lists EXCEPT !["roles"].phase = "idle", !["roles"].resp = <<>>,
                              !["roles"].data = [@ EXCEPT ![r] = Flip(Row("roles", r), p)]]
    /\ UNCHANGED modal

-----------------------------------------------------------------------------
(* Writes from forms                                                       *)

FormCall(m, todo, tie) == Call(m.kind, m.on, Apart(m.base, m.ids), m.ids, todo, tie, m.old, m.seen)

SendForm(todo) ==
    /\ Sends({FormCall(modal, todo, "modal")})
    /\ modal' = [modal EXCEPT !.busy = TRUE]
    /\ UNCHANGED lists

Submittable(kind) == Shown(kind) /\ ~modal.busy

Reduces(m) == Cardinality(m.ids) < Cardinality(m.base)

Question(q) == [q |-> q, form |-> modal, tie |-> "modal", first |-> "modal"]

SaveEditor ==
    /\ Submittable("editor") /\ ~Reduces(modal)
    /\ SendForm(<<"patch">>)

\* Fewer permissions than before: the save waits for an answer.
AskReduce ==
    /\ Submittable("editor") /\ Reduces(modal)
    /\ ask' = Question("reduce")
    /\ modal' = [modal EXCEPT !.busy = TRUE]
    /\ UNCHANGED <<server, lists, page, calls, aging, budget>>

SaveNewRole == Submittable("creator") /\ SendForm(<<"post">>)
SaveRoles   == Submittable("drawer") /\ SendForm(<<"put">>)
Remove      == Submittable("drop") /\ SendForm(<<"drop">>)

When(cond, what) == IF cond THEN <<what>> ELSE <<>>

Register ==
    /\ Submittable("register")
    /\ \E named \in BOOLEAN :
          SendForm(<<"register">> \o When(named, "details") \o When(modal.ids # {}, "put"))

SaveProfile ==
    /\ Submittable("profile")
    /\ SendForm(When("email" \in modal.ids, "verify") \o <<"profile">>
                \o When("password" \in modal.ids, "password"))

-----------------------------------------------------------------------------
(* Closing, questions and navigation                                       *)

\* The promise of a question that the dialog waits for is never resolved.
Unanswered(m) == m.busy /\ ask.q = "reduce" /\ ask.tie = "modal"

Close(m, C, a) ==
    /\ modal' = NoModal
    /\ calls' = Loosened(C, {"modal"}, "page")
    /\ ask' = Orphaned(a)

\* A slip: edits are not asked for.
CloseAtOnce(m, a) == Close(m, calls, a)

\* closeSafely of dialog m while question a stays on screen: an edited form asks
\* first, and its question takes the place of the one there is.
CloseSafely(m, a) ==
    IF m.kind \in Forms /\ m.ids # m.base
    THEN /\ ask' = [q |-> "discard", form |-> m, tie |-> "modal", first |-> "modal"]
         /\ modal' = [m EXCEPT !.hung = @ \/ (a.q # "none" /\ Unanswered(m))]
         /\ UNCHANGED calls
    ELSE Close(m, calls, a)

\* Cancel, the cross, the backdrop, Escape.
Leaves ==
    /\ modal.kind # "none" /\ Shown(modal.kind)
    /\ CloseSafely(modal, ask)
    /\ UNCHANGED <<server, lists, page, aging, budget>>

\* A slip: the save goes on waiting.
KeptBusy == modal

\* The save that waited for the answer ends.
Released == IF ask.q = "reduce" /\ ask.tie = "modal" THEN [modal EXCEPT !.busy = FALSE] ELSE modal

No ==
    /\ ask.q # "none"
    /\ modal' = Released
    /\ ask' = NoQuestion
    /\ UNCHANGED <<server, lists, page, calls, aging, budget>>

\* The save goes on with what the form said, whether or not the form is there.
YesReduce ==
    /\ ask.q = "reduce"
    /\ Spend("edits")
    /\ calls' = calls \cup {FormCall(ask.form, <<"patch">>, ask.tie)}
    /\ ask' = NoQuestion
    /\ UNCHANGED <<server, lists, page, modal, aging>>

\* The page's onClose closes whichever form of the kind is open.
YesDiscard ==
    /\ ask.q = "discard"
    /\ IF ask.tie # "away" /\ modal.kind = ask.form.kind
       THEN Close(modal, calls, NoQuestion)
       ELSE ask' = NoQuestion /\ UNCHANGED <<modal, calls>>
    /\ UNCHANGED <<server, lists, page, aging, budget>>

\* A render of the dialog puts its key listener behind that of the question.
Rerenders ==
    /\ ask.q # "none" /\ ask.first # "confirm"
    /\ ask' = [ask EXCEPT !.first = "confirm"]
    /\ UNCHANGED <<server, lists, page, modal, calls, aging, budget>>

\* Escape reaches both the question and the dialog beneath it.
Escapes ==
    /\ ask.q # "none"
    /\ modal.kind \notin Overlays /\ ~lists[PageList].bad
    /\ CASE ask.first = "confirm" -> CloseSafely(Released, NoQuestion)
         [] ask.first # "confirm" /\ Dirty -> CloseSafely(modal, ask)
         [] OTHER -> CloseSafely(modal, NoQuestion)
    /\ UNCHANGED <<server, lists, page, aging, budget>>

\* The other page: this one's dialogs and mutations are gone, the drawer
\* stays, and a fetch of the directory is given up.
Navigate(p) ==
    /\ Uses("pages") /\ p # page
    /\ page' = p
    /\ LET stays(c) == c.op = "drawer" /\ c.tie = "modal" /\ modal.kind = "drawer"
       IN  calls' = {IF stays(c) \/ c.tie = "stray" THEN c ELSE [c EXCEPT !.tie = "away"] :
                       c \in {d \in calls : d.st # "done"}}
    /\ modal' = IF modal.kind \in Overlays THEN modal ELSE NoModal
    /\ ask' = IF ask.q = "none" THEN ask ELSE [ask EXCEPT !.tie = "away"]
    /\ lists' = IF p = "users" THEN Mounted(lists, "users")
                ELSE [lists EXCEPT !["users"].phase = "idle", !["users"].resp = <<>>]
    /\ UNCHANGED <<server, aging, budget>>

-----------------------------------------------------------------------------
Fetches ==
    \E k \in Key : Reads(k) \/ Arrives(k) \/ FetchFails(k) \/ Refetches(k)

Requests ==
    \E c \in calls :
        \/ Serve(c) \/ Refuses(c) \/ Breaks(c)
        \/ Continues(c) \/ Succeeds(c) \/ Fails(c) \/ RefreshEnds(c) \/ Forgotten(c)

Elsewhere ==
    \/ \E u \in Accounts : u \in DOMAIN holds /\ OtherAssigns(u)
    \/ \E u \in Accounts : AssignDefaultRole(u)
    \/ \E r \in Roles : r \in DOMAIN perms /\ OtherEdits(r)

RowWrites ==
    \/ \E u \in Accounts : Assign(u)
    \/ \E U \in SUBSET Rows("usage"), add \in BOOLEAN : Bulk(U, add)
    \/ \E U \in SUBSET Rows("users"), r \in Roles : AssignSelected(U, r)
    \/ \E r \in Roles, p \in Perms : ToggleMatrix(r, p)

FormWrites == SaveEditor \/ AskReduce \/ SaveNewRole \/ SaveRoles \/ Remove \/ Register \/ SaveProfile

Dialogs ==
    \/ Opens \/ Leaves
    \/ TicksPermission \/ TicksDrawer \/ TicksRegistration \/ EditsProfile \/ ChoosesFallback
    \/ No \/ YesReduce \/ YesDiscard \/ Rerenders \/ Escapes
    \/ \E p \in {"roles", "users"} : Navigate(p)

Next == Fetches \/ Requests \/ Elsewhere \/ RowWrites \/ FormWrites \/ Dialogs

Spec == Init /\ [][Next]_vars

-----------------------------------------------------------------------------
(* Properties                                                              *)

\* A write that replaces a whole set changes nothing but what was asked for,
\* unless the row changed since it was read and nobody told this tab: the page
\* refreshes every list its own writes change before it offers them as up to date.
AskedOnly ==
    [][\A c \in calls :
          /\ c.st = "sent" /\ c.op # "register" /\ Head(c.todo) \in {"put", "patch"}
          /\ \E d \in calls' : d = [c EXCEPT !.st = "ok"]
          => LET now == Now(IF Head(c.todo) = "put" THEN "users" ELSE "roles", c.on)
             IN  c.old \/ now # c.seen \/ Apart(now, c.ids) \subseteq c.want]_vars

\* The edits of a form are lost only by the answer to its question, a save of
\* such a form that ends, a list of the page that fails, or a change of page.
EditsAreKept ==
    [][/\ Dirty
       /\ modal'.kind # modal.kind \/ Cardinality(Apart(modal'.ids, modal.ids)) > 1
       => \/ page' # page \/ lists'[PageList].bad
          \/ \E c \in calls \ calls' : c.op = modal.kind
          \/ ask.q = "discard" /\ ask.form.kind = modal.kind /\ ask'.q = "none"]_vars

\* A form that is busy waits for a question on screen or for its own request,
\* unless an Escape replaced its question.
BusyIsAnswered ==
    modal.busy => \/ ask.q = "reduce" /\ ask.tie = "modal"
                  \/ Pending(modal.kind, {"modal"})
                  \/ modal.hung

=============================================================================
