----------------------------- MODULE Directory -----------------------------
(***************************************************************************)
(* The user directory of the administration pages (UsersPage.tsx): the     *)
(* list and its cache, filters and pages, selection, deletion with undo,   *)
(* registration and import, live updates.                                  *)
(*                                                                         *)
(* The server is a set of accounts.  A query is the order in which it      *)
(* would list the accounts that match the filters, and a view is a query   *)
(* with an offset: the key of a cache entry.  Of the cache, a library, the *)
(* model has what the page relies on: one fetch of the view on screen, the *)
(* last view's rows until a new view has some, an abort when the view      *)
(* changes, and an invalidation that restarts a refetch but joins a first  *)
(* load.                                                                   *)
(***************************************************************************)
EXTENDS Integers, Sequences, FiniteSets, Functions

CONSTANTS
    Ids,         \* identifiers of accounts
    Registered,  \* those that have an account at first
    Queries,     \* what filters and sort order select: sequences of Ids
    PageSize,    \* rows of a page
    MaxBatch,    \* bound on the deletions that are confirmed
    MaxMoves,    \* bound on the changes of view
    MaxFaults,   \* bound on the calls that fail
    MaxOthers    \* bound on what other administrators delete

ASSUME ConstantsAssumption ==
    /\ IsFiniteSet(Ids) /\ Registered \subseteq Ids
    /\ Queries \subseteq Seq(Ids) /\ Queries # {}
    /\ PageSize \in Nat \ {0}
    /\ MaxBatch \in Nat /\ MaxMoves \in Nat /\ MaxFaults \in Nat /\ MaxOthers \in Nat

Batches == 1 .. MaxBatch
Offsets == {PageSize * k : k \in 0 .. Cardinality(Ids) \div PageSize}
Views   == Queries \X Offsets

VARIABLES
    account,   \* account[u]: "new" before it is registered, then "live" until deleted
    typed,     \* the filters as the form shows them
    query,     \* the filters of the list: the search text follows after 300 ms
    offset,    \* rows before the page
    cache,     \* cache[v]: the cached answer to view v
    last,      \* the last view that had data of its own
    fetch,     \* the request for the view on screen
    selected,  \* selectedIds
    pending,   \* pendingDeleteIds
    asking,    \* the accounts of the open confirmation
    batch,     \* the deletions that were confirmed
    saved,     \* saved[b]: the lists that a failure of b would bring back
    work,      \* work[b][u]: how far deletion b is with account u
    live,      \* liveEnabled
    visible,   \* the tab is in the foreground
    emailHit,  \* a cached email check answered that the address is taken
    adding,    \* what is going on in the registration form or the import
    news,      \* messages of other administrators on their way
    budget     \* moves, faults and deletions of others that are left

server   == <<account, news, budget>>
view     == <<typed, query, offset>>
list     == <<cache, last, fetch>>
deletion == <<pending, batch, saved, work>>
mode     == <<live, visible>>
vars == <<account, typed, query, offset, cache, last, fetch, selected, pending, asking,
          batch, saved, work, live, visible, emailHit, adding, news, budget>>

-----------------------------------------------------------------------------
\* The cache.

\* What the server answers to a view now.
Answer(v) ==
    LET hits      == {i \in DOMAIN v[1] : account[v[1][i]] = "live"}
        Before(i) == Cardinality({j \in hits : j < i})
    IN  [rows  |-> {v[1][i] : i \in {j \in hits : Before(j) \in v[2] .. v[2] + PageSize - 1}},
         total |-> Cardinality(hits)]

\* "first": the data are of the view's first load, which nothing restarts.
Blank == [has |-> FALSE, rows |-> {}, total |-> 0, stale |-> TRUE, err |-> FALSE, first |-> FALSE]
Idle  == [on |-> FALSE, read |-> FALSE, rows |-> {}, total |-> 0]
Asked == [Idle EXCEPT !.on = TRUE]

Here == <<query, offset>>

\* users.data: a view without data shows the rows of the last one that had some.
Shown == IF cache[Here].has THEN cache[Here]
         ELSE IF cache[Here].err THEN Blank ELSE cache[last]

\* The page and its handlers are there: no skeleton and no error message instead.
Ready == Shown.has /\ ~cache[Here].err

\* A slip: the rows that wait for their deletion are not left out.
EveryRow == IF Ready THEN {u \in Shown.rows : u \in Range(typed)} ELSE {}

\* The rows on screen.
Items == IF Ready THEN {u \in Shown.rows : u \notin pending /\ u \in Range(typed)} ELSE {}

\* An invalidation of the list in cache c, for the view on screen.
Invalidated(c) == [v \in Views |-> [c[v] EXCEPT !.stale = TRUE]]
Refetch(c) == IF fetch.on /\ ~c[Here].has THEN fetch ELSE Asked

\* A slip: the call is forgotten.
NoRefresh == UNCHANGED list

Refresh ==
    /\ cache' = Invalidated(cache)
    /\ fetch' = Refetch(cache)
    /\ UNCHANGED last

-----------------------------------------------------------------------------
BatchRecord == [state : {"none", "queued", "undone", "running", "done", "failed"},
                ids : SUBSET Ids, toast : BOOLEAN, late : BOOLEAN]

\* Values have their types, a page has PageSize rows at most, and no list
\* claims a negative number of rows.
TypeOK ==
    /\ account \in [Ids -> {"new", "live", "gone"}]
    /\ typed \in Queries /\ query \in Queries /\ offset \in Offsets
    /\ \A v \in Views :
          /\ cache[v].rows \subseteq Ids /\ cache[v].total \in 0 .. Cardinality(Ids)
          /\ Cardinality(cache[v].rows) <= PageSize
          /\ ~cache[v].has => cache[v].rows = {}
    /\ last \in Views
    /\ fetch.on \in BOOLEAN /\ fetch.rows \subseteq Ids
    /\ selected \subseteq Ids /\ pending \subseteq Ids /\ asking \subseteq Ids
    /\ batch \in [Batches -> BatchRecord]
    /\ work \in [Batches -> [Ids -> {"idle", "todo", "gone", "failed"}]]
    /\ live \in BOOLEAN /\ visible \in BOOLEAN /\ emailHit \in BOOLEAN
    /\ adding \in {"no", "form", "import"}
    /\ news \in Nat /\ budget \in [{"moves", "faults", "others"} -> Nat]

NoBatch == [state |-> "none", ids |-> {}, toast |-> FALSE, late |-> FALSE]

Init ==
    /\ account = [u \in Ids |-> IF u \in Registered THEN "live" ELSE "new"]
    /\ query \in Queries /\ typed = query /\ offset = 0
    /\ cache = [v \in Views |-> Blank]
    /\ last = Here
    /\ fetch = Asked
    /\ selected = {} /\ pending = {} /\ asking = {}
    /\ batch = [b \in Batches |-> NoBatch]
    /\ saved = [b \in Batches |-> <<>>]
    /\ work = [b \in Batches |-> [u \in Ids |-> "idle"]]
    /\ live = TRUE /\ visible = TRUE
    /\ emailHit = FALSE /\ adding = "no"
    /\ news = 0
    /\ budget = [moves |-> MaxMoves, faults |-> MaxFaults, others |-> MaxOthers]

Spend(what) ==
    /\ budget[what] > 0
    /\ budget' = [budget EXCEPT ![what] = @ - 1]

-----------------------------------------------------------------------------
\* The request for the view on screen.

ServerReads ==
    /\ fetch.on /\ ~fetch.read
    /\ fetch' = [on |-> TRUE, read |-> TRUE, rows |-> Answer(Here).rows, total |-> Answer(Here).total]
    /\ UNCHANGED <<server, view, cache, last, selected, deletion, asking, mode, emailHit, adding>>

Arrives ==
    /\ fetch.on /\ fetch.read
    /\ cache' = [cache EXCEPT ![Here] = [has |-> TRUE, rows |-> fetch.rows, total |-> fetch.total,
                                         stale |-> FALSE, err |-> FALSE, first |-> ~cache[Here].has]]
    /\ last' = Here
    /\ fetch' = Idle
    /\ UNCHANGED <<server, view, selected, deletion, asking, mode, emailHit, adding>>

FetchFails ==
    /\ fetch.on
    /\ Spend("faults")
    /\ cache' = [cache EXCEPT ![Here].err = TRUE, ![Here].stale = TRUE]
    /\ fetch' = Idle
    /\ UNCHANGED <<account, news, view, last, selected, deletion, asking, mode, emailHit, adding>>

\* A slip: only data that are known to be stale are polled.
StalePollDue == live /\ visible /\ ~fetch.on /\ cache[Here].stale

\* refetchInterval, while the page is live and in the foreground.
PollDue == live /\ visible /\ ~fetch.on

Poll ==
    /\ PollDue
    /\ fetch' = Asked
    /\ UNCHANGED <<server, view, cache, last, selected, deletion, asking, mode, emailHit, adding>>

\* The button of the error message.
Retry ==
    /\ cache[Here].err
    /\ Spend("moves")
    /\ fetch' = Refetch(cache)
    /\ UNCHANGED <<account, news, view, cache, last, selected, deletion, asking, mode, emailHit, adding>>

\* The page moves to view v: a request for the old view is aborted, and v is
\* asked for unless its data are thirty seconds old at most.
ShowView(v) ==
    /\ query' = v[1] /\ offset' = v[2]
    /\ IF v = Here THEN UNCHANGED list
       ELSE /\ fetch' \in IF cache[v].stale THEN {Asked} ELSE {Asked, Idle}
            /\ last' = IF cache[v].has THEN v ELSE last
            /\ UNCHANGED cache

\* The controls of the page are there and neither a confirmation nor the form
\* covers them.
Usable == Ready /\ asking = {} /\ adding # "form"

\* applyFilters for a filter that is no text, and toggleSort.
Filter(q) ==
    /\ Usable /\ q # typed
    /\ Spend("moves")
    /\ typed' = q
    /\ ShowView(<<q, 0>>)
    /\ UNCHANGED <<account, news, selected, deletion, asking, mode, emailHit, adding>>

\* applyFilters for the search text: rows already there are filtered at once.
Type(q) ==
    /\ Usable /\ q # typed
    /\ Spend("moves")
    /\ typed' = q
    /\ ShowView(<<query, 0>>)
    /\ UNCHANGED <<account, news, selected, deletion, asking, mode, emailHit, adding>>

Debounced ==
    /\ query # typed
    /\ ShowView(<<typed, offset>>)
    /\ UNCHANGED <<server, typed, selected, deletion, asking, mode, emailHit, adding>>

\* First, Prev, Next, Last and the page number: Next and Last go by the total
\* of the rows shown, which may still be another view's.
PageCount == IF Shown.total = 0 THEN 1 ELSE (Shown.total + PageSize - 1) \div PageSize
Turns ==
    LET earlier == {0, offset - PageSize}
        later   == {offset + PageSize, (PageCount - 1) * PageSize}
    IN  {o \in Offsets : \/ offset > 0 /\ o \in earlier
                         \/ offset + PageSize < Shown.total /\ o \in later
                         \/ o \div PageSize < PageCount}

Turn(o) ==
    /\ Usable /\ o \in Turns /\ o # offset
    /\ Spend("moves")
    /\ ShowView(<<query, o>>)
    /\ UNCHANGED <<account, news, typed, selected, deletion, asking, mode, emailHit, adding>>

-----------------------------------------------------------------------------
\* Live updates.

ToggleLive ==
    /\ Usable
    /\ Spend("moves")
    /\ live' = ~live
    /\ UNCHANGED <<account, news, view, list, selected, deletion, asking, visible, emailHit, adding>>

Hide ==
    /\ visible
    /\ Spend("moves")
    /\ visible' = FALSE
    /\ UNCHANGED <<account, news, view, list, selected, deletion, asking, live, emailHit, adding>>

\* Back in the foreground the library refetches a stale view.
Show ==
    /\ ~visible
    /\ visible' = TRUE
    /\ fetch' = IF cache[Here].stale /\ ~fetch.on THEN Asked ELSE fetch
    /\ UNCHANGED <<server, view, cache, last, selected, deletion, asking, live, emailHit, adding>>

\* Another administrator deletes u, and the page that did it may say so.
OtherDeletes(u) ==
    /\ account[u] = "live"
    /\ Spend("others")
    /\ account' = [account EXCEPT ![u] = "gone"]
    /\ news' \in {news, news + 1}
    /\ UNCHANGED <<view, list, selected, deletion, asking, mode, emailHit, adding>>

\* A message on a live page whose socket is open; without one it is lost.
Notified ==
    /\ live /\ news > 0
    /\ news' = news - 1
    /\ Refresh
    /\ UNCHANGED <<account, budget, view, selected, deletion, asking, mode, emailHit, adding>>

Missed ==
    /\ news > 0
    /\ news' = news - 1
    /\ UNCHANGED <<list, account, budget, view, selected, deletion, asking, mode, emailHit, adding>>

-----------------------------------------------------------------------------
\* Selection and deletion.

Select(s) ==
    /\ Usable
    /\ selected' = s
    /\ UNCHANGED <<account, news, view, list, deletion, asking, mode, emailHit, adding>>

\* A row's check box, the box that selects every visible row, and Clear.
ToggleRow(u) ==
    /\ u \in Items
    /\ Spend("moves")
    /\ Select(IF u \in selected THEN selected \ {u} ELSE selected \cup {u})

ToggleAll ==
    /\ Items # {}
    /\ Spend("moves")
    /\ Select(IF Items \subseteq selected THEN {} ELSE Items)

Clear ==
    /\ selected # {}
    /\ UNCHANGED budget
    /\ Select({})

Fired(b) == batch[b].state \in {"running", "done", "failed"}
Open(b)  == batch[b].state \in {"queued", "running"}

\* remove.isPending follows the latest mutation only.
RemoveIsPending == \E b \in Batches : batch[b].state = "running" /\ \A c \in Batches : c > b => ~Fired(c)

\* requestDelete, once the administrator has typed what the prompt asks for.
Ask(t) ==
    /\ Usable /\ t # {} /\ \E b \in Batches : batch[b].state = "none"
    /\ asking' = t
    /\ UNCHANGED <<server, view, list, selected, deletion, mode, emailHit, adding>>

DeleteRow(u)    == u \in Items /\ ~RemoveIsPending /\ Ask({u})
DeleteSelection == Ask(Items \cap selected)

Decline ==
    /\ asking # {}
    /\ asking' = {}
    /\ UNCHANGED <<server, view, list, selected, deletion, mode, emailHit, adding>>

\* queueDelete: the rows disappear and a timer and an undo toast start.
Confirm(b) ==
    /\ asking # {}
    /\ batch[b].state = "none" /\ \A c \in 1 .. b - 1 : batch[c].state # "none"
    /\ batch' = [batch EXCEPT ![b] = [NoBatch EXCEPT !.state = "queued", !.ids = asking, !.toast = TRUE]]
    /\ pending' = pending \cup asking
    /\ asking' = {}
    /\ UNCHANGED <<server, view, list, selected, saved, work, mode, emailHit, adding>>

\* Undo on the toast, which outlives the timer by half a second.
Undo(b) ==
    /\ batch[b].toast
    /\ batch' = [batch EXCEPT ![b].toast = FALSE,
                              ![b].late = Fired(b),
                              ![b].state = IF @ = "queued" THEN "undone" ELSE @]
    /\ pending' = pending \ batch[b].ids
    /\ UNCHANGED <<server, view, list, selected, saved, work, asking, mode, emailHit, adding>>

ToastEnds(b) ==
    /\ batch[b].toast /\ batch[b].state # "queued"
    /\ batch' = [batch EXCEPT ![b].toast = FALSE]
    /\ UNCHANGED <<server, view, list, selected, pending, saved, work, asking, mode, emailHit, adding>>

\* onMutate takes the rows out of every cached view and what is displayed is
\* up to date again as far as the cache knows.
Without(c, ids) ==
    [v \in Views |->
        IF c[v].has
        THEN [c[v] EXCEPT !.rows = @ \ ids, !.stale = FALSE, !.err = FALSE,
                          !.total = IF @ < Cardinality(ids) THEN 0 ELSE @ - Cardinality(ids)]
        ELSE c[v]]

\* A slip in both: the rows are left hidden.
LeftHidden(b) == pending

\* What stays hidden after onSuccess, and after onError.
Unhidden(b)   == pending \ batch[b].ids
AllUnhidden(b) == {}

\* The snapshot holds what the rollback writes back.
Snapshot(c) == [v \in {w \in Views : c[w].has} |-> [rows |-> c[v].rows, total |-> c[v].total]]

\* The timer of the oldest queued deletion.
Due(b) == batch[b].state = "queued" /\ \A c \in 1 .. b - 1 : batch[c].state # "queued"

\* mutate and onMutate: a request under way is cancelled and the view goes back
\* to what it was before.
Fire(b) ==
    /\ Due(b) /\ ~emailHit
    /\ batch' = [batch EXCEPT ![b].state = "running"]
    /\ saved' = [saved EXCEPT ![b] = Snapshot(cache)]
    /\ work' = [work EXCEPT ![b] = [u \in Ids |-> IF u \in batch[b].ids THEN "todo" ELSE "idle"]]
    /\ cache' = Without(cache, batch[b].ids)
    /\ fetch' = Idle
    /\ UNCHANGED <<server, view, last, selected, pending, asking, mode, emailHit, adding>>

\* The answer of a cached email check is under the same key and is no list: the
\* update throws, and the mutation fails before its first call.  The lists that
\* were cached before that answer have lost their rows, and get them back only
\* with their next request.
FireThrows(b) ==
    /\ Due(b) /\ emailHit
    /\ \E before \in SUBSET {v \in Views : cache[v].has} :
          cache' = [v \in Views |-> IF v \in before THEN Without(cache, batch[b].ids)[v] ELSE cache[v]]
    /\ batch' = [batch EXCEPT ![b].state = "failed"]
    /\ pending' = AllUnhidden(b)
    /\ fetch' = Idle
    /\ UNCHANGED <<server, view, last, selected, saved, work, asking, mode, emailHit, adding>>

\* For each account its sessions end and then it is deleted; the accounts are
\* worked on in parallel, and the others go on when one has failed.
DeleteUser(b, u) ==
    /\ work[b][u] = "todo"
    /\ work' = [work EXCEPT ![b][u] = IF account[u] = "live" THEN "gone" ELSE "failed"]
    /\ account' = [account EXCEPT ![u] = "gone"]
    /\ UNCHANGED <<news, view, list, budget, selected, pending, batch, saved, asking, mode, emailHit, adding>>

\* One of the two calls fails; the second may have had its effect.
DeletionFails(b, u) ==
    /\ work[b][u] = "todo"
    /\ Spend("faults")
    /\ work' = [work EXCEPT ![b][u] = "failed"]
    /\ account' \in {account, [account EXCEPT ![u] = "gone"]}
    /\ UNCHANGED <<news, view, list, selected, pending, batch, saved, asking, mode, emailHit, adding>>

\* onSuccess.
Succeed(b) ==
    /\ batch[b].state = "running"
    /\ \A u \in batch[b].ids : work[b][u] = "gone"
    /\ batch' = [batch EXCEPT ![b].state = "done"]
    /\ saved' = [saved EXCEPT ![b] = <<>>]
    /\ pending' = Unhidden(b)
    /\ selected' = {}
    /\ Refresh
    /\ UNCHANGED <<server, view, work, asking, mode, emailHit, adding>>

\* onError: every list goes back to the snapshot, and every row is shown again,
\* those of the other deletions too.
Restored(c, old) ==
    [v \in Views |->
        IF v \in DOMAIN old
        THEN [c[v] EXCEPT !.has = TRUE, !.rows = old[v].rows, !.total = old[v].total,
                          !.stale = FALSE, !.err = FALSE]
        ELSE c[v]]

RollBack(b) ==
    /\ batch[b].state = "running"
    /\ \E u \in batch[b].ids : work[b][u] = "failed"
    /\ batch' = [batch EXCEPT ![b].state = "failed"]
    /\ saved' = [saved EXCEPT ![b] = <<>>]
    /\ cache' = Restored(cache, saved[b])
    /\ pending' = AllUnhidden(b)
    /\ UNCHANGED <<server, view, last, fetch, selected, work, asking, mode, emailHit, adding>>

-----------------------------------------------------------------------------
\* Registration and import.

OpenForm(what) ==
    /\ Usable /\ adding = "no"
    /\ Spend("moves")
    /\ adding' = what
    /\ UNCHANGED <<account, news, view, list, selected, deletion, asking, mode, emailHit>>

\* The email check of the form: an address that is taken is cached as such, and
\* the entry lives on for ten minutes.
EmailTaken ==
    /\ adding = "form" /\ \E u \in Ids : account[u] = "live"
    /\ emailHit' = TRUE
    /\ UNCHANGED <<server, view, list, selected, deletion, asking, mode, adding>>

EmailForgotten ==
    /\ emailHit /\ adding # "form"
    /\ emailHit' = FALSE
    /\ UNCHANGED <<server, view, list, selected, deletion, asking, mode, adding>>

\* An account is created.
Register(u) ==
    /\ adding # "no" /\ account[u] = "new"
    /\ account' = [account EXCEPT ![u] = "live"]
    /\ UNCHANGED <<budget, news, view, list, selected, deletion, asking, mode, emailHit, adding>>

\* onSaved of the form, or the end of the file.
Added ==
    /\ adding # "no"
    /\ adding' = "no"
    /\ Refresh
    /\ UNCHANGED <<server, view, selected, deletion, asking, mode, emailHit>>

\* The form is cancelled, or a call of the form or of a row of the file fails:
\* what was created before it stays, and nothing is refreshed.
AddingStops ==
    /\ adding # "no"
    /\ adding' = "no"
    /\ UNCHANGED <<server, view, list, selected, deletion, asking, mode, emailHit>>

-----------------------------------------------------------------------------
Paging   == \/ \E q \in Queries : Filter(q) \/ Type(q)
            \/ \E o \in Offsets : Turn(o)
            \/ Retry
Choosing == \/ \E u \in Ids : ToggleRow(u) \/ DeleteRow(u)
            \/ ToggleAll \/ Clear \/ DeleteSelection \/ Decline
            \/ \E b \in Batches : Confirm(b) \/ Undo(b)
Adding   == \/ \E what \in {"form", "import"} : OpenForm(what)
            \/ EmailTaken \/ EmailForgotten \/ Added \/ AddingStops
            \/ \E u \in Ids : Register(u)
Outside  == \/ ToggleLive \/ Hide \/ Show \/ Notified \/ Missed \/ FetchFails
            \/ \E u \in Ids : OtherDeletes(u)

Deleting == \E b \in Batches :
    \/ Fire(b) \/ FireThrows(b) \/ Succeed(b) \/ RollBack(b) \/ ToastEnds(b)
    \/ \E u \in Ids : DeleteUser(b, u) \/ DeletionFails(b, u)

Next == Paging \/ Choosing \/ Adding \/ Outside \/ Deleting \/ Debounced
        \/ Poll \/ ServerReads \/ Arrives

Spec == Init /\ [][Next]_vars

\* Requests are answered, timers fire and the polling interval passes; nothing
\* makes the administrator, the socket or another page act.
FairSpec ==
    /\ Spec
    /\ WF_vars(ServerReads) /\ WF_vars(Arrives) /\ WF_vars(Poll)
    /\ WF_vars(Debounced) /\ WF_vars(Deleting)

-----------------------------------------------------------------------------
\* No row is hidden without a reason: each belongs to a deletion that is queued
\* or under way.  pendingDeleteIds is edited by timers, by the undo toast and by
\* the ends of several deletions in any order, and a row that is left in it has
\* disappeared from every page until the browser is reloaded.
HiddenIsQueued == pending \subseteq UNION {batch[b].ids : b \in {c \in Batches : Open(c)}}

\* An account is in two open deletions only after the undo toast of some deletion
\* was used too late, or after a failure has shown every hidden row again.
NoDoubleDelete ==
    \A b, c \in Batches :
        b < c /\ Open(b) /\ Open(c) /\ batch[b].ids \cap batch[c].ids # {}
            => \E d \in Batches : batch[d].late \/ batch[d].state = "failed"

\* The row of an account whose deletion succeeded is on screen only while the
\* list is being fetched, next to a deletion that runs or has failed, or on a
\* view that was opened during the deletion: its first load is not restarted.
DeletedStaysHidden ==
    \A b \in Batches : batch[b].state = "done" =>
        \A u \in batch[b].ids \cap Items :
            \/ fetch.on
            \/ \E d \in Batches : batch[d].state \in {"running", "failed"}
            \/ cache[Here].first

\* A hidden row does not stay hidden: its deletion is undone, fails or succeeds.
DeletionSettles == \A u \in Ids : u \in pending ~> u \notin pending

\* The row of an account that is gone leaves a live page, whoever deleted the
\* account and whichever message, answer or rollback came in between.
StaleRowsGo ==
    \A u \in Ids : (u \in Items /\ account[u] = "gone") ~> (u \notin Items \/ ~live \/ ~visible)
=============================================================================
