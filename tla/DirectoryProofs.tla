-------------------------- MODULE DirectoryProofs --------------------------
(***************************************************************************)
(* No row of the directory is hidden for good, no account is in two        *)
(* deletions and no deleted account comes back on screen, for every number *)
(* of accounts, views, deletions and faults.                               *)
(*                                                                         *)
(* The first two follow from what a confirmation finds: the accounts it    *)
(* asks about are not hidden, and as long as no deletion failed and no     *)
(* toast was used too late every account of an open deletion is.  The last *)
(* one is about the list: what it shows when nothing is fetched.           *)
(***************************************************************************)
EXTENDS Directory, FiniteSetTheorems, TLAPS

\* The variables the argument is about have their types.
HidingTypes ==
    /\ typed \in Queries /\ pending \in SUBSET Ids /\ asking \in SUBSET Ids
    /\ batch \in [Batches -> BatchRecord]

\* Deletions are numbered in the order in which they were confirmed.
InOrder ==
    /\ \A b, c \in Batches : b < c /\ batch[c].state # "none" => batch[b].state # "none"
    /\ \A b \in Batches : batch[b].state = "none" => ~batch[b].late
    /\ \A b \in Batches : batch[b].state \in {"none", "undone"} => ~batch[b].toast
    /\ \A b \in Batches : batch[b].late => ~batch[b].toast

Undisturbed == \A d \in Batches : ~batch[d].late /\ batch[d].state # "failed"

OpenIsHidden ==
    Undisturbed => \A b \in Batches : Open(b) => batch[b].ids \subseteq pending

AskedIsShown == asking \cap pending = {}

Inv ==
    /\ HidingTypes /\ InOrder /\ OpenIsHidden /\ AskedIsShown
    /\ HiddenIsQueued /\ NoDoubleDelete

\* What the other steps leave alone.
hiding == <<typed, pending, asking, batch>>

-----------------------------------------------------------------------------
LEMMA InitInv == Init => Inv
  BY DEF Init, Inv, HidingTypes, InOrder, OpenIsHidden, AskedIsShown, HiddenIsQueued,
         NoDoubleDelete, Undisturbed, Open, NoBatch, BatchRecord

LEMMA Untouched == Inv /\ UNCHANGED hiding => Inv'
  BY DEF Inv, hiding, HidingTypes, InOrder, OpenIsHidden, AskedIsShown, HiddenIsQueued,
         NoDoubleDelete, Undisturbed, Open

LEMMA ItemsAreShown == typed \in Queries => Items \subseteq Ids \ pending
<1> SUFFICES ASSUME typed \in Queries, NEW u \in Items
             PROVE  u \in Ids \ pending
  OBVIOUS
<1>1. typed \in Seq(Ids)
  BY ConstantsAssumption
<1>2. \A i \in DOMAIN typed : typed[i] \in Ids
  BY <1>1
<1> QED  BY <1>2 DEF Items, Range

LEMMA AskStep ==
  ASSUME Inv, NEW t, t \subseteq Items, Ask(t)
  PROVE  Inv'
  BY ItemsAreShown
     DEF Ask, Inv, deletion, view, HidingTypes, InOrder, OpenIsHidden, AskedIsShown,
         HiddenIsQueued, NoDoubleDelete, Undisturbed, Open
LEMMA DeclineStep == Inv /\ Decline => Inv'
  BY DEF Decline, Inv, deletion, view, HidingTypes, InOrder, OpenIsHidden, AskedIsShown,
         HiddenIsQueued, NoDoubleDelete, Undisturbed, Open

\* The confirmed accounts are not hidden, so no open deletion that is neither
\* late nor older than a failure has one of them.
LEMMA ConfirmStep ==
  ASSUME Inv, NEW b \in Batches, Confirm(b)
  PROVE  Inv'
<1> USE DEF Inv
<1>1. /\ batch[b].state = "none"
      /\ \A c \in Batches : c < b => batch[c].state # "none"
      /\ pending' = pending \cup asking
      /\ asking' = {}
      /\ asking \in SUBSET Ids
  BY DEF Confirm, HidingTypes, Batches
<1>2. /\ batch'[b] = [state |-> "queued", ids |-> asking, toast |-> TRUE, late |-> FALSE]
      /\ \A c \in Batches : c # b => batch'[c] = batch[c]
      /\ HidingTypes'
  BY <1>1 DEF Confirm, HidingTypes, BatchRecord, NoBatch, view
<1>3. \A c \in Batches : b < c => batch[c].state = "none"
  BY <1>1 DEF InOrder, Batches
<1>4. InOrder'
  BY <1>1, <1>2, <1>3 DEF InOrder, Batches
<1>5. OpenIsHidden' /\ AskedIsShown'
  BY <1>1, <1>2 DEF OpenIsHidden, AskedIsShown, Undisturbed, InOrder, Open
<1>6. HiddenIsQueued'
  <2>1. \A c \in Batches : Open(c) => Open(c)' /\ batch'[c].ids = batch[c].ids
    BY <1>1, <1>2 DEF Open
  <2>2. Open(b)' /\ batch'[b].ids = asking
    BY <1>2 DEF Open
  <2> QED  BY <1>1, <2>1, <2>2 DEF HiddenIsQueued
<1>7. NoDoubleDelete'
  <2> SUFFICES ASSUME NEW c \in Batches, NEW d \in Batches, c < d, Open(c)', Open(d)',
                      batch'[c].ids \cap batch'[d].ids # {}, Undisturbed'
               PROVE  FALSE
    BY DEF NoDoubleDelete, Undisturbed
  <2>1. Undisturbed
    BY <1>1, <1>2 DEF Undisturbed, InOrder
  <2>2. CASE d = b
    <3>1. c # b /\ Open(c) /\ batch[c].ids \cap asking # {}
      BY <1>2, <2>2 DEF Open, Batches
    <3> QED  BY <2>1, <3>1 DEF OpenIsHidden, AskedIsShown
  <2>3. CASE c = b
    BY <1>2, <1>3, <2>3 DEF Open, Batches
  <2>4. CASE c # b /\ d # b
    BY <1>2, <2>1, <2>4 DEF NoDoubleDelete, Undisturbed, Open
  <2> QED  BY <2>2, <2>3, <2>4
<1> QED  BY <1>2, <1>4, <1>5, <1>6, <1>7

\* A step that gives the open deletion b another state opens nothing and shows
\* no row of another deletion, unless a deletion has failed or was undone late.
LEMMA EndOfHiding ==
  ASSUME Inv, NEW b \in Batches, HidingTypes', asking' = asking,
         batch'[b].state # "none", batch'[b].ids = batch[b].ids,
         Open(b)' => Open(b),
         batch[b].state # "none",
         batch'[b].late \/ batch'[b].state = "undone" => ~batch'[b].toast,
         \A c \in Batches : c # b => batch'[c] = batch[c],
         Undisturbed' => Undisturbed,
         \/ pending' = pending /\ (Open(b) => Open(b)')
         \/ pending' = pending \ batch[b].ids /\ (Undisturbed' => Open(b) /\ ~Open(b)')
         \/ pending' = {} /\ ~Undisturbed'
  PROVE  Inv'
<1> USE DEF Inv
<1>1. InOrder' /\ AskedIsShown'
  BY DEF InOrder, AskedIsShown
<1>2. \A c \in Batches : Open(c)' => Open(c) /\ batch'[c].ids = batch[c].ids
  BY DEF Open
<1>3. HiddenIsQueued'
  BY DEF HiddenIsQueued, Open
<1>4. NoDoubleDelete'
  <2> SUFFICES ASSUME Undisturbed'
               PROVE  NoDoubleDelete'
    BY DEF NoDoubleDelete, Undisturbed
  <2> QED  BY <1>2 DEF NoDoubleDelete, Undisturbed
<1>5. OpenIsHidden'
  <2> SUFFICES ASSUME Undisturbed', NEW c \in Batches, Open(c)'
               PROVE  batch'[c].ids \subseteq pending'
    BY DEF OpenIsHidden
  <2>1. batch[c].ids \subseteq pending /\ batch'[c].ids = batch[c].ids
    BY <1>2 DEF OpenIsHidden
  <2>2. CASE pending' = pending \ batch[b].ids /\ Open(b) /\ ~Open(b)'
    <3>1. c # b
      BY <2>2
    <3>2. batch[c].ids \cap batch[b].ids = {}
      BY <1>2, <2>2, <3>1 DEF NoDoubleDelete, Undisturbed, Batches
    <3> QED  BY <2>1, <2>2, <3>2
  <2> QED  BY <2>1, <2>2
<1> QED  BY <1>1, <1>3, <1>4, <1>5

LEMMA UndoStep ==
  ASSUME Inv, NEW b \in Batches, Undo(b)
  PROVE  Inv'
<1> DEFINE after == IF batch[b].state = "queued" THEN "undone" ELSE batch[b].state
<1>1. /\ batch[b] \in BatchRecord /\ Fired(b) \in BOOLEAN
      /\ batch[b].toast /\ batch[b].state # "none" /\ ~batch[b].late
  BY DEF Inv, Undo, HidingTypes, InOrder, Fired
<1>2. /\ batch' = [batch EXCEPT ![b] = [batch[b] EXCEPT !.toast = FALSE, !.late = Fired(b), !.state = after]]
      /\ pending' = pending \ batch[b].ids /\ asking' = asking /\ typed' = typed
  BY DEF Inv, Undo, HidingTypes, view
<1>3. [batch[b] EXCEPT !.toast = FALSE, !.late = Fired(b), !.state = after] \in BatchRecord
  BY <1>1 DEF BatchRecord
<1>4. /\ HidingTypes'
      /\ \A c \in Batches : c # b => batch'[c] = batch[c]
      /\ batch'[b] = [batch[b] EXCEPT !.toast = FALSE, !.late = Fired(b), !.state = after]
  BY <1>2, <1>3 DEF Inv, HidingTypes
<1>5. /\ batch'[b].ids = batch[b].ids /\ ~batch'[b].toast
      /\ batch'[b].late = Fired(b) /\ batch'[b].state = after
  BY <1>1, <1>4 DEF BatchRecord
<1>6. Undisturbed' => Undisturbed /\ Open(b) /\ ~Open(b)'
  <2> SUFFICES ASSUME Undisturbed'
               PROVE  Undisturbed /\ Open(b) /\ ~Open(b)'
    OBVIOUS
  <2>1. ~Fired(b) /\ batch[b].state # "failed"
    BY <1>5 DEF Undisturbed, Fired
  <2>2. Undisturbed
    BY <1>1, <1>4, <2>1 DEF Undisturbed
  <2>3. batch[b].state = "queued" \/ batch[b].state = "undone"
    BY <1>1, <2>1 DEF BatchRecord, Fired
  <2>4. batch[b].state = "queued"
    BY <1>1, <2>3 DEF Inv, InOrder
  <2> QED  BY <1>5, <2>2, <2>4 DEF Open
<1>7. Open(b)' => Open(b)
  BY <1>5 DEF Open
<1> QED  BY <1>1, <1>2, <1>4, <1>5, <1>6, <1>7, EndOfHiding

\* A step that changes nothing of deletion b but its state.
LEMMA ChangeOfState ==
  ASSUME Inv, NEW b \in Batches, NEW s \in {"running", "done", "failed"},
         batch[b].state \in {"queued", "running"},
         batch' = [batch EXCEPT ![b].state = s], asking' = asking, typed' = typed,
         \/ s = "running" /\ pending' = pending
         \/ s = "done" /\ pending' = pending \ batch[b].ids
         \/ s = "failed" /\ pending' = {}
  PROVE  Inv'
<1>1. HidingTypes'
  BY DEF Inv, HidingTypes, BatchRecord
<1>2. /\ batch'[b] = [batch[b] EXCEPT !.state = s]
      /\ \A c \in Batches : c # b => batch'[c] = batch[c]
      /\ batch[b] \in BatchRecord
  BY DEF Inv, HidingTypes
<1>3. /\ batch'[b].ids = batch[b].ids /\ batch'[b].toast = batch[b].toast
      /\ batch'[b].late = batch[b].late /\ batch'[b].state = s
  BY <1>2 DEF BatchRecord
<1>4. Undisturbed' => Undisturbed /\ s # "failed"
  BY <1>2, <1>3 DEF Undisturbed
<1>5. Open(b) /\ (Open(b)' <=> s = "running")
  BY <1>3 DEF Open
<1>6. batch'[b].late \/ batch'[b].state = "undone" => ~batch'[b].toast
  BY <1>3 DEF Inv, InOrder
<1>7. \/ pending' = pending /\ (Open(b) => Open(b)')
      \/ pending' = pending \ batch[b].ids /\ (Undisturbed' => Open(b) /\ ~Open(b)')
      \/ pending' = {} /\ ~Undisturbed'
  BY <1>4, <1>5
<1> QED  BY <1>1, <1>2, <1>3, <1>4, <1>5, <1>6, <1>7, EndOfHiding

LEMMA ToastStep ==
  ASSUME Inv, NEW b \in Batches, ToastEnds(b)
  PROVE  Inv'
<1>1. HidingTypes'
  BY DEF Inv, ToastEnds, HidingTypes, BatchRecord, view
<1>2. /\ batch'[b] = [batch[b] EXCEPT !.toast = FALSE]
      /\ \A c \in Batches : c # b => batch'[c] = batch[c]
      /\ pending' = pending /\ asking' = asking
      /\ batch[b] \in BatchRecord
  BY DEF Inv, ToastEnds, HidingTypes
<1>3. /\ batch'[b].ids = batch[b].ids /\ ~batch'[b].toast
      /\ batch'[b].late = batch[b].late /\ batch'[b].state = batch[b].state
  BY <1>2 DEF BatchRecord
<1>4. batch[b].state # "none"
  BY DEF Inv, ToastEnds, InOrder
<1>5. Undisturbed' => Undisturbed
  BY <1>2, <1>3 DEF Undisturbed
<1>6. Open(b) <=> Open(b)'
  BY <1>3 DEF Open
<1> QED  BY <1>1, <1>2, <1>3, <1>4, <1>5, <1>6, EndOfHiding

LEMMA DeletingStep ==
  ASSUME Inv, Deleting
  PROVE  Inv'
<1>1. PICK b \in Batches :
        \/ Fire(b) \/ FireThrows(b) \/ Succeed(b) \/ RollBack(b) \/ ToastEnds(b)
        \/ \E u \in Ids : DeleteUser(b, u) \/ DeletionFails(b, u)
  BY DEF Deleting
<1>2. CASE Fire(b)
  BY <1>2, ChangeOfState DEF view, Fire, Due
<1>3. CASE FireThrows(b)
  BY <1>3, ChangeOfState DEF view, FireThrows, Due, AllUnhidden
<1>4. CASE Succeed(b)
  BY <1>4, ChangeOfState DEF view, Succeed, Unhidden
<1>5. CASE RollBack(b)
  BY <1>5, ChangeOfState DEF view, RollBack, AllUnhidden
<1>6. CASE ToastEnds(b)
  BY <1>6, ToastStep
<1>7. CASE \E u \in Ids : DeleteUser(b, u) \/ DeletionFails(b, u)
  BY <1>7, Untouched DEF DeleteUser, DeletionFails, view, hiding
<1> QED  BY <1>1, <1>2, <1>3, <1>4, <1>5, <1>6, <1>7

LEMMA ChoosingStep ==
  ASSUME Inv, Choosing
  PROVE  Inv'
<1>1. CASE \E u \in Ids : ToggleRow(u)
  BY <1>1, Untouched DEF ToggleRow, Select, deletion, view, hiding
<1>2. CASE ToggleAll \/ Clear
  BY <1>2, Untouched DEF ToggleAll, Clear, Select, deletion, view, hiding
<1>3. CASE \E u \in Ids : DeleteRow(u)
  <2>1. PICK u \in Ids : u \in Items /\ Ask({u})
    BY <1>3 DEF DeleteRow
  <2> QED  BY <2>1, AskStep
<1>4. CASE DeleteSelection
  BY <1>4, AskStep DEF DeleteSelection
<1>5. CASE Decline
  BY <1>5, DeclineStep
<1>6. CASE \E b \in Batches : Confirm(b) \/ Undo(b)
  BY <1>6, ConfirmStep, UndoStep
<1> QED  BY <1>1, <1>2, <1>3, <1>4, <1>5, <1>6 DEF Choosing

LEMMA ViewStep ==
  ASSUME Inv, NEW q \in Queries, Filter(q) \/ Type(q)
  PROVE  Inv'
  BY DEF Filter, Type, deletion, Inv, HidingTypes, InOrder, OpenIsHidden, AskedIsShown,
         HiddenIsQueued, NoDoubleDelete, Undisturbed, Open

LEMMA NextStep == Inv /\ [Next]_vars => Inv'
<1> SUFFICES ASSUME Inv, [Next]_vars
             PROVE  Inv'
  OBVIOUS
<1>1. CASE Paging
  <2>1. CASE Retry \/ \E o \in Offsets : Turn(o)
    BY <2>1, Untouched DEF Retry, Turn, deletion, view, hiding
  <2> QED  BY <1>1, <2>1, ViewStep DEF Paging
<1>2. CASE Choosing
  BY <1>2, ChoosingStep
<1>3. CASE Adding
  BY <1>3, Untouched DEF Adding, OpenForm, EmailTaken, EmailForgotten, Added, AddingStops, Register,
                         deletion, view, hiding
<1>4. CASE Outside
  BY <1>4, Untouched DEF Outside, ToggleLive, Hide, Show, Notified, Missed, FetchFails, OtherDeletes,
                         deletion, view, hiding
<1>5. CASE Deleting
  BY <1>5, DeletingStep
<1>6. CASE Debounced \/ Poll \/ ServerReads \/ Arrives
  BY <1>6, Untouched DEF Debounced, Poll, ServerReads, Arrives, deletion, view, hiding
<1>7. CASE UNCHANGED vars
  BY <1>7, Untouched DEF vars, hiding
<1> QED  BY <1>1, <1>2, <1>3, <1>4, <1>5, <1>6, <1>7 DEF Next

\* A hidden row belongs to a deletion that is queued or under way.
THEOREM NothingHiddenForGood == Spec => []HiddenIsQueued
<1>1. Inv => HiddenIsQueued
  BY DEF Inv
<1> QED  BY <1>1, InitInv, NextStep, PTL DEF Spec

\* Without a failure and without a late undo no account is deleted twice.
THEOREM DeletedOnce == Spec => []NoDoubleDelete
<1>1. Inv => NoDoubleDelete
  BY DEF Inv
<1> QED  BY <1>1, InitInv, NextStep, PTL DEF Spec
-----------------------------------------------------------------------------
\* What the page shows of deleted accounts.

Page  == [has : BOOLEAN, rows : SUBSET Ids, total : Int, stale : BOOLEAN, err : BOOLEAN, first : BOOLEAN]
Load  == [on : BOOLEAN, read : BOOLEAN, rows : SUBSET Ids, total : Int]

\* The variables of the list and of the deletions have their types.
ListTypes ==
    /\ account \in [Ids -> {"new", "live", "gone"}]
    /\ typed \in Queries /\ query \in Queries /\ offset \in Offsets
    /\ cache \in [Views -> Page] /\ fetch \in Load
    /\ DOMAIN saved = Batches
    /\ \A b \in Batches : \A v \in Views :
          v \in DOMAIN saved[b] => saved[b][v].rows \in SUBSET Ids /\ saved[b][v].total \in Int
    /\ asking \in SUBSET Ids
    /\ batch \in [Batches -> BatchRecord]
    /\ work \in [Batches -> [Ids -> {"idle", "todo", "gone", "failed"}]]

\* An account that a deletion has finished with is gone.
DoneIsGone ==
    \A b \in Batches :
        /\ \A u \in Ids : work[b][u] = "gone" => account[u] = "gone"
        /\ batch[b].state = "done" => \A u \in batch[b].ids : account[u] = "gone"

\* No deletion runs or has failed.
Quiet == \A d \in Batches : batch[d].state \notin {"running", "failed"}

Deleted == UNION {batch[b].ids : b \in {c \in Batches : batch[c].state = "done"}}

\* A list that is up to date has no deleted account, unless it is a first load;
\* a request that is not a first load brings none; and a view that has no
\* request is up to date or shows an error.
UpToDate ==
    /\ \A v \in Views : cache[v].stale \/ cache[v].first \/ cache[v].rows \cap Deleted = {}
    /\ fetch.read /\ cache[Here].has => fetch.rows \cap Deleted = {}
    /\ ~fetch.on => cache[Here].err \/ (cache[Here].has /\ ~cache[Here].stale)

FreshHasData == \A v \in Views : ~cache[v].stale => cache[v].has

ListInv == ListTypes /\ DoneIsGone /\ FreshHasData /\ (Quiet => UpToDate)

\* What the steps of the page that ask for nothing leave alone.
listing == <<account, query, offset, cache, fetch, batch, saved, work>>

LEMMA NoOffset == 0 \in Offsets
<1>1. Cardinality(Ids) \in Nat
  BY FS_CardinalityType, ConstantsAssumption
<1>2. Cardinality(Ids) \div PageSize \in Nat
  BY <1>1, ConstantsAssumption
<1>3. 0 \in 0 .. Cardinality(Ids) \div PageSize /\ PageSize * 0 = 0
  BY <1>2, ConstantsAssumption
<1> QED  BY <1>3 DEF Offsets

LEMMA HereIsAView == ListTypes => Here \in Views
  BY DEF ListTypes, Here, Views

LEMMA AskedIsALoad == Asked \in Load /\ Asked.on /\ ~Asked.read /\ Idle \in Load /\ ~Idle.on /\ ~Idle.read
<1>1. Idle \in Load /\ ~Idle.on /\ ~Idle.read
  BY DEF Idle, Load
<1>2. Asked \in Load /\ Asked.on /\ Asked.read = Idle.read
  BY <1>1 DEF Asked, Load
<1> QED  BY <1>1, <1>2

LEMMA BlankIsAPage == Blank \in Page /\ Blank.stale /\ ~Blank.has
  BY DEF Blank, Page

LEMMA InitListInv == Init => ListInv
<1> SUFFICES ASSUME Init
             PROVE  ListInv
  OBVIOUS
<1>1. Blank \in Page /\ Asked \in Load /\ Asked.on /\ ~Asked.read
  BY AskedIsALoad, BlankIsAPage
<1>2. \A v \in Views : cache[v] = Blank
  BY DEF Init
<1>3. NoBatch \in BatchRecord /\ \A b \in Batches : batch[b] = NoBatch /\ work[b] = [u \in Ids |-> "idle"]
  BY DEF Init, NoBatch, BatchRecord
<1>4. ListTypes
  <2>1. /\ account \in [Ids -> {"new", "live", "gone"}]
        /\ typed \in Queries /\ query \in Queries /\ offset \in Offsets /\ asking \in SUBSET Ids
    BY NoOffset DEF Init
  <2>2. cache \in [Views -> Page] /\ fetch \in Load
    BY <1>1 DEF Init
  <2>3. batch \in [Batches -> BatchRecord]
    BY <1>3 DEF Init
  <2>4. work \in [Batches -> [Ids -> {"idle", "todo", "gone", "failed"}]]
    BY DEF Init
  <2>5. DOMAIN saved = Batches /\ \A b \in Batches : DOMAIN saved[b] = {}
    BY DEF Init
  <2> QED  BY <2>1, <2>2, <2>3, <2>4, <2>5 DEF ListTypes
<1>5. DoneIsGone
  BY <1>3 DEF DoneIsGone, NoBatch
<1>6. FreshHasData /\ UpToDate
  BY <1>1, <1>2, BlankIsAPage DEF FreshHasData, UpToDate, Init
<1> QED  BY <1>4, <1>5, <1>6 DEF ListInv

LEMMA ListRests ==
  ASSUME ListInv, UNCHANGED listing, typed' \in Queries, asking' \in SUBSET Ids
  PROVE  ListInv'
<1>1. ListTypes'
  BY DEF ListInv, ListTypes, listing
<1>2. DoneIsGone' /\ FreshHasData' /\ Deleted' = Deleted /\ Here' = Here /\ (Quiet' => Quiet)
  BY DEF ListInv, DoneIsGone, FreshHasData, Deleted, Here, Quiet, listing
<1>3. UpToDate => UpToDate'
  BY <1>2 DEF UpToDate, listing
<1> QED  BY <1>1, <1>2, <1>3 DEF ListInv

\* The accounts change, and the work of the deletions on them: no deleted
\* account comes back.
LEMMA AccountStep ==
  ASSUME ListInv, UNCHANGED <<typed, query, offset, cache, fetch, asking, batch, saved>>,
         account' \in [Ids -> {"new", "live", "gone"}],
         work' \in [Batches -> [Ids -> {"idle", "todo", "gone", "failed"}]],
         \A u \in Ids : account[u] = "gone" => account'[u] = "gone",
         \A b \in Batches, u \in Ids : work'[b][u] = "gone" => work[b][u] = "gone" \/ account'[u] = "gone"
  PROVE  ListInv'
<1>1. ListTypes' /\ FreshHasData'
  BY DEF ListInv, ListTypes, FreshHasData
<1>2. DoneIsGone'
  <2>1. \A b \in Batches : batch[b].ids \subseteq Ids
    BY DEF ListInv, ListTypes, BatchRecord
  <2> QED  BY <2>1 DEF ListInv, DoneIsGone
<1>3. Deleted' = Deleted /\ Here' = Here /\ (Quiet' => Quiet)
  BY DEF Deleted, Here, Quiet
<1>4. UpToDate => UpToDate'
  BY <1>3 DEF UpToDate
<1> QED  BY <1>1, <1>2, <1>3, <1>4 DEF ListInv

\* A request for the view on screen is sent, or is read by the server.
LEMMA RequestStep ==
  ASSUME ListInv, UNCHANGED <<account, typed, query, offset, cache, asking, batch, saved, work>>,
         fetch' \in Load, fetch'.on,
         fetch' = fetch \/ ~fetch'.read \/ fetch'.rows \cap Deleted = {}
  PROVE  ListInv'
<1>1. ListTypes' /\ DoneIsGone' /\ FreshHasData'
  BY DEF ListInv, ListTypes, DoneIsGone, FreshHasData
<1>2. Deleted' = Deleted /\ Here' = Here /\ (Quiet' => Quiet)
  BY DEF Deleted, Here, Quiet
<1>3. UpToDate => UpToDate'
  BY <1>2 DEF UpToDate
<1> QED  BY <1>1, <1>2, <1>3 DEF ListInv

LEMMA RefetchIsALoad ==
  ASSUME ListTypes
  PROVE  /\ Refetch(cache) \in Load /\ Refetch(cache).on
         /\ (Refetch(cache) = fetch /\ ~cache[Here].has) \/ ~Refetch(cache).read
  BY AskedIsALoad DEF Refetch, ListTypes

\* What the server lists is not deleted.
LEMMA AnswerIsLive ==
  ASSUME ListTypes, NEW v \in Views
  PROVE  /\ Answer(v).rows \in SUBSET {u \in Ids : account[u] = "live"}
         /\ Answer(v).total \in Int
<1> DEFINE hits == {i \in DOMAIN v[1] : account[v[1][i]] = "live"}
<1>1. v[1] \in Seq(Ids)
  BY ConstantsAssumption DEF Views
<1>2. \A i \in DOMAIN v[1] : v[1][i] \in Ids
  BY <1>1
<1>3. DOMAIN v[1] = 1 .. Len(v[1]) /\ Len(v[1]) \in Nat
  BY <1>1
<1>4. Cardinality(hits) \in Int
  <2>1. IsFiniteSet(DOMAIN v[1])
    BY <1>3, FS_Interval
  <2>2. IsFiniteSet(hits)
    BY <2>1, FS_Subset
  <2> QED  BY <2>2, FS_CardinalityType
<1>5. Answer(v).rows \subseteq {v[1][i] : i \in hits} /\ Answer(v).total = Cardinality(hits)
  BY DEF Answer
<1> QED  BY <1>2, <1>4, <1>5

LEMMA DeletedIsGone == ListInv => \A u \in Deleted : account[u] = "gone"
  BY DEF ListInv, DoneIsGone, Deleted

LEMMA ServerReadsStep == ListInv /\ ServerReads => ListInv'
<1> SUFFICES ASSUME ListInv, ServerReads
             PROVE  ListInv'
  OBVIOUS
<1>1. Here \in Views
  BY HereIsAView DEF ListInv
<1>2. /\ Answer(Here).rows \in SUBSET {u \in Ids : account[u] = "live"}
      /\ Answer(Here).total \in Int
  BY <1>1, AnswerIsLive DEF ListInv
<1>3. fetch' = [on |-> TRUE, read |-> TRUE, rows |-> Answer(Here).rows, total |-> Answer(Here).total]
  BY DEF ServerReads
<1>4. fetch' \in Load /\ fetch'.on /\ fetch'.rows = Answer(Here).rows
  BY <1>2, <1>3 DEF Load
<1>5. fetch'.rows \cap Deleted = {}
  BY <1>2, <1>4, DeletedIsGone
<1> QED  BY <1>4, <1>5, RequestStep DEF ServerReads, view, server, deletion

LEMMA ArrivesStep == ListInv /\ Arrives => ListInv'
<1> SUFFICES ASSUME ListInv, Arrives
             PROVE  ListInv'
  OBVIOUS
<1> DEFINE page == [has |-> TRUE, rows |-> fetch.rows, total |-> fetch.total,
                    stale |-> FALSE, err |-> FALSE, first |-> ~cache[Here].has]
<1>1. Here \in Views /\ Here' = Here
  BY HereIsAView DEF ListInv, Arrives, Here, view
<1>2. cache \in [Views -> Page] /\ fetch \in Load /\ cache[Here].has \in BOOLEAN
  BY <1>1 DEF ListInv, ListTypes, Page
<1>3. page \in Page
  BY <1>2 DEF Page, Load
<1>4. cache' = [cache EXCEPT ![Here] = page] /\ fetch' = Idle
  BY DEF Arrives
<1>5. cache' \in [Views -> Page] /\ cache'[Here] = page /\ \A v \in Views : v # Here => cache'[v] = cache[v]
  BY <1>1, <1>2, <1>3, <1>4
<1>6. ListTypes'
  BY <1>4, <1>5, AskedIsALoad DEF ListInv, ListTypes, Arrives, view, deletion, server
<1>7. DoneIsGone' /\ FreshHasData' /\ Deleted' = Deleted /\ (Quiet' => Quiet)
  BY <1>5 DEF ListInv, DoneIsGone, FreshHasData, Arrives, deletion, server, Deleted, Quiet
<1>8. UpToDate => UpToDate'
  <2>1. /\ ~page.stale /\ ~page.err /\ page.has /\ page.rows = fetch.rows
        /\ ~cache[Here].has => page.first
    OBVIOUS
  <2>2. fetch.read
    BY DEF Arrives
  <2>3. UpToDate => page.first \/ page.rows \cap Deleted = {}
    BY <2>1, <2>2 DEF UpToDate
  <2> HIDE DEF page
  <2> QED  BY <1>1, <1>4, <1>5, <1>7, <2>1, <2>3, AskedIsALoad DEF UpToDate
<1> QED  BY <1>6, <1>7, <1>8 DEF ListInv

LEMMA FetchFailsStep == ListInv /\ FetchFails => ListInv'
<1> SUFFICES ASSUME ListInv, FetchFails
             PROVE  ListInv'
  OBVIOUS
<1> DEFINE page == [[cache[Here] EXCEPT !.err = TRUE] EXCEPT !.stale = TRUE]
<1>1. Here \in Views /\ Here' = Here
  BY HereIsAView DEF ListInv, FetchFails, Here, view
<1>2. cache \in [Views -> Page] /\ cache[Here] \in Page
  BY <1>1 DEF ListInv, ListTypes
<1>3. page \in Page /\ page.err /\ page.stale
  BY <1>2 DEF Page
<1>4. cache' = [cache EXCEPT ![Here] = page] /\ fetch' = Idle
  BY <1>1, <1>2 DEF FetchFails, Page
<1>5. cache' \in [Views -> Page] /\ cache'[Here] = page /\ \A v \in Views : v # Here => cache'[v] = cache[v]
  BY <1>1, <1>2, <1>3, <1>4
<1>6. ListTypes'
  BY <1>4, <1>5, AskedIsALoad DEF ListInv, ListTypes, FetchFails, view, deletion
<1>7. DoneIsGone' /\ FreshHasData' /\ Deleted' = Deleted /\ (Quiet' => Quiet)
  BY <1>3, <1>5 DEF ListInv, DoneIsGone, FreshHasData, FetchFails, deletion, Deleted, Quiet
<1>8. UpToDate => UpToDate'
  BY <1>1, <1>3, <1>4, <1>5, <1>7, AskedIsALoad DEF UpToDate
<1> QED  BY <1>6, <1>7, <1>8 DEF ListInv

\* A view that is not asked for is up to date.
LEMMA ShowViewStep ==
  ASSUME ListInv, NEW v \in Views, ShowView(v),
         UNCHANGED <<account, asking, batch, saved, work>>, typed' \in Queries
  PROVE  ListInv'
<1>1. query' \in Queries /\ offset' \in Offsets /\ Here' = v /\ cache' = cache
  BY DEF ShowView, Here, Views, list
<1>2. CASE v = Here
  <2>1. UNCHANGED listing
    BY <1>2 DEF ShowView, listing, Here, list, ListInv, ListTypes
  <2> QED  BY <2>1, ListRests DEF ListInv, ListTypes
<1>3. CASE v # Here
  <2>1. fetch' = Asked \/ (fetch' = Idle /\ ~cache[v].stale)
    BY <1>3 DEF ShowView
  <2>2. ListTypes'
    BY <1>1, <2>1, AskedIsALoad DEF ListInv, ListTypes
  <2>3. DoneIsGone' /\ FreshHasData' /\ Deleted' = Deleted /\ (Quiet' => Quiet)
    BY <1>1 DEF ListInv, DoneIsGone, FreshHasData, Deleted, Quiet
  <2>4. UpToDate => UpToDate'
    BY <1>1, <2>1, <2>3, AskedIsALoad DEF ListInv, FreshHasData, UpToDate
  <2> QED  BY <2>2, <2>3, <2>4 DEF ListInv
<1> QED  BY <1>2, <1>3

\* After an invalidation no list is up to date, and the view on screen is asked
\* for or has its first request under way.
LEMMA RefreshStep ==
  ASSUME ListInv, Refresh, UNCHANGED <<account, typed, query, offset, asking, work>>,
         batch' \in [Batches -> BatchRecord], DoneIsGone',
         DOMAIN saved' = Batches,
         \A b \in Batches : \A v \in Views : v \in DOMAIN saved'[b] =>
             saved'[b][v].rows \in SUBSET Ids /\ saved'[b][v].total \in Int
  PROVE  ListInv'
<1>1. Here \in Views /\ Here' = Here
  BY HereIsAView DEF ListInv, Here
<1>2. \A v \in Views : cache[v] \in Page /\ cache'[v] = [cache[v] EXCEPT !.stale = TRUE]
  BY DEF Refresh, Invalidated, ListInv, ListTypes
<1>3. \A v \in Views : cache'[v] \in Page /\ cache'[v].stale /\ cache'[v].has = cache[v].has
  BY <1>2 DEF Page
<1>4. cache' \in [Views -> Page]
  BY <1>3 DEF Refresh, Invalidated
<1>5. fetch' = Refetch(cache)
  BY DEF Refresh
<1>6. ListTypes'
  BY <1>4, <1>5, RefetchIsALoad DEF ListInv, ListTypes
<1>7. FreshHasData' /\ UpToDate'
  BY <1>1, <1>3, <1>5, RefetchIsALoad DEF FreshHasData, UpToDate, ListInv
<1> QED  BY <1>6, <1>7 DEF ListInv

LEMMA OneBatch ==
  ASSUME batch \in [Batches -> BatchRecord], NEW b \in Batches, NEW r \in BatchRecord,
         batch' = [batch EXCEPT ![b] = r]
  PROVE  /\ batch' \in [Batches -> BatchRecord] /\ batch'[b] = r
         /\ \A c \in Batches : c # b => batch'[c] = batch[c]
  OBVIOUS

\* The deletions are confirmed, undone and put away: none starts or ends.
LEMMA BatchStep ==
  ASSUME ListInv, UNCHANGED <<account, typed, query, offset, cache, fetch, saved, work>>,
         asking' \in SUBSET Ids, batch' \in [Batches -> BatchRecord],
         \A b \in Batches :
             \/ batch'[b].state = batch[b].state /\ batch'[b].ids = batch[b].ids
             \/ {batch'[b].state, batch[b].state} \subseteq {"none", "queued", "undone"}
  PROVE  ListInv'
<1>1. ListTypes' /\ FreshHasData'
  BY DEF ListInv, ListTypes, FreshHasData
<1>2. \A b \in Batches : batch'[b].state \in {"running", "failed", "done"}
          \/ batch[b].state \in {"running", "failed", "done"}
          => batch'[b].state = batch[b].state /\ batch'[b].ids = batch[b].ids
  OBVIOUS
<1>3. DoneIsGone' /\ Here' = Here /\ (Quiet' => Quiet)
  BY <1>2 DEF ListInv, DoneIsGone, Here, Quiet
<1>4. Deleted' = Deleted
  BY <1>2 DEF Deleted
<1>5. UpToDate => UpToDate'
  BY <1>3, <1>4 DEF UpToDate
<1> QED  BY <1>1, <1>3, <1>5 DEF ListInv

LEMMA ConfirmList ==
  ASSUME ListInv, NEW b \in Batches, Confirm(b)
  PROVE  ListInv'
<1> DEFINE confirmed == [NoBatch EXCEPT !.state = "queued", !.ids = asking, !.toast = TRUE]
<1>1. /\ asking \in SUBSET Ids /\ batch \in [Batches -> BatchRecord]
      /\ batch[b].state = "none" /\ asking' = {}
      /\ batch' = [batch EXCEPT ![b] = confirmed]
  BY DEF ListInv, ListTypes, Confirm
<1>2. NoBatch \in BatchRecord
  BY DEF NoBatch, BatchRecord
<1>3. confirmed \in BatchRecord /\ confirmed.state = "queued"
  BY <1>1, <1>2 DEF BatchRecord
<1> HIDE DEF confirmed
<1>4. /\ batch' \in [Batches -> BatchRecord]
      /\ batch'[b].state = "queued" /\ \A c \in Batches : c # b => batch'[c] = batch[c]
  BY <1>1, <1>3
<1> QED  BY <1>1, <1>4, BatchStep DEF Confirm, view, list, server, ListInv, ListTypes

LEMMA UndoList ==
  ASSUME ListInv, NEW b \in Batches, Undo(b)
  PROVE  ListInv'
<1> DEFINE after  == IF batch[b].state = "queued" THEN "undone" ELSE batch[b].state
           undone == [[[batch[b] EXCEPT !.toast = FALSE] EXCEPT !.late = Fired(b)] EXCEPT !.state = after]
<1>1. batch[b] \in BatchRecord /\ Fired(b) \in BOOLEAN /\ batch \in [Batches -> BatchRecord]
  BY DEF ListInv, ListTypes, Fired
<1>2. undone \in BatchRecord /\ undone.state = after /\ undone.ids = batch[b].ids
  BY <1>1 DEF BatchRecord
<1>3. batch' = [batch EXCEPT ![b] = undone]
  BY <1>1 DEF Undo, BatchRecord
<1>4. /\ batch' \in [Batches -> BatchRecord] /\ batch'[b] = undone
      /\ \A c \in Batches : c # b => batch'[c] = batch[c]
  BY <1>1, <1>2, <1>3
<1>5. \/ batch'[b].state = batch[b].state /\ batch'[b].ids = batch[b].ids
      \/ {batch'[b].state, batch[b].state} \subseteq {"none", "queued", "undone"}
  BY <1>2, <1>4
<1> HIDE DEF undone, after
<1> QED  BY <1>4, <1>5, BatchStep DEF Undo, view, list, server, ListInv, ListTypes

LEMMA ToastEndsList ==
  ASSUME ListInv, NEW b \in Batches, ToastEnds(b)
  PROVE  ListInv'
<1> DEFINE ended == [batch[b] EXCEPT !.toast = FALSE]
<1>1. batch[b] \in BatchRecord /\ batch \in [Batches -> BatchRecord]
  BY DEF ListInv, ListTypes
<1>2. ended \in BatchRecord /\ ended.state = batch[b].state /\ ended.ids = batch[b].ids
  BY <1>1 DEF BatchRecord
<1>3. batch' = [batch EXCEPT ![b] = ended]
  BY <1>1 DEF ToastEnds
<1> HIDE DEF ended
<1>4. /\ batch' \in [Batches -> BatchRecord] /\ batch'[b] = ended
      /\ \A c \in Batches : c # b => batch'[c] = batch[c]
  BY <1>1, <1>2, <1>3
<1> QED  BY <1>2, <1>4, BatchStep DEF ToastEnds, view, list, server, ListInv, ListTypes

\* A step after which some deletion runs or has failed.
LEMMA LoudStep ==
  ASSUME ListInv, NEW b \in Batches, NEW s \in {"running", "failed"},
         batch' = [batch EXCEPT ![b].state = s],
         UNCHANGED <<account, typed, query, offset, asking>>,
         cache' \in [Views -> Page], FreshHasData', fetch' \in Load,
         DOMAIN saved' = Batches,
         \A c \in Batches : \A v \in Views : v \in DOMAIN saved'[c] =>
             saved'[c][v].rows \in SUBSET Ids /\ saved'[c][v].total \in Int,
         work' \in [Batches -> [Ids -> {"idle", "todo", "gone", "failed"}]],
         \A c \in Batches, u \in Ids : work'[c][u] = "gone" => work[c][u] = "gone"
  PROVE  ListInv'
<1> DEFINE changed == [batch[b] EXCEPT !.state = s]
<1>1. batch[b] \in BatchRecord /\ batch \in [Batches -> BatchRecord]
  BY DEF ListInv, ListTypes
<1>2. changed \in BatchRecord /\ changed.state = s
  BY <1>1 DEF BatchRecord
<1>3. batch' = [batch EXCEPT ![b] = changed]
  BY <1>1
<1> HIDE DEF changed
<1>4. /\ batch' \in [Batches -> BatchRecord] /\ batch'[b] = changed
      /\ \A c \in Batches : c # b => batch'[c] = batch[c]
  BY <1>1, <1>2, <1>3, OneBatch
<1>5. ListTypes'
  BY <1>4 DEF ListInv, ListTypes
<1>6. DoneIsGone' /\ ~Quiet'
  BY <1>2, <1>4 DEF ListInv, DoneIsGone, Quiet
<1> QED  BY <1>5, <1>6 DEF ListInv

LEMMA WithoutIsACache ==
  ASSUME ListTypes, FreshHasData, NEW ids \in SUBSET Ids
  PROVE  \A v \in Views : /\ Without(cache, ids)[v] \in Page
                          /\ ~Without(cache, ids)[v].stale => Without(cache, ids)[v].has
<1> SUFFICES ASSUME NEW v \in Views
             PROVE  /\ Without(cache, ids)[v] \in Page
                    /\ ~Without(cache, ids)[v].stale => Without(cache, ids)[v].has
  OBVIOUS
<1> DEFINE total == IF cache[v].total < Cardinality(ids) THEN 0 ELSE cache[v].total - Cardinality(ids)
           rows  == cache[v].rows \ ids
           page  == [[[[cache[v] EXCEPT !.rows = rows] EXCEPT !.stale = FALSE] EXCEPT !.err = FALSE] EXCEPT !.total = total]
<1>1. cache[v] \in Page /\ cache[v].total \in Int /\ rows \in SUBSET Ids
  BY DEF ListTypes, Page
<1>2. Cardinality(ids) \in Int
  BY FS_Subset, FS_CardinalityType, ConstantsAssumption
<1>3. total \in Int
  BY <1>1, <1>2
<1> HIDE DEF total, rows
<1>4. page \in Page /\ page.has = cache[v].has
  BY <1>1, <1>3 DEF Page
<1>5. CASE cache[v].has
  <2>1. Without(cache, ids)[v] = page
    BY <1>1, <1>5 DEF Without, Page, total, rows
  <2> QED  BY <1>4, <1>5, <2>1
<1>6. CASE ~cache[v].has
  <2>1. Without(cache, ids)[v] = cache[v]
    BY <1>6 DEF Without
  <2> QED  BY <1>1, <2>1 DEF FreshHasData
<1> QED  BY <1>5, <1>6

LEMMA FireList ==
  ASSUME ListInv, NEW b \in Batches, Fire(b)
  PROVE  ListInv'
<1>1. batch[b].ids \in SUBSET Ids
  BY DEF ListInv, ListTypes, BatchRecord
<1>2. cache' = Without(cache, batch[b].ids) /\ fetch' = Idle /\ saved' = [saved EXCEPT ![b] = Snapshot(cache)]
      /\ work' = [work EXCEPT ![b] = [u \in Ids |-> IF u \in batch[b].ids THEN "todo" ELSE "idle"]]
  BY DEF Fire
<1>3. \A v \in Views : cache'[v] \in Page /\ (~cache'[v].stale => cache'[v].has)
  BY <1>1, <1>2, WithoutIsACache DEF ListInv
<1>4. cache' \in [Views -> Page] /\ FreshHasData'
  BY <1>2, <1>3 DEF Without, FreshHasData
<1>5. /\ DOMAIN saved' = Batches
      /\ \A c \in Batches : \A v \in Views : v \in DOMAIN saved'[c] =>
             saved'[c][v].rows \in SUBSET Ids /\ saved'[c][v].total \in Int
  <2>1. \A v \in Views : v \in DOMAIN Snapshot(cache) =>
             Snapshot(cache)[v].rows \in SUBSET Ids /\ Snapshot(cache)[v].total \in Int
    BY DEF Snapshot, ListInv, ListTypes, Page
  <2>2. DOMAIN saved = Batches /\ DOMAIN saved' = Batches /\ saved'[b] = Snapshot(cache)
        /\ \A c \in Batches : c # b => saved'[c] = saved[c]
    BY <1>2 DEF ListInv, ListTypes
  <2> QED  BY <2>1, <2>2 DEF ListInv, ListTypes
<1>6. /\ work' \in [Batches -> [Ids -> {"idle", "todo", "gone", "failed"}]]
      /\ \A c \in Batches, u \in Ids : work'[c][u] = "gone" => work[c][u] = "gone"
  BY <1>2 DEF ListInv, ListTypes
<1> QED  BY <1>2, <1>4, <1>5, <1>6, AskedIsALoad, LoudStep DEF Fire, view, server, ListInv

LEMMA FireThrowsList ==
  ASSUME ListInv, NEW b \in Batches, FireThrows(b)
  PROVE  ListInv'
<1>1. batch[b].ids \in SUBSET Ids
  BY DEF ListInv, ListTypes, BatchRecord
<1>2. PICK before \in SUBSET {v \in Views : cache[v].has} :
          cache' = [v \in Views |-> IF v \in before THEN Without(cache, batch[b].ids)[v] ELSE cache[v]]
  BY DEF FireThrows
<1>3. \A v \in Views : cache'[v] \in Page /\ (~cache'[v].stale => cache'[v].has)
  BY <1>1, <1>2, WithoutIsACache DEF ListInv, ListTypes, FreshHasData
<1>4. cache' \in [Views -> Page] /\ FreshHasData'
  BY <1>2, <1>3 DEF FreshHasData
<1> QED  BY <1>4, AskedIsALoad, LoudStep DEF FireThrows, view, server, ListInv, ListTypes

LEMMA RollBackList ==
  ASSUME ListInv, NEW b \in Batches, RollBack(b)
  PROVE  ListInv'
<1>1. cache' = Restored(cache, saved[b]) /\ saved' = [saved EXCEPT ![b] = <<>>]
  BY DEF RollBack
<1>2. ASSUME NEW v \in Views
      PROVE  cache'[v] \in Page /\ (~cache'[v].stale => cache'[v].has)
  <2> DEFINE page == [[[[[cache[v] EXCEPT !.has = TRUE] EXCEPT !.rows = saved[b][v].rows]
                          EXCEPT !.total = saved[b][v].total] EXCEPT !.stale = FALSE] EXCEPT !.err = FALSE]
  <2>1. cache[v] \in Page
    BY DEF ListInv, ListTypes
  <2>2. CASE v \in DOMAIN saved[b]
    <3>1. saved[b][v].rows \in SUBSET Ids /\ saved[b][v].total \in Int
      BY <2>2 DEF ListInv, ListTypes
    <3>2. page \in Page /\ page.has
      BY <2>1, <3>1 DEF Page
    <3>3. cache'[v] = page
      BY <1>1, <2>1, <2>2 DEF Restored, Page
    <3> QED  BY <3>2, <3>3
  <2>3. CASE v \notin DOMAIN saved[b]
    BY <1>1, <2>1, <2>3 DEF Restored, ListInv, FreshHasData
  <2> QED  BY <2>2, <2>3
<1>3. cache' \in [Views -> Page] /\ FreshHasData'
  BY <1>1, <1>2 DEF Restored, FreshHasData
<1>4. /\ DOMAIN saved' = Batches /\ DOMAIN saved'[b] = {}
      /\ \A c \in Batches : c # b => saved'[c] = saved[c]
  BY <1>1 DEF ListInv, ListTypes
<1> QED  BY <1>3, <1>4, LoudStep DEF RollBack, view, server, ListInv, ListTypes

LEMMA SucceedList ==
  ASSUME ListInv, NEW b \in Batches, Succeed(b)
  PROVE  ListInv'
<1> DEFINE changed == [batch[b] EXCEPT !.state = "done"]
<1>1. batch[b] \in BatchRecord /\ batch \in [Batches -> BatchRecord]
  BY DEF ListInv, ListTypes
<1>2. changed \in BatchRecord /\ changed.ids = batch[b].ids /\ batch[b].ids \subseteq Ids
  BY <1>1 DEF BatchRecord
<1>3. batch' = [batch EXCEPT ![b] = changed] /\ saved' = [saved EXCEPT ![b] = <<>>]
  BY <1>1 DEF Succeed
<1> HIDE DEF changed
<1>4. /\ batch' \in [Batches -> BatchRecord] /\ batch'[b].ids = batch[b].ids
      /\ \A c \in Batches : c # b => batch'[c] = batch[c]
  BY <1>1, <1>2, <1>3
<1>5. DoneIsGone'
  <2>1. \A u \in batch[b].ids : account[u] = "gone"
    BY <1>2 DEF Succeed, ListInv, DoneIsGone
  <2> QED  BY <1>4, <2>1 DEF Succeed, server, ListInv, DoneIsGone
<1>6. /\ DOMAIN saved' = Batches /\ DOMAIN saved'[b] = {}
      /\ \A c \in Batches : c # b => saved'[c] = saved[c]
  BY <1>3 DEF ListInv, ListTypes
<1> QED  BY <1>4, <1>5, <1>6, RefreshStep DEF Succeed, view, server, ListInv, ListTypes

LEMMA DeleteUserList ==
  ASSUME ListInv, NEW b \in Batches, NEW u \in Ids, DeleteUser(b, u) \/ DeletionFails(b, u)
  PROVE  ListInv'
<1>1. PICK w \in {"gone", "failed"} :
        work' = [work EXCEPT ![b][u] = w] /\ (w = "gone" => account' = [account EXCEPT ![u] = "gone"])
  BY DEF DeleteUser, DeletionFails
<1>2. account' = account \/ account' = [account EXCEPT ![u] = "gone"]
  BY DEF DeleteUser, DeletionFails
<1>3. /\ account' \in [Ids -> {"new", "live", "gone"}]
      /\ \A x \in Ids : account[x] = "gone" => account'[x] = "gone"
      /\ w = "gone" => account'[u] = "gone"
  BY <1>1, <1>2 DEF ListInv, ListTypes
<1>4. /\ work' \in [Batches -> [Ids -> {"idle", "todo", "gone", "failed"}]]
      /\ work'[b][u] = w
      /\ \A c \in Batches, x \in Ids : c # b \/ x # u => work'[c][x] = work[c][x]
  BY <1>1 DEF ListInv, ListTypes
<1> QED  BY <1>3, <1>4, AccountStep DEF DeleteUser, DeletionFails, view, list

LEMMA DeletingList == ListInv /\ Deleting => ListInv'
<1> SUFFICES ASSUME ListInv, Deleting
             PROVE  ListInv'
  OBVIOUS
<1>1. PICK b \in Batches :
        \/ Fire(b) \/ FireThrows(b) \/ Succeed(b) \/ RollBack(b) \/ ToastEnds(b)
        \/ \E u \in Ids : DeleteUser(b, u) \/ DeletionFails(b, u)
  BY DEF Deleting
<1> QED  BY <1>1, FireList, FireThrowsList, SucceedList, RollBackList, ToastEndsList, DeleteUserList

LEMMA AskList ==
  ASSUME ListInv, NEW t, t \subseteq Items, Ask(t)
  PROVE  ListInv'
<1>1. asking' \in SUBSET Ids
  BY ItemsAreShown DEF Ask, ListInv, ListTypes
<1> QED  BY <1>1, ListRests DEF Ask, view, list, server, deletion, listing, ListInv, ListTypes

LEMMA ChoosingList == ListInv /\ Choosing => ListInv'
<1> SUFFICES ASSUME ListInv, Choosing
             PROVE  ListInv'
  OBVIOUS
<1>1. CASE \E u \in Ids : ToggleRow(u)
  BY <1>1, ListRests DEF ToggleRow, Select, deletion, view, list, listing, ListInv, ListTypes
<1>2. CASE ToggleAll \/ Clear
  BY <1>2, ListRests DEF ToggleAll, Clear, Select, deletion, view, list, listing, ListInv, ListTypes
<1>3. CASE \E u \in Ids : DeleteRow(u)
  <2>1. PICK u \in Ids : u \in Items /\ Ask({u})
    BY <1>3 DEF DeleteRow
  <2> QED  BY <2>1, AskList
<1>4. CASE DeleteSelection
  BY <1>4, AskList DEF DeleteSelection
<1>5. CASE Decline
  BY <1>5, ListRests DEF Decline, server, deletion, view, list, listing, ListInv, ListTypes
<1>6. CASE \E b \in Batches : Confirm(b) \/ Undo(b)
  BY <1>6, ConfirmList, UndoList
<1> QED  BY <1>1, <1>2, <1>3, <1>4, <1>5, <1>6 DEF Choosing

LEMMA PagingList == ListInv /\ (Paging \/ Debounced) => ListInv'
<1> SUFFICES ASSUME ListInv, Paging \/ Debounced
             PROVE  ListInv'
  OBVIOUS
<1>1. typed \in Queries /\ query \in Queries /\ offset \in Offsets
  BY DEF ListInv, ListTypes
<1>2. ASSUME NEW q \in Queries, Filter(q) \/ Type(q)
      PROVE  ListInv'
  <2>1. <<q, 0>> \in Views /\ <<query, 0>> \in Views
    BY <1>1, NoOffset DEF Views
  <2> QED  BY <1>2, <2>1, ShowViewStep DEF Filter, Type, deletion
<1>3. ASSUME NEW o \in Offsets, Turn(o)
      PROVE  ListInv'
  <2>1. <<query, o>> \in Views
    BY <1>1 DEF Views
  <2> QED  BY <1>1, <1>3, <2>1, ShowViewStep DEF Turn, deletion
<1>4. CASE Debounced
  <2>1. <<typed, offset>> \in Views
    BY <1>1 DEF Views
  <2> QED  BY <1>1, <1>4, <2>1, ShowViewStep DEF Debounced, deletion, server
<1>5. CASE Retry
  <2>1. Refetch(cache) \in Load /\ Refetch(cache).on /\ (Refetch(cache) = fetch \/ ~Refetch(cache).read)
    BY RefetchIsALoad DEF ListInv
  <2> QED  BY <1>1, <1>5, <2>1, RequestStep DEF Retry, view, deletion
<1> QED  BY <1>2, <1>3, <1>4, <1>5 DEF Paging

LEMMA AddingList == ListInv /\ Adding => ListInv'
<1> SUFFICES ASSUME ListInv, Adding
             PROVE  ListInv'
  OBVIOUS
<1>1. CASE \E what \in {"form", "import"} : OpenForm(what)
  BY <1>1, ListRests DEF OpenForm, view, list, deletion, listing, ListInv, ListTypes
<1>2. CASE EmailTaken \/ EmailForgotten \/ AddingStops
  BY <1>2, ListRests DEF EmailTaken, EmailForgotten, AddingStops, server, view, list, deletion, listing, ListInv, ListTypes
<1>3. CASE Added
  BY <1>3, RefreshStep DEF Added, server, view, deletion, ListInv, ListTypes, DoneIsGone
<1>4. CASE \E u \in Ids : Register(u)
  <2>1. PICK u \in Ids : Register(u)
    BY <1>4
  <2>2. /\ account' \in [Ids -> {"new", "live", "gone"}]
        /\ \A x \in Ids : account[x] = "gone" => account'[x] = "gone"
    BY <2>1 DEF Register, ListInv, ListTypes
  <2> QED  BY <2>1, <2>2, AccountStep DEF Register, view, list, deletion, ListInv, ListTypes
<1> QED  BY <1>1, <1>2, <1>3, <1>4 DEF Adding

LEMMA OutsideList == ListInv /\ Outside => ListInv'
<1> SUFFICES ASSUME ListInv, Outside
             PROVE  ListInv'
  OBVIOUS
<1>1. CASE ToggleLive \/ Hide \/ Missed
  BY <1>1, ListRests DEF ToggleLive, Hide, Missed, view, list, deletion, listing, ListInv, ListTypes
<1>2. CASE Show
  <2>1. CASE fetch' = Asked
    BY <1>2, <2>1, AskedIsALoad, RequestStep DEF Show, server, view, deletion
  <2>2. CASE fetch' = fetch
    BY <1>2, <2>2, ListRests DEF Show, server, view, deletion, listing, ListInv, ListTypes
  <2> QED  BY <1>2, <2>1, <2>2 DEF Show
<1>3. CASE Notified
  BY <1>3, RefreshStep DEF Notified, view, deletion, ListInv, ListTypes, DoneIsGone
<1>4. CASE FetchFails
  BY <1>4, FetchFailsStep
<1>5. CASE \E u \in Ids : OtherDeletes(u)
  <2>1. PICK u \in Ids : OtherDeletes(u)
    BY <1>5
  <2>2. /\ account' \in [Ids -> {"new", "live", "gone"}]
        /\ \A x \in Ids : account[x] = "gone" => account'[x] = "gone"
    BY <2>1 DEF OtherDeletes, ListInv, ListTypes
  <2> QED  BY <2>1, <2>2, AccountStep DEF OtherDeletes, view, list, deletion, ListInv, ListTypes
<1> QED  BY <1>1, <1>2, <1>3, <1>4, <1>5 DEF Outside

LEMMA NextList == ListInv /\ [Next]_vars => ListInv'
<1> SUFFICES ASSUME ListInv, [Next]_vars
             PROVE  ListInv'
  OBVIOUS
<1>1. CASE Poll
  BY <1>1, AskedIsALoad, RequestStep DEF Poll, server, view, deletion
<1>2. CASE UNCHANGED vars
  BY <1>2, ListRests DEF vars, listing, ListInv, ListTypes
<1> QED  BY <1>1, <1>2, PagingList, ChoosingList, AddingList, OutsideList, DeletingList,
            ServerReadsStep, ArrivesStep DEF Next

\* The row of a deleted account is back on screen only while the list is being
\* fetched, next to a deletion that runs or has failed, or on a first load.
THEOREM DeletedAreHidden == Spec => []DeletedStaysHidden
<1>1. ListInv => DeletedStaysHidden
  <2> SUFFICES ASSUME ListInv, NEW b \in Batches, batch[b].state = "done",
                      NEW u \in batch[b].ids \cap Items, ~fetch.on, Quiet
               PROVE  cache[Here].first
    BY DEF DeletedStaysHidden, Quiet
  <2>1. ~cache[Here].err /\ u \in Shown.rows
    BY DEF Items, Ready
  <2>2. cache[Here].has /\ ~cache[Here].stale
    BY <2>1 DEF ListInv, UpToDate
  <2>3. u \in cache[Here].rows /\ u \in Deleted
    BY <2>1, <2>2 DEF Shown, Deleted
  <2> QED  BY <2>2, <2>3, HereIsAView DEF ListInv, UpToDate
<1> QED  BY <1>1, InitListInv, NextList, PTL DEF Spec
=============================================================================
