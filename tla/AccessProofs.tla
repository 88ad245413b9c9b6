---------------------------- MODULE AccessProofs ----------------------------
(***************************************************************************)
(* The forms that write roles and assignments, for every number of roles,  *)
(* permissions, accounts, writes and faults: what is on its way to the     *)
(* server is well formed, no account holds a role that is not there, a     *)
(* form that is busy gets an answer (Inv), edits stay until somebody gives *)
(* them up (a step property from Inv), and a write changes what its user   *)
(* asked for (TruthInv: what a list that counts as up to date may still    *)
(* not know).                                                              *)
(***************************************************************************)
EXTENDS Access, FiniteSetTheorems, TLAPS


-----------------------------------------------------------------------------
\* Tables whose rows are some of X and hold sets of elements of C.
Tables(X, C) == UNION {[D -> SUBSET C] : D \in SUBSET X}
Rolls    == Tables(Roles, Perms)
Holdings == Tables(Accounts, Roles)

CachedIn(T) == [data : T, phase : {"idle", "asked", "read"}, resp : T, fresh : BOOLEAN, bad : BOOLEAN]
TableOf(k)  == IF k = "roles" THEN Rolls ELSE Holdings

RoleOps == {"matrix", "editor", "creator", "drop", "usage"}
FormOps == {"editor", "creator", "drop", "drawer", "register", "profile"}
PutOps  == {"assign", "bulk", "drawer", "directory"}

\* What a call or a dialog is about, and what its sets are made of.
Subjects(op) == IF op \in RoleOps THEN Roles ELSE Accounts
Contents(op) == CASE op \in {"matrix", "editor", "creator"} -> Perms
                  [] op = "profile" -> Fields
                  [] OTHER -> Roles

Asking(op) == CASE op \in PutOps -> {"put"}
                  [] op \in {"matrix", "editor"} -> {"patch"}
                  [] op = "creator" -> {"post"}
                  [] op = "drop" -> {"drop"}
                  [] op = "register" -> {"register", "details", "put"}
                  [] op = "profile" -> {"verify", "profile", "password"}
What == {"put", "patch", "post", "drop", "register", "details", "verify", "profile", "password"}

\* A request under way.
CallRecord ==
    [id : Nat, op : Op, on : Roles \cup Accounts, want : SUBSET Items, ids : SUBSET Items,
     todo : Seq(What), st : {"sent", "ok", "bad", "lost", "done"},
     tie : {"modal", "page", "away", "stray"}, old : BOOLEAN, seen : SUBSET Items, undo : Rolls]

\* What a dialog holds, and what its confirmation holds of it.
Form == [kind : FormOps \cup {"none", "usage"}, on : Roles \cup Accounts \cup {"none"},
         base : SUBSET Items, ids : SUBSET Items, old : BOOLEAN, seen : SUBSET Items,
         busy : BOOLEAN, hung : BOOLEAN]

Questions == [q : {"none", "reduce", "discard"}, form : Form, tie : {"modal", "page", "away"},
              first : {"modal", "confirm"}]

\* A dialog is about what its kind is about, and its sets are made of that.
Proper(m) ==
    m.kind # "none" => /\ m.on \in Subjects(m.kind)
                       /\ m.ids \subseteq Contents(m.kind) /\ m.base \subseteq Contents(m.kind)

\* So is a call, and what it still asks for fits its kind.  Only a call that
\* waits for its rows is done.
Sound(c) ==
    /\ c.on \in Subjects(c.op) /\ c.ids \subseteq Contents(c.op)
    /\ c.todo # <<>> /\ \A i \in 1 .. Len(c.todo) : c.todo[i] \in Asking(c.op)
    /\ c.st = "done" => c.op = "directory"

\* The calls the usage dialog owns are of two other kinds.
Within(op, kind) == op = kind \/ (kind = "usage" /\ op \in {"assign", "bulk"})

\* The foreign key of the assignments, and registrations of accounts there are.
ServerInv ==
    /\ perms \in Rolls /\ holds \in Holdings
    /\ \A x \in DOMAIN holds : holds[x] \subseteq DOMAIN perms
    /\ events \subseteq DOMAIN holds

ListsInv ==
    /\ lists = [k \in Key |-> lists[k]]
    /\ \A k \in Key : lists[k] \in CachedIn(TableOf(k))

AgingInv ==
    /\ behind \in [Key -> SUBSET (Roles \cup Accounts)]
    /\ missed \in [Key -> SUBSET (Roles \cup Accounts)]

TabInv == page \in {"roles", "users"} /\ budget \in Budget

ModalInv == modal \in Form /\ Proper(modal)

\* Only the editor asks about fewer permissions; its answer is sent as its own.
AskInv ==
    /\ ask \in Questions /\ Proper(ask.form)
    /\ ask.q = "reduce" => ask.form.kind = "editor" /\ (ask.tie = "modal" => modal.kind = "editor")

\* Identifiers come from the budget: a new call's is smaller than those there
\* are, so a form, unlike a bulk write, has one call per mutation.
CallsInv ==
    /\ \A c \in calls : /\ c \in CallRecord /\ Sound(c) /\ c.id > budget.edits
                        /\ c.tie = "modal" => Within(c.op, modal.kind)
    /\ \A c, d \in calls : c.id = d.id /\ c.op \in FormOps => c = d

Inv == ServerInv /\ ListsInv /\ AgingInv /\ TabInv /\ ModalInv /\ AskInv /\ CallsInv /\ BusyIsAnswered

-----------------------------------------------------------------------------
LEMMA TableFacts ==
  ASSUME NEW X, NEW C, NEW f \in Tables(X, C)
  PROVE  /\ DOMAIN f \subseteq X /\ f \in [DOMAIN f -> SUBSET C]
         /\ \A x \in DOMAIN f : f[x] \in SUBSET C
<1>1. PICK D \in SUBSET X : f \in [D -> SUBSET C]
  BY DEF Tables
<1> QED  BY <1>1

LEMMA TableIntro ==
  ASSUME NEW X, NEW C, NEW D \in SUBSET X, NEW f \in [D -> SUBSET C]
  PROVE  f \in Tables(X, C)
  BY DEF Tables

LEMMA EmptyTable ==
  ASSUME NEW X, NEW C
  PROVE  <<>> \in Tables(X, C) /\ DOMAIN <<>> = {}
<1>1. <<>> \in [{} -> SUBSET C] /\ {} \in SUBSET X
  OBVIOUS
<1> QED  BY <1>1, TableIntro

LEMMA TableExcept ==
  ASSUME NEW X, NEW C, NEW f \in Tables(X, C), NEW x, NEW S \in SUBSET C
  PROVE  [f EXCEPT ![x] = S] \in Tables(X, C)
<1> DEFINE g == [f EXCEPT ![x] = S]
<1>1. DOMAIN f \in SUBSET X /\ f \in [DOMAIN f -> SUBSET C]
  BY TableFacts
<1>2. g \in [DOMAIN f -> SUBSET C]
  BY <1>1
<1> QED  BY <1>1, <1>2, TableIntro

\* The ways a list record changes keep its type.
LEMMA CachedRecords ==
  ASSUME NEW T, NEW l \in CachedIn(T), <<>> \in T
  PROVE  /\ Fetching(l) \in CachedIn(T)
         /\ [l EXCEPT !.fresh = FALSE] \in CachedIn(T)
         /\ Fetching([l EXCEPT !.fresh = FALSE]) \in CachedIn(T)
         /\ [l EXCEPT !.phase = "idle", !.resp = <<>>, !.bad = TRUE] \in CachedIn(T)
         /\ [l EXCEPT !.phase = "idle", !.resp = <<>>] \in CachedIn(T)
         /\ \A f \in T : /\ [l EXCEPT !.phase = "read", !.resp = f] \in CachedIn(T)
                         /\ [l EXCEPT !.data = f] \in CachedIn(T)
                         /\ [l EXCEPT !.phase = "idle", !.resp = <<>>, !.data = f] \in CachedIn(T)
                         /\ [Blank EXCEPT !.data = f, !.fresh = TRUE] \in CachedIn(T)
  BY DEF CachedIn, Fetching, Blank

-----------------------------------------------------------------------------
\* The pieces of the invariant that a step leaves alone.

LEMMA ServerRests == ServerInv /\ UNCHANGED server => ServerInv'
  BY DEF ServerInv, server

LEMMA ListsRest == ListsInv /\ UNCHANGED lists => ListsInv'
  BY DEF ListsInv

LEMMA AgingRests == AgingInv /\ UNCHANGED aging => AgingInv'
  BY DEF AgingInv, aging

LEMMA AskRests == AskInv /\ UNCHANGED ask /\ modal'.kind = modal.kind => AskInv'
  BY DEF AskInv, Proper

LEMMA Spends ==
  ASSUME budget \in Budget, NEW what \in {"edits", "others", "faults", "reads"}, Spend(what)
  PROVE  /\ budget' \in Budget /\ budget'.edits <= budget.edits
         /\ what = "edits" => budget'.edits < budget.edits
<1>1. /\ budget[what] \in Nat /\ budget[what] > 0
      /\ budget' = [budget EXCEPT ![what] = budget[what] - 1]
  BY DEF Budget, Spend
<1>2. CASE what = "edits"
  <2>1. budget' = [budget EXCEPT !.edits = budget.edits - 1] /\ budget.edits > 0
    BY <1>1, <1>2
  <2> QED  BY <2>1 DEF Budget
<1>3. CASE what = "others"
  <2>1. budget' = [budget EXCEPT !.others = budget.others - 1] /\ budget.others > 0
    BY <1>1, <1>3
  <2> QED  BY <1>3, <2>1 DEF Budget
<1>4. CASE what = "faults"
  <2>1. budget' = [budget EXCEPT !.faults = budget.faults - 1] /\ budget.faults > 0
    BY <1>1, <1>4
  <2> QED  BY <1>4, <2>1 DEF Budget
<1>5. CASE what = "reads"
  <2>1. budget' = [budget EXCEPT !.reads = budget.reads - 1] /\ budget.reads > 0
    BY <1>1, <1>5
  <2> QED  BY <1>5, <2>1 DEF Budget
<1> QED  BY <1>2, <1>3, <1>4, <1>5

\* Rows of the lists, and what the server has of them.
LEMMA RowsAreTyped ==
  ASSUME ListsInv
  PROVE  /\ \A k \in Key : Rows(k) \subseteq (IF k = "roles" THEN Roles ELSE Accounts)
         /\ \A r \in Rows("roles") : Row("roles", r) \subseteq Perms
         /\ \A k \in {"usage", "users"} : \A u \in Rows(k) : Row(k, u) \subseteq Roles
<1>1. lists["roles"].data \in Rolls /\ \A k \in {"usage", "users"} : lists[k].data \in Holdings
  BY DEF ListsInv, Key, TableOf, CachedIn
<1> QED  BY <1>1, TableFacts DEF Rolls, Holdings, Rows, Row, Key

LEMMA AnswerIsTyped ==
  ASSUME ServerInv, NEW k \in Key
  PROVE  /\ Answer(k) \in TableOf(k)
         /\ \A x : Now(k, x) \subseteq Items
<1>1. Answer(k) \in TableOf(k)
  BY DEF ServerInv, Answer, TableOf
<1>2. \A x \in DOMAIN Answer(k) : Answer(k)[x] \subseteq Items
  <2>1. CASE k = "roles"
    BY <1>1, <2>1, TableFacts DEF TableOf, Rolls, Items
  <2>2. CASE k # "roles"
    BY <1>1, <2>2, TableFacts DEF TableOf, Holdings, Items
  <2> QED  BY <2>1, <2>2
<1> QED  BY <1>1, <1>2 DEF Now

\* A change of one cached list.
LEMMA OneList ==
  ASSUME ListsInv, NEW k \in Key, NEW l \in CachedIn(TableOf(k)), lists' = [lists EXCEPT ![k] = l]
  PROVE  ListsInv'
<1>1. /\ lists' = [j \in Key |-> IF j = k THEN l ELSE lists[j]]
  BY DEF ListsInv
<1> QED  BY <1>1 DEF ListsInv

LEMMA TablesAreTyped ==
  ASSUME NEW k \in Key
  PROVE  <<>> \in TableOf(k)
  BY EmptyTable DEF TableOf, Rolls, Holdings

LEMMA MountedLists ==
  ASSUME ListsInv, NEW k \in Key, lists' = Mounted(lists, k)
  PROVE  ListsInv'
<1>1. CASE lists' = lists
  BY <1>1, ListsRest
<1>2. CASE lists' = [lists EXCEPT ![k] = Fetching(lists[k])]
  <2>1. lists[k] \in CachedIn(TableOf(k))
    BY DEF ListsInv
  <2>2. Fetching(lists[k]) \in CachedIn(TableOf(k))
    BY <2>1, CachedRecords, TablesAreTyped
  <2> QED  BY <1>2, <2>2, OneList
<1> QED  BY <1>1, <1>2 DEF Mounted

LEMMA InvalidatedLists ==
  ASSUME NEW L, L = [k \in Key |-> L[k]], \A k \in Key : L[k] \in CachedIn(TableOf(k)),
         NEW K, lists' = Invalidated(L, K)
  PROVE  ListsInv'
<1>1. ASSUME NEW k \in Key
      PROVE  lists'[k] \in CachedIn(TableOf(k))
  <2>1. /\ L[k] \in CachedIn(TableOf(k))
        /\ [L[k] EXCEPT !.fresh = FALSE] \in CachedIn(TableOf(k))
        /\ Fetching([L[k] EXCEPT !.fresh = FALSE]) \in CachedIn(TableOf(k))
    BY CachedRecords, TablesAreTyped
  <2>2. lists'[k] \in {L[k], [L[k] EXCEPT !.fresh = FALSE], Fetching([L[k] EXCEPT !.fresh = FALSE])}
    BY DEF Invalidated
  <2> QED  BY <2>1, <2>2
<1>2. lists' = [k \in Key |-> lists'[k]]
  BY DEF Invalidated
<1> QED  BY <1>1, <1>2 DEF ListsInv

LEMMA UntoldTypes ==
  ASSUME AgingInv, NEW K, NEW X \in SUBSET (Roles \cup Accounts), Untold(K, X) \/ Overtaken(K, X)
  PROVE  AgingInv'
<1>1. CASE Untold(K, X)
  BY <1>1 DEF AgingInv, Untold
<1>2. CASE Overtaken(K, X)
  BY <1>2 DEF AgingInv, Overtaken
<1> QED  BY <1>1, <1>2

-----------------------------------------------------------------------------
\* Requests under way.

LEMMA CallsRest ==
  ASSUME CallsInv, UNCHANGED calls, modal'.kind = modal.kind, budget \in Budget, budget' \in Budget,
         budget'.edits <= budget.edits
  PROVE  CallsInv'
<1>1. ASSUME NEW c \in calls
      PROVE  c.id > budget'.edits
  <2>1. c.id \in Nat /\ c.id > budget.edits /\ budget.edits \in Nat /\ budget'.edits \in Nat
    BY DEF CallsInv, CallRecord, Budget
  <2> QED  BY <2>1
<1> QED  BY <1>1 DEF CallsInv

\* Each call becomes at most one, of the same mutation.
LEMMA CallsMapped ==
  ASSUME CallsInv, budget \in Budget, budget' \in Budget, budget'.edits <= budget.edits,
         NEW g \in [calls -> CallRecord], calls' \subseteq {g[c] : c \in calls},
         \A c \in calls : /\ g[c].id = c.id /\ g[c].op = c.op /\ Sound(g[c])
                          /\ g[c].tie = "modal" => Within(c.op, modal'.kind)
  PROVE  CallsInv'
<1>1. ASSUME NEW e \in calls'
      PROVE  /\ e \in CallRecord /\ Sound(e) /\ e.id > budget'.edits
             /\ e.tie = "modal" => Within(e.op, modal'.kind)
  <2>1. PICK c \in calls : e = g[c]
    OBVIOUS
  <2>2. c.id \in Nat /\ c.id > budget.edits /\ budget.edits \in Nat /\ budget'.edits \in Nat
    BY DEF CallsInv, CallRecord, Budget
  <2>3. e.id > budget'.edits
    BY <2>1, <2>2
  <2> QED  BY <2>1, <2>3
<1>2. ASSUME NEW e \in calls', NEW f \in calls', e.id = f.id, e.op \in FormOps
      PROVE  e = f
  <2>1. PICK c \in calls, d \in calls : e = g[c] /\ f = g[d]
    OBVIOUS
  <2>2. c.id = d.id /\ c.op \in FormOps
    BY <1>2, <2>1
  <2>3. c = d
    BY <2>2 DEF CallsInv
  <2> QED  BY <2>1, <2>3
<1> QED  BY <1>1, <1>2 DEF CallsInv

\* The calls of a new mutation have a number of their own.
LEMMA CallsSent ==
  ASSUME CallsInv, budget \in Budget, budget' \in Budget, budget'.edits < budget.edits,
         NEW C, calls' = calls \cup C, modal'.kind = modal.kind,
         \A c \in C : /\ c \in CallRecord /\ Sound(c) /\ c.id = budget.edits
                      /\ c.tie = "modal" => Within(c.op, modal.kind),
         \A c, d \in C : c.op \in FormOps => c = d
  PROVE  CallsInv'
<1>1. budget.edits \in Nat /\ budget'.edits \in Nat
  BY DEF Budget
<1>2. ASSUME NEW e \in calls'
      PROVE  /\ e \in CallRecord /\ Sound(e) /\ e.id > budget'.edits
             /\ e.tie = "modal" => Within(e.op, modal'.kind)
  <2>1. CASE e \in calls
    <3>1. e.id \in Nat /\ e.id > budget.edits
      BY <2>1 DEF CallsInv, CallRecord
    <3>2. e.id > budget'.edits
      BY <1>1, <3>1
    <3> QED  BY <2>1, <3>2 DEF CallsInv
  <2>2. CASE e \in C
    BY <1>1, <2>2
  <2> QED  BY <2>1, <2>2
<1>3. ASSUME NEW e \in calls', NEW f \in calls', e.id = f.id, e.op \in FormOps
      PROVE  e = f
  <2>1. \A c \in calls : c.id \in Nat /\ c.id > budget.edits
    BY DEF CallsInv, CallRecord
  <2>2. (e \in calls /\ f \in calls) \/ (e \in C /\ f \in C)
    BY <1>1, <1>3, <2>1
  <2>3. CASE e \in calls /\ f \in calls
    BY <1>3, <2>3 DEF CallsInv
  <2>4. CASE e \in C /\ f \in C
    BY <1>3, <2>4
  <2> QED  BY <2>2, <2>3, <2>4
<1> QED  BY <1>2, <1>3 DEF CallsInv

LEMMA CallIsTyped ==
  ASSUME budget \in Budget, NEW op \in Op, NEW x \in Roles \cup Accounts, NEW want \in SUBSET Items,
         NEW ids \in SUBSET Items, NEW todo \in Seq(What), NEW tie \in {"modal", "page", "away"},
         NEW old \in BOOLEAN, NEW seen \in SUBSET Items
  PROVE  LET c == Call(op, x, want, ids, todo, tie, old, seen)
         IN  /\ c \in CallRecord /\ c.id = budget.edits /\ c.op = op /\ c.on = x /\ c.ids = ids
             /\ c.todo = todo /\ c.st = "sent" /\ c.tie = tie
<1>1. budget["edits"] = budget.edits /\ budget.edits \in Nat
  BY DEF Budget
<1>2. <<>> \in Rolls
  BY EmptyTable DEF Rolls
<1> QED  BY <1>1, <1>2 DEF Call, CallRecord

\* What keeps a busy form waiting for an answer that comes.
LEMMA BusyRests ==
  ASSUME BusyIsAnswered, ask'.q = ask.q, ask'.tie = ask.tie, modal'.kind = modal.kind,
         modal'.busy => modal.busy, modal.hung => modal'.hung,
         \A c \in calls : c.op = modal.kind /\ c.tie = "modal" =>
             \E d \in calls' : d.op = c.op /\ d.tie = "modal"
  PROVE  BusyIsAnswered'
  BY DEF BusyIsAnswered, Pending

-----------------------------------------------------------------------------
\* The answers to one call.

\* Call c takes the place of b.
Replaced(b, c) == [d \in calls |-> IF d = b THEN c ELSE d]

LEMMA ReplacedCalls ==
  ASSUME CallsInv, TabInv, BusyIsAnswered, NEW b \in calls, NEW c \in CallRecord,
         Sound(c), c.id = b.id, c.op = b.op, c.tie = b.tie, calls' = (calls \ {b}) \cup {c},
         UNCHANGED <<ask, modal>>, budget' \in Budget, budget'.edits <= budget.edits
  PROVE  CallsInv' /\ BusyIsAnswered'
<1> DEFINE g == Replaced(b, c)
<1>1. g \in [calls -> CallRecord] /\ calls' \subseteq {g[d] : d \in calls}
  BY DEF Replaced, CallsInv
<1>2. \A d \in calls : /\ g[d].id = d.id /\ g[d].op = d.op /\ Sound(g[d])
                       /\ g[d].tie = "modal" => Within(d.op, modal'.kind)
  BY DEF Replaced, CallsInv
<1>3. CallsInv'
  BY <1>1, <1>2, CallsMapped DEF TabInv
<1>4. BusyIsAnswered'
  BY BusyRests
<1> QED  BY <1>3, <1>4

\* The calls of a dialog that is gone belong to its page.
LEMMA LoosenedCalls ==
  ASSUME CallsInv, NEW C \in SUBSET calls, calls' = Loosened(C, {"modal"}, "page"),
         budget \in Budget, budget' \in Budget, budget'.edits <= budget.edits
  PROVE  CallsInv'
<1> DEFINE g == [c \in calls |-> IF c.tie \in {"modal"} THEN [c EXCEPT !.tie = "page"] ELSE c]
<1>1. ASSUME NEW c \in calls
      PROVE  /\ g[c] \in CallRecord /\ g[c].id = c.id /\ g[c].op = c.op /\ Sound(g[c])
             /\ g[c].tie # "modal"
  <2>1. c \in CallRecord /\ Sound(c)
    BY DEF CallsInv
  <2>2. CASE c.tie = "modal"
    <3> DEFINE e == [c EXCEPT !.tie = "page"]
    <3>1. /\ e \in CallRecord /\ e.id = c.id /\ e.op = c.op /\ e.on = c.on /\ e.ids = c.ids
          /\ e.todo = c.todo /\ e.st = c.st /\ e.tie = "page"
      BY <2>1 DEF CallRecord
    <3>2. g[c] = e
      BY <2>2
    <3> HIDE DEF e, g
    <3>3. Sound(e)
      BY <2>1, <3>1 DEF Sound
    <3> QED  BY <3>1, <3>2, <3>3
  <2>3. CASE c.tie # "modal"
    BY <2>1, <2>3
  <2> QED  BY <2>2, <2>3
<1>2. calls' \subseteq {g[c] : c \in calls}
  BY DEF Loosened
<1>3. g \in [calls -> CallRecord]
  BY <1>1
<1> HIDE DEF g
<1> QED  BY <1>1, <1>2, <1>3, CallsMapped

\* A dialog closes.
LEMMA ClosedDialog ==
  ASSUME ModalInv, AskInv, CallsInv, TabInv, NEW C \in SUBSET calls, NEW a \in {ask, NoQuestion},
         modal' = NoModal, calls' = Loosened(C, {"modal"}, "page"), ask' = Orphaned(a),
         budget' \in Budget, budget'.edits <= budget.edits
  PROVE  ModalInv' /\ AskInv' /\ CallsInv' /\ BusyIsAnswered'
<1>1. NoModal \in Form /\ NoModal.kind = "none" /\ ~NoModal.busy
  BY DEF NoModal, Form
<1>2. ModalInv' /\ BusyIsAnswered'
  BY <1>1 DEF ModalInv, Proper, BusyIsAnswered
<1>3. NoQuestion \in Questions /\ NoQuestion.q = "none" /\ Proper(NoQuestion.form)
  BY <1>1 DEF NoQuestion, Questions, Proper
<1>4. a \in Questions /\ Proper(a.form) /\ (a.q = "reduce" => a.form.kind = "editor")
  BY <1>3 DEF AskInv
<1>5. AskInv'
  <2>1. CASE a.q # "none" /\ a.tie = "modal"
    <3> DEFINE b == [a EXCEPT !.tie = "page"]
    <3>1. ask' = b
      BY <2>1 DEF Orphaned
    <3>2. b \in Questions /\ b.form = a.form /\ b.q = a.q /\ b.tie = "page"
      BY <1>4 DEF Questions
    <3> HIDE DEF b
    <3> QED  BY <1>4, <3>1, <3>2 DEF AskInv
  <2>2. CASE ~(a.q # "none" /\ a.tie = "modal")
    <3>1. ask' = a
      BY <2>2 DEF Orphaned
    <3> QED  BY <1>4, <2>2, <3>1 DEF AskInv
  <2> QED  BY <2>1, <2>2
<1>6. CallsInv'
  BY LoosenedCalls DEF TabInv
<1> QED  BY <1>2, <1>5, <1>6

-----------------------------------------------------------------------------
\* Fetches.

LEMMA ReadsStep ==
  ASSUME Inv, NEW k \in Key, Reads(k)
  PROVE  Inv'
<1>1. lists' = [lists EXCEPT ![k] = [lists[k] EXCEPT !.phase = "read", !.resp = Answer(k)]]
  BY DEF Reads, Inv, ListsInv
<1>2. [lists[k] EXCEPT !.phase = "read", !.resp = Answer(k)] \in CachedIn(TableOf(k))
  BY CachedRecords, TablesAreTyped, AnswerIsTyped DEF Inv, ListsInv
<1>3. ListsInv'
  BY <1>1, <1>2, OneList DEF Inv
<1>4. AgingInv'
  BY DEF Reads, Inv, AgingInv
<1>5. ServerInv' /\ TabInv' /\ ModalInv' /\ AskInv' /\ CallsInv' /\ BusyIsAnswered'
  BY DEF Reads, Inv, server, ServerInv, TabInv, ModalInv, AskInv, CallsInv, BusyIsAnswered, Pending
<1> QED  BY <1>3, <1>4, <1>5 DEF Inv

LEMMA ArrivesStep ==
  ASSUME Inv, NEW k \in Key, Arrives(k)
  PROVE  Inv'
<1>1. lists' = [lists EXCEPT ![k] = [Blank EXCEPT !.data = lists[k].resp, !.fresh = TRUE]]
  BY DEF Arrives
<1>2. lists[k] \in CachedIn(TableOf(k)) /\ lists[k].resp \in TableOf(k)
  BY DEF Inv, ListsInv, CachedIn
<1>3. [Blank EXCEPT !.data = lists[k].resp, !.fresh = TRUE] \in CachedIn(TableOf(k))
  BY <1>2, CachedRecords, TablesAreTyped
<1>4. ListsInv'
  BY <1>1, <1>3, OneList DEF Inv
<1>5. AgingInv'
  BY DEF Arrives, Inv, AgingInv
<1>6. ServerInv' /\ TabInv' /\ ModalInv' /\ AskInv' /\ CallsInv' /\ BusyIsAnswered'
  BY DEF Arrives, Inv, server, ServerInv, TabInv, ModalInv, AskInv, CallsInv, BusyIsAnswered, Pending
<1> QED  BY <1>4, <1>5, <1>6 DEF Inv

LEMMA RefetchesStep ==
  ASSUME Inv, NEW k \in Key, Refetches(k)
  PROVE  Inv'
<1>1. lists' = [lists EXCEPT ![k] = Fetching(lists[k])]
  BY DEF Refetches, Inv, ListsInv
<1>2. Fetching(lists[k]) \in CachedIn(TableOf(k))
  BY CachedRecords, TablesAreTyped DEF Inv, ListsInv
<1>3. ListsInv'
  BY <1>1, <1>2, OneList DEF Inv
<1>4. budget' \in Budget /\ budget'.edits <= budget.edits
  <2>1. CASE budget' = budget
    BY <2>1 DEF Inv, TabInv, Budget
  <2>2. CASE Spend("reads")
    BY <2>2, Spends DEF Inv, TabInv
  <2> QED  BY <2>1, <2>2 DEF Refetches
<1>5. ServerInv' /\ TabInv' /\ ModalInv' /\ AskInv' /\ BusyIsAnswered' /\ AgingInv'
  BY <1>4 DEF Refetches, Inv, server, aging, ServerInv, TabInv, ModalInv, AskInv, BusyIsAnswered, Pending,
              AgingInv
<1>6. CallsInv'
  BY <1>4, CallsRest DEF Refetches, Inv, TabInv
<1> QED  BY <1>3, <1>5, <1>6 DEF Inv

LEMMA FetchFailsStep ==
  ASSUME Inv, NEW k \in Key, FetchFails(k)
  PROVE  Inv'
<1>1. lists' = [lists EXCEPT ![k] = [lists[k] EXCEPT !.phase = "idle", !.resp = <<>>, !.bad = TRUE]]
  <2>1. lists[k] \in CachedIn(TableOf(k))
    BY DEF Inv, ListsInv
  <2> QED  BY <2>1 DEF FetchFails, Inv, ListsInv, CachedIn
<1>2. [lists[k] EXCEPT !.phase = "idle", !.resp = <<>>, !.bad = TRUE] \in CachedIn(TableOf(k))
  BY CachedRecords, TablesAreTyped DEF Inv, ListsInv
<1>3. ListsInv'
  BY <1>1, <1>2, OneList DEF Inv
<1>4. budget' \in Budget /\ budget'.edits <= budget.edits
  BY Spends DEF FetchFails, Inv, TabInv
<1>5. ServerInv' /\ TabInv' /\ AgingInv'
  BY <1>4 DEF FetchFails, Inv, server, aging, ServerInv, TabInv, AgingInv
<1>6. ModalInv' /\ AskInv' /\ CallsInv' /\ BusyIsAnswered'
  <2>1. CASE UNCHANGED <<modal, calls, ask>>
    <3>1. CallsInv'
      BY <1>4, <2>1, CallsRest DEF Inv, TabInv
    <3> QED  BY <2>1, <3>1 DEF Inv, ModalInv, AskInv, BusyIsAnswered, Pending
  <2>2. CASE /\ modal' = [NoModal EXCEPT !.kind = modal.kind, !.on = modal.on, !.base = modal.base,
                                         !.ids = modal.base, !.old = modal.old, !.seen = modal.seen]
             /\ calls' = Loosened(calls, {"modal"}, "page")
             /\ ask' = IF ask.tie = "modal" /\ ask.q # "none" THEN [ask EXCEPT !.tie = "page"] ELSE ask
    <3>1. modal' = [kind |-> modal.kind, on |-> modal.on, base |-> modal.base, ids |-> modal.base,
                    old |-> modal.old, seen |-> modal.seen, busy |-> FALSE, hung |-> FALSE]
      BY <2>2 DEF NoModal
    <3>2. modal \in Form /\ Proper(modal)
      BY DEF Inv, ModalInv
    <3>3. /\ modal' \in Form /\ ~modal'.busy /\ modal'.kind = modal.kind /\ modal'.on = modal.on
          /\ modal'.base = modal.base /\ modal'.ids = modal.base
      BY <3>1, <3>2 DEF Form
    <3>4. ModalInv' /\ BusyIsAnswered'
      BY <3>2, <3>3 DEF ModalInv, Proper, BusyIsAnswered
    <3>5. CallsInv'
      BY <1>4, <2>2, LoosenedCalls DEF Inv, TabInv
    <3>6. AskInv'
      <4>1. CASE ask.tie = "modal" /\ ask.q # "none"
        <5> DEFINE b == [ask EXCEPT !.tie = "page"]
        <5>1. ask' = b
          BY <2>2, <4>1
        <5>2. b \in Questions /\ b.form = ask.form /\ b.q = ask.q /\ b.tie = "page"
          BY DEF Questions, Inv, AskInv
        <5> HIDE DEF b
        <5> QED  BY <5>1, <5>2 DEF Inv, AskInv
      <4>2. CASE ~(ask.tie = "modal" /\ ask.q # "none")
        BY <2>2, <3>3, <4>2, AskRests DEF Inv
      <4> QED  BY <4>1, <4>2
    <3> QED  BY <3>4, <3>5, <3>6
  <2> QED  BY <2>1, <2>2 DEF FetchFails
<1> QED  BY <1>3, <1>5, <1>6 DEF Inv

LEMMA FetchesStep == Inv /\ Fetches => Inv'
  BY ReadsStep, ArrivesStep, RefetchesStep, FetchFailsStep DEF Fetches

-----------------------------------------------------------------------------
\* The server.

LEMMA CallsAreTyped ==
  ASSUME CallsInv, NEW c \in calls
  PROVE  /\ c \in CallRecord /\ Sound(c) /\ c.on \in Subjects(c.op) /\ c.ids \subseteq Contents(c.op)
         /\ c.op \in Op /\ c.st \in {"sent", "ok", "bad", "lost", "done"}
         /\ c.tie \in {"modal", "page", "away", "stray"} /\ c.todo \in Seq(What)
         /\ c.on \in Roles \cup Accounts /\ c.ids \in SUBSET Items /\ c.undo \in Rolls
  BY DEF CallsInv, CallRecord, Sound

\* What a call asks for tells what it is about.
LEMMA AskedIsSound ==
  ASSUME CallsInv, NEW c \in calls, NEW what, Head(c.todo) = what
  PROVE  /\ what = "put" => c.on \in Accounts /\ c.ids \subseteq Roles
         /\ what = "patch" => c.on \in Roles /\ c.ids \subseteq Perms
         /\ what = "post" => c.on \in Roles /\ c.ids \subseteq Perms
         /\ what = "drop" => c.on \in Roles /\ c.ids \subseteq Roles
         /\ what = "register" => c.on \in Accounts
         /\ what = "put" => c.op \in PutOps \cup {"register"}
         /\ what = "patch" => c.op \in {"matrix", "editor"}
         /\ what = "post" => c.op = "creator"
         /\ what = "drop" => c.op = "drop"
<1>1. /\ c.todo \in Seq(What) /\ c.todo # <<>> /\ c.op \in Op
      /\ c.on \in Subjects(c.op) /\ c.ids \subseteq Contents(c.op)
      /\ \A i \in 1 .. Len(c.todo) : c.todo[i] \in Asking(c.op)
  BY CallsAreTyped DEF Sound
<1>2. Len(c.todo) \in Nat /\ Len(c.todo) > 0 /\ Head(c.todo) = c.todo[1]
  BY <1>1
<1>3. what \in Asking(c.op)
  BY <1>1, <1>2
<1>4. what = "put" => c.op \in PutOps \cup {"register"}
  BY <1>1, <1>3 DEF Asking, PutOps, Op
<1>5. what = "patch" => c.op \in {"matrix", "editor"}
  BY <1>1, <1>3 DEF Asking, PutOps, Op
<1>6. what = "post" => c.op = "creator"
  BY <1>1, <1>3 DEF Asking, PutOps, Op
<1>7. what = "drop" => c.op = "drop"
  BY <1>1, <1>3 DEF Asking, PutOps, Op
<1>8. what = "register" => c.op = "register"
  BY <1>1, <1>3 DEF Asking, PutOps, Op
<1> QED  BY <1>1, <1>4, <1>5, <1>6, <1>7, <1>8 DEF Subjects, Contents, PutOps, RoleOps

\* Every role an account holds is there.
LEMMA ServeKeepsRoles ==
  ASSUME ServerInv, CallsInv, NEW c \in calls,
         \/ SetUserRoles(c) \/ UpdateRole(c) \/ CreateRole(c) \/ DeleteRole(c)
         \/ RegisterAccount(c) \/ Plain(c)
  PROVE  ServerInv'
<1>1. /\ DOMAIN perms \subseteq Roles /\ \A r \in DOMAIN perms : perms[r] \in SUBSET Perms
      /\ DOMAIN holds \subseteq Accounts /\ \A u \in DOMAIN holds : holds[u] \in SUBSET Roles
      /\ \A u \in DOMAIN holds : holds[u] \subseteq DOMAIN perms
      /\ events \subseteq DOMAIN holds /\ perms \in Rolls /\ holds \in Holdings
  BY TableFacts DEF ServerInv, Rolls, Holdings
<1>2. CASE SetUserRoles(c)
  <2>1. c.on \in Accounts /\ c.ids \in SUBSET Roles
    BY <1>2, AskedIsSound DEF SetUserRoles, Asks
  <2>2. holds' = [holds EXCEPT ![c.on] = c.ids] /\ c.ids \subseteq DOMAIN perms
        /\ UNCHANGED <<perms, events>>
    BY <1>2 DEF SetUserRoles
  <2>3. holds' \in Holdings
    BY <1>1, <2>1, <2>2, TableExcept DEF Holdings
  <2>4. DOMAIN holds' = DOMAIN holds /\ \A u \in DOMAIN holds' : holds'[u] \in {holds[u], c.ids}
    BY <2>2
  <2> QED  BY <1>1, <2>2, <2>3, <2>4 DEF ServerInv
<1>3. CASE UpdateRole(c)
  <2>1. c.on \in Roles /\ c.ids \in SUBSET Perms
    BY <1>3, AskedIsSound DEF UpdateRole, Asks
  <2>2. perms' = [perms EXCEPT ![c.on] = c.ids] /\ UNCHANGED <<holds, events>>
    BY <1>3 DEF UpdateRole
  <2>3. perms' \in Rolls /\ DOMAIN perms' = DOMAIN perms
    BY <1>1, <2>1, <2>2, TableExcept DEF Rolls
  <2> QED  BY <1>1, <2>2, <2>3 DEF ServerInv
<1>4. CASE CreateRole(c)
  <2>1. c.on \in Roles /\ c.ids \in SUBSET Perms
    BY <1>4, AskedIsSound DEF CreateRole, Asks
  <2>2. /\ perms' = [r \in DOMAIN perms \cup {c.on} |-> IF r = c.on THEN c.ids ELSE perms[r]]
        /\ UNCHANGED <<holds, events>>
    BY <1>4 DEF CreateRole
  <2>3. DOMAIN perms \cup {c.on} \in SUBSET Roles /\ perms' \in [DOMAIN perms \cup {c.on} -> SUBSET Perms]
    BY <1>1, <2>1, <2>2
  <2>4. perms' \in Rolls
    BY <2>3, TableIntro DEF Rolls
  <2>5. DOMAIN perms \subseteq DOMAIN perms'
    BY <2>2
  <2> QED  BY <1>1, <2>2, <2>4, <2>5 DEF ServerInv
<1>5. CASE DeleteRole(c)
  <2>1. c.on \in Roles /\ c.ids \in SUBSET Roles
    BY <1>5, AskedIsSound DEF DeleteRole, Asks
  <2>2. /\ Holders(c.on) # {} => Fallback(c)
        /\ holds' = Moved(c) /\ perms' = [r \in DOMAIN perms \ {c.on} |-> perms[r]] /\ events' = events
    BY <1>5 DEF DeleteRole
  <2>3. perms' \in Rolls
    <3>1. DOMAIN perms \ {c.on} \in SUBSET Roles /\ perms' \in [DOMAIN perms \ {c.on} -> SUBSET Perms]
      BY <1>1, <2>2
    <3> QED  BY <3>1, TableIntro DEF Rolls
  <2>4. DOMAIN holds' = DOMAIN holds
    BY <2>2 DEF Moved
  <2>5. \A u \in DOMAIN holds : holds'[u] \subseteq DOMAIN perms \ {c.on}
    <3> SUFFICES ASSUME NEW u \in DOMAIN holds
                 PROVE  holds'[u] \subseteq DOMAIN perms \ {c.on}
      OBVIOUS
    <3>1. CASE u \in Holders(c.on)
      BY <1>1, <2>2, <3>1 DEF Moved, Fallback
    <3>2. CASE u \notin Holders(c.on)
      <4>1. c.on \notin holds[u]
        BY <3>2 DEF Holders
      <4> QED  BY <1>1, <2>2, <3>2, <4>1 DEF Moved
    <3> QED  BY <3>1, <3>2
  <2>6. holds' \in Holdings
    <3>1. holds' \in [DOMAIN holds -> SUBSET Roles]
      BY <1>1, <2>2, <2>5 DEF Moved
    <3> QED  BY <1>1, <3>1, TableIntro DEF Holdings
  <2> QED  BY <1>1, <2>2, <2>3, <2>4, <2>5, <2>6 DEF ServerInv
<1>6. CASE RegisterAccount(c)
  <2>1. c.on \in Accounts
    BY <1>6, AskedIsSound DEF RegisterAccount, Asks
  <2>2. /\ holds' = [u \in DOMAIN holds \cup {c.on} |-> IF u = c.on THEN {} ELSE holds[u]]
        /\ events' = events \cup {c.on} /\ perms' = perms
    BY <1>6 DEF RegisterAccount
  <2>3. DOMAIN holds \cup {c.on} \in SUBSET Accounts /\ holds' \in [DOMAIN holds \cup {c.on} -> SUBSET Roles]
    BY <1>1, <2>1, <2>2
  <2>4. holds' \in Holdings
    BY <2>3, TableIntro DEF Holdings
  <2>5. \A u \in DOMAIN holds' : holds'[u] \subseteq DOMAIN perms
    BY <1>1, <2>2
  <2> QED  BY <1>1, <2>2, <2>4, <2>5 DEF ServerInv
<1>7. CASE Plain(c)
  BY <1>7, ServerRests DEF Plain
<1> QED  BY <1>2, <1>3, <1>4, <1>5, <1>6, <1>7

LEMMA ServedCalls ==
  ASSUME CallsInv, TabInv, BusyIsAnswered, NEW c \in calls, NEW st \in {"sent", "ok", "bad", "lost"},
         Served(c, st), UNCHANGED <<ask, modal>>, budget' \in Budget, budget'.edits <= budget.edits
  PROVE  CallsInv' /\ BusyIsAnswered'
<1> DEFINE d == [c EXCEPT !.st = st]
<1>1. c \in CallRecord /\ Sound(c)
  BY CallsAreTyped
<1>2. /\ d \in CallRecord /\ d.id = c.id /\ d.op = c.op /\ d.on = c.on /\ d.ids = c.ids
      /\ d.todo = c.todo /\ d.st = st /\ d.tie = c.tie
  BY <1>1 DEF CallRecord
<1>3. calls' = (calls \ {c}) \cup {d}
  BY DEF Served
<1> HIDE DEF d
<1>4. Sound(d)
  BY <1>1, <1>2 DEF Sound
<1> QED  BY <1>2, <1>3, <1>4, ReplacedCalls

LEMMA SameBudget == TabInv /\ budget' = budget => budget' \in Budget /\ budget'.edits <= budget.edits
  BY DEF TabInv, Budget

LEMMA ServeStep ==
  ASSUME Inv, NEW c \in calls, Serve(c)
  PROVE  Inv'
<1>1. ServerInv'
  BY ServeKeepsRoles DEF Serve, Inv
<1>2. AgingInv'
  <2>1. {c.on} \in SUBSET (Roles \cup Accounts)
    BY CallsAreTyped DEF Inv
  <2>2. Holders(c.on) \in SUBSET (Roles \cup Accounts)
    BY TableFacts DEF Inv, ServerInv, Holdings, Holders
  <2>3. CASE UNCHANGED aging
    BY <2>3, AgingRests DEF Inv
  <2>4. CASE \E K : Untold(K, {c.on}) \/ Untold(K, Holders(c.on))
    BY <2>1, <2>2, <2>4, UntoldTypes DEF Inv
  <2> QED  BY <2>3, <2>4 DEF Serve, SetUserRoles, UpdateRole, CreateRole, DeleteRole, RegisterAccount, Plain, aging
<1>3. CallsInv' /\ BusyIsAnswered'
  BY ServedCalls, SameBudget DEF Serve, Inv
<1>4. ListsInv' /\ TabInv' /\ ModalInv' /\ AskInv'
  BY DEF Serve, Inv, ListsInv, TabInv, ModalInv, AskInv
<1> QED  BY <1>1, <1>2, <1>3, <1>4 DEF Inv

LEMMA RefusesStep ==
  ASSUME Inv, NEW c \in calls, Refuses(c)
  PROVE  Inv'
<1>1. CallsInv' /\ BusyIsAnswered'
  BY ServedCalls, SameBudget DEF Refuses, Inv
<1>2. ServerInv' /\ AgingInv' /\ ListsInv' /\ TabInv' /\ ModalInv' /\ AskInv'
  BY ServerRests, AgingRests DEF Refuses, Inv, ListsInv, TabInv, ModalInv, AskInv
<1> QED  BY <1>1, <1>2 DEF Inv

LEMMA BreaksStep ==
  ASSUME Inv, NEW c \in calls, Breaks(c)
  PROVE  Inv'
<1>1. budget' \in Budget /\ budget'.edits <= budget.edits
  BY Spends DEF Breaks, Inv, TabInv
<1>2. CallsInv' /\ BusyIsAnswered'
  <2>1. PICK st \in {"lost", "bad"} : Served(c, st)
    BY DEF Breaks
  <2> QED  BY <1>1, <2>1, ServedCalls DEF Breaks, Inv
<1>3. ServerInv' /\ AgingInv' /\ ListsInv' /\ TabInv' /\ ModalInv' /\ AskInv'
  BY <1>1, ServerRests, AgingRests DEF Breaks, Inv, ListsInv, TabInv, ModalInv, AskInv
<1> QED  BY <1>2, <1>3 DEF Inv

LEMMA BrowserRests ==
  ASSUME ListsInv, ModalInv, AskInv, CallsInv, TabInv, BusyIsAnswered,
         UNCHANGED <<lists, page, modal, ask, calls>>, budget' \in Budget, budget'.edits <= budget.edits
  PROVE  ListsInv' /\ ModalInv' /\ AskInv' /\ CallsInv' /\ TabInv' /\ BusyIsAnswered'
<1>1. CallsInv'
  BY CallsRest DEF TabInv
<1> QED  BY <1>1 DEF ListsInv, ModalInv, AskInv, TabInv, BusyIsAnswered, Pending

LEMMA AssignDefaultStep ==
  ASSUME Inv, NEW u \in Accounts, AssignDefaultRole(u)
  PROVE  Inv'
<1>1. /\ DOMAIN perms \subseteq Roles /\ \A r \in DOMAIN perms : perms[r] \in SUBSET Perms
      /\ DOMAIN holds \subseteq Accounts /\ \A x \in DOMAIN holds : holds[x] \in SUBSET Roles
      /\ \A x \in DOMAIN holds : holds[x] \subseteq DOMAIN perms
      /\ events \subseteq DOMAIN holds /\ perms \in Rolls /\ holds \in Holdings /\ Default \in Roles
  BY TableFacts, ConstantsAssumption DEF Inv, ServerInv, Rolls, Holdings
<1>2. /\ u \in events /\ events' = events \ {u}
      /\ perms' = [r \in DOMAIN perms \cup {Default} |-> IF r \in DOMAIN perms THEN perms[r] ELSE {}]
      /\ holds' = [holds EXCEPT ![u] = holds[u] \cup {Default}]
      /\ Untold(Key, {u} \cup ({Default} \ DOMAIN perms))
  BY <1>1 DEF AssignDefaultRole
<1>3. ServerInv'
  <2>1. DOMAIN perms \cup {Default} \in SUBSET Roles /\ perms' \in [DOMAIN perms \cup {Default} -> SUBSET Perms]
    BY <1>1, <1>2
  <2>2. perms' \in Rolls /\ DOMAIN perms' = DOMAIN perms \cup {Default}
    BY <1>2, <2>1, TableIntro DEF Rolls
  <2>3. holds[u] \cup {Default} \in SUBSET Roles
    BY <1>1, <1>2
  <2>4. holds' \in Holdings
    BY <1>1, <1>2, <2>3, TableExcept DEF Holdings
  <2>5. DOMAIN holds' = DOMAIN holds /\ \A x \in DOMAIN holds : holds'[x] \subseteq holds[x] \cup {Default}
    BY <1>2
  <2> QED  BY <1>1, <1>2, <2>2, <2>4, <2>5 DEF ServerInv
<1>4. AgingInv'
  <2>1. {u} \cup ({Default} \ DOMAIN perms) \in SUBSET (Roles \cup Accounts)
    BY <1>1
  <2> QED  BY <1>2, <2>1, UntoldTypes DEF Inv
<1> QED  BY <1>3, <1>4, BrowserRests, SameBudget DEF AssignDefaultRole, Inv

LEMMA OtherAssignsStep ==
  ASSUME Inv, NEW u \in Accounts, u \in DOMAIN holds, OtherAssigns(u)
  PROVE  Inv'
<1>1. /\ DOMAIN perms \subseteq Roles /\ DOMAIN holds \subseteq Accounts /\ holds \in Holdings
      /\ \A x \in DOMAIN holds : holds[x] \subseteq DOMAIN perms
      /\ events \subseteq DOMAIN holds /\ perms \in Rolls
  BY TableFacts DEF Inv, ServerInv, Rolls, Holdings
<1>2. PICK r \in DOMAIN perms : holds' = [holds EXCEPT ![u] = Flip(holds[u], r)]
  BY DEF OtherAssigns
<1>3. Flip(holds[u], r) \subseteq DOMAIN perms
  BY <1>1 DEF Flip
<1>4. ServerInv'
  <2>1. holds' \in Holdings
    BY <1>1, <1>2, <1>3, TableExcept DEF Holdings
  <2>2. DOMAIN holds' = DOMAIN holds /\ \A x \in DOMAIN holds : holds'[x] \in {holds[x], Flip(holds[u], r)}
    BY <1>2
  <2> QED  BY <1>1, <1>3, <2>1, <2>2 DEF ServerInv, OtherAssigns
<1>5. AgingInv'
  BY UntoldTypes DEF OtherAssigns, Inv
<1>6. budget' \in Budget /\ budget'.edits <= budget.edits
  BY Spends DEF OtherAssigns, Inv, TabInv
<1> QED  BY <1>4, <1>5, <1>6, BrowserRests DEF OtherAssigns, Inv

LEMMA OtherEditsStep ==
  ASSUME Inv, NEW r \in Roles, r \in DOMAIN perms, OtherEdits(r)
  PROVE  Inv'
<1>1. /\ \A x \in DOMAIN perms : perms[x] \in SUBSET Perms
      /\ \A x \in DOMAIN holds : holds[x] \subseteq DOMAIN perms
      /\ events \subseteq DOMAIN holds /\ perms \in Rolls /\ holds \in Holdings
  BY TableFacts DEF Inv, ServerInv, Rolls, Holdings
<1>2. PICK p \in Perms : perms' = [perms EXCEPT ![r] = Flip(perms[r], p)]
  BY DEF OtherEdits
<1>3. Flip(perms[r], p) \in SUBSET Perms
  BY <1>1 DEF Flip
<1>4. ServerInv'
  <2>1. perms' \in Rolls /\ DOMAIN perms' = DOMAIN perms
    BY <1>1, <1>2, <1>3, TableExcept DEF Rolls
  <2> QED  BY <1>1, <2>1 DEF ServerInv, OtherEdits
<1>5. AgingInv'
  BY UntoldTypes DEF OtherEdits, Inv
<1>6. budget' \in Budget /\ budget'.edits <= budget.edits
  BY Spends DEF OtherEdits, Inv, TabInv
<1> QED  BY <1>4, <1>5, <1>6, BrowserRests DEF OtherEdits, Inv

LEMMA ElsewhereStep == Inv /\ Elsewhere => Inv'
  BY AssignDefaultStep, OtherAssignsStep, OtherEditsStep DEF Elsewhere

-----------------------------------------------------------------------------
\* Answers.

LEMMA TailFacts ==
  ASSUME NEW s \in Seq(What), Len(s) > 1, NEW R, \A i \in 1 .. Len(s) : s[i] \in R
  PROVE  Tail(s) \in Seq(What) /\ Tail(s) # <<>> /\ \A i \in 1 .. Len(Tail(s)) : Tail(s)[i] \in R
<1>1. Len(s) \in Nat /\ s # <<>>
  OBVIOUS
<1>2. Tail(s) \in Seq(What) /\ Len(Tail(s)) = Len(s) - 1
  BY <1>1
<1>3. PICK t \in Seq(What) : t = Tail(s)
  BY <1>2
<1>4. Len(t) = Len(s) - 1
  BY <1>2, <1>3
<1>5. \A i \in 1 .. Len(t) : t[i] = s[i + 1]
  BY <1>1, <1>3, <1>4
<1>6. t # <<>>
  BY <1>1, <1>4
<1>7. \A i \in 1 .. Len(t) : i + 1 \in 1 .. Len(s)
  BY <1>1, <1>4
<1>8. \A i \in 1 .. Len(t) : t[i] \in R
  BY <1>5, <1>7
<1> QED  BY <1>3, <1>6, <1>8

LEMMA ContinuesStep ==
  ASSUME Inv, NEW c \in calls, Continues(c)
  PROVE  Inv'
<1> DEFINE d == [[c EXCEPT !.st = "sent"] EXCEPT !.todo = Tail(c.todo)]
<1>1. c \in CallRecord /\ Sound(c) /\ c.todo \in Seq(What) /\ Len(c.todo) > 1
  BY CallsAreTyped DEF Inv, Continues
<1>2. \A i \in 1 .. Len(c.todo) : c.todo[i] \in Asking(c.op)
  BY <1>1 DEF Sound
<1>3. /\ Tail(c.todo) \in Seq(What) /\ Tail(c.todo) # <<>>
      /\ \A i \in 1 .. Len(Tail(c.todo)) : Tail(c.todo)[i] \in Asking(c.op)
  BY <1>1, <1>2, TailFacts
<1>4. /\ d \in CallRecord /\ d.id = c.id /\ d.op = c.op /\ d.on = c.on /\ d.ids = c.ids
      /\ d.todo = Tail(c.todo) /\ d.st = "sent" /\ d.tie = c.tie
  BY <1>1, <1>3 DEF CallRecord
<1>5. calls' = (calls \ {c}) \cup {d}
  BY <1>1 DEF Continues, CallRecord
<1> HIDE DEF d
<1>6. Sound(d)
  BY <1>1, <1>3, <1>4 DEF Sound
<1>7. CallsInv' /\ BusyIsAnswered'
  BY <1>4, <1>5, <1>6, ReplacedCalls, SameBudget DEF Inv, Continues
<1> QED  BY <1>7, ServerRests, AgingRests DEF Continues, Inv, ListsInv, TabInv, ModalInv, AskInv

\* A request that is not a dialog's is over.
LEMMA CallGoes ==
  ASSUME Inv, NEW c \in calls, c.tie = "stray" \/ c.st = "done", calls' = calls \ {c},
         UNCHANGED <<server, lists, page, modal, ask, aging, budget>>
  PROVE  Inv'
<1>1. ~(c.op = modal.kind /\ c.tie = "modal")
  <2>1. c.tie # "modal" \/ c.op = "directory"
    BY CallsAreTyped DEF Inv, Sound
  <2>2. modal.kind # "directory"
    BY DEF Inv, ModalInv, Form, FormOps
  <2> QED  BY <2>1, <2>2
<1>2. BusyIsAnswered'
  BY <1>1, BusyRests DEF Inv
<1>3. CallsInv'
  BY DEF Inv, CallsInv
<1> QED  BY <1>2, <1>3, ServerRests, AgingRests DEF Inv, ListsInv, TabInv, ModalInv, AskInv

\* The calls of the mutation of a form are one.
LEMMA FormsSendOne ==
  ASSUME CallsInv, NEW c \in calls, NEW d \in calls, d \in Batch(c), c.op \in FormOps \/ d.op \in FormOps
  PROVE  c = d
  BY DEF CallsInv, Batch

LEMMA BatchIsTyped ==
  ASSUME CallsInv, NEW c \in calls
  PROVE  /\ {d.on : d \in Batch(c)} \in SUBSET (Roles \cup Accounts)
         /\ {d.on : d \in {e \in Batch(c) : e.st \in {"ok", "lost"}}} \in SUBSET (Roles \cup Accounts)
  BY CallsAreTyped DEF Batch

LEMMA FewerCalls ==
  ASSUME CallsInv, calls' \subseteq calls, modal'.kind = modal.kind, budget' = budget
  PROVE  CallsInv'
  BY DEF CallsInv

\* The dialog's call is not one of a mutation that leaves the dialog open.
LEMMA WaitsStill ==
  ASSUME CallsInv, ModalInv, NEW c \in calls, NEW d \in calls,
         d.op = modal.kind, d.tie = "modal", d \in Batch(c)
  PROVE  c = d /\ modal.kind \in FormOps
<1>1. modal.kind \in FormOps
  <2>1. d.op \in Op
    BY CallsAreTyped
  <2>2. modal.kind \in FormOps \cup {"none", "usage"}
    BY DEF ModalInv, Form
  <2>3. "none" \notin Op /\ "usage" \notin Op
    BY DEF Op
  <2> QED  BY <2>1, <2>2, <2>3
<1> QED  BY <1>1, FormsSendOne

LEMMA SucceedsStep ==
  ASSUME Inv, NEW c \in calls, Succeeds(c)
  PROVE  Inv'
<1> DEFINE rest == calls \ Batch(c)
           d == [c EXCEPT !.st = "done"]
<1>1. ListsInv'
  BY InvalidatedLists DEF Succeeds, Inv, ListsInv
<1>2. AgingInv'
  BY BatchIsTyped, UntoldTypes DEF Succeeds, Inv
<1>3. ServerInv' /\ TabInv'
  BY ServerRests DEF Succeeds, Inv, TabInv
<1>4. /\ c \in CallRecord /\ Sound(c) /\ c.op \in Op /\ c.ids \subseteq Contents(c.op)
      /\ c.ids \in SUBSET Items /\ (c.tie = "modal" => Within(c.op, modal.kind))
  BY CallsAreTyped DEF Inv, CallsInv
<1>5. modal \in Form /\ Proper(modal)
  BY DEF Inv, ModalInv
<1>6. CASE c.tie # "away" /\ modal.kind \in Closes(c.op)
  <2>1. modal' = NoModal /\ calls' = Loosened(rest, {"modal"}, "page") /\ ask' = Orphaned(ask)
    BY <1>6 DEF Succeeds
  <2>2. rest \in SUBSET calls
    OBVIOUS
  <2>3. budget' \in Budget /\ budget'.edits <= budget.edits
    BY SameBudget DEF Succeeds, Inv
  <2> HIDE DEF rest
  <2>4. ModalInv' /\ AskInv' /\ CallsInv' /\ BusyIsAnswered'
    BY <2>1, <2>2, <2>3, ClosedDialog DEF Inv
  <2> QED  BY <1>1, <1>2, <1>3, <2>4 DEF Inv
<1>7. CASE ~(c.tie # "away" /\ modal.kind \in Closes(c.op))
  <2>1. /\ modal' = IF c.op = "drawer" /\ c.tie = "modal"
                    THEN [modal EXCEPT !.base = c.ids, !.seen = c.ids, !.busy = FALSE]
                    ELSE modal
        /\ calls' = IF c.op = "directory" /\ c.tie = "page" THEN rest \cup {d} ELSE rest
        /\ ask' = ask /\ budget' = budget
    BY <1>7 DEF Succeeds
  <2>2. ModalInv' /\ modal'.kind = modal.kind /\ (modal'.busy => modal' = modal)
    <3>1. CASE c.op = "drawer" /\ c.tie = "modal"
      <4>1. modal.kind = "drawer" /\ c.ids \subseteq Roles
        BY <1>4, <3>1 DEF Within, Contents
      <4>2. [[[modal EXCEPT !.base = c.ids] EXCEPT !.seen = c.ids] EXCEPT !.busy = FALSE] \in Form
        BY <1>4, <1>5 DEF Form
      <4>3. modal' = [[[modal EXCEPT !.base = c.ids] EXCEPT !.seen = c.ids] EXCEPT !.busy = FALSE]
        BY <1>5, <2>1, <3>1 DEF Form
      <4>4. /\ modal' \in Form /\ ~modal'.busy /\ modal'.kind = modal.kind /\ modal'.on = modal.on
            /\ modal'.ids = modal.ids /\ modal'.base = c.ids
        BY <1>5, <4>2, <4>3 DEF Form
      <4>5. Contents("drawer") = Roles
        BY DEF Contents
      <4> QED  BY <1>5, <4>1, <4>4, <4>5 DEF ModalInv, Proper
    <3>2. CASE ~(c.op = "drawer" /\ c.tie = "modal")
      BY <2>1, <3>2 DEF Inv, ModalInv
    <3> QED  BY <3>1, <3>2
  <2>3. AskInv'
    BY <2>1, <2>2, AskRests DEF Inv
  <2>4. CallsInv'
    <3>1. CASE calls' = rest
      BY <2>1, <2>2, <3>1, FewerCalls DEF Inv
    <3>2. CASE c.op = "directory" /\ c.tie = "page"
      <4> DEFINE g == Replaced(c, d)
      <4>1. /\ d \in CallRecord /\ d.id = c.id /\ d.op = c.op /\ d.on = c.on /\ d.ids = c.ids
            /\ d.todo = c.todo /\ d.st = "done" /\ d.tie = c.tie
        BY <1>4 DEF CallRecord
      <4>2. calls' = rest \cup {d}
        BY <2>1, <3>2
      <4> HIDE DEF d
      <4>3. Sound(d)
        BY <1>4, <3>2, <4>1 DEF Sound
      <4>4. \A e \in calls : e \in CallRecord /\ Sound(e) /\ (e.tie = "modal" => Within(e.op, modal.kind))
        BY DEF Inv, CallsInv
      <4>5. g = [e \in calls |-> IF e = c THEN d ELSE e]
        BY DEF Replaced
      <4>6. g \in [calls -> CallRecord]
        BY <4>1, <4>4, <4>5
      <4>7. c \in Batch(c)
        BY <3>2 DEF Batch
      <4>8. calls' \subseteq {g[e] : e \in calls}
        BY <4>2, <4>5, <4>7
      <4>9. \A e \in calls : /\ g[e].id = e.id /\ g[e].op = e.op /\ Sound(g[e])
                             /\ g[e].tie = "modal" => Within(e.op, modal'.kind)
        BY <2>2, <3>2, <4>1, <4>3, <4>4, <4>5
      <4> HIDE DEF g
      <4> QED  BY <2>1, <4>6, <4>8, <4>9, SameBudget, CallsMapped DEF Inv, TabInv
    <3> QED  BY <2>1, <3>1, <3>2
  <2>5. BusyIsAnswered'
    <3> SUFFICES ASSUME modal'.busy
                 PROVE  BusyIsAnswered'
      BY DEF BusyIsAnswered
    <3>1. modal' = modal
      BY <2>2
    <3>2. ASSUME NEW e \in calls, e.op = modal.kind, e.tie = "modal"
          PROVE  e \in calls'
      <4>1. CASE e \in Batch(c)
        <5>1. c = e /\ modal.kind \in FormOps
          BY <3>2, <4>1, WaitsStill DEF Inv
        <5>2. c.op = "drawer"
          BY <1>7, <3>2, <5>1 DEF Closes, FormOps
        <5>3. ~modal'.busy
          BY <1>5, <2>1, <3>2, <5>1, <5>2 DEF Form
        <5> QED  BY <5>3
      <4>2. CASE e \notin Batch(c)
        BY <2>1, <4>2
      <4> QED  BY <4>1, <4>2
    <3> QED  BY <2>1, <3>1, <3>2, BusyRests DEF Inv
  <2> QED  BY <1>1, <1>2, <1>3, <2>2, <2>3, <2>4, <2>5 DEF Inv
<1> QED  BY <1>6, <1>7

LEMMA FailsStep ==
  ASSUME Inv, NEW c \in calls, Fails(c)
  PROVE  Inv'
<1> DEFINE g == [d \in calls |-> IF d \in Batch(c) THEN [d EXCEPT !.tie = "stray"] ELSE d]
<1>1. ListsInv'
  <2>1. CASE c.op # "matrix"
    BY <2>1, ListsRest DEF Fails, RolledBack, Inv
  <2>2. CASE c.op = "matrix"
    <3> DEFINE L == [lists EXCEPT !["roles"] = [lists["roles"] EXCEPT !.data = c.undo]]
    <3>1. lists["roles"] \in CachedIn(TableOf("roles")) /\ c.undo \in TableOf("roles") /\ "roles" \in Key
      BY CallsAreTyped DEF Inv, ListsInv, Key, TableOf
    <3>2. [lists["roles"] EXCEPT !.data = c.undo] \in CachedIn(TableOf("roles"))
      BY <3>1, CachedRecords, TablesAreTyped
    <3>3. L = [k \in Key |-> L[k]] /\ \A k \in Key : L[k] \in CachedIn(TableOf(k))
      BY <3>1, <3>2 DEF Inv, ListsInv
    <3>4. lists' = Invalidated(L, {"roles"})
      BY <2>2 DEF Fails, RolledBack
    <3> HIDE DEF L
    <3> QED  BY <3>3, <3>4, InvalidatedLists
  <2> QED  BY <2>1, <2>2
<1>2. AgingInv'
  BY BatchIsTyped, UntoldTypes DEF Fails, Inv
<1>3. ServerInv' /\ TabInv'
  BY ServerRests DEF Fails, Inv, TabInv
<1>4. modal \in Form /\ Proper(modal)
  BY DEF Inv, ModalInv
<1>5. ModalInv' /\ modal'.kind = modal.kind /\ (modal'.busy => modal' = modal /\ c.tie # "modal")
  <2>1. CASE c.tie = "modal"
    <3>1. modal' = [modal EXCEPT !.busy = FALSE]
      BY <2>1 DEF Fails
    <3>2. /\ modal' \in Form /\ ~modal'.busy /\ modal'.kind = modal.kind /\ modal'.on = modal.on
          /\ modal'.ids = modal.ids /\ modal'.base = modal.base
      BY <1>4, <3>1 DEF Form
    <3> QED  BY <1>4, <3>2 DEF ModalInv, Proper
  <2>2. CASE c.tie # "modal"
    BY <2>2 DEF Fails, Inv, ModalInv
  <2> QED  BY <2>1, <2>2
<1>6. AskInv'
  BY <1>5, AskRests DEF Inv, Fails
<1>7. ASSUME NEW d \in calls
      PROVE  /\ g[d] \in CallRecord /\ g[d].id = d.id /\ g[d].op = d.op /\ Sound(g[d])
             /\ g[d].tie = "modal" => Within(d.op, modal'.kind)
             /\ d \notin Batch(c) => g[d] = d
  <2>1. d \in CallRecord /\ Sound(d) /\ (d.tie = "modal" => Within(d.op, modal.kind))
    BY DEF Inv, CallsInv
  <2>2. CASE d \in Batch(c)
    <3> DEFINE e == [d EXCEPT !.tie = "stray"]
    <3>1. /\ e \in CallRecord /\ e.id = d.id /\ e.op = d.op /\ e.on = d.on /\ e.ids = d.ids
          /\ e.todo = d.todo /\ e.st = d.st /\ e.tie = "stray"
      BY <2>1 DEF CallRecord
    <3>2. g[d] = e
      BY <2>2
    <3> HIDE DEF e, g
    <3>3. Sound(e)
      BY <2>1, <3>1 DEF Sound
    <3> QED  BY <2>2, <3>1, <3>2, <3>3
  <2>3. CASE d \notin Batch(c)
    BY <1>5, <2>1, <2>3
  <2> QED  BY <2>2, <2>3
<1>8. calls' = {g[d] : d \in calls \ {c}}
  BY DEF Fails
<1>9. g \in [calls -> CallRecord]
  BY <1>7
<1> HIDE DEF g
<1>10. CallsInv'
  <2>1. calls' \subseteq {g[d] : d \in calls}
    BY <1>8
  <2>2. budget' \in Budget /\ budget'.edits <= budget.edits
    BY SameBudget DEF Fails, Inv
  <2> QED  BY <1>7, <1>9, <2>1, <2>2, CallsMapped DEF Inv, TabInv
<1>11. BusyIsAnswered'
  <2> SUFFICES ASSUME modal'.busy
               PROVE  BusyIsAnswered'
    BY DEF BusyIsAnswered
  <2>1. modal' = modal /\ c.tie # "modal" /\ ask' = ask
    BY <1>5 DEF Fails
  <2>2. ASSUME NEW e \in calls, e.op = modal.kind, e.tie = "modal"
        PROVE  e \in calls'
    <3>1. e # c
      BY <2>1, <2>2
    <3>2. e \notin Batch(c)
      BY <2>2, <3>1, WaitsStill DEF Inv
    <3> QED  BY <1>7, <1>8, <3>1, <3>2
  <2> QED  BY <2>1, <2>2, BusyRests DEF Inv
<1> QED  BY <1>1, <1>2, <1>3, <1>5, <1>6, <1>10, <1>11 DEF Inv

LEMMA RequestsStep == Inv /\ Requests => Inv'
<1> SUFFICES ASSUME Inv, NEW c \in calls,
                    \/ Serve(c) \/ Refuses(c) \/ Breaks(c)
                    \/ Continues(c) \/ Succeeds(c) \/ Fails(c) \/ RefreshEnds(c) \/ Forgotten(c)
             PROVE  Inv'
  BY DEF Requests
<1>1. CASE RefreshEnds(c) \/ Forgotten(c)
  BY <1>1, CallGoes DEF RefreshEnds, Forgotten
<1> QED  BY <1>1, ServeStep, RefusesStep, BreaksStep, ContinuesStep, SucceedsStep, FailsStep

-----------------------------------------------------------------------------
\* Writes from rows.

LEMMA SendsStep ==
  ASSUME Inv, NEW C, Sends(C), modal'.kind = modal.kind,
         \A c \in C : /\ c \in CallRecord /\ Sound(c) /\ c.id = budget.edits
                      /\ c.tie = "modal" => Within(c.op, modal.kind),
         \A c, d \in C : c.op \in FormOps => c = d
  PROVE  ServerInv' /\ AgingInv' /\ TabInv' /\ AskInv' /\ CallsInv'
<1>1. budget' \in Budget /\ budget'.edits < budget.edits
  BY Spends DEF Sends, Inv, TabInv
<1>2. ServerInv' /\ AgingInv' /\ TabInv' /\ AskInv'
  BY <1>1, ServerRests, AgingRests, AskRests DEF Sends, Inv, TabInv
<1>3. CallsInv'
  BY <1>1, CallsSent DEF Sends, Inv, TabInv
<1> QED  BY <1>2, <1>3

LEMMA MoreCalls ==
  ASSUME Inv, NEW C, Sends(C), UNCHANGED modal
  PROVE  BusyIsAnswered' /\ ModalInv'
<1>1. BusyIsAnswered'
  BY BusyRests DEF Inv, Sends
<1> QED  BY <1>1 DEF Inv, ModalInv

LEMMA RowCallIsTyped ==
  ASSUME Inv, NEW op \in {"assign", "bulk", "directory", "matrix"}, NEW k \in Key, NEW x \in Subjects(op),
         NEW item \in Items, NEW ids \in SUBSET Contents(op), NEW what \in Asking(op),
         NEW tie \in {"modal", "page"}, tie = "modal" => Within(op, modal.kind)
  PROVE  LET c == RowCall(op, k, x, item, ids, what, tie)
         IN  /\ c \in CallRecord /\ Sound(c) /\ c.id = budget.edits /\ c.op = op /\ c.tie = tie
             /\ c.tie = "modal" => Within(c.op, modal.kind)
<1> DEFINE c == RowCall(op, k, x, item, ids, what, tie)
<1>1. x \in Roles \cup Accounts /\ ids \in SUBSET Items /\ op \in Op /\ budget \in Budget
  BY DEF Subjects, Contents, Items, Op, Inv, TabInv
<1>2. PICK old \in BOOLEAN : old = ~Certain(k, x)
  BY DEF Certain, Quiet
<1>3. Now(k, x) \in SUBSET Items
  BY AnswerIsTyped DEF Inv
<1>4. what \in What
  BY DEF Asking, What, PutOps
<1>5. <<what>> \in Seq(What) /\ <<what>> # <<>> /\ \A i \in 1 .. Len(<<what>>) : <<what>>[i] \in Asking(op)
  BY <1>4
<1>6. /\ c \in CallRecord /\ c.id = budget.edits /\ c.op = op /\ c.on = x /\ c.ids = ids
      /\ c.todo = <<what>> /\ c.st = "sent" /\ c.tie = tie
  <2>1. c = Call(op, x, {item}, ids, <<what>>, tie, old, Now(k, x))
    BY <1>2 DEF RowCall
  <2>2. {item} \in SUBSET Items /\ tie \in {"modal", "page", "away"}
    OBVIOUS
  <2>3. budget["edits"] = budget.edits /\ budget.edits \in Nat /\ <<>> \in Rolls
    BY <1>1, EmptyTable DEF Budget, Rolls
  <2> HIDE DEF c
  <2> QED  BY <1>1, <1>3, <1>5, <2>1, <2>2, <2>3 DEF Call, CallRecord
<1> HIDE DEF c
<1>7. Sound(c)
  BY <1>5, <1>6 DEF Sound
<1> QED  BY <1>6, <1>7 DEF c

LEMMA UsageIsOpen ==
  ASSUME Inv, Shown("usage")
  PROVE  /\ modal.on \in Roles /\ modal.on \in Items /\ modal.kind = "usage"
         /\ Within("assign", modal.kind) /\ Within("bulk", modal.kind)
  BY DEF Shown, Inv, ModalInv, Proper, Subjects, RoleOps, Items, Within

LEMMA UsageRow ==
  ASSUME Inv, Shown("usage"), NEW u \in Rows("usage"), NEW add \in BOOLEAN,
         NEW op \in {"assign", "bulk"}
  PROVE  LET c == RowCall(op, "usage", u, modal.on, With(Row("usage", u), modal.on, add), "put", "modal")
         IN  /\ c \in CallRecord /\ Sound(c) /\ c.id = budget.edits /\ c.op = op /\ c.tie = "modal"
             /\ c.tie = "modal" => Within(c.op, modal.kind)
<1>1. /\ modal.on \in Roles /\ modal.on \in Items
      /\ Within("assign", modal.kind) /\ Within("bulk", modal.kind)
  BY UsageIsOpen
<1>2. u \in Accounts /\ Row("usage", u) \subseteq Roles
  BY RowsAreTyped DEF Inv, Key
<1>3. /\ "usage" \in Key /\ u \in Subjects(op) /\ "put" \in Asking(op)
      /\ With(Row("usage", u), modal.on, add) \in SUBSET Contents(op)
  BY <1>1, <1>2 DEF Key, Subjects, Contents, Asking, RoleOps, PutOps, With
<1> QED  BY <1>1, <1>3, RowCallIsTyped

LEMMA AssignStep ==
  ASSUME Inv, NEW u \in Accounts, Assign(u)
  PROVE  Inv'
<1> DEFINE add == modal.on \notin Row("usage", u)
           c == RowCall("assign", "usage", u, modal.on, With(Row("usage", u), modal.on, add), "put", "modal")
<1>1. Shown("usage") /\ u \in Rows("usage") /\ Sends({c}) /\ UNCHANGED <<lists, modal>>
  BY DEF Assign
<1>2. /\ c \in CallRecord /\ Sound(c) /\ c.id = budget.edits /\ c.op = "assign" /\ c.tie = "modal"
      /\ c.tie = "modal" => Within(c.op, modal.kind)
  BY <1>1, UsageRow
<1> HIDE DEF c
<1>3. ServerInv' /\ AgingInv' /\ TabInv' /\ AskInv' /\ CallsInv'
  BY <1>1, <1>2, SendsStep
<1> QED  BY <1>1, <1>3, MoreCalls, ListsRest DEF Inv

LEMMA BulkStep ==
  ASSUME Inv, NEW U \in SUBSET Rows("usage"), NEW add \in BOOLEAN, Bulk(U, add)
  PROVE  Inv'
<1> DEFINE C == {RowCall("bulk", "usage", u, modal.on,
                         With(Row("usage", u), modal.on, add), "put", "modal") : u \in U}
<1>1. Shown("usage") /\ Sends(C) /\ UNCHANGED <<lists, modal>>
  BY DEF Bulk
<1>2. \A c \in C : /\ c \in CallRecord /\ Sound(c) /\ c.id = budget.edits /\ c.op = "bulk"
                   /\ c.tie = "modal" => Within(c.op, modal.kind)
  BY <1>1, UsageRow
<1> HIDE DEF C
<1>3. ServerInv' /\ AgingInv' /\ TabInv' /\ AskInv' /\ CallsInv'
  BY <1>1, <1>2, SendsStep DEF FormOps
<1> QED  BY <1>1, <1>3, MoreCalls, ListsRest DEF Inv

LEMMA AssignSelectedStep ==
  ASSUME Inv, NEW U \in SUBSET Rows("users"), NEW r \in Roles, AssignSelected(U, r)
  PROVE  Inv'
<1> DEFINE C == {RowCall("directory", "users", u, r, With(Row("users", u), r, TRUE), "put", "page") :
                     u \in U}
<1>1. Sends(C) /\ UNCHANGED <<lists, modal>>
  BY DEF AssignSelected
<1>2. ASSUME NEW u \in U
      PROVE  LET c == RowCall("directory", "users", u, r, With(Row("users", u), r, TRUE), "put", "page")
             IN  /\ c \in CallRecord /\ Sound(c) /\ c.id = budget.edits /\ c.op = "directory"
                 /\ c.tie = "modal" => Within(c.op, modal.kind)
  <2>1. u \in Accounts /\ Row("users", u) \subseteq Roles
    BY RowsAreTyped DEF Inv, Key
  <2>2. /\ "users" \in Key /\ u \in Subjects("directory") /\ "put" \in Asking("directory") /\ r \in Items
        /\ With(Row("users", u), r, TRUE) \in SUBSET Contents("directory")
    BY <2>1 DEF Key, Subjects, Contents, Asking, RoleOps, PutOps, With, Items
  <2>3. PICK ids \in SUBSET Contents("directory") : ids = With(Row("users", u), r, TRUE)
    BY <2>2
  <2> DEFINE c == RowCall("directory", "users", u, r, ids, "put", "page")
  <2>4. /\ c \in CallRecord /\ Sound(c) /\ c.id = budget.edits /\ c.op = "directory"
        /\ c.tie = "modal" => Within(c.op, modal.kind)
    BY <2>2, RowCallIsTyped
  <2> QED  BY <2>3, <2>4
<1>3. \A c \in C : /\ c \in CallRecord /\ Sound(c) /\ c.id = budget.edits /\ c.op = "directory"
                   /\ c.tie = "modal" => Within(c.op, modal.kind)
  BY <1>2
<1> HIDE DEF C
<1>4. ServerInv' /\ AgingInv' /\ TabInv' /\ AskInv' /\ CallsInv'
  BY <1>1, <1>3, SendsStep DEF FormOps
<1> QED  BY <1>1, <1>4, MoreCalls, ListsRest DEF Inv

LEMMA ToggleMatrixStep ==
  ASSUME Inv, NEW r \in Roles, NEW p \in Perms, ToggleMatrix(r, p)
  PROVE  Inv'
<1> DEFINE row == Flip(Row("roles", r), p)
           c == RowCall("matrix", "roles", r, p, row, "patch", "page")
           e == [c EXCEPT !.undo = lists["roles"].data]
           f == [lists["roles"].data EXCEPT ![r] = row]
<1>1. r \in Rows("roles") /\ Sends({e}) /\ modal' = modal
  BY DEF ToggleMatrix
<1>2. Row("roles", r) \subseteq Perms /\ p \in Items /\ "roles" \in Key
  BY <1>1, RowsAreTyped DEF Inv, Items, Key
<1>3. row \in SUBSET Perms
  BY <1>2 DEF Flip
<1>4. r \in Subjects("matrix") /\ Contents("matrix") = Perms /\ "patch" \in Asking("matrix")
  BY DEF Subjects, RoleOps, Contents, Asking, PutOps
<1>5. c \in CallRecord /\ Sound(c) /\ c.id = budget.edits /\ c.op = "matrix" /\ c.tie = "page"
  BY <1>2, <1>3, <1>4, RowCallIsTyped
<1>6. lists["roles"] \in CachedIn(TableOf("roles")) /\ TableOf("roles") = Rolls
      /\ lists["roles"].data \in Rolls
  BY <1>2 DEF Inv, ListsInv, TableOf, CachedIn
<1>7. f \in Rolls
  BY <1>3, <1>6, TableExcept DEF Rolls, Row
<1>8. lists' = [lists EXCEPT !["roles"] = [lists["roles"] EXCEPT !.phase = "idle", !.resp = <<>>, !.data = f]]
  <2>1. lists' = [lists EXCEPT !["roles"] =
                    [[[lists["roles"] EXCEPT !.phase = "idle"] EXCEPT !.resp = <<>>] EXCEPT !.data = f]]
    BY <1>2, <1>6 DEF ToggleMatrix, Inv, ListsInv, CachedIn
  <2> HIDE DEF f
  <2>2. [[[lists["roles"] EXCEPT !.phase = "idle"] EXCEPT !.resp = <<>>] EXCEPT !.data = f]
          = [lists["roles"] EXCEPT !.phase = "idle", !.resp = <<>>, !.data = f]
    BY <1>6 DEF CachedIn
  <2> QED  BY <2>1, <2>2
<1> HIDE DEF c, f
<1>9. [lists["roles"] EXCEPT !.phase = "idle", !.resp = <<>>, !.data = f] \in CachedIn(TableOf("roles"))
  BY <1>2, <1>6, <1>7, CachedRecords, TablesAreTyped
<1>10. ListsInv'
  BY <1>2, <1>8, <1>9, OneList DEF Inv
<1>11. /\ e \in CallRecord /\ e.id = c.id /\ e.op = c.op /\ e.on = c.on /\ e.ids = c.ids
       /\ e.todo = c.todo /\ e.st = c.st /\ e.tie = c.tie
  BY <1>5, <1>6 DEF CallRecord
<1> HIDE DEF e
<1>12. Sound(e)
  BY <1>5, <1>11 DEF Sound
<1>13. ServerInv' /\ AgingInv' /\ TabInv' /\ AskInv' /\ CallsInv'
  BY <1>1, <1>5, <1>11, <1>12, SendsStep
<1> QED  BY <1>1, <1>10, <1>13, MoreCalls DEF Inv

LEMMA RowWritesStep == Inv /\ RowWrites => Inv'
  BY AssignStep, BulkStep, AssignSelectedStep, ToggleMatrixStep DEF RowWrites

-----------------------------------------------------------------------------
\* Writes from forms.

LEMMA FormCallIsTyped ==
  ASSUME budget \in Budget, NEW m \in Form, Proper(m), m.kind \in FormOps,
         NEW todo \in Seq(Asking(m.kind)), todo # <<>>, NEW tie \in {"modal", "page", "away"}
  PROVE  LET c == FormCall(m, todo, tie)
         IN  c \in CallRecord /\ Sound(c) /\ c.id = budget.edits /\ c.op = m.kind /\ c.tie = tie
<1> DEFINE c == FormCall(m, todo, tie)
<1>1. /\ m.kind \in Op /\ m.on \in Subjects(m.kind) /\ m.ids \subseteq Contents(m.kind)
      /\ m.base \in SUBSET Items /\ m.ids \in SUBSET Items /\ m.old \in BOOLEAN /\ m.seen \in SUBSET Items
  BY DEF Proper, FormOps, Op, Form
<1>2. m.on \in Roles \cup Accounts /\ Asking(m.kind) \subseteq What
  BY <1>1 DEF Subjects, Asking, What, PutOps, Op
<1>3. todo \in Seq(What) /\ \A i \in 1 .. Len(todo) : todo[i] \in Asking(m.kind)
  BY <1>2
<1>4. Apart(m.base, m.ids) \in SUBSET Items
  BY <1>1 DEF Apart
<1>5. budget["edits"] = budget.edits /\ budget.edits \in Nat /\ <<>> \in Rolls
  BY EmptyTable DEF Budget, Rolls
<1>6. /\ c \in CallRecord /\ c.id = budget.edits /\ c.op = m.kind /\ c.on = m.on /\ c.ids = m.ids
      /\ c.todo = todo /\ c.st = "sent" /\ c.tie = tie
  BY <1>1, <1>2, <1>3, <1>4, <1>5 DEF FormCall, Call, CallRecord
<1> HIDE DEF c
<1>7. Sound(c)
  BY <1>1, <1>3, <1>6 DEF Sound
<1> QED  BY <1>6, <1>7 DEF c

LEMMA SendFormStep ==
  ASSUME Inv, modal.kind \in FormOps, NEW todo \in Seq(Asking(modal.kind)), todo # <<>>, SendForm(todo)
  PROVE  Inv'
<1> DEFINE c == FormCall(modal, todo, "modal")
<1>1. budget \in Budget /\ modal \in Form /\ Proper(modal)
  BY DEF Inv, TabInv, ModalInv
<1>2. c \in CallRecord /\ Sound(c) /\ c.id = budget.edits /\ c.op = modal.kind /\ c.tie = "modal"
  BY <1>1, FormCallIsTyped
<1>3. Sends({c}) /\ modal' = [modal EXCEPT !.busy = TRUE] /\ lists' = lists
  BY DEF SendForm
<1> HIDE DEF c
<1>4. /\ modal' \in Form /\ modal'.kind = modal.kind /\ modal'.on = modal.on
      /\ modal'.ids = modal.ids /\ modal'.base = modal.base
  BY <1>1, <1>3 DEF Form
<1>5. Within(c.op, modal.kind)
  BY <1>2 DEF Within
<1>6. ServerInv' /\ AgingInv' /\ TabInv' /\ AskInv' /\ CallsInv'
  BY <1>2, <1>3, <1>4, <1>5, SendsStep
<1>7. ModalInv'
  BY <1>1, <1>4 DEF ModalInv, Proper
<1>8. BusyIsAnswered'
  <2>1. c \in calls'
    BY <1>3 DEF Sends
  <2> QED  BY <1>2, <1>4, <2>1 DEF BusyIsAnswered, Pending
<1> QED  BY <1>3, <1>6, <1>7, <1>8, ListsRest DEF Inv

LEMMA AskReduceStep ==
  ASSUME Inv, AskReduce
  PROVE  Inv'
<1>1. /\ modal.kind = "editor" /\ ask' = Question("reduce")
      /\ modal' = [modal EXCEPT !.busy = TRUE]
      /\ UNCHANGED <<server, lists, page, calls, aging, budget>>
  BY DEF AskReduce, Submittable, Shown
<1>2. modal \in Form /\ Proper(modal)
  BY DEF Inv, ModalInv
<1>3. /\ modal' \in Form /\ modal'.kind = modal.kind /\ modal'.on = modal.on
      /\ modal'.ids = modal.ids /\ modal'.base = modal.base
  BY <1>1, <1>2 DEF Form
<1>4. /\ ask' \in Questions /\ ask'.q = "reduce" /\ ask'.form = modal /\ ask'.tie = "modal"
  BY <1>1, <1>2 DEF Question, Questions
<1>5. ModalInv' /\ AskInv' /\ BusyIsAnswered'
  BY <1>1, <1>2, <1>3, <1>4 DEF ModalInv, Proper, AskInv, BusyIsAnswered
<1>6. CallsInv'
  BY <1>1, <1>3, CallsRest, SameBudget DEF Inv, TabInv
<1> QED  BY <1>1, <1>5, <1>6, ServerRests, AgingRests, ListsRest DEF Inv, TabInv

LEMMA WhenIsTyped ==
  ASSUME NEW S, NEW cond \in BOOLEAN, NEW what \in S
  PROVE  When(cond, what) \in Seq(S)
  BY DEF When

LEMMA Concatenated ==
  ASSUME NEW S, NEW s \in Seq(S), NEW t \in Seq(S)
  PROVE  s \o t \in Seq(S) /\ (s # <<>> \/ t # <<>> => s \o t # <<>>)
<1>1. s \o t \in Seq(S) /\ Len(s \o t) = Len(s) + Len(t)
  OBVIOUS
<1>2. Len(s) \in Nat /\ Len(t) \in Nat /\ (s # <<>> => Len(s) > 0) /\ (t # <<>> => Len(t) > 0)
  OBVIOUS
<1>3. PICK u \in Seq(S) : u = s \o t
  BY <1>1
<1>4. s # <<>> \/ t # <<>> => u # <<>>
  BY <1>1, <1>2, <1>3
<1> QED  BY <1>3, <1>4

LEMMA RegisterStep ==
  ASSUME Inv, Register
  PROVE  Inv'
<1>1. PICK named \in BOOLEAN :
         SendForm(<<"register">> \o When(named, "details") \o When(modal.ids # {}, "put"))
  BY DEF Register
<1>2. modal.kind = "register"
  BY DEF Register, Submittable, Shown
<1> DEFINE S == Asking("register")
<1>3. "register" \in S /\ "details" \in S /\ "put" \in S
  BY DEF Asking, PutOps
<1> HIDE DEF S
<1>4. When(named, "details") \in Seq(S) /\ When(modal.ids # {}, "put") \in Seq(S)
  <2>1. PICK some \in BOOLEAN : some = (modal.ids # {})
    OBVIOUS
  <2>2. When(some, "put") \in Seq(S)
    BY <1>3, WhenIsTyped
  <2>3. When(modal.ids # {}, "put") \in Seq(S)
    BY <1>3 DEF When
  <2> QED  BY <1>3, <2>3, WhenIsTyped
<1>5. PICK s \in Seq(S) : s = When(named, "details")
  BY <1>4
<1>6. PICK t \in Seq(S) : t = When(modal.ids # {}, "put")
  BY <1>4
<1>7. PICK r : r = <<"register">>
  OBVIOUS
<1>8. r \in Seq(S) /\ r # <<>>
  BY <1>3, <1>7
<1>9. PICK todo \in Seq(S) : todo = r \o s \o t /\ todo # <<>>
  BY <1>8, Concatenated
<1>10. SendForm(todo)
  BY <1>1, <1>5, <1>6, <1>7, <1>9
<1> QED  BY <1>2, <1>9, <1>10, SendFormStep DEF S, FormOps

LEMMA SaveProfileStep ==
  ASSUME Inv, SaveProfile
  PROVE  Inv'
<1>1. SendForm(When("email" \in modal.ids, "verify") \o <<"profile">>
                \o When("password" \in modal.ids, "password"))
  BY DEF SaveProfile
<1>2. modal.kind = "profile"
  BY DEF SaveProfile, Submittable, Shown
<1> DEFINE S == Asking("profile")
<1>3. "verify" \in S /\ "profile" \in S /\ "password" \in S
  BY DEF Asking, PutOps
<1> HIDE DEF S
<1>4. When("email" \in modal.ids, "verify") \in Seq(S) /\ When("password" \in modal.ids, "password") \in Seq(S)
  BY <1>3 DEF When
<1>5. PICK s \in Seq(S) : s = When("email" \in modal.ids, "verify")
  BY <1>4
<1>6. PICK t \in Seq(S) : t = When("password" \in modal.ids, "password")
  BY <1>4
<1>7. PICK p : p = <<"profile">>
  OBVIOUS
<1>8. p \in Seq(S) /\ p # <<>>
  BY <1>3, <1>7
<1>9. PICK todo \in Seq(S) : todo = s \o p \o t /\ todo # <<>>
  BY <1>8, Concatenated
<1>10. SendForm(todo)
  BY <1>1, <1>5, <1>6, <1>7, <1>9
<1> QED  BY <1>2, <1>9, <1>10, SendFormStep DEF S, FormOps

LEMMA FormWritesStep == Inv /\ FormWrites => Inv'
<1> SUFFICES ASSUME Inv, FormWrites
             PROVE  Inv'
  OBVIOUS
<1>1. CASE SaveEditor
  <2>1. modal.kind = "editor" /\ SendForm(<<"patch">>)
    BY <1>1 DEF SaveEditor, Submittable, Shown
  <2>2. <<"patch">> \in Seq(Asking("editor")) /\ <<"patch">> # <<>>
    BY DEF Asking, PutOps
  <2> QED  BY <2>1, <2>2, SendFormStep DEF FormOps
<1>2. CASE SaveNewRole
  <2>1. modal.kind = "creator" /\ SendForm(<<"post">>)
    BY <1>2 DEF SaveNewRole, Submittable, Shown
  <2>2. <<"post">> \in Seq(Asking("creator")) /\ <<"post">> # <<>>
    BY DEF Asking, PutOps
  <2> QED  BY <2>1, <2>2, SendFormStep DEF FormOps
<1>3. CASE SaveRoles
  <2>1. modal.kind = "drawer" /\ SendForm(<<"put">>)
    BY <1>3 DEF SaveRoles, Submittable, Shown
  <2>2. <<"put">> \in Seq(Asking("drawer")) /\ <<"put">> # <<>>
    BY DEF Asking, PutOps
  <2> QED  BY <2>1, <2>2, SendFormStep DEF FormOps
<1>4. CASE Remove
  <2>1. modal.kind = "drop" /\ SendForm(<<"drop">>)
    BY <1>4 DEF Remove, Submittable, Shown
  <2>2. <<"drop">> \in Seq(Asking("drop")) /\ <<"drop">> # <<>>
    BY DEF Asking, PutOps
  <2> QED  BY <2>1, <2>2, SendFormStep DEF FormOps
<1> QED  BY <1>1, <1>2, <1>3, <1>4, AskReduceStep, RegisterStep, SaveProfileStep DEF FormWrites

-----------------------------------------------------------------------------
\* Dialogs.

LEMMA OpenIsTyped ==
  ASSUME NEW kind \in FormOps \cup {"usage"}, NEW x \in Subjects(kind), NEW base \in SUBSET Contents(kind),
         NEW old \in BOOLEAN, NEW seen \in SUBSET Items, NEW m,
         m = [kind |-> kind, on |-> x, base |-> base, ids |-> base, old |-> old, seen |-> seen,
              busy |-> FALSE, hung |-> FALSE]
  PROVE  m \in Form /\ Proper(m) /\ ~m.busy
<1>1. x \in Roles \cup Accounts \cup {"none"} /\ base \in SUBSET Items
  BY DEF Subjects, Contents, Items
<1>2. m \in Form /\ ~m.busy
  BY <1>1 DEF Form
<1>3. m.kind = kind /\ m.on = x /\ m.base = base /\ m.ids = base
  OBVIOUS
<1> QED  BY <1>2, <1>3 DEF Proper

LEMMA OpenedStep ==
  ASSUME Inv, Free, modal' \in Form, Proper(modal'), ~modal'.busy, ListsInv',
         UNCHANGED <<server, page, ask, calls, aging, budget>>
  PROVE  Inv'
<1>1. modal.kind = "none" /\ ask.q = "none"
  BY DEF Free
<1>2. \A c \in calls : c.tie # "modal"
  <2>1. \A c \in calls : c.op \in Op /\ (c.tie = "modal" => Within(c.op, "none"))
    BY <1>1, CallsAreTyped DEF Inv, CallsInv
  <2> QED  BY <2>1 DEF Within, Op
<1>3. CallsInv'
  BY <1>2 DEF Inv, CallsInv
<1>4. ModalInv' /\ AskInv' /\ BusyIsAnswered'
  BY <1>1 DEF ModalInv, Inv, AskInv, BusyIsAnswered
<1> QED  BY <1>3, <1>4, ServerRests, AgingRests DEF Inv, TabInv

LEMMA OpenedForm ==
  ASSUME NEW kind, NEW x, NEW base, Open(kind, x, base, base)
  PROVE  modal' = [kind |-> kind, on |-> x, base |-> base, ids |-> base, old |-> FALSE, seen |-> base,
                   busy |-> FALSE, hung |-> FALSE]
  BY DEF Open, NoModal

LEMMA OpenedRow ==
  ASSUME NEW kind, NEW k, NEW x, OpenRow(kind, k, x)
  PROVE  modal' = [kind |-> kind, on |-> x, base |-> Row(k, x), ids |-> Row(k, x), old |-> ~Certain(k, x),
                   seen |-> Now(k, x), busy |-> FALSE, hung |-> FALSE]
  BY DEF OpenRow, NoModal

LEMMA RangeIsTyped ==
  ASSUME ListsInv
  PROVE  /\ \A P \in {{}} \cup Range(lists["roles"].data) : P \subseteq Perms
         /\ \A R \in {{}} \cup Range(lists["users"].data) : R \subseteq Roles
  BY RowsAreTyped DEF Range, Rows, Row

LEMMA OpensStep ==
  ASSUME Inv, Opens
  PROVE  Inv'
<1>1. UNCHANGED <<server, page, ask, calls, aging, budget>>
  BY DEF Opens
<1>2. ListsInv /\ "usage" \in Key /\ "roles" \in Key /\ "users" \in Key
  BY DEF Inv, Key
<1>3. \A k \in Key : \A x : Now(k, x) \in SUBSET Items
  BY AnswerIsTyped DEF Inv
<1>4. \A k, x : Certain(k, x) \in BOOLEAN
  BY DEF Certain, Quiet
<1>5. ASSUME NEW r \in Roles, OpenUsage(r)
      PROVE  Inv'
  <2>1. modal' \in Form /\ Proper(modal') /\ ~modal'.busy
    <3>1. modal' = [kind |-> "usage", on |-> r, base |-> {}, ids |-> {}, old |-> FALSE, seen |-> {},
                    busy |-> FALSE, hung |-> FALSE]
      BY <1>5, OpenedForm DEF OpenUsage
    <3>2. r \in Subjects("usage")
      BY DEF Subjects, RoleOps
    <3> QED  BY <3>1, <3>2, OpenIsTyped
  <2>2. ListsInv'
    BY <1>2, <1>5, MountedLists DEF OpenUsage
  <2> QED  BY <1>1, <1>5, <2>1, <2>2, OpenedStep DEF OpenUsage
<1>6. ASSUME NEW r \in Roles, OpenEditor(r)
      PROVE  Inv'
  <2>1. modal' \in Form /\ Proper(modal') /\ ~modal'.busy
    <3>1. PICK old \in BOOLEAN : old = ~Certain("roles", r)
      BY <1>4
    <3>2. modal' = [kind |-> "editor", on |-> r, base |-> Row("roles", r), ids |-> Row("roles", r), old |-> old,
                    seen |-> Now("roles", r), busy |-> FALSE, hung |-> FALSE]
      BY <1>6, <3>1, OpenedRow DEF OpenEditor
    <3>3. r \in Subjects("editor") /\ Row("roles", r) \in SUBSET Contents("editor") /\ "editor" \in FormOps
      BY <1>2, <1>6, RowsAreTyped DEF OpenEditor, Subjects, RoleOps, Contents, FormOps
    <3> QED  BY <1>2, <1>3, <3>2, <3>3, OpenIsTyped
  <2>2. ListsInv'
    BY <1>2, <1>6, ListsRest DEF OpenEditor
  <2> QED  BY <1>1, <1>6, <2>1, <2>2, OpenedStep DEF OpenEditor
<1>7. ASSUME NEW r \in Roles, OpenCreator(r)
      PROVE  Inv'
  <2>1. modal' \in Form /\ Proper(modal') /\ ~modal'.busy
    <3>1. PICK P \in {{}} \cup Range(lists["roles"].data) : Open("creator", r, P, P)
      BY <1>7 DEF OpenCreator
    <3>2. modal' = [kind |-> "creator", on |-> r, base |-> P, ids |-> P, old |-> FALSE, seen |-> P,
                    busy |-> FALSE, hung |-> FALSE]
      BY <3>1, OpenedForm
    <3>3. r \in Subjects("creator") /\ P \in SUBSET Contents("creator") /\ P \in SUBSET Items
          /\ "creator" \in FormOps
      BY <1>2, RangeIsTyped DEF Subjects, RoleOps, Contents, Items, FormOps
    <3> QED  BY <3>2, <3>3, OpenIsTyped
  <2>2. ListsInv'
    BY <1>2, <1>7, ListsRest DEF OpenCreator
  <2> QED  BY <1>1, <1>7, <2>1, <2>2, OpenedStep DEF OpenCreator
<1>8. ASSUME NEW r \in Roles, OpenDeletion(r)
      PROVE  Inv'
  <2>1. modal' \in Form /\ Proper(modal') /\ ~modal'.busy
    <3>1. modal' = [kind |-> "drop", on |-> r, base |-> {}, ids |-> {}, old |-> FALSE, seen |-> {},
                    busy |-> FALSE, hung |-> FALSE]
      BY <1>8, OpenedForm DEF OpenDeletion
    <3>2. r \in Subjects("drop") /\ "drop" \in FormOps
      BY DEF Subjects, RoleOps, FormOps
    <3> QED  BY <3>1, <3>2, OpenIsTyped
  <2>2. ListsInv'
    BY <1>2, <1>8, ListsRest DEF OpenDeletion
  <2> QED  BY <1>1, <1>8, <2>1, <2>2, OpenedStep DEF OpenDeletion
<1>9. ASSUME NEW u \in Accounts, OpenDrawer(u)
      PROVE  Inv'
  <2>1. modal' \in Form /\ Proper(modal') /\ ~modal'.busy
    <3>1. PICK old \in BOOLEAN : old = ~Certain("users", u)
      BY <1>4
    <3>2. modal' = [kind |-> "drawer", on |-> u, base |-> Row("users", u), ids |-> Row("users", u), old |-> old,
                    seen |-> Now("users", u), busy |-> FALSE, hung |-> FALSE]
      BY <1>9, <3>1, OpenedRow DEF OpenDrawer
    <3>3. u \in Subjects("drawer") /\ Row("users", u) \in SUBSET Contents("drawer") /\ "drawer" \in FormOps
      BY <1>2, <1>9, RowsAreTyped DEF OpenDrawer, Subjects, RoleOps, Contents, FormOps
    <3> QED  BY <1>2, <1>3, <3>2, <3>3, OpenIsTyped
  <2>2. ListsInv'
    BY <1>2, <1>9, MountedLists DEF OpenDrawer
  <2> QED  BY <1>1, <1>9, <2>1, <2>2, OpenedStep DEF OpenDrawer
<1>10. ASSUME NEW u \in Accounts, OpenRegistration(u)
       PROVE  Inv'
  <2>1. modal' \in Form /\ Proper(modal') /\ ~modal'.busy
    <3>1. PICK R \in {{}} \cup Range(lists["users"].data) : Open("register", u, R, R)
      BY <1>10 DEF OpenRegistration
    <3>2. modal' = [kind |-> "register", on |-> u, base |-> R, ids |-> R, old |-> FALSE, seen |-> R,
                    busy |-> FALSE, hung |-> FALSE]
      BY <3>1, OpenedForm
    <3>3. u \in Subjects("register") /\ R \in SUBSET Contents("register") /\ R \in SUBSET Items
          /\ "register" \in FormOps
      BY <1>2, RangeIsTyped DEF Subjects, RoleOps, Contents, Items, FormOps
    <3> QED  BY <3>2, <3>3, OpenIsTyped
  <2>2. ListsInv'
    BY <1>2, <1>10, MountedLists DEF OpenRegistration
  <2> QED  BY <1>1, <1>10, <2>1, <2>2, OpenedStep DEF OpenRegistration
<1>11. ASSUME NEW u \in Accounts, OpenProfile(u)
       PROVE  Inv'
  <2>1. modal' \in Form /\ Proper(modal') /\ ~modal'.busy
    <3>1. modal' = [kind |-> "profile", on |-> u, base |-> {}, ids |-> {}, old |-> FALSE, seen |-> {},
                    busy |-> FALSE, hung |-> FALSE]
      BY <1>11, OpenedForm DEF OpenProfile
    <3>2. u \in Subjects("profile") /\ "profile" \in FormOps
      BY DEF Subjects, RoleOps, FormOps
    <3> QED  BY <3>1, <3>2, OpenIsTyped
  <2>2. ListsInv'
    BY <1>2, <1>11, ListsRest DEF OpenProfile
  <2> QED  BY <1>1, <1>11, <2>1, <2>2, OpenedStep DEF OpenProfile
<1> QED  BY <1>5, <1>6, <1>7, <1>8, <1>9, <1>10, <1>11 DEF Opens

LEMMA EditedForm ==
  ASSUME Inv, NEW ids \in SUBSET Contents(modal.kind), modal' = [modal EXCEPT !.ids = ids],
         UNCHANGED <<server, lists, page, ask, calls, aging, budget>>
  PROVE  Inv'
<1>1. modal \in Form /\ Proper(modal)
  BY DEF Inv, ModalInv
<1>2. ids \in SUBSET Items
  BY DEF Contents, Items
<1>3. /\ modal' \in Form /\ modal'.kind = modal.kind /\ modal'.on = modal.on /\ modal'.ids = ids
      /\ modal'.base = modal.base /\ modal'.busy = modal.busy /\ modal'.hung = modal.hung
  BY <1>1, <1>2 DEF Form
<1>4. ModalInv'
  BY <1>1, <1>3 DEF ModalInv, Proper
<1>5. CallsInv'
  BY <1>3, CallsRest, SameBudget DEF Inv, TabInv
<1>6. BusyIsAnswered'
  BY <1>3, BusyRests DEF Inv
<1>7. AskInv'
  BY <1>3, AskRests DEF Inv
<1> QED  BY <1>4, <1>5, <1>6, <1>7, ServerRests, AgingRests, ListsRest DEF Inv, TabInv

LEMMA TicksStep ==
  ASSUME Inv, NEW kind, NEW choices \in SUBSET Contents(kind), kind \in FormOps, Ticks(kind, choices)
  PROVE  Inv'
<1>1. modal.kind = kind
  BY DEF Ticks, Shown
<1>2. PICK x \in choices : modal' = [modal EXCEPT !.ids = Flip(modal.ids, x)]
  BY DEF Ticks, Inv, ModalInv, Form
<1>3. Flip(modal.ids, x) \in SUBSET Contents(kind)
  BY <1>1 DEF Flip, Inv, ModalInv, Proper, FormOps
<1> QED  BY <1>1, <1>2, <1>3, EditedForm DEF Ticks

LEMMA ChoicesStep ==
  ASSUME Inv, TicksPermission \/ TicksDrawer \/ TicksRegistration \/ EditsProfile \/ ChoosesFallback
  PROVE  Inv'
<1>1. Rows("roles") \subseteq Roles
  BY RowsAreTyped DEF Inv, Key
<1>2. CASE TicksPermission
  BY <1>2, TicksStep DEF TicksPermission, Contents, FormOps
<1>3. CASE TicksDrawer
  BY <1>1, <1>3, TicksStep DEF TicksDrawer, Contents, FormOps
<1>4. CASE TicksRegistration
  BY <1>1, <1>4, TicksStep DEF TicksRegistration, Contents, FormOps
<1>5. CASE EditsProfile
  BY <1>5, TicksStep DEF EditsProfile, Contents, FormOps
<1>6. CASE ChoosesFallback
  <2>1. modal.kind = "drop"
    BY <1>6 DEF ChoosesFallback, Shown
  <2>2. PICK R \in {{r} : r \in Rows("roles") \ {modal.on}} : modal' = [modal EXCEPT !.ids = R]
    BY <1>6 DEF ChoosesFallback
  <2>3. R \in SUBSET Contents("drop")
    BY <1>1, <2>2 DEF Contents
  <2> QED  BY <1>6, <2>1, <2>2, <2>3, EditedForm DEF ChoosesFallback
<1> QED  BY <1>2, <1>3, <1>4, <1>5, <1>6

-----------------------------------------------------------------------------
\* Closing, questions and navigation.

LEMMA CloseStep ==
  ASSUME Inv, NEW m, NEW a \in {ask, NoQuestion}, Close(m, calls, a),
         UNCHANGED <<server, lists, page, aging, budget>>
  PROVE  Inv'
<1>1. ModalInv' /\ AskInv' /\ CallsInv' /\ BusyIsAnswered'
  BY ClosedDialog, SameBudget DEF Inv, Close
<1> QED  BY <1>1, ServerRests, AgingRests, ListsRest DEF Inv, TabInv

\* Closing an edited form leaves it busy only where something still ends its wait.
LEMMA CloseSafelyStep ==
  ASSUME Inv, NEW m \in Form, Proper(m), m.kind = modal.kind, NEW a \in {ask, NoQuestion},
         m.busy => Pending(m.kind, {"modal"}) \/ m.hung \/ (a.q # "none" /\ Unanswered(m)),
         CloseSafely(m, a), UNCHANGED <<server, lists, page, aging, budget>>
  PROVE  Inv'
<1>1. CASE Close(m, calls, a)
  BY <1>1, CloseStep
<1>2. CASE /\ ask' = [q |-> "discard", form |-> m, tie |-> "modal", first |-> "modal"]
           /\ modal' = [m EXCEPT !.hung = m.hung \/ (a.q # "none" /\ Unanswered(m))]
           /\ UNCHANGED calls
  <2>1. PICK hung \in BOOLEAN : hung <=> (m.hung \/ (a.q # "none" /\ Unanswered(m)))
    OBVIOUS
  <2>2. m.hung \in BOOLEAN /\ (m.hung \/ (a.q # "none" /\ Unanswered(m))) \in BOOLEAN
    BY DEF Form, Unanswered
  <2>3. hung = (m.hung \/ (a.q # "none" /\ Unanswered(m)))
    BY <2>1, <2>2
  <2>4. modal' = [m EXCEPT !.hung = hung]
    BY <1>2, <2>3
  <2>5. /\ modal' \in Form /\ modal'.kind = m.kind /\ modal'.on = m.on /\ modal'.base = m.base
        /\ modal'.ids = m.ids /\ modal'.busy = m.busy /\ modal'.hung = hung
    BY <2>4 DEF Form
  <2>6. ModalInv'
    BY <2>5 DEF ModalInv, Proper
  <2>7. AskInv'
    <3>1. ask' \in Questions /\ ask'.form = m /\ ask'.q = "discard"
      BY <1>2 DEF Questions
    <3> QED  BY <3>1 DEF AskInv
  <2>8. CallsInv'
    BY <1>2, <2>5, CallsRest, SameBudget DEF Inv, TabInv
  <2>9. BusyIsAnswered'
    BY <1>2, <2>1, <2>5 DEF BusyIsAnswered, Pending
  <2> QED  BY <2>6, <2>7, <2>8, <2>9, ServerRests, AgingRests, ListsRest DEF Inv, TabInv
<1>3. m.hung \in BOOLEAN
  BY DEF Form
<1> QED  BY <1>1, <1>2, <1>3 DEF CloseSafely

LEMMA ReleasedForm ==
  ASSUME Inv
  PROVE  /\ Released \in Form /\ Proper(Released) /\ Released.kind = modal.kind /\ Released.hung = modal.hung
         /\ Released.busy => Pending(Released.kind, {"modal"}) \/ Released.hung
         /\ Released.busy => modal.busy /\ ~(ask.q = "reduce" /\ ask.tie = "modal")
<1>1. modal \in Form /\ Proper(modal)
  BY DEF Inv, ModalInv
<1>2. CASE ask.q = "reduce" /\ ask.tie = "modal"
  <2>1. PICK m : m = [modal EXCEPT !.busy = FALSE]
    OBVIOUS
  <2>2. /\ m \in Form /\ m.kind = modal.kind /\ m.on = modal.on /\ m.base = modal.base
        /\ m.ids = modal.ids /\ m.hung = modal.hung /\ ~m.busy
    BY <1>1, <2>1 DEF Form
  <2>3. Released = m
    BY <1>2, <2>1 DEF Released
  <2>4. Proper(m)
    BY <1>1, <2>2 DEF Proper
  <2> QED  BY <2>2, <2>3, <2>4
<1>3. CASE ~(ask.q = "reduce" /\ ask.tie = "modal")
  <2>1. Released = modal
    BY <1>3 DEF Released
  <2> QED  BY <1>1, <1>3, <2>1 DEF Inv, BusyIsAnswered
<1> QED  BY <1>2, <1>3

LEMMA NoQuestionIsTyped ==
  NoQuestion \in Questions /\ NoQuestion.q = "none" /\ Proper(NoQuestion.form)
<1>1. NoModal \in Form /\ NoModal.kind = "none"
  BY DEF NoModal, Form
<1> QED  BY <1>1 DEF NoQuestion, Questions, Proper

LEMMA LeavesStep ==
  ASSUME Inv, Leaves
  PROVE  Inv'
<1>1. ask.q = "none"
  BY DEF Leaves, Shown
<1>2. modal.busy => Pending(modal.kind, {"modal"}) \/ modal.hung
  BY <1>1 DEF Inv, BusyIsAnswered
<1>3. modal \in Form /\ Proper(modal)
  BY DEF Inv, ModalInv
<1> QED  BY <1>2, <1>3, CloseSafelyStep DEF Leaves

LEMMA NoStep ==
  ASSUME Inv, No
  PROVE  Inv'
<1>1. modal' = Released /\ ask' = NoQuestion /\ UNCHANGED <<server, lists, page, calls, aging, budget>>
  BY DEF No
<1>2. ModalInv' /\ modal'.kind = modal.kind
  BY <1>1, ReleasedForm DEF ModalInv
<1>3. AskInv'
  BY <1>1, NoQuestionIsTyped DEF AskInv
<1>4. CallsInv'
  BY <1>1, <1>2, CallsRest, SameBudget DEF Inv, TabInv
<1>5. BusyIsAnswered'
  <2>1. PICK m : m = Released
    OBVIOUS
  <2>2. m.busy => m.hung \/ \E c \in calls : c.op = m.kind /\ c.tie = "modal"
    BY <2>1, ReleasedForm DEF Pending
  <2>3. modal' = m /\ calls' = calls
    BY <1>1, <2>1
  <2> QED  BY <2>2, <2>3 DEF BusyIsAnswered, Pending
<1> QED  BY <1>1, <1>2, <1>3, <1>4, <1>5, ServerRests, AgingRests, ListsRest DEF Inv, TabInv

LEMMA OneCallSent ==
  ASSUME CallsInv, budget \in Budget, budget' \in Budget, budget'.edits < budget.edits,
         NEW save \in CallRecord, Sound(save), save.id = budget.edits,
         save.tie = "modal" => Within(save.op, modal.kind),
         calls' = calls \cup {save}, modal'.kind = modal.kind
  PROVE  CallsInv'
<1> DEFINE C == {save}
<1>1. /\ \A c \in C : /\ c \in CallRecord /\ Sound(c) /\ c.id = budget.edits
                      /\ c.tie = "modal" => Within(c.op, modal.kind)
      /\ \A c, d \in C : c.op \in FormOps => c = d
      /\ calls' = calls \cup C
  OBVIOUS
<1> HIDE DEF C
<1> QED  BY <1>1, CallsSent

LEMMA YesReduceStep ==
  ASSUME Inv, YesReduce
  PROVE  Inv'
<1>1. /\ ask.q = "reduce" /\ Spend("edits") /\ ask' = NoQuestion
      /\ UNCHANGED <<server, lists, page, modal, aging>>
  BY DEF YesReduce
<1>2. PICK save : save = FormCall(ask.form, <<"patch">>, ask.tie)
  OBVIOUS
<1>3. /\ ask.form \in Form /\ Proper(ask.form) /\ ask.form.kind = "editor"
      /\ ask.tie \in {"modal", "page", "away"} /\ (ask.tie = "modal" => modal.kind = "editor")
  BY <1>1 DEF Inv, AskInv, Questions
<1>4. save \in CallRecord /\ Sound(save) /\ save.id = budget.edits /\ save.op = "editor" /\ save.tie = ask.tie
  <2>1. PICK todo : todo = <<"patch">>
    OBVIOUS
  <2>2. "patch" \in Asking("editor") /\ "editor" \in FormOps
    BY DEF Asking, PutOps, FormOps
  <2>3. todo \in Seq(Asking(ask.form.kind)) /\ todo # <<>>
    BY <1>3, <2>1, <2>2
  <2>4. save = FormCall(ask.form, todo, ask.tie) /\ budget \in Budget
    BY <1>2, <2>1 DEF Inv, TabInv
  <2> QED  BY <1>3, <2>2, <2>3, <2>4, FormCallIsTyped
<1>5. calls' = calls \cup {save}
  BY <1>2 DEF YesReduce
<1>6. budget' \in Budget /\ budget'.edits < budget.edits
  BY <1>1, Spends DEF Inv, TabInv
<1>7. CallsInv'
  <2>1. save.tie = "modal" => Within(save.op, modal.kind)
    BY <1>3, <1>4 DEF Within
  <2>2. modal'.kind = modal.kind /\ budget \in Budget
    BY <1>1 DEF Inv, TabInv
  <2>3. budget' \in Budget /\ budget'.edits < budget.edits /\ CallsInv
    BY <1>6 DEF Inv
  <2> QED  BY <1>4, <1>5, <2>1, <2>2, <2>3, OneCallSent
<1>8. AskInv'
  BY <1>1, NoQuestionIsTyped DEF AskInv
<1>9. BusyIsAnswered'
  <2>1. save \in calls'
    BY <1>5
  <2>2. CASE ask.tie = "modal"
    BY <1>1, <1>3, <1>4, <2>1, <2>2 DEF BusyIsAnswered, Pending
  <2>3. CASE ask.tie # "modal"
    BY <1>1, <1>5, <2>3 DEF Inv, BusyIsAnswered, Pending
  <2> QED  BY <2>2, <2>3
<1> QED  BY <1>1, <1>6, <1>7, <1>8, <1>9, ServerRests, AgingRests, ListsRest DEF Inv, TabInv, ModalInv

LEMMA YesDiscardStep ==
  ASSUME Inv, YesDiscard
  PROVE  Inv'
<1>1. CASE Close(modal, calls, NoQuestion)
  BY <1>1, CloseStep DEF YesDiscard
<1>2. CASE ask' = NoQuestion /\ UNCHANGED <<modal, calls>>
  <2>1. AskInv'
    BY <1>2, NoQuestionIsTyped DEF AskInv
  <2>2. BusyIsAnswered'
    BY <1>2 DEF YesDiscard, Inv, BusyIsAnswered, Pending
  <2>3. CallsInv'
    BY <1>2, CallsRest, SameBudget DEF YesDiscard, Inv, TabInv
  <2> QED  BY <1>2, <2>1, <2>2, <2>3, ServerRests, AgingRests, ListsRest
           DEF YesDiscard, Inv, TabInv, ModalInv
<1> QED  BY <1>1, <1>2 DEF YesDiscard

LEMMA RerendersStep ==
  ASSUME Inv, Rerenders
  PROVE  Inv'
<1>1. ask' = [ask EXCEPT !.first = "confirm"] /\ UNCHANGED <<server, lists, page, modal, calls, aging, budget>>
  BY DEF Rerenders
<1>2. ask' \in Questions /\ ask'.q = ask.q /\ ask'.form = ask.form /\ ask'.tie = ask.tie
  BY <1>1 DEF Inv, AskInv, Questions
<1>3. AskInv'
  BY <1>1, <1>2 DEF Inv, AskInv
<1>4. BusyIsAnswered'
  BY <1>1, <1>2, BusyRests DEF Inv
<1>5. CallsInv'
  BY <1>1, CallsRest, SameBudget DEF Inv, TabInv
<1> QED  BY <1>1, <1>3, <1>4, <1>5, ServerRests, AgingRests, ListsRest DEF Inv, TabInv, ModalInv

LEMMA EscapesStep ==
  ASSUME Inv, Escapes
  PROVE  Inv'
<1>1. UNCHANGED <<server, lists, page, aging, budget>> /\ ask.q # "none"
  BY DEF Escapes
<1>2. modal \in Form /\ Proper(modal)
  BY DEF Inv, ModalInv
<1>3. CASE CloseSafely(Released, NoQuestion)
  BY <1>1, <1>3, ReleasedForm, CloseSafelyStep
<1>4. CASE CloseSafely(modal, ask)
  <2>1. modal.busy => Pending(modal.kind, {"modal"}) \/ modal.hung \/ (ask.q # "none" /\ Unanswered(modal))
    BY <1>1 DEF Inv, BusyIsAnswered, Unanswered
  <2> QED  BY <1>1, <1>2, <1>4, <2>1, CloseSafelyStep
<1>5. CASE ~(modal.kind \in Forms /\ modal.ids # modal.base) /\ CloseSafely(modal, NoQuestion)
  BY <1>1, <1>5, CloseStep DEF CloseSafely
<1>6. \/ CloseSafely(Released, NoQuestion)
      \/ CloseSafely(modal, ask)
      \/ ~Dirty /\ CloseSafely(modal, NoQuestion)
  BY DEF Escapes
<1> QED  BY <1>3, <1>4, <1>5, <1>6 DEF Dirty

LEMMA NavigateStep ==
  ASSUME Inv, NEW p \in {"roles", "users"}, Navigate(p)
  PROVE  Inv'
<1> DEFINE stays(c) == c.op = "drawer" /\ c.tie = "modal" /\ modal.kind = "drawer"
           g == [c \in calls |-> IF stays(c) \/ c.tie = "stray" THEN c ELSE [c EXCEPT !.tie = "away"]]
<1>1. /\ page' = p /\ UNCHANGED <<server, aging, budget>>
      /\ modal' = IF modal.kind \in Overlays THEN modal ELSE NoModal
      /\ ask' = IF ask.q = "none" THEN ask ELSE [ask EXCEPT !.tie = "away"]
      /\ lists' = IF p = "users" THEN Mounted(lists, "users")
                  ELSE [lists EXCEPT !["users"].phase = "idle", !["users"].resp = <<>>]
      /\ calls' = {g[c] : c \in {d \in calls : d.st # "done"}}
  BY DEF Navigate
<1>2. modal \in Form /\ Proper(modal) /\ NoModal \in Form /\ NoModal.kind = "none" /\ ~NoModal.busy
  BY DEF Inv, ModalInv, NoModal, Form
<1>3. ModalInv'
  BY <1>1, <1>2 DEF ModalInv, Proper
<1>4. AskInv'
  <2>1. CASE ask.q = "none"
    BY <1>1, <2>1 DEF Inv, AskInv, Proper
  <2>2. CASE ask.q # "none"
    <3>1. PICK b : b = [ask EXCEPT !.tie = "away"]
      OBVIOUS
    <3>2. b \in Questions /\ b.form = ask.form /\ b.q = ask.q /\ b.tie = "away"
      BY <3>1 DEF Questions, Inv, AskInv
    <3>3. ask' = b
      BY <1>1, <2>2, <3>1
    <3> QED  BY <3>2, <3>3 DEF Inv, AskInv
  <2> QED  BY <2>1, <2>2
<1>5. ListsInv'
  <2>1. "users" \in Key /\ ListsInv
    BY DEF Key, Inv
  <2>2. CASE p = "users"
    BY <1>1, <2>1, <2>2, MountedLists
  <2>3. CASE p # "users"
    <3>1. lists["users"] \in CachedIn(TableOf("users"))
      BY <2>1 DEF ListsInv
    <3>2. PICK l : l = [lists["users"] EXCEPT !.phase = "idle", !.resp = <<>>]
      OBVIOUS
    <3>3. l \in CachedIn(TableOf("users"))
      BY <2>1, <3>1, <3>2, CachedRecords, TablesAreTyped
    <3>4. lists' = [lists EXCEPT !["users"] = l]
      BY <1>1, <2>1, <2>3, <3>1, <3>2 DEF ListsInv, CachedIn
    <3> QED  BY <2>1, <3>3, <3>4, OneList
  <2> QED  BY <2>2, <2>3
<1>6. ASSUME NEW c \in calls
      PROVE  /\ g[c] \in CallRecord /\ Sound(g[c]) /\ g[c].id = c.id /\ g[c].op = c.op
             /\ g[c].tie = "modal" => g[c] = c /\ modal.kind = "drawer" /\ c.op = "drawer"
             /\ stays(c) => g[c] = c
  <2>1. c \in CallRecord /\ Sound(c)
    BY CallsAreTyped DEF Inv
  <2>2. CASE stays(c) \/ c.tie = "stray"
    BY <2>1, <2>2
  <2>3. CASE ~(stays(c) \/ c.tie = "stray")
    <3>1. PICK d : d = [c EXCEPT !.tie = "away"]
      OBVIOUS
    <3>2. /\ d \in CallRecord /\ d.id = c.id /\ d.op = c.op /\ d.on = c.on /\ d.ids = c.ids
          /\ d.todo = c.todo /\ d.st = c.st /\ d.tie = "away"
      BY <2>1, <3>1 DEF CallRecord
    <3>3. g[c] = d
      BY <2>3, <3>1
    <3>4. Sound(d)
      BY <2>1, <3>2 DEF Sound
    <3> QED  BY <2>3, <3>2, <3>3, <3>4
  <2> QED  BY <2>2, <2>3
<1>7. g \in [calls -> CallRecord] /\ calls' \subseteq {g[c] : c \in calls}
  BY <1>1, <1>6
<1>8. BusyIsAnswered'
  <2> SUFFICES ASSUME modal'.busy
               PROVE  modal'.hung \/ \E c \in calls' : c.op = modal'.kind /\ c.tie = "modal"
    BY DEF BusyIsAnswered, Pending
  <2>1. modal' = modal
    BY <1>1, <1>2
  <2>2. CASE modal.hung
    BY <2>1, <2>2
  <2>3. CASE ask.q = "reduce" /\ ask.tie = "modal"
    BY <1>1, <1>2, <2>1, <2>3 DEF Inv, AskInv, Overlays
  <2>4. CASE Pending(modal.kind, {"modal"})
    <3>1. PICK c \in calls : c.op = modal.kind /\ c.tie = "modal"
      BY <2>4 DEF Pending
    <3>2. c.op \in Op /\ c \in CallRecord /\ Sound(c)
      BY CallsAreTyped DEF Inv
    <3>3. modal.kind = "drawer"
      BY <1>1, <1>2, <2>1, <3>1, <3>2 DEF Overlays, Op
    <3>4. c.st # "done" /\ g[c] = c
      BY <1>6, <3>1, <3>2, <3>3 DEF Sound
    <3>5. c \in calls'
      BY <1>1, <3>4
    <3> QED  BY <2>1, <3>1, <3>5
  <2> QED  BY <2>1, <2>2, <2>3, <2>4 DEF Inv, BusyIsAnswered
<1>9. CallsInv'
  <2>1. \A c \in calls : g[c].tie = "modal" => Within(c.op, modal'.kind)
    <3> SUFFICES ASSUME NEW c \in calls, g[c].tie = "modal"
                 PROVE  Within(c.op, modal'.kind)
      OBVIOUS
    <3>1. modal.kind = "drawer" /\ c.op = "drawer"
      BY <1>6
    <3> QED  BY <1>1, <3>1 DEF Overlays, Within
  <2> HIDE DEF g, stays
  <2> QED  BY <1>1, <1>6, <1>7, <2>1, CallsMapped, SameBudget DEF Inv, TabInv
<1> QED  BY <1>1, <1>3, <1>4, <1>5, <1>8, <1>9, ServerRests, AgingRests DEF Inv, TabInv

LEMMA DialogsStep == Inv /\ Dialogs => Inv'
  BY OpensStep, LeavesStep, ChoicesStep, NoStep, YesReduceStep, YesDiscardStep, RerendersStep, EscapesStep,
     NavigateStep DEF Dialogs

-----------------------------------------------------------------------------
\* Every step.

LEMMA InitInv == Init => Inv
<1> SUFFICES ASSUME Init
             PROVE  Inv
  OBVIOUS
<1>1. /\ perms = [r \in Roles |-> IF r = Default THEN {} ELSE Perms]
      /\ budget \in Sessions /\ holds = [u \in budget.users |-> {}] /\ events = {}
      /\ page \in {"roles", "users"} /\ modal = NoModal /\ ask = NoQuestion /\ calls = {}
      /\ behind = [k \in Key |-> {}] /\ missed = [k \in Key |-> {}]
  BY DEF Init
<1>2. budget \in Budget /\ budget.users \in SUBSET Accounts
  BY <1>1, ConstantsAssumption DEF Budget
<1>3. perms \in Rolls
  <2>1. perms \in [Roles -> SUBSET Perms] /\ Roles \in SUBSET Roles
    BY <1>1
  <2> QED  BY <2>1, TableIntro DEF Rolls
<1>4. holds \in Holdings
  <2>1. holds \in [budget.users -> SUBSET Roles]
    BY <1>1
  <2> QED  BY <1>2, <2>1, TableIntro DEF Holdings
<1>5. ServerInv
  BY <1>1, <1>3, <1>4 DEF ServerInv
<1>6. ListsInv
  <2> DEFINE L == [k \in Key |-> IF k = "roles" THEN [Blank EXCEPT !.data = perms, !.fresh = TRUE] ELSE Blank]
  <2>1. \A k \in Key : Blank \in CachedIn(TableOf(k))
    BY TablesAreTyped DEF Blank, CachedIn
  <2>2. \A k \in Key : L[k] \in CachedIn(TableOf(k))
    <3>1. [Blank EXCEPT !.data = perms, !.fresh = TRUE] \in CachedIn(TableOf("roles"))
      <4>1. "roles" \in Key /\ perms \in TableOf("roles")
        BY <1>3 DEF Key, TableOf
      <4> QED  BY <2>1, <4>1, CachedRecords, TablesAreTyped
    <3> QED  BY <2>1, <3>1
  <2>3. lists = Mounted(L, PageList) /\ PageList \in Key
    BY DEF Init, PageList, Key
  <2>4. L = [k \in Key |-> L[k]]
    OBVIOUS
  <2> HIDE DEF L
  <2>5. CASE lists = L
    BY <2>2, <2>4, <2>5 DEF ListsInv
  <2>6. CASE lists = [L EXCEPT ![PageList] = Fetching(L[PageList])]
    <3>1. Fetching(L[PageList]) \in CachedIn(TableOf(PageList))
      BY <2>2, <2>3, CachedRecords, TablesAreTyped
    <3>2. lists = [k \in Key |-> IF k = PageList THEN Fetching(L[PageList]) ELSE L[k]]
      BY <2>4, <2>6
    <3> QED  BY <2>2, <3>1, <3>2 DEF ListsInv
  <2> QED  BY <2>3, <2>5, <2>6 DEF Mounted
<1>7. NoModal \in Form /\ NoModal.kind = "none" /\ ~NoModal.busy
  BY DEF NoModal, Form
<1>8. ModalInv /\ AskInv /\ BusyIsAnswered
  BY <1>1, <1>7, NoQuestionIsTyped DEF ModalInv, AskInv, Proper, BusyIsAnswered
<1>9. AgingInv /\ TabInv /\ CallsInv
  BY <1>1, <1>2 DEF AgingInv, TabInv, CallsInv
<1> QED  BY <1>5, <1>6, <1>8, <1>9 DEF Inv

LEMMA StutterStep == Inv /\ UNCHANGED vars => Inv'
<1> SUFFICES ASSUME Inv, UNCHANGED vars
             PROVE  Inv'
  OBVIOUS
<1>1. UNCHANGED <<server, lists, page, modal, ask, calls, aging, budget>>
  BY DEF vars, server, aging
<1>2. CallsInv' /\ BusyIsAnswered' /\ ModalInv' /\ AskInv'
  BY <1>1, AskRests DEF Inv, CallsInv, BusyIsAnswered, Pending, ModalInv
<1> QED  BY <1>1, <1>2, ServerRests, AgingRests, ListsRest DEF Inv, TabInv

LEMMA NextInv == Inv /\ [Next]_vars => Inv'
  BY FetchesStep, RequestsStep, ElsewhereStep, RowWritesStep, FormWritesStep, DialogsStep, StutterStep DEF Next

\* The invariant of the forms: the tables' foreign key, lists, dialogs, questions and
\* calls that fit each other, and BusyIsAnswered, which needs all of them.
THEOREM SpecInv == Spec => []Inv
  BY InitInv, NextInv, PTL DEF Spec

LEMMA InvIsTyped == Inv => TypeOK
<1> SUFFICES ASSUME Inv
             PROVE  TypeOK
  OBVIOUS
<1>1. /\ DOMAIN perms \subseteq Roles /\ DOMAIN holds \subseteq Accounts
      /\ \A r \in DOMAIN perms : perms[r] \subseteq Perms
      /\ \A u \in DOMAIN holds : holds[u] \subseteq DOMAIN perms
      /\ events \subseteq DOMAIN holds
  BY TableFacts DEF Inv, ServerInv, Rolls, Holdings
<1>2. \A k \in Key : lists[k].phase \in {"idle", "asked", "read"}
  BY DEF Inv, ListsInv, CachedIn
<1>3. \A u \in DOMAIN lists["users"].data : lists["users"].data[u] \subseteq Roles
  BY RowsAreTyped DEF Inv, Rows, Row, Key
<1>4. modal.ids \subseteq Items /\ modal.base \subseteq Items /\ ask.q \in {"none", "reduce", "discard"}
  BY DEF Inv, ModalInv, AskInv, Form, Questions
<1>5. \A c \in calls : c.op \in Op /\ c.todo # <<>>
  BY CallsAreTyped DEF Inv, Sound
<1>6. \A what \in {"edits", "others", "faults", "reads"} : budget[what] \in Nat
  BY DEF Inv, TabInv, Budget
<1> QED  BY <1>1, <1>2, <1>3, <1>4, <1>5, <1>6 DEF TypeOK, Inv, AgingInv, TabInv

\* Whatever the administrators do and whatever fails: the server's tables, the
\* cached lists, the dialog, the question and the calls are of their kinds, and no
\* account holds a role that is not there (the foreign key that role deletion
\* with a fallback has to respect).
THEOREM TypeCorrect == Spec => []TypeOK
  BY SpecInv, InvIsTyped, PTL

\* A form whose buttons are locked is unlocked by something that is still to come:
\* its question, its own request, or nothing at all only where an Escape replaced
\* its question.
THEOREM BusyFormsAreAnswered == Spec => []BusyIsAnswered
<1>1. Inv => BusyIsAnswered
  BY DEF Inv
<1> QED  BY <1>1, SpecInv, PTL

-----------------------------------------------------------------------------
\* Edits.

\* The step takes more of a form than one tick does, and what may explain that.
Loses == modal'.kind # modal.kind \/ Cardinality(Apart(modal'.ids, modal.ids)) > 1

Explained ==
    \/ page' # page \/ lists'[PageList].bad
    \/ \E c \in calls \ calls' : c.op = modal.kind
    \/ ask.q = "discard" /\ ask.form.kind = modal.kind /\ ask'.q = "none"

LEMMA SameForm ==
  ASSUME modal'.kind = modal.kind, modal'.ids = modal.ids
  PROVE  ~Loses
<1>1. Apart(modal'.ids, modal.ids) = {}
  BY DEF Apart
<1>2. Cardinality(Apart(modal'.ids, modal.ids)) = 0
  BY <1>1, FS_EmptySet
<1> QED  BY <1>2 DEF Loses

\* A tick changes one element.
LEMMA OneTick ==
  ASSUME Inv, NEW kind, NEW choices, Ticks(kind, choices)
  PROVE  ~Loses
<1>1. modal \in Form
  BY DEF Inv, ModalInv
<1>2. PICK x \in choices : modal' = [modal EXCEPT !.ids = Flip(modal.ids, x)]
  BY <1>1 DEF Ticks, Form
<1>3. modal'.kind = modal.kind /\ modal'.ids = Flip(modal.ids, x)
  BY <1>1, <1>2 DEF Form
<1>4. Apart(modal'.ids, modal.ids) = {x}
  BY <1>3 DEF Apart, Flip
<1>5. Cardinality({x}) = 1
  BY FS_Singleton
<1> QED  BY <1>3, <1>4, <1>5 DEF Loses

LEMMA ClosingKeeps ==
  ASSUME NEW m \in Form, NEW a, CloseSafely(m, a), m.kind = modal.kind, m.ids = modal.ids, m.base = modal.base,
         Dirty
  PROVE  ~Loses
<1>1. modal' = [m EXCEPT !.hung = m.hung \/ (a.q # "none" /\ Unanswered(m))]
  BY DEF CloseSafely, Dirty, Form
<1>2. modal'.kind = m.kind /\ modal'.ids = m.ids
  BY <1>1 DEF Form
<1> QED  BY <1>2, SameForm

LEMMA SucceedsKeeps ==
  ASSUME Inv, Dirty, NEW c \in calls, Succeeds(c), Loses
  PROVE  Explained
<1>1. c \in CallRecord /\ c.op \in Op /\ (c.tie = "modal" => Within(c.op, modal.kind))
  BY CallsAreTyped DEF Inv, CallsInv
<1>2. CASE c.tie # "away" /\ modal.kind \in Closes(c.op)
  <2>1. c.op = modal.kind /\ c.op \in FormOps
    BY <1>2, <1>1 DEF Closes, FormOps
  <2>2. calls' = Loosened(calls \ Batch(c), {"modal"}, "page")
    BY <1>2 DEF Succeeds
  <2>3. c \notin calls'
    <3> SUFFICES ASSUME NEW d \in calls \ Batch(c),
                        c = IF d.tie \in {"modal"} THEN [d EXCEPT !.tie = "page"] ELSE d
                 PROVE  FALSE
      BY <2>2 DEF Loosened
    <3>1. d \in CallRecord
      BY DEF Inv, CallsInv
    <3>2. c.id = d.id
      BY <3>1 DEF CallRecord
    <3>3. c = d
      BY <2>1, <3>2 DEF Inv, CallsInv
    <3>4. c \in Batch(c)
      BY DEF Batch, Succeeds
    <3> QED  BY <3>3, <3>4
  <2> QED  BY <2>1, <2>3 DEF Explained
<1>3. CASE ~(c.tie # "away" /\ modal.kind \in Closes(c.op))
  <2>1. ~(c.op = "drawer" /\ c.tie = "modal")
    BY <1>1 DEF Within, Dirty, Forms
  <2>2. modal' = modal
    BY <1>3, <2>1 DEF Succeeds
  <2> QED  BY <2>2, SameForm
<1> QED  BY <1>2, <1>3

LEMMA FetchesKeep ==
  ASSUME Inv, Dirty, Fetches, Loses
  PROVE  Explained
<1>1. PICK k \in Key : Reads(k) \/ Arrives(k) \/ FetchFails(k) \/ Refetches(k)
  BY DEF Fetches
<1>2. CASE UNCHANGED modal
  BY <1>2, SameForm
<1>3. CASE FetchFails(k) /\ k = PageList
  <2>1. lists' = [lists EXCEPT ![k] = [lists[k] EXCEPT !.phase = "idle", !.resp = <<>>, !.bad = TRUE]]
    <3>1. lists[k] \in CachedIn(TableOf(k))
      BY DEF Inv, ListsInv
    <3> QED  BY <1>3, <3>1 DEF FetchFails, Inv, ListsInv, CachedIn
  <2>2. lists[k] \in CachedIn(TableOf(k)) /\ k \in DOMAIN lists
    BY DEF Inv, ListsInv
  <2>3. lists'[k].bad
    BY <2>1, <2>2 DEF CachedIn
  <2> QED  BY <1>3, <2>3 DEF Explained
<1> QED  BY <1>1, <1>2, <1>3 DEF Reads, Arrives, FetchFails, Refetches

LEMMA RequestsKeep ==
  ASSUME Inv, Dirty, Requests, Loses
  PROVE  Explained
<1>1. PICK c \in calls : \/ Serve(c) \/ Refuses(c) \/ Breaks(c)
                         \/ Continues(c) \/ Succeeds(c) \/ Fails(c) \/ RefreshEnds(c) \/ Forgotten(c)
  BY DEF Requests
<1>2. CASE Succeeds(c)
  BY <1>2, SucceedsKeeps
<1>3. CASE Fails(c)
  <2>1. modal \in Form
    BY DEF Inv, ModalInv
  <2>2. modal'.kind = modal.kind /\ modal'.ids = modal.ids
    BY <1>3, <2>1 DEF Fails, Form
  <2> QED  BY <2>2, SameForm
<1>4. CASE UNCHANGED modal
  BY <1>4, SameForm
<1> QED  BY <1>1, <1>2, <1>3, <1>4 DEF Serve, Refuses, Breaks, Continues, RefreshEnds, Forgotten

LEMMA WritesKeep ==
  ASSUME Inv, RowWrites \/ FormWrites
  PROVE  ~Loses
<1>1. modal \in Form
  BY DEF Inv, ModalInv
<1>2. CASE UNCHANGED modal
  BY <1>2, SameForm
<1>3. CASE modal' = [modal EXCEPT !.busy = TRUE]
  <2>1. modal'.kind = modal.kind /\ modal'.ids = modal.ids
    BY <1>1, <1>3 DEF Form
  <2> QED  BY <2>1, SameForm
<1> QED  BY <1>2, <1>3 DEF RowWrites, Assign, Bulk, AssignSelected, ToggleMatrix, FormWrites, SaveEditor,
            AskReduce, SaveNewRole, SaveRoles, Remove, Register, SaveProfile, SendForm

LEMMA DialogsKeep ==
  ASSUME Inv, Dirty, Dialogs, Loses
  PROVE  Explained
<1>1. modal \in Form /\ modal.kind \in {"editor", "creator", "profile"} /\ modal.ids # modal.base
  BY DEF Inv, ModalInv, Dirty, Forms
<1>2. ~Opens
  BY <1>1 DEF Opens, OpenUsage, OpenEditor, OpenCreator, OpenDeletion, OpenDrawer, OpenRegistration,
              OpenProfile, Free
<1>3. CASE Leaves
  BY <1>1, <1>3, ClosingKeeps DEF Leaves
<1>4. CASE TicksPermission \/ TicksDrawer \/ TicksRegistration \/ EditsProfile
  BY <1>4, OneTick DEF TicksPermission, TicksDrawer, TicksRegistration, EditsProfile
<1>5. ~ChoosesFallback
  BY <1>1 DEF ChoosesFallback, Shown
<1>6. /\ Released \in Form /\ Released.kind = modal.kind /\ Released.ids = modal.ids
      /\ Released.base = modal.base
  BY <1>1 DEF Released, Form
<1>7. CASE No
  BY <1>6, <1>7, SameForm DEF No
<1>8. CASE YesReduce \/ Rerenders
  BY <1>8, SameForm DEF YesReduce, Rerenders
<1>9. CASE YesDiscard
  <2>1. CASE ask.tie # "away" /\ modal.kind = ask.form.kind
    <3>1. ask' = Orphaned(NoQuestion)
      BY <1>9, <2>1 DEF YesDiscard, Close
    <3>2. ask'.q = "none"
      BY <3>1, NoQuestionIsTyped DEF Orphaned
    <3> QED  BY <1>9, <2>1, <3>2 DEF YesDiscard, Explained
  <2>2. CASE ~(ask.tie # "away" /\ modal.kind = ask.form.kind)
    BY <1>9, <2>2, SameForm DEF YesDiscard
  <2> QED  BY <2>1, <2>2
<1>10. CASE Escapes
  <2>1. CASE CloseSafely(Released, NoQuestion)
    BY <1>6, <2>1, ClosingKeeps
  <2>2. CASE CloseSafely(modal, ask)
    BY <1>1, <2>2, ClosingKeeps
  <2> QED  BY <1>1, <1>10, <2>1, <2>2 DEF Escapes, Forms
<1>11. CASE \E p \in {"roles", "users"} : Navigate(p)
  BY <1>11 DEF Navigate, Explained
<1> QED  BY <1>2, <1>3, <1>4, <1>5, <1>7, <1>8, <1>9, <1>10, <1>11 DEF Dialogs

LEMMA StepKeeps ==
  ASSUME Inv, Dirty, [Next]_vars, Loses
  PROVE  Explained
<1>1. CASE Elsewhere \/ UNCHANGED vars
  <2>1. modal' = modal
    BY <1>1 DEF Elsewhere, OtherAssigns, AssignDefaultRole, OtherEdits, vars
  <2> QED  BY <2>1, SameForm
<1> QED  BY <1>1, FetchesKeep, RequestsKeep, WritesKeep, DialogsKeep DEF Next

\* What somebody ticked or typed in a form goes by an answer to the question about it,
\* a save of such a form, a list of the page that fails, or a change of page: by
\* nothing else, whichever answers and keys come together.
THEOREM EditsStay == Spec => EditsAreKept
<1>1. Inv /\ [Next]_vars =>
        [/\ Dirty
         /\ modal'.kind # modal.kind \/ Cardinality(Apart(modal'.ids, modal.ids)) > 1
         => \/ page' # page \/ lists'[PageList].bad
            \/ \E c \in calls \ calls' : c.op = modal.kind
            \/ ask.q = "discard" /\ ask.form.kind = modal.kind /\ ask'.q = "none"]_vars
  BY StepKeeps DEF Loses, Explained
<1> QED  BY <1>1, SpecInv, PTL DEF Spec, EditsAreKept

-----------------------------------------------------------------------------
\* What a list that counts as up to date does not know.

\* The call may have been served, and its answer will be heard: a click in the matrix
\* changed its row before that.
Due(c) == c.tie # "stray" /\ (c.op = "matrix" \/ (c.st \in {"ok", "lost"} /\ Len(c.todo) = 1))

\* Row x of list k will be asked for or told of: a call that may have changed it
\* refreshes the list when it succeeds, and tells of the row when it fails.
Pend(k, x) == \E c \in calls : Due(c) /\ k \in Changes(c.op) \cap Refreshes(c.op) /\ c.on = x

\* Every row says what the server has, or is one of X, or pends.
Faithful(k, rows, X) == \A x \in DOMAIN rows : x \in X \/ Pend(k, x) \/ rows[x] = Now(k, x)

\* A click in the matrix gave up the fetch of the roles, and asks for them again.
Flipped == \E c \in calls : c.op = "matrix"

Truthful(k) ==
    /\ lists[k].fresh => Faithful(k, lists[k].data, behind[k])
    /\ lists[k].phase = "read" => Faithful(k, lists[k].resp, missed[k])
    /\ Active(k) /\ lists[k].phase = "idle" /\ ~lists[k].bad => lists[k].fresh \/ (k = "roles" /\ Flipped)
    /\ k # "roles" => DOMAIN lists[k].data \subseteq DOMAIN holds /\ DOMAIN lists[k].resp \subseteq DOMAIN holds

CacheInv == \A k \in Key : Truthful(k)

\* What changes rows is the last request of a form.
Ends(c) == \A i \in 1 .. Len(c.todo) : c.todo[i] \in {"put", "patch", "post", "drop"} => i = Len(c.todo)

\* Only bulk writes have several calls and leave some behind.
MutationInv ==
    /\ \A c \in calls : Ends(c) /\ (c.tie = "stray" => c.op \in {"bulk", "directory"})
    /\ \A c, d \in calls : c.id = d.id => c.op = d.op /\ (c.op \notin {"bulk", "directory"} => c = d)

\* A form that opened on an up to date row started from what the server had, and a
\* call that was sent from one puts in its place what differs as the user wanted.
Honest(m) == m.old \/ m.seen = m.base
Means(c)  == c.old \/ Apart(c.seen, c.ids) \subseteq c.want
MeantInv  == Honest(modal) /\ Honest(ask.form) /\ \A c \in calls : Means(c)

TruthInv == CacheInv /\ MutationInv /\ MeantInv

-----------------------------------------------------------------------------
\* What a step does to a list that it does not read.

\* The rows that did not say so before still need not say what the server has, and
\* no other row is changed there.
Survives(k, rows, X, Y) ==
    /\ \A x \in DOMAIN rows : x \in X \/ Pend(k, x) => x \in Y \/ Pend(k, x)'
    /\ \A x \in DOMAIN rows : x \in Y \/ Pend(k, x)' \/ Now(k, x)' = Now(k, x)

LEMMA SurvivorsAreFaithful ==
  ASSUME NEW k, NEW rows, NEW X, NEW Y, Faithful(k, rows, X), Survives(k, rows, X, Y)
  PROVE  \A x \in DOMAIN rows : x \in Y \/ Pend(k, x)' \/ rows[x] = Now(k, x)'
  BY DEF Faithful, Survives

LEMMA ListAges ==
  ASSUME NEW k \in Key, Truthful(k), lists'[k].data = lists[k].data,
         lists'[k].resp \in {lists[k].resp, <<>>},
         lists'[k].fresh => lists[k].fresh /\ Survives(k, lists[k].data, behind[k], behind'[k]),
         lists'[k].phase = "read" => /\ lists[k].phase = "read" /\ lists'[k].resp = lists[k].resp
                                     /\ Survives(k, lists[k].resp, missed[k], missed'[k]),
         Active(k)' /\ lists'[k].phase = "idle" /\ ~lists'[k].bad =>
             lists'[k].fresh \/ (k = "roles" /\ Flipped'),
         k # "roles" => DOMAIN holds \subseteq DOMAIN holds'
  PROVE  Truthful(k)'
<1>1. lists'[k].fresh => Faithful(k, lists[k].data, behind[k])'
  <2>1. SUFFICES ASSUME lists'[k].fresh
                 PROVE  \A x \in DOMAIN lists[k].data : \/ x \in behind'[k] \/ Pend(k, x)'
                                                        \/ lists[k].data[x] = Now(k, x)'
    BY DEF Faithful
  <2>2. PICK rows : rows = lists[k].data
    OBVIOUS
  <2>3. PICK X : X = behind[k]
    OBVIOUS
  <2>4. PICK Y : Y = behind'[k]
    OBVIOUS
  <2>5. Faithful(k, rows, X) /\ Survives(k, rows, X, Y)
    BY <2>1, <2>2, <2>3, <2>4 DEF Truthful
  <2> QED  BY <2>2, <2>4, <2>5, SurvivorsAreFaithful
<1>2. lists'[k].phase = "read" => Faithful(k, lists[k].resp, missed[k])'
  <2>1. SUFFICES ASSUME lists'[k].phase = "read"
                 PROVE  \A x \in DOMAIN lists[k].resp : \/ x \in missed'[k] \/ Pend(k, x)'
                                                        \/ lists[k].resp[x] = Now(k, x)'
    BY DEF Faithful
  <2>2. PICK rows : rows = lists[k].resp
    OBVIOUS
  <2>3. PICK X : X = missed[k]
    OBVIOUS
  <2>4. PICK Y : Y = missed'[k]
    OBVIOUS
  <2>5. Faithful(k, rows, X) /\ Survives(k, rows, X, Y)
    BY <2>1, <2>2, <2>3, <2>4 DEF Truthful
  <2> QED  BY <2>2, <2>4, <2>5, SurvivorsAreFaithful
<1>3. k # "roles" => /\ DOMAIN lists'[k].data \subseteq DOMAIN holds'
                     /\ DOMAIN lists'[k].resp \subseteq DOMAIN holds'
  BY DEF Truthful
<1> QED  BY <1>1, <1>2, <1>3 DEF Truthful

\* The server, the lists' ages and the calls that pend stay.
LEMMA CalmRows ==
  ASSUME NEW k \in Key, NEW rows, NEW X, NEW Y, X \subseteq Y, UNCHANGED server,
         \A x : Pend(k, x) => Pend(k, x)'
  PROVE  Survives(k, rows, X, Y)
<1>1. \A x : Now(k, x)' = Now(k, x)
  BY DEF Now, Answer, server
<1> QED  BY <1>1 DEF Survives

LEMMA CalmLists ==
  ASSUME Inv, CacheInv, UNCHANGED <<server, aging>>, \A k, x : Pend(k, x) => Pend(k, x)', Flipped => Flipped',
         \A k \in Key : lists'[k] \in {lists[k], Fetching(lists[k])},
         \A k \in Key : Active(k)' /\ lists'[k] = lists[k] =>
             Active(k) \/ lists[k].fresh \/ lists[k].phase # "idle"
  PROVE  CacheInv'
<1> SUFFICES ASSUME NEW k \in Key
             PROVE  Truthful(k)'
  BY DEF CacheInv
<1>1. Truthful(k) /\ lists[k] \in CachedIn(TableOf(k))
  BY DEF CacheInv, Inv, ListsInv
<1>2. /\ Survives(k, lists[k].data, behind[k], behind'[k])
      /\ Survives(k, lists[k].resp, missed[k], missed'[k])
  BY CalmRows DEF aging
<1>3. holds' = holds
  BY DEF server
<1>4. CASE lists'[k] = lists[k]
  BY <1>1, <1>2, <1>3, <1>4, ListAges DEF Truthful
<1>5. CASE lists'[k] = Fetching(lists[k])
  <2>1. /\ lists'[k].data = lists[k].data /\ lists'[k].resp = <<>> /\ lists'[k].phase = "asked"
        /\ lists'[k].fresh = lists[k].fresh
    BY <1>1, <1>5 DEF Fetching, CachedIn
  <2> QED  BY <1>1, <1>2, <1>3, <2>1, ListAges
<1> QED  BY <1>4, <1>5

-----------------------------------------------------------------------------
\* What a step does to the calls.

LEMMA PendStays ==
  ASSUME MutationInv,
         \A c \in calls : Due(c) => \E e \in calls' : e.op = c.op /\ e.on = c.on /\ Due(e)
  PROVE  (\A k, x : Pend(k, x) => Pend(k, x)') /\ (Flipped => Flipped')
<1>1. \A c \in calls : c.op = "matrix" => Due(c)
  BY DEF MutationInv, Due
<1>2. Flipped => Flipped'
  BY <1>1 DEF Flipped
<1>3. ASSUME NEW k, NEW x, Pend(k, x)
      PROVE  Pend(k, x)'
  <2>1. PICK c \in calls : Due(c) /\ k \in Changes(c.op) \cap Refreshes(c.op) /\ c.on = x
    BY <1>3 DEF Pend
  <2>2. PICK e \in calls' : e.op = c.op /\ e.on = c.on /\ Due(e)
    BY <2>1
  <2> QED  BY <2>1, <2>2 DEF Pend
<1> QED  BY <1>2, <1>3

LEMMA SameCallsPend ==
  ASSUME calls \subseteq calls'
  PROVE  (\A k, x : Pend(k, x) => Pend(k, x)') /\ (Flipped => Flipped')
  BY DEF Pend, Flipped

Alike(c, e) ==
    /\ e.id = c.id /\ e.op = c.op /\ e.on = c.on /\ e.old = c.old /\ e.seen = c.seen
    /\ e.ids = c.ids /\ e.want = c.want

LEMMA CallsAlike ==
  ASSUME MutationInv, \A c \in calls : Means(c), NEW g, calls' \subseteq {g[c] : c \in calls},
         \A c \in calls : /\ Alike(c, g[c]) /\ Ends(g[c])
                          /\ g[c].tie = "stray" => c.tie = "stray" \/ c.op \in {"bulk", "directory"}
  PROVE  MutationInv' /\ \A c \in calls' : Means(c)
<1>1. \A e \in calls' : \E c \in calls : e = g[c]
  OBVIOUS
<1>2. ASSUME NEW e \in calls'
      PROVE  Ends(e) /\ (e.tie = "stray" => e.op \in {"bulk", "directory"}) /\ Means(e)
  <2>1. PICK c \in calls : e = g[c]
    BY <1>1
  <2> QED  BY <2>1 DEF Alike, Means, MutationInv
<1>3. ASSUME NEW e \in calls', NEW f \in calls', e.id = f.id
      PROVE  e.op = f.op /\ (e.op \notin {"bulk", "directory"} => e = f)
  <2>1. PICK c \in calls : e = g[c]
    BY <1>1
  <2>2. PICK d \in calls : f = g[d]
    BY <1>1
  <2>3. c.id = d.id /\ e.op = c.op /\ f.op = d.op
    BY <1>3, <2>1, <2>2 DEF Alike
  <2> QED  BY <2>1, <2>2, <2>3 DEF MutationInv
<1> QED  BY <1>2, <1>3 DEF MutationInv

\* Fewer calls.
LEMMA CallsDropped ==
  ASSUME MutationInv, \A c \in calls : Means(c), calls' \subseteq calls
  PROVE  MutationInv' /\ \A c \in calls' : Means(c)
  BY DEF MutationInv

LEMMA CallsAdded ==
  ASSUME Inv, MutationInv, \A c \in calls : Means(c), NEW C, calls' = calls \cup C,
         \A c \in C : c.id = budget.edits /\ c.tie # "stray" /\ Ends(c) /\ Means(c),
         \A c, d \in C : c.op = d.op /\ (c.op \notin {"bulk", "directory"} => c = d)
  PROVE  MutationInv' /\ \A c \in calls' : Means(c)
<1>1. ASSUME NEW e \in calls', NEW f \in calls', e.id = f.id
      PROVE  e.op = f.op /\ (e.op \notin {"bulk", "directory"} => e = f)
  <2>1. \A c \in calls : c.id \in Nat /\ c.id > budget.edits
    BY DEF Inv, CallsInv, CallRecord
  <2>2. budget.edits \in Nat
    BY DEF Inv, TabInv, Budget
  <2>3. (e \in calls /\ f \in calls) \/ (e \in C /\ f \in C)
    BY <1>1, <2>1, <2>2
  <2> QED  BY <1>1, <2>3 DEF MutationInv
<1> QED  BY <1>1 DEF MutationInv

\* One call goes on in another state.
LEMMA CallGoesOn ==
  ASSUME Inv, TruthInv, NEW c \in calls, NEW d, calls' = (calls \ {c}) \cup {d},
         Alike(c, d), d.tie = c.tie, Ends(d), Due(c) => Due(d)
  PROVE  /\ (\A k, x : Pend(k, x) => Pend(k, x)') /\ (Flipped => Flipped')
         /\ MutationInv' /\ \A e \in calls' : Means(e)
<1>1. \A e \in calls : Due(e) => \E f \in calls' : f.op = e.op /\ f.on = e.on /\ Due(f)
  BY DEF Alike
<1>2. (\A k, x : Pend(k, x) => Pend(k, x)') /\ (Flipped => Flipped')
  BY <1>1, PendStays DEF TruthInv
<1> DEFINE g == [e \in calls |-> IF e = c THEN d ELSE e]
<1>3. calls' \subseteq {g[e] : e \in calls}
  OBVIOUS
<1>4. \A e \in calls : /\ Alike(e, g[e]) /\ Ends(g[e])
                       /\ g[e].tie = "stray" => e.tie = "stray" \/ e.op \in {"bulk", "directory"}
  BY DEF Alike, TruthInv, MutationInv
<1> HIDE DEF g
<1>5. MutationInv' /\ \A e \in calls' : Means(e)
  BY <1>3, <1>4, CallsAlike DEF TruthInv, MeantInv
<1> QED  BY <1>2, <1>5

LEMMA CallsLoosened ==
  ASSUME Inv, TruthInv, NEW C \in SUBSET calls, calls' = Loosened(C, {"modal"}, "page")
  PROVE  /\ MutationInv' /\ \A e \in calls' : Means(e)
         /\ \A c \in C : Due(c) => \E e \in calls' : e.op = c.op /\ e.on = c.on /\ Due(e)
<1> DEFINE g == [c \in calls |-> IF c.tie \in {"modal"} THEN [c EXCEPT !.tie = "page"] ELSE c]
<1>1. \A c \in calls : /\ Alike(c, g[c]) /\ Ends(g[c]) /\ (g[c].tie = "stray" => c.tie = "stray")
                       /\ Due(c) => Due(g[c])
  <2> SUFFICES ASSUME NEW c \in calls
               PROVE  /\ Alike(c, g[c]) /\ Ends(g[c]) /\ (g[c].tie = "stray" => c.tie = "stray")
                      /\ Due(c) => Due(g[c])
    OBVIOUS
  <2>1. c \in CallRecord /\ Ends(c)
    BY DEF Inv, CallsInv, TruthInv, MutationInv
  <2>2. CASE c.tie \in {"modal"}
    <3>1. PICK d : d = [c EXCEPT !.tie = "page"]
      OBVIOUS
    <3>2. Alike(c, d) /\ d.tie = "page" /\ d.st = c.st /\ d.todo = c.todo
      BY <2>1, <3>1 DEF CallRecord, Alike
    <3>3. g[c] = d
      BY <2>2, <3>1
    <3>4. Ends(d) /\ (Due(c) => Due(d)) /\ d.tie # "stray"
      BY <2>1, <3>2 DEF Ends, Due, Alike
    <3> QED  BY <3>2, <3>3, <3>4
  <2>3. CASE c.tie \notin {"modal"}
    BY <2>1, <2>3 DEF Alike
  <2> QED  BY <2>2, <2>3
<1>2. calls' = {g[c] : c \in C}
  BY DEF Loosened
<1> HIDE DEF g
<1>3. MutationInv' /\ \A e \in calls' : Means(e)
  BY <1>1, <1>2, CallsAlike DEF TruthInv, MeantInv
<1> QED  BY <1>1, <1>2, <1>3 DEF Alike

-----------------------------------------------------------------------------
\* Fetches and the server.

LEMMA MeantRests ==
  ASSUME MeantInv, UNCHANGED <<modal, ask>>, \A c \in calls' : Means(c)
  PROVE  MeantInv'
  BY DEF MeantInv, Honest

LEMMA UnchangedCalls ==
  ASSUME TruthInv, UNCHANGED calls
  PROVE  /\ (\A k, x : Pend(k, x) => Pend(k, x)') /\ (Flipped => Flipped')
         /\ MutationInv' /\ \A c \in calls' : Means(c)
<1>1. (\A k, x : Pend(k, x) => Pend(k, x)') /\ (Flipped => Flipped')
  BY SameCallsPend
<1> QED  BY <1>1 DEF TruthInv, MutationInv, MeantInv

LEMMA TrueReads ==
  ASSUME Inv, TruthInv, NEW k \in Key, Reads(k)
  PROVE  CacheInv'
<1>1. lists' = [lists EXCEPT ![k] = [lists[k] EXCEPT !.phase = "read", !.resp = Answer(k)]]
      /\ missed' = [missed EXCEPT ![k] = {}]
      /\ UNCHANGED <<server, page, modal, ask, calls, behind, budget>>
  BY DEF Reads, Inv, ListsInv
<1>2. \A j \in Key : lists[j] \in CachedIn(TableOf(j)) /\ Truthful(j) /\ j \in DOMAIN missed
  BY DEF Inv, ListsInv, TruthInv, CacheInv, AgingInv
<1>3. (\A j, x : Pend(j, x) => Pend(j, x)') /\ (Flipped => Flipped')
  BY <1>1, UnchangedCalls
<1> SUFFICES ASSUME NEW j \in Key
             PROVE  Truthful(j)'
  BY DEF CacheInv
<1>4. CASE j = k
  <2>1. PICK l : l = [lists[k] EXCEPT !.phase = "read", !.resp = Answer(k)]
    OBVIOUS
  <2>2. /\ l.data = lists[k].data /\ l.resp = Answer(k) /\ l.phase = "read" /\ l.fresh = lists[k].fresh
    BY <1>2, <2>1 DEF CachedIn
  <2>3. lists'[k] = l /\ missed'[k] = {} /\ behind'[k] = behind[k]
    BY <1>1, <1>2, <2>1 DEF Inv, ListsInv
  <2>4. \A x \in DOMAIN Answer(k) : Answer(k)[x] = Now(k, x)'
    BY <1>1 DEF Now, Answer, server
  <2>5. l.fresh => \A x \in DOMAIN l.data : x \in behind[k] \/ Pend(k, x)' \/ l.data[x] = Now(k, x)'
    <3> SUFFICES ASSUME l.fresh, NEW x \in DOMAIN l.data
                 PROVE  x \in behind[k] \/ Pend(k, x)' \/ l.data[x] = Now(k, x)'
      OBVIOUS
    <3>1. Now(k, x)' = Now(k, x)
      BY <1>1 DEF Now, Answer, server
    <3>2. x \in behind[k] \/ Pend(k, x) \/ l.data[x] = Now(k, x)
      BY <1>2, <2>2 DEF Truthful, Faithful
    <3> QED  BY <1>3, <3>1, <3>2
  <2>6. k # "roles" => DOMAIN l.data \subseteq DOMAIN holds' /\ DOMAIN l.resp \subseteq DOMAIN holds'
    BY <1>1, <1>2, <2>2 DEF Truthful, Answer, server
  <2> QED  BY <1>4, <2>2, <2>3, <2>4, <2>5, <2>6 DEF Truthful, Faithful
<1>5. CASE j # k
  <2>1. lists'[j] = lists[j] /\ missed'[j] = missed[j] /\ behind'[j] = behind[j] /\ (Active(j)' <=> Active(j))
    BY <1>1, <1>2, <1>5 DEF Inv, ListsInv, AgingInv, Active
  <2>2. /\ Survives(j, lists[j].data, behind[j], behind'[j])
        /\ Survives(j, lists[j].resp, missed[j], missed'[j])
    BY <1>1, <1>3, <2>1, CalmRows
  <2>3. holds' = holds
    BY <1>1 DEF server
  <2> QED  BY <1>2, <1>3, <2>1, <2>2, <2>3, ListAges DEF Truthful
<1> QED  BY <1>4, <1>5

LEMMA TrueArrives ==
  ASSUME Inv, TruthInv, NEW k \in Key, Arrives(k)
  PROVE  CacheInv'
<1>1. /\ lists' = [lists EXCEPT ![k] = [Blank EXCEPT !.data = lists[k].resp, !.fresh = TRUE]]
      /\ missed' = [missed EXCEPT ![k] = {}] /\ behind' = [behind EXCEPT ![k] = missed[k]]
      /\ UNCHANGED <<server, page, modal, ask, calls, budget>> /\ lists[k].phase = "read"
  BY DEF Arrives
<1>2. \A j \in Key : lists[j] \in CachedIn(TableOf(j)) /\ Truthful(j) /\ j \in DOMAIN missed /\ j \in DOMAIN behind
  BY DEF Inv, ListsInv, TruthInv, CacheInv, AgingInv
<1>3. (\A j, x : Pend(j, x) => Pend(j, x)') /\ (Flipped => Flipped')
  BY <1>1, UnchangedCalls
<1> SUFFICES ASSUME NEW j \in Key
             PROVE  Truthful(j)'
  BY DEF CacheInv
<1>4. CASE j = k
  <2>1. PICK l : l = [Blank EXCEPT !.data = lists[k].resp, !.fresh = TRUE]
    OBVIOUS
  <2>2. l.data = lists[k].resp /\ l.resp = <<>> /\ l.phase = "idle" /\ l.fresh
    BY <2>1 DEF Blank
  <2>3. lists'[k] = l /\ behind'[k] = missed[k]
    BY <1>1, <1>2, <2>1 DEF Inv, ListsInv
  <2>4. \A x \in DOMAIN l.data : x \in missed[k] \/ Pend(k, x)' \/ l.data[x] = Now(k, x)'
    <3>1. \A x : Now(k, x)' = Now(k, x)
      BY <1>1 DEF Now, Answer, server
    <3> QED  BY <1>1, <1>2, <1>3, <2>2, <3>1 DEF Truthful, Faithful
  <2>5. k # "roles" => DOMAIN l.data \subseteq DOMAIN holds' /\ DOMAIN l.resp \subseteq DOMAIN holds'
    <3>1. DOMAIN <<>> = {}
      BY EmptyTable
    <3> QED  BY <1>1, <1>2, <2>2, <3>1 DEF Truthful, server
  <2> QED  BY <1>4, <2>2, <2>3, <2>4, <2>5 DEF Truthful, Faithful
<1>5. CASE j # k
  <2>1. lists'[j] = lists[j] /\ missed'[j] = missed[j] /\ behind'[j] = behind[j] /\ (Active(j)' <=> Active(j))
    BY <1>1, <1>2, <1>5 DEF Inv, ListsInv, AgingInv, Active
  <2>2. /\ Survives(j, lists[j].data, behind[j], behind'[j])
        /\ Survives(j, lists[j].resp, missed[j], missed'[j])
    BY <1>1, <1>3, <2>1, CalmRows
  <2>3. holds' = holds
    BY <1>1 DEF server
  <2> QED  BY <1>2, <1>3, <2>1, <2>2, <2>3, ListAges DEF Truthful
<1> QED  BY <1>4, <1>5

LEMMA TrueFetchFails ==
  ASSUME Inv, TruthInv, NEW k \in Key, FetchFails(k)
  PROVE  TruthInv'
<1>1. /\ lists' = [lists EXCEPT ![k] = [lists[k] EXCEPT !.phase = "idle", !.resp = <<>>, !.bad = TRUE]]
      /\ UNCHANGED <<server, page, aging>>
  <2>1. lists[k] \in CachedIn(TableOf(k))
    BY DEF Inv, ListsInv
  <2> QED  BY <2>1 DEF FetchFails, Inv, ListsInv, CachedIn
<1>2. \A j \in Key : lists[j] \in CachedIn(TableOf(j)) /\ Truthful(j)
  BY DEF Inv, ListsInv, TruthInv, CacheInv
<1>3. /\ modal'.kind = modal.kind /\ Honest(modal') /\ ask'.form = ask.form
      /\ (\A j, x : Pend(j, x) => Pend(j, x)') /\ (Flipped => Flipped')
      /\ MutationInv' /\ \A c \in calls' : Means(c)
  <2>1. CASE UNCHANGED <<modal, calls, ask>>
    BY <2>1, UnchangedCalls DEF TruthInv, MeantInv
  <2>2. CASE /\ modal' = [NoModal EXCEPT !.kind = modal.kind, !.on = modal.on, !.base = modal.base,
                                         !.ids = modal.base, !.old = modal.old, !.seen = modal.seen]
             /\ calls' = Loosened(calls, {"modal"}, "page")
             /\ ask' = IF ask.tie = "modal" /\ ask.q # "none" THEN [ask EXCEPT !.tie = "page"] ELSE ask
    <3>1. modal' = [kind |-> modal.kind, on |-> modal.on, base |-> modal.base, ids |-> modal.base,
                    old |-> modal.old, seen |-> modal.seen, busy |-> FALSE, hung |-> FALSE]
      BY <2>2 DEF NoModal
    <3>2. modal'.kind = modal.kind /\ Honest(modal')
      BY <3>1 DEF TruthInv, MeantInv, Honest
    <3>3. ask'.form = ask.form
      BY <2>2 DEF Inv, AskInv, Questions
    <3>4. MutationInv' /\ \A c \in calls' : Means(c)
      BY <2>2, CallsLoosened
    <3>5. (\A j, x : Pend(j, x) => Pend(j, x)') /\ (Flipped => Flipped')
      BY <2>2, CallsLoosened, PendStays DEF TruthInv
    <3> QED  BY <3>2, <3>3, <3>4, <3>5
  <2> QED  BY <2>1, <2>2 DEF FetchFails
<1>4. MeantInv'
  BY <1>3 DEF TruthInv, MeantInv
<1>5. ASSUME NEW j \in Key
      PROVE  Truthful(j)'
  <2>1. behind'[j] = behind[j] /\ missed'[j] = missed[j] /\ holds' = holds /\ (Active(j)' <=> Active(j))
    BY <1>1, <1>3 DEF aging, server, Active
  <2>2. /\ Survives(j, lists[j].data, behind[j], behind'[j])
        /\ Survives(j, lists[j].resp, missed[j], missed'[j])
    BY <1>1, <1>3, <2>1, CalmRows
  <2>3. CASE j = k
    <3>1. /\ lists'[j].data = lists[j].data /\ lists'[j].resp = <<>> /\ lists'[j].phase = "idle"
          /\ lists'[j].fresh = lists[j].fresh /\ lists'[j].bad
      BY <1>1, <1>2, <2>3 DEF Inv, ListsInv, CachedIn
    <3> QED  BY <1>2, <2>1, <2>2, <3>1, ListAges
  <2>4. CASE j # k
    <3>1. lists'[j] = lists[j]
      BY <1>1, <2>4 DEF Inv, ListsInv
    <3> QED  BY <1>2, <1>3, <2>1, <2>2, <3>1, ListAges DEF Truthful
  <2> QED  BY <2>3, <2>4
<1> QED  BY <1>3, <1>4, <1>5 DEF TruthInv, CacheInv

LEMMA TrueFetches ==
  ASSUME Inv, TruthInv, Fetches
  PROVE  TruthInv'
<1>1. PICK k \in Key : Reads(k) \/ Arrives(k) \/ FetchFails(k) \/ Refetches(k)
  BY DEF Fetches
<1>2. CASE FetchFails(k)
  BY <1>2, TrueFetchFails
<1>3. CASE Reads(k) \/ Arrives(k) \/ Refetches(k)
  <2>1. UNCHANGED <<modal, ask, calls>>
    BY <1>3 DEF Reads, Arrives, Refetches
  <2>2. MutationInv' /\ MeantInv'
    BY <2>1, UnchangedCalls, MeantRests DEF TruthInv
  <2>3. CacheInv'
    <3>1. CASE Refetches(k)
      <4>1. lists' = [lists EXCEPT ![k] = Fetching(lists[k])] /\ UNCHANGED <<server, aging, page, modal>>
        BY <3>1 DEF Refetches, Inv, ListsInv
      <4>2. \A j \in Key : lists'[j] \in {lists[j], Fetching(lists[j])}
        BY <4>1 DEF Inv, ListsInv
      <4>3. \A j \in Key : Active(j)' => Active(j)
        BY <4>1 DEF Active
      <4>4. (\A j, x : Pend(j, x) => Pend(j, x)') /\ (Flipped => Flipped')
        BY <2>1, UnchangedCalls
      <4> QED  BY <4>1, <4>2, <4>3, <4>4, CalmLists DEF TruthInv
    <3> QED  BY <1>3, <3>1, TrueReads, TrueArrives
  <2> QED  BY <2>2, <2>3 DEF TruthInv
<1> QED  BY <1>1, <1>2, <1>3

\* The server changes, and the rows it changes pend or the lists are not told of them.
LEMMA TrueChange ==
  ASSUME Inv, TruthInv, UNCHANGED <<lists, page, modal>>, (\A k, x : Pend(k, x) => Pend(k, x)'),
         Flipped => Flipped', DOMAIN holds \subseteq DOMAIN holds',
         \A k \in Key : behind[k] \subseteq behind'[k] /\ missed[k] \subseteq missed'[k],
         \A k \in Key : \A x \in DOMAIN lists[k].data \cup DOMAIN lists[k].resp :
             \/ Now(k, x)' = Now(k, x)
             \/ Pend(k, x)'
             \/ x \in behind'[k] /\ (lists[k].phase = "read" => x \in missed'[k])
  PROVE  CacheInv'
<1> SUFFICES ASSUME NEW k \in Key
             PROVE  Truthful(k)'
  BY DEF CacheInv
<1>1. Truthful(k) /\ (Active(k)' <=> Active(k)) /\ lists' = lists
  BY DEF TruthInv, CacheInv, Active
<1>2. Survives(k, lists[k].data, behind[k], behind'[k])
  BY DEF Survives
<1>3. lists[k].phase = "read" => Survives(k, lists[k].resp, missed[k], missed'[k])
  BY DEF Survives
<1> QED  BY <1>1, <1>2, <1>3, ListAges DEF Truthful

\* The lists of K are not told of the rows X.
LEMMA UntoldRows ==
  ASSUME Inv, NEW K, NEW X, Untold(K, X)
  PROVE  /\ \A k \in Key : behind[k] \subseteq behind'[k] /\ missed[k] \subseteq missed'[k]
         /\ \A k \in Key \cap K : \A x \in X : x \in behind'[k] /\ (lists[k].phase = "read" => x \in missed'[k])
  BY DEF Untold

LEMMA TrueElsewhere ==
  ASSUME Inv, TruthInv, Elsewhere
  PROVE  TruthInv'
<1>1. UNCHANGED <<lists, page, modal, ask, calls>>
  BY DEF Elsewhere, AssignDefaultRole, OtherAssigns, OtherEdits
<1>2. /\ (\A k, x : Pend(k, x) => Pend(k, x)') /\ (Flipped => Flipped')
      /\ MutationInv' /\ MeantInv'
  BY <1>1, UnchangedCalls, MeantRests DEF TruthInv
<1>3. ASSUME NEW K, NEW X, Untold(K, X), DOMAIN holds \subseteq DOMAIN holds',
             \A k \in Key : \A x : Now(k, x)' = Now(k, x) \/ (k \in K /\ x \in X)
      PROVE  CacheInv'
  <2>1. /\ \A k \in Key : behind[k] \subseteq behind'[k] /\ missed[k] \subseteq missed'[k]
        /\ \A k \in Key \cap K : \A x \in X : x \in behind'[k] /\ (lists[k].phase = "read" => x \in missed'[k])
    BY <1>3, UntoldRows
  <2> QED  BY <1>1, <1>2, <1>3, <2>1, TrueChange
<1>4. CacheInv'
  <2>1. CASE \E u \in Accounts : u \in DOMAIN holds /\ OtherAssigns(u)
    <3>1. PICK u \in Accounts : OtherAssigns(u)
      BY <2>1
    <3>2. PICK S : holds' = [holds EXCEPT ![u] = S] /\ perms' = perms /\ Untold({"usage", "users"}, {u})
      BY <3>1 DEF OtherAssigns
    <3>3. holds \in [DOMAIN holds -> SUBSET Roles]
      BY TableFacts DEF Inv, ServerInv, Holdings
    <3>4. \A x \in DOMAIN holds : x # u => holds'[x] = holds[x]
      BY <3>2, <3>3
    <3>5. DOMAIN holds' = DOMAIN holds
      BY <3>2, <3>3
    <3>6. \A k \in Key : \A x : Now(k, x)' = Now(k, x) \/ (k \in {"usage", "users"} /\ x \in {u})
      BY <3>2, <3>4, <3>5 DEF Now, Answer, Key
    <3> QED  BY <1>3, <3>2, <3>5, <3>6
  <2>2. CASE \E u \in Accounts : AssignDefaultRole(u)
    <3>1. PICK u \in Accounts : AssignDefaultRole(u)
      BY <2>2
    <3>2. PICK S : holds' = [holds EXCEPT ![u] = S]
      BY <3>1 DEF AssignDefaultRole
    <3>3. /\ perms' = [r \in DOMAIN perms \cup {Default} |-> IF r \in DOMAIN perms THEN perms[r] ELSE {}]
          /\ Untold(Key, {u} \cup ({Default} \ DOMAIN perms))
      BY <3>1 DEF AssignDefaultRole
    <3>4. holds \in [DOMAIN holds -> SUBSET Roles]
      BY TableFacts DEF Inv, ServerInv, Holdings
    <3>5. DOMAIN holds' = DOMAIN holds /\ \A x \in DOMAIN holds : x # u => holds'[x] = holds[x]
      BY <3>2, <3>4
    <3>6. DOMAIN perms' = DOMAIN perms \cup {Default} /\ \A x \in DOMAIN perms : perms'[x] = perms[x]
      BY <3>3
    <3>7. \A k \in Key : \A x : Now(k, x)' = Now(k, x) \/ (k \in Key /\ x \in {u} \cup ({Default} \ DOMAIN perms))
      BY <3>5, <3>6 DEF Now, Answer
    <3> QED  BY <1>3, <3>3, <3>5, <3>7
  <2>3. CASE \E r \in Roles : r \in DOMAIN perms /\ OtherEdits(r)
    <3>1. PICK r \in Roles : OtherEdits(r)
      BY <2>3
    <3>2. PICK S : perms' = [perms EXCEPT ![r] = S] /\ holds' = holds /\ Untold({"roles"}, {r})
      BY <3>1 DEF OtherEdits
    <3>3. perms \in [DOMAIN perms -> SUBSET Perms]
      BY TableFacts DEF Inv, ServerInv, Rolls
    <3>4. DOMAIN perms' = DOMAIN perms /\ \A x \in DOMAIN perms : x # r => perms'[x] = perms[x]
      BY <3>2, <3>3
    <3>5. \A k \in Key : \A x : Now(k, x)' = Now(k, x) \/ (k \in {"roles"} /\ x \in {r})
      BY <3>2, <3>4 DEF Now, Answer
    <3> QED  BY <1>3, <3>2, <3>5
  <2> QED  BY <2>1, <2>2, <2>3 DEF Elsewhere
<1> QED  BY <1>2, <1>4 DEF TruthInv

-----------------------------------------------------------------------------
\* Requests.

LEMMA CalmRequest ==
  ASSUME Inv, TruthInv, UNCHANGED <<server, lists, page, modal, ask, aging>>,
         (\A k, x : Pend(k, x) => Pend(k, x)') /\ (Flipped => Flipped'),
         MutationInv' /\ \A e \in calls' : Means(e)
  PROVE  TruthInv'
<1>1. MeantInv'
  BY MeantRests DEF TruthInv
<1>2. \A k \in Key : lists'[k] \in {lists[k], Fetching(lists[k])} /\ (Active(k)' => Active(k))
  BY DEF Active
<1>3. CacheInv'
  BY <1>2, CalmLists DEF TruthInv
<1> QED  BY <1>1, <1>3 DEF TruthInv

LEMMA TrueServed ==
  ASSUME Inv, TruthInv, NEW c \in calls, NEW st \in {"sent", "ok", "bad", "lost"}, Served(c, st),
         c.st = "sent" \/ st = "lost"
  PROVE  /\ (\A k, x : Pend(k, x) => Pend(k, x)') /\ (Flipped => Flipped')
         /\ MutationInv' /\ \A e \in calls' : Means(e)
         /\ c.tie # "stray" /\ Len(c.todo) = 1 /\ st = "ok" =>
                \A k \in Changes(c.op) \cap Refreshes(c.op) : Pend(k, c.on)'
<1>1. c \in CallRecord /\ Ends(c)
  BY CallsAreTyped DEF Inv, TruthInv, MutationInv
<1>2. PICK d : d = [c EXCEPT !.st = st]
  OBVIOUS
<1>3. Alike(c, d) /\ d.tie = c.tie /\ d.todo = c.todo /\ d.st = st
  BY <1>1, <1>2 DEF CallRecord, Alike
<1>4. calls' = (calls \ {c}) \cup {d}
  BY <1>2 DEF Served
<1>5. Ends(d) /\ (Due(c) => Due(d))
  BY <1>1, <1>3 DEF Ends, Due, Alike
<1>6. c.tie # "stray" /\ Len(c.todo) = 1 /\ st = "ok" =>
          \A k \in Changes(c.op) \cap Refreshes(c.op) : Pend(k, c.on)'
  BY <1>3, <1>4 DEF Pend, Due, Alike
<1> QED  BY <1>3, <1>4, <1>5, <1>6, CallGoesOn

LEMMA LastRequest ==
  ASSUME Inv, TruthInv, NEW c \in calls, Head(c.todo) \in {"put", "patch", "post", "drop"}
  PROVE  Len(c.todo) = 1
<1>1. c.todo \in Seq(What) /\ c.todo # <<>> /\ Ends(c)
  BY CallsAreTyped DEF Inv, Sound, TruthInv, MutationInv
<1>2. 1 \in 1 .. Len(c.todo) /\ c.todo[1] = Head(c.todo)
  BY <1>1
<1> QED  BY <1>1, <1>2 DEF Ends

LEMMA TrueServe ==
  ASSUME Inv, TruthInv, NEW c \in calls, Serve(c)
  PROVE  TruthInv'
<1>1. UNCHANGED <<lists, page, modal, ask, budget>> /\ Served(c, "ok") /\ c.st = "sent"
  BY DEF Serve, SetUserRoles, UpdateRole, CreateRole, DeleteRole, RegisterAccount, Plain, Asks
<1>2. /\ (\A k, x : Pend(k, x) => Pend(k, x)') /\ (Flipped => Flipped')
      /\ MutationInv' /\ \A e \in calls' : Means(e)
      /\ c.tie # "stray" /\ Len(c.todo) = 1 =>
             \A k \in Changes(c.op) \cap Refreshes(c.op) : Pend(k, c.on)'
  BY <1>1, TrueServed
<1>3. MeantInv'
  BY <1>1, <1>2, MeantRests DEF TruthInv
<1>4. ASSUME NEW K, NEW X, Untold(K, X), DOMAIN holds \subseteq DOMAIN holds',
             \A k \in Key : \A x : \/ Now(k, x)' = Now(k, x)
                                   \/ k \in K /\ x \in X
                                   \/ Pend(k, x)'
                                   \/ x \notin DOMAIN lists[k].data \cup DOMAIN lists[k].resp
      PROVE  TruthInv'
  <2>1. /\ \A k \in Key : behind[k] \subseteq behind'[k] /\ missed[k] \subseteq missed'[k]
        /\ \A k \in Key \cap K : \A x \in X : x \in behind'[k] /\ (lists[k].phase = "read" => x \in missed'[k])
    BY <1>4, UntoldRows
  <2>2. CacheInv'
    BY <1>1, <1>2, <1>4, <2>1, TrueChange
  <2> QED  BY <1>2, <1>3, <2>2 DEF TruthInv
<1>5. ASSUME UNCHANGED aging, holds' = holds,
             \A k \in Key : \A x : Now(k, x)' = Now(k, x) \/ Pend(k, x)'
      PROVE  TruthInv'
  <2>1. \A k \in Key : behind[k] \subseteq behind'[k] /\ missed[k] \subseteq missed'[k]
    BY <1>5 DEF aging
  <2>2. CacheInv'
    BY <1>1, <1>2, <1>5, <2>1, TrueChange
  <2> QED  BY <1>2, <1>3, <2>2 DEF TruthInv
<1>6. c.op \in Op /\ (c.tie = "stray" => c.op \in {"bulk", "directory"})
  BY CallsAreTyped DEF Inv, TruthInv, MutationInv
<1>7. /\ perms \in [DOMAIN perms -> SUBSET Perms] /\ holds \in [DOMAIN holds -> SUBSET Roles]
      /\ \A k \in {"usage", "users"} : DOMAIN lists[k].data \cup DOMAIN lists[k].resp \subseteq DOMAIN holds
  BY TableFacts DEF Inv, ServerInv, Rolls, Holdings, TruthInv, CacheInv, Truthful, Key
<1>8. CASE SetUserRoles(c)
  <2>1. /\ holds' = [holds EXCEPT ![c.on] = c.ids] /\ Untold(Unheard(c), {c.on}) /\ perms' = perms
        /\ Head(c.todo) = "put"
    BY <1>8 DEF SetUserRoles, Asks
  <2>2. c.op \in PutOps \cup {"register"} /\ Len(c.todo) = 1
    BY <2>1, AskedIsSound, LastRequest DEF Inv
  <2>3. DOMAIN holds' = DOMAIN holds /\ \A x \in DOMAIN holds : x # c.on => holds'[x] = holds[x]
    BY <1>7, <2>1
  <2>4. \A k \in Key : \A x : Now(k, x)' = Now(k, x) \/ (k \in {"usage", "users"} /\ x = c.on)
    BY <2>1, <2>3 DEF Now, Answer, Key
  <2>5. {"usage", "users"} \subseteq Unheard(c) \cup
            (IF c.tie = "stray" THEN {} ELSE Changes(c.op) \cap Refreshes(c.op))
    BY <2>2 DEF Unheard, Changes, Refreshes, PutOps
  <2>6. \A k \in {"usage", "users"} : k \in Unheard(c) \/ Pend(k, c.on)'
    BY <1>2, <2>2, <2>5
  <2>7. PICK K : K = Unheard(c)
    OBVIOUS
  <2>8. \A k \in Key : \A x : Now(k, x)' = Now(k, x) \/ (k \in K /\ x \in {c.on}) \/ Pend(k, x)'
    BY <2>4, <2>6, <2>7
  <2>9. Untold(K, {c.on})
    BY <2>1, <2>7
  <2> QED  BY <1>4, <2>3, <2>8, <2>9
<1>9. CASE UpdateRole(c) \/ CreateRole(c)
  <2>1. /\ UNCHANGED <<holds, aging>> /\ Head(c.todo) \in {"patch", "post"}
        /\ \A x : x # c.on => /\ x \in DOMAIN perms <=> x \in DOMAIN perms'
                              /\ x \in DOMAIN perms => perms'[x] = perms[x]
    BY <1>7, <1>9 DEF UpdateRole, CreateRole, Asks, aging
  <2>2. c.op \in {"matrix", "editor", "creator"} /\ Len(c.todo) = 1
    BY <2>1, AskedIsSound, LastRequest DEF Inv
  <2>3. \A k \in Key : \A x : Now(k, x)' = Now(k, x) \/ (k = "roles" /\ x = c.on)
    BY <2>1 DEF Now, Answer
  <2>4. Pend("roles", c.on)'
    BY <1>2, <1>6, <2>2 DEF Changes, Refreshes
  <2>5. \A k \in Key : \A x : Now(k, x)' = Now(k, x) \/ Pend(k, x)'
    BY <2>3, <2>4
  <2>6. aging' = aging /\ holds' = holds
    BY <2>1 DEF aging
  <2> QED  BY <1>5, <2>5, <2>6
<1>10. CASE DeleteRole(c)
  <2>1. /\ holds' = Moved(c) /\ perms' = [r \in DOMAIN perms \ {c.on} |-> perms[r]]
        /\ Untold(Unheard(c), Holders(c.on)) /\ Head(c.todo) = "drop"
    BY <1>10 DEF DeleteRole, Asks
  <2>2. c.op = "drop" /\ Len(c.todo) = 1
    BY <2>1, AskedIsSound, LastRequest DEF Inv
  <2>3. DOMAIN holds' = DOMAIN holds /\ \A x \in DOMAIN holds : x \notin Holders(c.on) => holds'[x] = holds[x]
    BY <2>1 DEF Moved
  <2>4. \A x : x # c.on => /\ x \in DOMAIN perms <=> x \in DOMAIN perms'
                           /\ x \in DOMAIN perms => perms'[x] = perms[x]
    BY <2>1
  <2>5. \A k \in Key : \A x : \/ Now(k, x)' = Now(k, x)
                              \/ k = "roles" /\ x = c.on
                              \/ k \in {"usage", "users"} /\ x \in Holders(c.on)
    BY <2>3, <2>4 DEF Now, Answer, Key
  <2>6. Pend("roles", c.on)'
    BY <1>2, <1>6, <2>2 DEF Changes, Refreshes, Key
  <2>7. {"usage", "users"} \subseteq Unheard(c)
    BY <1>6, <2>2 DEF Unheard, Changes, Key
  <2>8. PICK K : K = Unheard(c)
    OBVIOUS
  <2>9. PICK X : X = Holders(c.on)
    OBVIOUS
  <2>10. \A k \in Key : \A x : Now(k, x)' = Now(k, x) \/ (k \in K /\ x \in X) \/ Pend(k, x)'
    BY <2>5, <2>6, <2>7, <2>8, <2>9
  <2>11. Untold(K, X)
    BY <2>1, <2>8, <2>9
  <2> QED  BY <1>4, <2>3, <2>10, <2>11
<1>11. CASE RegisterAccount(c)
  <2>1. /\ holds' = [u \in DOMAIN holds \cup {c.on} |-> IF u = c.on THEN {} ELSE holds[u]]
        /\ Untold({"usage"}, {c.on}) /\ perms' = perms /\ c.on \notin DOMAIN holds
    BY <1>11 DEF RegisterAccount
  <2>2. DOMAIN holds \subseteq DOMAIN holds' /\ \A x \in DOMAIN holds : holds'[x] = holds[x]
    BY <2>1
  <2>3. \A k \in Key : \A x : \/ Now(k, x)' = Now(k, x)
                              \/ x \notin DOMAIN lists[k].data \cup DOMAIN lists[k].resp
    <3> SUFFICES ASSUME NEW k \in Key, NEW x, x \in DOMAIN lists[k].data \cup DOMAIN lists[k].resp
                 PROVE  Now(k, x)' = Now(k, x)
      OBVIOUS
    <3>1. k = "roles" \/ x \in DOMAIN holds
      BY <1>7 DEF Key
    <3> QED  BY <2>1, <2>2, <3>1 DEF Now, Answer
  <2> QED  BY <1>4, <2>1, <2>2, <2>3
<1>12. CASE Plain(c)
  <2>1. server' = server /\ aging' = aging /\ holds' = holds
    BY <1>12 DEF Plain, server
  <2>2. \A k \in Key : \A x : Now(k, x)' = Now(k, x) \/ Pend(k, x)'
    BY <2>1 DEF Now, Answer, server
  <2> QED  BY <1>5, <2>1, <2>2
<1> QED  BY <1>8, <1>9, <1>10, <1>11, <1>12 DEF Serve

LEMMA TrueContinues ==
  ASSUME Inv, TruthInv, NEW c \in calls, Continues(c)
  PROVE  TruthInv'
<1>1. /\ c \in CallRecord /\ Ends(c) /\ c.todo \in Seq(What) /\ c.st = "ok" /\ Len(c.todo) > 1
  BY CallsAreTyped DEF Inv, TruthInv, MutationInv, Continues
<1>2. PICK d : d = [[c EXCEPT !.st = "sent"] EXCEPT !.todo = Tail(c.todo)]
  OBVIOUS
<1>3. Alike(c, d) /\ d.tie = c.tie /\ d.todo = Tail(c.todo)
  BY <1>1, <1>2 DEF CallRecord, Alike
<1>4. calls' = (calls \ {c}) \cup {d}
  BY <1>1, <1>2 DEF Continues, CallRecord
<1>5. Ends(d)
  <2>1. Len(c.todo) \in Nat /\ Len(Tail(c.todo)) = Len(c.todo) - 1
    BY <1>1
  <2>2. \A i \in 1 .. Len(Tail(c.todo)) : Tail(c.todo)[i] = c.todo[i + 1] /\ i + 1 \in 1 .. Len(c.todo)
    BY <1>1, <2>1
  <2>3. ASSUME NEW i \in 1 .. Len(Tail(c.todo)), Tail(c.todo)[i] \in {"put", "patch", "post", "drop"}
        PROVE  i = Len(Tail(c.todo))
    <3>1. i + 1 = Len(c.todo)
      BY <1>1, <2>2, <2>3 DEF Ends
    <3> QED  BY <2>1, <2>3, <3>1
  <2>4. PICK t : t = Tail(c.todo)
    OBVIOUS
  <2>5. \A i \in 1 .. Len(t) : t[i] \in {"put", "patch", "post", "drop"} => i = Len(t)
    BY <2>3, <2>4
  <2> QED  BY <1>3, <2>4, <2>5 DEF Ends
<1>6. Due(c) => Due(d)
  <2>1. Len(c.todo) # 1
    <3>1. PICK n \in Nat : n = Len(c.todo)
      BY <1>1
    <3>2. n # 1
      <4>1. n > 1
        BY <1>1, <3>1
      <4> QED  BY <4>1
    <3> QED  BY <3>1, <3>2, Zenon
  <2> QED  BY <1>3, <2>1 DEF Due, Alike
<1>7. UNCHANGED <<server, lists, page, modal, ask, aging>>
  BY DEF Continues
<1> QED  BY <1>3, <1>4, <1>5, <1>6, <1>7, CallGoesOn, CalmRequest

\* A call that is not due goes.
LEMMA TrueGoes ==
  ASSUME Inv, TruthInv, NEW c \in calls, ~Due(c), calls' = calls \ {c},
         UNCHANGED <<server, lists, page, modal, ask, aging>>
  PROVE  TruthInv'
<1>1. \A e \in calls : Due(e) => e \in calls'
  OBVIOUS
<1>2. (\A k, x : Pend(k, x) => Pend(k, x)') /\ (Flipped => Flipped')
  BY <1>1, PendStays DEF TruthInv
<1>3. MutationInv' /\ \A e \in calls' : Means(e)
  BY CallsDropped DEF TruthInv, MeantInv
<1> QED  BY <1>2, <1>3, CalmRequest

LEMMA BatchIsOne ==
  ASSUME TruthInv, NEW c \in calls, NEW d \in Batch(c)
  PROVE  /\ d \in calls /\ d.op = c.op /\ d.id = c.id /\ d.tie # "stray"
         /\ c.op \notin {"bulk", "directory"} => d = c
  BY DEF TruthInv, MutationInv, Batch

\* A mutation that succeeds leaves the calls of the others.
LEMMA CallsSucceed ==
  ASSUME Inv, TruthInv, NEW c \in calls, Succeeds(c)
  PROVE  /\ MutationInv' /\ \A e \in calls' : Means(e)
         /\ \A e \in calls \ Batch(c) : Due(e) => \E f \in calls' : f.op = e.op /\ f.on = e.on /\ Due(f)
<1>1. calls \ Batch(c) \in SUBSET calls
  OBVIOUS
<1>2. CASE calls' = Loosened(calls \ Batch(c), {"modal"}, "page")
  <2>1. PICK C \in SUBSET calls : C = calls \ Batch(c)
    BY <1>1
  <2>2. calls' = Loosened(C, {"modal"}, "page")
    BY <1>2, <2>1
  <2> QED  BY <2>1, <2>2, CallsLoosened
<1>3. CASE calls' = calls \ Batch(c)
  BY <1>3, CallsDropped DEF TruthInv, MeantInv
<1>4. CASE c.op = "directory" /\ calls' = (calls \ Batch(c)) \cup {[c EXCEPT !.st = "done"]}
  <2>1. PICK d : d = [c EXCEPT !.st = "done"]
    OBVIOUS
  <2>2. c \in CallRecord /\ Ends(c)
    BY CallsAreTyped DEF Inv, TruthInv, MutationInv
  <2>3. Alike(c, d) /\ d.tie = c.tie /\ d.todo = c.todo
    BY <2>1, <2>2 DEF CallRecord, Alike
  <2>4. Ends(d)
    BY <2>2, <2>3 DEF Ends
  <2> DEFINE g == [e \in calls |-> IF e = c THEN d ELSE e]
  <2>5. c \in Batch(c)
    BY DEF Batch, Succeeds
  <2>6. calls' \subseteq {g[e] : e \in calls}
    BY <1>4, <2>1, <2>5
  <2>7. \A e \in calls : /\ Alike(e, g[e]) /\ Ends(g[e])
                         /\ g[e].tie = "stray" => e.tie = "stray" \/ e.op \in {"bulk", "directory"}
    BY <1>4, <2>3, <2>4 DEF Alike, TruthInv, MutationInv
  <2> HIDE DEF g
  <2>8. MutationInv' /\ \A e \in calls' : Means(e)
    BY <2>6, <2>7, CallsAlike DEF TruthInv, MeantInv
  <2> QED  BY <1>4, <2>8
<1> QED  BY <1>2, <1>3, <1>4 DEF Succeeds

LEMMA TrueSucceeds ==
  ASSUME Inv, TruthInv, NEW c \in calls, Succeeds(c)
  PROVE  TruthInv'
<1>1. /\ c.tie # "stray" /\ lists' = Invalidated(lists, Refreshes(c.op))
      /\ Overtaken(Refreshes(c.op), {d.on : d \in Batch(c)})
      /\ server' = server /\ page' = page /\ budget' = budget
  BY DEF Succeeds
<1>2. /\ MutationInv' /\ \A e \in calls' : Means(e)
      /\ \A e \in calls \ Batch(c) : Due(e) => \E f \in calls' : f.op = e.op /\ f.on = e.on /\ Due(f)
  BY CallsSucceed
<1>3. modal'.kind \in {modal.kind, "none"} /\ Honest(modal') /\ Honest(ask'.form)
  <2>1. modal \in Form /\ ask \in Questions /\ Honest(modal) /\ Honest(ask.form)
    BY DEF Inv, ModalInv, AskInv, TruthInv, MeantInv
  <2>2. ask'.form = ask.form
    BY <2>1 DEF Succeeds, Orphaned, Questions
  <2>3. CASE modal' = NoModal
    BY <2>1, <2>2, <2>3 DEF NoModal, Honest
  <2>4. CASE modal' = [modal EXCEPT !.base = c.ids, !.seen = c.ids, !.busy = FALSE]
    <3>1. modal'.kind = modal.kind /\ modal'.base = c.ids /\ modal'.seen = c.ids
      BY <2>1, <2>4 DEF Form
    <3> QED  BY <2>1, <2>2, <3>1 DEF Honest
  <2>5. CASE modal' = modal
    BY <2>1, <2>2, <2>5 DEF Honest
  <2> QED  BY <2>3, <2>4, <2>5 DEF Succeeds
<1>4. MeantInv'
  BY <1>2, <1>3 DEF MeantInv
<1>5. ASSUME NEW k \in Key, NEW x, Pend(k, x)
      PROVE  Pend(k, x)' \/ (k \in Refreshes(c.op) /\ x \in {d.on : d \in Batch(c)})
  <2>1. PICK e \in calls : Due(e) /\ k \in Changes(e.op) \cap Refreshes(e.op) /\ e.on = x
    BY <1>5 DEF Pend
  <2>2. CASE e \in Batch(c)
    BY <2>1, <2>2, BatchIsOne
  <2>3. CASE e \notin Batch(c)
    <3>1. PICK f \in calls' : f.op = e.op /\ f.on = e.on /\ Due(f)
      BY <1>2, <2>1, <2>3
    <3> QED  BY <2>1, <3>1 DEF Pend
  <2> QED  BY <2>2, <2>3
<1>6. "roles" \notin Refreshes(c.op) /\ Flipped => Flipped'
  <2> SUFFICES ASSUME "roles" \notin Refreshes(c.op), NEW e \in calls, e.op = "matrix"
               PROVE  Flipped'
    BY DEF Flipped
  <2>1. e \notin Batch(c)
    BY BatchIsOne DEF Refreshes
  <2>2. Due(e)
    BY DEF TruthInv, MutationInv, Due
  <2> QED  BY <1>2, <2>1, <2>2 DEF Flipped
<1>7. \A k, x : Now(k, x)' = Now(k, x)
  BY <1>1 DEF Now, Answer, server
<1>8. ASSUME NEW k \in Key
      PROVE  Truthful(k)'
  <2>1. /\ Truthful(k) /\ lists[k] \in CachedIn(TableOf(k)) /\ behind' = behind /\ holds' = holds
        /\ Active(k)' => Active(k)
    BY <1>1, <1>3 DEF TruthInv, CacheInv, Inv, ListsInv, Overtaken, server, Active, Key
  <2>2. CASE k \notin Refreshes(c.op)
    <3>1. lists'[k] = lists[k] /\ missed'[k] = missed[k]
      BY <1>1, <2>2 DEF Invalidated, Overtaken
    <3>2. /\ Survives(k, lists[k].data, behind[k], behind'[k])
          /\ Survives(k, lists[k].resp, missed[k], missed'[k])
      BY <1>5, <1>7, <2>1, <2>2, <3>1 DEF Survives
    <3>3. k = "roles" /\ Flipped => Flipped'
      BY <1>6, <2>2
    <3> QED  BY <2>1, <3>1, <3>2, <3>3, ListAges DEF Truthful
  <2>3. CASE k \in Refreshes(c.op) /\ Active(k)
    <3>1. lists'[k] = Fetching([lists[k] EXCEPT !.fresh = FALSE])
      BY <1>1, <2>3 DEF Invalidated
    <3>2. /\ lists'[k].data = lists[k].data /\ lists'[k].resp = <<>> /\ lists'[k].phase = "asked"
          /\ ~lists'[k].fresh
      BY <2>1, <3>1 DEF Fetching, CachedIn
    <3> QED  BY <2>1, <3>2, ListAges
  <2>4. CASE k \in Refreshes(c.op) /\ ~Active(k)
    <3>1. lists'[k] = [lists[k] EXCEPT !.fresh = FALSE]
      BY <1>1, <2>4 DEF Invalidated
    <3>2. /\ lists'[k].data = lists[k].data /\ lists'[k].resp = lists[k].resp
          /\ lists'[k].phase = lists[k].phase /\ ~lists'[k].fresh
      BY <2>1, <3>1 DEF CachedIn
    <3>3. lists[k].phase = "read" => missed'[k] = missed[k] \cup {d.on : d \in Batch(c)}
      BY <1>1, <2>4 DEF Overtaken
    <3>4. lists[k].phase = "read" => Survives(k, lists[k].resp, missed[k], missed'[k])
      BY <1>5, <1>7, <3>3 DEF Survives
    <3> QED  BY <2>1, <2>4, <3>2, <3>4, ListAges
  <2> QED  BY <2>2, <2>3, <2>4
<1> QED  BY <1>2, <1>4, <1>8 DEF TruthInv, CacheInv

\* A call that fails leaves the others of its mutation to themselves.
LEMMA CallsFail ==
  ASSUME Inv, TruthInv, NEW c \in calls, Fails(c)
  PROVE  /\ MutationInv' /\ \A e \in calls' : Means(e)
         /\ calls \ Batch(c) \subseteq calls'
<1> DEFINE g == [d \in calls |-> IF d \in Batch(c) /\ d # c THEN [d EXCEPT !.tie = "stray"] ELSE d]
<1>1. calls' = {IF d \in Batch(c) THEN [d EXCEPT !.tie = "stray"] ELSE d : d \in calls \ {c}}
      /\ c \in Batch(c)
  BY DEF Fails, Batch
<1>2. ASSUME NEW d \in calls
      PROVE  /\ Alike(d, g[d]) /\ Ends(g[d])
             /\ g[d].tie = "stray" => d.tie = "stray" \/ d.op \in {"bulk", "directory"}
  <2>1. d \in CallRecord /\ Ends(d)
    BY DEF Inv, CallsInv, TruthInv, MutationInv
  <2>2. CASE d \in Batch(c) /\ d # c
    <3>1. PICK e : e = [d EXCEPT !.tie = "stray"]
      OBVIOUS
    <3>2. Alike(d, e) /\ e.todo = d.todo
      BY <2>1, <3>1 DEF CallRecord, Alike
    <3>3. g[d] = e
      BY <2>2, <3>1
    <3>4. Ends(e)
      BY <2>1, <3>2 DEF Ends
    <3>5. d.op \in {"bulk", "directory"}
      BY <2>2, BatchIsOne
    <3> QED  BY <3>2, <3>3, <3>4, <3>5
  <2>3. CASE ~(d \in Batch(c) /\ d # c)
    BY <2>1, <2>3 DEF Alike
  <2> QED  BY <2>2, <2>3
<1>3. calls' \subseteq {g[d] : d \in calls} /\ calls \ Batch(c) \subseteq calls'
  BY <1>1
<1> HIDE DEF g
<1>4. MutationInv' /\ \A e \in calls' : Means(e)
  BY <1>2, <1>3, CallsAlike DEF TruthInv, MeantInv
<1> QED  BY <1>3, <1>4

LEMMA TrueFails ==
  ASSUME Inv, TruthInv, NEW c \in calls, Fails(c)
  PROVE  TruthInv'
<1> DEFINE told == {d.on : d \in {e \in Batch(c) : e.st \in {"ok", "lost"}}}
<1>1. /\ lists' = RolledBack(c) /\ Untold(Changes(c.op), told)
      /\ server' = server /\ page' = page /\ ask' = ask
  BY DEF Fails
<1>2. /\ MutationInv' /\ \A e \in calls' : Means(e)
      /\ calls \ Batch(c) \subseteq calls'
  BY CallsFail
<1>3. modal'.kind = modal.kind /\ Honest(modal') /\ Honest(ask'.form)
  <2>1. modal \in Form /\ Honest(modal) /\ Honest(ask.form)
    BY DEF Inv, ModalInv, TruthInv, MeantInv
  <2>2. CASE modal' = [modal EXCEPT !.busy = FALSE]
    <3>1. modal'.kind = modal.kind /\ modal'.base = modal.base /\ modal'.seen = modal.seen
          /\ modal'.old = modal.old
      BY <2>1, <2>2 DEF Form
    <3> QED  BY <1>1, <2>1, <3>1 DEF Honest
  <2>3. CASE modal' = modal
    BY <1>1, <2>1, <2>3 DEF Honest
  <2> QED  BY <2>2, <2>3 DEF Fails
<1>4. MeantInv'
  BY <1>2, <1>3 DEF MeantInv
<1>5. ASSUME NEW k \in Key, NEW x, Pend(k, x), ~(k = "roles" /\ c.op = "matrix")
      PROVE  Pend(k, x)' \/ (k \in Changes(c.op) /\ x \in told)
  <2>1. PICK e \in calls : Due(e) /\ k \in Changes(e.op) \cap Refreshes(e.op) /\ e.on = x
    BY <1>5 DEF Pend
  <2>2. CASE e \in Batch(c)
    <3>1. e.op = c.op
      BY <2>2, BatchIsOne
    <3>2. c.op # "matrix"
      BY <1>5, <2>1, <3>1 DEF Changes
    <3>3. e.st \in {"ok", "lost"}
      BY <2>1, <3>1, <3>2 DEF Due
    <3> QED  BY <2>1, <2>2, <3>1, <3>3
  <2>3. CASE e \notin Batch(c)
    BY <1>2, <2>1, <2>3 DEF Pend
  <2> QED  BY <2>2, <2>3
<1> HIDE DEF told
<1>6. \A k, x : Now(k, x)' = Now(k, x)
  BY <1>1 DEF Now, Answer, server
<1>7. c.op # "matrix" /\ Flipped => Flipped'
  BY <1>2, BatchIsOne DEF Flipped
<1>8. ASSUME NEW k \in Key, lists'[k] = lists[k], ~(k = "roles" /\ c.op = "matrix")
      PROVE  Truthful(k)'
  <2>1. /\ Truthful(k) /\ holds' = holds /\ (Active(k)' <=> Active(k))
    BY <1>1, <1>3 DEF TruthInv, CacheInv, server, Active
  <2>2. /\ behind[k] \subseteq behind'[k] /\ (k \in Changes(c.op) => told \subseteq behind'[k])
        /\ missed[k] \subseteq missed'[k]
        /\ k \in Changes(c.op) /\ lists[k].phase = "read" => told \subseteq missed'[k]
    BY <1>1 DEF Untold
  <2>3. Survives(k, lists[k].data, behind[k], behind'[k])
    BY <1>5, <1>6, <1>8, <2>2 DEF Survives
  <2>4. lists[k].phase = "read" => Survives(k, lists[k].resp, missed[k], missed'[k])
    BY <1>5, <1>6, <1>8, <2>2 DEF Survives
  <2>5. k = "roles" /\ Flipped => Flipped'
    BY <1>7, <1>8
  <2> QED  BY <1>8, <2>1, <2>3, <2>4, <2>5, ListAges DEF Truthful
<1>9. CASE c.op # "matrix"
  <2>1. lists' = lists
    BY <1>1, <1>9 DEF RolledBack
  <2>2. CacheInv'
    BY <1>8, <1>9, <2>1 DEF CacheInv
  <2> QED  BY <1>2, <1>4, <2>2 DEF TruthInv
<1>10. CASE c.op = "matrix"
  <2> DEFINE L == [lists EXCEPT !["roles"].data = c.undo]
  <2>1. lists' = Invalidated(L, {"roles"})
    BY <1>1, <1>10 DEF RolledBack
  <2>2. L["roles"] \in CachedIn(TableOf("roles")) /\ \A k \in Key \ {"roles"} : L[k] = lists[k]
    <3>1. lists["roles"] \in CachedIn(TableOf("roles")) /\ c.undo \in TableOf("roles") /\ "roles" \in Key
      BY CallsAreTyped DEF Inv, ListsInv, Key, TableOf
    <3>2. [lists["roles"] EXCEPT !.data = c.undo] \in CachedIn(TableOf("roles"))
      BY <3>1, CachedRecords, TablesAreTyped
    <3> QED  BY <3>1, <3>2 DEF Inv, ListsInv
  <2> HIDE DEF L
  <2>3. \A k \in Key \ {"roles"} : lists'[k] = lists[k]
    BY <2>1, <2>2 DEF Invalidated
  <2>4. Truthful("roles")'
    <3>1. "roles" \in Key /\ Active("roles")
      BY DEF Key, Active
    <3>2. lists'["roles"] = Fetching([L["roles"] EXCEPT !.fresh = FALSE])
      BY <2>1, <3>1 DEF Invalidated
    <3>3. lists'["roles"].phase = "asked" /\ ~lists'["roles"].fresh
      BY <2>2, <3>2 DEF Fetching, CachedIn
    <3> QED  BY <3>3 DEF Truthful
  <2>5. CacheInv'
    BY <1>8, <2>3, <2>4 DEF CacheInv
  <2> QED  BY <1>2, <1>4, <2>5 DEF TruthInv
<1> QED  BY <1>9, <1>10

LEMMA TrueRequests ==
  ASSUME Inv, TruthInv, Requests
  PROVE  TruthInv'
<1> SUFFICES ASSUME NEW c \in calls,
                    \/ Serve(c) \/ Refuses(c) \/ Breaks(c)
                    \/ Continues(c) \/ Succeeds(c) \/ Fails(c) \/ RefreshEnds(c) \/ Forgotten(c)
             PROVE  TruthInv'
  BY DEF Requests
<1>1. CASE Refuses(c) \/ Breaks(c)
  <2>1. UNCHANGED <<server, lists, page, modal, ask, aging>>
    BY <1>1 DEF Refuses, Breaks
  <2>2. PICK st \in {"lost", "bad"} : Served(c, st) /\ (c.st = "sent" \/ st = "lost")
    BY <1>1 DEF Refuses, Breaks
  <2> QED  BY <2>1, <2>2, TrueServed, CalmRequest
<1>2. CASE RefreshEnds(c) \/ Forgotten(c)
  <2>1. UNCHANGED <<server, lists, page, modal, ask, aging>> /\ calls' = calls \ {c}
    BY <1>2 DEF RefreshEnds, Forgotten
  <2>2. c.st = "done" => c.op = "directory"
    BY CallsAreTyped DEF Inv, Sound
  <2>3. ~Due(c)
    BY <1>2, <2>2 DEF RefreshEnds, Forgotten, Due
  <2> QED  BY <2>1, <2>3, TrueGoes
<1> QED  BY <1>1, <1>2, TrueServe, TrueContinues, TrueSucceeds, TrueFails

-----------------------------------------------------------------------------
\* Writes.

\* A row that is certain is what the server has.
LEMMA CertainIsNow ==
  ASSUME TruthInv, NEW k \in Key, Active(k), NEW x \in Rows(k), Certain(k, x)
  PROVE  Row(k, x) = Now(k, x)
<1>1. /\ lists[k].phase = "idle" /\ ~lists[k].bad /\ x \notin behind[k]
      /\ \A c \in calls : k \notin Changes(c.op)
  BY DEF Certain, Quiet
<1>2. ~Pend(k, x)
  BY <1>1 DEF Pend
<1>3. k = "roles" => ~Flipped
  BY <1>1 DEF Flipped, Changes
<1>4. lists[k].fresh
  BY <1>1, <1>3 DEF TruthInv, CacheInv, Truthful
<1>5. Faithful(k, lists[k].data, behind[k])
  BY <1>4 DEF TruthInv, CacheInv, Truthful
<1> QED  BY <1>1, <1>2, <1>5 DEF Faithful, Row, Rows

LEMMA RowCallMeans ==
  ASSUME TruthInv, NEW op, NEW k \in Key, Active(k), NEW x \in Rows(k), NEW item, NEW ids,
         Apart(Row(k, x), ids) \subseteq {item}, NEW what, NEW tie \in {"modal", "page"}
  PROVE  LET c == RowCall(op, k, x, item, ids, what, tie)
         IN  /\ Means(c) /\ Ends(c) /\ c.id = budget.edits /\ c.op = op /\ c.on = x /\ c.tie # "stray"
             /\ c.ids = ids /\ c.want = {item}
<1> DEFINE c == RowCall(op, k, x, item, ids, what, tie)
<1>1. /\ c.id = budget.edits /\ c.op = op /\ c.on = x /\ c.tie = tie /\ c.todo = <<what>>
      /\ c.old = ~Certain(k, x) /\ c.seen = Now(k, x) /\ c.ids = ids /\ c.want = {item}
  BY DEF RowCall, Call
<1> HIDE DEF c
<1>2. Means(c)
  <2>1. CASE Certain(k, x)
    <3>1. Row(k, x) = Now(k, x)
      BY <2>1, CertainIsNow
    <3> QED  BY <1>1, <3>1 DEF Means
  <2>2. CASE ~Certain(k, x)
    BY <1>1, <2>2 DEF Means
  <2> QED  BY <2>1, <2>2
<1>3. Ends(c)
  BY <1>1 DEF Ends
<1> QED  BY <1>1, <1>2, <1>3 DEF c

LEMMA OneRole ==
  ASSUME NEW S, NEW r, NEW add \in BOOLEAN
  PROVE  Apart(S, With(S, r, add)) \subseteq {r} /\ Apart(S, Flip(S, r)) \subseteq {r}
  BY DEF Apart, With, Flip

LEMMA TrueSends ==
  ASSUME Inv, TruthInv, NEW C, Sends(C), UNCHANGED <<lists, modal>>,
         \A c \in C : c.id = budget.edits /\ c.tie # "stray" /\ Ends(c) /\ Means(c),
         \A c, d \in C : c.op = d.op /\ (c.op \notin {"bulk", "directory"} => c = d)
  PROVE  TruthInv'
<1>1. calls' = calls \cup C /\ UNCHANGED <<server, page, ask, aging>>
  BY DEF Sends
<1>2. MutationInv' /\ \A c \in calls' : Means(c)
  BY <1>1, CallsAdded DEF TruthInv, MeantInv
<1>3. (\A k, x : Pend(k, x) => Pend(k, x)') /\ (Flipped => Flipped')
  BY <1>1, SameCallsPend
<1> QED  BY <1>1, <1>2, <1>3, CalmRequest

LEMMA UsageIsRead ==
  ASSUME Shown("usage")
  PROVE  Active("usage") /\ "usage" \in Key
  BY DEF Shown, Active, Key

LEMMA TrueAssign ==
  ASSUME Inv, TruthInv, NEW u \in Accounts, Assign(u)
  PROVE  TruthInv'
<1> DEFINE ids == With(Row("usage", u), modal.on, modal.on \notin Row("usage", u))
           c == RowCall("assign", "usage", u, modal.on, ids, "put", "modal")
<1>1. Shown("usage") /\ u \in Rows("usage") /\ Sends({c}) /\ UNCHANGED <<lists, modal>>
  BY DEF Assign
<1>2. Apart(Row("usage", u), ids) \subseteq {modal.on}
  BY DEF Apart, With
<1> HIDE DEF ids
<1>3. Means(c) /\ Ends(c) /\ c.id = budget.edits /\ c.op = "assign" /\ c.tie # "stray"
  BY <1>1, <1>2, UsageIsRead, RowCallMeans
<1> HIDE DEF c
<1> QED  BY <1>1, <1>3, TrueSends

LEMMA TrueBulk ==
  ASSUME Inv, TruthInv, NEW U \in SUBSET Rows("usage"), NEW add \in BOOLEAN, Bulk(U, add)
  PROVE  TruthInv'
<1> DEFINE C == {RowCall("bulk", "usage", u, modal.on,
                         With(Row("usage", u), modal.on, add), "put", "modal") : u \in U}
<1>1. Shown("usage") /\ Sends(C) /\ UNCHANGED <<lists, modal>>
  BY DEF Bulk
<1>2. ASSUME NEW u \in U
      PROVE  LET c == RowCall("bulk", "usage", u, modal.on, With(Row("usage", u), modal.on, add), "put", "modal")
             IN  Means(c) /\ Ends(c) /\ c.id = budget.edits /\ c.op = "bulk" /\ c.tie # "stray"
  <2>1. PICK ids : ids = With(Row("usage", u), modal.on, add)
    OBVIOUS
  <2>2. PICK r : r = modal.on
    OBVIOUS
  <2>3. Apart(Row("usage", u), ids) \subseteq {r} /\ u \in Rows("usage")
    BY <2>1, <2>2, OneRole
  <2> DEFINE c == RowCall("bulk", "usage", u, r, ids, "put", "modal")
  <2>4. /\ Active("usage") /\ "usage" \in Key
    BY <1>1, UsageIsRead
  <2>5. Means(c) /\ Ends(c) /\ c.id = budget.edits /\ c.op = "bulk" /\ c.tie # "stray"
    BY <2>3, <2>4, RowCallMeans
  <2> QED  BY <2>1, <2>2, <2>5
<1>3. \A c \in C : Means(c) /\ Ends(c) /\ c.id = budget.edits /\ c.op = "bulk" /\ c.tie # "stray"
  BY <1>2
<1> HIDE DEF C
<1> QED  BY <1>1, <1>3, TrueSends

LEMMA TrueAssignSelected ==
  ASSUME Inv, TruthInv, NEW U \in SUBSET Rows("users"), NEW r \in Roles, AssignSelected(U, r)
  PROVE  TruthInv'
<1> DEFINE C == {RowCall("directory", "users", u, r, With(Row("users", u), r, TRUE), "put", "page") :
                     u \in U}
<1>1. Sends(C) /\ UNCHANGED <<lists, modal>> /\ Active("users") /\ "users" \in Key
  BY DEF AssignSelected, Active, Key
<1>2. ASSUME NEW u \in U
      PROVE  LET c == RowCall("directory", "users", u, r, With(Row("users", u), r, TRUE), "put", "page")
             IN  Means(c) /\ Ends(c) /\ c.id = budget.edits /\ c.op = "directory" /\ c.tie # "stray"
  <2>1. PICK ids : ids = With(Row("users", u), r, TRUE)
    OBVIOUS
  <2>2. Apart(Row("users", u), ids) \subseteq {r}
    BY <2>1, OneRole
  <2> DEFINE c == RowCall("directory", "users", u, r, ids, "put", "page")
  <2>3. Means(c) /\ Ends(c) /\ c.id = budget.edits /\ c.op = "directory" /\ c.tie # "stray"
    BY <1>1, <2>2, RowCallMeans
  <2> QED  BY <2>1, <2>3
<1>3. \A c \in C : Means(c) /\ Ends(c) /\ c.id = budget.edits /\ c.op = "directory" /\ c.tie # "stray"
  BY <1>2
<1> HIDE DEF C
<1> QED  BY <1>1, <1>3, TrueSends

LEMMA TrueToggle ==
  ASSUME Inv, TruthInv, NEW r \in Roles, NEW p \in Perms, ToggleMatrix(r, p)
  PROVE  TruthInv'
<1> DEFINE row == Flip(Row("roles", r), p)
           c == RowCall("matrix", "roles", r, p, row, "patch", "page")
           e == [c EXCEPT !.undo = lists["roles"].data]
           f == [lists["roles"].data EXCEPT ![r] = row]
<1>1. /\ r \in Rows("roles") /\ calls' = calls \cup {e} /\ UNCHANGED <<server, page, modal, ask, aging>>
      /\ lists' = [lists EXCEPT !["roles"].phase = "idle", !["roles"].resp = <<>>, !["roles"].data = f]
      /\ Active("roles") /\ "roles" \in Key
  BY DEF ToggleMatrix, Sends, Active, Key
<1>2. Apart(Row("roles", r), row) \subseteq {p}
  BY OneRole
<1>3. \A k \in Key : lists[k] \in CachedIn(TableOf(k)) /\ Truthful(k)
  BY DEF Inv, ListsInv, TruthInv, CacheInv
<1> HIDE DEF row
<1>4. c.op = "matrix" /\ c.on = r /\ c.tie # "stray" /\ c.id = budget.edits /\ Means(c) /\ Ends(c)
  BY <1>1, <1>2, RowCallMeans
<1>5. Alike(c, e) /\ e.todo = c.todo /\ e.tie = c.tie
  BY DEF RowCall, Call, Alike
<1> HIDE DEF c
<1> HIDE DEF e
<1>6. e.op = "matrix" /\ e.on = r /\ e.tie # "stray" /\ e.id = budget.edits /\ Means(e) /\ Ends(e)
  BY <1>4, <1>5 DEF Alike, Means, Ends
<1>7. MutationInv' /\ \A d \in calls' : Means(d)
  <2>1. PICK C : C = {e}
    OBVIOUS
  <2>2. /\ \A d \in C : d.id = budget.edits /\ d.tie # "stray" /\ Ends(d) /\ Means(d)
        /\ \A d, g \in C : d.op = g.op /\ (d.op \notin {"bulk", "directory"} => d = g)
    BY <1>6, <2>1
  <2>3. calls' = calls \cup C
    BY <1>1, <2>1
  <2> QED  BY <2>2, <2>3, CallsAdded DEF TruthInv, MeantInv
<1>8. MeantInv'
  BY <1>1, <1>7, MeantRests DEF TruthInv
<1>9. (\A k, x : Pend(k, x) => Pend(k, x)') /\ Flipped' /\ Pend("roles", r)'
  <2>1. \A k, x : Pend(k, x) => Pend(k, x)'
    BY <1>1, SameCallsPend
  <2>2. Due(e) /\ "roles" \in Changes(e.op) \cap Refreshes(e.op)
    BY <1>6 DEF Due, Changes, Refreshes
  <2> QED  BY <1>1, <1>6, <2>1, <2>2 DEF Flipped, Pend
<1>10. \A k, x : Now(k, x)' = Now(k, x)
  BY <1>1 DEF Now, Answer, server
<1>11. /\ \A k \in Key \ {"roles"} : lists'[k] = lists[k]
       /\ lists'["roles"].data = f /\ lists'["roles"].phase = "idle"
       /\ lists'["roles"].fresh = lists["roles"].fresh
  <2>1. lists'["roles"] = [[[lists["roles"] EXCEPT !.phase = "idle"] EXCEPT !.resp = <<>>] EXCEPT !.data = f]
    BY <1>1, <1>3 DEF Inv, ListsInv, CachedIn
  <2> HIDE DEF f
  <2>2. \A k \in Key \ {"roles"} : lists'[k] = lists[k]
    BY <1>1 DEF Inv, ListsInv
  <2>3. PICK g : g = f
    OBVIOUS
  <2>4. PICK l \in CachedIn(TableOf("roles")) : l = lists["roles"]
    BY <1>1, <1>3
  <2>5. PICK m : m = [[[l EXCEPT !.phase = "idle"] EXCEPT !.resp = <<>>] EXCEPT !.data = g]
    OBVIOUS
  <2>6. m.data = g /\ m.phase = "idle" /\ m.fresh = l.fresh
    BY <2>4, <2>5 DEF CachedIn
  <2> QED  BY <2>1, <2>2, <2>3, <2>4, <2>5, <2>6
<1>12. Truthful("roles")'
  <2>1. ASSUME lists["roles"].fresh, NEW x \in DOMAIN f
        PROVE  x \in behind["roles"] \/ Pend("roles", x)' \/ f[x] = Now("roles", x)'
    <3>1. x \in DOMAIN lists["roles"].data /\ (x # r => f[x] = lists["roles"].data[x])
      BY <2>1
    <3>2. x \in behind["roles"] \/ Pend("roles", x) \/ lists["roles"].data[x] = Now("roles", x)
      BY <1>1, <1>3, <2>1, <3>1 DEF Truthful, Faithful
    <3> QED  BY <1>9, <1>10, <3>1, <3>2
  <2>2. behind' = behind
    BY <1>1 DEF aging
  <2> HIDE DEF f
  <2> QED  BY <1>9, <1>11, <2>1, <2>2 DEF Truthful, Faithful
<1>13. ASSUME NEW k \in Key \ {"roles"}
       PROVE  Truthful(k)'
  <2>1. /\ Truthful(k) /\ behind' = behind /\ missed' = missed /\ holds' = holds /\ (Active(k)' <=> Active(k))
    BY <1>1, <1>3 DEF aging, server, Active
  <2>2. /\ Survives(k, lists[k].data, behind[k], behind'[k])
        /\ Survives(k, lists[k].resp, missed[k], missed'[k])
    BY <1>1, <1>9, <2>1, CalmRows
  <2> QED  BY <1>11, <2>1, <2>2, ListAges DEF Truthful
<1> QED  BY <1>7, <1>8, <1>12, <1>13 DEF TruthInv, CacheInv

LEMMA TrueRowWrites == Inv /\ TruthInv /\ RowWrites => TruthInv'
  BY TrueAssign, TrueBulk, TrueAssignSelected, TrueToggle DEF RowWrites

-----------------------------------------------------------------------------
\* Forms and their questions.

\* The lists stay, and no list comes on screen.
LEMMA CalmStep ==
  ASSUME Inv, TruthInv, UNCHANGED <<server, lists, page, aging>>, modal'.kind \in {modal.kind, "none"},
         (\A k, x : Pend(k, x) => Pend(k, x)') /\ (Flipped => Flipped'),
         MutationInv' /\ \A e \in calls' : Means(e), Honest(modal') /\ Honest(ask'.form)
  PROVE  TruthInv'
<1>1. MeantInv'
  BY DEF MeantInv
<1>2. \A k \in Key : lists'[k] \in {lists[k], Fetching(lists[k])} /\ (Active(k)' => Active(k))
  BY DEF Active, Key
<1>3. CacheInv'
  BY <1>2, CalmLists DEF TruthInv
<1> QED  BY <1>1, <1>3 DEF TruthInv

\* What a form sends is what the user changed in it.
LEMMA FormCallMeans ==
  ASSUME Inv, TruthInv, NEW m, Honest(m), NEW todo, NEW tie \in {"modal", "page", "away"},
         \A i \in 1 .. Len(todo) : todo[i] \in {"put", "patch", "post", "drop"} => i = Len(todo),
         calls' = calls \cup {FormCall(m, todo, tie)}
  PROVE  /\ (\A k, x : Pend(k, x) => Pend(k, x)') /\ (Flipped => Flipped')
         /\ MutationInv' /\ \A e \in calls' : Means(e)
<1>1. PICK c : c = FormCall(m, todo, tie)
  OBVIOUS
<1>2. /\ c.id = budget.edits /\ c.tie = tie /\ c.todo = todo /\ c.old = m.old /\ c.seen = m.seen
      /\ c.ids = m.ids /\ c.want = Apart(m.base, m.ids)
  BY <1>1 DEF FormCall, Call
<1>3. Means(c) /\ Ends(c) /\ c.tie # "stray"
  BY <1>2 DEF Means, Honest, Ends
<1>4. PICK C : C = {c}
  OBVIOUS
<1>5. /\ \A d \in C : d.id = budget.edits /\ d.tie # "stray" /\ Ends(d) /\ Means(d)
      /\ \A d, e \in C : d.op = e.op /\ (d.op \notin {"bulk", "directory"} => d = e)
  BY <1>2, <1>3, <1>4
<1>6. calls' = calls \cup C
  BY <1>1, <1>4
<1>7. MutationInv' /\ \A e \in calls' : Means(e)
  BY <1>5, <1>6, CallsAdded DEF TruthInv, MeantInv
<1> QED  BY <1>6, <1>7, SameCallsPend

LEMMA TrueSendForm ==
  ASSUME Inv, TruthInv, NEW todo, SendForm(todo),
         \A i \in 1 .. Len(todo) : todo[i] \in {"put", "patch", "post", "drop"} => i = Len(todo)
  PROVE  TruthInv'
<1>1. /\ calls' = calls \cup {FormCall(modal, todo, "modal")} /\ modal' = [modal EXCEPT !.busy = TRUE]
      /\ UNCHANGED <<server, lists, page, ask, aging>>
  BY DEF SendForm, Sends
<1>2. modal \in Form /\ Honest(modal) /\ Honest(ask.form)
  BY DEF Inv, ModalInv, TruthInv, MeantInv
<1>3. modal'.kind = modal.kind /\ Honest(modal') /\ Honest(ask'.form)
  BY <1>1, <1>2 DEF Form, Honest
<1>4. PICK m : m = modal
  OBVIOUS
<1>5. Honest(m) /\ calls' = calls \cup {FormCall(m, todo, "modal")}
  BY <1>1, <1>2, <1>4
<1>6. /\ (\A k, x : Pend(k, x) => Pend(k, x)') /\ (Flipped => Flipped')
      /\ MutationInv' /\ \A e \in calls' : Means(e)
  BY <1>5, FormCallMeans
<1> QED  BY <1>1, <1>3, <1>6, CalmStep

\* Of two parts of a form's requests only the second, of one request at most, changes rows.
LEMMA LastOfTwo ==
  ASSUME NEW S, S \cap {"put", "patch", "post", "drop"} = {}, NEW s \in Seq(S), NEW R, NEW t \in Seq(R),
         Len(t) <= 1, NEW i \in 1 .. Len(s \o t), (s \o t)[i] \in {"put", "patch", "post", "drop"}
  PROVE  i = Len(s \o t)
<1>1. PICK m \in Nat, n \in Nat : m = Len(s) /\ n = Len(t)
  OBVIOUS
<1>2. Len(s \o t) = m + n /\ n <= 1
  BY <1>1
<1>3. i \in 1 .. m + n
  BY <1>2
<1>4. i <= m => (s \o t)[i] = s[i] /\ s[i] \in S
  BY <1>1, <1>3
<1>5. ~(i <= m)
  BY <1>4
<1> QED  BY <1>1, <1>2, <1>3, <1>5

LEMMA OneOrNone ==
  ASSUME NEW S, NEW what \in S, NEW t, t = <<>> \/ t = <<what>>
  PROVE  t \in Seq(S) /\ Len(t) <= 1
<1>1. CASE t = <<what>>
  BY <1>1
<1>2. CASE t = <<>>
  BY <1>2
<1> QED  BY <1>1, <1>2

LEMMA TrueParts ==
  ASSUME Inv, TruthInv, NEW S, S \cap {"put", "patch", "post", "drop"} = {}, NEW s \in Seq(S),
         NEW R, NEW t \in Seq(R), Len(t) <= 1, SendForm(s \o t)
  PROVE  TruthInv'
<1>1. PICK todo : todo = s \o t
  OBVIOUS
<1>2. \A i \in 1 .. Len(todo) : todo[i] \in {"put", "patch", "post", "drop"} => i = Len(todo)
  BY <1>1, LastOfTwo
<1> QED  BY <1>1, <1>2, TrueSendForm

LEMMA TrueRegister ==
  ASSUME Inv, TruthInv, Register
  PROVE  TruthInv'
<1>1. PICK named \in BOOLEAN :
         SendForm(<<"register">> \o When(named, "details") \o When(modal.ids # {}, "put"))
  BY DEF Register
<1> DEFINE S == {"register", "details"}
<1>2. S \cap {"put", "patch", "post", "drop"} = {} /\ "register" \in S /\ "details" \in S
  OBVIOUS
<1> HIDE DEF S
<1>3. PICK r \in {<<>>, <<"register">>} : r = <<"register">>
  OBVIOUS
<1>4. PICK d \in {<<>>, <<"details">>} : d = When(named, "details")
  BY DEF When
<1>5. PICK t \in {<<>>, <<"put">>} : t = When(modal.ids # {}, "put")
  BY DEF When
<1>6. r \in Seq(S) /\ d \in Seq(S) /\ t \in Seq({"put"}) /\ Len(t) <= 1
  <2>1. r \in Seq(S)
    BY <1>2, <1>3
  <2>2. d \in Seq(S)
    BY <1>2, <1>4, OneOrNone
  <2>3. PICK R : R = {"put"}
    OBVIOUS
  <2>4. "put" \in R /\ (t = <<>> \/ t = <<"put">>)
    BY <1>5, <2>3
  <2>5. t \in Seq(R) /\ Len(t) <= 1
    BY <2>4, OneOrNone
  <2> QED  BY <2>1, <2>2, <2>3, <2>5
<1>7. PICK s \in Seq(S) : s = r \o d
  BY <1>6, Concatenated
<1>8. SendForm(s \o t)
  BY <1>1, <1>3, <1>4, <1>5, <1>7
<1> QED  BY <1>2, <1>6, <1>8, TrueParts

LEMMA TrueSaveProfile ==
  ASSUME Inv, TruthInv, SaveProfile
  PROVE  TruthInv'
<1>1. SendForm(When("email" \in modal.ids, "verify") \o <<"profile">>
                \o When("password" \in modal.ids, "password"))
  BY DEF SaveProfile
<1> DEFINE S == {"verify", "profile", "password"}
<1>2. /\ S \cap {"put", "patch", "post", "drop"} = {}
      /\ "verify" \in S /\ "profile" \in S /\ "password" \in S
  OBVIOUS
<1> HIDE DEF S
<1>3. PICK v \in {<<>>, <<"verify">>} : v = When("email" \in modal.ids, "verify")
  BY DEF When
<1>4. PICK p \in {<<>>, <<"profile">>} : p = <<"profile">>
  OBVIOUS
<1>5. PICK t \in {<<>>, <<"password">>} : t = When("password" \in modal.ids, "password")
  BY DEF When
<1>6. v \in Seq(S) /\ p \in Seq(S) /\ t \in Seq(S) /\ Len(t) <= 1
  <2>1. v \in Seq(S)
    BY <1>2, <1>3, OneOrNone
  <2>2. p \in Seq(S)
    BY <1>2, <1>4
  <2>3. t \in Seq(S) /\ Len(t) <= 1
    BY <1>2, <1>5, OneOrNone
  <2> QED  BY <2>1, <2>2, <2>3
<1>7. PICK s \in Seq(S) : s = v \o p
  BY <1>6, Concatenated
<1>8. SendForm(s \o t)
  BY <1>1, <1>3, <1>4, <1>5, <1>7
<1> QED  BY <1>2, <1>6, <1>8, TrueParts

LEMMA TrueFormWrites ==
  ASSUME Inv, TruthInv, FormWrites
  PROVE  TruthInv'
<1>1. CASE SaveEditor \/ SaveNewRole \/ SaveRoles \/ Remove
  <2>1. PICK what : SendForm(<<what>>)
    BY <1>1 DEF SaveEditor, SaveNewRole, SaveRoles, Remove
  <2>2. PICK todo : todo = <<what>>
    OBVIOUS
  <2>3. \A i \in 1 .. Len(todo) : i = Len(todo)
    BY <2>2
  <2> QED  BY <2>1, <2>2, <2>3, TrueSendForm
<1>2. CASE AskReduce
  <2>1. /\ modal' = [modal EXCEPT !.busy = TRUE] /\ ask' = Question("reduce")
        /\ UNCHANGED <<server, lists, page, calls, aging>>
    BY <1>2 DEF AskReduce
  <2>2. modal \in Form /\ Honest(modal)
    BY DEF Inv, ModalInv, TruthInv, MeantInv
  <2>3. modal'.kind = modal.kind /\ Honest(modal') /\ Honest(ask'.form)
    BY <2>1, <2>2 DEF Form, Honest, Question
  <2> QED  BY <2>1, <2>3, UnchangedCalls, CalmStep
<1> QED  BY <1>1, <1>2, TrueRegister, TrueSaveProfile DEF FormWrites

LEMMA TrueClose ==
  ASSUME Inv, TruthInv, NEW m, NEW a, Honest(a.form), Close(m, calls, a),
         UNCHANGED <<server, lists, page, aging>>
  PROVE  TruthInv'
<1>1. modal' = NoModal /\ calls' = Loosened(calls, {"modal"}, "page") /\ ask' = Orphaned(a)
  BY DEF Close
<1>2. /\ MutationInv' /\ \A e \in calls' : Means(e)
      /\ \A c \in calls : Due(c) => \E e \in calls' : e.op = c.op /\ e.on = c.on /\ Due(e)
  BY <1>1, CallsLoosened
<1>3. (\A k, x : Pend(k, x) => Pend(k, x)') /\ (Flipped => Flipped')
  BY <1>2, PendStays DEF TruthInv
<1>4. modal'.kind = "none" /\ Honest(modal')
  BY <1>1 DEF NoModal, Honest
<1>5. Honest(ask'.form)
  <2>1. ask'.form = a.form
    BY <1>1 DEF Orphaned
  <2> QED  BY <2>1
<1> QED  BY <1>2, <1>3, <1>4, <1>5, CalmStep

LEMMA TrueCloseSafely ==
  ASSUME Inv, TruthInv, NEW m \in Form, m.kind = modal.kind, Honest(m), NEW a, Honest(a.form),
         CloseSafely(m, a), UNCHANGED <<server, lists, page, aging>>
  PROVE  TruthInv'
<1>1. CASE Close(m, calls, a)
  BY <1>1, TrueClose
<1>2. CASE /\ ask' = [q |-> "discard", form |-> m, tie |-> "modal", first |-> "modal"]
           /\ modal' = [m EXCEPT !.hung = m.hung \/ (a.q # "none" /\ Unanswered(m))]
           /\ UNCHANGED calls
  <2>1. modal'.kind = m.kind /\ modal'.old = m.old /\ modal'.seen = m.seen /\ modal'.base = m.base
    BY <1>2 DEF Form
  <2>2. ask'.form = m
    BY <1>2
  <2>3. Honest(modal') /\ Honest(ask'.form) /\ modal'.kind \in {modal.kind, "none"}
    BY <2>1, <2>2 DEF Honest
  <2> QED  BY <1>2, <2>3, UnchangedCalls, CalmStep
<1> QED  BY <1>1, <1>2 DEF CloseSafely

LEMMA TrueOpens ==
  ASSUME Inv, TruthInv, Opens
  PROVE  TruthInv'
<1>1. UNCHANGED <<server, page, ask, calls, aging, budget>>
  BY DEF Opens
<1>2. /\ \A k, x : Certain(k, x) \in BOOLEAN
      /\ \A k \in Key : lists[k] \in CachedIn(TableOf(k))
  BY DEF Certain, Quiet, Inv, ListsInv
<1>3. ASSUME NEW kind, NEW x, NEW base, Open(kind, x, base, base)
      PROVE  Honest(modal') /\ modal'.kind = kind
  BY <1>3, OpenedForm DEF Honest
<1>4. ASSUME NEW kind, NEW k \in Key, Active(k), NEW x \in Rows(k), OpenRow(kind, k, x)
      PROVE  Honest(modal') /\ modal'.kind = kind
  <2>1. /\ modal'.kind = kind /\ modal'.old = ~Certain(k, x)
        /\ modal'.seen = Now(k, x) /\ modal'.base = Row(k, x)
    BY <1>4, OpenedRow
  <2> QED  BY <1>4, <2>1, CertainIsNow DEF Honest
<1>5. ASSUME Honest(modal'), \A k \in Key : lists'[k] \in {lists[k], Fetching(lists[k])},
             modal'.kind = "usage" => lists' = Mounted(lists, "usage")
      PROVE  TruthInv'
  <2>1. ASSUME NEW k \in Key, Active(k)', lists'[k] = lists[k]
        PROVE  Active(k) \/ lists[k].fresh \/ lists[k].phase # "idle"
    <3>1. CASE k = "usage"
      <4>1. lists' = Mounted(lists, "usage")
        BY <1>5, <2>1, <3>1 DEF Active
      <4>2. CASE lists' = [lists EXCEPT !["usage"] = Fetching(lists["usage"])]
        <5>1. lists'["usage"] = Fetching(lists["usage"])
          BY <2>1, <3>1, <4>2 DEF Inv, ListsInv
        <5>2. lists'["usage"].phase = "asked"
          BY <1>2, <2>1, <3>1, <5>1 DEF Fetching, CachedIn
        <5> QED  BY <2>1, <3>1, <5>2
      <4>3. CASE lists["usage"].fresh \/ lists["usage"].phase # "idle"
        BY <3>1, <4>3
      <4>4. CASE ~(lists["usage"].fresh \/ lists["usage"].phase # "idle")
        BY <4>1, <4>2, <4>4 DEF Mounted
      <4> QED  BY <4>3, <4>4
    <3>2. CASE k # "usage"
      <4>1. k = "roles" \/ (k = "users" /\ page = "users")
        BY <1>1, <2>1, <3>2 DEF Active, Key
      <4> QED  BY <4>1 DEF Active
    <3> QED  BY <3>1, <3>2
  <2>2. CacheInv'
    BY <1>1, <1>5, <2>1, UnchangedCalls, CalmLists DEF TruthInv
  <2>3. MutationInv' /\ MeantInv'
    BY <1>1, <1>5, UnchangedCalls DEF MeantInv, TruthInv
  <2> QED  BY <2>2, <2>3 DEF TruthInv
<1>6. ASSUME NEW k \in Key, lists' = Mounted(lists, k)
      PROVE  \A j \in Key : lists'[j] \in {lists[j], Fetching(lists[j])}
  BY <1>6 DEF Mounted, Inv, ListsInv
<1>7. "usage" \in Key /\ "roles" \in Key /\ "users" \in Key /\ Active("roles") /\ (page = "users" => Active("users"))
  BY DEF Key, Active
<1>8. CASE \E r \in Roles : OpenUsage(r)
  <2>1. PICK r \in Roles : Open("usage", r, {}, {}) /\ lists' = Mounted(lists, "usage")
    BY <1>8 DEF OpenUsage
  <2> QED  BY <1>3, <1>5, <1>6, <1>7, <2>1
<1>9. CASE \E r \in Roles : OpenEditor(r)
  <2>1. PICK r \in Roles : r \in Rows("roles") /\ OpenRow("editor", "roles", r) /\ lists' = lists
    BY <1>9 DEF OpenEditor
  <2> QED  BY <1>4, <1>5, <1>7, <2>1
<1>10. CASE \E r \in Roles : OpenCreator(r) \/ OpenDeletion(r)
  <2>1. PICK r \in Roles : \E P : (Open("creator", r, P, P) \/ Open("drop", r, P, P)) /\ lists' = lists
    BY <1>10 DEF OpenCreator, OpenDeletion
  <2> QED  BY <1>3, <1>5, <2>1
<1>11. CASE \E u \in Accounts : OpenDrawer(u)
  <2>1. PICK u \in Accounts : /\ page = "users" /\ u \in Rows("users") /\ OpenRow("drawer", "users", u)
                              /\ lists' = Mounted(lists, "roles")
    BY <1>11 DEF OpenDrawer
  <2> QED  BY <1>4, <1>5, <1>6, <1>7, <2>1
<1>12. CASE \E u \in Accounts : OpenProfile(u)
  <2>1. PICK u \in Accounts : Open("profile", u, {}, {}) /\ lists' = lists
    BY <1>12 DEF OpenProfile
  <2> QED  BY <1>3, <1>5, <2>1
<1>13. CASE \E u \in Accounts \ budget.users : OpenRegistration(u)
  <2>1. PICK u \in Accounts : \E R : Open("register", u, R, R) /\ lists' = Mounted(lists, "roles")
    BY <1>13 DEF OpenRegistration
  <2> QED  BY <1>3, <1>5, <1>6, <1>7, <2>1
<1> QED  BY <1>8, <1>9, <1>10, <1>11, <1>12, <1>13 DEF Opens

LEMMA TrueChoices ==
  ASSUME Inv, TruthInv,
         TicksPermission \/ TicksDrawer \/ TicksRegistration \/ EditsProfile \/ ChoosesFallback
  PROVE  TruthInv'
<1>1. /\ \E X : modal' = [modal EXCEPT !.ids = X]
      /\ UNCHANGED <<server, lists, page, ask, calls, aging>>
  BY DEF TicksPermission, TicksDrawer, TicksRegistration, EditsProfile, ChoosesFallback, Ticks
<1>2. modal \in Form /\ Honest(modal) /\ Honest(ask.form)
  BY DEF Inv, ModalInv, TruthInv, MeantInv
<1>3. modal'.kind = modal.kind /\ Honest(modal') /\ Honest(ask'.form)
  BY <1>1, <1>2 DEF Form, Honest
<1> QED  BY <1>1, <1>3, UnchangedCalls, CalmStep

LEMMA HonestForms ==
  ASSUME Inv, TruthInv
  PROVE  /\ modal \in Form /\ Honest(modal) /\ ask \in Questions /\ Honest(ask.form)
         /\ NoQuestion \in Questions /\ Honest(NoQuestion.form)
         /\ Released \in Form /\ Released.kind = modal.kind /\ Honest(Released)
<1>1. modal \in Form /\ Honest(modal) /\ ask \in Questions /\ Honest(ask.form)
  BY DEF Inv, ModalInv, AskInv, TruthInv, MeantInv
<1>2. NoQuestion \in Questions /\ Honest(NoQuestion.form)
  BY NoQuestionIsTyped DEF NoQuestion, NoModal, Honest
<1>3. Released \in Form /\ Released.kind = modal.kind
  BY ReleasedForm
<1>4. PICK m : m = Released
  OBVIOUS
<1>5. m = modal \/ m = [modal EXCEPT !.busy = FALSE]
  BY <1>4 DEF Released
<1>6. m.old = modal.old /\ m.seen = modal.seen /\ m.base = modal.base
  BY <1>1, <1>5 DEF Form
<1>7. Honest(m)
  BY <1>1, <1>6 DEF Honest
<1> QED  BY <1>1, <1>2, <1>3, <1>4, <1>7

LEMMA TrueQuestions ==
  ASSUME Inv, TruthInv, Leaves \/ No \/ YesReduce \/ YesDiscard \/ Rerenders \/ Escapes
  PROVE  TruthInv'
<1>1. /\ modal \in Form /\ Honest(modal) /\ ask \in Questions /\ Honest(ask.form)
      /\ NoQuestion \in Questions /\ Honest(NoQuestion.form)
      /\ Released \in Form /\ Released.kind = modal.kind /\ Honest(Released)
  BY HonestForms
<1>2. UNCHANGED <<server, lists, page, aging>>
  BY DEF Leaves, No, YesReduce, YesDiscard, Rerenders, Escapes
<1>3. ASSUME CloseSafely(modal, ask) \/ CloseSafely(Released, NoQuestion) \/ CloseSafely(modal, NoQuestion)
      PROVE  TruthInv'
  <2>1. PICK m, a : m \in {modal, Released} /\ a \in {ask, NoQuestion} /\ CloseSafely(m, a)
    BY <1>3
  <2>2. m \in Form /\ m.kind = modal.kind /\ Honest(m) /\ Honest(a.form)
    BY <1>1, <2>1
  <2> QED  BY <1>2, <2>1, <2>2, TrueCloseSafely
<1>4. CASE Leaves
  BY <1>3, <1>4 DEF Leaves
<1>5. CASE No
  <2>1. modal' = Released /\ ask' = NoQuestion /\ calls' = calls
    BY <1>5 DEF No
  <2>2. modal'.kind = modal.kind /\ Honest(modal') /\ Honest(ask'.form)
    BY <1>1, <2>1 DEF Honest
  <2> QED  BY <1>2, <2>1, <2>2, UnchangedCalls, CalmStep
<1>6. CASE YesReduce
  <2>1. calls' = calls \cup {FormCall(ask.form, <<"patch">>, ask.tie)} /\ ask' = NoQuestion /\ modal' = modal
    BY <1>6 DEF YesReduce
  <2>2. PICK m : m = ask.form
    OBVIOUS
  <2>3. PICK tie \in {"modal", "page", "away"} : tie = ask.tie
    BY <1>1 DEF Questions
  <2>4. PICK todo : todo = <<"patch">>
    OBVIOUS
  <2>5. /\ Honest(m) /\ calls' = calls \cup {FormCall(m, todo, tie)}
        /\ \A i \in 1 .. Len(todo) : i = Len(todo)
    BY <1>1, <2>1, <2>2, <2>3, <2>4
  <2>6. /\ (\A k, x : Pend(k, x) => Pend(k, x)') /\ (Flipped => Flipped')
        /\ MutationInv' /\ \A e \in calls' : Means(e)
    BY <2>5, FormCallMeans
  <2>7. modal'.kind = modal.kind /\ Honest(modal') /\ Honest(ask'.form)
    BY <1>1, <2>1 DEF Honest
  <2> QED  BY <1>2, <2>6, <2>7, CalmStep
<1>7. CASE YesDiscard
  <2>1. CASE Close(modal, calls, NoQuestion)
    <3>1. PICK m, a : m = modal /\ a = NoQuestion
      OBVIOUS
    <3>2. Close(m, calls, a) /\ Honest(a.form)
      BY <1>1, <2>1, <3>1
    <3> QED  BY <1>2, <3>2, TrueClose
  <2>2. CASE ask' = NoQuestion /\ UNCHANGED <<modal, calls>>
    <3>1. modal'.kind = modal.kind /\ Honest(modal') /\ Honest(ask'.form)
      BY <1>1, <2>2 DEF Honest
    <3> QED  BY <1>2, <2>2, <3>1, UnchangedCalls, CalmStep
  <2> QED  BY <1>7, <2>1, <2>2 DEF YesDiscard
<1>8. CASE Rerenders
  <2>1. ask' = [ask EXCEPT !.first = "confirm"] /\ UNCHANGED <<modal, calls>>
    BY <1>8 DEF Rerenders
  <2>2. ask'.form = ask.form
    BY <1>1, <2>1 DEF Questions
  <2>3. modal'.kind = modal.kind /\ Honest(modal') /\ Honest(ask'.form)
    BY <1>1, <2>1, <2>2 DEF Honest
  <2> QED  BY <1>2, <2>1, <2>3, UnchangedCalls, CalmStep
<1>9. CASE Escapes
  BY <1>3, <1>9 DEF Escapes
<1> QED  BY <1>4, <1>5, <1>6, <1>7, <1>8, <1>9

LEMMA TrueNavigate ==
  ASSUME Inv, TruthInv, NEW p \in {"roles", "users"}, Navigate(p)
  PROVE  TruthInv'
<1> DEFINE stays(c) == c.op = "drawer" /\ c.tie = "modal" /\ modal.kind = "drawer"
           g == [c \in calls |-> IF stays(c) \/ c.tie = "stray" THEN c ELSE [c EXCEPT !.tie = "away"]]
<1>1. /\ page' = p /\ p # page /\ UNCHANGED <<server, aging, budget>>
      /\ modal' = IF modal.kind \in Overlays THEN modal ELSE NoModal
      /\ ask' = IF ask.q = "none" THEN ask ELSE [ask EXCEPT !.tie = "away"]
      /\ lists' = IF p = "users" THEN Mounted(lists, "users")
                  ELSE [lists EXCEPT !["users"].phase = "idle", !["users"].resp = <<>>]
      /\ calls' = {g[c] : c \in {d \in calls : d.st # "done"}}
  BY DEF Navigate
<1>2. modal \in Form /\ Honest(modal) /\ ask \in Questions /\ Honest(ask.form)
  BY HonestForms
<1>3. modal'.kind \in {modal.kind, "none"} /\ Honest(modal') /\ Honest(ask'.form)
  <2>1. ask'.form = ask.form
    BY <1>1, <1>2 DEF Questions
  <2>2. modal' = modal \/ modal' = NoModal
    BY <1>1
  <2> QED  BY <1>2, <2>1, <2>2 DEF Honest, NoModal
<1>4. ASSUME NEW c \in calls
      PROVE  /\ Alike(c, g[c]) /\ Ends(g[c]) /\ (g[c].tie = "stray" => c.tie = "stray")
             /\ Due(c) => Due(g[c]) /\ c.st # "done"
  <2>1. c \in CallRecord /\ Ends(c) /\ Sound(c)
    BY DEF Inv, CallsInv, TruthInv, MutationInv
  <2>2. Due(c) => c.st # "done"
    BY <2>1 DEF Due, Sound
  <2>3. CASE stays(c) \/ c.tie = "stray"
    BY <2>1, <2>2, <2>3 DEF Alike
  <2>4. CASE ~(stays(c) \/ c.tie = "stray")
    <3>1. PICK d : d = [c EXCEPT !.tie = "away"]
      OBVIOUS
    <3>2. Alike(c, d) /\ d.tie = "away" /\ d.st = c.st /\ d.todo = c.todo
      BY <2>1, <3>1 DEF CallRecord, Alike
    <3>3. g[c] = d
      BY <2>4, <3>1
    <3>4. Ends(d) /\ (Due(c) => Due(d))
      BY <2>1, <3>2 DEF Ends, Due, Alike
    <3> QED  BY <2>2, <3>2, <3>3, <3>4
  <2> QED  BY <2>3, <2>4
<1>5. calls' \subseteq {g[c] : c \in calls} /\ \A c \in calls : c.st # "done" => g[c] \in calls'
  BY <1>1
<1> HIDE DEF g, stays
<1>6. MutationInv' /\ \A e \in calls' : Means(e)
  BY <1>4, <1>5, CallsAlike DEF TruthInv, MeantInv
<1>7. (\A k, x : Pend(k, x) => Pend(k, x)') /\ (Flipped => Flipped')
  <2>1. \A c \in calls : Due(c) => \E e \in calls' : e.op = c.op /\ e.on = c.on /\ Due(e)
    BY <1>4, <1>5 DEF Alike
  <2> QED  BY <2>1, PendStays DEF TruthInv
<1>8. MutationInv' /\ MeantInv'
  BY <1>3, <1>6 DEF MeantInv
<1>9. \A k \in Key : lists[k] \in CachedIn(TableOf(k)) /\ Truthful(k)
  BY DEF Inv, ListsInv, TruthInv, CacheInv
<1>10. "users" \in Key /\ \A k \in Key \ {"users"} : Active(k)' => Active(k)
  BY <1>3 DEF Key, Active
<1>11. CASE p = "users"
  <2>1. lists' = Mounted(lists, "users")
    BY <1>1, <1>11
  <2>2. \A k \in Key : lists'[k] \in {lists[k], Fetching(lists[k])}
    BY <1>10, <2>1 DEF Mounted, Inv, ListsInv
  <2>3. lists'["users"] = lists["users"] => lists["users"].fresh \/ lists["users"].phase # "idle"
    <3>1. Fetching(lists["users"]).phase = "asked"
      BY <1>9, <1>10 DEF Fetching, CachedIn
    <3>2. CASE ~(lists["users"].fresh \/ lists["users"].phase # "idle")
      <4>1. lists' = [lists EXCEPT !["users"] = Fetching(lists["users"])]
        BY <2>1, <3>2 DEF Mounted
      <4>2. lists'["users"] = Fetching(lists["users"])
        BY <1>10, <4>1 DEF Inv, ListsInv
      <4> QED  BY <3>1, <3>2, <4>2
    <3> QED  BY <3>2
  <2>4. CacheInv'
    BY <1>1, <1>7, <1>10, <2>2, <2>3, CalmLists DEF TruthInv
  <2> QED  BY <1>8, <2>4 DEF TruthInv
<1>12. CASE p # "users"
  <2>1. ~Active("users")'
    BY <1>1, <1>12 DEF Active
  <2>2. /\ \A k \in Key \ {"users"} : lists'[k] = lists[k]
        /\ lists'["users"].data = lists["users"].data /\ lists'["users"].resp = <<>>
        /\ lists'["users"].phase = "idle" /\ lists'["users"].fresh = lists["users"].fresh
    BY <1>1, <1>9, <1>10, <1>12 DEF Inv, ListsInv, CachedIn
  <2>3. ASSUME NEW k \in Key
        PROVE  Truthful(k)'
    <3>1. behind' = behind /\ missed' = missed /\ holds' = holds
      BY <1>1 DEF aging, server
    <3>2. /\ Survives(k, lists[k].data, behind[k], behind'[k])
          /\ Survives(k, lists[k].resp, missed[k], missed'[k])
      BY <1>1, <1>7, <3>1, CalmRows
    <3>3. CASE k = "users"
      BY <1>9, <2>1, <2>2, <3>1, <3>2, <3>3, ListAges
    <3>4. CASE k # "users"
      BY <1>7, <1>9, <1>10, <2>2, <3>1, <3>2, <3>4, ListAges DEF Truthful
    <3> QED  BY <3>3, <3>4
  <2> QED  BY <1>8, <2>3 DEF TruthInv, CacheInv
<1> QED  BY <1>11, <1>12

LEMMA TrueDialogs == Inv /\ TruthInv /\ Dialogs => TruthInv'
  BY TrueOpens, TrueChoices, TrueQuestions, TrueNavigate DEF Dialogs

-----------------------------------------------------------------------------
\* What is written is what was asked for.

LEMMA TrueInit == Init => TruthInv
<1> SUFFICES ASSUME Init
             PROVE  TruthInv
  OBVIOUS
<1>1. /\ calls = {} /\ modal = NoModal /\ ask = NoQuestion /\ page \in {"roles", "users"}
      /\ holds = [u \in budget.users |-> {}]
  BY DEF Init
<1>2. MutationInv
  BY <1>1 DEF MutationInv
<1>3. MeantInv
  BY <1>1 DEF MeantInv, Honest, NoModal, NoQuestion
<1>4. ASSUME NEW k \in Key
      PROVE  Truthful(k)
  <2>1. PICK L : L = [j \in Key |-> IF j = "roles" THEN [Blank EXCEPT !.data = perms, !.fresh = TRUE] ELSE Blank]
    OBVIOUS
  <2>2. lists = Mounted(L, PageList)
    BY <2>1 DEF Init
  <2>3. PageList \in Key /\ "roles" \in Key /\ (PageList = "roles" \/ PageList = "users")
    BY <1>1 DEF PageList, Key
  <2>4. /\ L["roles"].data = perms /\ L["roles"].resp = <<>> /\ L["roles"].fresh
        /\ L["roles"].phase = "idle"
    BY <2>1, <2>3 DEF Blank
  <2>5. \A j \in Key : j # "roles" => L[j] = Blank
    BY <2>1
  <2>6. lists["roles"] = L["roles"]
    BY <2>1, <2>2, <2>3, <2>4 DEF Mounted
  <2>7. k # "roles" => /\ lists[k].data = <<>> /\ lists[k].resp = <<>> /\ ~lists[k].fresh
                       /\ lists[k].phase \in {"idle", "asked"}
                       /\ (k = PageList => lists[k].phase = "asked")
    <3> SUFFICES ASSUME k # "roles"
                 PROVE  /\ lists[k].data = <<>> /\ lists[k].resp = <<>> /\ ~lists[k].fresh
                        /\ lists[k].phase \in {"idle", "asked"}
                        /\ (k = PageList => lists[k].phase = "asked")
      OBVIOUS
    <3>1. CASE k = PageList
      <4>1. lists = [L EXCEPT ![k] = Fetching(L[k])]
        BY <2>2, <2>5, <3>1 DEF Mounted, Blank
      <4>2. lists[k] = Fetching(Blank)
        BY <2>1, <2>5, <4>1
      <4> QED  BY <4>2 DEF Fetching, Blank
    <3>2. CASE k # PageList
      <4>1. lists[k] = Blank
        BY <2>1, <2>2, <2>3, <2>5, <3>2 DEF Mounted
      <4> QED  BY <3>2, <4>1 DEF Blank
    <3> QED  BY <3>1, <3>2
  <2>8. CASE k = "roles"
    <3>1. \A x \in DOMAIN perms : perms[x] = Now("roles", x)
      BY DEF Now, Answer
    <3> QED  BY <2>4, <2>6, <2>8, <3>1 DEF Truthful, Faithful
  <2>9. CASE k # "roles"
    <3>1. DOMAIN lists[k].data \subseteq DOMAIN holds /\ DOMAIN lists[k].resp \subseteq DOMAIN holds
      BY <2>7, <2>9
    <3>2. Active(k) => k = PageList
      BY <1>1, <2>9 DEF Active, PageList, Key, NoModal
    <3> QED  BY <2>7, <2>9, <3>1, <3>2 DEF Truthful
  <2> QED  BY <2>8, <2>9
<1> QED  BY <1>2, <1>3, <1>4 DEF TruthInv, CacheInv

LEMMA TrueStutter ==
  ASSUME Inv, TruthInv, UNCHANGED vars
  PROVE  TruthInv'
<1>1. UNCHANGED <<server, lists, page, aging, modal, ask, calls>>
  BY DEF vars, server, aging
<1>2. /\ (\A k, x : Pend(k, x) => Pend(k, x)') /\ (Flipped => Flipped')
      /\ MutationInv' /\ \A e \in calls' : Means(e)
  BY <1>1, UnchangedCalls
<1>3. Honest(modal') /\ Honest(ask'.form)
  BY <1>1 DEF TruthInv, MeantInv
<1> QED  BY <1>1, <1>2, <1>3, CalmStep

LEMMA TrueNext == Inv /\ TruthInv /\ [Next]_vars => TruthInv'
  BY TrueFetches, TrueElsewhere, TrueRequests, TrueRowWrites, TrueFormWrites, TrueDialogs,
     TrueStutter DEF Next

\* A request that replaces the roles of an account or the permissions of a role changes
\* there what its user asked for and nothing else, unless the row changed after
\* this tab had read it: whatever is fetched, answered and lost in between.
THEOREM WritesAreMeant == Spec => AskedOnly
<1>1. Init => TruthInv
  BY TrueInit
<1>2. Inv /\ TruthInv /\ [Next]_vars => TruthInv'
  BY TrueNext
<1>3. TruthInv =>
        \A c \in calls :
          /\ c.st = "sent" /\ c.op # "register" /\ Head(c.todo) \in {"put", "patch"}
          /\ \E d \in calls' : d = [c EXCEPT !.st = "ok"]
          => LET now == Now(IF Head(c.todo) = "put" THEN "users" ELSE "roles", c.on)
             IN  c.old \/ now # c.seen \/ Apart(now, c.ids) \subseteq c.want
  BY DEF TruthInv, MeantInv, Means
<1> QED  BY <1>1, <1>2, <1>3, SpecInv, PTL DEF Spec, AskedOnly
=============================================================================
