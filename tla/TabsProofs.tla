----------------------------- MODULE TabsProofs -----------------------------
(***************************************************************************)
(* Proofs about Tabs, for any accounts, tabs, clients and sittings.        *)
(***************************************************************************)
EXTENDS Tabs, TLAPS

\* A function on 1 .. n is a sequence of length n.
LEMMA IsSeq ==
    ASSUME NEW S, NEW n \in Nat, NEW f \in [1 .. n -> S]
    PROVE  f \in Seq(S) /\ Len(f) = n /\ DOMAIN f = 1 .. n
  OBVIOUS

\* The elements of a sequence.
LEMMA Elements ==
    ASSUME NEW S, NEW s \in Seq(S)
    PROVE  Len(s) \in Nat /\ DOMAIN s = 1 .. Len(s) /\ s \in [1 .. Len(s) -> S]
  OBVIOUS

LEMMA Appended ==
    ASSUME NEW S, NEW s \in Seq(S), NEW e \in S
    PROVE  /\ Append(s, e) \in Seq(S) /\ Len(Append(s, e)) = Len(s) + 1
           /\ \A i \in 1 .. Len(s) : Append(s, e)[i] = s[i]
           /\ Append(s, e)[Len(s) + 1] = e
  OBVIOUS

LEMMA Shorter ==
    ASSUME NEW S, NEW s \in Seq(S), s # <<>>
    PROVE  /\ Tail(s) \in Seq(S) /\ Head(s) \in S /\ Head(s) = s[1]
           /\ Len(s) > 0 /\ Len(Tail(s)) = Len(s) - 1
           /\ \A i \in 1 .. Len(s) - 1 : Tail(s)[i] = s[i + 1]
  OBVIOUS

LEMMA Joined ==
    ASSUME NEW S, NEW a \in Seq(S), NEW b \in Seq(S), Len(a) > 0
    PROVE  a \o b \in Seq(S) /\ a \o b # <<>> /\ (a \o b)[1] = a[1]
<1>1. a \o b \in Seq(S) /\ Len(a \o b) = Len(a) + Len(b) /\ Len(a) \in Nat /\ Len(b) \in Nat
  OBVIOUS
<1>2. (a \o b)[1] = a[1]
  BY <1>1
<1>3. Len(a \o b) > 0
  BY <1>1
<1>. QED  BY <1>1, <1>2, <1>3

\* The lock without one client: a sequence that begins as before unless that client was
\* at its head.
LEMMA WithoutOne ==
    ASSUME NEW S, NEW s \in Seq(S), NEW c
    PROVE  /\ Without(s, c) \in Seq(S)
           /\ s # <<>> /\ s[1] # c => Without(s, c) # <<>> /\ Without(s, c)[1] = s[1]
<1>1. CASE ~\E i \in DOMAIN s : s[i] = c
  BY <1>1 DEF Without
<1>2. CASE \E i \in DOMAIN s : s[i] = c
  <2>. DEFINE k == CHOOSE i \in DOMAIN s : s[i] = c
  <2>1. k \in DOMAIN s /\ s[k] = c
    BY <1>2
  <2>2. Without(s, c) = SubSeq(s, 1, k - 1) \o SubSeq(s, k + 1, Len(s))
    BY <1>2 DEF Without, RemoveAt
  <2>. HIDE DEF k
  <2>3. k \in 1 .. Len(s) /\ Len(s) \in Nat
    BY <2>1
  <2>4. SubSeq(s, 1, k - 1) \in Seq(S) /\ Len(SubSeq(s, 1, k - 1)) = k - 1
    BY <2>3
  <2>5. SubSeq(s, k + 1, Len(s)) \in Seq(S)
    BY <2>3
  <2>6. Without(s, c) \in Seq(S)
    BY <2>2, <2>4, <2>5
  <2>7. ASSUME s[1] # c PROVE Without(s, c) # <<>> /\ Without(s, c)[1] = s[1]
    <3>1. k > 1
      BY <2>1, <2>3, <2>7
    <3>2. SubSeq(s, 1, k - 1)[1] = s[1]
      BY <2>3, <3>1
    <3>3. Len(SubSeq(s, 1, k - 1)) > 0
      BY <2>3, <2>4, <3>1
    <3>4. PICK a \in Seq(S) : a = SubSeq(s, 1, k - 1)
      BY <2>4
    <3>5. PICK b \in Seq(S) : b = SubSeq(s, k + 1, Len(s))
      BY <2>5
    <3>6. Without(s, c) = a \o b /\ Len(a) > 0 /\ a[1] = s[1]
      BY <2>2, <3>2, <3>3, <3>4, <3>5
    <3>. QED  BY <3>6, Joined
  <2>. QED  BY <2>6, <2>7
<1>. QED  BY <1>1, <1>2
-----------------------------------------------------------------------------
(* What operations do to the rows of the service. *)

LEMMA RowsAre ==
    ASSUME TypeOK
    PROVE  /\ Len(rows) \in Nat /\ DOMAIN rows = 1 .. Len(rows)
           /\ rows \in [1 .. Len(rows) -> RowState]
           /\ \A n \in DOMAIN rows : rows[n] \in RowState
  BY Elements DEF TypeOK

\* No token is issued: rows only lose what they had.
Weaken ==
    /\ Len(rows') = Len(rows) /\ rows' \in Seq(RowState)
    /\ \A n \in 1 .. Len(rows) :
          /\ rows'[n].user = rows[n].user /\ rows'[n].fam = rows[n].fam
          /\ rows'[n].next = rows[n].next
          /\ rows'[n].st = "used" => rows[n].st = "used"
          /\ rows'[n].st = "live" => rows[n].st = "live"
          /\ rows'[n].grace => rows[n].grace

LEMMA WeakenSeq ==
    ASSUME TypeOK, rows' \in [1 .. Len(rows) -> RowState],
           \A n \in 1 .. Len(rows) :
             /\ rows'[n].user = rows[n].user /\ rows'[n].fam = rows[n].fam
             /\ rows'[n].next = rows[n].next
             /\ rows'[n].st = "used" => rows[n].st = "used"
             /\ rows'[n].st = "live" => rows[n].st = "live"
             /\ rows'[n].grace => rows[n].grace
    PROVE  Weaken
<1>1. rows' \in Seq(RowState) /\ Len(rows') = Len(rows)
  BY RowsAre, IsSeq
<1>. QED  BY <1>1 DEF Weaken

LEMMA SameRows ==
    ASSUME TypeOK, UNCHANGED rows
    PROVE  Weaken
  BY RowsAre, WeakenSeq

LEMMA RevokedRows ==
    ASSUME TypeOK, NEW N, rows' = Revoked(N)
    PROVE  Weaken
<1>1. rows' \in [1 .. Len(rows) -> RowState]
  <2>. SUFFICES ASSUME NEW n \in 1 .. Len(rows)
                PROVE  (IF n \in N THEN [rows[n] EXCEPT !.st = "dead"] ELSE rows[n]) \in RowState
    BY RowsAre DEF Revoked
  <2>1. rows[n] \in RowState
    BY RowsAre
  <2>. QED  BY <2>1 DEF RowState
<1>2. ASSUME NEW n \in 1 .. Len(rows)
      PROVE  /\ rows'[n].user = rows[n].user /\ rows'[n].fam = rows[n].fam
             /\ rows'[n].next = rows[n].next
             /\ rows'[n].st = "used" => rows[n].st = "used"
             /\ rows'[n].st = "live" => rows[n].st = "live"
             /\ rows'[n].grace => rows[n].grace
  <2>1. rows[n] \in RowState
    BY RowsAre
  <2>2. rows'[n] = IF n \in N THEN [rows[n] EXCEPT !.st = "dead"] ELSE rows[n]
    BY RowsAre DEF Revoked
  <2>. QED  BY <2>1, <2>2 DEF RowState
<1>. QED  BY <1>1, <1>2, WeakenSeq

LEMMA LogoutRows ==
    ASSUME TypeOK, NEW n \in Numbers, Logout(n)
    PROVE  Weaken
<1>1. CASE n = 0
  BY <1>1, SameRows DEF Logout
<1>2. CASE n # 0
  <2>1. n \in 1 .. Len(rows)
    BY <1>2, RowsAre DEF Numbers
  <2>2. rows[n] \in RowState
    BY <2>1, RowsAre
  <2>3. PICK r \in RowState : r = [rows[n] EXCEPT !.st = "dead", !.grace = FALSE]
    BY <2>2 DEF RowState
  <2>4. rows' = [rows EXCEPT ![n] = r]
    BY <1>2, <2>1, <2>3, RowsAre DEF Logout
  <2>5. rows' \in [1 .. Len(rows) -> RowState]
    BY <2>4, RowsAre
  <2>6. /\ r.user = rows[n].user /\ r.fam = rows[n].fam /\ r.next = rows[n].next
        /\ r.st = "dead" /\ r.grace = FALSE
    BY <2>2, <2>3 DEF RowState
  <2>. QED  BY <2>1, <2>4, <2>5, <2>6, RowsAre, WeakenSeq
<1>. QED  BY <1>1, <1>2

LEMMA GraceRows ==
    ASSUME TypeOK, NEW n \in DOMAIN rows, GraceLapses(n)
    PROVE  Weaken
<1>1. n \in 1 .. Len(rows) /\ rows[n] \in RowState
  BY RowsAre
<1>2. PICK r \in RowState : r = [rows[n] EXCEPT !.grace = FALSE]
  BY <1>1 DEF RowState
<1>3. rows' = [rows EXCEPT ![n] = r]
  BY <1>1, <1>2, RowsAre DEF GraceLapses
<1>4. rows' \in [1 .. Len(rows) -> RowState]
  BY <1>3, RowsAre
<1>5. /\ r.user = rows[n].user /\ r.fam = rows[n].fam /\ r.next = rows[n].next
      /\ r.st = rows[n].st /\ r.grace = FALSE
  BY <1>1, <1>2 DEF RowState
<1>. QED  BY <1>1, <1>3, <1>4, <1>5, RowsAre, WeakenSeq

\* A sign-in issues a token in a family of its own.
LEMMA LoginRows ==
    ASSUME TypeOK, NEW u \in Users, Login(u)
    PROVE  /\ Len(rows') = Len(rows) + 1 /\ rows' \in Seq(RowState')
           /\ \A n \in 1 .. Len(rows) : rows'[n] = rows[n]
           /\ rows'[Issued] = Row(u, Issued)
<1>1. Len(rows) \in Nat /\ RowState \subseteq [user : Users, fam : Nat, st : {"live", "used", "dead"},
                                              next : 0 .. Len(rows) + 1, grace : BOOLEAN]
  BY RowsAre DEF RowState, Numbers
<1>2. Row(u, Issued) \in RowState
  BY RowsAre DEF Row, RowState, Issued, Numbers
<1>3. rows \in Seq(RowState) /\ rows' = Append(rows, Row(u, Issued))
  BY DEF TypeOK, Login
<1>4. /\ Len(rows') = Len(rows) + 1 /\ rows' \in Seq(RowState)
      /\ \A n \in 1 .. Len(rows) : rows'[n] = rows[n]
      /\ rows'[Issued] = Row(u, Issued)
  BY <1>2, <1>3, Appended DEF Issued
<1>5. RowState \subseteq RowState'
  BY <1>1, <1>4 DEF RowState, Numbers
<1>6. rows' \in Seq(RowState')
  BY <1>4, <1>5
<1>. QED  BY <1>4, <1>6

\* A rotation issues the token that replaces row n, in the family of n.
LEMMA RotateRows ==
    ASSUME TypeOK, NEW n \in DOMAIN rows, Rotate(n)
    PROVE  /\ Len(rows') = Len(rows) + 1 /\ rows' \in Seq(RowState')
           /\ \A m \in 1 .. Len(rows) : m # n => rows'[m] = rows[m]
           /\ rows'[n].user = rows[n].user /\ rows'[n].fam = rows[n].fam
           /\ rows'[n].st = "used" /\ rows'[n].next = Issued /\ rows'[n].grace
           /\ rows'[Issued] = Row(rows[n].user, rows[n].fam)
<1>. DEFINE More == [user : Users, fam : Nat, st : {"live", "used", "dead"},
                     next : 0 .. Len(rows) + 1, grace : BOOLEAN]
<1>0. Len(rows) \in Nat /\ RowState \subseteq More /\ n \in 1 .. Len(rows)
  BY RowsAre DEF RowState, Numbers
<1>1. rows[n] \in RowState /\ Issued \in 0 .. Len(rows) + 1
  BY <1>0, RowsAre DEF Issued
<1>2. PICK r \in More : r = [[[rows[n] EXCEPT !.st = "used"] EXCEPT !.next = Issued] EXCEPT !.grace = TRUE]
  BY <1>0, <1>1 DEF RowState
<1>3. PICK s \in [1 .. Len(rows) -> More] : s = [rows EXCEPT ![n] = r]
  BY <1>0, <1>2, RowsAre
<1>4. s = [rows EXCEPT ![n].st = "used", ![n].next = Issued, ![n].grace = TRUE]
  BY <1>0, <1>2, <1>3, RowsAre
<1>5. PICK x \in More : x = Row(rows[n].user, rows[n].fam)
  <2>1. rows[n].user \in Users /\ rows[n].fam \in Nat
    BY <1>1 DEF RowState
  <2>2. Row(rows[n].user, rows[n].fam) \in More
    BY <1>0, <2>1 DEF Row
  <2>. QED  BY <2>2
<1>. HIDE DEF More
<1>6. rows' = Append(s, x)
  BY <1>4, <1>5 DEF Rotate
<1>7. s \in Seq(More) /\ Len(s) = Len(rows)
  BY <1>0, <1>3, IsSeq
<1>8. /\ Len(rows') = Len(rows) + 1 /\ rows' \in Seq(More)
      /\ \A m \in 1 .. Len(rows) : rows'[m] = s[m]
      /\ rows'[Issued] = x
  BY <1>6, <1>7, Appended DEF Issued
<1>9. More = RowState'
  BY <1>8 DEF More, RowState, Numbers
<1>10. \A m \in 1 .. Len(rows) : m # n => s[m] = rows[m]
  BY <1>3, RowsAre
<1>11. s[n] = r
  BY <1>0, <1>3, RowsAre
<1>12. /\ r.user = rows[n].user /\ r.fam = rows[n].fam
       /\ r.st = "used" /\ r.next = Issued /\ r.grace
  BY <1>1, <1>2 DEF RowState
<1>. QED  BY <1>0, <1>5, <1>8, <1>9, <1>10, <1>11, <1>12

\* How an action changes the rows.
Grows == /\ rows' \in Seq(RowState') /\ Len(rows') \in Nat /\ Len(rows) <= Len(rows')
         /\ \A n \in 1 .. Len(rows) : /\ rows'[n].user = rows[n].user
                                      /\ rows'[n].fam = rows[n].fam

LEMMA WeakerGrows == TypeOK /\ Weaken => Grows /\ Numbers' = Numbers
<1>. SUFFICES ASSUME TypeOK, Weaken PROVE Grows /\ Numbers' = Numbers
  OBVIOUS
<1>1. Numbers' = Numbers
  BY DEF Weaken, Numbers
<1>2. RowState' = RowState
  BY <1>1 DEF RowState
<1>. QED  BY <1>1, <1>2, RowsAre DEF Weaken, Grows

\* What has the type of a flight or a call keeps it while rows are added.
LEMMA TypesGrow ==
    ASSUME TypeOK, Grows
    PROVE  /\ Numbers \subseteq Numbers'
           /\ FlightState \subseteq FlightState' /\ CallState \subseteq CallState'
<1>1. Numbers \subseteq Numbers'
  BY RowsAre DEF Grows, Numbers
<1>. QED  BY <1>1 DEF FlightState, CallState

LEMMA FlightGrows ==
    ASSUME TypeOK, Grows
    PROVE  /\ cookie \in Numbers' /\ flight \in [Clients -> FlightState']
           /\ call \in [Tabs -> CallState']
  BY TypesGrow DEF TypeOK

\* What a refresh finds at the service: rows weaken or one is rotated, and the answer
\* names a row.
LEMMA ServedRows ==
    ASSUME TypeOK, NEW c \in Clients, ServeRefresh(c)
    PROVE  /\ Grows
           /\ \E m \in Numbers' : Answers(c, m)
<1>. DEFINE n == flight[c].sent
<1>1. n \in Numbers /\ (n # 0 => n \in DOMAIN rows /\ rows[n] \in RowState)
  BY RowsAre DEF TypeOK, FlightState, Numbers
<1>2. Len(rows) \in Nat
  BY RowsAre
<1>3. CASE n = 0 /\ Answers(c, 0) /\ UNCHANGED rows
  <2>1. Grows /\ Numbers' = Numbers
    BY <1>3, SameRows, WeakerGrows
  <2>. QED  BY <1>2, <1>3, <2>1 DEF Numbers
<1>4. CASE n # 0 /\ Answers(c, rows[n].next) /\ UNCHANGED rows
  <2>1. Grows /\ Numbers' = Numbers
    BY <1>4, SameRows, WeakerGrows
  <2>2. rows[n].next \in Numbers
    BY <1>1, <1>4 DEF RowState
  <2>. QED  BY <1>4, <2>1, <2>2
<1>5. CASE n # 0 /\ Rotate(n) /\ Answers(c, Issued)
  <2>1. n \in DOMAIN rows
    BY <1>1, <1>5
  <2>2. /\ Len(rows') = Len(rows) + 1 /\ rows' \in Seq(RowState')
        /\ \A m \in 1 .. Len(rows) : m # n => rows'[m] = rows[m]
        /\ rows'[n].user = rows[n].user /\ rows'[n].fam = rows[n].fam
    BY <1>5, <2>1, RotateRows
  <2>3. Grows
    BY <1>2, <2>2 DEF Grows
  <2>4. Issued \in Numbers'
    BY <1>2, <2>2 DEF Issued, Numbers
  <2>. QED  BY <1>5, <2>3, <2>4
<1>6. CASE rows' = Revoked(Family(n)) /\ Answers(c, 0)
  <2>1. Grows /\ Numbers' = Numbers
    BY <1>6, RevokedRows, WeakerGrows
  <2>. QED  BY <1>2, <1>6, <2>1 DEF Numbers
<1>. HIDE DEF n
<1>. QED  BY <1>3, <1>4, <1>5, <1>6 DEF ServeRefresh, n

-----------------------------------------------------------------------------
(* What a tab may hold: the reducer and its callers stay within the type.  *)

LEMMA Nobody == NoOne \in Anyone /\ NoToken \in Token
                /\ \A u \in Anyone : Own(u) \in Token
  BY DEF Anyone, NoToken, Own, Token

LEMMA TabFields ==
    ASSUME NEW tb \in TabState
    PROVE  /\ tb.user \in Anyone /\ tb.token \in Token /\ tb.booting \in BOOLEAN
           /\ tb.expired \in BOOLEAN /\ tb.original \in [user : Anyone, token : Token]
           /\ tb.page \in {"other", "settings"} /\ tb.asked \in Anyone
           /\ tb.profile \in Anyone /\ tb.prefs \in Anyone
           /\ tb.turned \in SUBSET {"profile", "prefs"}
           /\ tb.original.user \in Anyone /\ tb.original.token \in Token
  BY DEF TabState

LEMMA FreshType == Fresh \in TabState /\ [Fresh EXCEPT !.booting = FALSE] \in TabState
  BY Nobody DEF Fresh, TabState, NoSupport

LEMMA UnmountedType ==
    ASSUME NEW tb \in TabState
    PROVE  Unmounted(tb) \in TabState
  BY Nobody DEF Unmounted, TabState

LEMMA ShowsType ==
    ASSUME NEW tb \in TabState, NEW u \in Anyone
    PROVE  Shows(tb, u) \in TabState
<1>1. CASE u = NoOne
  <2>1. PICK x \in TabState : x = Unmounted(tb)
    BY UnmountedType
  <2>2. Shows(tb, u) = [x EXCEPT !.user = NoOne, !.prefs = NoOne]
    BY <1>1, <2>1 DEF Shows
  <2>. QED  BY <2>2, Nobody DEF TabState
<1>2. CASE u # NoOne /\ tb.user = NoOne
  BY <1>2, Nobody DEF Shows, TabState
<1>3. CASE u # NoOne /\ tb.user # NoOne
  <2>1. Shows(tb, u) = [tb EXCEPT !.user = u, !.turned = IF u = tb.user THEN tb.turned
                                                          ELSE {"profile", "prefs"}]
    BY <1>3 DEF Shows, TabState
  <2>. QED  BY <2>1, Nobody DEF TabState
<1>. QED  BY <1>1, <1>2, <1>3

LEMMA RestoredType ==
    ASSUME NEW tb \in TabState, NEW u \in Anyone
    PROVE  Restored(tb, u) \in TabState
<1>1. PICK x \in TabState : x = Shows(tb, u)
  BY ShowsType
<1>. QED  BY <1>1 DEF Restored, TabState

LEMMA SignedInType ==
    ASSUME NEW tb \in TabState, NEW u \in Anyone, NEW token \in Token
    PROVE  SignedIn(tb, u, token) \in TabState
<1>1. PICK x \in TabState : x = Shows(tb, u)
  BY ShowsType
<1>. QED  BY <1>1 DEF SignedIn, TabState

LEMMA SignedOutType ==
    ASSUME NEW tb \in TabState
    PROVE  SignedOut(tb) \in TabState
<1>1. PICK x \in TabState : x = Shows(tb, NoOne)
  BY ShowsType, Nobody
<1>. QED  BY <1>1, Nobody DEF SignedOut, TabState

LEMMA ExpiredType ==
    ASSUME NEW tb \in TabState
    PROVE  Expired(tb) \in TabState
  BY Nobody DEF Expired, TabState

LEMMA AfterRefreshType ==
    ASSUME NEW tb \in TabState, NEW u \in Anyone
    PROVE  /\ Boots(tb, u) \in TabState /\ Beats(tb, u) \in TabState
           /\ Retries(tb, u) \in TabState /\ Exits(tb, u) \in TabState
<1>1. Boots(tb, u) \in TabState
  <2>1. PICK x \in TabState : x = IF u = NoOne THEN tb ELSE Restored(tb, u)
    BY RestoredType
  <2>2. Boots(tb, u) = IF x.token = NoToken THEN Restored(x, NoOne) ELSE x
    BY <2>1 DEF Boots
  <2>. QED  BY <2>2, RestoredType, Nobody
<1>2. Beats(tb, u) \in TabState
  <2>1. u # NoOne => [tb EXCEPT !.expired = FALSE] \in TabState
    BY DEF TabState
  <2>. QED  BY <2>1, ExpiredType DEF Beats
<1>3. Retries(tb, u) \in TabState
  BY ExpiredType DEF Retries
<1>4. Exits(tb, u) \in TabState
  <2>1. PICK y \in TabState : y = Unmounted(tb)
    BY UnmountedType
  <2>2. PICK x \in TabState : x = [y EXCEPT !.original = NoSupport]
    BY Nobody DEF TabState, NoSupport
  <2>3. Exits(tb, u) = IF u # NoOne THEN SignedIn(x, u, Own(u))
                       ELSE SignedIn(x, tb.original.user, tb.original.token)
    BY <2>1, <2>2 DEF Exits
  <2>. QED  BY <2>3, SignedInType, TabFields, Nobody
<1>. QED  BY <1>1, <1>2, <1>3, <1>4

-----------------------------------------------------------------------------
(* The type invariant                                                      *)

\* Who has sent a refresh holds the lock.
AtService(c) == flight[c].phase \in {"sent", "answered"}
HoldsLock(c) == lock # <<>> /\ lock[1] = c
LockInv == \A c \in Clients : AtService(c) => HoldsLock(c)

LEMMA ClientsAre ==
    /\ \A c \in Clients : c[1] \in Tabs
    /\ \A t \in Tabs : Host(t) \in Clients /\ Host(t)[1] = t
  BY ConstantsAssumption DEF Host

\* What is spent of the bounds.
LEMMA Spent ==
    ASSUME TypeOK,
           NEW what \in {"signins", "signouts", "supports", "beats", "calls", "reloads",
                         "revokes", "faults", "settings"},
           Spend(what)
    PROVE  left' \in Budget /\ Open' = Open
<1>1. left \in Budget /\ left[what] \in Nat /\ left[what] > 0
  BY DEF TypeOK, Budget, Spend
<1>2. left[what] - 1 \in Nat
  BY <1>1
<1>3. left' = [left EXCEPT ![what] = left[what] - 1]
  BY DEF Spend
<1>. QED  BY <1>1, <1>2, <1>3 DEF Budget, Open

LEMMA PostedType ==
    ASSUME TypeOK, NEW to, NEW msg \in Message
    PROVE  Posted(msg, to) \in [Tabs -> Seq(Message)]
<1>. SUFFICES ASSUME NEW s \in Tabs
              PROVE  (IF s \in to THEN Append(inbox[s], msg) ELSE inbox[s]) \in Seq(Message)
  BY DEF Posted
<1>1. inbox[s] \in Seq(Message)
  BY DEF TypeOK
<1>. QED  BY <1>1, Appended

LEMMA AwaitsType ==
    ASSUME TypeOK, NEW c \in Clients, NEW why \in Waiter, Awaits(c, why)
    PROVE  /\ flight' \in [Clients -> FlightState] /\ lock' \in Seq(Clients)
           /\ crossed' \in BOOLEAN
<1>1. flight[c] \in FlightState /\ 0 \in Numbers
  BY RowsAre DEF TypeOK, Numbers
<1>2. [NoFlight EXCEPT !.phase = "queued", !.for = {why}] \in FlightState
  BY <1>1, Nobody DEF NoFlight, FlightState
<1>3. [flight[c] EXCEPT !.for = flight[c].for \cup {why}] \in FlightState
  BY <1>1 DEF FlightState
<1>4. flight' = [flight EXCEPT ![c] =
         IF flight[c].phase = "idle" THEN [NoFlight EXCEPT !.phase = "queued", !.for = {why}]
         ELSE [flight[c] EXCEPT !.for = flight[c].for \cup {why}]]
  BY DEF Awaits, Awaited
<1>5. flight' \in [Clients -> FlightState]
  BY <1>2, <1>3, <1>4 DEF TypeOK
<1>6. lock' \in Seq(Clients)
  BY Appended DEF Awaits, Queued, TypeOK
<1>7. crossed' \in BOOLEAN
  BY DEF Awaits
<1>. QED  BY <1>5, <1>6, <1>7

LEMMA CallsType ==
    ASSUME TypeOK, NEW t \in Tabs, NEW op \in {"login", "logout", "start"},
           NEW who \in Anyone, Calls(t, op, who)
    PROVE  call' \in [Tabs -> CallState]
<1>1. 0 \in Numbers /\ cookie \in Numbers
  BY RowsAre DEF TypeOK, Numbers
<1>2. [op |-> op, who |-> who, sent |-> cookie, row |-> 0, phase |-> "sent"] \in CallState
  BY <1>1 DEF CallState
<1>. QED  BY <1>2 DEF Calls, TypeOK

LEMMA NoCallType == TypeOK => NoCall \in CallState /\ NoFlight \in FlightState
  BY RowsAre, Nobody DEF NoCall, CallState, NoFlight, FlightState, Numbers

LEMMA LeftToType ==
    ASSUME TypeOK, NEW t \in Tabs
    PROVE  LeftTo(t) \in Seq(Clients)
  BY WithoutOne DEF LeftTo, TypeOK

LEMMA TypeInit == Init => TypeOK
<1>. SUFFICES ASSUME Init PROVE TypeOK
  OBVIOUS
<1>1. rows = <<>> /\ Len(rows) = 0 /\ Numbers = {0}
  BY DEF Init, Numbers
<1>2. NoFlight \in FlightState /\ NoCall \in CallState
  BY <1>1, Nobody DEF NoFlight, FlightState, NoCall, CallState
<1>3. rows \in Seq(RowState) /\ lock \in Seq(Clients)
  BY <1>1 DEF Init
<1>4. inbox \in [Tabs -> Seq(Message)]
  BY DEF Init
<1>5. flight \in [Clients -> FlightState] /\ call \in [Tabs -> CallState]
  BY <1>2 DEF Init
<1>6. recent \in [Clients -> Anyone] /\ tab \in [Tabs -> TabState]
  BY Nobody, FreshType DEF Init
<1>7. left \in Budget
  BY ConstantsAssumption DEF Init
<1>8. cookie \in Numbers /\ last \in Anyone
  BY <1>1, Nobody DEF Init
<1>10. crossed \in BOOLEAN
  BY DEF Init
<1>9. \A t \in Tabs : call[t].op \notin {"login", "start"}
  BY DEF Init, NoCall
<1>. QED  BY <1>3, <1>4, <1>5, <1>6, <1>7, <1>8, <1>9, <1>10 DEF TypeOK

\* Steps of a refresh.
LEMMA SettlingType ==
    ASSUME TypeOK, LockInv, NEW c \in Clients, Settling(c) \/ RefreshFails(c)
    PROVE  TypeOK'
<1>. USE DEF history
<1>0. /\ flight[c] \in FlightState /\ c[1] \in Tabs /\ tab[c[1]] \in TabState
      /\ NoFlight \in FlightState /\ 0 \in Numbers
  BY ClientsAre, NoCallType, RowsAre DEF TypeOK, Numbers
<1>1. UNCHANGED rows => Numbers' = Numbers /\ RowState' = RowState
                        /\ FlightState' = FlightState /\ CallState' = CallState
  BY DEF Numbers, RowState, FlightState, CallState
<1>2. CASE Granted(c)
  <2>1. flight' \in [Clients -> FlightState] /\ lock' \in Seq(Clients)
    <3>1. recent[c] \in Anyone /\ cookie \in Numbers
      BY DEF TypeOK
    <3>2. /\ [[flight[c] EXCEPT !.phase = "settled"] EXCEPT !.got = recent[c]] \in FlightState
          /\ [[flight[c] EXCEPT !.phase = "sent"] EXCEPT !.sent = cookie] \in FlightState
      BY <1>0, <3>1 DEF FlightState
    <3>3. lock # <<>>
      BY <1>2 DEF Granted, Turn
    <3>4. Tail(lock) \in Seq(Clients)
      BY <3>3, Shorter DEF TypeOK
    <3>. QED  BY <1>2, <3>2, <3>4 DEF Granted, TypeOK
  <2>. QED  BY <1>1, <1>2, <2>1 DEF Granted, TypeOK
<1>3. CASE ServeRefresh(c)
  <2>1. Grows
    BY <1>3, ServedRows
  <2>2. PICK m \in Numbers' : Answers(c, m)
    BY <1>3, ServedRows
  <2>3. flight[c] \in FlightState'
    BY <1>0, <2>1, TypesGrow
  <2>4. [[flight[c] EXCEPT !.phase = "answered"] EXCEPT !.row = m] \in FlightState'
    BY <2>2, <2>3 DEF FlightState
  <2>5. flight' \in [Clients -> FlightState']
    BY <2>1, <2>2, <2>4, FlightGrows DEF Answers
  <2>. QED  BY <1>3, <2>1, <2>5, FlightGrows DEF ServeRefresh, Grows, TypeOK
<1>4. CASE RefreshAnswered(c)
  <2>. DEFINE n == flight[c].row
              u == IF n = 0 THEN NoOne ELSE rows[n].user
  <2>1. n \in Numbers
    BY <1>0 DEF FlightState
  <2>2. u \in Anyone
    BY <2>1, RowsAre DEF Numbers, RowState, Anyone
  <2>. HIDE DEF n, u
  <2>3. /\ cookie' = IF n = 0 /\ flight[c].sent = 0 THEN cookie ELSE n
        /\ flight' = [flight EXCEPT ![c].phase = "settled", ![c].got = u]
        /\ lock' = Tail(lock)
        /\ IF u = NoOne THEN UNCHANGED <<recent, tab, inbox>>
           ELSE /\ recent' = [recent EXCEPT ![c] = u]
                /\ tab' = [tab EXCEPT ![c[1]].token = Own(u)]
                /\ inbox' = Posted([type |-> "done", user |-> u, from |-> c], Open)
        /\ UNCHANGED <<rows, call, left, last, crossed>>
    BY <1>4 DEF RefreshAnswered, n, u
  <2>4. [[flight[c] EXCEPT !.phase = "settled"] EXCEPT !.got = u] \in FlightState
    BY <1>0, <2>2 DEF FlightState
  <2>5. flight' \in [Clients -> FlightState]
    BY <2>3, <2>4 DEF TypeOK
  <2>6. [tab[c[1]] EXCEPT !.token = Own(u)] \in TabState
    BY <1>0, <2>2, Nobody DEF TabState
  <2>7. tab' \in [Tabs -> TabState]
    BY <1>0, <2>3, <2>6 DEF TypeOK
  <2>8. [type |-> "done", user |-> u, from |-> c] \in Message
    BY <2>2 DEF Message
  <2>9. inbox' \in [Tabs -> Seq(Message)]
    BY <2>3, <2>8, PostedType DEF TypeOK
  <2>10. lock' \in Seq(Clients)
    <3>1. lock # <<>>
      BY <1>4 DEF RefreshAnswered, LockInv, AtService, HoldsLock
    <3>. QED  BY <2>3, <3>1, Shorter DEF TypeOK
  <2>11. recent' \in [Clients -> Anyone]
    BY <2>2, <2>3 DEF TypeOK
  <2>12. cookie' \in Numbers
    BY <2>1, <2>3 DEF TypeOK
  <2>. QED  BY <1>1, <2>3, <2>5, <2>7, <2>9, <2>10, <2>11, <2>12 DEF TypeOK
<1>5. CASE RefreshFails(c)
  <2>1. [[flight[c] EXCEPT !.phase = "settled"] EXCEPT !.got = NoOne] \in FlightState
    BY <1>0, Nobody DEF FlightState
  <2>2. flight' \in [Clients -> FlightState]
    BY <1>5, <2>1 DEF RefreshFails, TypeOK
  <2>3. lock' \in Seq(Clients)
    <3>1. lock # <<>>
      BY <1>5 DEF RefreshFails, LockInv, AtService, HoldsLock
    <3>. QED  BY <1>5, <3>1, Shorter DEF RefreshFails, TypeOK
  <2>4. left' \in Budget
    BY <1>5, Spent DEF RefreshFails
  <2>. QED  BY <1>1, <1>5, <2>2, <2>3, <2>4 DEF RefreshFails, TypeOK
<1>6. CASE Resume(c)
  <2>. DEFINE t == c[1]
              u == flight[c].got
              W == flight[c].for
              a == IF "boot" \in W THEN Boots(tab[t], u) ELSE tab[t]
              b == IF "beat" \in W THEN Beats(a, u) ELSE a
              d == IF "call" \in W THEN Retries(b, u) ELSE b
              e == IF "exit" \in W THEN Exits(d, u) ELSE d
  <2>1. u \in Anyone
    BY <1>0 DEF FlightState
  <2>2. a \in TabState
    BY <1>0, <2>1, AfterRefreshType
  <2>3. b \in TabState
    BY <2>1, <2>2, AfterRefreshType
  <2>4. d \in TabState
    BY <2>1, <2>3, AfterRefreshType
  <2>5. e \in TabState
    BY <2>1, <2>4, AfterRefreshType
  <2>6. tab' = [tab EXCEPT ![t] = e]
    BY <1>6 DEF Resume
  <2>7. tab' \in [Tabs -> TabState]
    BY <2>5, <2>6 DEF TypeOK
  <2>8. flight' \in [Clients -> FlightState]
    BY <1>0, <1>6 DEF Resume, TypeOK
  <2>. QED  BY <1>1, <1>6, <2>7, <2>8 DEF Resume, TypeOK
<1>. QED  BY <1>2, <1>3, <1>4, <1>5, <1>6 DEF Settling

\* Steps of a sign-in, a sign-out or a support session.
LEMMA SigningType ==
    ASSUME TypeOK, NEW t \in Tabs, Proceeds(t) \/ CallFails(t) \/ Deliver(t)
    PROVE  TypeOK'
<1>. USE DEF history, browser
<1>0. /\ tab[t] \in TabState /\ call[t] \in CallState /\ NoCall \in CallState
      /\ call[t].who \in Anyone /\ call[t].sent \in Numbers /\ call[t].row \in Numbers
      /\ 0 \in Numbers /\ Host(t) \in Clients
  BY ClientsAre, NoCallType, RowsAre DEF TypeOK, CallState, Numbers
<1>1. UNCHANGED rows => Numbers' = Numbers /\ RowState' = RowState
                        /\ FlightState' = FlightState /\ CallState' = CallState
  BY DEF Numbers, RowState, FlightState, CallState
<1>2. NoCall.op = "none"
  BY DEF NoCall
<1>3. CASE ServeCall(t)
  <2>1. Grows /\ \E m \in Numbers' :
           call' = [call EXCEPT ![t].phase = "answered", ![t].row = m]
    <3>1. CASE call[t].op = "login"
      <4>1. call[t].who \in Users /\ Login(call[t].who)
        BY <1>3, <3>1 DEF ServeCall, TypeOK
      <4>2. /\ Len(rows') = Len(rows) + 1 /\ rows' \in Seq(RowState')
            /\ \A n \in 1 .. Len(rows) : rows'[n] = rows[n]
        BY <4>1, LoginRows
      <4>3. Grows /\ Issued \in Numbers'
        BY <4>2, RowsAre DEF Grows, Issued, Numbers
      <4>. QED  BY <1>3, <3>1, <4>3 DEF ServeCall
    <3>2. CASE call[t].op = "logout"
      <4>1. Logout(call[t].sent)
        BY <1>3, <3>2 DEF ServeCall
      <4>2. Grows /\ Numbers' = Numbers
        BY <1>0, <4>1, LogoutRows, WeakerGrows
      <4>. QED  BY <1>0, <1>3, <3>2, <4>2 DEF ServeCall
    <3>3. CASE call[t].op \notin {"login", "logout"}
      <4>1. Grows /\ Numbers' = Numbers
        BY <1>3, <3>3, SameRows, WeakerGrows DEF ServeCall
      <4>. QED  BY <1>0, <1>3, <3>3, <4>1 DEF ServeCall
    <3>. QED  BY <3>1, <3>2, <3>3
  <2>2. PICK m \in Numbers' : call' = [call EXCEPT ![t].phase = "answered", ![t].row = m]
    BY <2>1
  <2>3. call[t] \in CallState' /\ call \in [Tabs -> CallState']
    BY <1>0, <2>1, FlightGrows
  <2>4. /\ [[call[t] EXCEPT !.phase = "answered"] EXCEPT !.row = m] \in CallState'
        /\ [[call[t] EXCEPT !.phase = "answered"] EXCEPT !.row = m].op = call[t].op
        /\ [[call[t] EXCEPT !.phase = "answered"] EXCEPT !.row = m].who = call[t].who
    BY <2>2, <2>3 DEF CallState
  <2>5. call' = [call EXCEPT ![t] = [[call[t] EXCEPT !.phase = "answered"] EXCEPT !.row = m]]
    BY <2>2, <2>3
  <2>6. call' \in [Tabs -> CallState']
        /\ \A s \in Tabs : call'[s].op \in {"login", "start"} => call'[s].who \in Users
    BY <2>3, <2>4, <2>5 DEF TypeOK
  <2>. QED  BY <1>3, <2>1, <2>6, FlightGrows DEF ServeCall, Grows, TypeOK
<1>4. ASSUME call' = [call EXCEPT ![t] = NoCall], UNCHANGED rows
      PROVE  call' \in [Tabs -> CallState]
             /\ \A s \in Tabs : call'[s].op \in {"login", "start"} => call'[s].who \in Users
  BY <1>0, <1>2, <1>4 DEF TypeOK
<1>5. ASSUME NEW msg \in Message, Tells(t, msg) PROVE inbox' \in [Tabs -> Seq(Message)]
  BY <1>5, PostedType DEF Tells
<1>6. CASE LoggedIn(t)
  <2>1. call[t].who \in Users
    BY <1>6 DEF LoggedIn, TypeOK
  <2>2. call[t].who \in Anyone /\ Own(call[t].who) \in Token
    BY <1>0, Nobody
  <2>3. [type |-> "login", user |-> call[t].who, from |-> Host(t)] \in Message
    BY <1>0 DEF Message
  <2>4. inbox' \in [Tabs -> Seq(Message)]
    BY <1>5, <1>6, <2>3 DEF LoggedIn
  <2>5. PICK x \in TabState : x = IF tab[t].user = NoOne THEN Unmounted(tab[t]) ELSE tab[t]
    BY <1>0, UnmountedType
  <2>6. SignedIn(x, call[t].who, Own(call[t].who)) \in TabState
    BY <2>2, SignedInType
  <2>7. tab' \in [Tabs -> TabState]
    BY <1>6, <2>5, <2>6 DEF LoggedIn, TypeOK
  <2>. QED  BY <1>0, <1>1, <1>4, <1>6, <2>2, <2>4, <2>7 DEF LoggedIn, TypeOK
<1>7. ASSUME LogsOut(t)
      PROVE  /\ tab' \in [Tabs -> TabState] /\ inbox' \in [Tabs -> Seq(Message)]
             /\ last' \in Anyone
  <2>1. [type |-> "logout", user |-> NoOne, from |-> Host(t)] \in Message
    BY <1>0, Nobody DEF Message
  <2>2. inbox' \in [Tabs -> Seq(Message)]
    BY <1>5, <1>7, <2>1 DEF LogsOut
  <2>3. tab' \in [Tabs -> TabState]
    BY <1>0, <1>7, SignedOutType DEF LogsOut, TypeOK
  <2>. QED  BY <1>7, <2>2, <2>3, Nobody DEF LogsOut
<1>8. CASE LoggedOut(t)
  BY <1>0, <1>1, <1>4, <1>7, <1>8 DEF LoggedOut, LogsOut, TypeOK
<1>9. CASE SupportStarts(t)
  <2>. DEFINE u == call[t].who
              token == [sub |-> u, support |-> TRUE]
              from == [user |-> IF tab[t].user = NoOne THEN tab[t].original.user ELSE tab[t].user,
                       token |-> IF tab[t].token = NoToken THEN tab[t].original.token
                                                          ELSE tab[t].token]
  <2>1. u \in Anyone /\ token \in Token /\ from \in [user : Anyone, token : Token]
    BY <1>0, TabFields DEF Token
  <2>2. PICK x \in TabState : x = SignedIn(tab[t], u, token)
    BY <1>0, <2>1, SignedInType
  <2>3. PICK y \in TabState : y = Unmounted(x)
    BY UnmountedType
  <2>. HIDE DEF u, token, from
  <2>4. [[[y EXCEPT !.page = "settings"] EXCEPT !.asked = u] EXCEPT !.original = from] \in TabState
    BY <2>1 DEF TabState
  <2>5. tab' = [tab EXCEPT ![t] =
           [[[y EXCEPT !.page = "settings"] EXCEPT !.asked = u] EXCEPT !.original = from]]
    BY <1>9, <2>2, <2>3 DEF SupportStarts, u, token, from
  <2>6. tab' \in [Tabs -> TabState]
    BY <2>4, <2>5 DEF TypeOK
  <2>. QED  BY <1>0, <1>1, <1>4, <1>9, <2>6 DEF SupportStarts, TypeOK
<1>10. CASE CallFails(t)
  <2>1. left' \in Budget
    BY <1>10, Spent DEF CallFails
  <2>2. CASE call[t].op = "logout"
    BY <1>0, <1>1, <1>4, <1>7, <1>10, <2>1, <2>2 DEF CallFails, LogsOut, TypeOK
  <2>3. CASE call[t].op # "logout"
    BY <1>0, <1>1, <1>4, <1>10, <2>1, <2>3 DEF CallFails, TypeOK
  <2>. QED  BY <2>2, <2>3
<1>11. CASE Deliver(t)
  <2>. DEFINE m == Head(inbox[t])
  <2>1. inbox[t] \in Seq(Message) /\ inbox[t] # <<>>
    BY <1>11 DEF Deliver, TypeOK
  <2>2. m \in Message /\ Tail(inbox[t]) \in Seq(Message)
    BY <2>1, Shorter
  <2>3. m.user \in Anyone /\ Own(m.user) \in Token /\ m.type \in {"done", "login", "logout"}
    BY <2>2, Nobody DEF Message
  <2>4. inbox' \in [Tabs -> Seq(Message)]
    BY <1>11, <2>2 DEF Deliver, TypeOK
  <2>5. [tab[t] EXCEPT !.token = Own(m.user)] \in TabState
    BY <1>0, <2>3 DEF TabState
  <2>6. SignedIn(tab[t], m.user, Own(m.user)) \in TabState /\ SignedOut(tab[t]) \in TabState
    BY <1>0, <2>3, SignedInType, SignedOutType
  <2>. HIDE DEF m
  <2>7. CASE m.type = "done"
    <3>1. /\ recent' = [c \in Clients |-> IF c[1] = t /\ c # m.from THEN m.user ELSE recent[c]]
          /\ tab' = [tab EXCEPT ![t].token = Own(m.user)]
      BY <1>11, <2>7 DEF Deliver, m
    <3>2. recent' \in [Clients -> Anyone] /\ tab' \in [Tabs -> TabState]
      BY <2>3, <2>5, <3>1 DEF TypeOK
    <3>. QED  BY <1>0, <1>1, <1>11, <2>4, <3>2 DEF Deliver, TypeOK
  <2>8. CASE m.type = "login"
    <3>1. tab' = [tab EXCEPT ![t] = SignedIn(tab[t], m.user, Own(m.user))] /\ UNCHANGED recent
      BY <1>11, <2>8 DEF Deliver, m
    <3>2. tab' \in [Tabs -> TabState]
      BY <2>6, <3>1 DEF TypeOK
    <3>. QED  BY <1>0, <1>1, <1>11, <2>4, <3>1, <3>2 DEF Deliver, TypeOK
  <2>9. CASE m.type = "logout"
    <3>1. tab' = [tab EXCEPT ![t] = SignedOut(tab[t])] /\ UNCHANGED recent
      BY <1>11, <2>9 DEF Deliver, m
    <3>2. tab' \in [Tabs -> TabState]
      BY <2>6, <3>1 DEF TypeOK
    <3>. QED  BY <1>0, <1>1, <1>11, <2>4, <3>1, <3>2 DEF Deliver, TypeOK
  <2>. QED  BY <2>3, <2>7, <2>8, <2>9
<1>. QED  BY <1>3, <1>6, <1>8, <1>9, <1>10, <1>11 DEF Proceeds

\* What users and pages do, reloads, and what happens elsewhere.
LEMMA SignsType ==
    ASSUME TypeOK, NEW t \in Tabs, Signs(t)
    PROVE  TypeOK'
<1>. USE DEF history, browser
<1>1. UNCHANGED rows => Numbers' = Numbers /\ RowState' = RowState
                        /\ FlightState' = FlightState /\ CallState' = CallState
  BY DEF Numbers, RowState, FlightState, CallState
<1>2. ASSUME NEW op \in {"login", "logout", "start"}, NEW who \in Anyone, Calls(t, op, who),
             op # "logout" => who \in Users
      PROVE  call' \in [Tabs -> CallState]
             /\ \A s \in Tabs : call'[s].op \in {"login", "start"} => call'[s].who \in Users
  <2>1. call' \in [Tabs -> CallState]
    BY <1>2, CallsType
  <2>2. \A s \in Tabs \ {t} : call'[s] = call[s]
    BY <1>2 DEF Calls, TypeOK
  <2>3. call'[t].op = op /\ call'[t].who = who
    BY <1>2 DEF Calls, TypeOK
  <2>. QED  BY <1>2, <2>1, <2>2, <2>3 DEF TypeOK
<1>3. ASSUME NEW u \in Users, SignIn(t, u) PROVE TypeOK'
  <2>1. left' \in Budget
    BY <1>3, Spent DEF SignIn
  <2>2. call' \in [Tabs -> CallState]
        /\ \A s \in Tabs : call'[s].op \in {"login", "start"} => call'[s].who \in Users
    BY <1>2, <1>3 DEF SignIn, Anyone
  <2>3. crossed' \in BOOLEAN
    BY <1>3 DEF SignIn
  <2>. QED  BY <1>1, <1>3, <2>1, <2>2, <2>3 DEF SignIn, TypeOK
<1>4. ASSUME NEW u \in Users, StartSupport(t, u) PROVE TypeOK'
  <2>1. left' \in Budget
    BY <1>4, Spent DEF StartSupport
  <2>2. call' \in [Tabs -> CallState]
        /\ \A s \in Tabs : call'[s].op \in {"login", "start"} => call'[s].who \in Users
    BY <1>2, <1>4 DEF StartSupport, Anyone
  <2>3. crossed' \in BOOLEAN
    BY <1>4 DEF StartSupport
  <2>. QED  BY <1>1, <1>4, <2>1, <2>2, <2>3 DEF StartSupport, TypeOK
<1>5. CASE SignOut(t)
  <2>1. left' \in Budget
    BY <1>5, Spent DEF SignOut
  <2>2. call' \in [Tabs -> CallState]
        /\ \A s \in Tabs : call'[s].op \in {"login", "start"} => call'[s].who \in Users
    BY <1>2, <1>5, Nobody DEF SignOut
  <2>3. crossed' \in BOOLEAN
    BY <1>5 DEF SignOut
  <2>. QED  BY <1>1, <1>5, <2>1, <2>2, <2>3 DEF SignOut, TypeOK
<1>6. CASE ChangePassword(t)
  <2>1. left' \in Budget
    BY <1>6, Spent DEF ChangePassword
  <2>2. Grows /\ Numbers' = Numbers
    BY <1>6, RevokedRows, WeakerGrows DEF ChangePassword
  <2>3. RowState' = RowState /\ FlightState' = FlightState /\ CallState' = CallState
    BY <2>2 DEF RowState, FlightState, CallState
  <2>4. 0 \in Numbers
    BY RowsAre DEF Numbers
  <2>5. [NoCall EXCEPT !.op = "logout", !.phase = "sent"] \in CallState
        /\ [NoCall EXCEPT !.op = "logout", !.phase = "sent"].op = "logout"
    BY <2>4, Nobody DEF NoCall, CallState
  <2>6. call' = [call EXCEPT ![t] = [NoCall EXCEPT !.op = "logout", !.phase = "sent"]]
    BY <1>6 DEF ChangePassword
  <2>7. call' \in [Tabs -> CallState]
        /\ \A s \in Tabs : call'[s].op \in {"login", "start"} => call'[s].who \in Users
    BY <2>5, <2>6 DEF TypeOK
  <2>8. crossed' \in BOOLEAN
    BY <1>6 DEF ChangePassword
  <2>. QED  BY <1>6, <2>1, <2>2, <2>3, <2>4, <2>7, <2>8 DEF ChangePassword, Grows, TypeOK
<1>7. CASE ExitSupport(t)
  <2>1. Host(t) \in Clients /\ Awaits(Host(t), "exit")
    BY <1>7, ClientsAre DEF ExitSupport
  <2>2. flight' \in [Clients -> FlightState] /\ lock' \in Seq(Clients) /\ crossed' \in BOOLEAN
    BY <2>1, AwaitsType DEF Waiter
  <2>. QED  BY <1>1, <1>7, <2>1, <2>2 DEF ExitSupport, Awaits, TypeOK
<1>. QED  BY <1>3, <1>4, <1>5, <1>6, <1>7 DEF Signs

LEMMA RefreshesType ==
    ASSUME TypeOK, NEW t \in Tabs, Refreshes(t)
    PROVE  TypeOK'
<1>. USE DEF history, browser
<1>1. UNCHANGED rows => Numbers' = Numbers /\ RowState' = RowState
                        /\ FlightState' = FlightState /\ CallState' = CallState
  BY DEF Numbers, RowState, FlightState, CallState
<1>2. ASSUME NEW c \in Clients, NEW why \in Waiter, Awaits(c, why), UNCHANGED tab,
             left' \in Budget
      PROVE  TypeOK'
  <2>1. flight' \in [Clients -> FlightState] /\ lock' \in Seq(Clients) /\ crossed' \in BOOLEAN
    BY <1>2, AwaitsType
  <2>. QED  BY <1>1, <1>2, <2>1 DEF Awaits, TypeOK
<1>3. CASE Heartbeat(t)
  BY <1>2, <1>3, ClientsAre, Spent DEF Heartbeat, Waiter
<1>4. CASE Unauthorized(t)
  BY <1>2, <1>4, Spent DEF Unauthorized, Waiter
<1>5. CASE Reload(t)
  <2>. DEFINE G == [c \in Clients |-> IF c \in {d \in Clients : d[1] = t} THEN NoFlight
                                      ELSE flight[c]]
  <2>1. left' \in Budget
    BY <1>5, Spent DEF Reload
  <2>2. Host(t) \in Clients /\ NoFlight \in FlightState /\ NoCall \in CallState
    BY ClientsAre, NoCallType
  <2>3. G \in [Clients -> FlightState]
    BY <2>2 DEF TypeOK
  <2>4. flight' = Awaited(G, Host(t), "boot")
    BY <1>5 DEF Reload
  <2>. HIDE DEF G
  <2>5. flight' \in [Clients -> FlightState]
    <3>1. [NoFlight EXCEPT !.phase = "queued", !.for = {"boot"}] \in FlightState
      BY <2>2 DEF NoFlight, FlightState, Waiter
    <3>2. G[Host(t)] \in FlightState
      BY <2>2, <2>3
    <3>3. [G[Host(t)] EXCEPT !.for = G[Host(t)].for \cup {"boot"}] \in FlightState
      BY <3>2 DEF FlightState, Waiter
    <3>4. flight' = [G EXCEPT ![Host(t)] = IF G[Host(t)].phase = "idle"
                       THEN [NoFlight EXCEPT !.phase = "queued", !.for = {"boot"}]
                       ELSE [G[Host(t)] EXCEPT !.for = G[Host(t)].for \cup {"boot"}]]
      BY <2>4 DEF Awaited
    <3>. QED  BY <2>3, <3>1, <3>3, <3>4
  <2>6. lock' \in Seq(Clients)
    BY <1>5, <2>2, LeftToType, Appended DEF Reload
  <2>7. tab' \in [Tabs -> TabState]
    BY <1>5, FreshType DEF Reload, TypeOK
  <2>8. call' \in [Tabs -> CallState]
        /\ \A s \in Tabs : call'[s].op \in {"login", "start"} => call'[s].who \in Users
    <3>1. call' = [call EXCEPT ![t] = NoCall] /\ NoCall.op = "none"
      BY <1>5 DEF Reload, NoCall
    <3>. QED  BY <2>2, <3>1 DEF TypeOK
  <2>9. recent' \in [Clients -> Anyone]
    BY <1>5, Nobody DEF Reload, TypeOK
  <2>10. inbox' \in [Tabs -> Seq(Message)]
    BY <1>5 DEF Reload, TypeOK
  <2>11. crossed' \in BOOLEAN
    BY <1>5 DEF Reload
  <2>. QED  BY <1>1, <1>5, <2>1, <2>5, <2>6, <2>7, <2>8, <2>9, <2>10, <2>11 DEF Reload, TypeOK
<1>. QED  BY <1>3, <1>4, <1>5 DEF Refreshes

LEMMA SettingsType ==
    ASSUME TypeOK, NEW t \in Tabs, Settings(t)
    PROVE  TypeOK'
<1>. USE DEF history, browser
<1>0. tab[t] \in TabState
  BY DEF TypeOK
<1>1. UNCHANGED rows => Numbers' = Numbers /\ RowState' = RowState
                        /\ FlightState' = FlightState /\ CallState' = CallState
  BY DEF Numbers, RowState, FlightState, CallState
<1>2. CASE OpenSettings(t)
  <2>1. left' \in Budget
    BY <1>2, Spent DEF OpenSettings
  <2>2. tab[t].token.sub \in Anyone
    BY <1>0 DEF TabState, Token
  <2>3. [[tab[t] EXCEPT !.page = "settings"] EXCEPT !.asked = tab[t].token.sub] \in TabState
    BY <1>0, <2>2 DEF TabState
  <2>4. tab' = [tab EXCEPT ![t] =
           [[tab[t] EXCEPT !.page = "settings"] EXCEPT !.asked = tab[t].token.sub]]
    BY <1>2 DEF OpenSettings, TypeOK
  <2>5. tab' \in [Tabs -> TabState]
    BY <2>3, <2>4 DEF TypeOK
  <2>. QED  BY <1>1, <1>2, <2>1, <2>5 DEF OpenSettings, TypeOK
<1>3. CASE ProfileArrives(t)
  <2>1. [[tab[t] EXCEPT !.profile = tab[t].asked] EXCEPT !.asked = NoOne] \in TabState
    BY <1>0, Nobody DEF TabState
  <2>2. tab' = [tab EXCEPT ![t] = [[tab[t] EXCEPT !.profile = tab[t].asked] EXCEPT !.asked = NoOne]]
    BY <1>3 DEF ProfileArrives, TypeOK
  <2>3. tab' \in [Tabs -> TabState]
    BY <2>1, <2>2 DEF TypeOK
  <2>. QED  BY <1>1, <1>3, <2>3 DEF ProfileArrives, TypeOK
<1>4. CASE LeaveSettings(t)
  <2>1. tab' \in [Tabs -> TabState]
    BY <1>0, <1>4, UnmountedType DEF LeaveSettings, TypeOK
  <2>. QED  BY <1>1, <1>4, <2>1 DEF LeaveSettings, TypeOK
<1>5. CASE SaveProfile(t)
  <2>. DEFINE left2 == IF tab[t].asked = NoOne THEN tab[t].turned \ {"profile"} ELSE tab[t].turned
  <2>1. left2 \in SUBSET {"profile", "prefs"} /\ tab[t].user \in Anyone
    BY <1>0, TabFields
  <2>. HIDE DEF left2
  <2>2. [[tab[t] EXCEPT !.profile = tab[t].user] EXCEPT !.turned = left2] \in TabState
    BY <1>0, <2>1 DEF TabState
  <2>3. tab' = [tab EXCEPT ![t] = [[tab[t] EXCEPT !.profile = tab[t].user] EXCEPT !.turned = left2]]
    BY <1>0, <1>5 DEF SaveProfile, TypeOK, TabState, left2
  <2>4. tab' \in [Tabs -> TabState]
    BY <2>2, <2>3 DEF TypeOK
  <2>. QED  BY <1>1, <1>5, <2>4 DEF SaveProfile, TypeOK
<1>6. CASE SavePreferences(t)
  BY <1>1, <1>6 DEF SavePreferences, TypeOK
<1>. QED  BY <1>2, <1>3, <1>4, <1>5, <1>6 DEF Settings

\* A step of the service or of time alone.
LEMMA ElsewhereType ==
    ASSUME TypeOK,
           \/ Ages
           \/ \E n \in DOMAIN rows : GraceLapses(n)
           \/ \E u \in Users : Revokes(u)
           \/ UNCHANGED vars
    PROVE  TypeOK'
<1>. USE DEF history, browser
<1>1. CASE Ages \/ UNCHANGED vars
  <2>1. Numbers' = Numbers /\ RowState' = RowState
        /\ FlightState' = FlightState /\ CallState' = CallState
    BY <1>1 DEF Numbers, RowState, FlightState, CallState, Ages, vars
  <2>2. CASE Ages
    BY <2>1, <2>2, Nobody DEF Ages, TypeOK
  <2>3. CASE UNCHANGED vars
    BY <2>1, <2>3 DEF vars, TypeOK
  <2>. QED  BY <1>1, <2>2, <2>3
<1>2. ASSUME NEW n \in DOMAIN rows, GraceLapses(n) PROVE TypeOK'
  <2>1. Grows /\ Numbers' = Numbers
    BY <1>2, GraceRows, WeakerGrows
  <2>2. RowState' = RowState /\ FlightState' = FlightState /\ CallState' = CallState
    BY <2>1 DEF RowState, FlightState, CallState
  <2>. QED  BY <1>2, <2>1, <2>2 DEF GraceLapses, Grows, TypeOK
<1>3. ASSUME NEW u \in Users, Revokes(u) PROVE TypeOK'
  <2>1. Grows /\ Numbers' = Numbers
    BY <1>3, RevokedRows, WeakerGrows DEF Revokes
  <2>2. RowState' = RowState /\ FlightState' = FlightState /\ CallState' = CallState
    BY <2>1 DEF RowState, FlightState, CallState
  <2>3. left' \in Budget
    BY <1>3, Spent DEF Revokes
  <2>. QED  BY <1>3, <2>1, <2>2, <2>3 DEF Revokes, Grows, TypeOK
<1>. QED  BY <1>1, <1>2, <1>3

LEMMA OpenAreTabs == TypeOK => Open \subseteq Tabs
  BY DEF TypeOK, Budget, Open

LEMMA TypeStep == TypeOK /\ LockInv /\ [Next]_vars => TypeOK'
  BY SettlingType, SigningType, SignsType, RefreshesType, SettingsType, ElsewhereType,
     OpenAreTabs
  DEF Next

-----------------------------------------------------------------------------
(* The lock                                                                *)

LEMMA AwaitedFlight ==
    ASSUME TypeOK, NEW c \in Clients, NEW why \in Waiter, Awaits(c, why)
    PROVE  /\ flight'[c].phase = IF Idle(c) THEN "queued" ELSE flight[c].phase
           /\ flight'[c].sent = IF Idle(c) THEN 0 ELSE flight[c].sent
           /\ flight'[c].row = IF Idle(c) THEN 0 ELSE flight[c].row
           /\ flight'[c].got = IF Idle(c) THEN NoOne ELSE flight[c].got
           /\ \A d \in Clients \ {c} : flight'[d] = flight[d]
<1>1. flight[c] \in FlightState
  BY DEF TypeOK
<1>2. flight' = [flight EXCEPT ![c] =
         IF flight[c].phase = "idle" THEN [NoFlight EXCEPT !.phase = "queued", !.for = {why}]
         ELSE [flight[c] EXCEPT !.for = flight[c].for \cup {why}]]
  BY DEF Awaits, Awaited
<1>3. \A d \in Clients \ {c} : flight'[d] = flight[d]
  BY <1>2 DEF TypeOK
<1>4. CASE Idle(c)
  <2>1. flight'[c] = [NoFlight EXCEPT !.phase = "queued", !.for = {why}]
    BY <1>2, <1>4 DEF TypeOK, Idle
  <2>. QED  BY <1>3, <1>4, <2>1 DEF NoFlight
<1>5. CASE ~Idle(c)
  <2>1. flight'[c] = [flight[c] EXCEPT !.for = flight[c].for \cup {why}]
    BY <1>2, <1>5 DEF TypeOK, Idle
  <2>. QED  BY <1>1, <1>3, <1>5, <2>1 DEF FlightState
<1>. QED  BY <1>4, <1>5

\* A reload drops the refreshes of its tab and begins one.
LEMMA ReloadedFlight ==
    ASSUME TypeOK, NEW t \in Tabs, Reload(t)
    PROVE  /\ flight'[Host(t)].phase = "queued" /\ flight'[Host(t)].for = {"boot"}
           /\ flight'[Host(t)].sent = 0 /\ flight'[Host(t)].row = 0
           /\ flight'[Host(t)].got = NoOne
           /\ \A c \in Clients : c[1] = t /\ c # Host(t) => flight'[c] = NoFlight
           /\ \A c \in Clients : c[1] # t => flight'[c] = flight[c]
<1>. DEFINE G == [c \in Clients |-> IF c \in {d \in Clients : d[1] = t} THEN NoFlight
                                    ELSE flight[c]]
<1>1. flight' = Awaited(G, Host(t), "boot")
  BY DEF Reload
<1>2. Host(t) \in Clients /\ G[Host(t)] = NoFlight
  BY ClientsAre
<1>3. flight' = [G EXCEPT ![Host(t)] = [NoFlight EXCEPT !.phase = "queued", !.for = {"boot"}]]
  <2>1. G[Host(t)].phase = "idle"
    BY <1>2 DEF NoFlight
  <2>. QED  BY <1>1, <2>1 DEF Awaited
<1>4. flight'[Host(t)] = [NoFlight EXCEPT !.phase = "queued", !.for = {"boot"}]
  BY <1>2, <1>3
<1>5. \A c \in Clients \ {Host(t)} : flight'[c] = G[c]
  BY <1>3
<1>. QED  BY <1>2, <1>4, <1>5, ClientsAre DEF NoFlight

\* What an action does to the refreshes and the lock, unless it leaves both alone.
FlightsAlone == UNCHANGED <<flight, lock>>

LEMMA Alone ==
    ASSUME NEW t \in Tabs,
           \/ Proceeds(t) \/ CallFails(t) \/ Deliver(t) \/ Settings(t)
           \/ Signs(t) /\ ~ExitSupport(t)
           \/ Ages
           \/ \E n \in DOMAIN rows : GraceLapses(n)
           \/ \E u \in Users : Revokes(u)
           \/ UNCHANGED vars
    PROVE  FlightsAlone
  BY DEF FlightsAlone, Proceeds, ServeCall, LoggedIn, LoggedOut, LogsOut, SupportStarts,
         CallFails, Deliver, Settings, OpenSettings, ProfileArrives, LeaveSettings,
         SaveProfile, SavePreferences, Signs, SignIn, StartSupport, SignOut, ChangePassword,
         Ages, GraceLapses, Revokes, browser, vars

LEMMA LockOne ==
    ASSUME LockInv, NEW c \in Clients, NEW d \in Clients, HoldsLock(c), c # d
    PROVE  ~AtService(d)
  BY DEF LockInv, HoldsLock

LEMMA AwaitsLock ==
    ASSUME TypeOK, LockInv, NEW c \in Clients, NEW why \in Waiter, Awaits(c, why)
    PROVE  LockInv'
<1>. SUFFICES ASSUME NEW d \in Clients, AtService(d)' PROVE HoldsLock(d)'
  BY DEF LockInv
<1>1. AtService(d)
  BY AwaitedFlight DEF AtService, Idle
<1>2. lock # <<>> /\ lock[1] = d /\ lock \in Seq(Clients)
  BY <1>1 DEF LockInv, HoldsLock, TypeOK
<1>3. lock' \in {lock, Append(lock, c)}
  BY DEF Awaits, Queued
<1>4. Append(lock, c) # <<>> /\ Append(lock, c)[1] = lock[1]
  BY <1>2
<1>. QED  BY <1>2, <1>3, <1>4 DEF HoldsLock

LEMMA SettlingLock ==
    ASSUME TypeOK, LockInv, NEW c \in Clients, Settling(c) \/ RefreshFails(c)
    PROVE  LockInv'
<1>1. \A d \in Clients \ {c} : flight'[d] = flight[d]
  BY DEF Settling, Granted, ServeRefresh, Answers, RefreshAnswered, RefreshFails, Resume, TypeOK
<1>2. flight[c] \in FlightState
  BY DEF TypeOK
<1>3. CASE Granted(c)
  <2>1. HoldsLock(c) /\ ~AtService(c)
    BY <1>3, Shorter DEF Granted, Turn, HoldsLock, AtService, TypeOK
  <2>2. \A d \in Clients : ~AtService(d)
    BY <2>1, LockOne
  <2>3. \A d \in Clients \ {c} : ~AtService(d)'
    BY <1>1, <2>2 DEF AtService
  <2>4. CASE lock' = lock
    BY <2>1, <2>3, <2>4 DEF LockInv, HoldsLock
  <2>5. CASE flight' = [flight EXCEPT ![c].phase = "settled", ![c].got = recent[c]]
    <3>1. ~AtService(c)'
      BY <1>2, <2>5 DEF AtService, FlightState, TypeOK
    <3>. QED  BY <2>3, <3>1 DEF LockInv
  <2>. QED  BY <1>3, <2>4, <2>5 DEF Granted
<1>4. CASE ServeRefresh(c)
  <2>1. lock' = lock /\ HoldsLock(c)
    BY <1>4 DEF ServeRefresh, LockInv, AtService
  <2>2. \A d \in Clients \ {c} : ~AtService(d)'
    BY <1>1, <2>1, LockOne DEF AtService
  <2>. QED  BY <2>1, <2>2 DEF LockInv, HoldsLock
<1>5. CASE RefreshAnswered(c) \/ RefreshFails(c)
  <2>1. HoldsLock(c)
    BY <1>5 DEF RefreshAnswered, RefreshFails, LockInv, AtService
  <2>2. \A d \in Clients \ {c} : ~AtService(d)'
    BY <1>1, <2>1, LockOne DEF AtService
  <2>3. flight'[c].phase = "settled"
    <3>1. CASE RefreshAnswered(c)
      BY <1>2, <3>1 DEF RefreshAnswered, FlightState, TypeOK
    <3>2. CASE RefreshFails(c)
      BY <1>2, <3>2 DEF RefreshFails, FlightState, TypeOK
    <3>. QED  BY <1>5, <3>1, <3>2
  <2>. QED  BY <2>2, <2>3 DEF LockInv, AtService
<1>6. CASE Resume(c)
  <2>1. flight'[c].phase = "idle" /\ lock' = lock
    BY <1>6 DEF Resume, NoFlight, TypeOK
  <2>. QED  BY <1>1, <2>1 DEF LockInv, AtService, HoldsLock
<1>. QED  BY <1>3, <1>4, <1>5, <1>6 DEF Settling

LEMMA ReloadLock ==
    ASSUME TypeOK, LockInv, NEW t \in Tabs, Reload(t)
    PROVE  LockInv'
<1>. SUFFICES ASSUME NEW d \in Clients, AtService(d)' PROVE HoldsLock(d)'
  BY DEF LockInv
<1>1. d[1] # t /\ AtService(d)
  BY ReloadedFlight DEF AtService, NoFlight
<1>2. lock \in Seq(Clients) /\ lock # <<>> /\ lock[1] = d /\ Host(t) \in Clients
  BY <1>1, ClientsAre DEF LockInv, HoldsLock, TypeOK
<1>3. d # Host(t) /\ d # Remote(t)
  BY <1>1 DEF Host, Remote
<1>4. PICK s \in Seq(Clients) : s = Without(lock, Host(t)) /\ s # <<>> /\ s[1] = d
  BY <1>2, <1>3, WithoutOne
<1>5. PICK r \in Seq(Clients) : r = Without(s, Remote(t)) /\ r # <<>> /\ r[1] = d
  BY <1>3, <1>4, WithoutOne
<1>6. lock' = Append(r, Host(t))
  BY <1>4, <1>5 DEF Reload, LeftTo
<1>7. Append(r, Host(t)) # <<>> /\ Append(r, Host(t))[1] = r[1]
  BY <1>2, <1>5
<1>. QED  BY <1>5, <1>6, <1>7 DEF HoldsLock

LEMMA LockStep == TypeOK /\ LockInv /\ [Next]_vars => LockInv'
<1>. SUFFICES ASSUME TypeOK, LockInv, [Next]_vars PROVE LockInv'
  OBVIOUS
<1>1. CASE FlightsAlone
  BY <1>1 DEF FlightsAlone, LockInv, AtService, HoldsLock
<1>2. ASSUME NEW t \in Tabs, ExitSupport(t) PROVE LockInv'
  BY <1>2, AwaitsLock, ClientsAre DEF ExitSupport, Waiter
<1>3. ASSUME NEW t \in Tabs, Heartbeat(t) \/ Unauthorized(t) PROVE LockInv'
  BY <1>3, AwaitsLock, ClientsAre DEF Heartbeat, Unauthorized, Waiter
<1>4. ASSUME NEW t \in Tabs, Refreshes(t) PROVE LockInv'
  BY <1>3, <1>4, ReloadLock DEF Refreshes
<1>5. UNCHANGED vars \/ Ages \/ (\E n \in DOMAIN rows : GraceLapses(n))
         \/ (\E u \in Users : Revokes(u)) => FlightsAlone
  BY DEF FlightsAlone, Ages, GraceLapses, Revokes, browser, vars
<1>6. ASSUME NEW t \in Tabs, Proceeds(t) \/ CallFails(t) \/ Deliver(t) \/ Settings(t) \/ Signs(t)
      PROVE  LockInv'
  BY <1>1, <1>2, <1>6, Alone
<1>. QED  BY <1>1, <1>4, <1>5, <1>6, SettlingLock, OpenAreTabs DEF Next

LEMMA LockInit == Init => LockInv
  BY DEF Init, LockInv, AtService, NoFlight

\* The type invariant: refreshes, sign-ins, reloads, support sessions and the settings
\* page keep tokens, tabs, broadcasts and the lock well formed; that those who wait for
\* the lock take turns is part of it.
THEOREM TypeCorrect == Spec => []TypeOK
  BY TypeInit, TypeStep, LockInit, LockStep, PTL DEF Spec

-----------------------------------------------------------------------------
(* Replays: the browser's token is the newest of its family it has heard of *)

\* The service's rows: families grow at their end, and a rotated token names the one
\* that replaced it.
RowsInv ==
    \A n \in DOMAIN rows :
        /\ rows[n].fam \in 1 .. n
        /\ rows[n].st = "used" \/ rows[n].grace => rows[n].next # 0
        /\ rows[n].next # 0 =>
             /\ rows[n].next \in n + 1 .. Len(rows)
             /\ rows[rows[n].next].fam = rows[n].fam
             /\ rows[rows[n].next].user = rows[n].user

\* An answer to a refresh is of the family asked for, an answer to a sign-in of who asked.
SentInv ==
    /\ \A c \in Clients : flight[c].phase = "answered" /\ flight[c].row # 0 =>
          /\ flight[c].sent # 0
          /\ rows[flight[c].row].user = rows[flight[c].sent].user
    /\ \A t \in Tabs : call[t].op = "login" /\ call[t].phase = "answered" =>
          call[t].row # 0 /\ rows[call[t].row].user = call[t].who
    /\ \A t \in Tabs : call[t].op # "login" => call[t].row = 0

\* m came after n in the same family.
After(m, n) == m \in DOMAIN rows /\ rows[m].fam = rows[n].fam /\ n < m
Carried(m) == \E c \in Clients : flight[c].phase = "answered" /\ flight[c].row = m

\* The browser's token is the newest of its family it has heard of: what came after
\* it was lost, or is in an answer on its way.
NewestInv ==
    /\ \A c \in Clients : flight[c].phase = "sent" /\ flight[c].sent # 0 =>
          \A m \in DOMAIN rows : After(m, flight[c].sent) => m \in lost
    /\ \A c \in Clients : flight[c].phase = "answered" /\ flight[c].row # 0 =>
          \A m \in DOMAIN rows : After(m, flight[c].row) => m \in lost
    /\ cookie # 0 =>
          \A m \in DOMAIN rows : After(m, cookie) => m \in lost \/ Carried(m)

\* A sign-in whose answer is on its way has a family to itself, that nothing knows of.
Unknown(k) ==
    /\ cookie # k
    /\ \A c \in Clients : flight[c].phase = "sent" => flight[c].sent # k
    /\ \A c \in Clients : flight[c].phase = "answered" => flight[c].row # k
    /\ \A m \in DOMAIN rows : rows[m].fam = rows[k].fam => m = k
PendingInv ==
    \A t \in Tabs : call[t].row # 0 =>
        Unknown(call[t].row) /\ \A s \in Tabs \ {t} : call[s].row # call[t].row

\* What was presented twice is spent, and its successor was lost.
ReplaysInv ==
    \A n \in replays : n \in DOMAIN rows /\ rows[n].st # "live" /\ rows[n].next \in lost

Issues == RowsInv /\ SentInv
ReplayInv == NewestInv /\ PendingInv /\ ReplaysInv

\* Most steps issue nothing, send nothing and bring no token to the browser.
Kept(c) ==
    \/ /\ flight'[c].phase = flight[c].phase /\ flight'[c].sent = flight[c].sent
       /\ flight'[c].row = flight[c].row
    \/ /\ flight'[c].phase \notin {"sent", "answered"}
       /\ flight[c].phase = "answered" /\ flight[c].row # 0 => flight[c].row \in lost'
    \/ flight[c].phase = "sent" /\ flight'[c].phase = "answered" /\ flight'[c].row = 0
CallKept(t) ==
    \/ call'[t] = call[t]
    \/ call'[t].row = 0 /\ (call'[t].op # "login" \/ call'[t].phase = "sent")
Calm == /\ Weaken /\ lost \subseteq lost' /\ cookie' \in {cookie, 0}
        /\ \A n \in replays' \ replays :
              n \in DOMAIN rows /\ rows[n].st # "live" /\ rows[n].next \in lost
        /\ \A c \in Clients : Kept(c)
        /\ \A t \in Tabs : CallKept(t)

\* The numbers that requests, answers and the cookie carry.
LEMMA NumbersAre ==
    ASSUME TypeOK
    PROVE  /\ Len(rows) \in Nat /\ Numbers = 0 .. Len(rows) /\ DOMAIN rows = 1 .. Len(rows)
           /\ cookie \in 0 .. Len(rows)
           /\ \A c \in Clients : flight[c].sent \in 0 .. Len(rows)
                                 /\ flight[c].row \in 0 .. Len(rows)
           /\ \A t \in Tabs : call[t].sent \in 0 .. Len(rows) /\ call[t].row \in 0 .. Len(rows)
<1>1. ASSUME NEW c \in Clients
      PROVE  flight[c].sent \in 0 .. Len(rows) /\ flight[c].row \in 0 .. Len(rows)
  <2>1. flight[c] \in FlightState
    BY DEF TypeOK
  <2>. QED  BY <2>1 DEF FlightState, Numbers
<1>2. ASSUME NEW t \in Tabs
      PROVE  call[t].sent \in 0 .. Len(rows) /\ call[t].row \in 0 .. Len(rows)
  <2>1. call[t] \in CallState
    BY DEF TypeOK
  <2>. QED  BY <2>1 DEF CallState, Numbers
<1>. QED  BY <1>1, <1>2, RowsAre DEF TypeOK, Numbers

LEMMA WeakDomain ==
    ASSUME TypeOK, Weaken
    PROVE  /\ DOMAIN rows' = DOMAIN rows /\ DOMAIN rows = 1 .. Len(rows)
           /\ Len(rows') = Len(rows) /\ Len(rows) \in Nat
<1>1. Len(rows) \in Nat /\ DOMAIN rows = 1 .. Len(rows)
  BY RowsAre
<1>2. Len(rows') = Len(rows) /\ DOMAIN rows' = 1 .. Len(rows')
  BY Elements DEF Weaken
<1>. QED  BY <1>1, <1>2

LEMMA CalmIssues ==
    ASSUME TypeOK, Issues, Calm
    PROVE  Issues'
<1>1. /\ DOMAIN rows' = DOMAIN rows /\ DOMAIN rows = 1 .. Len(rows)
      /\ Len(rows') = Len(rows) /\ Len(rows) \in Nat
  BY WeakDomain DEF Calm
<1>2. \A n \in 1 .. Len(rows) :
        /\ rows'[n].user = rows[n].user /\ rows'[n].fam = rows[n].fam
        /\ rows'[n].next = rows[n].next
        /\ rows'[n].st = "used" => rows[n].st = "used"
        /\ rows'[n].grace => rows[n].grace
  BY DEF Calm, Weaken
<1>3. RowsInv'
  <2>. SUFFICES ASSUME NEW n \in 1 .. Len(rows)
                PROVE  /\ rows'[n].fam \in 1 .. n
                       /\ rows'[n].st = "used" \/ rows'[n].grace => rows'[n].next # 0
                       /\ rows'[n].next # 0 =>
                            /\ rows'[n].next \in n + 1 .. Len(rows)
                            /\ rows'[rows'[n].next].fam = rows'[n].fam
                            /\ rows'[rows'[n].next].user = rows'[n].user
    BY <1>1 DEF RowsInv
  <2>1. /\ rows[n].fam \in 1 .. n
        /\ rows[n].st = "used" \/ rows[n].grace => rows[n].next # 0
        /\ rows[n].next # 0 =>
             /\ rows[n].next \in n + 1 .. Len(rows)
             /\ rows[rows[n].next].fam = rows[n].fam
             /\ rows[rows[n].next].user = rows[n].user
    BY <1>1 DEF Issues, RowsInv
  <2>2. rows[n].next # 0 => rows[n].next \in 1 .. Len(rows)
    BY <1>1, <2>1
  <2>. QED  BY <1>2, <2>1, <2>2
<1>4. SentInv'
  <2>1. ASSUME NEW c \in Clients, flight'[c].phase = "answered", flight'[c].row # 0
        PROVE  flight'[c].sent # 0 /\ rows'[flight'[c].row].user = rows'[flight'[c].sent].user
    <3>1. /\ flight[c].phase = "answered" /\ flight'[c].sent = flight[c].sent
          /\ flight'[c].row = flight[c].row
      BY <2>1 DEF Calm, Kept
    <3>2. flight[c].sent # 0 /\ rows[flight[c].row].user = rows[flight[c].sent].user
      BY <2>1, <3>1 DEF Issues, SentInv
    <3>3. flight[c].sent \in 1 .. Len(rows) /\ flight[c].row \in 1 .. Len(rows)
      BY <2>1, <3>1, <3>2, NumbersAre
    <3>. QED  BY <1>2, <3>1, <3>2, <3>3
  <2>2. ASSUME NEW t \in Tabs, call'[t].op = "login", call'[t].phase = "answered"
        PROVE  call'[t].row # 0 /\ rows'[call'[t].row].user = call'[t].who
    <3>1. call'[t] = call[t]
      BY <2>2 DEF Calm, CallKept
    <3>2. call[t].row # 0 /\ rows[call[t].row].user = call[t].who
      BY <2>2, <3>1 DEF Issues, SentInv
    <3>3. call[t].row \in 1 .. Len(rows)
      BY <3>2, NumbersAre
    <3>. QED  BY <1>2, <3>1, <3>2, <3>3
  <2>3. ASSUME NEW t \in Tabs, call'[t].op # "login" PROVE call'[t].row = 0
    BY <2>3 DEF Calm, CallKept, Issues, SentInv
  <2>. QED  BY <2>1, <2>2, <2>3 DEF SentInv
<1>. QED  BY <1>3, <1>4 DEF Issues

LEMMA CalmReplay ==
    ASSUME TypeOK, ReplayInv, Calm
    PROVE  ReplayInv'
<1>1. /\ DOMAIN rows' = DOMAIN rows /\ DOMAIN rows = 1 .. Len(rows)
      /\ Len(rows') = Len(rows) /\ Len(rows) \in Nat
  BY WeakDomain DEF Calm
<1>2. \A n \in 1 .. Len(rows) :
        /\ rows'[n].fam = rows[n].fam /\ rows'[n].next = rows[n].next
        /\ rows'[n].st = "live" => rows[n].st = "live"
  BY DEF Calm, Weaken
<1>3. ASSUME NEW m \in 1 .. Len(rows), NEW n \in 1 .. Len(rows),
             rows'[m].fam = rows'[n].fam, n < m
      PROVE  After(m, n)
  BY <1>1, <1>2, <1>3 DEF After
<1>4. lost \subseteq lost'
  BY DEF Calm
<1>5. ASSUME NEW m, Carried(m), m # 0 PROVE Carried(m)' \/ m \in lost'
  BY <1>5 DEF Carried, Calm, Kept
<1>6. NewestInv'
  <2>1. ASSUME NEW c \in Clients, flight'[c].phase = "sent", flight'[c].sent # 0,
               NEW m \in 1 .. Len(rows),
               rows'[m].fam = rows'[flight'[c].sent].fam, flight'[c].sent < m
        PROVE  m \in lost'
    <3>1. flight[c].phase = "sent" /\ flight'[c].sent = flight[c].sent
      BY <2>1 DEF Calm, Kept
    <3>2. flight[c].sent \in 1 .. Len(rows)
      BY <2>1, <3>1, NumbersAre
    <3>3. After(m, flight[c].sent)
      BY <1>3, <2>1, <3>1, <3>2
    <3>. QED  BY <1>1, <1>4, <2>1, <3>1, <3>3 DEF ReplayInv, NewestInv
  <2>2. ASSUME NEW c \in Clients, flight'[c].phase = "answered", flight'[c].row # 0,
               NEW m \in 1 .. Len(rows),
               rows'[m].fam = rows'[flight'[c].row].fam, flight'[c].row < m
        PROVE  m \in lost'
    <3>1. flight[c].phase = "answered" /\ flight'[c].row = flight[c].row
      BY <2>2 DEF Calm, Kept
    <3>2. flight[c].row \in 1 .. Len(rows)
      BY <2>2, <3>1, NumbersAre
    <3>3. After(m, flight[c].row)
      BY <1>3, <2>2, <3>1, <3>2
    <3>. QED  BY <1>1, <1>4, <2>2, <3>1, <3>3 DEF ReplayInv, NewestInv
  <2>3. ASSUME cookie' # 0, NEW m \in 1 .. Len(rows),
               rows'[m].fam = rows'[cookie'].fam, cookie' < m
        PROVE  m \in lost' \/ Carried(m)'
    <3>1. cookie' = cookie /\ cookie \in 1 .. Len(rows)
      BY <2>3, NumbersAre DEF Calm
    <3>2. After(m, cookie)
      BY <1>3, <2>3, <3>1
    <3>3. m \in lost \/ Carried(m)
      BY <1>1, <2>3, <3>1, <3>2 DEF ReplayInv, NewestInv
    <3>. QED  BY <1>4, <1>5, <3>3
  <2>. QED  BY <1>1, <2>1, <2>2, <2>3 DEF NewestInv, After
<1>7. PendingInv'
  <2>. SUFFICES ASSUME NEW t \in Tabs, call'[t].row # 0
                PROVE  Unknown(call[t].row)' /\ \A s \in Tabs \ {t} : call'[s].row # call'[t].row
    BY DEF PendingInv
  <2>0. call[t].row # 0 /\ call'[t].row = call[t].row
    BY DEF Calm, CallKept
  <2>3. PICK k \in 1 .. Len(rows) : k = call[t].row
    BY <2>0, NumbersAre
  <2>1. call'[t].row = k /\ k # 0 /\ \A s \in Tabs : call'[s].row \in {0, call[s].row}
    BY <2>0, <2>3 DEF Calm, CallKept
  <2>2. Unknown(k) /\ \A s \in Tabs \ {t} : call[s].row # k
    BY <2>0, <2>3 DEF ReplayInv, PendingInv
  <2>4. cookie' # k
    BY <2>1, <2>2 DEF Unknown, Calm
  <2>5. \A c \in Clients : /\ flight'[c].phase = "sent" => flight'[c].sent # k
                           /\ flight'[c].phase = "answered" => flight'[c].row # k
    BY <2>2 DEF Unknown, Calm, Kept
  <2>6. \A m \in DOMAIN rows' : rows'[m].fam = rows'[k].fam => m = k
    BY <1>1, <1>2, <2>2, <2>3 DEF Unknown
  <2>7. Unknown(k)'
    BY <2>4, <2>5, <2>6 DEF Unknown
  <2>. QED  BY <2>1, <2>2, <2>7 DEF Unknown
<1>8. ReplaysInv'
  <2>1. \A n \in replays' : n \in DOMAIN rows /\ rows[n].st # "live" /\ rows[n].next \in lost
    BY DEF Calm, ReplayInv, ReplaysInv
  <2>. QED  BY <1>1, <1>2, <1>4, <2>1 DEF ReplaysInv
<1>. QED  BY <1>6, <1>7, <1>8 DEF ReplayInv

\* Steps that are calm.
LEMMA AwaitsCalm ==
    ASSUME TypeOK, NEW c \in Clients, NEW why \in Waiter, Awaits(c, why)
    PROVE  Calm
<1>1. Kept(c)
  BY AwaitedFlight DEF Kept, Idle
<1>2. \A d \in Clients : Kept(d)
  BY <1>1, AwaitedFlight DEF Kept
<1>3. /\ UNCHANGED <<rows, cookie, call, lost, replays>>
  BY DEF Awaits
<1>. QED  BY <1>2, <1>3, SameRows DEF Calm, CallKept

LEMMA ReloadCalm ==
    ASSUME TypeOK, NEW t \in Tabs, Reload(t)
    PROVE  Calm
<1>1. UNCHANGED <<rows, cookie, replays>>
      /\ lost' = lost \cup {flight[c].row : c \in {d \in Clients : d[1] = t}}
      /\ call' = [call EXCEPT ![t] = NoCall]
  BY DEF Reload
<1>2. ASSUME NEW c \in Clients, c[1] = t PROVE Kept(c)
  <2>1. flight'[c].phase \in {"idle", "queued"}
    BY <1>2, ReloadedFlight DEF NoFlight
  <2>2. flight[c].row \in lost'
    BY <1>1, <1>2
  <2>. QED  BY <2>1, <2>2 DEF Kept
<1>3. ASSUME NEW c \in Clients, c[1] # t PROVE Kept(c)
  BY <1>3, ReloadedFlight DEF Kept
<1>4. \A s \in Tabs : CallKept(s)
  BY <1>1 DEF CallKept, NoCall, TypeOK
<1>. QED  BY <1>1, <1>2, <1>3, <1>4, SameRows DEF Calm

LEMMA SettlingCalm ==
    ASSUME TypeOK, NEW c \in Clients,
           \/ Granted(c) /\ recent[c] # NoOne
           \/ RefreshAnswered(c) /\ flight[c].row = 0
           \/ RefreshFails(c) \/ Resume(c)
    PROVE  Calm
<1>1. UNCHANGED <<rows, call, replays>> /\ lost \subseteq lost' /\ cookie' \in {cookie, 0}
  BY DEF Granted, RefreshAnswered, RefreshFails, Resume, history
<1>2. \A d \in Clients \ {c} : Kept(d)
  BY DEF Granted, RefreshAnswered, RefreshFails, Resume, Kept, TypeOK
<1>3. flight[c] \in FlightState
  BY DEF TypeOK
<1>4. Kept(c)
  <2>1. CASE Granted(c) /\ recent[c] # NoOne
    BY <1>3, <2>1 DEF Granted, Kept, FlightState, TypeOK
  <2>2. CASE RefreshAnswered(c) /\ flight[c].row = 0
    BY <1>3, <2>2 DEF RefreshAnswered, Kept, FlightState, TypeOK
  <2>3. CASE RefreshFails(c)
    BY <1>3, <2>3 DEF RefreshFails, Kept, FlightState, TypeOK
  <2>4. CASE Resume(c)
    BY <1>3, <2>4 DEF Resume, Kept, NoFlight, FlightState, TypeOK
  <2>. QED  BY <2>1, <2>2, <2>3, <2>4
<1>. QED  BY <1>1, <1>2, <1>4, SameRows DEF Calm, CallKept

LEMMA SigningCalm ==
    ASSUME TypeOK, NEW t \in Tabs,
           \/ ServeCall(t) /\ call[t].op # "login"
           \/ LoggedOut(t) \/ SupportStarts(t) \/ CallFails(t) \/ Deliver(t)
    PROVE  Calm
<1>1. /\ UNCHANGED <<flight, replays>> /\ lost \subseteq lost' /\ cookie' \in {cookie, 0}
      /\ (ServeCall(t) /\ call[t].op # "login") \/ UNCHANGED rows
  BY DEF ServeCall, LoggedOut, LogsOut, SupportStarts, CallFails, Deliver, browser, history
<1>2. call[t] \in CallState
  BY DEF TypeOK
<1>3. \A s \in Tabs : CallKept(s)
  <2>1. CASE ServeCall(t) /\ call[t].op # "login"
    BY <1>2, <2>1 DEF ServeCall, CallKept, CallState, TypeOK
  <2>2. CASE UNCHANGED call
    BY <2>2 DEF CallKept
  <2>3. CASE call' = [call EXCEPT ![t] = NoCall]
    BY <2>3 DEF CallKept, NoCall, TypeOK
  <2>. QED  BY <2>1, <2>2, <2>3 DEF LoggedOut, LogsOut, SupportStarts, CallFails, Deliver
<1>4. CASE ServeCall(t) /\ call[t].op # "login"
  <2>1. call[t].sent \in Numbers
    BY <1>2 DEF CallState
  <2>2. Logout(call[t].sent) \/ UNCHANGED rows
    BY <1>4 DEF ServeCall
  <2>3. Weaken
    BY <2>1, <2>2, LogoutRows, SameRows
  <2>. QED  BY <1>1, <1>3, <2>3 DEF Calm, Kept
<1>5. CASE UNCHANGED rows
  BY <1>1, <1>3, <1>5, SameRows DEF Calm, Kept
<1>. QED  BY <1>1, <1>4, <1>5

LEMMA SignsCalm ==
    ASSUME TypeOK, NEW t \in Tabs, Signs(t)
    PROVE  Calm
<1>. USE DEF browser, history
<1>1. ASSUME NEW op, NEW who, Calls(t, op, who) PROVE \A s \in Tabs : CallKept(s)
  BY <1>1 DEF Calls, CallKept, TypeOK
<1>2. CASE ExitSupport(t)
  BY <1>2, AwaitsCalm, ClientsAre DEF ExitSupport, Waiter
<1>3. CASE ChangePassword(t)
  <2>1. \A s \in Tabs : CallKept(s)
    BY <1>3 DEF ChangePassword, CallKept, NoCall, TypeOK
  <2>. QED  BY <1>3, <2>1, RevokedRows DEF ChangePassword, Calm, Kept
<1>4. CASE SignOut(t) \/ \E u \in Users : SignIn(t, u) \/ StartSupport(t, u)
  <2>1. /\ UNCHANGED <<rows, browser, lost, replays>>
        /\ \A s \in Tabs : CallKept(s)
    BY <1>1, <1>4 DEF SignOut, SignIn, StartSupport
  <2>. QED  BY <2>1, SameRows DEF Calm, Kept
<1>. QED  BY <1>2, <1>3, <1>4 DEF Signs

LEMMA ElsewhereCalm ==
    ASSUME TypeOK,
           \/ \E t \in Tabs : Settings(t)
           \/ Ages
           \/ \E n \in DOMAIN rows : GraceLapses(n)
           \/ \E u \in Users : Revokes(u)
           \/ UNCHANGED vars
    PROVE  Calm
<1>. USE DEF browser, history
<1>1. UNCHANGED <<cookie, flight, call, lost, replays>>
  BY DEF Settings, OpenSettings, ProfileArrives, LeaveSettings, SaveProfile, SavePreferences,
         Ages, GraceLapses, Revokes, vars
<1>2. \/ UNCHANGED rows
      \/ \E n \in DOMAIN rows : GraceLapses(n)
      \/ \E u \in Users : Revokes(u)
  BY DEF Settings, OpenSettings, ProfileArrives, LeaveSettings, SaveProfile, SavePreferences,
         Ages, vars
<1>3. Weaken
  BY <1>2, SameRows, GraceRows, RevokedRows DEF Revokes
<1>. QED  BY <1>1, <1>3 DEF Calm, Kept, CallKept

\* The steps that are not: a token is issued, sent, or comes to the browser.
LEMMA CalmOr ==
    ASSUME TypeOK, [Next]_vars
    PROVE  \/ Calm
           \/ \E c \in Clients : \/ Granted(c) /\ recent[c] = NoOne
                                 \/ ServeRefresh(c)
                                 \/ RefreshAnswered(c) /\ flight[c].row # 0
           \/ \E t \in Tabs : (ServeCall(t) /\ call[t].op = "login") \/ LoggedIn(t)
<1>1. ASSUME NEW t \in Tabs, Refreshes(t) PROVE Calm
  BY <1>1, AwaitsCalm, ReloadCalm, ClientsAre DEF Refreshes, Heartbeat, Unauthorized, Waiter
<1>. QED  BY <1>1, SettlingCalm, SigningCalm, SignsCalm, ElsewhereCalm, OpenAreTabs
          DEF Next, Settling, Proceeds

\* What the service does with a refresh: it refuses it, gives the answer it kept, or rotates.
LEMMA Served ==
    ASSUME TypeOK, NEW c \in Clients, ServeRefresh(c), NEW n, n = flight[c].sent
    PROVE  \/ /\ Weaken /\ Answers(c, 0)
              /\ \/ UNCHANGED replays
                 \/ n \in DOMAIN rows /\ rows[n].st = "used" /\ replays' = replays \cup {n}
           \/ /\ UNCHANGED <<rows, replays>> /\ n \in DOMAIN rows /\ rows[n].grace
              /\ Answers(c, rows[n].next)
           \/ /\ n \in DOMAIN rows /\ rows[n].st = "live" /\ Rotate(n) /\ Answers(c, Issued)
              /\ UNCHANGED replays
<1>1. n # 0 => n \in DOMAIN rows
  BY NumbersAre
<1>2. \/ n = 0 /\ Answers(c, 0) /\ UNCHANGED <<rows, replays>>
      \/ n # 0 /\ rows[n].grace /\ Answers(c, rows[n].next) /\ UNCHANGED <<rows, replays>>
      \/ /\ n # 0 /\ rows[n].st = "live" /\ Rotate(n) /\ Answers(c, Issued) /\ UNCHANGED replays
      \/ /\ n # 0 /\ rows' = Revoked(Family(n)) /\ Answers(c, 0)
         /\ replays' = IF rows[n].st = "used" THEN replays \cup {n} ELSE replays
  BY DEF ServeRefresh
<1>3. UNCHANGED rows \/ rows' = Revoked(Family(n)) => Weaken
  BY SameRows, RevokedRows
<1>. QED  BY <1>1, <1>2, <1>3

\* Its answer, as the others see it.
LEMMA AnswersFlight ==
    ASSUME TypeOK, NEW c \in Clients, NEW r, Answers(c, r)
    PROVE  /\ flight'[c].phase = "answered" /\ flight'[c].row = r
           /\ flight'[c].sent = flight[c].sent
           /\ \A d \in Clients \ {c} : flight'[d] = flight[d]
<1>1. flight[c] \in FlightState
  BY DEF TypeOK
<1>2. flight' = [flight EXCEPT ![c].phase = "answered", ![c].row = r]
  BY DEF Answers
<1>3. \A d \in Clients \ {c} : flight'[d] = flight[d]
  BY <1>2 DEF TypeOK
<1>. QED  BY <1>1, <1>2, <1>3 DEF FlightState, TypeOK

LEMMA RotatedRowsInv ==
    ASSUME TypeOK, RowsInv, NEW n \in DOMAIN rows, Rotate(n)
    PROVE  RowsInv'
<1>1. /\ Len(rows) \in Nat /\ DOMAIN rows = 1 .. Len(rows)
      /\ Len(rows') = Len(rows) + 1 /\ DOMAIN rows' = 1 .. Len(rows) + 1
      /\ \A m \in 1 .. Len(rows) : m # n => rows'[m] = rows[m]
      /\ rows'[n].user = rows[n].user /\ rows'[n].fam = rows[n].fam
      /\ rows'[n].st = "used" /\ rows'[n].next = Len(rows) + 1
      /\ rows'[Len(rows) + 1] = Row(rows[n].user, rows[n].fam)
  <2>1. Len(rows') = Len(rows) + 1 /\ rows' \in Seq(RowState')
    BY RotateRows
  <2>2. DOMAIN rows' = 1 .. Len(rows')
    BY <2>1
  <2>. QED  BY <2>1, <2>2, RotateRows, RowsAre DEF Issued
<1>2. ASSUME NEW m \in 1 .. Len(rows)
      PROVE  /\ rows[m].fam \in 1 .. m
             /\ rows[m].st = "used" \/ rows[m].grace => rows[m].next # 0
             /\ rows[m].next # 0 =>
                  /\ rows[m].next \in m + 1 .. Len(rows)
                  /\ rows[rows[m].next].fam = rows[m].fam
                  /\ rows[rows[m].next].user = rows[m].user
  BY <1>1 DEF RowsInv
<1>3. \A m \in 1 .. Len(rows) : rows'[m].user = rows[m].user /\ rows'[m].fam = rows[m].fam
  BY <1>1
<1>4. LET r == Row(rows[n].user, rows[n].fam)
      IN  r.user = rows[n].user /\ r.fam = rows[n].fam /\ r.st = "live" /\ r.next = 0 /\ ~r.grace
  BY DEF Row
<1>5. ASSUME NEW m \in 1 .. Len(rows) + 1
      PROVE  /\ rows'[m].fam \in 1 .. m
             /\ rows'[m].st = "used" \/ rows'[m].grace => rows'[m].next # 0
             /\ rows'[m].next # 0 =>
                  /\ rows'[m].next \in m + 1 .. Len(rows) + 1
                  /\ rows'[rows'[m].next].fam = rows'[m].fam
                  /\ rows'[rows'[m].next].user = rows'[m].user
  <2>1. CASE m = Len(rows) + 1
    BY <1>1, <1>2, <1>4, <2>1
  <2>2. CASE m = n
    <3>1. rows'[m].fam \in 1 .. m
      BY <1>1, <1>2, <2>2
    <3>2. rows'[m].next = Len(rows) + 1 /\ rows'[m].next # 0
          /\ rows'[m].next \in m + 1 .. Len(rows) + 1
      BY <1>1, <2>2
    <3>3. /\ rows'[rows'[m].next].fam = rows'[m].fam
          /\ rows'[rows'[m].next].user = rows'[m].user
      BY <1>1, <1>4, <2>2
    <3>. QED  BY <3>1, <3>2, <3>3
  <2>3. CASE m \in 1 .. Len(rows) /\ m # n
    <3>1. rows'[m] = rows[m]
      BY <1>1, <2>3
    <3>2. ASSUME rows[m].next # 0
          PROVE  rows[m].next \in 1 .. Len(rows) /\ rows[m].next \in m + 1 .. Len(rows) + 1
      BY <1>1, <1>2, <2>3, <3>2
    <3>. QED  BY <1>2, <1>3, <2>3, <3>1, <3>2
  <2>. QED  BY <1>1, <2>1, <2>2, <2>3
<1>. QED  BY <1>1, <1>5 DEF RowsInv

LEMMA LoggedRowsInv ==
    ASSUME TypeOK, RowsInv, NEW u \in Users, Login(u)
    PROVE  RowsInv'
<1>1. /\ Len(rows) \in Nat /\ DOMAIN rows = 1 .. Len(rows)
      /\ Len(rows') = Len(rows) + 1 /\ DOMAIN rows' = 1 .. Len(rows) + 1
      /\ \A m \in 1 .. Len(rows) : rows'[m] = rows[m]
      /\ rows'[Len(rows) + 1] = Row(u, Len(rows) + 1)
  <2>1. Len(rows') = Len(rows) + 1 /\ rows' \in Seq(RowState')
    BY LoginRows
  <2>2. DOMAIN rows' = 1 .. Len(rows')
    BY <2>1
  <2>. QED  BY <2>1, <2>2, LoginRows, RowsAre DEF Issued
<1>2. LET r == Row(u, Len(rows) + 1)
      IN  r.fam = Len(rows) + 1 /\ r.st = "live" /\ r.next = 0 /\ ~r.grace
  BY DEF Row
<1>3. ASSUME NEW m \in 1 .. Len(rows) + 1
      PROVE  /\ rows'[m].fam \in 1 .. m
             /\ rows'[m].st = "used" \/ rows'[m].grace => rows'[m].next # 0
             /\ rows'[m].next # 0 =>
                  /\ rows'[m].next \in m + 1 .. Len(rows) + 1
                  /\ rows'[rows'[m].next].fam = rows'[m].fam
                  /\ rows'[rows'[m].next].user = rows'[m].user
  <2>1. CASE m = Len(rows) + 1
    BY <1>1, <1>2, <2>1
  <2>2. CASE m \in 1 .. Len(rows)
    <3>1. /\ rows[m].fam \in 1 .. m
          /\ rows[m].st = "used" \/ rows[m].grace => rows[m].next # 0
          /\ rows[m].next # 0 =>
               /\ rows[m].next \in m + 1 .. Len(rows)
               /\ rows[rows[m].next].fam = rows[m].fam
               /\ rows[rows[m].next].user = rows[m].user
      BY <1>1, <2>2 DEF RowsInv
    <3>2. ASSUME rows[m].next # 0
          PROVE  rows[m].next \in 1 .. Len(rows) /\ rows[m].next \in m + 1 .. Len(rows) + 1
      BY <1>1, <2>2, <3>1, <3>2
    <3>. QED  BY <1>1, <2>2, <3>1, <3>2
  <2>. QED  BY <1>1, <2>1, <2>2
<1>. QED  BY <1>1, <1>3 DEF RowsInv

LEMMA GrownDomain ==
    ASSUME TypeOK, Grows
    PROVE  \A n \in DOMAIN rows : n \in DOMAIN rows' /\ rows'[n].user = rows[n].user
                                  /\ rows'[n].fam = rows[n].fam
<1>1. DOMAIN rows' = 1 .. Len(rows') /\ DOMAIN rows = 1 .. Len(rows) /\ Len(rows) \in Nat
  BY RowsAre DEF Grows
<1>. QED  BY <1>1 DEF Grows

\* Answers to refreshes and sign-ins that were on their way stay what they are.
LEMMA SentKept ==
    ASSUME TypeOK, SentInv, Grows
    PROVE  /\ \A c \in Clients : flight[c].phase = "answered" /\ flight[c].row # 0 =>
                rows'[flight[c].row].user = rows'[flight[c].sent].user
           /\ \A t \in Tabs : call[t].op = "login" /\ call[t].phase = "answered" =>
                rows'[call[t].row].user = call[t].who
<1>1. ASSUME NEW c \in Clients, flight[c].phase = "answered", flight[c].row # 0
      PROVE  rows'[flight[c].row].user = rows'[flight[c].sent].user
  <2>1. flight[c].row \in DOMAIN rows /\ flight[c].sent \in DOMAIN rows
        /\ rows[flight[c].row].user = rows[flight[c].sent].user
    BY <1>1, NumbersAre DEF SentInv
  <2>. QED  BY <2>1, GrownDomain
<1>2. ASSUME NEW t \in Tabs, call[t].op = "login", call[t].phase = "answered"
      PROVE  rows'[call[t].row].user = call[t].who
  <2>1. call[t].row \in DOMAIN rows /\ rows[call[t].row].user = call[t].who
    BY <1>2, NumbersAre DEF SentInv
  <2>. QED  BY <2>1, GrownDomain
<1>. QED  BY <1>1, <1>2

LEMMA ServedIssues ==
    ASSUME TypeOK, Issues, NEW c \in Clients, ServeRefresh(c)
    PROVE  Issues'
<1>. DEFINE n == flight[c].sent
<1>0. Grows /\ UNCHANGED call
  BY ServedRows DEF ServeRefresh
<1>1. n # 0 => n \in DOMAIN rows
  BY NumbersAre
<1>2. ASSUME NEW r, Answers(c, r), r # 0 => n # 0 /\ rows'[r].user = rows'[n].user
      PROVE  SentInv'
  <2>1. /\ flight'[c].phase = "answered" /\ flight'[c].row = r /\ flight'[c].sent = n
        /\ \A d \in Clients \ {c} : flight'[d] = flight[d]
    BY <1>2, AnswersFlight
  <2>. QED  BY <1>0, <1>2, <2>1, SentKept DEF Issues, SentInv
<1>3. PICK k : k = n
  OBVIOUS
<1>4. CASE Weaken /\ Answers(c, 0)
  <2>1. RowsInv'
    <3>1. /\ DOMAIN rows' = DOMAIN rows /\ DOMAIN rows = 1 .. Len(rows)
          /\ Len(rows') = Len(rows) /\ Len(rows) \in Nat
      BY <1>4, WeakDomain
    <3>2. ASSUME NEW m \in 1 .. Len(rows)
          PROVE  /\ rows[m].fam \in 1 .. m
                 /\ rows[m].st = "used" \/ rows[m].grace => rows[m].next # 0
                 /\ rows[m].next # 0 =>
                      /\ rows[m].next \in m + 1 .. Len(rows) /\ rows[m].next \in 1 .. Len(rows)
                      /\ rows[rows[m].next].fam = rows[m].fam
                      /\ rows[rows[m].next].user = rows[m].user
      BY <3>1 DEF Issues, RowsInv
    <3>. QED  BY <1>4, <3>1, <3>2 DEF Weaken, RowsInv
  <2>. QED  BY <1>2, <1>4, <2>1 DEF Issues
<1>5. CASE UNCHANGED rows /\ n \in DOMAIN rows /\ rows[n].grace /\ Answers(c, rows[n].next)
  <2>1. rows[rows[n].next].user = rows[n].user
    BY <1>5 DEF Issues, RowsInv
  <2>2. n # 0
    BY <1>5, RowsAre
  <2>3. SentInv'
    BY <1>2, <1>5, <2>1, <2>2
  <2>. QED  BY <1>5, <2>3 DEF Issues, RowsInv
<1>6. CASE n \in DOMAIN rows /\ Rotate(n) /\ Answers(c, Issued)
  <2>1. RowsInv'
    BY <1>6, RotatedRowsInv DEF Issues
  <2>2. rows'[Issued].user = rows[n].user /\ rows'[n].user = rows[n].user
    <3>1. k \in DOMAIN rows /\ Rotate(k)
      BY <1>3, <1>6
    <3>2. rows'[Issued] = Row(rows[k].user, rows[k].fam) /\ rows'[k].user = rows[k].user
      BY <3>1, RotateRows
    <3>3. rows'[Issued].user = rows[k].user
      BY <3>2 DEF Row
    <3>. QED  BY <1>3, <3>2, <3>3
  <2>3. n # 0
    BY <1>6, RowsAre
  <2>4. SentInv'
    BY <1>2, <1>6, <2>2, <2>3
  <2>. QED  BY <2>1, <2>4 DEF Issues
<1>. QED  BY <1>3, <1>4, <1>5, <1>6, Served

LEMMA IssuesStep == TypeOK /\ Issues /\ [Next]_vars => Issues'
<1>. SUFFICES ASSUME TypeOK, Issues, [Next]_vars PROVE Issues'
  OBVIOUS
<1>1. ASSUME UNCHANGED <<rows, call>>, NEW c \in Clients, flight'[c].phase # "answered",
             \A d \in Clients \ {c} : flight'[d] = flight[d]
      PROVE  Issues'
  BY <1>1 DEF Issues, RowsInv, SentInv
<1>2. ASSUME NEW c \in Clients, Granted(c), recent[c] = NoOne PROVE Issues'
  <2>1. flight[c] \in FlightState /\ flight' = [flight EXCEPT ![c].phase = "sent", ![c].sent = cookie]
        /\ UNCHANGED <<rows, call>>
    BY <1>2 DEF Granted, TypeOK
  <2>2. flight'[c].phase = "sent" /\ \A d \in Clients \ {c} : flight'[d] = flight[d]
    BY <2>1 DEF FlightState, TypeOK
  <2>. QED  BY <1>1, <2>1, <2>2
<1>3. ASSUME NEW c \in Clients, RefreshAnswered(c) PROVE Issues'
  <2>1. flight[c] \in FlightState /\ UNCHANGED <<rows, call>>
    BY <1>3 DEF RefreshAnswered, TypeOK
  <2>2. flight'[c].phase = "settled" /\ \A d \in Clients \ {c} : flight'[d] = flight[d]
    BY <1>3, <2>1 DEF RefreshAnswered, FlightState, TypeOK
  <2>. QED  BY <1>1, <2>1, <2>2
<1>4. ASSUME NEW t \in Tabs, ServeCall(t), call[t].op = "login" PROVE Issues'
  <2>1. call[t] \in CallState /\ call[t].who \in Users /\ Login(call[t].who) /\ UNCHANGED flight
        /\ call' = [call EXCEPT ![t].phase = "answered", ![t].row = Issued]
    BY <1>4 DEF ServeCall, browser, TypeOK
  <2>2. RowsInv'
    BY <2>1, LoggedRowsInv DEF Issues
  <2>3. /\ Len(rows') = Len(rows) + 1 /\ rows' \in Seq(RowState')
        /\ \A n \in 1 .. Len(rows) : rows'[n] = rows[n]
        /\ rows'[Issued] = Row(call[t].who, Issued)
    BY <2>1, LoginRows
  <2>4. Grows
    BY <2>3, RowsAre DEF Grows
  <2>5. /\ call'[t].op = "login" /\ call'[t].row = Issued /\ call'[t].who = call[t].who
        /\ \A s \in Tabs \ {t} : call'[s] = call[s]
    BY <1>4, <2>1 DEF CallState, TypeOK
  <2>6. rows'[Issued].user = call[t].who /\ Issued # 0
    BY <2>3, RowsAre DEF Row, Issued
  <2>7. SentInv'
    <3>1. SentInv
      BY DEF Issues
    <3>2. ASSUME NEW c \in Clients, flight[c].phase = "answered", flight[c].row # 0
          PROVE  flight[c].sent # 0 /\ rows'[flight[c].row].user = rows'[flight[c].sent].user
      BY <2>4, <3>1, <3>2, SentKept DEF SentInv
    <3>3. ASSUME NEW s \in Tabs, call'[s].op = "login", call'[s].phase = "answered"
          PROVE  call'[s].row # 0 /\ rows'[call'[s].row].user = call'[s].who
      <4>1. CASE s = t
        BY <2>5, <2>6, <4>1
      <4>2. CASE s # t
        BY <2>4, <2>5, <3>1, <3>3, <4>2, SentKept DEF SentInv
      <4>. QED  BY <4>1, <4>2
    <3>4. ASSUME NEW s \in Tabs, call'[s].op # "login" PROVE call'[s].row = 0
      BY <2>5, <3>1, <3>4 DEF SentInv
    <3>. QED  BY <2>1, <3>2, <3>3, <3>4 DEF SentInv
  <2>. QED  BY <2>2, <2>7 DEF Issues
<1>5. ASSUME NEW t \in Tabs, LoggedIn(t) PROVE Issues'
  <2>1. UNCHANGED <<rows, flight>> /\ call' = [call EXCEPT ![t] = NoCall]
    BY <1>5 DEF LoggedIn
  <2>. QED  BY <2>1 DEF Issues, RowsInv, SentInv, NoCall, TypeOK
<1>. QED  BY <1>2, <1>3, <1>4, <1>5, CalmOr, CalmIssues, ServedIssues

\* Who has the lock to himself finds no other at the service.
LEMMA AloneAtService ==
    ASSUME LockInv, NEW c \in Clients, HoldsLock(c)
    PROVE  \A d \in Clients \ {c} : flight[d].phase \notin {"sent", "answered"}
  BY LockOne DEF AtService

LEMMA SentNewest ==
    ASSUME TypeOK, LockInv, ReplayInv, NEW c \in Clients, Granted(c), recent[c] = NoOne
    PROVE  ReplayInv'
<1>1. /\ flight[c] \in FlightState /\ UNCHANGED <<rows, cookie, call, lost, replays>>
      /\ flight' = [flight EXCEPT ![c].phase = "sent", ![c].sent = cookie]
      /\ flight[c].phase = "queued" /\ HoldsLock(c)
  BY Shorter DEF Granted, TypeOK, Turn, HoldsLock
<1>2. /\ flight'[c].phase = "sent" /\ flight'[c].sent = cookie
      /\ \A d \in Clients \ {c} : flight'[d] = flight[d]
  BY <1>1 DEF FlightState, TypeOK
<1>3. \A d \in Clients : flight[d].phase \notin {"sent", "answered"}
  BY <1>1, AloneAtService
<1>4. NewestInv'
  <2>1. \A m : ~Carried(m)
    BY <1>3 DEF Carried
  <2>. QED  BY <1>1, <1>2, <1>3, <2>1 DEF ReplayInv, NewestInv, After
<1>5. PendingInv'
  <2>. SUFFICES ASSUME NEW t \in Tabs, call[t].row # 0
                PROVE  Unknown(call[t].row)' /\ \A s \in Tabs \ {t} : call[s].row # call[t].row
    BY <1>1 DEF PendingInv
  <2>1. Unknown(call[t].row) /\ \A s \in Tabs \ {t} : call[s].row # call[t].row
    BY DEF ReplayInv, PendingInv
  <2>2. \A d \in Clients : /\ flight'[d].phase = "sent" => flight'[d].sent # call[t].row
                           /\ flight'[d].phase = "answered" => flight'[d].row # call[t].row
    BY <1>2, <1>3, <2>1 DEF Unknown
  <2>. QED  BY <1>1, <2>1, <2>2 DEF Unknown
<1>. QED  BY <1>1, <1>4, <1>5 DEF ReplayInv, ReplaysInv

LEMMA StoredNewest ==
    ASSUME TypeOK, LockInv, ReplayInv, NEW c \in Clients, RefreshAnswered(c), flight[c].row # 0
    PROVE  ReplayInv'
<1>1. /\ flight[c] \in FlightState /\ UNCHANGED <<rows, call, lost, replays>>
      /\ cookie' = flight[c].row /\ flight[c].phase = "answered" /\ HoldsLock(c)
  BY DEF RefreshAnswered, TypeOK, LockInv, AtService, history
<1>2. flight'[c].phase = "settled" /\ \A d \in Clients \ {c} : flight'[d] = flight[d]
  BY <1>1 DEF RefreshAnswered, FlightState, TypeOK
<1>3. \A d \in Clients : flight'[d].phase \notin {"sent", "answered"}
  BY <1>1, <1>2, AloneAtService
<1>4. NewestInv'
  BY <1>1, <1>3 DEF ReplayInv, NewestInv, After
<1>5. PendingInv'
  BY <1>1, <1>3 DEF ReplayInv, PendingInv, Unknown
<1>. QED  BY <1>1, <1>4, <1>5 DEF ReplayInv, ReplaysInv

LEMMA SignInNewest ==
    ASSUME TypeOK, Issues, ReplayInv, NEW t \in Tabs, ServeCall(t), call[t].op = "login"
    PROVE  ReplayInv'
<1>1. /\ call[t] \in CallState /\ call[t].who \in Users /\ Login(call[t].who)
      /\ UNCHANGED <<cookie, flight, lost, replays>>
      /\ call' = [call EXCEPT ![t].phase = "answered", ![t].row = Issued]
  BY DEF ServeCall, browser, history, TypeOK
<1>2. PICK k \in Nat : k = Len(rows) + 1
  BY RowsAre
<1>3. /\ Len(rows) \in Nat /\ DOMAIN rows = 1 .. Len(rows) /\ DOMAIN rows' = 1 .. k
      /\ \A n \in 1 .. Len(rows) : rows'[n] = rows[n]
      /\ rows'[k].fam = k
  <2>1. /\ Len(rows') = Len(rows) + 1 /\ rows' \in Seq(RowState')
        /\ \A n \in 1 .. Len(rows) : rows'[n] = rows[n]
        /\ rows'[Issued] = Row(call[t].who, Issued)
    BY <1>1, LoginRows
  <2>2. DOMAIN rows' = 1 .. Len(rows')
    BY <2>1
  <2>. QED  BY <1>2, <2>1, <2>2, RowsAre DEF Issued, Row
<1>4. ASSUME NEW n \in 1 .. Len(rows), NEW m \in 1 .. k, rows'[m].fam = rows'[n].fam
      PROVE  m \in 1 .. Len(rows) /\ rows[m].fam = rows[n].fam
  <2>1. rows[n].fam \in 1 .. n
    BY <1>3 DEF Issues, RowsInv
  <2>2. rows'[n].fam < k
    BY <1>2, <1>3, <2>1
  <2>3. m # k
    BY <1>2, <1>3, <1>4, <2>2
  <2>. QED  BY <1>2, <1>3, <1>4, <2>3
<1>5. /\ cookie \in 0 .. Len(rows)
      /\ \A c \in Clients : flight[c].sent \in 0 .. Len(rows) /\ flight[c].row \in 0 .. Len(rows)
      /\ \A s \in Tabs : call[s].row \in 0 .. Len(rows)
  BY NumbersAre
<1>6. NewestInv'
  <2>1. ASSUME NEW n \in 1 .. Len(rows), NEW m \in 1 .. k, rows'[m].fam = rows'[n].fam, n < m
        PROVE  m \in DOMAIN rows /\ After(m, n)
    BY <1>3, <1>4, <2>1 DEF After
  <2>2. ASSUME NEW c \in Clients, flight[c].phase = "sent", flight[c].sent # 0, NEW m \in 1 .. k,
               rows'[m].fam = rows'[flight[c].sent].fam, flight[c].sent < m
        PROVE  m \in lost
    <3>1. flight[c].sent \in 1 .. Len(rows)
      BY <1>3, <1>5, <2>2
    <3>. QED  BY <2>1, <2>2, <3>1 DEF ReplayInv, NewestInv
  <2>3. ASSUME NEW c \in Clients, flight[c].phase = "answered", flight[c].row # 0,
               NEW m \in 1 .. k, rows'[m].fam = rows'[flight[c].row].fam, flight[c].row < m
        PROVE  m \in lost
    <3>1. flight[c].row \in 1 .. Len(rows)
      BY <1>3, <1>5, <2>3
    <3>. QED  BY <2>1, <2>3, <3>1 DEF ReplayInv, NewestInv
  <2>4. ASSUME cookie # 0, NEW m \in 1 .. k, rows'[m].fam = rows'[cookie].fam, cookie < m
        PROVE  m \in lost \/ Carried(m)
    <3>1. cookie \in 1 .. Len(rows)
      BY <1>3, <1>5, <2>4
    <3>. QED  BY <2>1, <2>4, <3>1 DEF ReplayInv, NewestInv
  <2>. QED  BY <1>1, <1>3, <2>2, <2>3, <2>4 DEF NewestInv, After, Carried
<1>7. PendingInv'
  <2>1. /\ call'[t].row = k /\ \A s \in Tabs \ {t} : call'[s] = call[s]
    BY <1>1, <1>2 DEF CallState, TypeOK, Issued
  <2>2. \A s \in Tabs : call[s].row # k
    BY <1>2, <1>5
  <2>3. Unknown(k)'
    <3>1. cookie # k /\ \A c \in Clients : flight[c].sent # k /\ flight[c].row # k
      BY <1>2, <1>5
    <3>2. ASSUME NEW m \in 1 .. k, rows'[m].fam = k PROVE m = k
      <4>1. ASSUME m \in 1 .. Len(rows) PROVE FALSE
        <5>1. rows[m].fam \in 1 .. m /\ rows'[m] = rows[m]
          BY <1>3, <4>1 DEF Issues, RowsInv
        <5>. QED  BY <1>2, <3>2, <4>1, <5>1
      <4>. QED  BY <1>2, <1>3, <4>1
    <3>. QED  BY <1>1, <1>3, <3>1, <3>2 DEF Unknown
  <2>4. ASSUME NEW s \in Tabs \ {t}, call[s].row # 0
        PROVE  Unknown(call[s].row)' /\ \A r \in Tabs \ {s} : call'[r].row # call'[s].row
    <3>1. PICK j \in 1 .. Len(rows) : j = call[s].row
      BY <1>3, <1>5, <2>4
    <3>2. Unknown(j) /\ \A r \in Tabs \ {s} : call[r].row # j
      BY <2>4, <3>1 DEF ReplayInv, PendingInv
    <3>3. \A m \in 1 .. k : rows'[m].fam = rows'[j].fam => m = j
      BY <1>3, <1>4, <3>2 DEF Unknown
    <3>4. Unknown(j)'
      BY <1>1, <1>3, <3>2, <3>3 DEF Unknown
    <3>5. j # k /\ call'[s].row = j
      BY <2>1, <2>2, <2>4, <3>1
    <3>. QED  BY <2>1, <3>2, <3>4, <3>5, <3>1 DEF Unknown
  <2>. QED  BY <2>1, <2>3, <2>4 DEF PendingInv, Unknown
<1>8. ReplaysInv'
  <2>1. \A n \in DOMAIN rows : n \in DOMAIN rows' /\ rows'[n] = rows[n]
    BY <1>2, <1>3
  <2>. QED  BY <1>1, <2>1 DEF ReplayInv, ReplaysInv
<1>. QED  BY <1>6, <1>7, <1>8 DEF ReplayInv

LEMMA SignedInNewest ==
    ASSUME TypeOK, Issues, ReplayInv, NEW t \in Tabs, LoggedIn(t)
    PROVE  ReplayInv'
<1>1. /\ UNCHANGED <<rows, flight, lost, replays>> /\ cookie' = call[t].row
      /\ call' = [call EXCEPT ![t] = NoCall] /\ call[t].row # 0
  BY DEF LoggedIn, Issues, SentInv
<1>2. Unknown(call[t].row) /\ \A s \in Tabs \ {t} : call[s].row # call[t].row
  BY <1>1 DEF ReplayInv, PendingInv
<1>3. NewestInv'
  <2>1. \A m \in DOMAIN rows : rows[m].fam = rows[call[t].row].fam => ~(call[t].row < m)
    BY <1>2, NumbersAre DEF Unknown
  <2>. QED  BY <1>1, <2>1 DEF ReplayInv, NewestInv, After
<1>4. PendingInv'
  <2>1. call'[t].row = 0 /\ \A s \in Tabs \ {t} : call'[s] = call[s]
    BY <1>1 DEF NoCall, TypeOK
  <2>2. ASSUME NEW s \in Tabs \ {t}, call[s].row # 0
        PROVE  Unknown(call[s].row)' /\ \A r \in Tabs \ {s} : call'[r].row # call[s].row
    <3>1. Unknown(call[s].row) /\ \A r \in Tabs \ {s} : call[r].row # call[s].row
      BY <2>2 DEF ReplayInv, PendingInv
    <3>2. call'[s].row = call[s].row /\ cookie' # call[s].row
      BY <1>1, <1>2, <2>1, <2>2
    <3>. QED  BY <1>1, <2>1, <2>2, <3>1, <3>2 DEF Unknown
  <2>. QED  BY <2>1, <2>2 DEF PendingInv, Unknown
<1>. QED  BY <1>1, <1>3, <1>4 DEF ReplayInv, ReplaysInv

LEMMA ServedNewest ==
    ASSUME TypeOK, LockInv, Issues, ReplayInv, NEW c \in Clients, ServeRefresh(c)
    PROVE  ReplayInv'
<1>1. PICK n : n = flight[c].sent
  OBVIOUS
<1>2. /\ UNCHANGED <<cookie, call, lost>> /\ flight[c].phase = "sent" /\ HoldsLock(c)
      /\ Len(rows) \in Nat /\ DOMAIN rows = 1 .. Len(rows)
  BY RowsAre DEF ServeRefresh, LockInv, AtService
<1>3. \A d \in Clients \ {c} : flight[d].phase \notin {"sent", "answered"}
  BY <1>2, AloneAtService
\* What came after the token sent was lost.
<1>4. n # 0 => \A m \in DOMAIN rows : After(m, n) => m \in lost
  BY <1>1, <1>2 DEF ReplayInv, NewestInv
<1>5. CASE /\ Weaken /\ Answers(c, 0)
           /\ \/ UNCHANGED replays
              \/ n \in DOMAIN rows /\ rows[n].st = "used" /\ replays' = replays \cup {n}
  <2>1. \A d \in Clients : Kept(d)
    BY <1>2, <1>5, AnswersFlight DEF Kept
  <2>2. ASSUME n \in DOMAIN rows, rows[n].st = "used" PROVE rows[n].next \in lost
    <3>1. rows[n].next \in n + 1 .. Len(rows) /\ rows[rows[n].next].fam = rows[n].fam
      BY <2>2 DEF Issues, RowsInv
    <3>2. rows[n].next \in DOMAIN rows /\ n < rows[n].next /\ n # 0
      BY <1>2, <2>2, <3>1
    <3>. QED  BY <1>4, <3>1, <3>2 DEF After
  <2>3. \A m \in replays' \ replays :
           m \in DOMAIN rows /\ rows[m].st # "live" /\ rows[m].next \in lost
    BY <1>5, <2>2
  <2>4. Calm
    BY <1>2, <1>5, <2>1, <2>3 DEF Calm, CallKept
  <2>. QED  BY <2>4, CalmReplay
<1>6. CASE /\ UNCHANGED <<rows, replays>> /\ n \in DOMAIN rows /\ rows[n].grace
           /\ Answers(c, rows[n].next)
  <2>1. PICK r : r = rows[n].next
    OBVIOUS
  <2>2. /\ r \in DOMAIN rows /\ n < r /\ rows[r].fam = rows[n].fam /\ n # 0
        /\ rows[n].next \in n + 1 .. Len(rows)
    <3>1. rows[n].next \in n + 1 .. Len(rows) /\ rows[rows[n].next].fam = rows[n].fam
      BY <1>6 DEF Issues, RowsInv
    <3>. QED  BY <1>2, <1>6, <2>1, <3>1
  <2>3. /\ flight'[c].phase = "answered" /\ flight'[c].row = r
        /\ \A d \in Clients \ {c} : flight'[d] = flight[d]
    BY <1>6, <2>1, AnswersFlight
  <2>4. \A m \in DOMAIN rows : After(m, r) => m \in lost
    <3>. SUFFICES ASSUME NEW m \in DOMAIN rows, After(m, r) PROVE After(m, n)
      BY <1>4, <2>2
    <3>. QED  BY <1>2, <1>6, <2>2 DEF After
  <2>5. \A m : Carried(m) => Carried(m)'
    BY <1>2, <1>3, <2>3 DEF Carried
  <2>6. NewestInv'
    <3>1. \A d \in Clients : flight'[d].phase # "sent"
      BY <1>3, <2>3
    <3>2. \A d \in Clients : flight'[d].phase = "answered" => flight'[d].row = r
      BY <1>3, <2>3
    <3>3. cookie # 0 => \A m \in DOMAIN rows : After(m, cookie) => m \in lost \/ Carried(m)'
      BY <2>5 DEF ReplayInv, NewestInv
    <3>4. rows' = rows /\ lost' = lost /\ cookie' = cookie
      BY <1>2, <1>6
    <3>. QED  BY <2>4, <3>1, <3>2, <3>3, <3>4 DEF NewestInv, After
  <2>7. PendingInv'
    <3>. SUFFICES ASSUME NEW t \in Tabs, call[t].row # 0
                  PROVE  Unknown(call[t].row)' /\ \A s \in Tabs \ {t} : call[s].row # call[t].row
      BY <1>2 DEF PendingInv
    <3>1. Unknown(call[t].row) /\ \A s \in Tabs \ {t} : call[s].row # call[t].row
      BY DEF ReplayInv, PendingInv
    <3>2. n # call[t].row
      BY <1>1, <1>2, <3>1 DEF Unknown
    <3>3. r # call[t].row
      BY <1>6, <2>2, <3>1, <3>2 DEF Unknown
    <3>. QED  BY <1>2, <1>3, <1>6, <2>3, <3>1, <3>3 DEF Unknown
  <2>. QED  BY <1>2, <1>6, <2>6, <2>7 DEF ReplayInv, ReplaysInv
<1>7. CASE /\ n \in DOMAIN rows /\ rows[n].st = "live" /\ Rotate(n) /\ Answers(c, Issued)
           /\ UNCHANGED replays
  <2>1. PICK k \in Nat : k = Len(rows) + 1
    BY <1>2
  <2>2. /\ DOMAIN rows' = 1 .. k /\ n \in 1 .. Len(rows)
        /\ \A m \in 1 .. Len(rows) : rows'[m].fam = rows[m].fam
        /\ \A m \in 1 .. Len(rows) : m # n => rows'[m] = rows[m]
        /\ rows'[k].fam = rows[n].fam
    <3>1. /\ Len(rows') = Len(rows) + 1 /\ rows' \in Seq(RowState')
          /\ \A m \in 1 .. Len(rows) : m # n => rows'[m] = rows[m]
          /\ rows'[n].fam = rows[n].fam
          /\ rows'[Issued] = Row(rows[n].user, rows[n].fam)
      BY <1>7, RotateRows
    <3>2. DOMAIN rows' = 1 .. Len(rows')
      BY <3>1
    <3>3. rows'[k].fam = rows[n].fam
      BY <2>1, <3>1 DEF Issued, Row
    <3>. QED  BY <1>2, <1>7, <2>1, <3>1, <3>2, <3>3
  <2>3. /\ flight'[c].phase = "answered" /\ flight'[c].row = k
        /\ \A d \in Clients \ {c} : flight'[d] = flight[d]
    BY <1>7, <2>1, AnswersFlight DEF Issued
  <2>4. /\ \A d \in Clients : flight'[d].phase # "sent"
        /\ \A d \in Clients : flight'[d].phase = "answered" => flight'[d].row = k
    BY <1>3, <2>3
  <2>5. Carried(k)' /\ \A m : ~Carried(m)
    BY <1>2, <1>3, <2>3 DEF Carried
  <2>6. NewestInv'
    <3>1. \A m \in 1 .. k : ~(k < m)
      BY <2>1
    <3>2. ASSUME cookie # 0, NEW m \in 1 .. k, rows'[m].fam = rows'[cookie].fam, cookie < m
          PROVE  m \in lost \/ Carried(m)'
      <4>1. CASE m = k
        BY <2>5, <4>1
      <4>2. CASE m # k
        <5>1. m \in 1 .. Len(rows) /\ cookie \in 1 .. Len(rows)
          BY <1>2, <2>1, <3>2, <4>2, NumbersAre
        <5>2. After(m, cookie)
          BY <1>2, <2>2, <3>2, <5>1 DEF After
        <5>. QED  BY <1>2, <2>5, <3>2, <5>1, <5>2 DEF ReplayInv, NewestInv
      <4>. QED  BY <4>1, <4>2
    <3>. QED  BY <1>2, <2>2, <2>4, <3>1, <3>2 DEF NewestInv, After
  <2>7. PendingInv'
    <3>. SUFFICES ASSUME NEW t \in Tabs, call[t].row # 0
                  PROVE  Unknown(call[t].row)' /\ \A s \in Tabs \ {t} : call[s].row # call[t].row
      BY <1>2 DEF PendingInv
    <3>1. Unknown(call[t].row) /\ \A s \in Tabs \ {t} : call[s].row # call[t].row
      BY DEF ReplayInv, PendingInv
    <3>2. PICK j \in 1 .. Len(rows) : j = call[t].row
      BY NumbersAre
    <3>3. n # j /\ k # j
      BY <1>1, <1>2, <2>1, <3>1, <3>2 DEF Unknown
    <3>4. \A m \in 1 .. k : rows'[m].fam = rows'[j].fam => m = j
      <4>1. \A m \in 1 .. Len(rows) : rows[m].fam = rows[j].fam => m = j
        BY <1>2, <3>1, <3>2 DEF Unknown
      <4>2. rows'[k].fam # rows'[j].fam
        BY <2>2, <3>2, <3>3, <4>1
      <4>3. \A m \in 1 .. k : m = k \/ m \in 1 .. Len(rows)
        BY <1>2, <2>1
      <4>. QED  BY <2>2, <3>2, <4>1, <4>2, <4>3
    <3>. QED  BY <1>2, <2>2, <2>4, <3>1, <3>2, <3>3, <3>4 DEF Unknown
  <2>8. ReplaysInv'
    <3>. SUFFICES ASSUME NEW m \in replays
                  PROVE  m \in DOMAIN rows' /\ rows'[m].st # "live" /\ rows'[m].next \in lost
      BY <1>2, <1>7 DEF ReplaysInv
    <3>1. m \in DOMAIN rows /\ rows[m].st # "live" /\ rows[m].next \in lost
      BY DEF ReplayInv, ReplaysInv
    <3>2. m # n /\ m \in DOMAIN rows'
      BY <1>2, <1>7, <2>1, <2>2, <3>1
    <3>. QED  BY <1>2, <2>2, <3>1, <3>2
  <2>. QED  BY <2>6, <2>7, <2>8 DEF ReplayInv
<1>. QED  BY <1>1, <1>5, <1>6, <1>7, Served

LEMMA ReplayStep == TypeOK /\ LockInv /\ Issues /\ ReplayInv /\ [Next]_vars => ReplayInv'
  BY CalmOr, CalmReplay, SentNewest, ServedNewest, StoredNewest, SignInNewest, SignedInNewest

LEMMA ReplayInit == Init => Issues /\ ReplayInv
<1>. SUFFICES ASSUME Init PROVE Issues /\ ReplayInv
  OBVIOUS
<1>1. DOMAIN rows = {} /\ cookie = 0 /\ replays = {}
  BY DEF Init
<1>2. \A c \in Clients : flight[c].phase = "idle"
  BY DEF Init, NoFlight
<1>3. \A t \in Tabs : call[t].op = "none" /\ call[t].row = 0
  BY DEF Init, NoCall
<1>. QED  BY <1>1, <1>2, <1>3
          DEF Issues, RowsInv, SentInv, ReplayInv, NewestInv, PendingInv, ReplaysInv

LEMMA ReplayAlways == Spec => [](TypeOK /\ LockInv /\ Issues /\ ReplayInv)
  BY TypeInit, TypeStep, LockInit, LockStep, ReplayInit, IssuesStep, ReplayStep, PTL DEF Spec

\* No refresh token is presented a second time unless the answer to the first was lost:
\* the browser-wide lock, which bundles and tabs take before a refresh and keep until its
\* answer is in the cookie, is enough against every interleaving, reload and lost answer.
THEOREM NoReplays == Spec => []NoReplay
<1>1. ReplayInv => NoReplay
  BY DEF ReplayInv, ReplaysInv, NoReplay
<1>. QED  BY <1>1, ReplayAlways, PTL

-----------------------------------------------------------------------------
(* Tabs that agree: without a crossing, whatever speaks for an account speaks *)
(* for the one that signed in last, and a tab shows it once it has heard.     *)

\* A tab that is not open shows nobody and refreshes nothing.
ClosedInv ==
    \A t \in Tabs \ Open :
        /\ tab[t].user = NoOne /\ tab[t].token = NoToken
        /\ \A c \in Clients : c[1] = t => Idle(c)

\* While a sign-in or sign-out is under way, nothing else is; while a tab has still to
\* hear of it, no refresh is.
AloneInv ==
    /\ \A t \in Tabs : Signing(t) =>
          /\ \A s \in Tabs \ {t} : ~Signing(s)
          /\ \A c \in Clients : Idle(c)
          /\ \A s \in Tabs : inbox[s] = <<>>
    /\ \A t \in Tabs : Unheard(t) => Len(inbox[t]) = 1 /\ \A c \in Clients : Idle(c)

\* Whatever speaks for an account speaks for the one that signed in last.
LastInv ==
    /\ cookie # 0 => rows[cookie].user = last
    /\ \A c \in Clients : AtService(c) /\ flight[c].sent # 0 => rows[flight[c].sent].user = last
    /\ \A c \in Clients : flight[c].phase = "settled" => flight[c].got \in {last, NoOne}
    /\ \A t \in Tabs : \A i \in DOMAIN inbox[t] : inbox[t][i].user = last

\* So do the tabs that have heard of it; no page asks for another's profile, and a
\* support session has an actor to go back to.
TabInv ==
    /\ \A t \in Tabs : ~InSupport(tab[t]) /\ ~Unheard(t) =>
          {tab[t].user, tab[t].token.sub} \subseteq {last, NoOne}
    /\ \A t \in Tabs : ~InSupport(tab[t]) /\ tab[t].user # NoOne =>
          tab[t].token.sub \in {tab[t].user, NoOne}
    /\ \A t \in Tabs : call[t].op = "start" => tab[t].user # NoOne

Uncrossed == AloneInv /\ LastInv /\ TabInv
AgreeInv == ClosedInv /\ (~crossed => Uncrossed)

\* What the reducer and its callers do to the user, the token and the support session.
LEMMA ShowsFields ==
    ASSUME NEW tb \in TabState, NEW u \in Anyone
    PROVE  /\ Shows(tb, u).user = u /\ Shows(tb, u).token = tb.token
           /\ Shows(tb, u).original = tb.original
<1>1. CASE u = NoOne
  <2>0. Unmounted(tb).token = tb.token /\ Unmounted(tb).original = tb.original
    BY DEF Unmounted, TabState
  <2>1. PICK x \in TabState : x = Unmounted(tb) /\ x.token = tb.token /\ x.original = tb.original
    BY <2>0, UnmountedType
  <2>2. Shows(tb, u) = [x EXCEPT !.user = NoOne, !.prefs = NoOne]
    BY <1>1, <2>1 DEF Shows
  <2>. QED  BY <1>1, <2>1, <2>2 DEF TabState
<1>2. CASE u # NoOne /\ tb.user = NoOne
  BY <1>2 DEF Shows, TabState
<1>3. CASE u # NoOne /\ tb.user # NoOne
  <2>1. Shows(tb, u) = [tb EXCEPT !.user = u, !.turned = IF u = tb.user THEN tb.turned
                                                          ELSE {"profile", "prefs"}]
    BY <1>3 DEF Shows, TabState
  <2>. QED  BY <2>1 DEF TabState
<1>. QED  BY <1>1, <1>2, <1>3

LEMMA ReducerFields ==
    ASSUME NEW tb \in TabState, NEW u \in Anyone, NEW token \in Token
    PROVE  /\ Restored(tb, u).user = u /\ Restored(tb, u).token = tb.token
           /\ Restored(tb, u).original = tb.original
           /\ SignedIn(tb, u, token).user = u /\ SignedIn(tb, u, token).token = token
           /\ SignedIn(tb, u, token).original = tb.original
           /\ SignedOut(tb).user = NoOne /\ SignedOut(tb).token = NoToken
           /\ SignedOut(tb).original = tb.original
           /\ Expired(tb).user = tb.user /\ Expired(tb).token = NoToken
           /\ Expired(tb).original = tb.original
           /\ Unmounted(tb).user = tb.user /\ Unmounted(tb).token = tb.token
           /\ Unmounted(tb).original = tb.original
<1>1. PICK x \in TabState : x = Shows(tb, u) /\ x.user = u /\ x.token = tb.token
                            /\ x.original = tb.original
  BY ShowsType, ShowsFields
<1>2. PICK y \in TabState : y = Shows(tb, NoOne) /\ y.user = NoOne /\ y.original = tb.original
  BY ShowsType, ShowsFields, Nobody
<1>3. /\ Restored(tb, u).user = u /\ Restored(tb, u).token = tb.token
      /\ Restored(tb, u).original = tb.original
  BY <1>1 DEF Restored, TabState
<1>4. /\ SignedIn(tb, u, token).user = u /\ SignedIn(tb, u, token).token = token
      /\ SignedIn(tb, u, token).original = tb.original
  BY <1>1 DEF SignedIn, TabState
<1>5. /\ SignedOut(tb).user = NoOne /\ SignedOut(tb).token = NoToken
      /\ SignedOut(tb).original = tb.original
  BY <1>2 DEF SignedOut, TabState
<1>6. /\ Expired(tb).user = tb.user /\ Expired(tb).token = NoToken
      /\ Expired(tb).original = tb.original
  BY DEF Expired, TabState
<1>7. /\ Unmounted(tb).user = tb.user /\ Unmounted(tb).token = tb.token
      /\ Unmounted(tb).original = tb.original
  BY DEF Unmounted, TabState
<1>. QED  BY <1>3, <1>4, <1>5, <1>6, <1>7

\* A tab's user and token speak for v or for nobody.
Speaks(tb, v) == {tb.user, tb.token.sub} \subseteq {v, NoOne}

LEMMA NobodyFields == NoToken.sub = NoOne /\ \A u : Own(u).sub = u
  BY DEF NoToken, Own

LEMMA AfterRefreshSpeaks ==
    ASSUME NEW tb \in TabState, NEW v \in Anyone, NEW u \in {v, NoOne}
    PROVE  /\ Speaks(tb, v) => Speaks(Boots(tb, u), v) /\ Speaks(Beats(tb, u), v)
                               /\ Speaks(Retries(tb, u), v)
           /\ Boots(tb, u).original = tb.original /\ Beats(tb, u).original = tb.original
           /\ Retries(tb, u).original = tb.original
           /\ u # NoOne => Speaks(Exits(tb, u), v) /\ Exits(tb, u).original = NoSupport
<1>0. u \in Anyone
  BY Nobody
<1>1. Boots(tb, u).original = tb.original /\ (Speaks(tb, v) => Speaks(Boots(tb, u), v))
  <2>1. PICK x \in TabState : x = IF u = NoOne THEN tb ELSE Restored(tb, u)
    BY <1>0, RestoredType
  <2>2. Boots(tb, u) = IF x.token = NoToken THEN Restored(x, NoOne) ELSE x
    BY <2>1 DEF Boots
  <2>3. x.original = tb.original /\ x.token = tb.token /\ x.user \in {tb.user, u}
    BY <1>0, <2>1, ReducerFields, Nobody
  <2>4. /\ Restored(x, NoOne).user = NoOne /\ Restored(x, NoOne).token = x.token
        /\ Restored(x, NoOne).original = x.original
    BY ReducerFields, Nobody
  <2>. QED  BY <2>2, <2>3, <2>4 DEF Speaks
<1>2. Beats(tb, u).original = tb.original /\ (Speaks(tb, v) => Speaks(Beats(tb, u), v))
  <2>1. CASE u = NoOne
    BY <2>1, ReducerFields, Nobody, NobodyFields DEF Beats, Speaks
  <2>2. CASE u # NoOne
    <3>1. Beats(tb, u) = [tb EXCEPT !.expired = FALSE]
      BY <2>2 DEF Beats
    <3>2. Beats(tb, u).original = tb.original /\ Beats(tb, u).user = tb.user
          /\ Beats(tb, u).token = tb.token
      BY <3>1 DEF TabState
    <3>. QED  BY <3>2 DEF Speaks
  <2>. QED  BY <2>1, <2>2
<1>3. Retries(tb, u).original = tb.original /\ (Speaks(tb, v) => Speaks(Retries(tb, u), v))
  BY ReducerFields, Nobody, NobodyFields DEF Retries, Speaks
<1>4. ASSUME u # NoOne PROVE Speaks(Exits(tb, u), v) /\ Exits(tb, u).original = NoSupport
  <2>1. PICK y \in TabState : y = Unmounted(tb)
    BY UnmountedType
  <2>0. NoSupport \in [user : Anyone, token : Token]
    BY Nobody DEF NoSupport
  <2>5. [y EXCEPT !.original = NoSupport] \in TabState
        /\ [y EXCEPT !.original = NoSupport].original = NoSupport
    BY <2>0 DEF TabState
  <2>2. PICK x \in TabState : x = [y EXCEPT !.original = NoSupport] /\ x.original = NoSupport
    BY <2>5
  <2>3. Exits(tb, u) = SignedIn(x, u, Own(u))
    BY <1>4, <2>1, <2>2 DEF Exits
  <2>4. /\ SignedIn(x, u, Own(u)).user = u /\ SignedIn(x, u, Own(u)).token = Own(u)
        /\ SignedIn(x, u, Own(u)).original = x.original
    BY <1>0, ReducerFields, Nobody
  <2>. QED  BY <2>2, <2>3, <2>4, NobodyFields DEF Speaks
<1>. QED  BY <1>1, <1>2, <1>3, <1>4

\* The tabs that are open stay open.
LEMMA OpenStep ==
    ASSUME TypeOK, [Next]_vars
    PROVE  Open' = Open
<1>1. UNCHANGED left => Open' = Open
  BY DEF Open
<1>2. ASSUME NEW c \in Clients, Settling(c) \/ RefreshFails(c) PROVE Open' = Open
  BY <1>1, <1>2, Spent
  DEF Settling, Granted, ServeRefresh, RefreshAnswered, Resume, RefreshFails
<1>3. ASSUME NEW t \in Tabs, Proceeds(t) \/ CallFails(t) \/ Deliver(t) PROVE Open' = Open
  BY <1>1, <1>3, Spent
  DEF Proceeds, ServeCall, LoggedIn, LoggedOut, SupportStarts, CallFails, Deliver
<1>4. ASSUME NEW t \in Tabs, Signs(t) \/ Refreshes(t) PROVE Open' = Open
  BY <1>1, <1>4, Spent
  DEF Signs, SignIn, StartSupport, SignOut, ChangePassword, ExitSupport, Refreshes, Heartbeat,
      Unauthorized, Reload
<1>5. ASSUME NEW t \in Tabs, Settings(t) PROVE Open' = Open
  BY <1>1, <1>5, Spent
  DEF Settings, OpenSettings, ProfileArrives, LeaveSettings, SaveProfile, SavePreferences
<1>6. CASE UNCHANGED vars \/ Ages \/ (\E n \in DOMAIN rows : GraceLapses(n))
           \/ (\E u \in Users : Revokes(u))
  BY <1>1, <1>6, Spent DEF Ages, GraceLapses, Revokes, vars
<1>. QED  BY <1>2, <1>3, <1>4, <1>5, <1>6, OpenAreTabs DEF Next

\* An action is of an open tab, or of a client with a refresh under way, or of none; it
\* touches that tab and its clients only.
Touches(t) == /\ \A s \in Tabs \ {t} : tab'[s] = tab[s]
              /\ \A c \in Clients : c[1] # t => flight'[c] = flight[c]

LEMMA SettlingTouches ==
    ASSUME TypeOK, NEW c \in Clients, Settling(c) \/ RefreshFails(c)
    PROVE  ~Idle(c) /\ Touches(c[1])
<1>1. c[1] \in Tabs
  BY ClientsAre
<1>. QED  BY <1>1 DEF Settling, Granted, ServeRefresh, Answers, RefreshAnswered, Resume,
                      RefreshFails, Idle, Touches, TypeOK

LEMMA TabTouches ==
    ASSUME TypeOK, NEW t \in Tabs,
           \/ Proceeds(t) \/ CallFails(t) \/ Deliver(t)
           \/ Signs(t) \/ Refreshes(t) \/ Settings(t)
    PROVE  Touches(t)
<1>. USE DEF browser
<1>0. ASSUME UNCHANGED flight, \/ UNCHANGED tab \/ \E x : tab' = [tab EXCEPT ![t] = x]
      PROVE  Touches(t)
  BY <1>0 DEF Touches, TypeOK
<1>1. CASE Proceeds(t) \/ CallFails(t) \/ Deliver(t) \/ Settings(t)
  <2>1. UNCHANGED flight
    BY <1>1, Alone DEF FlightsAlone
  <2>2. LogsOut(t) => \E x : tab' = [tab EXCEPT ![t] = x]
    BY DEF LogsOut
  <2>3. Proceeds(t) => UNCHANGED tab \/ \E x : tab' = [tab EXCEPT ![t] = x]
    BY <2>2 DEF Proceeds, ServeCall, LoggedIn, LoggedOut, SupportStarts
  <2>4. CallFails(t) => UNCHANGED tab \/ \E x : tab' = [tab EXCEPT ![t] = x]
    BY <2>2 DEF CallFails
  <2>5. Deliver(t) => \E x : tab' = [tab EXCEPT ![t] = x]
    <3>. SUFFICES ASSUME Deliver(t) PROVE \E x : tab' = [tab EXCEPT ![t] = x]
      OBVIOUS
    <3>1. inbox[t] \in Seq(Message) /\ inbox[t] # <<>>
      BY DEF Deliver, TypeOK
    <3>2. PICK m \in Message : m = Head(inbox[t])
      BY <3>1, Shorter
    <3>3. Head(inbox[t]).type \in {"done", "login", "logout"}
      BY <3>2 DEF Message
    <3>. QED  BY <3>3 DEF Deliver
  <2>6. Settings(t) => UNCHANGED tab \/ \E x : tab' = [tab EXCEPT ![t] = x]
    BY DEF Settings, OpenSettings, ProfileArrives, LeaveSettings, SaveProfile, SavePreferences
  <2>. QED  BY <1>0, <1>1, <2>1, <2>3, <2>4, <2>5, <2>6
<1>2. ASSUME NEW c \in Clients, NEW why \in Waiter, Awaits(c, why), c[1] = t, UNCHANGED tab
      PROVE  Touches(t)
  BY <1>2, AwaitedFlight DEF Touches
<1>3. CASE Signs(t)
  <2>1. CASE ExitSupport(t)
    BY <1>2, <2>1, ClientsAre DEF ExitSupport, Waiter
  <2>2. CASE ~ExitSupport(t)
    BY <1>3, <2>2 DEF Signs, SignIn, StartSupport, SignOut, ChangePassword, Touches
  <2>. QED  BY <2>1, <2>2
<1>4. CASE Refreshes(t)
  <2>1. CASE Reload(t)
    BY <2>1, ReloadedFlight DEF Reload, Touches, TypeOK
  <2>2. CASE Heartbeat(t)
    BY <1>2, <2>2, ClientsAre DEF Heartbeat, Waiter
  <2>3. CASE Unauthorized(t)
    <3>1. Remote(t)[1] = t
      BY DEF Remote
    <3>. QED  BY <1>2, <2>3, <3>1 DEF Unauthorized, Waiter
  <2>. QED  BY <1>4, <2>1, <2>2, <2>3 DEF Refreshes
<1>. QED  BY <1>1, <1>3, <1>4

LEMMA ClosedStep ==
    ASSUME TypeOK, ClosedInv, [Next]_vars
    PROVE  ClosedInv'
<1>1. ASSUME NEW t, t \in Open, Touches(t) PROVE ClosedInv'
  BY <1>1, OpenStep DEF Touches, ClosedInv, Idle
<1>2. ASSUME NEW c \in Clients, Settling(c) \/ RefreshFails(c) PROVE ClosedInv'
  <2>1. c[1] \in Open
    BY <1>2, SettlingTouches, ClientsAre DEF ClosedInv
  <2>. QED  BY <1>1, <1>2, <2>1, SettlingTouches
<1>3. CASE UNCHANGED <<tab, flight>>
  BY <1>3, OpenStep DEF ClosedInv, Idle
<1>4. UNCHANGED vars \/ Ages \/ (\E n \in DOMAIN rows : GraceLapses(n))
         \/ (\E u \in Users : Revokes(u)) => UNCHANGED <<tab, flight>>
  BY DEF Ages, GraceLapses, Revokes, browser, vars
<1>. QED  BY <1>1, <1>2, <1>3, <1>4, TabTouches, OpenAreTabs DEF Next

\* Steps that only the service notices, or nobody but their tab's page.
Quietly ==
    /\ Grows /\ cookie' \in {cookie, 0} /\ UNCHANGED <<last, inbox>>
    /\ \A c \in Clients :
          /\ Idle(c)' = Idle(c)
          /\ AtService(c)' => AtService(c) /\ flight'[c].sent = flight[c].sent
          /\ flight'[c].phase = "settled" =>
                flight[c].phase = "settled" /\ flight'[c].got = flight[c].got
    /\ \A t \in Tabs :
          /\ tab'[t].user = tab[t].user /\ tab'[t].token = tab[t].token
          /\ tab'[t].original = tab[t].original
          /\ call'[t].op \in {call[t].op, "none"}

\* What the cookie and the requests speak for does not change while rows are added.
LEMMA SpokenFor ==
    ASSUME TypeOK, LastInv, Grows
    PROVE  /\ cookie # 0 => rows'[cookie].user = last
           /\ \A c \in Clients : AtService(c) /\ flight[c].sent # 0 =>
                 rows'[flight[c].sent].user = last
<1>1. cookie # 0 => rows'[cookie].user = last
  BY NumbersAre, GrownDomain DEF LastInv
<1>2. ASSUME NEW c \in Clients, AtService(c), flight[c].sent # 0
      PROVE  rows'[flight[c].sent].user = last
  <2>1. flight[c].sent \in DOMAIN rows
    BY <1>2, NumbersAre
  <2>. QED  BY <1>2, <2>1, GrownDomain DEF LastInv
<1>. QED  BY <1>1, <1>2

LEMMA QuietAgree ==
    ASSUME TypeOK, Uncrossed, Quietly
    PROVE  Uncrossed'
<1>1. \A t \in Tabs : Signing(t)' => Signing(t)
  BY DEF Quietly, Signing
<1>2. \A t \in Tabs : /\ Unheard(t)' = Unheard(t)
                      /\ InSupport(tab[t])' = InSupport(tab[t])
  BY DEF Quietly, Unheard, InSupport
<1>3. AloneInv'
  BY <1>1, <1>2 DEF Quietly, Uncrossed, AloneInv
<1>4. LastInv'
  <2>1. cookie' # 0 => rows'[cookie'].user = last'
    BY SpokenFor DEF Quietly, Uncrossed
  <2>2. \A c \in Clients : AtService(c)' /\ flight'[c].sent # 0 =>
           rows'[flight'[c].sent].user = last'
    BY SpokenFor DEF Quietly, Uncrossed
  <2>3. \A c \in Clients : flight'[c].phase = "settled" => flight'[c].got \in {last', NoOne}
    BY DEF Quietly, Uncrossed, LastInv
  <2>4. \A t \in Tabs : \A i \in DOMAIN inbox'[t] : inbox'[t][i].user = last'
    BY DEF Quietly, Uncrossed, LastInv
  <2>. QED  BY <2>1, <2>2, <2>3, <2>4 DEF LastInv
<1>5. TabInv'
  BY <1>2 DEF Quietly, Uncrossed, TabInv
<1>. QED  BY <1>3, <1>4, <1>5 DEF Uncrossed

LEMMA FlightsSame ==
    ASSUME UNCHANGED flight
    PROVE  \A c \in Clients :
              /\ Idle(c)' = Idle(c)
              /\ AtService(c)' => AtService(c) /\ flight'[c].sent = flight[c].sent
              /\ flight'[c].phase = "settled" =>
                    flight[c].phase = "settled" /\ flight'[c].got = flight[c].got
  BY DEF Idle, AtService

LEMMA QuietSteps ==
    ASSUME TypeOK,
           \/ \E c \in Clients : ServeRefresh(c)
           \/ \E t \in Tabs : ServeCall(t) \/ Settings(t)
           \/ \E t \in Tabs : CallFails(t) /\ call[t].op # "logout"
           \/ Ages
           \/ \E n \in DOMAIN rows : GraceLapses(n)
           \/ \E u \in Users : Revokes(u)
           \/ UNCHANGED vars
    PROVE  Quietly
<1>. USE DEF browser, history
<1>1. UNCHANGED rows => Grows
  BY SameRows, WeakerGrows
<1>2. ASSUME NEW c \in Clients, ServeRefresh(c) PROVE Quietly
  <2>1. Grows /\ UNCHANGED <<cookie, last, inbox, tab, call>>
    BY <1>2, ServedRows DEF ServeRefresh
  <2>2. flight[c].phase = "sent"
    BY <1>2 DEF ServeRefresh
  <2>3. /\ flight'[c].phase = "answered" /\ flight'[c].sent = flight[c].sent
        /\ \A d \in Clients \ {c} : flight'[d] = flight[d]
    BY <1>2, ServedRows, AnswersFlight
  <2>4. \A d \in Clients :
          /\ Idle(d)' = Idle(d)
          /\ AtService(d)' => AtService(d) /\ flight'[d].sent = flight[d].sent
          /\ flight'[d].phase = "settled" =>
                flight[d].phase = "settled" /\ flight'[d].got = flight[d].got
    BY <2>2, <2>3 DEF Idle, AtService
  <2>. QED  BY <2>1, <2>4 DEF Quietly
<1>3. ASSUME NEW t \in Tabs, ServeCall(t) PROVE Quietly
  <2>1. UNCHANGED <<cookie, last, inbox, tab, flight>> /\ call[t] \in CallState
    BY <1>3 DEF ServeCall, TypeOK
  <2>2. Grows
    <3>1. CASE call[t].op = "login"
      <4>1. call[t].who \in Users /\ Login(call[t].who)
        BY <1>3, <3>1 DEF ServeCall, TypeOK
      <4>. QED  BY <4>1, LoginRows, RowsAre DEF Grows
    <3>2. CASE call[t].op # "login"
      <4>1. call[t].sent \in Numbers
        BY <2>1 DEF CallState
      <4>2. Logout(call[t].sent) \/ UNCHANGED rows
        BY <1>3, <3>2 DEF ServeCall
      <4>. QED  BY <1>1, <4>1, <4>2, LogoutRows, WeakerGrows
    <3>. QED  BY <3>1, <3>2
  <2>3. \A s \in Tabs : call'[s].op = call[s].op
    BY <1>3, <2>1 DEF ServeCall, CallState, TypeOK
  <2>. QED  BY <2>1, <2>2, <2>3, FlightsSame DEF Quietly
<1>4. ASSUME NEW t \in Tabs, Settings(t) PROVE Quietly
  <2>1. UNCHANGED <<rows, cookie, last, inbox, flight, call>>
    BY <1>4 DEF Settings, OpenSettings, ProfileArrives, LeaveSettings, SaveProfile,
                SavePreferences
  <2>2. tab[t] \in TabState /\ Touches(t)
    BY <1>4, TabTouches DEF TypeOK
  <2>3. /\ tab'[t].user = tab[t].user /\ tab'[t].token = tab[t].token
        /\ tab'[t].original = tab[t].original
    <3>1. CASE OpenSettings(t)
      BY <2>2, <3>1 DEF OpenSettings, TabState, TypeOK
    <3>2. CASE ProfileArrives(t)
      BY <2>2, <3>2 DEF ProfileArrives, TabState, TypeOK
    <3>3. CASE LeaveSettings(t)
      BY <2>2, <3>3, ReducerFields, Nobody DEF LeaveSettings, TypeOK
    <3>4. CASE SaveProfile(t)
      BY <2>2, <3>4 DEF SaveProfile, TabState, TypeOK
    <3>5. CASE SavePreferences(t)
      BY <3>5 DEF SavePreferences
    <3>. QED  BY <1>4, <3>1, <3>2, <3>3, <3>4, <3>5 DEF Settings
  <2>. QED  BY <1>1, <2>1, <2>2, <2>3, FlightsSame DEF Quietly, Touches
<1>5. ASSUME NEW t \in Tabs, CallFails(t), call[t].op # "logout" PROVE Quietly
  <2>1. /\ UNCHANGED <<rows, cookie, last, inbox, flight, tab>>
        /\ call' = [call EXCEPT ![t] = NoCall]
    BY <1>5 DEF CallFails
  <2>2. \A s \in Tabs : call'[s].op \in {call[s].op, "none"}
    BY <2>1 DEF NoCall, TypeOK
  <2>. QED  BY <1>1, <2>1, <2>2, FlightsSame DEF Quietly
<1>6. CASE \/ Ages
           \/ \E n \in DOMAIN rows : GraceLapses(n)
           \/ \E u \in Users : Revokes(u)
           \/ UNCHANGED vars
  <2>1. UNCHANGED <<cookie, last, inbox, flight, tab, call>>
    BY <1>6 DEF Ages, GraceLapses, Revokes, vars
  <2>2. Grows
    <3>1. Ages \/ UNCHANGED vars => UNCHANGED rows
      BY DEF Ages, vars
    <3>. QED  BY <1>1, <1>6, <3>1, GraceRows, RevokedRows, WeakerGrows DEF Revokes
  <2>. QED  BY <2>1, <2>2, FlightsSame DEF Quietly
<1>. QED  BY <1>2, <1>3, <1>4, <1>5, <1>6

\* Where nobody signs in or out and every tab has heard.
LEMMA HeardAgree ==
    ASSUME \A t \in Tabs : ~Signing(t)' /\ ~Unheard(t)',
           \A t \in Tabs : InSupport(tab[t])' \/ Speaks(tab[t], last)',
           LastInv'
    PROVE  Uncrossed'
<1>1. AloneInv'
  BY DEF AloneInv
<1>2. TabInv'
  BY DEF TabInv, Speaks, Signing
<1>. QED  BY <1>1, <1>2 DEF Uncrossed

LEMMA Heard ==
    ASSUME Uncrossed, \A t \in Tabs : ~Unheard(t)
    PROVE  \A t \in Tabs : InSupport(tab[t]) \/ Speaks(tab[t], last)
  BY DEF Uncrossed, TabInv, Speaks

\* While a refresh is under way nobody signs in or out, and every tab has heard.
LEMMA NotAlone ==
    ASSUME Uncrossed, NEW c \in Clients, ~Idle(c)
    PROVE  \A t \in Tabs : ~Signing(t) /\ ~Unheard(t)
  BY DEF Uncrossed, AloneInv

LEMMA GrantedAgree ==
    ASSUME TypeOK, Uncrossed, NEW c \in Clients, Granted(c), ~crossed'
    PROVE  Uncrossed'
<1>1. /\ UNCHANGED <<rows, cookie, tab, call, inbox, last>> /\ flight[c].phase = "queued"
      /\ recent[c] \in {last, NoOne} /\ flight[c] \in FlightState
  BY DEF Granted, TypeOK
<1>2. \A t \in Tabs : ~Signing(t) /\ ~Unheard(t)
  BY <1>1, NotAlone DEF Idle
<1>3. \A d \in Clients \ {c} : flight'[d] = flight[d]
  BY DEF Granted, TypeOK
<1>4. \/ flight'[c].phase = "settled" /\ flight'[c].got = recent[c]
      \/ flight'[c].phase = "sent" /\ flight'[c].sent = cookie
  BY <1>1 DEF Granted, FlightState, TypeOK
<1>5. LastInv'
  BY <1>1, <1>3, <1>4 DEF Uncrossed, LastInv, AtService
<1>6. \A t \in Tabs : InSupport(tab[t])' \/ Speaks(tab[t], last)'
  BY <1>1, <1>2, Heard DEF InSupport, Speaks
<1>. QED  BY <1>1, <1>2, <1>5, <1>6, HeardAgree DEF Signing, Unheard

LEMMA FailsAgree ==
    ASSUME TypeOK, Uncrossed, NEW c \in Clients, RefreshFails(c)
    PROVE  Uncrossed'
<1>1. /\ UNCHANGED <<rows, cookie, tab, call, inbox, last>> /\ ~Idle(c)
      /\ flight[c] \in FlightState
  BY DEF RefreshFails, Idle, TypeOK
<1>2. \A t \in Tabs : ~Signing(t) /\ ~Unheard(t)
  BY <1>1, NotAlone
<1>3. /\ flight'[c].phase = "settled" /\ flight'[c].got = NoOne
      /\ \A d \in Clients \ {c} : flight'[d] = flight[d]
  BY <1>1 DEF RefreshFails, FlightState, TypeOK
<1>5. LastInv'
  BY <1>1, <1>3 DEF Uncrossed, LastInv, AtService
<1>6. \A t \in Tabs : InSupport(tab[t])' \/ Speaks(tab[t], last)'
  BY <1>1, <1>2, Heard DEF InSupport, Speaks
<1>. QED  BY <1>1, <1>2, <1>5, <1>6, HeardAgree DEF Signing, Unheard

\* What a broadcast adds to the inboxes.
LEMMA PostedTo ==
    ASSUME TypeOK, NEW to, NEW msg \in Message, inbox' = Posted(msg, to), NEW s \in Tabs
    PROVE  /\ s \notin to => inbox'[s] = inbox[s]
           /\ s \in to /\ inbox[s] = <<>> =>
                 Len(inbox'[s]) = 1 /\ DOMAIN inbox'[s] = {1} /\ inbox'[s][1] = msg
           /\ \A i \in DOMAIN inbox'[s] :
                 inbox'[s][i] = msg \/ (i \in DOMAIN inbox[s] /\ inbox'[s][i] = inbox[s][i])
<1>1. inbox[s] \in Seq(Message)
  BY DEF TypeOK
<1>2. inbox'[s] = IF s \in to THEN Append(inbox[s], msg) ELSE inbox[s]
  BY DEF Posted
<1>3. PICK q \in Seq(Message) : q = inbox[s]
  BY <1>1
<1>4. PICK r \in Seq(Message) : r = Append(q, msg)
  BY Appended
<1>5. /\ Len(r) = Len(q) + 1 /\ Len(q) \in Nat /\ DOMAIN r = 1 .. Len(r)
      /\ DOMAIN q = 1 .. Len(q)
      /\ \A i \in 1 .. Len(q) : r[i] = q[i]
      /\ r[Len(q) + 1] = msg
  BY <1>4, Appended, Elements
<1>6. \A i \in DOMAIN r : r[i] = msg \/ (i \in DOMAIN q /\ r[i] = q[i])
  BY <1>5
<1>7. q = <<>> => Len(r) = 1 /\ DOMAIN r = {1} /\ r[1] = msg
  BY <1>5
<1>. QED  BY <1>2, <1>3, <1>4, <1>6, <1>7

LEMMA AnsweredAgree ==
    ASSUME TypeOK, Issues, Uncrossed, NEW c \in Clients, RefreshAnswered(c)
    PROVE  Uncrossed'
<1>. DEFINE t == c[1]
            n == flight[c].row
            w == IF n = 0 THEN NoOne ELSE rows[n].user
<1>1. PICK u : u = w
  OBVIOUS
<1>2. /\ UNCHANGED <<rows, call, last>> /\ flight[c].phase = "answered" /\ ~Idle(c)
      /\ flight[c] \in FlightState /\ t \in Tabs
      /\ cookie' = IF n = 0 /\ flight[c].sent = 0 THEN cookie ELSE n
      /\ flight' = [flight EXCEPT ![c].phase = "settled", ![c].got = u]
      /\ IF u = NoOne THEN UNCHANGED <<tab, inbox>>
         ELSE /\ tab' = [tab EXCEPT ![t].token = Own(u)]
              /\ inbox' = Posted([type |-> "done", user |-> u, from |-> c], Open)
  BY <1>1, ClientsAre DEF RefreshAnswered, history, Idle, TypeOK
<1>3. \A s \in Tabs : ~Signing(s) /\ ~Unheard(s)
  BY <1>2, NotAlone
<1>4. /\ flight'[c].phase = "settled" /\ flight'[c].got = u
      /\ \A d \in Clients \ {c} : flight'[d] = flight[d]
  BY <1>2 DEF FlightState, TypeOK
<1>5. u \in {last, NoOne} /\ u \in Anyone /\ (n # 0 => rows[n].user = last)
  <2>1. ASSUME n # 0 PROVE rows[n].user = last
    <3>1. flight[c].sent # 0 /\ rows[n].user = rows[flight[c].sent].user
      BY <1>2, <2>1 DEF Issues, SentInv
    <3>. QED  BY <1>2, <3>1 DEF Uncrossed, LastInv, AtService
  <2>. QED  BY <1>1, <2>1 DEF TypeOK, Anyone
<1>. HIDE DEF w, n, t
<1>6. \A s \in Tabs : \A i \in DOMAIN inbox'[s] :
         \/ inbox'[s][i].type = "done" /\ inbox'[s][i].user = last
         \/ i \in DOMAIN inbox[s] /\ inbox'[s][i] = inbox[s][i]
  <2>1. CASE u = NoOne
    BY <1>2, <2>1
  <2>2. CASE u # NoOne
    <3>1. PICK msg \in Message : msg = [type |-> "done", user |-> u, from |-> c]
      BY <1>5 DEF Message
    <3>2. msg.type = "done" /\ msg.user = last
      BY <1>5, <2>2, <3>1
    <3>. QED  BY <1>2, <2>2, <3>1, <3>2, PostedTo
  <2>. QED  BY <2>1, <2>2
<1>7. \A s \in Tabs : ~Signing(s)' /\ ~Unheard(s)'
  BY <1>2, <1>3, <1>6 DEF Signing, Unheard
<1>8. LastInv'
  <2>1. cookie' # 0 => rows'[cookie'].user = last'
    BY <1>2, <1>5 DEF Uncrossed, LastInv, n
  <2>2. \A d \in Clients : AtService(d)' /\ flight'[d].sent # 0 =>
           rows'[flight'[d].sent].user = last'
    BY <1>2, <1>4 DEF Uncrossed, LastInv, AtService
  <2>3. \A d \in Clients : flight'[d].phase = "settled" => flight'[d].got \in {last', NoOne}
    BY <1>2, <1>4, <1>5 DEF Uncrossed, LastInv
  <2>4. \A s \in Tabs : \A i \in DOMAIN inbox'[s] : inbox'[s][i].user = last'
    BY <1>2, <1>6 DEF Uncrossed, LastInv
  <2>. QED  BY <2>1, <2>2, <2>3, <2>4 DEF LastInv
<1>9. \A s \in Tabs : InSupport(tab[s])' \/ Speaks(tab[s], last)'
  <2>. SUFFICES ASSUME NEW s \in Tabs PROVE InSupport(tab'[s]) \/ Speaks(tab'[s], last)
    BY <1>2 DEF InSupport, Speaks
  <2>1. InSupport(tab[s]) \/ Speaks(tab[s], last)
    BY <1>3, Heard
  <2>2. CASE tab'[s] = tab[s]
    BY <2>1, <2>2
  <2>3. CASE u # NoOne /\ s = t
    <3>1. tab[s] \in TabState /\ tab' = [tab EXCEPT ![t].token = Own(u)]
      BY <1>2, <2>3 DEF TypeOK
    <3>2. /\ tab'[s].token = Own(u) /\ tab'[s].user = tab[s].user
          /\ tab'[s].original = tab[s].original
      BY <1>2, <2>3, <3>1 DEF TabState, TypeOK
    <3>. QED  BY <1>5, <2>1, <3>2, NobodyFields DEF InSupport, Speaks
  <2>4. \/ tab'[s] = tab[s]
        \/ u # NoOne /\ s = t
    BY <1>2 DEF TypeOK
  <2>. QED  BY <2>2, <2>3, <2>4
<1>. QED  BY <1>7, <1>8, <1>9, HeardAgree

LEMMA ResumeAgree ==
    ASSUME TypeOK, Uncrossed, NEW c \in Clients, Resume(c), ~crossed'
    PROVE  Uncrossed'
<1>. DEFINE t == c[1]
            W == flight[c].for
<1>1. /\ UNCHANGED <<rows, cookie, call, inbox, last>> /\ flight[c].phase = "settled"
      /\ flight[c].got \in {last, NoOne} /\ t \in Tabs
  BY ClientsAre DEF Resume, Uncrossed, LastInv
<1>2. PICK u \in {last, NoOne} : u = flight[c].got
  BY <1>1
<1>3. "exit" \in W => u # NoOne
  BY <1>2 DEF Resume
<1>4. \A s \in Tabs : ~Signing(s) /\ ~Unheard(s)
  BY <1>1, NotAlone DEF Idle
<1>5. flight'[c].phase = "idle" /\ \A d \in Clients \ {c} : flight'[d] = flight[d]
  BY DEF Resume, NoFlight, TypeOK
<1>6. LastInv'
  BY <1>1, <1>5 DEF Uncrossed, LastInv, AtService
<1>7. tab[t] \in TabState /\ last \in Anyone
  BY <1>1 DEF TypeOK
<1>8. PICK v \in Anyone : v = last
  BY <1>7
<1>9. u \in Anyone /\ u \in {v, NoOne}
  BY <1>7, <1>8, Nobody
<1>10. PICK a \in TabState : a = IF "boot" \in W THEN Boots(tab[t], u) ELSE tab[t]
  BY <1>7, <1>9, AfterRefreshType
<1>11. PICK b \in TabState : b = IF "beat" \in W THEN Beats(a, u) ELSE a
  BY <1>9, AfterRefreshType
<1>12. PICK d \in TabState : d = IF "call" \in W THEN Retries(b, u) ELSE b
  BY <1>9, AfterRefreshType
<1>13. PICK e \in TabState : e = IF "exit" \in W THEN Exits(d, u) ELSE d
  BY <1>9, AfterRefreshType
<1>14. tab' = [tab EXCEPT ![t] = e]
  BY <1>2, <1>10, <1>11, <1>12, <1>13 DEF Resume
<1>15. /\ a.original = tab[t].original /\ (Speaks(tab[t], v) => Speaks(a, v))
       /\ b.original = a.original /\ (Speaks(a, v) => Speaks(b, v))
       /\ d.original = b.original /\ (Speaks(b, v) => Speaks(d, v))
  BY <1>7, <1>9, <1>10, <1>11, <1>12, AfterRefreshSpeaks
<1>16. InSupport(tab[t]) \/ Speaks(tab[t], v)
  BY <1>1, <1>4, <1>8, Heard
<1>17. InSupport(e) \/ Speaks(e, v)
  BY <1>3, <1>9, <1>13, <1>15, <1>16, AfterRefreshSpeaks DEF InSupport
<1>. HIDE DEF t, W
<1>18. \A s \in Tabs : InSupport(tab[s])' \/ Speaks(tab[s], last)'
  <2>. SUFFICES ASSUME NEW s \in Tabs PROVE InSupport(tab'[s]) \/ Speaks(tab'[s], last)
    BY <1>1 DEF InSupport, Speaks
  <2>1. InSupport(tab[s]) \/ Speaks(tab[s], last)
    BY <1>4, Heard
  <2>2. tab'[s] = IF s = t THEN e ELSE tab[s]
    BY <1>14 DEF TypeOK
  <2>. QED  BY <1>8, <1>17, <2>1, <2>2
<1>. QED  BY <1>1, <1>4, <1>6, <1>18, HeardAgree DEF Signing, Unheard

\* A refresh begins, or a tab is loaded: in neither case is anybody signing in or out.
LEMMA AwaitsAgree ==
    ASSUME TypeOK, Uncrossed, NEW c \in Clients, NEW why \in Waiter, Awaits(c, why),
           UNCHANGED tab, ~crossed'
    PROVE  Uncrossed'
<1>1. UNCHANGED <<rows, cookie, call, inbox, last>> /\ ~Changing
  BY DEF Awaits
<1>2. \A t \in Tabs : ~Signing(t) /\ ~Unheard(t)
  BY <1>1 DEF Changing
<1>3. LastInv'
  <2>1. /\ AtService(c)' => AtService(c) /\ flight'[c].sent = flight[c].sent
        /\ flight'[c].phase = "settled" =>
              flight[c].phase = "settled" /\ flight'[c].got = flight[c].got
        /\ \A d \in Clients \ {c} : flight'[d] = flight[d]
    BY AwaitedFlight DEF AtService, Idle
  <2>. QED  BY <1>1, <2>1 DEF Uncrossed, LastInv, AtService
<1>4. \A t \in Tabs : InSupport(tab[t])' \/ Speaks(tab[t], last)'
  BY <1>1, <1>2, Heard DEF InSupport, Speaks
<1>. QED  BY <1>1, <1>2, <1>3, <1>4, HeardAgree DEF Signing, Unheard

LEMMA ReloadAgree ==
    ASSUME TypeOK, Uncrossed, NEW t \in Tabs, Reload(t), ~crossed'
    PROVE  Uncrossed'
<1>1. /\ UNCHANGED <<rows, cookie, last>> /\ ~Changing
      /\ tab' = [tab EXCEPT ![t] = Fresh] /\ call' = [call EXCEPT ![t] = NoCall]
      /\ inbox' = [inbox EXCEPT ![t] = <<>>]
  BY DEF Reload
<1>2. \A s \in Tabs : ~Signing(s) /\ ~Unheard(s)
  BY <1>1 DEF Changing
<1>3. \A s \in Tabs : ~Signing(s)' /\ ~Unheard(s)'
  <2>1. \A s \in Tabs : call'[s] = IF s = t THEN NoCall ELSE call[s]
    BY <1>1 DEF TypeOK
  <2>2. \A s \in Tabs : inbox'[s] = IF s = t THEN <<>> ELSE inbox[s]
    BY <1>1 DEF TypeOK
  <2>3. \A s \in Tabs : ~Signing(s)'
    BY <1>2, <2>1 DEF Signing, NoCall
  <2>4. \A s \in Tabs : ~Unheard(s)'
    BY <1>2, <2>2 DEF Unheard
  <2>. QED  BY <2>3, <2>4
<1>4. LastInv'
  <2>1. \A c \in Clients : flight'[c] = flight[c] \/ flight'[c].phase \in {"idle", "queued"}
    BY ReloadedFlight DEF NoFlight
  <2>2. \A s \in Tabs : inbox'[s] = inbox[s] \/ inbox'[s] = <<>>
    BY <1>1 DEF TypeOK
  <2>. QED  BY <1>1, <2>1, <2>2 DEF Uncrossed, LastInv, AtService
<1>5. \A s \in Tabs : InSupport(tab[s])' \/ Speaks(tab[s], last)'
  <2>1. Speaks(Fresh, last)
    BY NobodyFields DEF Speaks, Fresh
  <2>2. \A s \in Tabs : tab'[s] = IF s = t THEN Fresh ELSE tab[s]
    BY <1>1 DEF TypeOK
  <2>. QED  BY <1>1, <1>2, <2>1, <2>2, Heard DEF InSupport, Speaks
<1>. QED  BY <1>3, <1>4, <1>5, HeardAgree

\* A sign-in, sign-out or support session begins, alone.
LEMMA BeginsAgree ==
    ASSUME TypeOK, Uncrossed, NEW t \in Tabs, ~crossed',
           SignOut(t) \/ ChangePassword(t) \/ \E u \in Users : SignIn(t, u) \/ StartSupport(t, u)
    PROVE  Uncrossed'
<1>. USE DEF browser
<1>1. ~Crosses(t) /\ UNCHANGED <<flight, tab, inbox, last>> /\ cookie' \in {cookie, 0}
  BY DEF SignOut, ChangePassword, SignIn, StartSupport
<1>2. Grows
  BY SameRows, RevokedRows, WeakerGrows DEF SignOut, ChangePassword, SignIn, StartSupport
<1>3. /\ \A s \in Tabs \ {t} : call'[s] = call[s]
      /\ call'[t].op = "start" => tab[t].user # NoOne
  <2>1. ASSUME NEW op, NEW who, Calls(t, op, who)
        PROVE  /\ \A s \in Tabs \ {t} : call'[s] = call[s]
               /\ call'[t].op = op
    BY <2>1 DEF Calls, TypeOK
  <2>2. ASSUME ChangePassword(t)
        PROVE  /\ \A s \in Tabs \ {t} : call'[s] = call[s]
               /\ call'[t].op = "logout"
    BY <2>2 DEF ChangePassword, NoCall, TypeOK
  <2>3. ASSUME NEW u \in Users, StartSupport(t, u)
        PROVE  Calls(t, "start", u) /\ tab[t].user # NoOne
    BY <2>3 DEF StartSupport
  <2>4. ASSUME NEW u \in Users, SignIn(t, u) PROVE Calls(t, "login", u)
    BY <2>4 DEF SignIn
  <2>5. SignOut(t) => Calls(t, "logout", NoOne)
    BY DEF SignOut
  <2>6. CASE SignOut(t)
    BY <2>1, <2>5, <2>6
  <2>7. CASE ChangePassword(t)
    BY <2>2, <2>7
  <2>8. CASE \E u \in Users : SignIn(t, u)
    BY <2>1, <2>4, <2>8
  <2>9. CASE \E u \in Users : StartSupport(t, u)
    BY <2>1, <2>3, <2>9
  <2>. QED  BY <2>6, <2>7, <2>8, <2>9
<1>4. /\ \A s \in Tabs \ {t} : ~Signing(s)
      /\ \A c \in Clients : Idle(c)
      /\ \A s \in Tabs : inbox[s] = <<>>
  BY <1>1 DEF Crosses
<1>5. \A s \in Tabs : ~Unheard(s)
  BY <1>4 DEF Unheard
<1>6. AloneInv'
  <2>1. \A s \in Tabs : Signing(s)' => s = t
    BY <1>3, <1>4 DEF Signing
  <2>2. \A s \in Tabs : ~Unheard(s)'
    BY <1>1, <1>5 DEF Unheard
  <2>3. \A c \in Clients : Idle(c)'
    BY <1>1, <1>4 DEF Idle
  <2>. QED  BY <1>1, <1>4, <2>1, <2>2, <2>3 DEF AloneInv
<1>7. LastInv'
  <2>1. cookie' # 0 => rows'[cookie'].user = last'
    BY <1>1, <1>2, SpokenFor DEF Uncrossed
  <2>2. \A c \in Clients : flight'[c].phase = "idle"
    BY <1>1, <1>4 DEF Idle
  <2>3. \A s \in Tabs : inbox'[s] = <<>>
    BY <1>1, <1>4
  <2>. QED  BY <2>1, <2>2, <2>3 DEF LastInv, AtService
<1>8. TabInv'
  <2>1. \A s \in Tabs : call'[s].op = "start" => tab'[s].user # NoOne
    BY <1>1, <1>3 DEF Uncrossed, TabInv
  <2>2. \A s \in Tabs : Unheard(s)' = Unheard(s)
    BY <1>1 DEF Unheard
  <2>. QED  BY <1>1, <2>1, <2>2 DEF Uncrossed, TabInv, InSupport
<1>. QED  BY <1>6, <1>7, <1>8 DEF Uncrossed

\* It ends, and the other tabs are told.
LEMMA ToldAgree ==
    ASSUME TypeOK, ClosedInv, Uncrossed, NEW t \in Tabs, Signing(t), UNCHANGED <<flight, left>>,
           NEW msg \in Message, msg.type # "done", msg.user = last', Tells(t, msg),
           call' = [call EXCEPT ![t] = NoCall], cookie' # 0 => rows'[cookie'].user = last',
           NEW x, tab' = [tab EXCEPT ![t] = x], Speaks(x, last'), last' \in Anyone
    PROVE  Uncrossed'
<1>1. /\ \A s \in Tabs \ {t} : ~Signing(s)
      /\ \A c \in Clients : Idle(c)
      /\ \A s \in Tabs : inbox[s] = <<>>
  BY DEF Uncrossed, AloneInv
<1>2. \A s \in Tabs : ~Signing(s)'
  BY <1>1 DEF Signing, NoCall, TypeOK
<1>3. \A c \in Clients : Idle(c)'
  BY <1>1 DEF Idle
<1>4. ASSUME NEW s \in Tabs
      PROVE  IF s \in Open \ {t} THEN Len(inbox'[s]) = 1 /\ DOMAIN inbox'[s] = {1}
                                      /\ inbox'[s][1] = msg
             ELSE inbox'[s] = <<>>
  <2>1. inbox' = Posted(msg, Open \ {t}) /\ inbox[s] = <<>>
    BY <1>1 DEF Tells
  <2>2. PICK to : to = Open \ {t}
    OBVIOUS
  <2>3. CASE s \in to
    <3>1. inbox' = Posted(msg, to)
      BY <2>1, <2>2
    <3>2. s \in to /\ inbox[s] = <<>> =>
             Len(inbox'[s]) = 1 /\ DOMAIN inbox'[s] = {1} /\ inbox'[s][1] = msg
      BY <3>1, PostedTo
    <3>. QED  BY <2>1, <2>2, <2>3, <3>2
  <2>4. CASE s \notin to
    BY <2>1, <2>2, <2>4, PostedTo
  <2>. QED  BY <2>2, <2>3, <2>4
<1>5. AloneInv'
  <2>1. \A s \in Tabs : Unheard(s)' => Len(inbox'[s]) = 1
    BY <1>4 DEF Unheard
  <2>. QED  BY <1>2, <1>3, <2>1 DEF AloneInv
<1>6. LastInv'
  <2>1. \A s \in Tabs : \A i \in DOMAIN inbox'[s] : inbox'[s][i].user = last'
    BY <1>4
  <2>2. \A c \in Clients : flight'[c].phase = "idle"
    BY <1>1 DEF Idle
  <2>. QED  BY <2>1, <2>2 DEF LastInv, AtService
<1>7. ASSUME NEW s \in Tabs \ {t}, s \notin Open PROVE Speaks(tab'[s], last')
  BY <1>7, NobodyFields DEF ClosedInv, Speaks, TypeOK
<1>8. \A s \in Tabs \ {t} : s \in Open => Unheard(s)'
  BY <1>4 DEF Unheard
<1>9. \A s \in Tabs \ {t} : tab'[s] = tab[s]
  BY DEF TypeOK
<1>10. tab'[t] = x
  BY DEF TypeOK
<1>11. TabInv'
  <2>1. \A s \in Tabs : ~InSupport(tab[s])' /\ ~Unheard(s)' => Speaks(tab'[s], last')
    BY <1>7, <1>8, <1>10
  <2>2. \A s \in Tabs : ~InSupport(tab[s])' /\ tab'[s].user # NoOne =>
           tab'[s].token.sub \in {tab'[s].user, NoOne}
    BY <1>9, <1>10 DEF Uncrossed, TabInv, InSupport, Speaks
  <2>. QED  BY <1>2, <2>1, <2>2 DEF TabInv, Signing, Speaks
<1>. QED  BY <1>5, <1>6, <1>11 DEF Uncrossed

LEMMA EndsAgree ==
    ASSUME TypeOK, Issues, ClosedInv, Uncrossed, NEW t \in Tabs, LoggedIn(t) \/ LoggedOut(t)
    PROVE  Uncrossed'
<1>0. tab[t] \in TabState /\ Host(t) \in Clients /\ call[t] \in CallState
  BY ClientsAre DEF TypeOK
<1>1. CASE LoggedIn(t)
  <2>1. PICK u \in Anyone : u = call[t].who
    BY <1>0 DEF CallState
  <2>2. PICK y \in TabState : y = IF tab[t].user = NoOne THEN Unmounted(tab[t]) ELSE tab[t]
    BY <1>0, UnmountedType
  <2>3. PICK x : x = SignedIn(y, u, Own(u))
    OBVIOUS
  <2>4. tab' = [tab EXCEPT ![t] = x]
    BY <1>1, <2>1, <2>2, <2>3 DEF LoggedIn
  <2>5. x.user = u /\ x.token = Own(u)
    BY <2>3, ReducerFields, Nobody
  <2>6. Speaks(x, u)
    BY <2>5, NobodyFields DEF Speaks
  <2>7. PICK msg \in Message : msg = [type |-> "login", user |-> u, from |-> Host(t)]
    BY <1>0 DEF Message
  <2>8. msg.type # "done" /\ msg.user = u /\ Tells(t, msg)
    BY <1>1, <2>1, <2>7 DEF LoggedIn
  <2>9. /\ cookie' = call[t].row /\ call' = [call EXCEPT ![t] = NoCall] /\ last' = u
        /\ UNCHANGED <<rows, flight, left>> /\ Signing(t)
    BY <1>1, <2>1 DEF LoggedIn, Signing
  <2>10. rows'[cookie'].user = last'
    BY <1>1, <2>1, <2>9 DEF LoggedIn, Issues, SentInv
  <2>. QED  BY <2>4, <2>6, <2>8, <2>9, <2>10, ToldAgree
<1>2. CASE LoggedOut(t)
  <2>1. PICK x : x = SignedOut(tab[t])
    OBVIOUS
  <2>2. tab' = [tab EXCEPT ![t] = x] /\ Speaks(x, NoOne)
    <3>1. x.user = NoOne /\ x.token = NoToken
      BY <1>0, <2>1, ReducerFields, Nobody
    <3>. QED  BY <1>2, <2>1, <3>1, NobodyFields DEF LoggedOut, LogsOut, Speaks
  <2>3. PICK msg \in Message : msg = [type |-> "logout", user |-> NoOne, from |-> Host(t)]
    BY <1>0, Nobody DEF Message
  <2>4. msg.type # "done" /\ msg.user = NoOne /\ Tells(t, msg)
    BY <1>2, <2>3 DEF LoggedOut, LogsOut
  <2>5. /\ cookie' = 0 /\ call' = [call EXCEPT ![t] = NoCall] /\ last' = NoOne
        /\ UNCHANGED <<rows, flight, left>> /\ Signing(t)
    BY <1>2 DEF LoggedOut, LogsOut, Signing
  <2>. QED  BY <2>2, <2>4, <2>5, ToldAgree, Nobody
<1>. QED  BY <1>1, <1>2

LEMMA SupportAgree ==
    ASSUME TypeOK, Uncrossed, NEW t \in Tabs, SupportStarts(t)
    PROVE  Uncrossed' /\ InSupport(tab'[t])
<1>. USE DEF browser, history
<1>1. /\ Signing(t) /\ UNCHANGED <<rows, cookie, flight, inbox, last>>
      /\ call' = [call EXCEPT ![t] = NoCall] /\ tab[t].user # NoOne
      /\ \A s \in Tabs \ {t} : tab'[s] = tab[s]
  BY DEF SupportStarts, Signing, Uncrossed, TabInv, TypeOK
<1>2. \A s \in Tabs : inbox[s] = <<>> /\ (s # t => ~Signing(s))
  BY <1>1 DEF Uncrossed, AloneInv
<1>3. InSupport(tab'[t])
  <2>. DEFINE u == call[t].who
              token == [sub |-> u, support |-> TRUE]
              from == [user |-> IF tab[t].user = NoOne THEN tab[t].original.user ELSE tab[t].user,
                       token |-> IF tab[t].token = NoToken THEN tab[t].original.token
                                                          ELSE tab[t].token]
  <2>0. tab[t] \in TabState /\ call[t] \in CallState
    BY DEF TypeOK
  <2>1. u \in Anyone /\ token \in Token /\ from \in [user : Anyone, token : Token]
        /\ from.user = tab[t].user
    BY <1>1, <2>0, TabFields DEF Token, CallState
  <2>2. PICK x \in TabState : x = SignedIn(tab[t], u, token)
    BY <2>0, <2>1, SignedInType
  <2>3. PICK y \in TabState : y = Unmounted(x)
    BY UnmountedType
  <2>4. PICK z : z = [y EXCEPT !.page = "settings", !.asked = u, !.original = from]
    OBVIOUS
  <2>5. tab'[t] = z
    BY <2>2, <2>3, <2>4 DEF SupportStarts, TypeOK
  <2>. HIDE DEF u, token, from
  <2>6. z.original = from
    BY <2>4 DEF TabState
  <2>. QED  BY <1>1, <2>1, <2>5, <2>6 DEF InSupport
<1>4. \A s \in Tabs : ~Signing(s)' /\ ~Unheard(s)'
  <2>1. \A s \in Tabs : call'[s] = IF s = t THEN NoCall ELSE call[s]
    BY <1>1 DEF TypeOK
  <2>2. \A s \in Tabs : ~Signing(s)'
    BY <1>2, <2>1 DEF Signing, NoCall
  <2>. QED  BY <1>1, <1>2, <2>2 DEF Unheard
<1>5. LastInv'
  BY <1>1 DEF Uncrossed, LastInv, AtService
<1>6. \A s \in Tabs : InSupport(tab[s])' \/ Speaks(tab[s], last)'
  <2>1. \A s \in Tabs : ~Unheard(s)
    BY <1>2 DEF Unheard
  <2>. QED  BY <1>1, <1>3, <2>1, Heard DEF InSupport, Speaks
<1>. QED  BY <1>3, <1>4, <1>5, <1>6, HeardAgree

LEMMA DeliverAgree ==
    ASSUME TypeOK, Uncrossed, NEW t \in Tabs, Deliver(t)
    PROVE  Uncrossed'
<1>. USE DEF history
<1>1. /\ UNCHANGED <<rows, cookie, flight, call, last>> /\ inbox[t] # <<>>
      /\ inbox[t] \in Seq(Message) /\ inbox' = [inbox EXCEPT ![t] = Tail(inbox[t])]
      /\ tab[t] \in TabState
  BY DEF Deliver, TypeOK
<1>2. \A s \in Tabs : ~Signing(s)
  BY <1>1 DEF Uncrossed, AloneInv
<1>3. PICK q \in Seq(Message) : q = inbox[t] /\ q # <<>>
  BY <1>1
<1>4. PICK m \in Message : m = Head(q) /\ m = q[1]
  BY <1>3, Shorter
<1>5. PICK r \in Seq(Message) : r = Tail(q)
  BY <1>3, Shorter
<1>6. /\ Len(q) \in Nat /\ Len(q) > 0 /\ DOMAIN q = 1 .. Len(q) /\ Len(r) = Len(q) - 1
      /\ DOMAIN r = 1 .. Len(r) /\ \A i \in 1 .. Len(q) - 1 : r[i] = q[i + 1]
  BY <1>3, <1>5, Shorter, Elements
<1>7. /\ inbox'[t] = r /\ \A s \in Tabs \ {t} : inbox'[s] = inbox[s]
  BY <1>1, <1>3, <1>5 DEF TypeOK
<1>8. m.user = last /\ m.user \in Anyone /\ m.type \in {"done", "login", "logout"}
  <2>1. 1 \in DOMAIN q
    BY <1>6
  <2>. QED  BY <1>3, <1>4, <2>1 DEF Uncrossed, LastInv, Message
<1>9. ~Unheard(t)'
  <2>. SUFFICES ASSUME NEW i \in DOMAIN r, r[i].type # "done" PROVE FALSE
    BY <1>7 DEF Unheard
  <2>1. i + 1 \in DOMAIN q /\ q[i + 1].type # "done" /\ Len(q) # 1
    BY <1>6
  <2>2. Unheard(t)
    BY <1>3, <2>1 DEF Unheard
  <2>. QED  BY <1>3, <2>1, <2>2 DEF Uncrossed, AloneInv
<1>10. AloneInv'
  <2>1. \A s \in Tabs : ~Signing(s)'
    BY <1>1, <1>2 DEF Signing
  <2>2. \A s \in Tabs \ {t} : Unheard(s)' => Unheard(s)
    BY <1>7 DEF Unheard
  <2>3. \A c \in Clients : Idle(c)' = Idle(c)
    BY <1>1 DEF Idle
  <2>. QED  BY <1>7, <1>9, <2>1, <2>2, <2>3 DEF Uncrossed, AloneInv
<1>11. LastInv'
  <2>1. \A i \in DOMAIN r : r[i].user = last
    <3>1. \A i \in DOMAIN q : q[i].user = last
      BY <1>3 DEF Uncrossed, LastInv
    <3>. QED  BY <1>6, <3>1
  <2>2. \A s \in Tabs : \A i \in DOMAIN inbox'[s] : inbox'[s][i].user = last'
    BY <1>1, <1>7, <2>1 DEF Uncrossed, LastInv
  <2>. QED  BY <1>1, <2>2 DEF Uncrossed, LastInv, AtService
<1>12. /\ \A s \in Tabs \ {t} : tab'[s] = tab[s]
       /\ tab'[t].original = tab[t].original
       /\ InSupport(tab[t]) \/ Speaks(tab'[t], last)
  <2>1. CASE m.type = "done"
    <3>1. tab' = [tab EXCEPT ![t].token = Own(m.user)]
      BY <1>3, <1>4, <2>1 DEF Deliver
    <3>2. /\ tab'[t].token = Own(m.user) /\ tab'[t].user = tab[t].user
          /\ tab'[t].original = tab[t].original
      BY <1>1, <3>1 DEF TabState, TypeOK
    <3>3. ASSUME Unheard(t) PROVE FALSE
      <4>1. Len(q) = 1
        BY <1>3, <3>3 DEF Uncrossed, AloneInv
      <4>2. \A i \in DOMAIN q : i = 1
        BY <1>6, <4>1
      <4>. QED  BY <1>3, <1>4, <2>1, <3>3, <4>2 DEF Unheard
    <3>4. InSupport(tab[t]) \/ Speaks(tab[t], last)
      BY <3>3 DEF Uncrossed, TabInv, Speaks
    <3>. QED  BY <1>8, <3>1, <3>2, <3>4, NobodyFields DEF Speaks, TypeOK
  <2>2. CASE m.type = "login"
    <3>1. tab' = [tab EXCEPT ![t] = SignedIn(tab[t], m.user, Own(m.user))]
      BY <1>3, <1>4, <2>2 DEF Deliver
    <3>2. tab'[t] = SignedIn(tab[t], m.user, Own(m.user))
          /\ \A s \in Tabs \ {t} : tab'[s] = tab[s]
      BY <3>1 DEF TypeOK
    <3>. QED  BY <1>1, <1>8, <3>2, ReducerFields, Nobody, NobodyFields DEF Speaks
  <2>3. CASE m.type = "logout"
    <3>1. tab' = [tab EXCEPT ![t] = SignedOut(tab[t])]
      BY <1>3, <1>4, <2>3 DEF Deliver
    <3>2. tab'[t] = SignedOut(tab[t]) /\ \A s \in Tabs \ {t} : tab'[s] = tab[s]
      BY <3>1 DEF TypeOK
    <3>. QED  BY <1>1, <3>2, ReducerFields, Nobody, NobodyFields DEF Speaks
  <2>. QED  BY <1>8, <2>1, <2>2, <2>3
<1>13. TabInv'
  <2>1. \A s \in Tabs \ {t} : Unheard(s)' = Unheard(s)
    BY <1>7 DEF Unheard
  <2>2. \A s \in Tabs : ~InSupport(tab[s])' /\ ~Unheard(s)' =>
           {tab'[s].user, tab'[s].token.sub} \subseteq {last', NoOne}
    BY <1>1, <1>12, <2>1 DEF Uncrossed, TabInv, InSupport, Speaks
  <2>3. \A s \in Tabs : ~InSupport(tab[s])' /\ tab'[s].user # NoOne =>
           tab'[s].token.sub \in {tab'[s].user, NoOne}
    BY <1>1, <1>12 DEF Uncrossed, TabInv, InSupport, Speaks
  <2>. QED  BY <1>1, <1>2, <2>2, <2>3 DEF TabInv, Signing
<1>. QED  BY <1>10, <1>11, <1>13 DEF Uncrossed

LEMMA CrossedStays ==
    ASSUME TypeOK, [Next]_vars, crossed
    PROVE  crossed'
<1>. USE DEF history
<1>1. ASSUME NEW c \in Clients, Settling(c) \/ RefreshFails(c) PROVE crossed'
  BY <1>1 DEF Settling, Granted, ServeRefresh, RefreshAnswered, Resume, RefreshFails
<1>2. ASSUME NEW t \in Tabs, Proceeds(t) \/ CallFails(t) \/ Deliver(t) PROVE crossed'
  BY <1>2 DEF Proceeds, ServeCall, LoggedIn, LoggedOut, SupportStarts, CallFails, Deliver
<1>3. ASSUME NEW t \in Tabs, Signs(t) \/ Refreshes(t) PROVE crossed'
  BY <1>3 DEF Signs, SignIn, StartSupport, SignOut, ChangePassword, ExitSupport, Refreshes,
              Heartbeat, Unauthorized, Reload, Awaits
<1>4. ASSUME NEW t \in Tabs, Settings(t) PROVE crossed'
  BY <1>4 DEF Settings, OpenSettings, ProfileArrives, LeaveSettings, SaveProfile, SavePreferences
<1>5. CASE UNCHANGED vars \/ Ages \/ (\E n \in DOMAIN rows : GraceLapses(n))
           \/ (\E u \in Users : Revokes(u))
  BY <1>5 DEF Ages, GraceLapses, Revokes, vars
<1>. QED  BY <1>1, <1>2, <1>3, <1>4, <1>5, OpenAreTabs DEF Next

LEMMA AgreeStep ==
    ASSUME TypeOK, Issues, AgreeInv, [Next]_vars
    PROVE  AgreeInv'
<1>. SUFFICES ASSUME ~crossed' PROVE Uncrossed'
  BY ClosedStep DEF AgreeInv
<1>1. ClosedInv /\ Uncrossed
  BY CrossedStays DEF AgreeInv
<1>2. ASSUME NEW c \in Clients, Settling(c) \/ RefreshFails(c) PROVE Uncrossed'
  BY <1>1, <1>2, GrantedAgree, FailsAgree, AnsweredAgree, ResumeAgree, QuietSteps, QuietAgree
  DEF Settling
<1>3. ASSUME NEW t \in Tabs, Proceeds(t) \/ CallFails(t) \/ Deliver(t) PROVE Uncrossed'
  <2>1. CallFails(t) /\ call[t].op = "logout" => crossed'
    BY DEF CallFails
  <2>. QED  BY <1>1, <1>3, <2>1, EndsAgree, SupportAgree, DeliverAgree, QuietSteps, QuietAgree
            DEF Proceeds
<1>4. ASSUME NEW t \in Tabs, Signs(t) PROVE Uncrossed'
  <2>1. CASE ExitSupport(t)
    BY <1>1, <2>1, AwaitsAgree, ClientsAre DEF ExitSupport, Waiter
  <2>. QED  BY <1>1, <1>4, <2>1, BeginsAgree DEF Signs
<1>5. ASSUME NEW t \in Tabs, Refreshes(t) PROVE Uncrossed'
  BY <1>1, <1>5, AwaitsAgree, ReloadAgree, ClientsAre
  DEF Refreshes, Heartbeat, Unauthorized, Waiter
<1>6. ASSUME NEW t \in Tabs, Settings(t) PROVE Uncrossed'
  BY <1>1, <1>6, QuietSteps, QuietAgree
<1>7. CASE UNCHANGED vars \/ Ages \/ (\E n \in DOMAIN rows : GraceLapses(n))
           \/ (\E u \in Users : Revokes(u))
  BY <1>1, <1>7, QuietSteps, QuietAgree
<1>. QED  BY <1>2, <1>3, <1>4, <1>5, <1>6, <1>7, OpenAreTabs DEF Next

LEMMA AgreeInit == Init => AgreeInv
<1>. SUFFICES ASSUME Init PROVE AgreeInv
  OBVIOUS
<1>1. /\ \A c \in Clients : flight[c].phase = "idle"
      /\ \A t \in Tabs : inbox[t] = <<>> /\ call[t].op = "none"
      /\ \A t \in Tabs : tab[t].user = NoOne /\ tab[t].token = NoToken
      /\ cookie = 0
  BY DEF Init, NoFlight, NoCall, Fresh
<1>. QED  BY <1>1, NobodyFields DEF AgreeInv, ClosedInv, Uncrossed, AloneInv, LastInv, TabInv,
                                    Idle, Signing, Unheard, AtService

LEMMA AgreeAlways == Spec => [](TypeOK /\ Issues /\ AgreeInv)
  BY ReplayAlways, AgreeInit, AgreeStep, PTL DEF Spec

\* Once everything has settled, the tabs of a browser show nobody or the account that
\* signed in last, and their tokens speak for nobody else, in any number of tabs and
\* bundles, whatever refreshes, reloads and support sessions came before.
THEOREM TabsAlwaysAgree == Spec => []TabsAgree
<1>1. AgreeInv => TabsAgree
  BY DEF AgreeInv, Uncrossed, TabInv, TabsAgree, Quiet, Unheard
<1>. QED  BY <1>1, AgreeAlways, PTL

-----------------------------------------------------------------------------
(* What settings save                                                       *)

\* What a tab holds of an account is the account's on screen, or known to be another's.
Mine(tb, whose, what) == whose \in {tb.user, NoOne} \/ what \in tb.turned
Good(tb) ==
    /\ Mine(tb, tb.prefs, "prefs")
    /\ tb.user = NoOne => tb.asked = NoOne /\ tb.profile = NoOne
Proper(tb) == Mine(tb, tb.asked, "profile") /\ Mine(tb, tb.profile, "profile")

FormInv == \A t \in Tabs : Good(tab[t]) /\ (~crossed /\ ~InSupport(tab[t]) => Proper(tab[t]))

\* What becomes of a tab keeps that.
Holds(tb, x) == Good(tb) => Good(x) /\ (Proper(tb) => Proper(x))

LEMMA SameHolds ==
    ASSUME NEW tb, NEW x,
           x.user = tb.user, x.asked = tb.asked, x.profile = tb.profile, x.prefs = tb.prefs,
           x.turned = tb.turned
    PROVE  Holds(tb, x)
  BY DEF Holds, Good, Proper, Mine

LEMMA HoldsOn ==
    ASSUME NEW tb, NEW x, NEW y, Holds(tb, x), Holds(x, y)
    PROVE  Holds(tb, y)
  BY DEF Holds

\* The page goes, and with it what it held.
LEMMA UnmountedHolds ==
    ASSUME NEW tb \in TabState, Good(tb)
    PROVE  Good(Unmounted(tb)) /\ Proper(Unmounted(tb))
<1>1. LET x == Unmounted(tb)
      IN  /\ x.user = tb.user /\ x.asked = NoOne /\ x.profile = NoOne /\ x.prefs = tb.prefs
          /\ x.turned = tb.turned \ {"profile"}
  BY DEF Unmounted, TabState
<1>. QED  BY <1>1 DEF Good, Proper, Mine

LEMMA ShowsHolds ==
    ASSUME NEW tb \in TabState, NEW u \in Anyone
    PROVE  Holds(tb, Shows(tb, u))
<1>. SUFFICES ASSUME Good(tb)
              PROVE  Good(Shows(tb, u)) /\ (Proper(tb) => Proper(Shows(tb, u)))
  BY DEF Holds
<1>1. CASE u = NoOne
  <2>1. PICK x \in TabState : x = Unmounted(tb)
    BY UnmountedType
  <2>2. x.asked = NoOne /\ x.profile = NoOne
    BY <2>1 DEF Unmounted, TabState
  <2>3. PICK y : y = [x EXCEPT !.user = NoOne, !.prefs = NoOne]
    OBVIOUS
  <2>4. y.user = NoOne /\ y.prefs = NoOne /\ y.asked = NoOne /\ y.profile = NoOne
    BY <2>2, <2>3 DEF TabState
  <2>5. Shows(tb, u) = y
    BY <1>1, <2>1, <2>3 DEF Shows
  <2>. QED  BY <2>4, <2>5 DEF Good, Proper, Mine
<1>2. CASE u # NoOne /\ tb.user = NoOne
  <2>1. PICK y : y = [[[tb EXCEPT !.user = u] EXCEPT !.prefs = u] EXCEPT !.turned = {}]
    OBVIOUS
  <2>2. /\ y.user = u /\ y.prefs = u /\ y.asked = tb.asked /\ y.profile = tb.profile
    BY <2>1 DEF TabState
  <2>3. Shows(tb, u) = y
    BY <1>2, <2>1 DEF Shows, TabState
  <2>. QED  BY <1>2, <2>2, <2>3 DEF Good, Proper, Mine
<1>3. CASE u # NoOne /\ tb.user # NoOne
  <2>1. PICK y : y = [tb EXCEPT !.user = u, !.turned = IF u = tb.user THEN tb.turned
                                                      ELSE {"profile", "prefs"}]
    OBVIOUS
  <2>2. /\ y.user = u /\ y.prefs = tb.prefs /\ y.asked = tb.asked /\ y.profile = tb.profile
        /\ y.turned = IF u = tb.user THEN tb.turned ELSE {"profile", "prefs"}
    BY <2>1 DEF TabState
  <2>3. Shows(tb, u) = y
    BY <1>3, <2>1 DEF Shows, TabState
  <2>. QED  BY <1>3, <2>2, <2>3 DEF Good, Proper, Mine
<1>. QED  BY <1>1, <1>2, <1>3

LEMMA ReducersHold ==
    ASSUME NEW tb \in TabState, NEW u \in Anyone, NEW token \in Token
    PROVE  /\ Holds(tb, Restored(tb, u)) /\ Holds(tb, SignedIn(tb, u, token))
           /\ Holds(tb, SignedOut(tb)) /\ Holds(tb, Expired(tb))
<1>1. Holds(tb, Restored(tb, u))
  <2>1. PICK x \in TabState : x = Shows(tb, u)
    BY ShowsType
  <2>2. PICK y : y = [x EXCEPT !.booting = FALSE]
    OBVIOUS
  <2>3. Restored(tb, u) = y /\ Holds(tb, x)
    BY <2>1, <2>2, ShowsHolds DEF Restored
  <2>4. Holds(x, y)
    <3>1. /\ y.user = x.user /\ y.asked = x.asked /\ y.profile = x.profile
          /\ y.prefs = x.prefs /\ y.turned = x.turned
      BY <2>2 DEF TabState
    <3>. QED  BY <3>1, SameHolds
  <2>. QED  BY <2>3, <2>4, HoldsOn
<1>2. Holds(tb, SignedIn(tb, u, token))
  <2>1. PICK x \in TabState : x = Shows(tb, u)
    BY ShowsType
  <2>2. PICK y : y = [x EXCEPT !.token = token, !.booting = FALSE, !.expired = FALSE]
    OBVIOUS
  <2>3. SignedIn(tb, u, token) = y /\ Holds(tb, x)
    BY <2>1, <2>2, ShowsHolds DEF SignedIn
  <2>4. Holds(x, y)
    <3>1. /\ y.user = x.user /\ y.asked = x.asked /\ y.profile = x.profile
          /\ y.prefs = x.prefs /\ y.turned = x.turned
      BY <2>2 DEF TabState
    <3>. QED  BY <3>1, SameHolds
  <2>. QED  BY <2>3, <2>4, HoldsOn
<1>3. Holds(tb, SignedOut(tb))
  <2>1. PICK x \in TabState : x = Shows(tb, NoOne)
    BY ShowsType, Nobody
  <2>2. PICK y : y = [x EXCEPT !.token = NoToken, !.booting = FALSE, !.expired = FALSE]
    OBVIOUS
  <2>3. SignedOut(tb) = y /\ Holds(tb, x)
    BY <2>1, <2>2, ShowsHolds, Nobody DEF SignedOut
  <2>4. Holds(x, y)
    <3>1. /\ y.user = x.user /\ y.asked = x.asked /\ y.profile = x.profile
          /\ y.prefs = x.prefs /\ y.turned = x.turned
      BY <2>2 DEF TabState
    <3>. QED  BY <3>1, SameHolds
  <2>. QED  BY <2>3, <2>4, HoldsOn
<1>4. Holds(tb, Expired(tb))
  <2>1. LET y == Expired(tb)
        IN  /\ y.user = tb.user /\ y.asked = tb.asked /\ y.profile = tb.profile
            /\ y.prefs = tb.prefs /\ y.turned = tb.turned
    BY DEF Expired, TabState
  <2>. QED  BY <2>1, SameHolds
<1>. QED  BY <1>1, <1>2, <1>3, <1>4

LEMMA AfterRefreshHolds ==
    ASSUME NEW tb \in TabState, NEW u \in Anyone
    PROVE  /\ Holds(tb, Boots(tb, u)) /\ Holds(tb, Beats(tb, u)) /\ Holds(tb, Retries(tb, u))
           /\ Boots(tb, u).original = tb.original /\ Beats(tb, u).original = tb.original
           /\ Retries(tb, u).original = tb.original
           /\ Good(tb) => Good(Exits(tb, u)) /\ Proper(Exits(tb, u))
<1>0. Holds(tb, tb)
  BY SameHolds
<1>1. Holds(tb, Boots(tb, u)) /\ Boots(tb, u).original = tb.original
  <2>1. PICK x \in TabState : x = IF u = NoOne THEN tb ELSE Restored(tb, u)
    BY RestoredType
  <2>2. Boots(tb, u) = IF x.token = NoToken THEN Restored(x, NoOne) ELSE x
    BY <2>1 DEF Boots
  <2>3. Holds(tb, x) /\ x.original = tb.original
    BY <1>0, <2>1, ReducersHold, ReducerFields, Nobody
  <2>4. Holds(x, Restored(x, NoOne)) /\ Restored(x, NoOne).original = x.original
    BY ReducersHold, ReducerFields, Nobody
  <2>. QED  BY <2>2, <2>3, <2>4, HoldsOn
<1>2. Holds(tb, Beats(tb, u)) /\ Beats(tb, u).original = tb.original
  <2>1. CASE u = NoOne
    BY <2>1, ReducersHold, ReducerFields, Nobody DEF Beats
  <2>2. CASE u # NoOne
    <3>1. PICK y : y = [tb EXCEPT !.expired = FALSE]
      OBVIOUS
    <3>2. Holds(tb, y) /\ y.original = tb.original
      BY <3>1, SameHolds DEF TabState
    <3>. QED  BY <2>2, <3>1, <3>2 DEF Beats
  <2>. QED  BY <2>1, <2>2
<1>3. Holds(tb, Retries(tb, u)) /\ Retries(tb, u).original = tb.original
  BY <1>0, ReducersHold, ReducerFields, Nobody DEF Retries
<1>4. ASSUME Good(tb) PROVE Good(Exits(tb, u)) /\ Proper(Exits(tb, u))
  <2>1. PICK y \in TabState : y = Unmounted(tb)
    BY UnmountedType
  <2>2. NoSupport \in [user : Anyone, token : Token]
    BY Nobody DEF NoSupport
  <2>3. [y EXCEPT !.original = NoSupport] \in TabState
    BY <2>2 DEF TabState
  <2>4. PICK x \in TabState : x = [y EXCEPT !.original = NoSupport]
    BY <2>3
  <2>5. Holds(y, x)
    BY <2>4, SameHolds DEF TabState
  <2>6. Good(x) /\ Proper(x)
    BY <1>4, <2>1, <2>5, UnmountedHolds DEF Holds
  <2>7. /\ Holds(x, SignedIn(x, u, Own(u)))
        /\ Holds(x, SignedIn(x, tb.original.user, tb.original.token))
    BY ReducersHold, Nobody, TabFields
  <2>8. Exits(tb, u) = IF u # NoOne THEN SignedIn(x, u, Own(u))
                       ELSE SignedIn(x, tb.original.user, tb.original.token)
    BY <2>1, <2>4 DEF Exits
  <2>. QED  BY <2>6, <2>7, <2>8 DEF Holds
<1>. QED  BY <1>1, <1>2, <1>3, <1>4

LEMMA FormStays ==
    ASSUME FormInv, crossed => crossed',
           NEW t \in Tabs, \A s \in Tabs \ {t} : tab'[s] = tab[s],
           \/ Holds(tab[t], tab'[t]) /\ tab'[t].original = tab[t].original
           \/ Good(tab'[t]) /\ (Proper(tab'[t]) \/ InSupport(tab'[t]) \/ crossed')
    PROVE  FormInv'
<1>1. \A s \in Tabs : Good(tab[s]) /\ (~crossed /\ ~InSupport(tab[s]) => Proper(tab[s]))
  BY DEF FormInv
<1>2. Good(tab'[t]) /\ (~crossed' /\ ~InSupport(tab'[t]) => Proper(tab'[t]))
  BY <1>1 DEF Holds, InSupport
<1>3. \A s \in Tabs : Good(tab'[s]) /\ (~crossed' /\ ~InSupport(tab'[s]) => Proper(tab'[s]))
  BY <1>1, <1>2
<1>. QED  BY <1>3 DEF FormInv, Good, Proper, Mine, InSupport

LEMMA FormStep ==
    ASSUME TypeOK, AgreeInv, FormInv, [Next]_vars
    PROVE  FormInv'
<1>. USE DEF browser, history
<1>0. crossed => crossed'
  BY CrossedStays
<1>1. CASE UNCHANGED tab
  BY <1>0, <1>1 DEF FormInv, Good, Proper, Mine, InSupport
<1>2. ASSUME NEW t \in Tabs, NEW x, tab' = [tab EXCEPT ![t] = x],
             \/ Holds(tab[t], x) /\ x.original = tab[t].original
             \/ Good(x) /\ (Proper(x) \/ InSupport(x) \/ crossed')
      PROVE  FormInv'
  <2>1. tab'[t] = x /\ \A s \in Tabs \ {t} : tab'[s] = tab[s]
    BY <1>2 DEF TypeOK
  <2>. QED  BY <1>0, <1>2, <2>1, FormStays
<1>3. \A t \in Tabs : tab[t] \in TabState /\ Good(tab[t])
  BY DEF TypeOK, FormInv
<1>4. ASSUME NEW c \in Clients, Settling(c) \/ RefreshFails(c) PROVE FormInv'
  <2>. DEFINE t == c[1]
  <2>0. t \in Tabs /\ flight[c] \in FlightState
    BY ClientsAre DEF TypeOK
  <2>1. CASE Granted(c) \/ ServeRefresh(c) \/ RefreshFails(c)
    BY <1>1, <2>1 DEF Granted, ServeRefresh, RefreshFails
  <2>2. CASE RefreshAnswered(c)
    <3>1. UNCHANGED tab \/ \E u : tab' = [tab EXCEPT ![t].token = Own(u)]
      BY <2>2 DEF RefreshAnswered
    <3>2. ASSUME NEW u, tab' = [tab EXCEPT ![t].token = Own(u)] PROVE FormInv'
      <4>1. PICK x : x = [tab[t] EXCEPT !.token = Own(u)]
        OBVIOUS
      <4>2. /\ x.user = tab[t].user /\ x.asked = tab[t].asked /\ x.profile = tab[t].profile
            /\ x.prefs = tab[t].prefs /\ x.turned = tab[t].turned
            /\ x.original = tab[t].original
        BY <1>3, <2>0, <4>1 DEF TabState
      <4>3. tab' = [tab EXCEPT ![t] = x] /\ Holds(tab[t], x)
        BY <3>2, <4>1, <4>2, SameHolds
      <4>. QED  BY <1>2, <2>0, <4>2, <4>3
    <3>. QED  BY <1>1, <3>1, <3>2
  <2>3. CASE Resume(c)
    <3>. DEFINE W == flight[c].for
    <3>1. PICK u \in Anyone : u = flight[c].got
      BY <2>0 DEF FlightState
    <3>2. PICK a \in TabState : a = IF "boot" \in W THEN Boots(tab[t], u) ELSE tab[t]
      BY <1>3, <2>0, AfterRefreshType
    <3>3. PICK b \in TabState : b = IF "beat" \in W THEN Beats(a, u) ELSE a
      BY AfterRefreshType
    <3>4. PICK d \in TabState : d = IF "call" \in W THEN Retries(b, u) ELSE b
      BY AfterRefreshType
    <3>5. PICK e : e = IF "exit" \in W THEN Exits(d, u) ELSE d
      OBVIOUS
    <3>6. tab' = [tab EXCEPT ![t] = e]
      BY <2>3, <3>1, <3>2, <3>3, <3>4, <3>5 DEF Resume
    <3>7. /\ Holds(tab[t], a) /\ a.original = tab[t].original
          /\ Holds(a, b) /\ b.original = a.original
          /\ Holds(b, d) /\ d.original = b.original
      BY <1>3, <2>0, <3>2, <3>3, <3>4, AfterRefreshHolds, SameHolds
    <3>8. Holds(tab[t], d) /\ d.original = tab[t].original /\ Good(d)
      <4>1. Holds(tab[t], b)
        BY <3>7, HoldsOn
      <4>2. Holds(tab[t], d)
        BY <3>7, <4>1, HoldsOn
      <4>. QED  BY <1>3, <2>0, <3>7, <4>2 DEF Holds
    <3>9. "exit" \in W => Good(e) /\ Proper(e)
      BY <3>5, <3>8, AfterRefreshHolds
    <3>10. "exit" \notin W => e = d
      BY <3>5
    <3>. HIDE DEF W, t
    <3>. QED  BY <1>2, <2>0, <3>6, <3>8, <3>9, <3>10
  <2>. QED  BY <1>4, <2>1, <2>2, <2>3 DEF Settling
<1>5. ASSUME NEW t \in Tabs, LogsOut(t) PROVE FormInv'
  <2>1. PICK x : x = SignedOut(tab[t])
    OBVIOUS
  <2>2. Holds(tab[t], x) /\ x.original = tab[t].original
    BY <1>3, <2>1, ReducersHold, ReducerFields, Nobody
  <2>3. tab' = [tab EXCEPT ![t] = x]
    BY <1>5, <2>1 DEF LogsOut
  <2>. QED  BY <1>2, <2>2, <2>3
<1>6. ASSUME NEW t \in Tabs, LoggedIn(t) PROVE FormInv'
  <2>0. call[t].who \in Anyone
    BY DEF CallState, TypeOK
  <2>1. PICK u \in Anyone : u = call[t].who
    BY <2>0
  <2>2. PICK y \in TabState : y = IF tab[t].user = NoOne THEN Unmounted(tab[t]) ELSE tab[t]
    BY <1>3, UnmountedType
  <2>3. PICK x : x = SignedIn(y, u, Own(u))
    OBVIOUS
  <2>4. tab' = [tab EXCEPT ![t] = x]
    BY <1>6, <2>1, <2>2, <2>3 DEF LoggedIn
  <2>5. Holds(tab[t], tab[t]) /\ Holds(tab[t], y) /\ y.original = tab[t].original
    <3>1. Holds(tab[t], tab[t])
      BY SameHolds
    <3>2. Holds(tab[t], Unmounted(tab[t])) /\ Unmounted(tab[t]).original = tab[t].original
      BY <1>3, UnmountedHolds, ReducerFields, Nobody DEF Holds
    <3>. QED  BY <2>2, <3>1, <3>2
  <2>6. Holds(y, x) /\ x.original = y.original
    BY <2>3, ReducersHold, ReducerFields, Nobody
  <2>. QED  BY <1>2, <2>4, <2>5, <2>6, HoldsOn
<1>7. ASSUME NEW t \in Tabs, SupportStarts(t) PROVE FormInv'
  <2>. DEFINE token == [sub |-> call[t].who, support |-> TRUE]
              from == [user |-> IF tab[t].user = NoOne THEN tab[t].original.user ELSE tab[t].user,
                       token |-> IF tab[t].token = NoToken THEN tab[t].original.token
                                                          ELSE tab[t].token]
  <2>0. call[t].who \in Users /\ NoOne \notin Users
    BY <1>7, ConstantsAssumption DEF SupportStarts, TypeOK
  <2>1. PICK u \in Anyone : u = call[t].who /\ u # NoOne
    BY <2>0 DEF Anyone
  <2>2. token \in Token
    BY <2>0 DEF Token, Anyone
  <2>3. PICK x \in TabState : x = SignedIn(tab[t], u, token) /\ x.user = u
    BY <1>3, <2>1, <2>2, SignedInType, ReducerFields
  <2>4. Good(x)
    BY <1>3, <2>1, <2>2, <2>3, ReducersHold DEF Holds
  <2>5. PICK y \in TabState : y = Unmounted(x) /\ Good(y) /\ y.user = u
    BY <2>3, <2>4, UnmountedType, UnmountedHolds, ReducerFields, Nobody
  <2>6. PICK z : z = [y EXCEPT !.page = "settings", !.asked = u, !.original = from]
    OBVIOUS
  <2>7. tab' = [tab EXCEPT ![t] = z]
    BY <1>7, <2>1, <2>3, <2>5, <2>6 DEF SupportStarts
  <2>8. z.user = u /\ z.prefs = y.prefs /\ z.turned = y.turned
    BY <2>5, <2>6 DEF TabState
  <2>9. Good(z)
    BY <2>1, <2>5, <2>8 DEF Good, Mine
  <2>10. tab'[t] = z /\ UNCHANGED crossed
    BY <1>7, <2>7 DEF SupportStarts, TypeOK
  <2>11. InSupport(z) \/ crossed'
    BY <1>7, <2>10, SupportAgree DEF AgreeInv
  <2>. HIDE DEF token, from
  <2>. QED  BY <1>2, <2>7, <2>9, <2>11
<1>8. ASSUME NEW t \in Tabs, Deliver(t) PROVE FormInv'
  <2>1. inbox[t] \in Seq(Message) /\ inbox[t] # <<>>
    BY <1>8 DEF Deliver, TypeOK
  <2>2. PICK m \in Message : m = Head(inbox[t])
    BY <2>1, Shorter
  <2>3. m.user \in Anyone /\ m.type \in {"done", "login", "logout"}
    BY DEF Message
  <2>4. \/ tab' = [tab EXCEPT ![t].token = Own(m.user)]
        \/ tab' = [tab EXCEPT ![t] = SignedIn(tab[t], m.user, Own(m.user))]
        \/ tab' = [tab EXCEPT ![t] = SignedOut(tab[t])]
    BY <1>8, <2>2, <2>3 DEF Deliver
  <2>5. CASE tab' = [tab EXCEPT ![t].token = Own(m.user)]
    <3>1. PICK x : x = [tab[t] EXCEPT !.token = Own(m.user)]
      OBVIOUS
    <3>2. /\ x.user = tab[t].user /\ x.asked = tab[t].asked /\ x.profile = tab[t].profile
          /\ x.prefs = tab[t].prefs /\ x.turned = tab[t].turned
          /\ x.original = tab[t].original
      BY <1>3, <3>1 DEF TabState
    <3>3. tab' = [tab EXCEPT ![t] = x] /\ Holds(tab[t], x)
      BY <2>5, <3>1, <3>2, SameHolds
    <3>. QED  BY <1>2, <3>2, <3>3
  <2>6. CASE tab' = [tab EXCEPT ![t] = SignedIn(tab[t], m.user, Own(m.user))]
    <3>1. PICK x : x = SignedIn(tab[t], m.user, Own(m.user))
      OBVIOUS
    <3>2. Own(m.user) \in Token
      BY <2>3, Nobody
    <3>3. Holds(tab[t], x) /\ x.original = tab[t].original
      BY <1>3, <2>3, <3>1, <3>2, ReducersHold, ReducerFields
    <3>. QED  BY <1>2, <2>6, <3>1, <3>3
  <2>7. CASE tab' = [tab EXCEPT ![t] = SignedOut(tab[t])]
    BY <1>2, <1>3, <2>7, ReducersHold, ReducerFields, Nobody
  <2>. QED  BY <2>4, <2>5, <2>6, <2>7
<1>9. ASSUME NEW t \in Tabs, Proceeds(t) \/ CallFails(t) PROVE FormInv'
  BY <1>1, <1>5, <1>6, <1>7, <1>9 DEF Proceeds, ServeCall, LoggedOut, CallFails
<1>10. ASSUME NEW t \in Tabs, Signs(t) PROVE FormInv'
  BY <1>1, <1>10 DEF Signs, SignIn, StartSupport, SignOut, ChangePassword, ExitSupport
<1>11. ASSUME NEW t \in Tabs, Refreshes(t) PROVE FormInv'
  <2>1. Good(Fresh) /\ Proper(Fresh)
    BY DEF Good, Proper, Mine, Fresh
  <2>2. Reload(t) => tab' = [tab EXCEPT ![t] = Fresh]
    BY DEF Reload
  <2>3. CASE Reload(t)
    BY <1>2, <2>1, <2>2, <2>3
  <2>. QED  BY <1>1, <1>11, <2>3 DEF Refreshes, Heartbeat, Unauthorized
<1>12. ASSUME NEW t \in Tabs, Settings(t) PROVE FormInv'
  <2>0. ~crossed /\ ~InSupport(tab[t]) => Proper(tab[t])
    BY DEF FormInv
  <2>1. CASE OpenSettings(t)
    <3>1. PICK x : x = [tab[t] EXCEPT !.page = "settings", !.asked = tab[t].token.sub]
      OBVIOUS
    <3>2. tab' = [tab EXCEPT ![t] = x] /\ tab[t].user # NoOne /\ UNCHANGED crossed
      BY <2>1, <3>1 DEF OpenSettings, TypeOK
    <3>3. /\ x.user = tab[t].user /\ x.asked = tab[t].token.sub /\ x.profile = tab[t].profile
          /\ x.prefs = tab[t].prefs /\ x.turned = tab[t].turned
          /\ x.original = tab[t].original
      BY <1>3, <3>1 DEF TabState
    <3>4. Good(x)
      BY <1>3, <3>2, <3>3 DEF Good, Mine
    <3>5. ~crossed /\ ~InSupport(tab[t]) => tab[t].token.sub \in {tab[t].user, NoOne}
      BY <3>2 DEF AgreeInv, Uncrossed, TabInv
    <3>6. Proper(x) \/ InSupport(x) \/ crossed'
      BY <2>0, <3>2, <3>3, <3>5 DEF Proper, Mine, InSupport
    <3>. QED  BY <1>2, <3>2, <3>4, <3>6
  <2>2. CASE ProfileArrives(t)
    <3>1. PICK x : x = [tab[t] EXCEPT !.profile = tab[t].asked, !.asked = NoOne]
      OBVIOUS
    <3>2. tab' = [tab EXCEPT ![t] = x] /\ tab[t].asked # NoOne
      BY <2>2, <3>1 DEF ProfileArrives, TypeOK
    <3>3. /\ x.user = tab[t].user /\ x.asked = NoOne /\ x.profile = tab[t].asked
          /\ x.prefs = tab[t].prefs /\ x.turned = tab[t].turned
          /\ x.original = tab[t].original
      BY <1>3, <3>1 DEF TabState
    <3>4. Holds(tab[t], x)
      BY <3>2, <3>3 DEF Holds, Good, Proper, Mine
    <3>. QED  BY <1>2, <3>2, <3>3, <3>4
  <2>3. CASE LeaveSettings(t)
    <3>1. PICK x : x = Unmounted(tab[t])
      OBVIOUS
    <3>2. tab' = [tab EXCEPT ![t] = x] /\ Good(x) /\ Proper(x)
      BY <1>3, <2>3, <3>1, UnmountedHolds DEF LeaveSettings
    <3>. QED  BY <1>2, <3>2
  <2>4. CASE SaveProfile(t)
    <3>1. PICK x : x = [tab[t] EXCEPT !.profile = tab[t].user,
                          !.turned = IF tab[t].asked = NoOne THEN @ \ {"profile"} ELSE @]
      OBVIOUS
    <3>2. tab' = [tab EXCEPT ![t] = x] /\ tab[t].user # NoOne
      BY <2>4, <3>1 DEF SaveProfile, TypeOK
    <3>3. /\ x.user = tab[t].user /\ x.asked = tab[t].asked /\ x.profile = tab[t].user
          /\ x.prefs = tab[t].prefs /\ x.original = tab[t].original
          /\ x.turned = IF tab[t].asked = NoOne THEN tab[t].turned \ {"profile"}
                                                ELSE tab[t].turned
      BY <1>3, <3>1 DEF TabState
    <3>4. Holds(tab[t], x)
      BY <3>2, <3>3 DEF Holds, Good, Proper, Mine
    <3>. QED  BY <1>2, <3>2, <3>3, <3>4
  <2>5. CASE SavePreferences(t)
    BY <1>1, <2>5 DEF SavePreferences
  <2>. QED  BY <1>12, <2>1, <2>2, <2>3, <2>4, <2>5 DEF Settings
<1>13. UNCHANGED vars \/ Ages \/ (\E n \in DOMAIN rows : GraceLapses(n))
          \/ (\E u \in Users : Revokes(u)) => UNCHANGED tab
  BY DEF Ages, GraceLapses, Revokes, vars
<1>. QED  BY <1>1, <1>4, <1>8, <1>9, <1>10, <1>11, <1>12, <1>13, OpenAreTabs DEF Next

LEMMA WroteStep ==
    ASSUME TypeOK, FormInv, SavesTheirOwn, [Next]_vars
    PROVE  SavesTheirOwn'
<1>. USE DEF browser, history
<1>1. CASE UNCHANGED wrote
  BY <1>1 DEF SavesTheirOwn
<1>2. ASSUME NEW t \in Tabs, NEW what, NEW whose, Writes(t, what, whose),
             ~crossed /\ ~InSupport(tab[t]) => Mine(tab[t], whose, what)
      PROVE  SavesTheirOwn'
  <2>1. PICK w : w = [of |-> whose, to |-> tab[t].user,
                      mixed |-> crossed \/ InSupport(tab[t]) \/ what \in tab[t].turned]
    OBVIOUS
  <2>2. w.of \in {w.to, NoOne} \/ w.mixed
    <3>1. w.of = whose /\ w.to = tab[t].user
      BY <2>1
    <3>2. crossed \/ InSupport(tab[t]) \/ what \in tab[t].turned => w.mixed
      BY <2>1
    <3>. QED  BY <1>2, <3>1, <3>2 DEF Mine
  <2>3. wrote' = wrote \cup {w}
    BY <1>2, <2>1 DEF Writes
  <2>. QED  BY <2>2, <2>3 DEF SavesTheirOwn
<1>3. ASSUME NEW t \in Tabs, Settings(t) PROVE SavesTheirOwn'
  <2>1. CASE SaveProfile(t)
    BY <1>2, <2>1 DEF SaveProfile, FormInv, Proper
  <2>2. CASE SavePreferences(t)
    BY <1>2, <2>2 DEF SavePreferences, FormInv, Good
  <2>3. CASE OpenSettings(t) \/ ProfileArrives(t) \/ LeaveSettings(t)
    BY <1>1, <2>3 DEF OpenSettings, ProfileArrives, LeaveSettings
  <2>. QED  BY <1>3, <2>1, <2>2, <2>3 DEF Settings
<1>4. ASSUME NEW c \in Clients, Settling(c) \/ RefreshFails(c) PROVE UNCHANGED wrote
  BY <1>4 DEF Settling, Granted, ServeRefresh, RefreshAnswered, Resume, RefreshFails
<1>5. ASSUME NEW t \in Tabs, Proceeds(t) \/ CallFails(t) \/ Deliver(t)
      PROVE  UNCHANGED wrote
  BY <1>5 DEF Proceeds, ServeCall, LoggedIn, LoggedOut, LogsOut, SupportStarts, CallFails, Deliver
<1>6. ASSUME NEW t \in Tabs, Signs(t) \/ Refreshes(t) PROVE UNCHANGED wrote
  BY <1>6 DEF Signs, SignIn, StartSupport, SignOut, ChangePassword, ExitSupport, Refreshes,
              Heartbeat, Unauthorized, Reload, Awaits
<1>7. UNCHANGED vars \/ Ages \/ (\E n \in DOMAIN rows : GraceLapses(n))
         \/ (\E u \in Users : Revokes(u)) => UNCHANGED wrote
  BY DEF Ages, GraceLapses, Revokes, vars
<1>. QED  BY <1>1, <1>3, <1>4, <1>5, <1>6, <1>7, OpenAreTabs DEF Next

LEMMA FormInit == Init => FormInv /\ SavesTheirOwn
  BY DEF Init, FormInv, SavesTheirOwn, Good, Proper, Mine, Fresh

\* The settings page saves for an account what it loaded for it, and preferences under
\* the name they were read by, as long as the account on screen does not change under the
\* page, no sign-in overlaps anything and no support session is on.
THEOREM SaveTheirOwn == Spec => []SavesTheirOwn
  BY AgreeAlways, FormInit, FormStep, WroteStep, PTL DEF Spec
=============================================================================
