--------------------------- MODULE SessionsProofs ---------------------------
(***************************************************************************)
(* Theorems about Sessions, for every number of users, request slots,      *)
(* devices, tokens and events.                                             *)
(***************************************************************************)
EXTENDS Sessions, FiniteSetTheorems, TLAPS

LEMMA AnyUserIsUser == AnyUser \in Users
  BY ConstantsAssumption DEF AnyUser

\* A slot that runs a statement of Refresh or Logout presents a token.
Presenting(r) == pc[r] \in (Locked \ {"insert", "cap"}) \cup {"lock", "logout"}

\* Requests present issued tokens, a family's first token is issued, and a
\* family belongs to one user.
Wellformed ==
    /\ \A r \in Requests : Presenting(r) => tok[r] # 0
    /\ \A r \in Requests : tok[r] # 0 => st[tok[r]] # "none"
    /\ \A t \in Token : st[t] # "none" =>
          st[info[t].fam] # "none" /\ info[info[t].fam].user = info[t].user

\* TypeOK is not inductive alone: what a handler writes is well typed because it
\* presents a token.
TypeInv == TypeOK /\ Wellformed

LEMMA TypeInit == Init => TypeInv
  BY AnyUserIsUser, ConstantsAssumption
  DEF Init, TypeInv, TypeOK, Wellformed, Presenting, Token, DeviceId, PC, Locked

LEMMA TypeStep == TypeInv /\ [Next]_vars => TypeInv'
<1> SUFFICES ASSUME TypeInv, [Next]_vars PROVE TypeInv'
  OBVIOUS
<1> USE AnyUserIsUser, ConstantsAssumption
<1> USE DEF TypeInv, TypeOK, Wellformed, Presenting, rows, redis, args, history,
            PC, Locked, DeviceId
<1>1. ASSUME NEW r \in Requests, NEW u \in Users, NEW d \in DeviceId, BeginLogin(r, u, d)
      PROVE  TypeInv'
  BY <1>1 DEF BeginLogin, Begin, Goto
<1>2. ASSUME NEW r \in Requests, InsertSession(r)
      PROVE  TypeInv'
  BY <1>2 DEF InsertSession, Goto
<1>3. ASSUME NEW r \in Requests, EnforceCap(r)
      PROVE  TypeInv'
  BY <1>3 DEF EnforceCap, RevokeIn, Return, Goto
<1>4. ASSUME NEW r \in Requests, NEW t \in Token, NEW d \in DeviceId, BeginRefresh(r, t, d)
      PROVE  TypeInv'
  <2>1. info[t].user \in Users
    OBVIOUS
  <2>2. own' = [own EXCEPT ![r] = info[t].user]
    BY <1>4 DEF BeginRefresh, Begin
  <2>3. own' \in [Requests -> Users]
    BY <2>1, <2>2
  <2>4. pc' = [pc EXCEPT ![r] = "lock"] /\ tok' = [tok EXCEPT ![r] = t]
    BY <1>4 DEF BeginRefresh, Begin, Goto
  <2>5. TypeOK'
    BY <1>4, <2>3, <2>4 DEF BeginRefresh, Begin
  <2>6. Wellformed'
    <3>1. st[t] # "none" /\ UNCHANGED <<st, info>>
      BY <1>4 DEF BeginRefresh
    <3>2. t # 0
      BY DEF Token
    <3> QED
      BY <2>4, <3>1, <3>2
  <2> QED
    BY <2>5, <2>6
<1>5. ASSUME NEW r \in Requests, AcquireLock(r)
      PROVE  TypeInv'
  BY <1>5 DEF AcquireLock, LockFree, Goto
<1>6. ASSUME NEW r \in Requests, RereadGrace(r)
      PROVE  TypeInv'
  BY <1>6 DEF RereadGrace, Goto
<1>7. ASSUME NEW r \in Requests, SelectSession(r)
      PROVE  TypeInv'
  BY <1>7 DEF SelectSession, Goto
<1>8. ASSUME NEW r \in Requests, CheckUser(r)
      PROVE  TypeInv'
  BY <1>8 DEF CheckUser, Goto
<1>9. ASSUME NEW r \in Requests, KillFamily(r)
      PROVE  TypeInv'
  BY <1>9 DEF KillFamily, RevokeIn, Ends, Fam, Goto
<1>10. ASSUME NEW r \in Requests, SaveExpired(r)
      PROVE  TypeInv'
  BY <1>10 DEF SaveExpired, SaveRevoked, Goto
<1>11. ASSUME NEW r \in Requests, SaveRotated(r)
      PROVE  TypeInv'
  BY <1>11 DEF SaveRotated, SaveRevoked, Goto
<1>12. ASSUME NEW r \in Requests, StoreGrace(r)
      PROVE  TypeInv'
  BY <1>12 DEF StoreGrace, Goto, Event
<1>13. ASSUME NEW r \in Requests, ReleaseLock(r)
      PROVE  TypeInv'
  BY <1>13 DEF ReleaseLock, FreedLock, Return, Goto
<1>14. ASSUME NEW r \in Requests, NEW t \in Token, BeginLogout(r, t)
      PROVE  TypeInv'
  <2>1. info[t].user \in Users
    OBVIOUS
  <2>2. CASE st[t] = "gone"
    BY <1>14, <2>2 DEF BeginLogout
  <2>3. CASE st[t] # "gone"
    <3>1. own' = [own EXCEPT ![r] = info[t].user]
      BY <1>14, <2>3 DEF BeginLogout, Begin
    <3>2. own' \in [Requests -> Users]
      BY <2>1, <3>1
    <3>3. pc' = [pc EXCEPT ![r] = "logout"] /\ tok' = [tok EXCEPT ![r] = t]
      BY <1>14, <2>3 DEF BeginLogout, Begin, Goto
    <3>4. TypeOK'
      BY <1>14, <2>3, <3>2, <3>3 DEF BeginLogout, Begin
    <3>5. st[t] # "none" /\ UNCHANGED <<st, info>>
      BY <1>14 DEF BeginLogout
    <3>6. t # 0
      BY DEF Token
    <3>7. Wellformed'
      BY <3>3, <3>5, <3>6
    <3> QED
      BY <3>4, <3>7
  <2> QED
    BY <2>2, <2>3
<1>15. ASSUME NEW r \in Requests, SaveLogout(r)
      PROVE  TypeInv'
  BY <1>15 DEF SaveLogout, SaveRevoked, Return, Goto
<1>16. ASSUME NEW r \in Requests, NEW u \in Users, Deactivate(r, u)
      PROVE  TypeInv'
  BY <1>16 DEF Deactivate, Begin, Goto, Event
<1>17. ASSUME NEW r \in Requests, FinishDeactivate(r)
      PROVE  TypeInv'
  BY <1>17 DEF FinishDeactivate, RevokeIn, Ends, FamiliesOf, Issued, Return, Goto
<1>18. ASSUME NEW r \in Requests, Fail(r)
      PROVE  TypeInv'
  BY <1>18 DEF Fail, CutShort, Return, Goto, Event
<1>19. ASSUME NEW r \in Requests, Crash(r)
      PROVE  TypeInv'
  BY <1>19 DEF Crash, CutShort, Return, Goto, Event
<1>20. ASSUME NEW t \in Token, RevokeSession(t) \/ Sweep(t) \/ Expire(t) \/ GraceExpires(t) \/ LockExpires(t)
      PROVE  TypeInv'
  BY <1>20 DEF RevokeSession, Sweep, Expire, GraceExpires, LockExpires, RevokeIn, Event
<1>21. ASSUME NEW u \in Users, RevokeAll(u) \/ DeleteAll(u)
      PROVE  TypeInv'
  BY <1>21 DEF RevokeAll, DeleteAll, RevokeIn, Ends, FamiliesOf, Issued, Event
<1>22. ASSUME NEW u \in Users, Reactivate(u) \/ \E t \in Token : RevokeAllOtherSessions(u, t)
      PROVE  TypeInv'
  BY <1>22 DEF Reactivate, RevokeAllOtherSessions, RevokeIn, Event
<1>23. CASE UNCHANGED vars
  BY <1>23 DEF vars
<1> QED
  BY <1>1, <1>2, <1>3, <1>4, <1>5, <1>6, <1>7, <1>8, <1>9, <1>10, <1>11, <1>12, <1>13, <1>14, <1>15, <1>16, <1>17, <1>18, <1>19, <1>20, <1>21, <1>22, <1>23
  DEF Next, Environment, Start, Step

\* The type invariant: every handler keeps every row, lock, grace entry and
\* request slot well formed.
THEOREM TypeCorrect == Spec => []TypeOK
<1>1. Spec => []TypeInv
  BY TypeInit, TypeStep, PTL DEF Spec
<1> QED
  BY <1>1, PTL DEF TypeInv

-----------------------------------------------------------------------------
(* Steps that issue no token and take no rotation further                  *)

Quiet ==
    /\ info' = info
    /\ \A t \in Token : /\ st'[t] = "live" => st[t] = "live"
                        /\ st'[t] = "none" <=> st[t] = "none"
    /\ \A r \in Requests : InWindow(r)' =>
          /\ InWindow(r) /\ tok'[r] = tok[r]
          /\ pc'[r] = "insert" => pc[r] = "insert"

Rotates(r) == InsertSession(r) \/ SelectSession(r) \/ SaveRotated(r)

LEMMA QuietOrRotates ==
    TypeInv /\ [Next]_vars => Quiet \/ \E r \in Requests : Rotates(r)
<1> SUFFICES ASSUME TypeInv, [Next]_vars PROVE Quiet \/ \E r \in Requests : Rotates(r)
  OBVIOUS
<1> USE DEF TypeInv, TypeOK, rows, redis, args, history, Quiet, InWindow
<1>1. ASSUME NEW r \in Requests, NEW u \in Users, NEW d \in DeviceId, BeginLogin(r, u, d)
      PROVE  Quiet
  BY <1>1 DEF BeginLogin, Begin, Goto
<1>2. ASSUME NEW r \in Requests, EnforceCap(r)
      PROVE  Quiet
  BY <1>2 DEF EnforceCap, RevokeIn, Return, Goto
<1>3. ASSUME NEW r \in Requests, NEW t \in Token, NEW d \in DeviceId, BeginRefresh(r, t, d)
      PROVE  Quiet
  BY <1>3 DEF BeginRefresh, Begin, Goto
<1>4. ASSUME NEW r \in Requests, AcquireLock(r)
      PROVE  Quiet
  BY <1>4 DEF AcquireLock, Goto
<1>5. ASSUME NEW r \in Requests, RereadGrace(r)
      PROVE  Quiet
  BY <1>5 DEF RereadGrace, Goto
<1>6. ASSUME NEW r \in Requests, CheckUser(r)
      PROVE  Quiet
  BY <1>6 DEF CheckUser, Goto
<1>7. ASSUME NEW r \in Requests, KillFamily(r)
      PROVE  Quiet
  BY <1>7 DEF KillFamily, RevokeIn, Goto
<1>8. ASSUME NEW r \in Requests, SaveExpired(r)
      PROVE  Quiet
  BY <1>8 DEF SaveExpired, SaveRevoked, Goto, Wellformed, Presenting, Locked
<1>9. ASSUME NEW r \in Requests, StoreGrace(r)
      PROVE  Quiet
  BY <1>9 DEF StoreGrace, Goto
<1>10. ASSUME NEW r \in Requests, ReleaseLock(r)
      PROVE  Quiet
  BY <1>10 DEF ReleaseLock, Return, Goto
<1>11. ASSUME NEW r \in Requests, NEW t \in Token, BeginLogout(r, t)
      PROVE  Quiet
  BY <1>11 DEF BeginLogout, Begin, Goto
<1>12. ASSUME NEW r \in Requests, SaveLogout(r)
      PROVE  Quiet
  BY <1>12 DEF SaveLogout, SaveRevoked, Return, Goto, Wellformed, Presenting
<1>13. ASSUME NEW r \in Requests, NEW u \in Users, Deactivate(r, u)
      PROVE  Quiet
  BY <1>13 DEF Deactivate, Begin, Goto
<1>14. ASSUME NEW r \in Requests, FinishDeactivate(r)
      PROVE  Quiet
  BY <1>14 DEF FinishDeactivate, RevokeIn, Return, Goto
<1>15. ASSUME NEW r \in Requests, Fail(r)
      PROVE  Quiet
  BY <1>15 DEF Fail, Return, Goto
<1>16. ASSUME NEW r \in Requests, Crash(r)
      PROVE  Quiet
  BY <1>16 DEF Crash, Return, Goto
<1>17. ASSUME NEW t \in Token, RevokeSession(t) \/ Sweep(t) \/ Expire(t) \/ GraceExpires(t) \/ LockExpires(t)
      PROVE  Quiet
  BY <1>17 DEF RevokeSession, Sweep, Expire, GraceExpires, LockExpires, RevokeIn
<1>18. ASSUME NEW u \in Users, RevokeAll(u) \/ DeleteAll(u)
      PROVE  Quiet
  BY <1>18 DEF RevokeAll, DeleteAll, RevokeIn
<1>19. ASSUME NEW u \in Users, Reactivate(u) \/ \E t \in Token : RevokeAllOtherSessions(u, t)
      PROVE  Quiet
  BY <1>19 DEF Reactivate, RevokeAllOtherSessions, RevokeIn
<1>20. CASE UNCHANGED vars
  BY <1>20 DEF vars
<1> QED
  BY <1>1, <1>2, <1>3, <1>4, <1>5, <1>6, <1>7, <1>8, <1>9, <1>10, <1>11, <1>12, <1>13, <1>14, <1>15, <1>16, <1>17, <1>18, <1>19, <1>20
  DEF Rotates, Next, Environment, Start, Step

-----------------------------------------------------------------------------
(* A family ended outside a rotation stays ended                           *)

Over == ended \ raced

\* EndedStaysEnded is not inductive: a rotation in its window is about to issue
\* a live token, so its family must not be over either; and a family that login
\* is about to open cannot have been ended before.
EndInv ==
    /\ EndedStaysEnded
    /\ \A r \in Requests : InWindow(r) => Fam(r) \notin Over
    /\ ended \subseteq Issued

LEMMA EndInit == Init => EndInv
  BY ConstantsAssumption DEF Init, EndInv, EndedStaysEnded, InWindow, Over

\* A step records the end of a set of families only when it leaves none of their
\* tokens live.
LEMMA EndsOrNot ==
    TypeInv /\ [Next]_vars =>
        \/ UNCHANGED <<ended, raced>>
        \/ \E F \in SUBSET Issued :
              Ends(F) /\ \A t \in Token : st'[t] = "live" => info[t].fam \notin F
<1> SUFFICES ASSUME TypeInv, [Next]_vars
             PROVE  \/ UNCHANGED <<ended, raced>>
                    \/ \E F \in SUBSET Issued :
                          Ends(F) /\ \A t \in Token : st'[t] = "live" => info[t].fam \notin F
  OBVIOUS
<1> USE DEF TypeInv, TypeOK, Wellformed
<1>1. ASSUME NEW r \in Requests, KillFamily(r)
      PROVE  Ends({Fam(r)}) /\ Fam(r) \in Issued
             /\ \A t \in Token : st'[t] = "live" => info[t].fam \notin {Fam(r)}
  <2>1. tok[r] \in Token /\ st[tok[r]] # "none"
    BY <1>1 DEF KillFamily, Presenting, Locked
  <2>2. Fam(r) \in Issued
    BY <2>1 DEF Fam, Issued
  <2>3. ASSUME NEW t \in Token, st'[t] = "live" PROVE info[t].fam # Fam(r)
    BY <1>1, <2>3 DEF KillFamily, RevokeIn, Killed, Family
  <2> QED
    BY <1>1, <2>2, <2>3 DEF KillFamily
<1>2. ASSUME NEW u \in Users, NEW t \in Token, info[t].fam \in FamiliesOf(u), st[t] # "none"
      PROVE  info[t].user = u
  BY <1>2 DEF FamiliesOf, Issued
<1>3. ASSUME NEW u \in Users PROVE FamiliesOf(u) \in SUBSET Issued
  BY DEF FamiliesOf, Issued
<1>4. ASSUME NEW u \in Users, RevokeIn(Live(u)), NEW t \in Token, st'[t] = "live"
      PROVE  info[t].fam \notin FamiliesOf(u)
  BY <1>2, <1>4 DEF RevokeIn, Live
<1>5. ASSUME NEW u \in Users, RevokeAll(u)
      PROVE  Ends(FamiliesOf(u))
             /\ \A t \in Token : st'[t] = "live" => info[t].fam \notin FamiliesOf(u)
  BY <1>4, <1>5 DEF RevokeAll
<1>6. ASSUME NEW r \in Requests, FinishDeactivate(r)
      PROVE  Ends(FamiliesOf(own[r]))
             /\ \A t \in Token : st'[t] = "live" => info[t].fam \notin FamiliesOf(own[r])
  BY <1>4, <1>6 DEF FinishDeactivate
<1>7. ASSUME NEW u \in Users, DeleteAll(u)
      PROVE  Ends(FamiliesOf(u))
             /\ \A t \in Token : st'[t] = "live" => info[t].fam \notin FamiliesOf(u)
  BY <1>2, <1>7 DEF DeleteAll
<1>8. CASE \/ \E r \in Requests : KillFamily(r) \/ FinishDeactivate(r)
           \/ \E u \in Users : RevokeAll(u) \/ DeleteAll(u)
  <2>1. CASE \E r \in Requests : KillFamily(r)
    BY <1>1, <2>1
  <2>2. CASE \E r \in Requests : FinishDeactivate(r)
    BY <1>3, <1>6, <2>2
  <2>3. CASE \E u \in Users : RevokeAll(u) \/ DeleteAll(u)
    BY <1>3, <1>5, <1>7, <2>3
  <2> QED
    BY <1>8, <2>1, <2>2, <2>3
<1>9. CASE /\ \A r \in Requests : ~ KillFamily(r) /\ ~ FinishDeactivate(r)
           /\ \A u \in Users : ~ RevokeAll(u) /\ ~ DeleteAll(u)
  BY <1>9
  DEF Next, Environment, Start, Step, vars, history, CutShort, BeginLogin,
      InsertSession, EnforceCap, BeginRefresh, AcquireLock, RereadGrace, SelectSession,
      CheckUser, SaveExpired, SaveRotated, StoreGrace, ReleaseLock, BeginLogout,
      SaveLogout, RevokeSession, RevokeAllOtherSessions, Deactivate, Reactivate,
      Sweep, Expire, GraceExpires, LockExpires, Fail, Crash
<1> QED
  BY <1>8, <1>9

LEMMA EndStep == TypeInv /\ EndInv /\ [Next]_vars => EndInv'
<1> SUFFICES ASSUME TypeInv, EndInv, [Next]_vars PROVE EndInv'
  OBVIOUS
<1> USE DEF TypeInv, TypeOK, Wellformed, EndInv, EndedStaysEnded, Over, Issued
<1>1. CASE Quiet
  <2>1. CASE UNCHANGED <<ended, raced>>
    BY <1>1, <2>1 DEF Quiet, Fam, InWindow
  <2>2. ASSUME NEW F \in SUBSET Issued, Ends(F),
               \A t \in Token : st'[t] = "live" => info[t].fam \notin F
        PROVE  EndInv'
    <3>1. Over' \subseteq Over \cup F
      BY <2>2 DEF Ends
    <3>2. EndedStaysEnded'
      BY <1>1, <2>2, <3>1 DEF Quiet
    <3>3. ASSUME NEW r \in Requests, InWindow(r)' PROVE Fam(r)' \notin Over'
      <4>1. InWindow(r) /\ Fam(r)' = Fam(r)
        BY <1>1, <3>3 DEF Quiet, Fam
      <4>2. Fam(r) \notin Over
        BY <4>1
      <4>3. Fam(r) \in F => Fam(r) \in raced'
        BY <2>2, <4>1 DEF Ends, Rotating
      <4> QED
        BY <3>1, <4>1, <4>2, <4>3
    <3>4. (ended \subseteq Issued)'
      BY <1>1, <2>2 DEF Quiet, Ends
    <3> QED
      BY <3>2, <3>3, <3>4
  <2> QED
    BY <2>1, <2>2, EndsOrNot
<1>2. ASSUME NEW r \in Requests, SelectSession(r) PROVE EndInv'
  <2>1. UNCHANGED <<st, info, ended, raced, tok>>
    BY <1>2 DEF SelectSession, rows, args, history
  <2>2. ASSUME NEW q \in Requests, InWindow(q)' PROVE Fam(q)' \notin Over'
    <3>1. CASE q = r
      BY <1>2, <2>1, <2>2, <3>1 DEF SelectSession, Goto, InWindow, Fam
    <3>2. CASE q # r
      BY <1>2, <2>1, <2>2, <3>2 DEF SelectSession, Goto, InWindow, Fam
    <3> QED
      BY <3>1, <3>2
  <2> QED
    BY <2>1, <2>2
<1>3. ASSUME NEW r \in Requests, SaveRotated(r) PROVE EndInv'
  <2>1. UNCHANGED <<info, ended, raced, tok>>
    BY <1>3 DEF SaveRotated, args
  <2>2. \A t \in Token : st'[t] = "live" => st[t] = "live"
    BY <1>3 DEF SaveRotated, SaveRevoked
  <2>3. ASSUME NEW q \in Requests, InWindow(q)' PROVE Fam(q)' \notin Over'
    BY <1>3, <2>1, <2>3 DEF SaveRotated, Goto, InWindow, Fam
  <2>4. (ended \subseteq Issued)'
    BY <1>3, <2>1 DEF SaveRotated, SaveRevoked
  <2> QED
    BY <2>1, <2>2, <2>3, <2>4
<1>4. ASSUME NEW r \in Requests, InsertSession(r) PROVE EndInv'
  <2>1. PICK n \in Token :
          /\ st[n] = "none" /\ st' = [st EXCEPT ![n] = "live"]
          /\ info' = [info EXCEPT ![n] =
                IF tok[r] = 0 THEN [user |-> own[r], fam |-> n, dev |-> dev[r]]
                              ELSE info[tok[r]]]
    BY <1>4 DEF InsertSession
  <2>2. UNCHANGED <<ended, raced, tok>>
    BY <1>4 DEF InsertSession, args, history
  <2>3. info'[n].fam \notin Over
    <3>1. CASE tok[r] = 0
      BY <2>1, <3>1
    <3>2. CASE tok[r] # 0
      BY <1>4, <2>1, <3>2 DEF InsertSession, InWindow, Fam
    <3> QED
      BY <3>1, <3>2
  <2>4. EndedStaysEnded'
    BY <2>1, <2>2, <2>3
  <2>5. ASSUME NEW q \in Requests, InWindow(q)' PROVE Fam(q)' \notin Over'
    <3>1. InWindow(q)
      BY <1>4, <2>2, <2>5 DEF InsertSession, Goto, InWindow
    <3>2. tok[q] # n
      BY <2>1, <3>1 DEF InWindow
    <3> QED
      BY <2>1, <2>2, <3>1, <3>2 DEF Fam, InWindow
  <2>6. (ended \subseteq Issued)'
    BY <2>1, <2>2
  <2> QED
    BY <2>4, <2>5, <2>6
<1> QED
  BY <1>1, <1>2, <1>3, <1>4, QuietOrRotates DEF Rotates

\* A family revoked as a whole while none of its rotations is under way never
\* has a live refresh token again, whatever the handlers interleave and even if
\* they outlive their locks.
THEOREM EndedFamilies == Spec => []EndedStaysEnded
<1>1. Spec => [](TypeInv /\ EndInv)
  BY TypeInit, TypeStep, EndInit, EndStep, PTL DEF Spec
<1> QED
  BY <1>1, PTL DEF EndInv

-----------------------------------------------------------------------------
(* A revoked token is never accepted again                                 *)

\* No handler, whatever stale row it saves and however long it stalls, brings a
\* revoked or deleted refresh token back to life.
THEOREM RevokedForGood == Spec => RevocationIsFinal
<1>1. TypeInv /\ [Next]_vars =>
        \A t \in Token : st[t] \in {"revoked", "gone"} => st'[t] # "live"
  <2> SUFFICES ASSUME TypeInv, [Next]_vars, NEW t \in Token,
                      st[t] \in {"revoked", "gone"}
               PROVE  st'[t] # "live"
    OBVIOUS
  <2> USE DEF TypeInv, TypeOK
  <2>1. CASE Quiet
    BY <2>1 DEF Quiet
  <2>2. ASSUME NEW r \in Requests, InsertSession(r) PROVE st'[t] # "live"
    BY <2>2 DEF InsertSession
  <2>3. ASSUME NEW r \in Requests, SelectSession(r) PROVE st'[t] # "live"
    BY <2>3 DEF SelectSession, rows
  <2>4. ASSUME NEW r \in Requests, SaveRotated(r) PROVE st'[t] # "live"
    BY <2>4 DEF SaveRotated, SaveRevoked
  <2> QED
    BY <2>1, <2>2, <2>3, <2>4, QuietOrRotates DEF Rotates
<1>2. Spec => []TypeInv
  BY TypeInit, TypeStep, PTL DEF Spec
<1> QED
  BY <1>1, <1>2, PTL DEF Spec, RevocationIsFinal

-----------------------------------------------------------------------------
(* One rotation at a time                                                  *)

\* A request past AcquireLock still owns its token's lock.
Held == \A r \in Requests : pc[r] \in Locked /\ tok[r] # 0 => lock[tok[r]] = r

LEMMA HeldStep ==
    ASSUME ~ LeaseOutlived
    PROVE  TypeInv /\ Held /\ [Next]_vars => Held'
<1> SUFFICES ASSUME TypeInv, Held, [Next]_vars PROVE Held'
  OBVIOUS
<1> USE DEF TypeInv, TypeOK, rows, redis, args, Held, Locked
<1>1. ASSUME UNCHANGED <<pc, tok, lock>> PROVE Held'
  BY <1>1
<1>2. ASSUME NEW r \in Requests, NEW l, NEW t, NEW d, NEW u,
             Begin(r, l, t, d, u), l \notin Locked \/ t = 0, lock' = lock
      PROVE  Held'
  BY <1>2 DEF Begin, Goto
<1>3. ASSUME NEW r \in Requests, Return(r), lock' = lock PROVE Held'
  BY <1>3 DEF Return, Goto
<1>4. ASSUME NEW r \in Requests, NEW l, Goto(r, l), pc[r] \in Locked, UNCHANGED <<tok, lock>>
      PROVE  Held'
  BY <1>4 DEF Goto
<1>5. ASSUME NEW r \in Requests, AcquireLock(r) PROVE Held'
  BY <1>5, ConstantsAssumption DEF AcquireLock, LockFree, Goto, Wellformed, Presenting
<1>6. ASSUME NEW r \in Requests, ReleaseLock(r) PROVE Held'
  BY <1>6 DEF ReleaseLock, FreedLock, Return, Goto
<1>7. ASSUME NEW t \in Token, LockExpires(t) PROVE Held'
  BY <1>7 DEF LockExpires, TTLPasses, Holds
<1>8. ASSUME NEW r \in Requests, Start(r) PROVE Held'
  BY <1>1, <1>2, <1>8 DEF Start, BeginLogin, BeginRefresh, BeginLogout, Deactivate
<1>9. ASSUME NEW r \in Requests, Step(r) PROVE Held'
  <2>1. CASE InsertSession(r) \/ RereadGrace(r) \/ SelectSession(r) \/ CheckUser(r)
    BY <1>4, <2>1 DEF InsertSession, RereadGrace, SelectSession, CheckUser
  <2>2. CASE KillFamily(r) \/ SaveExpired(r) \/ SaveRotated(r) \/ StoreGrace(r)
    BY <1>4, <2>2 DEF KillFamily, SaveExpired, SaveRotated, StoreGrace
  <2>3. CASE EnforceCap(r) \/ SaveLogout(r) \/ FinishDeactivate(r)
    BY <1>3, <1>4, <2>3 DEF EnforceCap, SaveLogout, FinishDeactivate
  <2>4. CASE Fail(r)
    BY <1>3, <1>4, <2>4 DEF Fail
  <2> QED
    BY <1>5, <1>6, <1>9, <2>1, <2>2, <2>3, <2>4 DEF Step
<1>10. ASSUME NEW r \in Requests, Crash(r) PROVE Held'
  BY <1>3, <1>10 DEF Crash
<1>11. CASE Environment
  BY <1>1, <1>7, <1>11
  DEF Environment, RevokeSession, Sweep, Expire, GraceExpires, RevokeAll, DeleteAll,
      Reactivate, RevokeAllOtherSessions
<1>12. CASE UNCHANGED vars
  BY <1>1, <1>12 DEF vars
<1> QED
  BY <1>8, <1>9, <1>10, <1>11, <1>12 DEF Next

\* Only the token of a rotation under way is live in its family, and once it has
\* been saved none is.
Alone ==
    \A r \in Requests, t \in Token :
        InWindow(r) /\ st[t] = "live" /\ info[t].fam = Fam(r)
            => t = tok[r] /\ pc[r] # "insert"

OneRotation ==
    \A q, r \in Requests : InWindow(q) /\ InWindow(r) /\ Fam(q) = Fam(r) => q = r

\* OneLivePerFamily is kept because a rotation that is about to issue a token is
\* the only one of its family, which the lock of the token it consumes grants it.
LiveInv == OneLivePerFamily /\ Alone /\ OneRotation

LEMMA LiveInit == Init => Held /\ LiveInv
  BY DEF Init, Held, LiveInv, OneLivePerFamily, Alone, OneRotation, InWindow, Locked

LEMMA LiveStep == TypeInv /\ Held /\ LiveInv /\ [Next]_vars => LiveInv'
<1> SUFFICES ASSUME TypeInv, Held, LiveInv, [Next]_vars PROVE LiveInv'
  OBVIOUS
<1> USE DEF TypeInv, TypeOK, LiveInv, OneLivePerFamily, Alone, OneRotation
<1>1. CASE Quiet
  <2>1. \A r \in Requests : InWindow(r)' => InWindow(r) /\ Fam(r)' = Fam(r)
    BY <1>1 DEF Quiet, Fam
  <2>2. OneLivePerFamily' /\ OneRotation'
    BY <1>1, <2>1 DEF Quiet
  <2>3. Alone'
    BY <1>1, <2>1 DEF Quiet
  <2> QED
    BY <2>2, <2>3
<1>2. ASSUME NEW r \in Requests, SelectSession(r) PROVE LiveInv'
  <2>1. UNCHANGED <<st, info, tok>>
    BY <1>2 DEF SelectSession, rows, args
  <2>2. \A q \in Requests : Fam(q)' = Fam(q) /\ (q # r => pc'[q] = pc[q])
    BY <1>2, <2>1 DEF SelectSession, Goto, Fam
  <2>3. tok[r] \in Token /\ lock[tok[r]] = r
    BY <1>2 DEF SelectSession, Wellformed, Presenting, Held, Locked
  <2>4. InWindow(r)' => st[tok[r]] = "live" /\ pc'[r] = "user"
    BY <1>2, <2>1 DEF SelectSession, Goto, InWindow
  <2>5. Alone'
    <3> SUFFICES ASSUME NEW q \in Requests, NEW t \in Token,
                        InWindow(q)', st[t] = "live", info[t].fam = Fam(q)
                 PROVE  t = tok[q] /\ pc'[q] # "insert"
      BY <2>1, <2>2
    <3>1. CASE q = r
      BY <2>3, <2>4, <3>1 DEF Fam
    <3>2. CASE q # r
      BY <2>1, <2>2, <3>2 DEF InWindow
    <3> QED
      BY <3>1, <3>2
  <2>6. ASSUME NEW q \in Requests, q # r, InWindow(q), InWindow(r)', Fam(q) = Fam(r)
        PROVE  FALSE
    <3>1. tok[r] = tok[q]
      BY <2>3, <2>4, <2>6 DEF Fam
    <3>2. lock[tok[q]] = q
      BY <2>6 DEF Held, InWindow, Locked
    <3> QED
      BY <2>3, <2>6, <3>1, <3>2
  <2>7. OneRotation'
    <3> SUFFICES ASSUME NEW p \in Requests, NEW q \in Requests,
                        InWindow(p)', InWindow(q)', Fam(p) = Fam(q), p # q
                 PROVE  FALSE
      BY <2>2
    <3>1. p # r => InWindow(p)
      BY <2>1, <2>2 DEF InWindow
    <3>2. q # r => InWindow(q)
      BY <2>1, <2>2 DEF InWindow
    <3> QED
      BY <2>6, <3>1, <3>2
  <2> QED
    BY <2>1, <2>5, <2>7
<1>3. ASSUME NEW r \in Requests, SaveRotated(r) PROVE LiveInv'
  <2>1. /\ UNCHANGED <<info, tok>>
        /\ st' = [st EXCEPT ![tok[r]] = "revoked"]
        /\ pc' = [pc EXCEPT ![r] = "insert"]
        /\ tok[r] \in Token /\ InWindow(r)
    BY <1>3 DEF SaveRotated, SaveRevoked, Goto, args, Wellformed, Presenting, Locked, InWindow
  <2>2. \A q \in Requests : (InWindow(q)' <=> InWindow(q)) /\ Fam(q)' = Fam(q)
    BY <2>1 DEF InWindow, Fam
  <2>3. \A t \in Token : st'[t] = "live" => st[t] = "live" /\ t # tok[r]
    BY <2>1
  <2>4. OneLivePerFamily' /\ OneRotation'
    BY <2>1, <2>2, <2>3
  <2>5. Alone'
    BY <2>1, <2>2, <2>3
  <2> QED
    BY <2>4, <2>5
<1>4. ASSUME NEW r \in Requests, InsertSession(r) PROVE LiveInv'
  <2>1. PICK n \in Token :
          /\ st[n] = "none" /\ st' = [st EXCEPT ![n] = "live"]
          /\ info' = [info EXCEPT ![n] =
                IF tok[r] = 0 THEN [user |-> own[r], fam |-> n, dev |-> dev[r]]
                              ELSE info[tok[r]]]
    BY <1>4 DEF InsertSession
  <2>2. tok' = tok /\ pc' = [pc EXCEPT ![r] = "cap"] /\ pc[r] = "insert"
    BY <1>4 DEF InsertSession, Goto, args
  <2>3. \A t \in Token : t # n => info'[t] = info[t] /\ st'[t] = st[t]
    BY <2>1
  <2>4. \A t \in Token : st[t] = "live" => info[t].fam # info'[n].fam
    <3>1. CASE tok[r] = 0
      BY <2>1, <3>1 DEF Wellformed
    <3>2. CASE tok[r] # 0
      BY <2>1, <2>2, <3>2 DEF InWindow, Fam
    <3> QED
      BY <3>1, <3>2
  <2>5. ASSUME NEW q \in Requests, InWindow(q)'
        PROVE  InWindow(q) /\ q # r /\ Fam(q)' = Fam(q) /\ Fam(q) # info'[n].fam
               /\ pc'[q] = pc[q]
    <3>1. InWindow(q) /\ q # r /\ pc'[q] = pc[q]
      BY <2>2, <2>5 DEF InWindow
    <3>2. tok[q] \in Token /\ tok[q] # n
      BY <2>1, <3>1 DEF InWindow, Wellformed
    <3>3. Fam(q)' = Fam(q)
      BY <2>2, <2>3, <3>2 DEF Fam
    <3>4. ASSUME tok[r] = 0 PROVE Fam(q) # info'[n].fam
      <4>1. info'[n].fam = n
        BY <2>1, <3>4
      <4>2. st[Fam(q)] # "none"
        BY <3>1, <3>2 DEF Wellformed, Fam, InWindow
      <4> QED
        BY <2>1, <4>1, <4>2
    <3>5. ASSUME tok[r] # 0 PROVE Fam(q) # info'[n].fam
      <4>1. info'[n].fam = Fam(r)
        BY <2>1, <3>5 DEF Fam
      <4>2. InWindow(r)
        BY <2>2, <3>5 DEF InWindow
      <4> QED
        BY <3>1, <4>1, <4>2
    <3> QED
      BY <3>1, <3>3, <3>4, <3>5
  <2>6. OneLivePerFamily'
    BY <2>3, <2>4
  <2>7. OneRotation'
    BY <2>5
  <2>8. Alone'
    <3> SUFFICES ASSUME NEW q \in Requests, NEW t \in Token,
                        InWindow(q)', st'[t] = "live", info'[t].fam = Fam(q)'
                 PROVE  t = tok[q] /\ pc'[q] # "insert"
      BY <2>2
    <3>1. t # n
      BY <2>5
    <3> QED
      BY <2>3, <2>5, <3>1
  <2> QED
    BY <2>6, <2>7, <2>8
<1> QED
  BY <1>1, <1>2, <1>3, <1>4, QuietOrRotates DEF Rotates

LEMMA LiveAlways ==
    ASSUME ~ LeaseOutlived
    PROVE  Spec => [](TypeInv /\ LiveInv)
  BY TypeInit, TypeStep, LiveInit, LiveStep, HeldStep, PTL DEF Spec

\* As long as no handler outlives the TTL of its rotation lock, a session family
\* never has two live refresh tokens.
THEOREM OneLive ==
    ASSUME ~ LeaseOutlived
    PROVE  Spec => []OneLivePerFamily
<1>1. Spec => [](TypeInv /\ LiveInv)
  BY LiveAlways
<1> QED
  BY <1>1, PTL DEF LiveInv

-----------------------------------------------------------------------------
(* The rows of a family implement its chain of tokens                      *)

LEMMA ChainInit == Init => Chain!Init
  BY DEF Init, Chain!Init, Current, Issued

\* A family's current token is its live one.
LEMMA CurrentIsLive ==
    ASSUME TypeInv, OneLivePerFamily, NEW t \in Token, st[t] = "live"
    PROVE  Current[info[t].fam] = t
<1> USE DEF TypeInv, TypeOK
<1> DEFINE live(s) == s \in Token /\ st[s] = "live" /\ info[s].fam = info[t].fam
<1>1. \A s : live(s) => s = t
  BY DEF OneLivePerFamily
<1>2. info[t].fam \in Token
  OBVIOUS
<1>3. (CHOOSE s \in Token : st[s] = "live" /\ info[s].fam = info[t].fam) = t
  BY <1>1
<1> QED
  BY <1>2, <1>3 DEF Current

LEMMA NoneIsCurrent ==
    ASSUME NEW f \in Token, \A t \in Token : st[t] = "live" => info[t].fam # f
    PROVE  Current[f] = 0
  BY DEF Current

LEMMA ChainStep ==
    TypeInv /\ Held /\ LiveInv /\ [Next]_vars => [Chain!Next]_<<Current, Issued>>
<1> SUFFICES ASSUME TypeInv, Held, LiveInv, [Next]_vars
             PROVE  Chain!Next \/ UNCHANGED <<Current, Issued>>
  OBVIOUS
<1>1. TypeInv' /\ OneLivePerFamily'
  BY TypeStep, LiveStep DEF LiveInv
<1>2. OneLivePerFamily
  BY DEF LiveInv
<1>3. \A t \in Token : st[t] = "live" => Current[info[t].fam] = t
  BY <1>2, CurrentIsLive
<1>4. \A t \in Token : st'[t] = "live" => Current'[info'[t].fam] = t
  <2> SUFFICES ASSUME NEW t \in Token, st'[t] = "live" PROVE Current'[info'[t].fam] = t
    OBVIOUS
  <2> USE DEF TypeInv, TypeOK
  <2>1. \A s \in Token : st'[s] = "live" /\ info'[s].fam = info'[t].fam => s = t
    BY <1>1 DEF OneLivePerFamily
  <2>2. info'[t].fam \in Token
    BY <1>1
  <2>3. (CHOOSE s \in Token : st'[s] = "live" /\ info'[s].fam = info'[t].fam) = t
    BY <2>1
  <2> QED
    BY <2>2, <2>3 DEF Current
<1>5. \A f \in Token : (\A t \in Token : st[t] = "live" => info[t].fam # f) => Current[f] = 0
  BY NoneIsCurrent
<1>6. \A f \in Token : (\A t \in Token : st'[t] = "live" => info'[t].fam # f) => Current'[f] = 0
  BY DEF Current
<1>7. /\ Current = [f \in Token |-> Current[f]]
      /\ Current' = [f \in Token |-> Current'[f]]
  BY DEF Current
<1> USE DEF TypeInv, TypeOK
<1>8. ASSUME info' = info,
             \A t \in Token : /\ st'[t] = "live" => st[t] = "live"
                              /\ st'[t] = "none" <=> st[t] = "none"
      PROVE  Chain!Next
  <2> DEFINE F == {f \in Token : Current'[f] = 0}
  <2>1. ASSUME NEW f \in Token PROVE Current'[f] = IF f \in F THEN 0 ELSE Current[f]
    <3>1. CASE \A t \in Token : st'[t] = "live" => info'[t].fam # f
      BY <1>6, <3>1
    <3>2. ASSUME NEW t \in Token, st'[t] = "live", info'[t].fam = f
          PROVE  Current'[f] = Current[f]
      <4>1. st[t] = "live" /\ info[t].fam = f
        BY <1>8, <3>2
      <4>2. Current[info[t].fam] = t /\ Current'[info'[t].fam] = t
        BY <1>3, <1>4, <3>2, <4>1
      <4> QED
        BY <3>2, <4>1, <4>2
    <3> QED
      BY <3>1, <3>2
  <2>2. Current' = [f \in Token |-> IF f \in F THEN 0 ELSE Current[f]]
    BY <1>7, <2>1
  <2>3. Issued' = Issued
    BY <1>8 DEF Issued
  <2> QED
    BY <2>2, <2>3 DEF Chain!Next, Chain!Retire
<1>9. CASE Quiet
  BY <1>8, <1>9 DEF Quiet
<1>10. ASSUME NEW r \in Requests, SelectSession(r) PROVE Chain!Next
  BY <1>8, <1>10 DEF SelectSession, rows
<1>11. ASSUME NEW r \in Requests, SaveRotated(r) PROVE Chain!Next
  <2>1. tok[r] \in Token /\ st[tok[r]] # "none"
    BY <1>11 DEF SaveRotated, Wellformed, Presenting, Locked
  <2> QED
    BY <1>8, <1>11, <2>1 DEF SaveRotated, SaveRevoked
<1>12. ASSUME NEW r \in Requests, InsertSession(r) PROVE Chain!Next
  <2>1. PICK n \in Token :
          /\ st[n] = "none" /\ st' = [st EXCEPT ![n] = "live"]
          /\ info' = [info EXCEPT ![n] =
                IF tok[r] = 0 THEN [user |-> own[r], fam |-> n, dev |-> dev[r]]
                              ELSE info[tok[r]]]
    BY <1>12 DEF InsertSession
  <2> DEFINE f == info'[n].fam
  <2>2. f \in Token /\ st'[n] = "live"
    BY <1>1, <2>1
  <2>3. \A t \in Token : st[t] = "live" => info[t].fam # f
    <3>1. CASE tok[r] = 0
      BY <2>1, <3>1 DEF Wellformed
    <3>2. CASE tok[r] # 0
      BY <1>12, <2>1, <3>2 DEF InsertSession, InWindow, Fam, LiveInv, Alone
    <3> QED
      BY <3>1, <3>2
  <2>4. Current[f] = 0 /\ Current'[f] = n
    BY <1>4, <1>5, <2>2, <2>3
  <2>5. ASSUME NEW g \in Token, g # f PROVE Current'[g] = Current[g]
    <3>1. CASE \A t \in Token : st[t] = "live" => info[t].fam # g
      BY <1>5, <1>6, <2>1, <2>5, <3>1
    <3>2. ASSUME NEW t \in Token, st[t] = "live", info[t].fam = g
          PROVE  Current'[g] = Current[g]
      <4>1. t # n
        BY <2>1, <3>2
      <4>2. st'[t] = "live" /\ info'[t].fam = g
        BY <2>1, <3>2, <4>1
      <4> QED
        BY <1>3, <1>4, <3>2, <4>2
    <3> QED
      BY <3>1, <3>2
  <2>6. Current' = [Current EXCEPT ![f] = n]
    BY <1>7, <2>2, <2>4, <2>5
  <2>7. Issued' = Issued \cup {n} /\ n \notin Issued
    BY <2>1 DEF Issued
  <2> QED
    BY <2>2, <2>4, <2>6, <2>7 DEF Chain!Next, Chain!Issue
<1> QED
  BY <1>9, <1>10, <1>11, <1>12, QuietOrRotates DEF Rotates

\* As long as no handler outlives its rotation lock, the rows, locks and handlers
\* implement the chain of tokens a family promises: one current token at a time,
\* each issued once, and none issued while another is current.
THEOREM ChainImplemented ==
    ASSUME ~ LeaseOutlived
    PROVE  Spec => ImplementsChain
<1>1. Spec => [](TypeInv /\ Held /\ LiveInv)
  BY TypeInit, TypeStep, LiveInit, LiveStep, HeldStep, PTL DEF Spec
<1> QED
  BY <1>1, ChainInit, ChainStep, PTL DEF Spec, ImplementsChain, Chain!Spec
-----------------------------------------------------------------------------
(* The session limit                                                       *)

\* Of a finite set of numbers, at most Cap have fewer than Cap greater ones: a number that has
\* a greater one in the set has more numbers above it.
LEMMA NewestFew ==
    ASSUME NEW u \in Users
    PROVE  /\ IsFiniteSet(Live(u)) /\ IsFiniteSet(Newest(u))
           /\ Cardinality(Newest(u)) <= Cap
<1> USE ConstantsAssumption
<1>1. IsFiniteSet(Token) /\ Live(u) \in SUBSET Token /\ Token \subseteq Nat
  BY FS_Interval DEF Token, Live
<1>2. IsFiniteSet(Live(u))
  BY <1>1, FS_Subset
<1> DEFINE above(t) == {s \in Live(u) : s > t}
           f == [t \in Newest(u) |-> Cardinality(above(t))]
<1>3. \A t : above(t) \in SUBSET Live(u)
  OBVIOUS
<1>4. \A t : IsFiniteSet(above(t)) /\ Cardinality(above(t)) \in Nat
  BY <1>2, <1>3, FS_Subset, FS_CardinalityType
<1>5. \A t \in Newest(u) : f[t] \in 0 .. Cap - 1
  BY <1>4 DEF Newest
<1>6. ASSUME NEW s \in Newest(u), NEW t \in Newest(u), s < t PROVE f[s] # f[t]
  <2>1. s \in Nat /\ t \in Nat
    BY <1>1 DEF Newest
  <2>2. above(t) \in SUBSET above(s)
    <3>1. ASSUME NEW x \in Live(u), x > t PROVE x > s
      <4>1. x \in Nat
        BY <1>1
      <4> QED
        BY <1>6, <2>1, <3>1, <4>1
    <3> QED
      BY <3>1
  <2>3. t \in above(s) /\ t \notin above(t)
    BY <1>6, <2>1 DEF Newest
  <2>4. Cardinality(above(s)) # Cardinality(above(t))
    BY <1>4, <2>2, <2>3, FS_Subset
  <2> QED
    BY <2>4
<1>7. f \in Injection(Newest(u), 0 .. Cap - 1)
  <2>1. f \in [Newest(u) -> 0 .. Cap - 1]
    BY <1>5
  <2>2. ASSUME NEW s \in Newest(u), NEW t \in Newest(u), f[s] = f[t] PROVE s = t
    <3>1. s \in Nat /\ t \in Nat
      BY <1>1 DEF Newest
    <3>2. ~ s < t /\ ~ t < s
      BY <1>6, <2>2
    <3> QED
      BY <3>1, <3>2
  <2> HIDE DEF f
  <2> QED
    BY <2>1, <2>2 DEF Injection, IsInjective
<1>8. IsFiniteSet(0 .. Cap - 1) /\ Cardinality(0 .. Cap - 1) = Cap
  BY FS_Interval
<1> HIDE DEF f
<1>9. IsFiniteSet(Newest(u)) /\ Cardinality(Newest(u)) <= Cardinality(0 .. Cap - 1)
  BY <1>7, <1>8, FS_Injection
<1> QED
  BY <1>2, <1>8, <1>9

\* The slots that have inserted a session of u and have not enforced its limit.
Capping(u) == {r \in Requests : pc[r] = "cap" /\ own[r] = u}

\* A request acts for the user of the token it presents, so the session a slot inserts counts
\* against the limit that slot is about to enforce.
OwnToken == \A r \in Requests : tok[r] # 0 => own[r] = info[tok[r]].user

CapInv ==
    /\ OwnToken /\ CapHolds
    /\ \A u \in Users : IsFiniteSet(Capping(u))

\* No new session, and no limit is passed over.
NoneMore ==
    /\ info' = info /\ owed' = owed
    /\ \A t \in Token : st'[t] = "live" => st[t] = "live"
    /\ \A r \in Requests : (pc'[r] = "cap" <=> pc[r] = "cap")
                           /\ (pc[r] = "cap" => own'[r] = own[r])

LEMMA CapInit == Init => CapInv
<1> SUFFICES ASSUME Init PROVE CapInv
  OBVIOUS
<1>1. \A u \in Users : Live(u) = {} /\ Capping(u) = {}
  BY DEF Init, Live, Capping
<1>2. \A u \in Users : IsFiniteSet(Capping(u))
  BY <1>1, FS_EmptySet
<1>3. CapHolds
  <2> SUFFICES ASSUME NEW u \in Users
               PROVE  Cardinality(Live(u)) <= Cap + owed[u] + Cardinality(Capping(u))
    BY DEF CapHolds, Capping
  <2>1. Cardinality(Live(u)) = 0 /\ Cardinality(Capping(u)) = 0 /\ owed[u] = 0
    BY <1>1, FS_EmptySet DEF Init
  <2> QED
    BY <2>1, ConstantsAssumption
<1> QED
  BY <1>2, <1>3 DEF CapInv, OwnToken, Init

LEMMA LiveShrinks ==
    ASSUME TypeInv, info' = info, \A t \in Token : st'[t] = "live" => st[t] = "live",
           NEW u \in Users
    PROVE  /\ Live(u)' \in SUBSET Live(u) /\ IsFiniteSet(Live(u)')
           /\ Cardinality(Live(u)) \in Nat /\ Cardinality(Live(u)') \in Nat
           /\ Cardinality(Live(u)') <= Cardinality(Live(u))
<1>1. Live(u)' \in SUBSET Live(u)
  BY DEF Live
<1>2. IsFiniteSet(Live(u))
  BY NewestFew
<1> QED
  BY <1>1, <1>2, FS_Subset, FS_CardinalityType

\* A request keeps its user and its token from its begin to its return, and issued rows keep
\* their columns.
LEMMA OwnTokenStep == TypeInv /\ OwnToken /\ [Next]_vars => OwnToken'
<1> SUFFICES ASSUME TypeInv, OwnToken, [Next]_vars PROVE OwnToken'
  OBVIOUS
<1> USE DEF TypeInv, TypeOK, Wellformed, OwnToken, rows, redis, args
<1>1. ASSUME UNCHANGED <<info, tok, own>> PROVE OwnToken'
  BY <1>1
<1>2. ASSUME NEW r \in Requests, NEW l, NEW t, NEW d, NEW u,
             Begin(r, l, t, d, u), info' = info, t # 0 => u = info[t].user
      PROVE  OwnToken'
  BY <1>2 DEF Begin
<1>3. ASSUME NEW r \in Requests, Return(r), info' = info PROVE OwnToken'
  BY <1>3 DEF Return
<1>4. ASSUME NEW r \in Requests, InsertSession(r) PROVE OwnToken'
  BY <1>4 DEF InsertSession
<1>5. ASSUME NEW r \in Requests, Start(r) PROVE OwnToken'
  <2>1. ASSUME NEW u \in Users, NEW d \in DeviceId, BeginLogin(r, u, d) PROVE OwnToken'
    BY <1>2, <2>1 DEF BeginLogin
  <2>2. ASSUME NEW t \in Token, NEW d \in DeviceId, BeginRefresh(r, t, d) PROVE OwnToken'
    BY <1>2, <2>2 DEF BeginRefresh
  <2>3. ASSUME NEW t \in Token, BeginLogout(r, t) PROVE OwnToken'
    BY <1>1, <1>2, <2>3 DEF BeginLogout
  <2>4. ASSUME NEW u \in Users, Deactivate(r, u) PROVE OwnToken'
    BY <1>2, <2>4 DEF Deactivate
  <2> QED
    BY <1>5, <2>1, <2>2, <2>3, <2>4 DEF Start
<1>6. ASSUME NEW r \in Requests, Step(r) \/ Crash(r) PROVE OwnToken'
  BY <1>1, <1>3, <1>4, <1>6
  DEF Step, Crash, EnforceCap, AcquireLock, RereadGrace, SelectSession, CheckUser, KillFamily,
      SaveExpired, SaveRotated, StoreGrace, ReleaseLock, SaveLogout, FinishDeactivate, Fail
<1>7. CASE Environment
  BY <1>1, <1>7
  DEF Environment, RevokeSession, Sweep, Expire, GraceExpires, LockExpires, RevokeAll,
      DeleteAll, Reactivate, RevokeAllOtherSessions
<1>8. CASE UNCHANGED vars
  BY <1>1, <1>8 DEF vars
<1> QED
  BY <1>5, <1>6, <1>7, <1>8 DEF Next

\* Steps that neither insert a session nor end a slot's duty to enforce the limit.
LEMMA NoneMoreOrCaps ==
    TypeInv /\ [Next]_vars =>
        \/ NoneMore
        \/ \E r \in Requests :
               \/ InsertSession(r)
               \/ pc[r] = "cap" /\ (EnforceCap(r) \/ Fail(r) \/ Crash(r))
<1> SUFFICES ASSUME TypeInv, [Next]_vars,
                    \A r \in Requests : ~ InsertSession(r) /\ ~ EnforceCap(r),
                    \A r \in Requests : Fail(r) \/ Crash(r) => pc[r] # "cap"
             PROVE  NoneMore
  BY DEF EnforceCap
<1> USE DEF TypeInv, TypeOK, Wellformed, NoneMore, rows, redis, args, history
<1>1. ASSUME UNCHANGED <<pc, info, owed, own>>,
             \A t \in Token : st'[t] = "live" => st[t] = "live"
      PROVE  NoneMore
  BY <1>1
<1>2. ASSUME NEW r \in Requests, NEW l, NEW t, NEW d, NEW u,
             Begin(r, l, t, d, u), l # "cap", UNCHANGED <<st, info, owed>>
      PROVE  NoneMore
  BY <1>2 DEF Begin, Goto
<1>3. ASSUME NEW r \in Requests, Return(r), pc[r] # "cap", UNCHANGED <<info, owed>>,
             \A t \in Token : st'[t] = "live" => st[t] = "live"
      PROVE  NoneMore
  BY <1>3 DEF Return, Goto
<1>4. ASSUME NEW r \in Requests, NEW l, Goto(r, l), l # "cap", pc[r] # "cap",
             UNCHANGED <<info, owed, own>>, \A t \in Token : st'[t] = "live" => st[t] = "live"
      PROVE  NoneMore
  BY <1>4 DEF Goto
<1>5. ASSUME NEW r \in Requests, Start(r) PROVE NoneMore
  BY <1>1, <1>2, <1>5 DEF Start, BeginLogin, BeginRefresh, BeginLogout, Deactivate
<1>6. ASSUME NEW r \in Requests, Step(r) PROVE NoneMore
  <2>1. CASE AcquireLock(r) \/ RereadGrace(r) \/ SelectSession(r) \/ CheckUser(r) \/ StoreGrace(r)
    BY <1>4, <2>1 DEF AcquireLock, RereadGrace, SelectSession, CheckUser, StoreGrace
  <2>2. CASE KillFamily(r) \/ SaveExpired(r) \/ SaveRotated(r)
    BY <1>4, <2>2 DEF KillFamily, SaveExpired, SaveRotated, SaveRevoked, RevokeIn
  <2>3. CASE SaveLogout(r) \/ FinishDeactivate(r) \/ ReleaseLock(r)
    BY <1>3, <2>3 DEF SaveLogout, SaveRevoked, FinishDeactivate, RevokeIn, ReleaseLock
  <2>4. CASE Fail(r)
    BY <1>3, <1>4, <2>4 DEF Fail, CutShort
  <2> QED
    BY <1>6, <2>1, <2>2, <2>3, <2>4 DEF Step
<1>7. ASSUME NEW r \in Requests, Crash(r) PROVE NoneMore
  BY <1>3, <1>7 DEF Crash, CutShort
<1>8. CASE Environment
  BY <1>1, <1>8
  DEF Environment, RevokeSession, Sweep, Expire, GraceExpires, LockExpires, RevokeAll,
      DeleteAll, Reactivate, RevokeAllOtherSessions, RevokeIn
<1>9. CASE UNCHANGED vars
  BY <1>1, <1>9 DEF vars
<1> QED
  BY <1>5, <1>6, <1>7, <1>8, <1>9 DEF Next

LEMMA CapStep == TypeInv /\ CapInv /\ [Next]_vars => CapInv'
<1> SUFFICES ASSUME TypeInv, CapInv, [Next]_vars PROVE CapInv'
  OBVIOUS
<1>1. OwnToken'
  BY OwnTokenStep DEF CapInv
<1> USE ConstantsAssumption
<1>2. \A u \in Users : /\ IsFiniteSet(Live(u)) /\ Cardinality(Live(u)) \in Nat
                       /\ IsFiniteSet(Capping(u)) /\ Cardinality(Capping(u)) \in Nat
                       /\ owed[u] \in Nat
                       /\ Cardinality(Live(u)) <= Cap + owed[u] + Cardinality(Capping(u))
  BY NewestFew, FS_CardinalityType DEF CapInv, CapHolds, Capping, TypeInv, TypeOK
<1>3. SUFFICES ASSUME NEW u \in Users
               PROVE  /\ Cardinality(Live(u)') <= Cap + owed'[u] + Cardinality(Capping(u)')
                      /\ IsFiniteSet(Capping(u)')
  BY <1>1, <1>3 DEF CapInv, CapHolds, Capping
<1>4. CASE NoneMore
  <2>1. Capping(u)' = Capping(u)
    BY <1>4 DEF NoneMore, Capping
  <2>2. Cardinality(Live(u)') <= Cardinality(Live(u)) /\ Cardinality(Live(u)') \in Nat
    BY <1>4, LiveShrinks DEF NoneMore
  <2> QED
    BY <1>2, <1>4, <2>1, <2>2 DEF NoneMore
<1>5. ASSUME NEW r \in Requests, InsertSession(r)
      PROVE  /\ Cardinality(Live(u)') <= Cap + owed'[u] + Cardinality(Capping(u)')
             /\ IsFiniteSet(Capping(u)')
  <2>1. PICK n \in Token :
          /\ st[n] = "none" /\ st' = [st EXCEPT ![n] = "live"]
          /\ info' = [info EXCEPT ![n] =
                IF tok[r] = 0 THEN [user |-> own[r], fam |-> n, dev |-> dev[r]]
                              ELSE info[tok[r]]]
    BY <1>5 DEF InsertSession
  <2>2. /\ pc' = [pc EXCEPT ![r] = "cap"] /\ pc[r] = "insert"
        /\ UNCHANGED <<tok, own, owed>>
    BY <1>5 DEF InsertSession, Goto, args, history
  <2>3. info'[n].user = own[r]
    BY <2>1 DEF TypeInv, TypeOK, CapInv, OwnToken
  <2>4. Live(u)' = IF own[r] = u THEN Live(u) \cup {n} ELSE Live(u)
    BY <2>1, <2>3 DEF Live, TypeInv, TypeOK
  <2>5. Capping(u)' = IF own[r] = u THEN Capping(u) \cup {r} ELSE Capping(u)
    BY <2>2 DEF Capping, TypeInv, TypeOK
  <2>6. n \notin Live(u) /\ r \notin Capping(u)
    BY <2>1, <2>2 DEF Live, Capping
  <2>7. CASE own[r] = u
    <3>1. Cardinality(Live(u)') = Cardinality(Live(u)) + 1
      BY <1>2, <2>4, <2>6, <2>7, FS_AddElement
    <3>2. /\ Cardinality(Capping(u)') = Cardinality(Capping(u)) + 1
          /\ IsFiniteSet(Capping(u)')
      BY <1>2, <2>5, <2>6, <2>7, FS_AddElement
    <3> QED
      BY <1>2, <2>2, <3>1, <3>2
  <2>8. CASE own[r] # u
    BY <1>2, <2>2, <2>4, <2>5, <2>8
  <2> QED
    BY <2>7, <2>8
<1>6. ASSUME NEW r \in Requests, pc[r] = "cap", pc'[r] # "cap", UNCHANGED info,
             \A t \in Token : st'[t] = "live" => st[t] = "live",
             \A q \in Requests : q # r => pc'[q] = pc[q] /\ own'[q] = own[q]
      PROVE  /\ IsFiniteSet(Capping(u)') /\ Cardinality(Capping(u)') \in Nat
             /\ Cardinality(Live(u)') \in Nat /\ Cardinality(Live(u)') <= Cardinality(Live(u))
             /\ own[r] = u => Cardinality(Capping(u)') = Cardinality(Capping(u)) - 1
             /\ own[r] # u => Cardinality(Capping(u)') = Cardinality(Capping(u))
  <2>1. Capping(u)' = Capping(u) \ {r}
    BY <1>6 DEF Capping
  <2>2. r \in Capping(u) <=> own[r] = u
    BY <1>6 DEF Capping
  <2>3. /\ IsFiniteSet(Capping(u)')
        /\ Cardinality(Capping(u)') =
             IF r \in Capping(u) THEN Cardinality(Capping(u)) - 1 ELSE Cardinality(Capping(u))
    BY <1>2, <2>1, FS_RemoveElement
  <2>4. Cardinality(Capping(u)') \in Nat
    BY <2>3, FS_CardinalityType
  <2>5. Cardinality(Live(u)') \in Nat /\ Cardinality(Live(u)') <= Cardinality(Live(u))
    BY <1>6, LiveShrinks
  <2> QED
    BY <2>2, <2>3, <2>4, <2>5
<1>7. ASSUME NEW r \in Requests, pc[r] = "cap", EnforceCap(r)
      PROVE  /\ Cardinality(Live(u)') <= Cap + owed'[u] + Cardinality(Capping(u)')
             /\ IsFiniteSet(Capping(u)')
  <2>1. /\ info' = info /\ owed' = [owed EXCEPT ![own[r]] = 0] /\ pc'[r] # "cap"
        /\ \A t \in Token :
               st'[t] = IF t \in Live(own[r]) \ Newest(own[r]) /\ st[t] = "live"
                        THEN "revoked" ELSE st[t]
        /\ \A q \in Requests : q # r => pc'[q] = pc[q] /\ own'[q] = own[q]
    BY <1>7 DEF EnforceCap, RevokeIn, Return, Goto, args, TypeInv, TypeOK
  <2>2. \A t \in Token : st'[t] = "live" => st[t] = "live"
    BY <2>1
  <2>3. /\ IsFiniteSet(Capping(u)') /\ Cardinality(Capping(u)') \in Nat
        /\ Cardinality(Live(u)') \in Nat /\ Cardinality(Live(u)') <= Cardinality(Live(u))
        /\ own[r] # u => Cardinality(Capping(u)') = Cardinality(Capping(u))
    BY <1>6, <1>7, <2>1, <2>2
  <2>4. CASE own[r] = u
    <3>1. Live(u)' \in SUBSET Newest(u)
      BY <2>1, <2>4 DEF Live, Newest
    <3>2. IsFiniteSet(Newest(u)) /\ Cardinality(Newest(u)) <= Cap
      BY NewestFew
    <3>3. Cardinality(Newest(u)) \in Nat /\ Cardinality(Live(u)') <= Cardinality(Newest(u))
      BY <3>1, <3>2, FS_Subset, FS_CardinalityType
    <3>4. owed'[u] = 0
      BY <2>1, <2>4 DEF TypeInv, TypeOK
    <3> QED
      BY <2>3, <3>2, <3>3, <3>4
  <2>5. CASE own[r] # u
    <3>1. owed'[u] = owed[u]
      BY <2>1, <2>5 DEF TypeInv, TypeOK
    <3> QED
      BY <1>2, <2>3, <2>5, <3>1
  <2> QED
    BY <2>4, <2>5
<1>8. ASSUME NEW r \in Requests, pc[r] = "cap", Fail(r) \/ Crash(r)
      PROVE  /\ Cardinality(Live(u)') <= Cap + owed'[u] + Cardinality(Capping(u)')
             /\ IsFiniteSet(Capping(u)')
  <2>1. /\ info' = info /\ st' = st /\ pc'[r] # "cap"
        /\ owed' = [owed EXCEPT ![own[r]] = @ + 1]
        /\ \A q \in Requests : q # r => pc'[q] = pc[q] /\ own'[q] = own[q]
    BY <1>8 DEF Fail, Crash, CutShort, Return, Goto, args, rows, TypeInv, TypeOK, Locked
  <2>2. /\ IsFiniteSet(Capping(u)') /\ Cardinality(Capping(u)') \in Nat
        /\ Cardinality(Live(u)') \in Nat /\ Cardinality(Live(u)') <= Cardinality(Live(u))
        /\ own[r] = u => Cardinality(Capping(u)') = Cardinality(Capping(u)) - 1
        /\ own[r] # u => Cardinality(Capping(u)') = Cardinality(Capping(u))
    BY <1>6, <1>8, <2>1
  <2>3. owed'[u] = IF own[r] = u THEN owed[u] + 1 ELSE owed[u]
    BY <2>1 DEF TypeInv, TypeOK
  <2> QED
    BY <1>2, <2>2, <2>3
<1> QED
  BY <1>4, <1>5, <1>7, <1>8, NoneMoreOrCaps

\* A user never has more live sessions than the limit, but for those whose limit a request is
\* about to enforce or failed to.
THEOREM CapAlways == Spec => []CapHolds
<1>1. Spec => [](TypeInv /\ CapInv)
  BY TypeInit, TypeStep, CapInit, CapStep, PTL DEF Spec
<1> QED
  BY <1>1, PTL DEF CapInv
-----------------------------------------------------------------------------
(* Two tabs with one token                                                 *)

\* A rotation that has consumed t and not yet stored its successor under t's grace entry.
Storing(q, t) == pc[q] \in {"insert", "cap", "store"} /\ tok[q] = t

\* A consumed token whose grace entry is in reach has one, or will be given one.
GraceComes ==
    \A t \in rotated \ spent : grace[t] # 0 \/ \E q \in Requests : Storing(q, t)

\* The grace entry leads to a session of the same device, as does a rotation's own result.
SameDevice ==
    /\ \A t \in Token : grace[t] # 0 =>
           st[t] # "none" /\ st[grace[t]] # "none" /\ info[grace[t]] = info[t]
    /\ \A r \in Requests : pc[r] \in {"cap", "store"} /\ tok[r] # 0 =>
           out[r] # 0 /\ st[out[r]] # "none" /\ info[out[r]] = info[tok[r]]

\* A request past its second look found no grace entry that it may use, and nobody has stored
\* one since: that takes the lock of its token, which it holds.
Missed(r) ==
    \/ grace[tok[r]] = 0 \/ tok[r] \in spent
    \/ info[grace[tok[r]]].dev \notin {NoDevice, dev[r]}

ReuseInv ==
    /\ GraceComes /\ SameDevice
    /\ \A r \in Requests : pc[r] \in {"select", "reuse"} => Missed(r)

LEMMA ReuseInit == Init => ReuseInv
  BY DEF Init, ReuseInv, GraceComes, SameDevice, Token

\* Two requests past AcquireLock do not present the same token.
LEMMA OneHolder ==
    ASSUME TypeInv, Held, NEW q \in Requests, NEW r \in Requests,
           pc[q] \in Locked, pc[r] \in Locked, tok[q] # 0, tok[q] = tok[r]
    PROVE  q = r
  BY DEF TypeInv, TypeOK, Held

\* The invariant says what the property does: the request has missed, and no rotation of its
\* token can be about to store a grace entry.
LEMMA ReuseImplies == TypeInv /\ Held /\ ReuseInv => OnlyRealReuseKills
<1> SUFFICES ASSUME TypeInv, Held, ReuseInv, NEW r \in Requests,
                    pc[r] = "reuse", tok[r] \in rotated \ spent
             PROVE  info[tok[r]].dev \notin {NoDevice, dev[r]}
  BY DEF OnlyRealReuseKills
<1>1. tok[r] \in Token /\ tok[r] # 0
  BY DEF TypeInv, TypeOK, Wellformed, Presenting, Locked, Token
<1>2. ASSUME NEW q \in Requests, Storing(q, tok[r]) PROVE FALSE
  BY <1>1, <1>2, OneHolder DEF Storing, Locked
<1>3. grace[tok[r]] # 0
  BY <1>2 DEF ReuseInv, GraceComes
<1> QED
  BY <1>1, <1>3 DEF ReuseInv, Missed, SameDevice

\* Steps that leave grace entries and rotations as they are, or make an entry unreachable.
Calm ==
    /\ \A t \in Token : st[t] # "none" => st'[t] # "none" /\ info'[t] = info[t]
    /\ \A t \in Token : grace'[t] = grace[t] \/ (grace'[t] = 0 /\ t \in spent')
    /\ spent \subseteq spent' /\ rotated' = rotated
    /\ \A r \in Requests :
           /\ pc'[r] \in {"select", "reuse"} =>
                  /\ tok'[r] = tok[r] /\ dev'[r] = dev[r]
                  /\ \/ pc[r] \in {"select", "reuse"}
                     \/ pc[r] = "reread" /\ (~ Reread(r) \/ tok[r] \in spent')
           /\ pc'[r] \in {"cap", "store"} /\ tok'[r] # 0 =>
                  tok'[r] = tok[r] /\ out'[r] = out[r] /\ pc[r] \in {"cap", "store"}
           /\ pc[r] \in {"insert", "cap", "store"} /\ tok[r] # 0 =>
                  \/ pc'[r] \in {"insert", "cap", "store"} /\ tok'[r] = tok[r]
                  \/ tok[r] \in spent'

Stores(r) == InsertSession(r) \/ SaveRotated(r) \/ StoreGrace(r)

LEMMA CalmOrStores ==
    TypeInv /\ [Next]_vars => Calm \/ \E r \in Requests : Stores(r)
<1> SUFFICES ASSUME TypeInv, [Next]_vars, \A r \in Requests : ~ Stores(r) PROVE Calm
  OBVIOUS
<1> USE DEF TypeInv, TypeOK, Wellformed, Calm, rows, redis, args, history
<1>1. ASSUME NEW r \in Requests, Start(r) PROVE Calm
  <2>1. ASSUME NEW u \in Users, NEW d \in DeviceId, BeginLogin(r, u, d) PROVE Calm
    BY <2>1 DEF BeginLogin, Begin, Goto
  <2>2. ASSUME NEW t \in Token, NEW d \in DeviceId, BeginRefresh(r, t, d) PROVE Calm
    BY <2>2 DEF BeginRefresh, Begin, Goto
  <2>3. ASSUME NEW t \in Token, BeginLogout(r, t) PROVE Calm
    BY <2>3 DEF BeginLogout, Begin, Goto
  <2>4. ASSUME NEW u \in Users, Deactivate(r, u) PROVE Calm
    BY <2>4 DEF Deactivate, Begin, Goto
  <2> QED
    BY <1>1, <2>1, <2>2, <2>3, <2>4 DEF Start
<1>2. ASSUME NEW r \in Requests, Step(r) PROVE Calm
  <2>1. CASE EnforceCap(r)
    BY <2>1 DEF EnforceCap, RevokeIn, Return, Goto
  <2>2. CASE AcquireLock(r) \/ RereadGrace(r) \/ CheckUser(r)
    BY <2>2 DEF AcquireLock, RereadGrace, CheckUser, Goto
  <2>3. CASE SelectSession(r)
    BY <2>3 DEF SelectSession, Goto
  <2>4. CASE KillFamily(r)
    BY <2>4 DEF KillFamily, RevokeIn, Goto
  <2>5. CASE SaveExpired(r)
    BY <2>5 DEF SaveExpired, SaveRevoked, Goto, Presenting, Locked
  <2>6. CASE ReleaseLock(r)
    BY <2>6 DEF ReleaseLock, Return, Goto
  <2>7. CASE SaveLogout(r)
    BY <2>7 DEF SaveLogout, SaveRevoked, Return, Goto, Presenting
  <2>8. CASE FinishDeactivate(r)
    BY <2>8 DEF FinishDeactivate, RevokeIn, Return, Goto
  <2>9. CASE Fail(r)
    BY <2>9 DEF Fail, CutShort, Return, Goto, Locked, Presenting
  <2> QED
    BY <1>2, <2>1, <2>2, <2>3, <2>4, <2>5, <2>6, <2>7, <2>8, <2>9 DEF Step, Stores
<1>3. ASSUME NEW r \in Requests, Crash(r) PROVE Calm
  BY <1>3 DEF Crash, CutShort, Return, Goto
<1>4. CASE Environment
  <2>1. ASSUME NEW t \in Token, RevokeSession(t) \/ Sweep(t) \/ Expire(t) \/ LockExpires(t)
        PROVE  Calm
    BY <2>1 DEF RevokeSession, Sweep, Expire, LockExpires, RevokeIn
  <2>2. ASSUME NEW t \in Token, GraceExpires(t) PROVE Calm
    BY <2>2 DEF GraceExpires
  <2>3. ASSUME NEW u \in Users, RevokeAll(u) \/ DeleteAll(u) PROVE Calm
    BY <2>3 DEF RevokeAll, DeleteAll, RevokeIn, Ends
  <2>4. ASSUME NEW u \in Users, Reactivate(u) \/ \E t \in Token : RevokeAllOtherSessions(u, t)
        PROVE  Calm
    BY <2>4 DEF Reactivate, RevokeAllOtherSessions, RevokeIn
  <2> QED
    BY <1>4, <2>1, <2>2, <2>3, <2>4 DEF Environment
<1>5. CASE UNCHANGED vars
  BY <1>5 DEF vars
<1> QED
  BY <1>1, <1>2, <1>3, <1>4, <1>5 DEF Next

LEMMA ReuseStep ==
    TypeInv /\ Held /\ ReuseInv /\ [Next]_vars => ReuseInv'
<1> SUFFICES ASSUME TypeInv, Held, ReuseInv, [Next]_vars PROVE ReuseInv'
  OBVIOUS
<1>1. TypeInv'
  BY TypeStep
<1> USE DEF TypeInv, TypeOK, Wellformed, ReuseInv
<1>2. CASE Calm
  <2>1. GraceComes'
    <3> SUFFICES ASSUME NEW t \in rotated' \ spent'
                 PROVE  grace'[t] # 0 \/ \E q \in Requests : Storing(q, t)'
      BY DEF GraceComes
    <3>1. t \in Token /\ t \in rotated \ spent /\ t # 0
      <4>1. rotated' = rotated /\ spent \subseteq spent'
        BY ONLY <1>2 DEF Calm
      <4>2. rotated \subseteq Token
        OBVIOUS
      <4> QED
        BY ONLY <4>1, <4>2, t \in rotated' \ spent' DEF Token
    <3>2. CASE grace[t] # 0
      BY <1>2, <3>1, <3>2 DEF Calm
    <3>3. ASSUME NEW q \in Requests, Storing(q, t) PROVE Storing(q, t)'
      BY <1>2, <3>1, <3>3 DEF Calm, Storing
    <3> QED
      BY <3>1, <3>2, <3>3 DEF GraceComes
  <2>2. SameDevice'
    BY <1>2 DEF Calm, SameDevice
  <2>3. ASSUME NEW r \in Requests, pc'[r] \in {"select", "reuse"} PROVE Missed(r)'
    <3>1. tok'[r] = tok[r] /\ dev'[r] = dev[r] /\ tok[r] \in Token /\ st[tok[r]] # "none"
      BY <1>1, <1>2, <2>3 DEF Calm, Presenting, Locked
    <3>2. Missed(r) \/ tok[r] \in spent'
      BY <1>2, <2>3 DEF Calm, Reread, GraceHit, Missed
    <3>3. /\ spent \subseteq spent'
          /\ grace'[tok[r]] = grace[tok[r]] \/ grace'[tok[r]] = 0
      BY <1>2, <3>1 DEF Calm
    <3>4. grace[tok[r]] # 0 => info'[grace[tok[r]]] = info[grace[tok[r]]]
      BY <1>2, <3>1 DEF Calm, SameDevice
    <3> QED
      BY <3>1, <3>2, <3>3, <3>4 DEF Missed
  <2> QED
    BY <2>1, <2>2, <2>3
<1>3. ASSUME NEW r \in Requests, SaveRotated(r) PROVE ReuseInv'
  <2>1. /\ st' = [st EXCEPT ![tok[r]] = "revoked"] /\ pc' = [pc EXCEPT ![r] = "insert"]
        /\ rotated' = rotated \cup {tok[r]} /\ tok[r] \in Token
        /\ UNCHANGED <<info, grace, tok, dev, out, spent>>
    BY <1>3 DEF SaveRotated, SaveRevoked, Goto, rows, redis, args, Presenting, Locked
  <2>2. pc[r] = "save"
    BY <1>3 DEF SaveRotated
  <2>3. GraceComes'
    BY <2>1, <2>2 DEF GraceComes, Storing
  <2>4. SameDevice'
    BY <2>1 DEF SameDevice
  <2>5. \A q \in Requests : pc'[q] \in {"select", "reuse"} => Missed(q)'
    BY <2>1 DEF Missed
  <2> QED
    BY <2>3, <2>4, <2>5
<1>4. ASSUME NEW r \in Requests, InsertSession(r) PROVE ReuseInv'
  <2>1. PICK n \in Token :
          /\ st[n] = "none" /\ st' = [st EXCEPT ![n] = "live"]
          /\ info' = [info EXCEPT ![n] =
                IF tok[r] = 0 THEN [user |-> own[r], fam |-> n, dev |-> dev[r]]
                              ELSE info[tok[r]]]
          /\ out' = [out EXCEPT ![r] = n]
    BY <1>4 DEF InsertSession
  <2>2. /\ pc' = [pc EXCEPT ![r] = "cap"] /\ pc[r] = "insert"
        /\ UNCHANGED <<grace, tok, dev, spent, rotated>>
    BY <1>4 DEF InsertSession, Goto, redis, args, history
  <2>3. GraceComes'
    BY <2>2 DEF GraceComes, Storing
  <2>4. n # 0 /\ \A t \in Token : st[t] # "none" => st'[t] = st[t] /\ info'[t] = info[t]
    BY <2>1 DEF Token
  <2>5. \A t \in Token : grace[t] # 0 =>
            st'[t] # "none" /\ st'[grace[t]] # "none" /\ info'[grace[t]] = info'[t]
    BY <2>4 DEF SameDevice
  <2>6. ASSUME NEW q \in Requests, pc'[q] \in {"cap", "store"}, tok[q] # 0
        PROVE  out'[q] # 0 /\ st'[out'[q]] # "none" /\ info'[out'[q]] = info'[tok[q]]
    <3>1. CASE q = r
      <4>1. out'[q] = n /\ info'[n] = info[tok[q]]
        BY <2>1, <2>6, <3>1
      <4>2. info'[tok[q]] = info[tok[q]]
        BY <2>4, <2>6
      <4> QED
        BY <2>1, <2>4, <4>1, <4>2
    <3>2. CASE q # r
      BY <2>1, <2>2, <2>4, <2>6, <3>2 DEF SameDevice
    <3> QED
      BY <3>1, <3>2
  <2>7. SameDevice'
    BY <2>2, <2>5, <2>6 DEF SameDevice
  <2>8. ASSUME NEW q \in Requests, pc'[q] \in {"select", "reuse"} PROVE Missed(q)'
    <3>1. Missed(q) /\ tok[q] \in Token
      BY <2>2, <2>8 DEF Presenting, Locked
    <3>2. grace[tok[q]] # 0 => info'[grace[tok[q]]] = info[grace[tok[q]]]
      BY <2>4, <3>1 DEF SameDevice
    <3> QED
      BY <2>2, <3>1, <3>2 DEF Missed
  <2> QED
    BY <2>3, <2>7, <2>8
<1>5. ASSUME NEW r \in Requests, StoreGrace(r) PROVE ReuseInv'
  <2>1. /\ pc[r] = "store" /\ pc' = [pc EXCEPT ![r] = "unlock"]
        /\ tok[r] \in Token /\ tok[r] # 0
        /\ UNCHANGED <<st, info, tok, dev, out, rotated>>
    BY <1>5 DEF StoreGrace, Goto, rows, args, Presenting, Locked
  <2>2. \/ grace' = [grace EXCEPT ![tok[r]] = out[r]] /\ spent' = spent \ {tok[r]}
        \/ grace' = grace /\ spent' = spent \cup {tok[r]}
    BY <1>5 DEF StoreGrace
  <2>3. out[r] # 0 /\ st[out[r]] # "none" /\ info[out[r]] = info[tok[r]] /\ st[tok[r]] # "none"
    BY <2>1 DEF SameDevice
  <2>4. GraceComes'
    BY <2>1, <2>2, <2>3 DEF GraceComes, Storing
  <2>5. SameDevice'
    BY <2>1, <2>2, <2>3 DEF SameDevice
  <2>6. ASSUME NEW q \in Requests, pc'[q] \in {"select", "reuse"} PROVE Missed(q)'
    <3>1. q # r /\ pc[q] \in {"select", "reuse"} /\ Missed(q)
      BY <2>1, <2>6
    <3>2. tok[q] # tok[r] /\ tok[q] \in Token
      BY <2>1, <3>1, OneHolder DEF Locked, Presenting
    <3>3. grace'[tok[q]] = grace[tok[q]] /\ (tok[q] \in spent => tok[q] \in spent')
      BY <2>2, <3>2
    <3> QED
      BY <2>1, <3>1, <3>3 DEF Missed
  <2> QED
    BY <2>4, <2>5, <2>6
<1> QED
  BY <1>2, <1>3, <1>4, <1>5, CalmOrStores DEF Stores

\* As long as no handler outlives its lock, two tabs that present one token never end their own
\* session: a family is killed only for a token whose grace entry is out of reach.
THEOREM ReplaysAreReal ==
    ASSUME ~ LeaseOutlived
    PROVE  Spec => []OnlyRealReuseKills
<1>1. Init => Held
  BY LiveInit
<1>2. Spec => [](TypeInv /\ Held /\ ReuseInv)
  BY <1>1, TypeInit, TypeStep, HeldStep, ReuseInit, ReuseStep, PTL DEF Spec
<1> QED
  BY <1>2, ReuseImplies, PTL
=============================================================================
