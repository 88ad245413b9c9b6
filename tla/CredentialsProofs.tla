------------------------- MODULE CredentialsProofs -------------------------
(***************************************************************************)
(* Proofs about the credentials of an account and the pages that deal with  *)
(* them (Pages, with SignIn and Credentials): the administrator's lock, the *)
(* sessions of a replaced password, old passwords, the lock after failures, *)
(* grants that serve once, and the lock of the sign-in page; about the frame *)
(* around the pages (Shell) and the console and settings lists (Console); and *)
(* that every variable of the pages keeps its type.                         *)
(*                                                                          *)
(* Every invariant of the service says what a request still knows at its    *)
(* statement, unless another one has written meanwhile ("over") or a write  *)
(* has crossed another ("crossed"). Those of the console say what is still  *)
(* under way when the screen is behind.                                     *)
(***************************************************************************)
EXTENDS Pages, FiniteSetTheorems, TLAPS

-----------------------------------------------------------------------------
(* Records keep their fields                                               *)

Req(r) == [at |-> r.at, kind |-> r.kind, page |-> r.page, pw |-> r.pw, new |-> r.new,
           key |-> r.key, row |-> r.row, snap |-> r.snap, over |-> r.over, out |-> r.out]
Row(r) == [pw |-> r.pw, hist |-> r.hist, stale |-> r.stale, locked |-> r.locked, mfa |-> r.mfa]
Seen(s) == [past |-> s.past, crossed |-> s.crossed, recent |-> s.recent, admin |-> s.admin,
            confirmed |-> s.confirmed, used |-> s.used, spent |-> s.spent]
Tokens(t) == [reset |-> t.reset, magic |-> t.magic, code |-> t.code]

Shaped ==
    /\ reqs = [q \in Slots |-> reqs[q]]
    /\ \A q \in Slots : reqs[q] = Req(reqs[q])
    /\ account = Row(account)
    /\ fails = [n |-> fails.n, lapses |-> fails.lapses]
    /\ seen = Seen(seen)
    /\ tokens = Tokens(tokens)
    /\ issued = [reset |-> issued.reset, magic |-> issued.magic, code |-> issued.code,
                 secret |-> issued.secret]

\* A statement of the service.
LEMMA ServeKeepsShape ==
    ASSUME Shaped, NEW q \in Slots, Serve(q) PROVE Shaped'
<1> USE DEF Shaped, Req, Row, Seen, Tokens, Is, Goes, Reply, Wrote, Crosses, Issue
<1>1. CASE LoginReads(q)
  BY <1>1 DEF LoginReads, MaySignIn
<1>2. CASE Rehash(q)
  BY <1>2 DEF Rehash
<1>3. CASE VerifyMFA(q)
  BY <1>3 DEF VerifyMFA
<1>4. CASE CountFailure(q)
  BY <1>4 DEF CountFailure
<1>5. CASE SetExpiry(q)
  BY <1>5 DEF SetExpiry, Fault
<1>6. CASE LockAccount(q)
  BY <1>6 DEF LockAccount
<1>7. CASE ClearLock(q)
  BY <1>7 DEF ClearLock
<1>8. CASE Uncount(q)
  BY <1>8 DEF Uncount
<1>9. CASE StartSession(q)
  BY <1>9 DEF StartSession
<1>10. CASE ConfirmPassword(q)
  BY <1>10 DEF ConfirmPassword
<1>11. CASE Validate(q)
  BY <1>11 DEF Validate
<1>12. CASE TakeLink(q)
  <2>1. CASE Goes(q, "store")
    BY <1>12, <2>1 DEF TakeLink, Taken
  <2>2. CASE Reply(q, "400")
    BY <1>12, <2>2 DEF TakeLink, Taken
  <2> QED BY <1>12, <2>1, <2>2 DEF TakeLink, Taken
<1>13. CASE StorePassword(q)
  BY <1>13 DEF StorePassword
<1>14. CASE RevokeSessions(q)
  BY <1>14 DEF RevokeSessions
<1>15. CASE SetLocked(q)
  BY <1>15 DEF SetLocked
<1>16. CASE SendLink(q)
  BY <1>16 DEF SendLink
<1>17. CASE ValidateReset(q)
  BY <1>17 DEF ValidateReset
<1>18. CASE ConsumeLink(q)
  BY <1>18 DEF ConsumeLink
<1>19. CASE BeginMFA(q)
  BY <1>19 DEF BeginMFA
<1>20. CASE VerifyEnrollment(q)
  BY <1>20 DEF VerifyEnrollment
<1>21. CASE EnableMFA(q)
  BY <1>21 DEF EnableMFA
<1>22. CASE DropPending(q)
  BY <1>22 DEF DropPending
<1>23. CASE DeleteCodes(q)
  BY <1>23 DEF DeleteCodes
<1>24. CASE InsertCodes(q)
  <2>1. \A p \in Slots : p # q => reqs'[p] = Req(reqs'[p])
    <3>1. TAKE p \in Slots
    <3>2. HAVE p # q
    <3>3. reqs'[p] = [reqs[p] EXCEPT !.over = IF reqs[p].at = "free" THEN @ ELSE @ \cup {"codes"}]
      BY <1>24, <3>2 DEF InsertCodes
    <3> QED BY <3>3
  <2>2. reqs'[q] = Req(reqs'[q])
    BY <1>24 DEF InsertCodes
  <2> QED BY <1>24, <2>1, <2>2 DEF InsertCodes
<1>25. CASE LookUpAddress(q)
  BY <1>25 DEF LookUpAddress
<1>26. CASE CreateUser(q)
  BY <1>26 DEF CreateUser
<1>27. CASE AnswerElsewhere(q)
  BY <1>27 DEF AnswerElsewhere
<1> QED
  BY <1>1, <1>2, <1>3, <1>4, <1>5, <1>6, <1>7, <1>8, <1>9, <1>10, <1>11, <1>12, <1>13, <1>14,
     <1>15, <1>16, <1>17, <1>18, <1>19, <1>20, <1>21, <1>22, <1>23, <1>24, <1>25, <1>26, <1>27
  DEF Serve, LoginStep, PasswordStep, OtherStep

\* What the tab does to the service: it sends requests, takes answers, forgets its page.
Asked(page, kind, pw, new, key) ==
    [Free EXCEPT !.at = "begin", !.kind = kind, !.page = page, !.pw = pw, !.new = new, !.key = key]
Sent(p) ==
    /\ reqs[p].at = "free"
    /\ \E page, kind, pw, new, key :
           /\ kind = "reset" => key = Key("link", 1)
           /\ reqs'[p] = Asked(page, kind, pw, new, key)
TabMove ==
    /\ UNCHANGED <<account, fails, live, tokens, issued>>
    /\ seen' = seen \/ seen' = [seen EXCEPT !.crossed = @ \cup {"codes"}]
    /\ reqs' = [p \in Slots |-> reqs'[p]]
    /\ \A p \in Slots :
           \/ reqs'[p] = reqs[p]
           \/ reqs'[p] = [reqs[p] EXCEPT !.page = "gone"]
           \/ reqs[p].at = "answer" /\ reqs'[p] = Free
           \/ Sent(p)

\* Sending a request starts it at its first statement and leaves the account alone.
LEMMA SendsMoves ==
    ASSUME Shaped, NEW page, NEW kind, NEW pw, NEW new, NEW key, Sends(page, kind, pw, new, key),
           kind = "reset" => key = Key("link", 1), UNCHANGED Service
    PROVE  TabMove
<1> DEFINE q == CHOOSE p \in Slots : reqs[p].at = "free"
           r == Asked(page, kind, pw, new, key)
<1>1. q \in Slots /\ reqs[q].at = "free"
  BY DEF Sends
<1>2. reqs' = [reqs EXCEPT ![q] = r]
  BY DEF Sends, Asked
<1> HIDE DEF q, r
<1>3. \A p \in Slots : p # q => reqs'[p] = reqs[p]
  BY <1>1, <1>2 DEF Shaped
<1>4. reqs'[q] = r
  BY <1>1, <1>2 DEF Shaped
<1>5. reqs' = [p \in Slots |-> reqs'[p]]
  BY <1>2 DEF Shaped
<1>6. \A p \in Slots : reqs'[p] = reqs[p] \/ p = q
  BY <1>3
<1>7. Sent(q)
  BY <1>1, <1>4 DEF Sent, r
<1> QED BY <1>5, <1>6, <1>7 DEF TabMove, Service

\* Leaving a page only makes the requests of that page belong to nobody.
LEMMA OrphansMove ==
    ASSUME Shaped, reqs' = Orphaned, UNCHANGED Service PROVE TabMove
BY DEF Shaped, Req, Orphaned, Service, TabMove

\* Every answer a page takes ends a request, at most sends another, and writes nothing.
LEMMA AnswersMove ==
    ASSUME Shaped, NEW q \in Slots, Receive(q) PROVE TabMove
<1>1. CASE CodesShown(q)
  BY <1>1 DEF CodesShown, Shaped, Seen, TabMove, Crosses
<1>2. CASE Dropped(q)
  BY <1>2 DEF Dropped, Shaped, TabMove, Service
<1>3. CASE \E kinds, page : Turns(q, kinds, page)
  BY <1>3 DEF Turns, Orphaned, Shaped, Req, TabMove, Service
<1>4. CASE \E kinds : Answered(q, kinds)
  BY <1>4 DEF Answered, Shaped, TabMove, Service
<1> QED
  BY <1>1, <1>2, <1>3, <1>4
  DEF Receive, SignedIn, LoginRefused, AlternativeAnswered, ResetSent, LinkChecked, ResetAnswered,
      InvitationChecked, RegisterAnswered, LinkFollowed, PasswordChanged, PasswordRefused,
      Enrolling, CodeChecked

\* Every way to ask is a request sent.
LEMMA AsksMoves ==
    ASSUME Shaped, NEW kind, NEW pw, NEW new, NEW key, Asks(kind, pw, new, key),
           kind = "reset" => key = Key("link", 1)
    PROVE  TabMove
BY SendsMoves DEF Asks

\* So is every button that reaches the service; the others change the page only.
LEMMA ButtonsMove ==
    ASSUME Shaped, Buttons \/ Effects PROVE TabMove
<1>1. CASE OthersAsk
  BY <1>1, SendsMoves DEF OthersAsk, Codes, Key, Nothing
<1>2. CASE TypeMail \/ Tick
  BY <1>2 DEF TypeMail, Tick, credentials, TabMove, Shaped
<1>3. CASE Leave \/ Redirect
  BY <1>3, OrphansMove DEF Leave, Redirect
<1>4. CASE \E pw \in Passwords, otp \in Codes \cup {Nothing} : SubmitLogin(pw, otp)
  BY <1>4, AsksMoves DEF SubmitLogin
<1>5. CASE \E new \in Passwords : SubmitReset(new)
  BY <1>5, AsksMoves DEF SubmitReset
<1>6. CASE \E old, new \in Passwords : SubmitPassword(old, new)
  BY <1>6, AsksMoves DEF SubmitPassword
<1>7. CASE \E n \in {screen.secret, 9} : SubmitCode(n)
  BY <1>7, AsksMoves DEF SubmitCode
<1>8. CASE SendMagicLink \/ StartOAuth \/ SendReset \/ SubmitRegister \/ SetUpMFA \/ GenerateCodes
  BY <1>8, AsksMoves
  DEF SendMagicLink, StartOAuth, SendReset, SubmitRegister, SetUpMFA, GenerateCodes
<1>9. CASE CheckLink \/ CheckInvitation \/ FollowLink
  BY <1>9, AsksMoves DEF CheckLink, CheckInvitation, FollowLink
<1> QED BY <1>1, <1>2, <1>3, <1>4, <1>5, <1>6, <1>7, <1>8, <1>9 DEF Buttons, Effects

\* The steps of the whole, as the account sees them.
LEMMA Steps ==
    ASSUME Shaped, [Next]_pagesVars
    PROVE  \/ \E q \in Slots : Serve(q) \/ Refuse(q) \/ Break(q)
           \/ WindowPasses \/ LockPasses \/ TabMove
<1>1. CASE UNCHANGED credentials
  BY <1>1 DEF credentials, TabMove, Shaped
<1>2. CASE SignInNext
  BY <1>2, ButtonsMove, AnswersMove DEF SignInNext, ServiceStep, Fails, Lapses
<1> QED BY <1>1, <1>2 DEF Next, pagesVars, signInVars

\* Every step keeps the shape of the records.
LEMMA StepsKeepShape ==
    ASSUME Shaped, [Next]_pagesVars PROVE Shaped'
<1> USE DEF Shaped, Req, Row, Seen, Tokens
<1>1. ASSUME NEW q \in Slots, Refuse(q) \/ Break(q) PROVE Shaped'
  BY <1>1 DEF Refuse, Break, Reply, Is
<1>2. CASE WindowPasses \/ LockPasses
  BY <1>2 DEF WindowPasses, LockPasses
<1>3. CASE TabMove
  <2>1. \A p \in Slots : reqs'[p] = Req(reqs'[p])
    <3>1. TAKE p \in Slots
    <3>2. CASE reqs'[p] = reqs[p]
      BY <3>2
    <3>3. CASE reqs'[p] = [reqs[p] EXCEPT !.page = "gone"]
      BY <3>3
    <3>4. CASE Sent(p)
      BY <3>4 DEF Sent, Asked, Free
    <3>5. CASE reqs'[p] = Free
      BY <3>5 DEF Free
    <3> QED BY <1>3, <3>2, <3>3, <3>4, <3>5 DEF TabMove
  <2> QED BY <1>3, <2>1 DEF TabMove
<1> QED BY <1>1, <1>2, <1>3, Steps, ServeKeepsShape

\* The fields of every record of Credentials stay the same.
THEOREM ShapeKept == Spec => []Shaped
<1>1. Init => Shaped
  <2> SUFFICES ASSUME Init PROVE Shaped
    OBVIOUS
  <2> USE DEF Init, SignInInit, CredentialsInit
  <2>1. \A q \in Slots : reqs[q] = Req(reqs[q])
    BY DEF Free, Req
  <2>2. account = Row(account)
    BY DEF FirstRow, Row
  <2>3. seen = Seen(seen) /\ tokens = Tokens(tokens)
    BY DEF Seen, Tokens
  <2> QED BY <2>1, <2>2, <2>3 DEF Shaped
<1>2. Shaped /\ [Next]_pagesVars => Shaped'
  BY StepsKeepShape
<1> QED BY <1>1, <1>2, PTL DEF Spec

\* A request that another one has overtaken is where it was.
Same(p) ==
    /\ reqs'[p].at = reqs[p].at /\ reqs'[p].kind = reqs[p].kind /\ reqs'[p].pw = reqs[p].pw
    /\ reqs'[p].new = reqs[p].new /\ reqs'[p].key = reqs[p].key /\ reqs'[p].row = reqs[p].row
    /\ reqs'[p].snap = reqs[p].snap /\ reqs'[p].out = reqs[p].out
    /\ reqs[p].over \subseteq reqs'[p].over

\* A statement of one request leaves the other requests where they are.
LEMMA OthersStay ==
    ASSUME Shaped, NEW q \in Slots, Serve(q), NEW p \in Slots, p # q
    PROVE  Same(p) /\ reqs'[p].page = reqs[p].page
<1> USE DEF Same, Shaped, Req, Is, Goes, Reply, Wrote
<1>1. CASE LoginReads(q)
  BY <1>1 DEF LoginReads, MaySignIn
<1>2. CASE Rehash(q)
  BY <1>2 DEF Rehash
<1>3. CASE VerifyMFA(q)
  BY <1>3 DEF VerifyMFA
<1>4. CASE CountFailure(q)
  BY <1>4 DEF CountFailure
<1>5. CASE SetExpiry(q)
  BY <1>5 DEF SetExpiry, Fault
<1>6. CASE LockAccount(q)
  BY <1>6 DEF LockAccount
<1>7. CASE ClearLock(q)
  BY <1>7 DEF ClearLock
<1>8. CASE Uncount(q)
  BY <1>8 DEF Uncount
<1>9. CASE StartSession(q)
  BY <1>9 DEF StartSession
<1>10. CASE ConfirmPassword(q)
  BY <1>10 DEF ConfirmPassword
<1>11. CASE Validate(q)
  BY <1>11 DEF Validate
<1>12. CASE TakeLink(q)
  <2>1. CASE Goes(q, "store")
    BY <1>12, <2>1 DEF TakeLink, Taken
  <2>2. CASE Reply(q, "400")
    BY <1>12, <2>2 DEF TakeLink, Taken
  <2> QED BY <1>12, <2>1, <2>2 DEF TakeLink, Taken
<1>13. CASE StorePassword(q)
  BY <1>13 DEF StorePassword
<1>14. CASE RevokeSessions(q)
  BY <1>14 DEF RevokeSessions
<1>15. CASE SetLocked(q)
  <2>1. CASE reqs[q].kind = "lock"
    BY <1>15, <2>1 DEF SetLocked
  <2>2. CASE reqs[q].kind = "unlock"
    BY <1>15, <2>2 DEF SetLocked
  <2> QED BY <1>15, <2>1, <2>2 DEF SetLocked
<1>16. CASE SendLink(q)
  BY <1>16 DEF SendLink
<1>17. CASE ValidateReset(q)
  BY <1>17 DEF ValidateReset
<1>18. CASE ConsumeLink(q)
  BY <1>18 DEF ConsumeLink
<1>19. CASE BeginMFA(q)
  BY <1>19 DEF BeginMFA
<1>20. CASE VerifyEnrollment(q)
  BY <1>20 DEF VerifyEnrollment
<1>21. CASE EnableMFA(q)
  BY <1>21 DEF EnableMFA
<1>22. CASE DropPending(q)
  BY <1>22 DEF DropPending
<1>23. CASE DeleteCodes(q)
  <2>1. CASE Reply(q, "400")
    BY <1>23, <2>1 DEF DeleteCodes
  <2>2. CASE reqs' = [reqs EXCEPT ![q].at = "insert", ![q].snap = tokens.code, ![q].over = {}]
    BY <1>23, <2>2 DEF DeleteCodes
  <2> QED BY <1>23, <2>1, <2>2 DEF DeleteCodes
<1>24. CASE InsertCodes(q)
  <2>1. reqs'[p] = [reqs[p] EXCEPT !.over = IF reqs[p].at = "free" THEN @ ELSE @ \cup {"codes"}]
    BY <1>24 DEF InsertCodes
  <2> QED BY <2>1
<1>25. CASE LookUpAddress(q)
  <2>1. CASE Reply(q, "409")
    BY <1>25, <2>1 DEF LookUpAddress
  <2>2. CASE Goes(q, "create")
    BY <1>25, <2>2 DEF LookUpAddress
  <2> QED BY <1>25, <2>1, <2>2 DEF LookUpAddress
<1>26. CASE CreateUser(q)
  BY <1>26 DEF CreateUser
<1>27. CASE AnswerElsewhere(q)
  BY <1>27 DEF AnswerElsewhere
<1> QED
  BY <1>1, <1>2, <1>3, <1>4, <1>5, <1>6, <1>7, <1>8, <1>9, <1>10, <1>11, <1>12, <1>13, <1>14,
     <1>15, <1>16, <1>17, <1>18, <1>19, <1>20, <1>21, <1>22, <1>23, <1>24, <1>25, <1>26, <1>27
  DEF Serve, LoginStep, PasswordStep, OtherStep

\* What a request carries stays with it.
LEMMA RequestStays ==
    ASSUME Shaped, NEW q \in Slots, Serve(q)
    PROVE  /\ reqs'[q].kind = reqs[q].kind /\ reqs'[q].page = reqs[q].page
           /\ reqs'[q].pw = reqs[q].pw /\ reqs'[q].new = reqs[q].new
           /\ reqs'[q].key = reqs[q].key \/ BeginMFA(q) \/ InsertCodes(q)
<1> USE DEF Shaped, Req, Is, Goes, Reply, Wrote
<1>1. CASE LoginReads(q)
  BY <1>1 DEF LoginReads, MaySignIn
<1>2. CASE Rehash(q)
  BY <1>2 DEF Rehash
<1>3. CASE VerifyMFA(q)
  <2>1. reqs[q].at = "mfa" /\ reqs[q].kind = "login" /\ \E out : \E at \in {"clear", "count"} :
            reqs' = [reqs EXCEPT ![q].at = at, ![q].out = out]
    BY <1>3 DEF VerifyMFA
  <2> QED BY <1>3, <2>1
<1>4. CASE CountFailure(q)
  BY <1>4 DEF CountFailure
<1>5. CASE SetExpiry(q)
  BY <1>5 DEF SetExpiry, Fault
<1>6. CASE LockAccount(q)
  BY <1>6 DEF LockAccount
<1>7. CASE ClearLock(q)
  BY <1>7 DEF ClearLock
<1>8. CASE Uncount(q)
  BY <1>8 DEF Uncount
<1>9. CASE StartSession(q)
  BY <1>9 DEF StartSession
<1>10. CASE ConfirmPassword(q)
  BY <1>10 DEF ConfirmPassword
<1>11. CASE Validate(q)
  BY <1>11 DEF Validate
<1>12. CASE TakeLink(q)
  <2>1. CASE Goes(q, "store")
    BY <1>12, <2>1 DEF TakeLink, Taken
  <2>2. CASE Reply(q, "400")
    BY <1>12, <2>2 DEF TakeLink, Taken
  <2> QED BY <1>12, <2>1, <2>2 DEF TakeLink, Taken
<1>13. CASE StorePassword(q)
  BY <1>13 DEF StorePassword
<1>14. CASE RevokeSessions(q)
  BY <1>14 DEF RevokeSessions
<1>15. CASE SetLocked(q)
  <2>1. CASE reqs[q].kind = "lock"
    BY <1>15, <2>1 DEF SetLocked
  <2>2. CASE reqs[q].kind = "unlock"
    BY <1>15, <2>2 DEF SetLocked
  <2> QED BY <1>15, <2>1, <2>2 DEF SetLocked
<1>16. CASE SendLink(q)
  BY <1>16 DEF SendLink
<1>17. CASE ValidateReset(q)
  <2>1. \E out : Reply(q, out)
    BY <1>17 DEF ValidateReset
  <2> QED BY <2>1
<1>18. CASE ConsumeLink(q)
  BY <1>18 DEF ConsumeLink
<1>19. CASE BeginMFA(q)
  BY <1>19 DEF BeginMFA
<1>20. CASE VerifyEnrollment(q)
  BY <1>20 DEF VerifyEnrollment
<1>21. CASE EnableMFA(q)
  BY <1>21 DEF EnableMFA
<1>22. CASE DropPending(q)
  BY <1>22 DEF DropPending
<1>23. CASE DeleteCodes(q)
  <2>1. CASE Reply(q, "400")
    BY <1>23, <2>1 DEF DeleteCodes
  <2>2. CASE reqs' = [reqs EXCEPT ![q].at = "insert", ![q].snap = tokens.code, ![q].over = {}]
    BY <1>23, <2>2 DEF DeleteCodes
  <2> QED BY <1>23, <2>1, <2>2 DEF DeleteCodes
<1>24. CASE InsertCodes(q)
  <2>1. reqs'[q] = [reqs[q] EXCEPT !.at = "answer", !.out = "ok", !.over = {},
                                   !.key = Key("code", issued.code + 1)]
    BY <1>24 DEF InsertCodes
  <2> QED BY <1>24, <2>1
<1>25. CASE LookUpAddress(q)
  <2>1. CASE Reply(q, "409")
    BY <1>25, <2>1 DEF LookUpAddress
  <2>2. CASE Goes(q, "create")
    BY <1>25, <2>2 DEF LookUpAddress
  <2> QED BY <1>25, <2>1, <2>2 DEF LookUpAddress
<1>26. CASE CreateUser(q)
  BY <1>26 DEF CreateUser
<1>27. CASE AnswerElsewhere(q)
  BY <1>27 DEF AnswerElsewhere
<1> QED
  BY <1>1, <1>2, <1>3, <1>4, <1>5, <1>6, <1>7, <1>8, <1>9, <1>10, <1>11, <1>12, <1>13, <1>14,
     <1>15, <1>16, <1>17, <1>18, <1>19, <1>20, <1>21, <1>22, <1>23, <1>24, <1>25, <1>26, <1>27
  DEF Serve, LoginStep, PasswordStep, OtherStep

\* Which statement writes what.
LEMMA Writers ==
    ASSUME Shaped, NEW q \in Slots, Serve(q)
    PROVE  /\ account'.pw = account.pw \/ Rehash(q) \/ StorePassword(q)
           /\ account'.hist = account.hist \/ StorePassword(q)
           /\ account'.locked = account.locked \/ LockAccount(q) \/ ClearLock(q) \/ SetLocked(q)
           /\ account'.mfa = account.mfa \/ EnableMFA(q)
           /\ fails' = fails \/ CountFailure(q) \/ SetExpiry(q) \/ Uncount(q)
           /\ live' = live \/ StartSession(q) \/ RevokeSessions(q)
           /\ tokens'.reset = tokens.reset \/ TakeLink(q) \/ SendLink(q)
           /\ issued'.reset = issued.reset \/ SendLink(q)
           /\ tokens'.code = tokens.code \/ VerifyMFA(q) \/ InsertCodes(q)
           /\ seen.crossed \subseteq seen'.crossed
           /\ seen'.past = seen.past \/ StorePassword(q)
           /\ seen'.used = seen.used \/ StorePassword(q)
           /\ seen'.recent = seen.recent \/ CountFailure(q)
           /\ seen'.admin = seen.admin \/ SetLocked(q)
           /\ seen.confirmed \subseteq seen'.confirmed
           /\ seen'.spent = seen.spent \/ VerifyMFA(q) \/ InsertCodes(q)
<1> USE DEF Shaped, Row, Seen, Tokens, Is, Crosses, Issue
<1>1. CASE LoginReads(q)
  BY <1>1 DEF LoginReads, MaySignIn
<1>2. CASE Rehash(q)
  BY <1>2 DEF Rehash
<1>3. CASE VerifyMFA(q)
  <2>1. /\ UNCHANGED <<account, fails, live, issued>>
        /\ tokens'.reset = tokens.reset
        /\ \E S : seen' = [seen EXCEPT !.spent = S]
    BY <1>3 DEF VerifyMFA
  <2> QED BY <1>3, <2>1
<1>4. CASE CountFailure(q)
  BY <1>4 DEF CountFailure
<1>5. CASE SetExpiry(q)
  BY <1>5 DEF SetExpiry, Fault
<1>6. CASE LockAccount(q)
  BY <1>6 DEF LockAccount
<1>7. CASE ClearLock(q)
  BY <1>7 DEF ClearLock
<1>8. CASE Uncount(q)
  BY <1>8 DEF Uncount
<1>9. CASE StartSession(q)
  BY <1>9 DEF StartSession
<1>10. CASE ConfirmPassword(q)
  BY <1>10 DEF ConfirmPassword
<1>11. CASE Validate(q)
  BY <1>11 DEF Validate
<1>12. CASE TakeLink(q)
  <2>1. CASE Goes(q, "store")
    BY <1>12, <2>1 DEF TakeLink, Taken
  <2>2. CASE Reply(q, "400")
    BY <1>12, <2>2 DEF TakeLink, Taken
  <2> QED BY <1>12, <2>1, <2>2 DEF TakeLink, Taken
<1>13. CASE StorePassword(q)
  BY <1>13 DEF StorePassword
<1>14. CASE RevokeSessions(q)
  BY <1>14 DEF RevokeSessions
<1>15. CASE SetLocked(q)
  <2>1. CASE reqs[q].kind = "lock"
    BY <1>15, <2>1 DEF SetLocked
  <2>2. CASE reqs[q].kind = "unlock"
    BY <1>15, <2>2 DEF SetLocked
  <2> QED BY <1>15, <2>1, <2>2 DEF SetLocked
<1>16. CASE SendLink(q)
  BY <1>16 DEF SendLink
<1>17. CASE ValidateReset(q)
  BY <1>17 DEF ValidateReset
<1>18. CASE ConsumeLink(q)
  BY <1>18 DEF ConsumeLink
<1>19. CASE BeginMFA(q)
  BY <1>19 DEF BeginMFA
<1>20. CASE VerifyEnrollment(q)
  BY <1>20 DEF VerifyEnrollment
<1>21. CASE EnableMFA(q)
  BY <1>21 DEF EnableMFA
<1>22. CASE DropPending(q)
  BY <1>22 DEF DropPending
<1>23. CASE DeleteCodes(q)
  <2>1. CASE Reply(q, "400")
    BY <1>23, <2>1 DEF DeleteCodes
  <2>2. CASE reqs' = [reqs EXCEPT ![q].at = "insert", ![q].snap = tokens.code, ![q].over = {}]
    BY <1>23, <2>2 DEF DeleteCodes
  <2> QED BY <1>23, <2>1, <2>2 DEF DeleteCodes
<1>24. CASE InsertCodes(q)
  BY <1>24 DEF InsertCodes
<1>25. CASE LookUpAddress(q)
  <2>1. CASE Reply(q, "409")
    BY <1>25, <2>1 DEF LookUpAddress
  <2>2. CASE Goes(q, "create")
    BY <1>25, <2>2 DEF LookUpAddress
  <2> QED BY <1>25, <2>1, <2>2 DEF LookUpAddress
<1>26. CASE CreateUser(q)
  BY <1>26 DEF CreateUser
<1>27. CASE AnswerElsewhere(q)
  BY <1>27 DEF AnswerElsewhere
<1> QED
  BY <1>1, <1>2, <1>3, <1>4, <1>5, <1>6, <1>7, <1>8, <1>9, <1>10, <1>11, <1>12, <1>13, <1>14,
     <1>15, <1>16, <1>17, <1>18, <1>19, <1>20, <1>21, <1>22, <1>23, <1>24, <1>25, <1>26, <1>27
  DEF Serve, LoginStep, PasswordStep, OtherStep

\* Which statement leads to which.
LEMMA Stages ==
    ASSUME Shaped, NEW q \in Slots, Serve(q)
    PROVE  /\ reqs'[q].at \notin {"free", "begin"} /\ reqs[q].at \notin {"free", "answer"}
           /\ reqs'[q].at = "rehash" => LoginReads(q)
           /\ reqs'[q].at = "mfa" => LoginReads(q) \/ Rehash(q)
           /\ reqs'[q].at = "count" => LoginReads(q) \/ VerifyMFA(q)
           /\ reqs'[q].at = "clear" => VerifyMFA(q)
           /\ reqs'[q].at = "expire" => CountFailure(q)
           /\ reqs'[q].at = "lock" => CountFailure(q) \/ SetExpiry(q)
           /\ reqs'[q].at = "uncount" => LockAccount(q) \/ ClearLock(q)
           /\ reqs'[q].at = "session" => Uncount(q) \/ ConsumeLink(q)
           /\ reqs'[q].at = "take" => Validate(q)
           /\ reqs'[q].at = "store" => Validate(q) \/ TakeLink(q)
           /\ reqs'[q].at = "enable" => VerifyEnrollment(q)
           /\ reqs'[q].at = "insert" => DeleteCodes(q)
           /\ reqs[q].at = "revoke" => RevokeSessions(q)
           /\ reqs[q].kind = "codes" => DeleteCodes(q) \/ InsertCodes(q)
           /\ reqs[q].at = "expire" => SetExpiry(q)
<1> USE DEF Shaped, Req, Is, Goes, Reply, Wrote
<1>1. CASE LoginReads(q)
  BY <1>1 DEF LoginReads, MaySignIn
<1>2. CASE Rehash(q)
  BY <1>2 DEF Rehash
<1>3. CASE VerifyMFA(q)
  <2>1. reqs[q].at = "mfa" /\ reqs[q].kind = "login" /\ \E out : \E at \in {"clear", "count"} :
            reqs' = [reqs EXCEPT ![q].at = at, ![q].out = out]
    BY <1>3 DEF VerifyMFA
  <2> QED BY <1>3, <2>1
<1>4. CASE CountFailure(q)
  BY <1>4 DEF CountFailure
<1>5. CASE SetExpiry(q)
  BY <1>5 DEF SetExpiry, Fault
<1>6. CASE LockAccount(q)
  BY <1>6 DEF LockAccount
<1>7. CASE ClearLock(q)
  BY <1>7 DEF ClearLock
<1>8. CASE Uncount(q)
  BY <1>8 DEF Uncount
<1>9. CASE StartSession(q)
  BY <1>9 DEF StartSession
<1>10. CASE ConfirmPassword(q)
  BY <1>10 DEF ConfirmPassword
<1>11. CASE Validate(q)
  BY <1>11 DEF Validate
<1>12. CASE TakeLink(q)
  <2>1. CASE Goes(q, "store")
    BY <1>12, <2>1 DEF TakeLink, Taken
  <2>2. CASE Reply(q, "400")
    BY <1>12, <2>2 DEF TakeLink, Taken
  <2> QED BY <1>12, <2>1, <2>2 DEF TakeLink, Taken
<1>13. CASE StorePassword(q)
  BY <1>13 DEF StorePassword
<1>14. CASE RevokeSessions(q)
  BY <1>14 DEF RevokeSessions
<1>15. CASE SetLocked(q)
  <2>1. CASE reqs[q].kind = "lock"
    BY <1>15, <2>1 DEF SetLocked
  <2>2. CASE reqs[q].kind = "unlock"
    BY <1>15, <2>2 DEF SetLocked
  <2> QED BY <1>15, <2>1, <2>2 DEF SetLocked
<1>16. CASE SendLink(q)
  BY <1>16 DEF SendLink
<1>17. CASE ValidateReset(q)
  BY <1>17 DEF ValidateReset
<1>18. CASE ConsumeLink(q)
  BY <1>18 DEF ConsumeLink
<1>19. CASE BeginMFA(q)
  BY <1>19 DEF BeginMFA
<1>20. CASE VerifyEnrollment(q)
  BY <1>20 DEF VerifyEnrollment
<1>21. CASE EnableMFA(q)
  BY <1>21 DEF EnableMFA
<1>22. CASE DropPending(q)
  BY <1>22 DEF DropPending
<1>23. CASE DeleteCodes(q)
  <2>1. CASE Reply(q, "400")
    BY <1>23, <2>1 DEF DeleteCodes
  <2>2. CASE reqs' = [reqs EXCEPT ![q].at = "insert", ![q].snap = tokens.code, ![q].over = {}]
    BY <1>23, <2>2 DEF DeleteCodes
  <2> QED BY <1>23, <2>1, <2>2 DEF DeleteCodes
<1>24. CASE InsertCodes(q)
  <2>1. reqs'[q] = [reqs[q] EXCEPT !.at = "answer", !.out = "ok", !.over = {},
                                   !.key = Key("code", issued.code + 1)]
    BY <1>24 DEF InsertCodes
  <2>2. reqs[q].at = "insert"
    BY <1>24 DEF InsertCodes
  <2> QED BY <1>24, <2>1, <2>2
<1>25. CASE LookUpAddress(q)
  <2>1. CASE Reply(q, "409")
    BY <1>25, <2>1 DEF LookUpAddress
  <2>2. CASE Goes(q, "create")
    BY <1>25, <2>2 DEF LookUpAddress
  <2> QED BY <1>25, <2>1, <2>2 DEF LookUpAddress
<1>26. CASE CreateUser(q)
  BY <1>26 DEF CreateUser
<1>27. CASE AnswerElsewhere(q)
  BY <1>27 DEF AnswerElsewhere
<1> QED
  BY <1>1, <1>2, <1>3, <1>4, <1>5, <1>6, <1>7, <1>8, <1>9, <1>10, <1>11, <1>12, <1>13, <1>14,
     <1>15, <1>16, <1>17, <1>18, <1>19, <1>20, <1>21, <1>22, <1>23, <1>24, <1>25, <1>26, <1>27
  DEF Serve, LoginStep, PasswordStep, OtherStep

\* A request fails: nothing is written.
LEMMA Failures ==
    ASSUME Shaped, NEW q \in Slots, Refuse(q) \/ Break(q)
    PROVE  /\ UNCHANGED <<account, fails, live, tokens, issued>>
           /\ \A p \in Slots : p # q => Same(p) /\ reqs'[p].page = reqs[p].page
           /\ reqs'[q].at = "answer" /\ reqs'[q].out # "ok" /\ reqs'[q].page = reqs[q].page
           /\ reqs'[q].kind = reqs[q].kind /\ reqs'[q].key = reqs[q].key
           /\ reqs[q].at # "free" /\ reqs[q].at # "expire" /\ reqs[q].at # "answer"
           /\ \/ seen' = seen /\ reqs[q].at # "revoke"
              \/ seen' = [seen EXCEPT !.crossed = @ \cup {"undone"}]
<1>1. PICK out \in {"429", "wait", "500"} : Reply(q, out)
  BY DEF Refuse, Break
<1>2. \A p \in Slots : p # q => Same(p) /\ reqs'[p].page = reqs[p].page
  BY <1>1 DEF Reply, Shaped, Req, Same
<1>3. reqs'[q] = [reqs[q] EXCEPT !.at = "answer", !.out = out]
  BY <1>1 DEF Reply, Shaped
<1>4. /\ reqs'[q].at = "answer" /\ reqs'[q].out # "ok" /\ reqs'[q].page = reqs[q].page
      /\ reqs'[q].kind = reqs[q].kind /\ reqs'[q].key = reqs[q].key
  BY <1>3 DEF Shaped, Req
<1>5. CASE Refuse(q)
  BY <1>2, <1>4, <1>5 DEF Refuse, Is
<1>6. CASE Break(q)
  BY <1>2, <1>4, <1>6 DEF Break
<1> QED BY <1>5, <1>6

\* The tab takes answers and sends requests; those of others and those in the middle stay.
LEMMA TabMoves ==
    ASSUME Shaped, TabMove
    PROVE  /\ seen'.crossed \in {seen.crossed, seen.crossed \cup {"codes"}}
           /\ seen'.past = seen.past /\ seen'.recent = seen.recent /\ seen'.admin = seen.admin
           /\ seen'.used = seen.used /\ seen'.confirmed = seen.confirmed /\ seen'.spent = seen.spent
           /\ \A p \in Slots :
                 \/ Same(p)
                 \/ reqs[p].at = "answer" /\ reqs'[p].at = "free" /\ reqs'[p].kind = "none"
                 \/ /\ reqs[p].at = "free" /\ reqs'[p].at = "begin" /\ reqs'[p].over = {}
                    /\ reqs'[p].kind = "reset" => reqs'[p].key = Key("link", 1)
<1>1. seen' = seen \/ seen' = [seen EXCEPT !.crossed = @ \cup {"codes"}]
  BY DEF TabMove
<1>2. ASSUME NEW p \in Slots
      PROVE  \/ Same(p)
             \/ reqs[p].at = "answer" /\ reqs'[p].at = "free" /\ reqs'[p].kind = "none"
             \/ /\ reqs[p].at = "free" /\ reqs'[p].at = "begin" /\ reqs'[p].over = {}
                /\ reqs'[p].kind = "reset" => reqs'[p].key = Key("link", 1)
  <2>1. CASE reqs'[p] = reqs[p]
    BY <2>1 DEF Same
  <2>2. CASE reqs'[p] = [reqs[p] EXCEPT !.page = "gone"]
    BY <2>2 DEF Same, Shaped, Req
  <2>3. CASE reqs[p].at = "answer" /\ reqs'[p] = Free
    BY <2>3 DEF Free
  <2>4. CASE Sent(p)
    BY <2>4 DEF Sent, Asked, Free
  <2> QED BY <2>1, <2>2, <2>3, <2>4 DEF TabMove
<1> QED BY <1>1, <1>2 DEF Shaped, Seen

-----------------------------------------------------------------------------
(* The administrator's lock                                                *)

\* A sign-in that has passed the check of the lock, and one that an administrator has locked
\* since, which its last statements will undo.
Passed(q) ==
    reqs[q].at \in {"rehash", "mfa", "count", "expire", "lock", "clear"} =>
        "lock" \in reqs[q].over \/ ~seen.admin \/ "lock" \in seen.crossed

AdminInv == AdminLockStays /\ \A q \in Slots : Passed(q)

\* Every statement keeps AdminInv.
LEMMA ServeKeepsAdmin ==
    ASSUME Shaped, AdminInv, NEW q \in Slots, Serve(q) PROVE AdminInv'
<1>1. ASSUME NEW p \in Slots, p # q PROVE Passed(p)'
  <2>1. Same(p) /\ Passed(p)
    BY <1>1, OthersStay DEF AdminInv
  <2>2. CASE SetLocked(q)
    <3>1. CASE reqs[q].kind = "lock"
      BY <1>1, <2>1, <2>2, <3>1 DEF SetLocked, Wrote, Passed, Same, Shaped, Req
    <3>2. CASE reqs[q].kind = "unlock"
      BY <2>2, <3>2 DEF SetLocked, Passed, Shaped, Seen
    <3> QED BY <2>2, <3>1, <3>2 DEF SetLocked, Is
  <2> QED BY <2>1, <2>2, Writers DEF Passed, Same
<1>2. Passed(q)'
  <2> USE DEF AdminInv, Passed, AdminLockStays, Is, Goes, Shaped, Req, Row, Seen
  <2>1. CASE LoginReads(q)
    BY <2>1 DEF LoginReads, MaySignIn
  <2>2. CASE Rehash(q)
    BY <2>2 DEF Rehash, Crosses
  <2>3. CASE VerifyMFA(q)
    BY <2>3 DEF VerifyMFA
  <2>4. CASE CountFailure(q)
    BY <2>4 DEF CountFailure
  <2>5. CASE SetExpiry(q)
    BY <2>5 DEF SetExpiry
  <2> QED BY <2>1, <2>2, <2>3, <2>4, <2>5, Stages
<1>3. AdminLockStays'
  <2> USE DEF AdminInv, Passed, AdminLockStays, Is, Shaped, Req, Row, Seen, Crosses
  <2>1. CASE LockAccount(q)
    BY <2>1 DEF LockAccount
  <2>2. CASE ClearLock(q)
    BY <2>2 DEF ClearLock
  <2>3. CASE SetLocked(q)
    BY <2>3 DEF SetLocked
  <2>4. CASE ~(LockAccount(q) \/ ClearLock(q) \/ SetLocked(q))
    <3> HIDE DEF Is, Shaped, Req, Row, Seen, Crosses, Passed
    <3>1. /\ account'.locked = account.locked /\ seen'.admin = seen.admin
          /\ seen.crossed \subseteq seen'.crossed
      BY <2>4, Writers
    <3> QED BY <3>1
  <2> QED BY <2>1, <2>2, <2>3, <2>4
<1> QED BY <1>1, <1>2, <1>3 DEF AdminInv

\* An administrator's lock holds until an administrator takes it back, unless a sign-in that
\* had read the account before was still on its way (clearing or setting locked_until).
THEOREM AdminLocksStay == Spec => []AdminLockStays
<1>1. Init => AdminInv
  BY DEF Init, SignInInit, CredentialsInit, AdminInv, Passed, AdminLockStays, Free
<1>2. ASSUME Shaped, AdminInv, [Next]_pagesVars PROVE AdminInv'
  <2> USE DEF AdminInv, Passed, AdminLockStays
  <2>1. ASSUME NEW q \in Slots, Refuse(q) \/ Break(q) PROVE AdminInv'
    BY <1>2, <2>1, Failures DEF Same, Shaped, Seen
  <2>2. CASE WindowPasses \/ LockPasses
    BY <1>2, <2>2 DEF WindowPasses, LockPasses, Shaped, Row, Seen
  <2>3. CASE TabMove
    BY <1>2, <2>3, TabMoves DEF TabMove, Same
  <2> HIDE DEF AdminInv
  <2> QED BY <1>2, <2>1, <2>2, <2>3, Steps, ServeKeepsAdmin
<1>3. AdminInv => AdminLockStays
  BY DEF AdminInv
<1> QED BY <1>1, <1>2, <1>3, ShapeKept, PTL DEF Spec

-----------------------------------------------------------------------------
(* The sessions of a replaced password                                     *)

\* A sign-in on its way to a session has checked the password of now, unless one was stored
\* meanwhile or a rehash has brought an old one back; one on its way to a refusal has no
\* answer yet.
Knows(q) ==
    /\ reqs[q].at \in {"rehash", "mfa", "count", "expire", "lock"} => reqs[q].out # "ok"
    /\ \/ reqs[q].at \in {"rehash", "mfa", "clear"}
       \/ reqs[q].at = "uncount" /\ reqs[q].out = "ok"
       \/ reqs[q].at = "session" /\ reqs[q].kind = "login"
       => \/ reqs[q].pw = account.pw
          \/ "password" \in reqs[q].over
          \/ "rehash" \in seen.crossed

SessionInv == SessionsFollowPassword /\ \A q \in Slots : Knows(q)

\* Every statement keeps SessionInv.
LEMMA ServeKeepsSessions ==
    ASSUME Shaped, SessionInv, NEW q \in Slots, Serve(q) PROVE SessionInv'
<1>1. account'.pw = account.pw \/ StorePassword(q) \/ "rehash" \in seen'.crossed
  <2>1. CASE Rehash(q)
    BY <2>1 DEF Rehash, Is, SessionInv, Knows, Shaped, Req, Row, Seen, Crosses
  <2> QED BY <2>1, Writers
<1>2. ASSUME NEW p \in Slots, p # q PROVE Knows(p)'
  <2>1. Same(p) /\ Knows(p)
    BY <1>2, OthersStay DEF SessionInv
  <2>2. CASE StorePassword(q)
    <3>1. reqs[p].at # "free" => "password" \in reqs'[p].over
      BY <1>2, <2>2 DEF StorePassword, Wrote, Shaped, Req
    <3> QED BY <2>1, <3>1 DEF Knows, Same
  <2> QED BY <1>1, <2>1, <2>2, Writers DEF Knows, Same
<1>3. Knows(q)'
  <2> USE DEF SessionInv, Knows, Is, Goes, Shaped, Req, Row, Seen
  <2>1. CASE LoginReads(q)
    BY <2>1 DEF LoginReads, MaySignIn
  <2>2. CASE Rehash(q)
    BY <2>2 DEF Rehash, Crosses
  <2>3. CASE VerifyMFA(q)
    <3>1. \E out : \E at \in {"clear", "count"} :
              /\ reqs' = [reqs EXCEPT ![q].at = at, ![q].out = out]
              /\ out \in {"mfa", reqs[q].out}
      BY <2>3 DEF VerifyMFA
    <3>2. reqs[q].at = "mfa" /\ account' = account /\ seen'.crossed = seen.crossed
      BY <2>3 DEF VerifyMFA
    <3> QED BY <3>1, <3>2
  <2>4. CASE CountFailure(q)
    BY <2>4 DEF CountFailure
  <2>5. CASE SetExpiry(q)
    BY <2>5 DEF SetExpiry
  <2>6. CASE LockAccount(q)
    BY <2>6 DEF LockAccount
  <2>7. CASE ClearLock(q)
    BY <2>7 DEF ClearLock, Crosses
  <2>8. CASE Uncount(q)
    BY <2>8 DEF Uncount
  <2>9. CASE ConsumeLink(q)
    <3>1. reqs'[q].kind = "consume" /\ reqs'[q].at \in {"session", "answer"}
      BY <2>9 DEF ConsumeLink, Reply
    <3> QED BY <3>1
  <2> QED BY <2>1, <2>2, <2>3, <2>4, <2>5, <2>6, <2>7, <2>8, <2>9, Stages
<1>4. SessionsFollowPassword'
  <2> USE DEF SessionInv, SessionsFollowPassword
  <2>1. CASE StorePassword(q)
    <3>1. reqs'[q].at = "revoke"
      BY <2>1 DEF StorePassword, Wrote, Shaped, Req
    <3> QED BY <3>1
  <2>2. CASE RevokeSessions(q)
    BY <2>2 DEF RevokeSessions, Ended
  <2>3. CASE StartSession(q)
    <3>1. \/ live' \subseteq live \cup {account'.pw, ByLink}
          \/ seen'.crossed \cap {"session", "rehash"} # {}
      BY <2>3 DEF StartSession, Is, Knows, Crosses, Shaped, Req, Seen
    <3>2. seen.crossed \subseteq seen'.crossed
      BY Writers
    <3>3. \A p \in Slots : reqs[p].at = "revoke" => reqs'[p].at = "revoke"
      BY <2>3, OthersStay DEF StartSession, Is, Same
    <3>4. account'.pw = account.pw
      BY <2>3 DEF StartSession
    <3> QED BY <3>1, <3>2, <3>3, <3>4
  <2>4. CASE live' = live /\ ~StorePassword(q) /\ ~RevokeSessions(q)
    <3>1. \A p \in Slots : reqs[p].at = "revoke" => reqs'[p].at = "revoke"
      BY <2>4, OthersStay, Stages DEF Same
    <3> QED BY <1>1, <2>4, <3>1, Writers
  <2> QED BY <2>1, <2>2, <2>3, <2>4, Writers
<1> QED BY <1>2, <1>3, <1>4 DEF SessionInv

\* The sessions' invariant holds throughout.
LEMMA SessionsHold == Spec => []SessionInv
<1>1. Init => SessionInv
  BY DEF Init, SignInInit, CredentialsInit, SessionInv, Knows, SessionsFollowPassword, Free
<1>2. ASSUME Shaped, SessionInv, [Next]_pagesVars PROVE SessionInv'
  <2> USE DEF SessionInv, Knows, SessionsFollowPassword
  <2>1. ASSUME NEW q \in Slots, Refuse(q) \/ Break(q) PROVE SessionInv'
    BY <1>2, <2>1, Failures DEF Same, Shaped, Seen
  <2>2. CASE WindowPasses \/ LockPasses
    BY <1>2, <2>2 DEF WindowPasses, LockPasses, Shaped, Row, Seen
  <2>3. CASE TabMove
    BY <1>2, <2>3, TabMoves DEF TabMove, Same
  <2> HIDE DEF SessionInv
  <2> QED BY <1>2, <2>1, <2>2, <2>3, Steps, ServeKeepsSessions
<1> QED BY <1>1, <1>2, ShapeKept, PTL DEF Spec

\* Once a replaced password's sessions are revoked none is left, unless a sign-in that had read
\* the old row was on its way, the revocation failed, or a rehash brought the old password back.
THEOREM SessionsEnd == Spec => []SessionsFollowPassword
<1>1. SessionInv => SessionsFollowPassword
  BY DEF SessionInv
<1> QED BY <1>1, SessionsHold, PTL

-----------------------------------------------------------------------------
(* Old passwords                                                           *)

\* As long as no replacement has crossed a write: the history of the row is the history of the
\* run, and a replacement that has been checked was checked against them.
Checked(q) ==
    reqs[q].at \in {"take", "store"} =>
        \/ "password" \in reqs[q].over
        \/ /\ reqs[q].row.pw = account.pw /\ reqs[q].row.hist = account.hist
           /\ reqs[q].new \notin Recent(account)

HistoryInv ==
    \/ seen.crossed \cap {"replace", "rehash"} # {}
    \/ account.hist = seen.past /\ \A q \in Slots : Checked(q)

\* Every statement keeps HistoryInv or crosses another request.
LEMMA ServeKeepsHistory ==
    ASSUME Shaped, SessionInv, HistoryInv, NEW q \in Slots, Serve(q)
    PROVE  /\ HistoryInv'
           /\ account'.pw # account.pw =>
                  \/ account'.pw \notin ToSet(seen.past)
                  \/ seen'.crossed \cap {"replace", "rehash"} # {}
<1> SUFFICES ASSUME seen'.crossed \cap {"replace", "rehash"} = {}
             PROVE  /\ account'.hist = seen'.past /\ \A p \in Slots : Checked(p)'
                    /\ account'.pw # account.pw => account'.pw \notin ToSet(seen.past)
  BY DEF HistoryInv
<1>1. account.hist = seen.past /\ \A p \in Slots : Checked(p)
  BY Writers DEF HistoryInv
<1>2. account'.pw = account.pw \/ StorePassword(q)
  <2>1. CASE Rehash(q)
    BY <2>1 DEF Rehash, Is, SessionInv, Knows, Shaped, Req, Row, Seen, Crosses
  <2> QED BY <2>1, Writers
<1>3. CASE StorePassword(q)
  <2>1. "password" \notin reqs[q].over
    BY <1>3 DEF StorePassword, Crosses, Shaped, Seen
  <2>2. reqs[q].at = "store" /\ account'.pw = reqs[q].new /\ account'.hist = Remembers(reqs[q].row)
    BY <1>3 DEF StorePassword, Is, Shaped, Row
  <2>3. /\ reqs[q].row.pw = account.pw /\ reqs[q].row.hist = account.hist
        /\ reqs[q].new \notin Recent(account)
    BY <1>1, <2>1, <2>2 DEF Checked
  <2>4. seen'.past = Newest(<<account.pw>> \o seen.past, History)
    BY <1>3 DEF StorePassword, Crosses, Shaped, Seen
  <2>5. account'.hist = seen'.past
    BY <1>1, <2>2, <2>3, <2>4 DEF Remembers
  <2>6. reqs'[q].at = "revoke"
    BY <1>3 DEF StorePassword, Wrote, Shaped, Req
  <2>7. ASSUME NEW p \in Slots, p # q PROVE Checked(p)'
    <3>1. reqs[p].at # "free" => "password" \in reqs'[p].over
      BY <1>3, <2>7 DEF StorePassword, Wrote, Shaped, Req
    <3> QED BY <2>7, <3>1, OthersStay DEF Checked, Same
  <2>8. account'.pw \notin ToSet(seen.past)
    BY <1>1, <2>2, <2>3 DEF Recent
  <2> QED BY <2>5, <2>6, <2>7, <2>8 DEF Checked
<1>4. CASE ~StorePassword(q)
  <2>1. account'.pw = account.pw /\ account'.hist = account.hist /\ seen'.past = seen.past
    BY <1>2, <1>4, Writers
  <2>2. ASSUME NEW p \in Slots, p # q PROVE Checked(p)'
    BY <1>1, <2>1, <2>2, OthersStay DEF Checked, Same, Recent
  <2>3. ASSUME Validate(q) PROVE Checked(q)'
    <3>1. /\ reqs'[q].row = account /\ reqs'[q].new = reqs[q].new
          /\ reqs'[q].at \in {"take", "store"} => reqs[q].new \notin Recent(account)
      BY <2>3 DEF Validate, Shaped, Req
    <3>2. account' = account
      BY <2>3 DEF Validate
    <3> QED BY <3>1, <3>2 DEF Checked
  <2>4. ASSUME TakeLink(q) PROVE Checked(q)'
    <3>1. CASE Goes(q, "store")
      BY <1>1, <2>1, <2>4, <3>1 DEF TakeLink, Is, Goes, Checked, Recent, Shaped, Req
    <3>2. CASE Reply(q, "400")
      <4>1. reqs'[q].at = "answer"
        BY <3>2 DEF Reply, Shaped, Req
      <4> QED BY <4>1 DEF Checked
    <3> QED BY <2>4, <3>1, <3>2 DEF TakeLink
  <2>5. Checked(q)'
    BY <2>3, <2>4, Stages DEF Checked
  <2> QED BY <1>1, <2>1, <2>2, <2>5
<1> QED BY <1>3, <1>4

\* Nothing but a statement touches the password and its history.
LEMMA OthersKeepHistory ==
    ASSUME Shaped, HistoryInv,
           (\E q \in Slots : Refuse(q) \/ Break(q)) \/ WindowPasses \/ LockPasses \/ TabMove
    PROVE  HistoryInv' /\ account'.pw = account.pw
<1>1. ASSUME NEW q \in Slots, Refuse(q) \/ Break(q) PROVE HistoryInv' /\ account'.pw = account.pw
  BY <1>1, Failures DEF HistoryInv, Checked, Same, Shaped, Seen
<1>2. CASE WindowPasses \/ LockPasses
  BY <1>2 DEF WindowPasses, LockPasses, HistoryInv, Checked, Recent, Shaped, Row, Seen
<1>3. CASE TabMove
  BY <1>3, TabMoves DEF TabMove, HistoryInv, Checked, Same
<1> QED BY <1>1, <1>2, <1>3

\* No password comes back while it is among the last ones the account has had, unless two
\* replacements, or one and the rehash of a sign-in, overlapped.
THEOREM OldPasswordsStayOut == Spec => NoRecentReuse
<1>1. Init => HistoryInv
  BY DEF Init, SignInInit, CredentialsInit, HistoryInv, Checked, Free, FirstRow
<1>2. ASSUME Shaped, SessionInv, HistoryInv, [Next]_pagesVars
      PROVE  /\ HistoryInv'
             /\ account'.pw # account.pw =>
                    \/ account'.pw \notin ToSet(seen.past)
                    \/ seen'.crossed \cap {"replace", "rehash"} # {}
  BY <1>2, Steps, ServeKeepsHistory, OthersKeepHistory
<1>3. Spec => []SessionInv
  BY SessionsHold
<1> QED BY <1>1, <1>2, <1>3, ShapeKept, PTL DEF Spec, NoRecentReuse

-----------------------------------------------------------------------------
(* The lock after failures                                                 *)

\* As long as no EXPIRE was lost: the counter knows no more failures than there were in this
\* window, it will lapse or a sign-in is about to say so, and a sign-in about to lock the
\* account has counted the last one allowed.
Counts ==
    /\ fails.n \in Nat /\ fails.lapses \in BOOLEAN
    /\ seen.recent \in Nat /\ seen.recent <= MaxAttempts
NoMore == fails.n <= seen.recent \/ seen.recent = MaxAttempts
WillLapse == fails.n > 0 /\ ~fails.lapses => \E q \in Slots : reqs[q].at = "expire"
Counted(q) ==
    /\ reqs[q].at = "expire" => seen.recent >= 1
    /\ reqs[q].at = "lock" => seen.recent = MaxAttempts

CountInv ==
    /\ Counts
    /\ "expiry" \notin seen.crossed => NoMore /\ WillLapse /\ \A q \in Slots : Counted(q)

\* Every statement keeps CountInv.
LEMMA ServeKeepsCount ==
    ASSUME Shaped, CountInv, NEW q \in Slots, Serve(q) PROVE CountInv'
<1> USE CredentialsAssumption
<1>1. \A p \in Slots : p # q => reqs'[p].at = reqs[p].at
  BY OthersStay DEF Same
<1>2. CASE CountFailure(q)
  <2>1. fails' = [n |-> fails.n + 1, lapses |-> fails.n > 0 /\ fails.lapses]
    BY <1>2 DEF CountFailure
  <2>2. /\ seen.recent < MaxAttempts => seen'.recent = seen.recent + 1
        /\ ~(seen.recent < MaxAttempts) => seen'.recent = seen.recent
        /\ seen'.crossed = seen.crossed
    BY <1>2 DEF CountFailure, Shaped, Seen
  <2>3. /\ reqs[q].at = "count" /\ fails.n = 0 => reqs'[q].at = "expire"
        /\ fails.n > 0 => reqs'[q].at \in {"lock", "answer"}
        /\ reqs'[q].at = "lock" => fails.n + 1 >= MaxAttempts
    BY <1>2 DEF CountFailure, Is, Goes, AtLimit, CountInv, Counts, Shaped, Req
  <2>4. Counts'
    BY <2>1, <2>2 DEF CountInv, Counts
  <2>5. NoMore => NoMore' /\ Counted(q)'
    BY <2>1, <2>2, <2>3 DEF CountInv, Counts, NoMore, Counted
  <2>6. ASSUME NEW p \in Slots, p # q, Counted(p) PROVE Counted(p)'
    BY <1>1, <2>2, <2>6 DEF CountInv, Counts, Counted
  <2>7. WillLapse => WillLapse'
    <3>1. CASE fails.n = 0
      BY <1>2, <2>3, <3>1 DEF WillLapse, CountFailure, Is
    <3>2. CASE fails.n > 0
      <4>1. fails'.lapses = fails.lapses
        BY <2>1, <3>2 DEF CountInv, Counts
      <4>2. reqs[q].at # "expire"
        BY <1>2 DEF CountFailure, Is
      <4> QED BY <1>1, <3>2, <4>1, <4>2 DEF WillLapse
    <3> QED BY <3>1, <3>2 DEF CountInv, Counts
  <2>8. NoMore /\ (\A p \in Slots : Counted(p)) => \A p \in Slots : Counted(p)'
    BY <2>5, <2>6
  <2> HIDE DEF Counts, NoMore, WillLapse, Counted
  <2> QED BY <2>2, <2>4, <2>5, <2>7, <2>8 DEF CountInv
<1>3. CASE SetExpiry(q)
  <2>1. /\ reqs[q].at = "expire" /\ reqs'[q].at \in {"lock", "answer"}
        /\ reqs'[q].at = "lock" => 1 >= MaxAttempts
    BY <1>3 DEF SetExpiry, Is, Goes, AtLimit, Shaped, Req
  <2>2. CASE fails' = [fails EXCEPT !.lapses = fails.n > 0] /\ seen' = seen
    <3>1. /\ fails'.n = fails.n
          /\ fails.n > 0 => fails'.lapses = TRUE
          /\ ~(fails.n > 0) => fails'.lapses = FALSE
      <4>1. CASE fails.n > 0
        <5>1. fails' = [fails EXCEPT !.lapses = TRUE]
          BY <2>2, <4>1
        <5> QED BY <4>1, <5>1 DEF Shaped
      <4>2. CASE ~(fails.n > 0)
        <5>1. (fails.n > 0) = FALSE
          BY <4>2
        <5>2. fails' = [fails EXCEPT !.lapses = FALSE]
          BY <2>2, <5>1, Zenon
        <5> QED BY <4>2, <5>2 DEF Shaped
      <4> QED BY <4>1, <4>2
    <3>2. Counts' /\ (NoMore => NoMore') /\ WillLapse'
      BY <2>2, <3>1 DEF CountInv, Counts, NoMore, WillLapse
    <3>3. Counted(q) => Counted(q)'
      BY <2>1, <2>2 DEF CountInv, Counts, Counted
    <3>4. \A p \in Slots : Counted(p) => Counted(p)'
      BY <1>1, <2>2, <3>3 DEF Counted
    <3> QED BY <2>2, <3>2, <3>4 DEF CountInv
  <2>3. CASE fails' = fails /\ seen' = [seen EXCEPT !.crossed = @ \cup {"expiry"}]
    <3>1. seen'.recent = seen.recent /\ "expiry" \in seen'.crossed
      BY <2>3 DEF Shaped, Seen
    <3> QED BY <2>3, <3>1 DEF CountInv, Counts
  <2> QED BY <1>3, <2>2, <2>3 DEF SetExpiry
<1>4. CASE Uncount(q)
  <2>1. fails' = [n |-> 0, lapses |-> FALSE] /\ seen' = seen
    BY <1>4 DEF Uncount
  <2>2. reqs'[q].at \notin {"expire", "lock"}
    BY <1>4 DEF Uncount, Goes, Shaped, Req
  <2>3. Counts' /\ NoMore' /\ WillLapse'
    BY <2>1 DEF CountInv, Counts, NoMore, WillLapse
  <2>4. \A p \in Slots : Counted(p) => Counted(p)'
    BY <1>1, <2>1, <2>2 DEF Counted
  <2> QED BY <2>1, <2>3, <2>4 DEF CountInv
<1>5. CASE ~(CountFailure(q) \/ SetExpiry(q) \/ Uncount(q))
  <2>1. fails' = fails /\ seen'.recent = seen.recent /\ seen.crossed \subseteq seen'.crossed
    BY <1>5, Writers
  <2>2. reqs'[q].at \notin {"expire", "lock"} /\ reqs[q].at # "expire"
    BY <1>5, Stages
  <2> QED BY <1>1, <2>1, <2>2 DEF CountInv, Counts, NoMore, WillLapse, Counted
<1> QED BY <1>2, <1>3, <1>4, <1>5

\* A lapsed window starts the count anew, and no step but a statement locks the account.
LEMMA OthersKeepCount ==
    ASSUME Shaped, CountInv,
           (\E q \in Slots : Refuse(q) \/ Break(q)) \/ WindowPasses \/ LockPasses \/ TabMove
    PROVE  CountInv' /\ (account'.locked = "while" => account.locked = "while")
<1> USE CredentialsAssumption
<1>1. ASSUME NEW q \in Slots, Refuse(q) \/ Break(q) PROVE CountInv' /\ account' = account
  <2>1. /\ account' = account /\ fails' = fails /\ seen'.recent = seen.recent
        /\ seen.crossed \subseteq seen'.crossed
        /\ reqs'[q].at = "answer" /\ reqs[q].at # "expire"
        /\ \A p \in Slots : p # q => reqs'[p].at = reqs[p].at
    BY <1>1, Failures DEF Same, Shaped, Seen
  <2> QED BY <2>1 DEF CountInv, Counts, NoMore, WillLapse, Counted
<1>2. CASE WindowPasses
  <2>1. /\ account' = account /\ reqs' = reqs /\ seen'.recent = 0 /\ seen'.crossed = seen.crossed
        /\ fails' = IF fails.lapses THEN [n |-> 0, lapses |-> FALSE] ELSE fails
        /\ \A q \in Slots : reqs[q].at \in {"free", "answer"}
    BY <1>2 DEF WindowPasses, Running, Shaped, Seen
  <2>2. Counts'
    <3>1. CASE fails.lapses
      BY <2>1, <3>1 DEF CountInv, Counts
    <3>2. CASE ~fails.lapses
      BY <2>1, <3>2 DEF CountInv, Counts
    <3> QED BY <3>1, <3>2
  <2>3. WillLapse => NoMore' /\ WillLapse'
    BY <2>1 DEF CountInv, Counts, NoMore, WillLapse
  <2>4. \A q \in Slots : Counted(q)'
    BY <2>1 DEF Counted
  <2> QED BY <2>1, <2>2, <2>3, <2>4 DEF CountInv
<1>3. CASE LockPasses
  BY <1>3 DEF LockPasses, CountInv, Counts, NoMore, WillLapse, Counted, Shaped, Row
<1>4. CASE TabMove
  <2>1. /\ account' = account /\ fails' = fails /\ seen'.recent = seen.recent
        /\ "expiry" \in seen.crossed => "expiry" \in seen'.crossed
        /\ \A p \in Slots :
              reqs'[p].at # reqs[p].at => reqs[p].at # "expire" /\ reqs'[p].at \in {"free", "begin"}
    <3>1. account' = account /\ fails' = fails
      BY <1>4 DEF TabMove
    <3>2. seen'.recent = seen.recent /\ ("expiry" \in seen.crossed => "expiry" \in seen'.crossed)
      BY <1>4, TabMoves
    <3>3. \A p \in Slots :
              reqs'[p].at # reqs[p].at => reqs[p].at # "expire" /\ reqs'[p].at \in {"free", "begin"}
      BY <1>4, TabMoves DEF Same
    <3> QED BY <3>1, <3>2, <3>3
  <2> QED BY <2>1 DEF CountInv, Counts, NoMore, WillLapse, Counted
<1> QED BY <1>1, <1>2, <1>3, <1>4

\* An account is locked for a while only after MaxAttempts failures within one window, unless
\* the EXPIRE of a window's first failure was lost.
THEOREM LocksAreEarned == Spec => EarnedLock
<1>1. Init => CountInv
  BY CredentialsAssumption
  DEF Init, SignInInit, CredentialsInit, CountInv, Counts, NoMore, WillLapse, Counted, Free
<1>2. ASSUME Shaped, CountInv, [Next]_pagesVars
      PROVE  /\ CountInv'
             /\ account.locked # "while" /\ account'.locked = "while" =>
                    seen.recent = MaxAttempts \/ "expiry" \in seen.crossed
  <2>1. ASSUME NEW q \in Slots, Serve(q), account.locked # "while", account'.locked = "while"
        PROVE  seen.recent = MaxAttempts \/ "expiry" \in seen.crossed
    <3>1. LockAccount(q)
      BY <1>2, <2>1, Writers DEF ClearLock, SetLocked, Is, Shaped, Row
    <3> QED BY <1>2, <2>1, <3>1 DEF LockAccount, Is, CountInv, Counted
  <2> QED BY <1>2, <2>1, Steps, ServeKeepsCount, OthersKeepCount
<1> QED BY <1>1, <1>2, ShapeKept, PTL DEF Spec, EarnedLock

-----------------------------------------------------------------------------
(* Reset links                                                             *)

Storing(q) == reqs[q].at = "store" /\ reqs[q].kind = "reset"

\* The only link a request can carry has been used if it is gone and nobody is storing a
\* password with it; at most one is.
ResetInv ==
    /\ issued.reset \in Nat /\ issued.reset >= 1
    /\ \A q \in Slots : reqs[q].kind = "reset" => reqs[q].key = Key("link", 1)
    /\ seen.used = [n \in 1..2 |-> seen.used[n]]
    /\ seen.used[1] \in {0, 1} /\ seen.used[2] = 0
    /\ 1 \in tokens.reset => seen.used[1] = 0
    /\ \A q \in Slots : Storing(q) => seen.used[1] = 0 /\ 1 \notin tokens.reset
    /\ \A p, q \in Slots : Storing(p) /\ Storing(q) => p = q

\* Every statement keeps ResetInv.
LEMMA ServeKeepsReset ==
    ASSUME Shaped, ResetInv, NEW q \in Slots, Serve(q) PROVE ResetInv'
<1>1. \A p \in Slots : p # q => (Storing(p) <=> Storing(p)')
  BY OthersStay DEF Storing, Same
<1>2. ASSUME NEW p \in Slots, reqs'[p].kind = "reset" PROVE reqs'[p].key = Key("link", 1)
  <2>1. CASE p = q
    <3>1. reqs[q].kind = "reset"
      BY <1>2, <2>1, RequestStays
    <3>2. reqs'[q].key = reqs[q].key
      BY <3>1, RequestStays DEF BeginMFA, InsertCodes, Is
    <3> QED BY <2>1, <3>1, <3>2 DEF ResetInv
  <2>2. CASE p # q
    BY <1>2, <2>2, OthersStay DEF Same, ResetInv
  <2> QED BY <2>1, <2>2
<1>3. CASE TakeLink(q)
  <2>1. reqs[q].key.n = 1 /\ ~Storing(q)
    BY <1>3 DEF TakeLink, Is, ResetInv, Key, Storing
  <2>2. /\ tokens'.reset = tokens.reset \ {1} /\ issued' = issued /\ seen' = seen
    BY <1>3, <2>1 DEF TakeLink, Taken, Shaped, Tokens
  <2>3. Storing(q)' => 1 \in tokens.reset
    <3>1. CASE Reply(q, "400")
      <4>1. reqs'[q].at = "answer"
        BY <3>1 DEF Reply, Shaped, Req
      <4> QED BY <4>1 DEF Storing
    <3> QED BY <1>3, <2>1, <3>1 DEF TakeLink
  <2> QED BY <1>1, <1>2, <2>1, <2>2, <2>3 DEF ResetInv
<1>4. CASE StorePassword(q)
  <2>1. issued' = issued /\ tokens' = tokens /\ reqs'[q].at = "revoke"
    BY <1>4 DEF StorePassword, Wrote, Shaped, Req
  <2>2. CASE reqs[q].kind = "reset"
    <3>1. reqs[q].key.n = 1 /\ Storing(q)
      BY <1>4, <2>2 DEF StorePassword, Is, ResetInv, Key, Storing
    <3>2. seen'.used = [seen.used EXCEPT ![1] = @ + 1]
      <4> DEFINE s == Crosses(q, {"password"}, "replace")
                 once == [seen.used EXCEPT ![reqs[q].key.n] = @ + 1]
      <4>1. s = Seen(s)
        BY DEF Crosses, Shaped, Seen
      <4>2. seen' = [s EXCEPT !.past = Newest(<<account.pw>> \o @, History), !.used = once]
        BY <1>4, <2>2 DEF StorePassword
      <4> HIDE DEF s, once
      <4>3. seen'.used = once
        BY <4>1, <4>2 DEF Seen
      <4> QED BY <3>1, <4>3 DEF once
    <3>3. seen'.used = [n \in 1..2 |-> seen'.used[n]] /\ seen'.used[1] = 1 /\ seen'.used[2] = 0
      BY <3>1, <3>2 DEF ResetInv
    <3> QED BY <1>1, <1>2, <2>1, <3>1, <3>3 DEF ResetInv, Storing
  <2>3. CASE reqs[q].kind # "reset"
    <3>1. seen'.used = seen.used
      BY <1>4, <2>3 DEF StorePassword, Crosses, Shaped, Seen
    <3> QED BY <1>1, <1>2, <2>1, <3>1 DEF ResetInv, Storing
  <2> QED BY <2>2, <2>3
<1>5. CASE SendLink(q)
  <2>1. CASE reqs[q].kind = "forgot"
    <3>1. /\ tokens'.reset = tokens.reset \cup {issued.reset + 1}
          /\ issued'.reset = issued.reset + 1 /\ seen' = seen
      BY <1>5, <2>1 DEF SendLink, Issue, Shaped, Tokens
    <3>2. ~Storing(q) /\ ~Storing(q)'
      BY <1>5, <2>1, RequestStays DEF SendLink, Is, Storing
    <3>3. 1 \in tokens'.reset <=> 1 \in tokens.reset
      BY <3>1 DEF ResetInv
    <3> QED BY <1>1, <1>2, <3>1, <3>2, <3>3 DEF ResetInv
  <2>2. CASE reqs[q].kind = "magic"
    <3>1. tokens'.reset = tokens.reset /\ issued'.reset = issued.reset /\ seen' = seen
      BY <1>5, <2>2 DEF SendLink, Issue, Shaped, Tokens
    <3>2. ~Storing(q) /\ ~Storing(q)'
      BY <1>5, <2>2, RequestStays DEF SendLink, Is, Storing
    <3> QED BY <1>1, <1>2, <3>1, <3>2 DEF ResetInv
  <2> QED BY <1>5, <2>1, <2>2 DEF SendLink, Is
<1>6. CASE ~(TakeLink(q) \/ StorePassword(q) \/ SendLink(q))
  <2>1. tokens'.reset = tokens.reset /\ issued'.reset = issued.reset /\ seen'.used = seen.used
    BY <1>6, Writers
  <2>2. ~Storing(q)'
    <3>1. CASE Validate(q)
      BY <3>1, RequestStays DEF Validate, Storing, Shaped, Req
    <3> QED BY <1>6, <3>1, Stages DEF Storing
  <2> QED BY <1>1, <1>2, <2>1, <2>2 DEF ResetInv
<1> QED BY <1>3, <1>4, <1>5, <1>6

\* Nothing but a statement uses a grant.
LEMMA OthersKeepReset ==
    ASSUME Shaped, ResetInv,
           (\E q \in Slots : Refuse(q) \/ Break(q)) \/ WindowPasses \/ LockPasses \/ TabMove
    PROVE  ResetInv'
<1>1. ASSUME NEW q \in Slots, Refuse(q) \/ Break(q) PROVE ResetInv'
  <2>1. /\ tokens' = tokens /\ issued' = issued /\ seen'.used = seen.used
        /\ reqs'[q].at = "answer" /\ reqs'[q].kind = reqs[q].kind /\ reqs'[q].key = reqs[q].key
        /\ \A p \in Slots : p # q => Same(p)
    BY <1>1, Failures DEF Shaped, Seen
  <2> QED BY <2>1 DEF ResetInv, Storing, Same
<1>2. CASE WindowPasses \/ LockPasses
  <2>1. tokens' = tokens /\ issued' = issued /\ seen'.used = seen.used /\ reqs' = reqs
    BY <1>2 DEF WindowPasses, LockPasses, Shaped, Seen
  <2> QED BY <2>1 DEF ResetInv, Storing
<1>3. CASE TabMove
  <2>1. tokens' = tokens /\ issued' = issued /\ seen'.used = seen.used
    BY <1>3, TabMoves DEF TabMove
  <2>2. \A p \in Slots :
            /\ Storing(p)' => Storing(p)
            /\ reqs'[p].kind = "reset" => reqs'[p].key = Key("link", 1)
    BY <1>3, TabMoves DEF ResetInv, Storing, Same
  <2> QED BY <2>1, <2>2 DEF ResetInv
<1> QED BY <1>1, <1>2, <1>3

\* A reset grant is used at most once, throughout.
LEMMA ResetHolds == Spec => []ResetInv
<1>1. Init => ResetInv
  BY DEF Init, SignInInit, CredentialsInit, ResetInv, Storing, Free
<1>2. ASSUME Shaped, ResetInv, [Next]_pagesVars PROVE ResetInv'
  BY <1>2, Steps, ServeKeepsReset, OthersKeepReset
<1> QED BY <1>1, <1>2, ShapeKept, PTL DEF Spec

-----------------------------------------------------------------------------
(* Authenticators                                                          *)

MfaInv ==
    /\ MfaIsConfirmed
    /\ \A q \in Slots : reqs[q].at = "enable" => reqs[q].key.n \in seen.confirmed

\* Whatever is enabled was confirmed, throughout.
LEMMA MfaHolds == Spec => []MfaInv
<1>1. Init => MfaInv
  BY DEF Init, SignInInit, CredentialsInit, MfaInv, MfaIsConfirmed, Free, FirstRow
<1>2. ASSUME Shaped, MfaInv, NEW q \in Slots, Serve(q) PROVE MfaInv'
  <2>1. \A p \in Slots : p # q /\ reqs'[p].at = "enable" => reqs'[p].key.n \in seen'.confirmed
    BY <1>2, OthersStay, Writers DEF MfaInv, Same
  <2>2. ASSUME reqs'[q].at = "enable" PROVE reqs'[q].key.n \in seen'.confirmed
    <3>1. VerifyEnrollment(q)
      BY <1>2, <2>2, Stages
    <3>2. CASE pending # 0 /\ reqs[q].key = Key("totp", pending)
      <4>1. reqs'[q].key = reqs[q].key
        BY <1>2, <3>1, RequestStays DEF VerifyEnrollment, BeginMFA, InsertCodes, Is
      <4>2. seen' = [seen EXCEPT !.confirmed = @ \cup {pending}]
        BY <3>1, <3>2 DEF VerifyEnrollment
      <4>3. pending \in seen'.confirmed
        BY <1>2, <4>2 DEF Shaped, Seen
      <4> QED BY <3>2, <4>1, <4>3 DEF Key
    <3>3. CASE ~(pending # 0 /\ reqs[q].key = Key("totp", pending))
      BY <1>2, <2>2, <3>1, <3>3 DEF VerifyEnrollment, Reply, Shaped, Req
    <3> QED BY <3>2, <3>3
  <2>3. MfaIsConfirmed'
    <3>1. CASE EnableMFA(q)
      BY <1>2, <3>1 DEF EnableMFA, Verified, Is, MfaInv, MfaIsConfirmed, Shaped, Row
    <3> QED BY <1>2, <3>1, Writers DEF MfaInv, MfaIsConfirmed
  <2> QED BY <2>1, <2>2, <2>3 DEF MfaInv
<1>3. ASSUME Shaped, MfaInv, NEW q \in Slots, Refuse(q) \/ Break(q) PROVE MfaInv'
  <2>1. account' = account /\ seen'.confirmed = seen.confirmed /\ reqs'[q].at = "answer"
    BY <1>3, Failures DEF Shaped, Seen
  <2>2. \A p \in Slots : p # q => Same(p)
    BY <1>3, Failures
  <2> QED BY <1>3, <2>1, <2>2 DEF MfaInv, MfaIsConfirmed, Same
<1>4. ASSUME Shaped, MfaInv, WindowPasses \/ LockPasses PROVE MfaInv'
  BY <1>4 DEF WindowPasses, LockPasses, MfaInv, MfaIsConfirmed, Shaped, Row, Seen
<1>5. ASSUME Shaped, MfaInv, TabMove PROVE MfaInv'
  <2>1. account' = account /\ seen'.confirmed = seen.confirmed
    BY <1>5, TabMoves DEF TabMove
  <2>2. \A p \in Slots : Same(p) \/ reqs'[p].at \in {"free", "begin"}
    BY <1>5, TabMoves
  <2> QED BY <1>5, <2>1, <2>2 DEF MfaInv, MfaIsConfirmed, Same
<1>6. Shaped /\ MfaInv /\ [Next]_pagesVars => MfaInv'
  BY <1>2, <1>3, <1>4, <1>5, Steps
<1> QED BY <1>1, <1>6, ShapeKept, PTL DEF Spec

-----------------------------------------------------------------------------
(* Recovery codes                                                          *)

\* As long as no two requests for codes have crossed: one batch works, a transaction about to
\* insert the next one has deleted it, and an answer carries a batch that works or is used up.
Deleted(q) ==
    reqs[q].at = "insert" /\ "codes" \notin reqs[q].over => tokens.code \subseteq reqs[q].snap
Carries(q) ==
    /\ reqs[q].at = "answer" /\ reqs[q].kind = "codes" /\ reqs[q].out = "ok"
    /\ "codes" \notin reqs[q].over
    => reqs[q].key.n \in tokens.code \cup seen.spent

CodesInv ==
    "codes" \notin seen.crossed =>
        /\ \A a, b \in tokens.code : a = b
        /\ \A q \in Slots : Deleted(q) /\ Carries(q)

\* What inserting a batch does.
LEMMA Insertion ==
    ASSUME Shaped, NEW q \in Slots, InsertCodes(q)
    PROVE  /\ reqs[q].at = "insert" /\ reqs[q].kind = "codes"
           /\ tokens'.code = (tokens.code \ reqs[q].snap) \cup {issued.code + 1}
           /\ "codes" \in reqs[q].over => "codes" \in seen'.crossed
           /\ seen'.crossed \subseteq seen.crossed \cup {"codes"}
           /\ seen.spent \subseteq seen'.spent
           /\ reqs[q].page = "else" => reqs[q].snap \subseteq seen'.spent
           /\ reqs'[q].at = "answer" /\ reqs'[q].out = "ok" /\ reqs'[q].key.n = issued.code + 1
           /\ \A p \in Slots : p # q /\ reqs[p].at # "free" => "codes" \in reqs'[p].over
<1>1. reqs[q].at = "insert" /\ reqs[q].kind = "codes"
  BY DEF InsertCodes, Is
<1>2. tokens'.code = (tokens.code \ reqs[q].snap) \cup {issued.code + 1}
  BY DEF InsertCodes, Replaces, Shaped, Tokens
<1>3. reqs'[q] = [reqs[q] EXCEPT !.at = "answer", !.out = "ok", !.over = {},
                                 !.key = Key("code", issued.code + 1)]
  BY DEF InsertCodes
<1>4. reqs'[q].at = "answer" /\ reqs'[q].out = "ok" /\ reqs'[q].key.n = issued.code + 1
  BY <1>3 DEF Shaped, Req, Key
<1>5. ASSUME NEW p \in Slots, p # q, reqs[p].at # "free" PROVE "codes" \in reqs'[p].over
  <2>1. reqs'[p] = [reqs[p] EXCEPT !.over = @ \cup {"codes"}]
    BY <1>5 DEF InsertCodes
  <2> QED BY <2>1 DEF Shaped, Req
<1> DEFINE s == Crosses(q, {"codes"}, "codes")
<1>6. s = Seen(s) /\ s.crossed \subseteq seen.crossed \cup {"codes"} /\ s.spent = seen.spent
      /\ ("codes" \in reqs[q].over => "codes" \in s.crossed)
  BY DEF Crosses, Shaped, Seen
<1>7. seen' = [s EXCEPT !.spent = IF reqs[q].page = "else"
                                  THEN s.spent \cup reqs[q].snap ELSE s.spent]
  BY DEF InsertCodes
<1> HIDE DEF s
<1>8. /\ seen'.crossed = s.crossed
      /\ seen'.spent = IF reqs[q].page = "else" THEN s.spent \cup reqs[q].snap ELSE s.spent
  BY <1>6, <1>7 DEF Seen
<1> QED BY <1>1, <1>2, <1>4, <1>5, <1>6, <1>8

\* What checking a code does.
LEMMA Spending ==
    ASSUME Shaped, NEW q \in Slots, VerifyMFA(q)
    PROVE  /\ \E S : tokens'.code = tokens.code \ S /\ seen'.spent = seen.spent \cup S
           /\ seen'.crossed = seen.crossed
           /\ reqs[q].kind = "login"
<1> DEFINE k == reqs[q].key
           spends == reqs[q].row.mfa # 0 /\ k.of = "code" /\ Passes(reqs[q].row, k)
<1>1. /\ tokens' = [tokens EXCEPT !.code = IF spends THEN @ \ {k.n} ELSE @]
      /\ seen' = [seen EXCEPT !.spent = IF spends THEN @ \cup {k.n} ELSE @]
      /\ reqs[q].kind = "login"
  BY DEF VerifyMFA, Is
<1> HIDE DEF k, spends
<1>2. CASE spends
  BY <1>1, <1>2 DEF Shaped, Seen, Tokens
<1>3. CASE ~spends
  <2>1. tokens'.code = tokens.code \ {} /\ seen'.spent = seen.spent \cup {}
    BY <1>1, <1>3 DEF Shaped, Seen, Tokens
  <2> QED BY <1>1, <2>1 DEF Shaped, Seen
<1> QED BY <1>2, <1>3

\* Every statement keeps CodesInv.
LEMMA ServeKeepsCodes ==
    ASSUME Shaped, CodesInv, NEW q \in Slots, Serve(q) PROVE CodesInv'
<1> SUFFICES ASSUME "codes" \notin seen'.crossed
             PROVE  /\ \A a, b \in tokens'.code : a = b
                    /\ \A p \in Slots : Deleted(p)' /\ Carries(p)'
  BY DEF CodesInv
<1>1. /\ \A a, b \in tokens.code : a = b
      /\ \A p \in Slots : Deleted(p) /\ Carries(p)
  BY Writers DEF CodesInv
<1>2. CASE InsertCodes(q)
  <2>1. tokens'.code = {issued.code + 1}
    BY <1>1, <1>2, Insertion DEF Deleted
  <2>2. Deleted(q)' /\ Carries(q)'
    BY <1>2, <2>1, Insertion DEF Deleted, Carries
  <2>3. ASSUME NEW p \in Slots, p # q PROVE Deleted(p)' /\ Carries(p)'
    BY <1>2, <2>3, Insertion, OthersStay DEF Deleted, Carries, Same
  <2> QED BY <2>1, <2>2, <2>3
<1>3. CASE ~InsertCodes(q)
  <2>1. \E S : tokens'.code = tokens.code \ S /\ seen'.spent = seen.spent \cup S
    <3>1. CASE VerifyMFA(q)
      BY <3>1, Spending
    <3>2. CASE ~VerifyMFA(q)
      <4>1. tokens'.code = tokens.code \ {} /\ seen'.spent = seen.spent \cup {}
        BY <1>3, <3>2, Writers
      <4> QED BY <4>1
    <3> QED BY <3>1, <3>2
  <2>2. ASSUME NEW p \in Slots, p # q PROVE Deleted(p)' /\ Carries(p)'
    BY <1>1, <2>1, <2>2, OthersStay DEF Deleted, Carries, Same
  <2>3. Deleted(q)'
    <3>1. CASE DeleteCodes(q)
      BY <3>1 DEF DeleteCodes, Reply, Deleted, Shaped, Req
    <3> QED BY <3>1, Stages DEF Deleted
  <2>4. Carries(q)'
    <3>1. CASE DeleteCodes(q)
      <4>1. CASE Reply(q, "400")
        <5>1. reqs'[q] = [reqs[q] EXCEPT !.at = "answer", !.out = "400"]
          BY <4>1 DEF Reply, Shaped
        <5>2. reqs'[q].out = "400"
          BY <5>1 DEF Shaped, Req
        <5> QED BY <5>2 DEF Carries
      <4>2. CASE ~Reply(q, "400")
        BY <3>1, <4>2 DEF DeleteCodes, Carries, Shaped, Req
      <4> QED BY <4>1, <4>2
    <3> QED BY <1>3, <3>1, Stages, RequestStays DEF Carries
  <2> QED BY <1>1, <2>1, <2>2, <2>3, <2>4
<1> QED BY <1>2, <1>3

\* Nothing but a statement touches the recovery codes.
LEMMA OthersKeepCodes ==
    ASSUME Shaped, CodesInv,
           (\E q \in Slots : Refuse(q) \/ Break(q)) \/ WindowPasses \/ LockPasses \/ TabMove
    PROVE  CodesInv'
<1>1. ASSUME NEW q \in Slots, Refuse(q) \/ Break(q) PROVE CodesInv'
  <2>1. /\ tokens' = tokens /\ seen'.spent = seen.spent /\ seen.crossed \subseteq seen'.crossed
        /\ reqs'[q].at = "answer" /\ reqs'[q].out # "ok"
        /\ \A p \in Slots : p # q => Same(p)
    BY <1>1, Failures DEF Shaped, Seen
  <2> QED BY <2>1 DEF CodesInv, Deleted, Carries, Same
<1>2. CASE WindowPasses \/ LockPasses
  <2>1. tokens' = tokens /\ reqs' = reqs /\ seen'.crossed = seen.crossed /\ seen'.spent = seen.spent
    BY <1>2 DEF WindowPasses, LockPasses, Shaped, Seen
  <2> QED BY <2>1 DEF CodesInv, Deleted, Carries
<1>3. CASE TabMove
  <2>1. /\ tokens' = tokens /\ seen'.spent = seen.spent /\ seen.crossed \subseteq seen'.crossed
        /\ \A p \in Slots : Same(p) \/ reqs'[p].at \in {"free", "begin"}
    BY <1>3, TabMoves DEF TabMove
  <2> QED BY <2>1 DEF CodesInv, Deleted, Carries, Same
<1> QED BY <1>1, <1>2, <1>3

\* The invariant of the recovery codes holds throughout.
LEMMA CodesHold == Spec => []CodesInv
<1>1. Init => CodesInv
  BY DEF Init, SignInInit, CredentialsInit, CodesInv, Deleted, Carries, Free
<1>2. ASSUME Shaped, CodesInv, [Next]_pagesVars PROVE CodesInv'
  BY <1>2, Steps, ServeKeepsCodes, OthersKeepCodes
<1> QED BY <1>1, <1>2, ShapeKept, PTL DEF Spec

-----------------------------------------------------------------------------
(* The pages                                                               *)

Screen(s) == [at |-> s.at, busy |-> s.busy, alt |-> s.alt, tries |-> s.tries, wait |-> s.wait,
              otp |-> s.otp, link |-> s.link, mail |-> s.mail, done |-> s.done,
              secret |-> s.secret, codes |-> s.codes, wrong |-> s.wrong, served |-> s.served]

Here(q) == reqs[q].page = "here"
HereLogin(q) == Here(q) /\ reqs[q].kind = "login"

\* What a page waits for belongs to it: the sign-in page (and the provider's, which takes its
\* place) waits for one sign-in at most and does not count down meanwhile.
AtHome(q) ==
    Here(q) =>
        /\ reqs[q].kind \in {"login", "magic", "oauth"} => screen.at \in {"login", "away"}
        /\ reqs[q].kind \in {"forgot", "reset", "register", "change"} =>
               screen.at \notin {"login", "away"}
        /\ reqs[q].kind = "codes" => screen.at = "settings"
Awaited(q) == HereLogin(q) => screen.wait = 0 /\ (screen.at = "login" => screen.busy = TRUE)

HomeInv ==
    /\ screen = Screen(screen) /\ screen.busy \in BOOLEAN
    /\ \A q \in Slots : AtHome(q) /\ Awaited(q)
    /\ \A p, q \in Slots : HereLogin(p) /\ HereLogin(q) => p = q

\* The sign-in page has answered as many wrong passwords as it has taken tries, and one more
\* for every wait it has served or is about to.
WaitInv ==
    /\ screen.wrong \in Nat /\ screen.tries \in Nat /\ screen.served \in Nat /\ screen.wait \in Nat
    /\ screen.wrong + screen.tries <= MaxTries + screen.served
    /\ screen.wait = 0 /\ screen.tries = 0 => screen.wrong < MaxTries + screen.served

\* The sheet on screen works, is used up, or a newer one is on its way to the settings page.
Coming == \E q \in Slots : /\ reqs[q].at = "answer" /\ reqs[q].kind = "codes"
                           /\ reqs[q].out = "ok" /\ Here(q)
SheetInv ==
    /\ screen.at # "settings" => screen.codes = 0
    /\ screen.at = "settings" => \A q \in Slots : reqs[q].page # "gone"
    /\ \A q \in Slots : reqs[q].page \in {"here", "gone", "else"}
    /\ "codes" \notin seen.crossed =>
           screen.codes \in {0} \cup tokens.code \cup seen.spent \/ Coming

TabInv == HomeInv /\ WaitInv /\ SheetInv

-----------------------------------------------------------------------------
(* What the tab does to its screen                                         *)

\* A request of the page is on its way, of a kind that belongs to it.
Sending ==
    \E p \in Slots :
        /\ reqs[p].at = "free" /\ reqs'[p].page = "here"
        /\ reqs'[p].at # "answer"
        /\ \A q \in Slots : q # p => reqs'[q] = reqs[q]
        /\ UNCHANGED <<tokens, seen>>
        /\ screen' = Screen(screen')
        /\ screen'.at = screen.at /\ screen'.tries = screen.tries /\ screen'.wait = screen.wait
        /\ screen'.codes = screen.codes /\ screen'.wrong = screen.wrong
        /\ screen'.served = screen.served
        /\ screen'.busy = screen.busy \/ screen'.busy = TRUE
        /\ \/ /\ reqs'[p].kind = "login" /\ screen.at = "login" /\ screen.wait = 0
              /\ screen.busy = FALSE /\ screen'.busy = TRUE
           \/ reqs'[p].kind \in {"magic", "oauth"} /\ screen.at = "login"
           \/ reqs'[p].kind \in {"forgot", "reset", "register", "change"}
                  /\ screen.at \notin {"login", "away"}
           \/ reqs'[p].kind \in {"validate", "invitation", "consume", "enroll", "verify"}
           \/ reqs'[p].kind = "codes" /\ screen.at = "settings"

\* The tab turns to another page, and to none of what it waits for.
Turning ==
    /\ \E page \in Pages \ {"settings"} : screen' = Opens(page)
    /\ UNCHANGED <<tokens, seen>>
    /\ \A p \in Slots : reqs'[p].page \in {"gone", "else"}

\* Nothing of the page's own.
Resting ==
    /\ UNCHANGED <<screen, tokens, seen>>
    /\ \A p \in Slots :
           \/ reqs'[p] = reqs[p]
           \/ /\ reqs'[p].page = "else"
              /\ ~(Here(p) /\ reqs[p].at = "answer" /\ reqs[p].kind = "codes")

\* A request sent from the page keeps TabInv.
LEMMA SendingKeeps ==
    ASSUME TabInv, Sending PROVE TabInv'
<1> USE DEF TabInv
<1>1. PICK p \in Slots : Sending!(p)
  BY DEF Sending
<1>2. HomeInv'
  BY <1>1 DEF HomeInv, AtHome, Awaited, HereLogin, Here
<1>3. WaitInv'
  BY <1>1 DEF WaitInv
<1>4. Coming => Coming'
  BY <1>1 DEF Coming, Here
<1>5. SheetInv'
  BY <1>1, <1>4 DEF SheetInv
<1> QED BY <1>2, <1>3, <1>5

\* So does a change of page.
LEMMA TurningKeeps ==
    ASSUME TabInv, Turning PROVE TabInv'
<1> USE SignInAssumption DEF TabInv
<1>1. PICK page \in Pages \ {"settings"} : screen' = Opens(page)
  BY DEF Turning
<1>2. HomeInv'
  BY <1>1 DEF Turning, Opens, Screen, HomeInv, AtHome, Awaited, HereLogin, Here
<1>3. WaitInv'
  BY <1>1 DEF Opens, WaitInv
<1>4. SheetInv'
  BY <1>1 DEF Turning, Opens, SheetInv, Pages
<1> QED BY <1>2, <1>3, <1>4

\* And so does what leaves the page as it is.
LEMMA RestingKeeps ==
    ASSUME TabInv, Resting PROVE TabInv'
<1> USE DEF TabInv, Resting
<1>1. HomeInv'
  BY DEF HomeInv, AtHome, Awaited, HereLogin, Here
<1>2. WaitInv'
  BY DEF WaitInv
<1>3. Coming => Coming'
  BY DEF Coming, Here
<1>4. SheetInv'
  BY <1>3 DEF SheetInv
<1> QED BY <1>1, <1>2, <1>4

\* The second and the pause of the countdown.
LEMMA TickKeeps ==
    ASSUME TabInv, Tick PROVE TabInv'
<1> USE SignInAssumption DEF TabInv
<1>1. /\ screen.wait > 0 /\ reqs' = reqs /\ tokens' = tokens /\ seen' = seen
      /\ screen' = [screen EXCEPT !.wait = screen.wait - 1,
                       !.served = IF screen.wait = 1 THEN screen.served + 1 ELSE screen.served]
  BY DEF Tick, credentials
<1>2. /\ screen'.wait = screen.wait - 1
      /\ screen.wait = 1 => screen'.served = screen.served + 1
      /\ screen.wait # 1 => screen'.served = screen.served
      /\ screen' = Screen(screen') /\ screen'.busy = screen.busy /\ screen'.at = screen.at
      /\ screen'.tries = screen.tries /\ screen'.wrong = screen.wrong
      /\ screen'.codes = screen.codes
  BY <1>1 DEF HomeInv, Screen
<1>3. \A q \in Slots : ~HereLogin(q)
  BY <1>1 DEF HomeInv, Awaited, WaitInv
<1>4. HomeInv'
  BY <1>1, <1>2, <1>3 DEF HomeInv, AtHome, Awaited, HereLogin, Here
<1>5. WaitInv'
  <2>1. CASE screen.wait = 1
    BY <1>2, <2>1 DEF WaitInv
  <2>2. CASE screen.wait # 1
    <3>1. screen'.wait \in Nat /\ screen'.wait # 0 /\ screen'.served = screen.served
      BY <1>1, <1>2, <2>2 DEF WaitInv
    <3> QED BY <1>2, <3>1 DEF WaitInv
  <2> QED BY <2>1, <2>2
<1>6. SheetInv'
  BY <1>1, <1>2 DEF SheetInv, Coming, Here
<1> QED BY <1>4, <1>5, <1>6

-----------------------------------------------------------------------------
(* Answers                                                                 *)

\* The answer of request q reaches its page.
Arrives(q) ==
    /\ reqs[q].at = "answer" /\ Here(q) /\ reqs'[q] = Free
    /\ \A p \in Slots : p # q => reqs'[p] = reqs[p]
    /\ tokens' = tokens
    /\ screen' = Screen(screen')

\* An answer the page takes frees its request.
LEMMA ArrivesIf ==
    ASSUME Shaped, NEW q \in Slots, NEW kinds, Answered(q, kinds), screen' = Screen(screen')
    PROVE  Arrives(q) /\ reqs[q].kind \in kinds /\ seen' = seen
BY DEF Answered, Arrives, Here, Service, Shaped

\* An answer that changes neither the countdown nor the tries nor the sheet; and the button only
\* on a page that is not the sign-in page.
Lightly(q) ==
    /\ reqs[q].kind # "codes" /\ seen' = seen
    /\ screen'.at = screen.at /\ screen'.tries = screen.tries /\ screen'.codes = screen.codes
    /\ screen'.wrong = screen.wrong /\ screen'.served = screen.served
    /\ \/ screen'.busy = screen.busy /\ screen'.wait = screen.wait
       \/ /\ screen.at \notin {"login", "away"} /\ screen'.busy \in BOOLEAN
          /\ screen'.wait \in Nat /\ (screen'.wait = 0 => screen.wait = 0)

\* Such an answer keeps TabInv.
LEMMA LightlyKeeps ==
    ASSUME TabInv, NEW q \in Slots, Arrives(q), Lightly(q) PROVE TabInv'
<1> USE DEF TabInv
<1>1. reqs'[q].page = "else"
  BY DEF Arrives, Free
<1>2. HomeInv'
  BY <1>1 DEF Arrives, Lightly, HomeInv, AtHome, Awaited, HereLogin, Here
<1>3. WaitInv'
  BY DEF Lightly, WaitInv
<1>4. Coming => Coming'
  BY DEF Arrives, Lightly, Coming, Here
<1>5. SheetInv'
  BY <1>1, <1>4 DEF Arrives, Lightly, SheetInv
<1> QED BY <1>2, <1>3, <1>5

\* The provider's page replaces the sign-in page, whose sign-in may still be answered.
LEMMA AwayKeeps ==
    ASSUME TabInv, NEW q \in Slots, Arrives(q), reqs[q].kind \in {"magic", "oauth"},
           seen' = seen, screen' = Opens("away")
    PROVE  TabInv'
<1> USE SignInAssumption DEF TabInv
<1>1. screen.at \in {"login", "away"} /\ reqs'[q].page = "else"
  BY DEF Arrives, HomeInv, AtHome, Free
<1>2. /\ screen'.at = "away" /\ screen'.busy = FALSE /\ screen'.wait = 0 /\ screen'.codes = 0
      /\ screen'.tries = MaxTries /\ screen'.wrong = 0 /\ screen'.served = 0
  BY DEF Opens
<1>3. HomeInv'
  BY <1>1, <1>2 DEF Arrives, HomeInv, AtHome, Awaited, HereLogin, Here
<1>4. WaitInv'
  BY <1>2 DEF WaitInv
<1>5. SheetInv'
  BY <1>1, <1>2 DEF Arrives, SheetInv
<1> QED BY <1>3, <1>4, <1>5

\* Answers that give a page its button back.
LEMMA PageAnswersKeep ==
    ASSUME Shaped, TabInv, NEW q \in Slots,
           ResetSent(q) \/ ResetAnswered(q) \/ RegisterAnswered(q) \/ PasswordRefused(q)
    PROVE  TabInv'
<1> USE SignInAssumption
<1>1. Answered(q, {"forgot", "reset", "register", "change"})
  BY DEF ResetSent, ResetAnswered, RegisterAnswered, PasswordRefused, Answered
<1>2. screen = Screen(screen)
  BY DEF TabInv, HomeInv
<1>3. /\ screen' = Screen(screen')
      /\ screen'.at = screen.at /\ screen'.tries = screen.tries /\ screen'.codes = screen.codes
      /\ screen'.wrong = screen.wrong /\ screen'.served = screen.served /\ screen'.busy = FALSE
      /\ screen'.wait \in {LockTicks, 1, screen.wait}
  <2>1. CASE ResetSent(q)
    BY <1>2, <2>1 DEF ResetSent, Screen
  <2>2. CASE ResetAnswered(q)
    BY <1>2, <2>2 DEF ResetAnswered, Screen
  <2>3. CASE RegisterAnswered(q)
    BY <1>2, <2>3 DEF RegisterAnswered, Screen
  <2>4. CASE PasswordRefused(q)
    BY <1>2, <2>4 DEF PasswordRefused, Released, Screen
  <2> QED BY <2>1, <2>2, <2>3, <2>4
<1>4. /\ Arrives(q) /\ reqs[q].kind \in {"forgot", "reset", "register", "change"}
      /\ seen' = seen
  BY <1>1, <1>3, ArrivesIf
<1>5. screen.at \notin {"login", "away"}
  BY <1>4 DEF Arrives, TabInv, HomeInv, AtHome
<1>6. screen'.wait \in Nat /\ (screen'.wait = 0 => screen.wait = 0)
  BY <1>3 DEF TabInv, WaitInv
<1>7. Lightly(q)
  BY <1>3, <1>4, <1>5, <1>6 DEF Lightly
<1> QED BY <1>4, <1>7, LightlyKeeps

\* Answers about a link, an invitation, an authenticator.
LEMMA PartAnswersKeep ==
    ASSUME Shaped, TabInv, NEW q \in Slots,
           LinkChecked(q) \/ InvitationChecked(q) \/ Enrolling(q) \/ CodeChecked(q)
    PROVE  TabInv'
<1>1. Answered(q, {"validate", "invitation", "enroll", "verify"})
  BY DEF LinkChecked, InvitationChecked, Enrolling, CodeChecked, Answered
<1>2. screen = Screen(screen)
  BY DEF TabInv, HomeInv
<1>3. /\ screen' = Screen(screen')
      /\ screen'.at = screen.at /\ screen'.tries = screen.tries /\ screen'.codes = screen.codes
      /\ screen'.wrong = screen.wrong /\ screen'.served = screen.served
      /\ screen'.busy = screen.busy /\ screen'.wait = screen.wait
  <2>1. CASE LinkChecked(q)
    BY <1>2, <2>1 DEF LinkChecked, Screen
  <2>2. CASE InvitationChecked(q)
    BY <1>2, <2>2 DEF InvitationChecked, Screen
  <2>3. CASE Enrolling(q)
    BY <1>2, <2>3 DEF Enrolling, Screen
  <2>4. CASE CodeChecked(q)
    BY <1>2, <2>4 DEF CodeChecked, Screen
  <2> QED BY <2>1, <2>2, <2>3, <2>4
<1>4. /\ Arrives(q) /\ reqs[q].kind \in {"validate", "invitation", "enroll", "verify"}
      /\ seen' = seen
  BY <1>1, <1>3, ArrivesIf
<1>5. Lightly(q)
  BY <1>3, <1>4 DEF Lightly
<1> QED BY <1>4, <1>5, LightlyKeeps

\* The answer to a sign-in.
LEMMA RefusedKeeps ==
    ASSUME Shaped, TabInv, NEW q \in Slots, LoginRefused(q) PROVE TabInv'
<1> USE SignInAssumption DEF TabInv
<1> DEFINE out == reqs[q].out
           counted == IF out = "401" /\ screen.tries > 0 THEN screen.tries - 1 ELSE screen.tries
           wait == CASE out = "wait" -> 1
                     [] out # "wait" /\ counted = 0 -> LockTicks
                     [] OTHER -> screen.wait
           wrong == IF out = "401" THEN screen.wrong + 1 ELSE screen.wrong
<1>1. Answered(q, {"login"})
  BY DEF LoginRefused
<1>2. \/ screen' = [screen EXCEPT !.busy = FALSE, !.otp = TRUE] /\ out = "mfa"
      \/ screen' = [screen EXCEPT !.busy = FALSE, !.tries = counted, !.wait = wait, !.wrong = wrong]
  BY DEF LoginRefused, Locks
<1> HIDE DEF out, counted, wait, wrong
<1>3. /\ screen' = Screen(screen') /\ screen'.at = screen.at /\ screen'.busy = FALSE
      /\ screen'.codes = screen.codes /\ screen'.served = screen.served
  BY <1>2 DEF HomeInv, Screen
<1>4. \/ /\ screen'.tries = screen.tries /\ screen'.wait = screen.wait
         /\ screen'.wrong = screen.wrong
      \/ screen'.tries = counted /\ screen'.wait = wait /\ screen'.wrong = wrong
  BY <1>2 DEF HomeInv, Screen
<1>5. Arrives(q) /\ reqs[q].kind = "login" /\ seen' = seen
  BY <1>1, <1>3, ArrivesIf
<1>6. HereLogin(q) /\ screen.wait = 0 /\ reqs'[q].page = "else"
  BY <1>5 DEF Arrives, HereLogin, HomeInv, Awaited, Free
<1>7. \A p \in Slots : ~HereLogin(p)'
  BY <1>5, <1>6 DEF Arrives, HereLogin, Here, HomeInv
<1>8. HomeInv'
  BY <1>3, <1>5, <1>6, <1>7 DEF Arrives, HomeInv, AtHome, Awaited, HereLogin, Here
<1>9. WaitInv'
  <2>1. CASE screen'.tries = counted /\ screen'.wait = wait /\ screen'.wrong = wrong
    <3>1. CASE out = "401" /\ screen.tries > 0
      <4>1. wrong = screen.wrong + 1 /\ counted = screen.tries - 1
        BY <3>1 DEF wrong, counted
      <4>2. wait \in Nat /\ (counted = 0 => wait # 0)
        BY <1>6, <3>1 DEF wait, WaitInv
      <4> QED BY <1>3, <2>1, <3>1, <4>1, <4>2 DEF WaitInv
    <3>2. CASE out = "401" /\ ~(screen.tries > 0)
      <4>1. wrong = screen.wrong + 1 /\ counted = screen.tries /\ screen.tries = 0
        BY <3>2 DEF wrong, counted, WaitInv
      <4>2. wait \in Nat /\ wait # 0
        BY <3>2, <4>1 DEF wait
      <4> QED BY <1>3, <1>6, <2>1, <4>1, <4>2 DEF WaitInv
    <3>3. CASE out # "401"
      <4>1. wrong = screen.wrong /\ counted = screen.tries
        BY <3>3 DEF wrong, counted
      <4>2. wait \in Nat
        BY <1>6 DEF wait, WaitInv
      <4> QED BY <1>3, <1>6, <2>1, <4>1, <4>2 DEF WaitInv
    <3> QED BY <3>1, <3>2, <3>3
  <2> QED BY <1>3, <1>4, <2>1 DEF WaitInv
<1>10. Coming => Coming'
  BY <1>5 DEF Arrives, Coming, Here
<1>11. SheetInv'
  BY <1>3, <1>5, <1>6, <1>10 DEF Arrives, SheetInv
<1> QED BY <1>8, <1>9, <1>11

\* A new sheet.
LEMMA CodesShownKeeps ==
    ASSUME Shaped, CodesInv, TabInv, NEW q \in Slots, CodesShown(q) PROVE TabInv'
<1> USE DEF TabInv
<1>1. /\ reqs[q].at = "answer" /\ Here(q) /\ reqs[q].kind = "codes" /\ reqs'[q] = Free
      /\ \A p \in Slots : p # q => reqs'[p] = reqs[p]
      /\ tokens' = tokens
  BY DEF CodesShown, Here, Shaped
<1>2. /\ seen.crossed \subseteq seen'.crossed /\ seen'.spent = seen.spent
      /\ "codes" \in reqs[q].over => "codes" \in seen'.crossed
  BY DEF CodesShown, Crosses, Shaped, Seen
<1>3. /\ screen'.at = screen.at /\ screen'.wait = screen.wait /\ screen'.tries = screen.tries
      /\ screen'.wrong = screen.wrong /\ screen'.served = screen.served
      /\ screen'.busy = screen.busy /\ screen' = Screen(screen')
      /\ IF Ok(q) THEN screen'.codes = reqs[q].key.n ELSE screen'.codes = screen.codes
  BY DEF CodesShown, HomeInv, Screen
<1>4. screen.at = "settings" /\ reqs'[q].page = "else"
  BY <1>1 DEF HomeInv, AtHome, Free
<1>5. HomeInv'
  BY <1>1, <1>3, <1>4 DEF HomeInv, AtHome, Awaited, HereLogin, Here
<1>6. WaitInv'
  BY <1>3 DEF WaitInv
<1>7. ASSUME "codes" \notin seen'.crossed
      PROVE  screen'.codes \in {0} \cup tokens'.code \cup seen'.spent \/ Coming'
  <2>1. CASE Ok(q)
    BY <1>1, <1>2, <1>3, <1>7, <2>1 DEF CodesInv, Carries, Ok
  <2>2. CASE ~Ok(q)
    <3>1. Coming => Coming'
      BY <1>1, <2>2 DEF Coming, Here, Ok
    <3> QED BY <1>1, <1>2, <1>3, <1>7, <2>2, <3>1 DEF SheetInv
  <2> QED BY <2>1, <2>2
<1>8. SheetInv'
  BY <1>1, <1>3, <1>4, <1>7 DEF SheetInv
<1> QED BY <1>5, <1>6, <1>8

\* An answer that turns to another page keeps TabInv.
LEMMA TurnsTurn ==
    ASSUME Shaped, TabInv, NEW q \in Slots, NEW kinds, NEW page \in Pages \ {"settings"},
           Turns(q, kinds, page)
    PROVE  TabInv'
<1>1. \A p \in Slots : reqs'[p].page \in {"gone", "else"}
  <2>1. TAKE p \in Slots
  <2>2. reqs'[p] = Free \/ reqs'[p] = Orphaned[p]
    BY DEF Turns, Orphaned
  <2>3. Orphaned[p].page \in {"gone", "else"}
    BY DEF Orphaned, Shaped, Req, TabInv, SheetInv
  <2> QED BY <2>2, <2>3 DEF Free
<1> QED BY <1>1, TurningKeeps DEF Turns, Turning, Service

\* Every answer the tab takes keeps TabInv.
LEMMA AnswersKeep ==
    ASSUME Shaped, CodesInv, TabInv, NEW q \in Slots, Receive(q) PROVE TabInv'
<1> USE DEF Pages
<1>1. CASE SignedIn(q) \/ PasswordChanged(q)
  BY <1>1, TurnsTurn DEF SignedIn, PasswordChanged
<1>2. CASE LoginRefused(q)
  BY <1>2, RefusedKeeps
<1>3. CASE CodesShown(q)
  BY <1>3, CodesShownKeeps
<1>4. CASE Dropped(q)
  BY <1>4, RestingKeeps DEF Dropped, Resting, Service, Here, Free, Shaped
<1>5. CASE LinkFollowed(q)
  <2>1. CASE Turns(q, {"invitation"}, "login")
    BY <2>1, TurnsTurn
  <2>2. CASE Answered(q, {"consume", "invitation"}) /\ UNCHANGED screen
    BY <2>2, RestingKeeps DEF Answered, Resting, Service, Free, Shaped
  <2> QED BY <1>5, <2>1, <2>2 DEF LinkFollowed
<1>6. CASE AlternativeAnswered(q)
  <2>1. CASE screen' = [screen EXCEPT !.alt = FALSE]
    <3>1. screen' = Screen(screen') /\ Answered(q, {"magic", "oauth"})
      BY <1>6, <2>1 DEF AlternativeAnswered, TabInv, HomeInv, Screen
    <3>2. Arrives(q) /\ reqs[q].kind \in {"magic", "oauth"} /\ seen' = seen
      BY <3>1, ArrivesIf
    <3>3. Lightly(q)
      BY <2>1, <3>2 DEF Lightly, TabInv, HomeInv, Screen
    <3> QED BY <3>2, <3>3, LightlyKeeps
  <2>2. CASE screen' = Opens("away")
    <3>1. screen' = Screen(screen') /\ Answered(q, {"magic", "oauth"})
      BY <1>6, <2>2 DEF AlternativeAnswered, Opens, Screen
    <3>2. Arrives(q) /\ reqs[q].kind \in {"magic", "oauth"} /\ seen' = seen
      BY <3>1, ArrivesIf
    <3> QED BY <2>2, <3>2, AwayKeeps
  <2> QED BY <1>6, <2>1, <2>2 DEF AlternativeAnswered
<1> DEFINE ByPage == ResetSent(q) \/ ResetAnswered(q) \/ RegisterAnswered(q) \/ PasswordRefused(q)
           ByPart == LinkChecked(q) \/ InvitationChecked(q) \/ Enrolling(q) \/ CodeChecked(q)
<1>7. CASE ByPage
  BY <1>7, PageAnswersKeep
<1>8. CASE ByPart
  BY <1>8, PartAnswersKeep
<1> QED BY <1>1, <1>2, <1>3, <1>4, <1>5, <1>6, <1>7, <1>8 DEF Receive

-----------------------------------------------------------------------------
(* Buttons, effects, the service                                           *)

\* Which request of the page is sent where, as the screen changes.
Fits(kind) ==
    \/ /\ kind = "login" /\ screen.at = "login" /\ screen.wait = 0
       /\ screen.busy = FALSE /\ screen'.busy = TRUE
    \/ kind \in {"magic", "oauth"} /\ screen.at = "login"
    \/ kind \in {"forgot", "reset", "register", "change"} /\ screen.at \notin {"login", "away"}
    \/ kind \in {"validate", "invitation", "consume", "enroll", "verify"}
    \/ kind = "codes" /\ screen.at = "settings"

Barely ==
    /\ screen' = Screen(screen')
    /\ screen'.at = screen.at /\ screen'.tries = screen.tries /\ screen'.wait = screen.wait
    /\ screen'.codes = screen.codes /\ screen'.wrong = screen.wrong
    /\ screen'.served = screen.served
    /\ screen'.busy = screen.busy \/ screen'.busy = TRUE

\* Every request of a kind the page sends keeps TabInv.
LEMMA AsksKeeps ==
    ASSUME Shaped, TabInv, NEW kind, NEW pw, NEW new, NEW key, Asks(kind, pw, new, key),
           Fits(kind), Barely
    PROVE  TabInv'
<1> DEFINE q == CHOOSE p \in Slots : reqs[p].at = "free"
           r == Asked("here", kind, pw, new, key)
<1>1. q \in Slots /\ reqs[q].at = "free"
  BY DEF Asks, Sends
<1>2. reqs' = [reqs EXCEPT ![q] = r]
  BY DEF Asks, Sends, Asked
<1> HIDE DEF q
<1>3. r.page = "here" /\ r.kind = kind /\ r.at = "begin"
  BY DEF Asked, Free
<1> HIDE DEF r
<1>4. reqs'[q] = r /\ \A p \in Slots : p # q => reqs'[p] = reqs[p]
  BY <1>1, <1>2 DEF Shaped
<1>5. tokens' = tokens /\ seen' = seen
  BY DEF Asks, Service
<1>6. Sending
  BY <1>1, <1>3, <1>4, <1>5 DEF Sending, Fits, Barely
<1> QED BY <1>6, SendingKeeps

\* Opening a page keeps TabInv.
LEMMA OpensKeeps ==
    ASSUME Shaped, TabInv, NEW page \in Pages \ {"settings"}, screen' = Opens(page),
           reqs' = Orphaned, UNCHANGED Service
    PROVE  TabInv'
<1>1. \A p \in Slots : reqs'[p].page \in {"gone", "else"}
  BY DEF Orphaned, Shaped, Req, TabInv, SheetInv
<1> QED BY <1>1, TurningKeeps DEF Turning, Service

\* Every button and every effect of a page keeps TabInv.
LEMMA ButtonsKeep ==
    ASSUME Shaped, TabInv, Buttons \/ Effects PROVE TabInv'
<1>1. screen = Screen(screen) /\ screen.busy \in BOOLEAN
  BY DEF TabInv, HomeInv
<1> USE DEF At, Fits, Barely, Screen
<1>2. ASSUME NEW pw \in Passwords, NEW otp, SubmitLogin(pw, otp) PROVE TabInv'
  <2>1. Asks("login", pw, First, otp) /\ Fits("login") /\ Barely
    BY <1>1, <1>2 DEF SubmitLogin
  <2> QED BY <2>1, AsksKeeps
<1>3. CASE SendMagicLink
  <2>1. Asks("magic", First, First, Nothing) /\ Fits("magic") /\ Barely
    BY <1>1, <1>3 DEF SendMagicLink
  <2> QED BY <2>1, AsksKeeps
<1>4. CASE StartOAuth
  <2>1. Asks("oauth", First, First, Nothing) /\ Fits("oauth") /\ Barely
    BY <1>1, <1>4 DEF StartOAuth
  <2> QED BY <2>1, AsksKeeps
<1>5. CASE SendReset
  <2>1. Asks("forgot", First, First, Nothing) /\ Fits("forgot") /\ Barely
    BY <1>1, <1>5 DEF SendReset
  <2> QED BY <2>1, AsksKeeps
<1>6. CASE TypeMail
  <2>1. Barely /\ reqs' = reqs /\ UNCHANGED <<tokens, seen>> /\ screen'.busy = screen.busy
    BY <1>1, <1>6 DEF TypeMail, credentials
  <2> QED BY <2>1 DEF TabInv, HomeInv, AtHome, Awaited, HereLogin, Here, WaitInv, SheetInv, Coming
<1>7. CASE SubmitRegister
  <2>1. Asks("register", First, First, Nothing) /\ Fits("register") /\ Barely
    BY <1>1, <1>7 DEF SubmitRegister
  <2> QED BY <2>1, AsksKeeps
<1>8. ASSUME NEW new \in Passwords, SubmitReset(new) PROVE TabInv'
  <2>1. Asks("reset", First, new, Key("link", 1)) /\ Fits("reset") /\ Barely
    BY <1>1, <1>8 DEF SubmitReset
  <2> QED BY <2>1, AsksKeeps
<1>9. ASSUME NEW old \in Passwords, NEW new \in Passwords, SubmitPassword(old, new) PROVE TabInv'
  <2>1. Asks("change", old, new, Nothing) /\ Fits("change") /\ Barely
    BY <1>1, <1>9 DEF SubmitPassword
  <2> QED BY <2>1, AsksKeeps
<1>10. CASE SetUpMFA
  <2>1. Asks("enroll", First, First, Nothing) /\ Fits("enroll") /\ Barely
    BY <1>1, <1>10 DEF SetUpMFA
  <2> QED BY <2>1, AsksKeeps
<1>11. ASSUME NEW n, SubmitCode(n) PROVE TabInv'
  <2>1. Asks("verify", First, First, Key("totp", n)) /\ Fits("verify") /\ Barely
    BY <1>1, <1>11 DEF SubmitCode
  <2> QED BY <2>1, AsksKeeps
<1>12. CASE GenerateCodes
  <2>1. Asks("codes", First, First, Nothing) /\ Fits("codes") /\ Barely
    BY <1>1, <1>12 DEF GenerateCodes
  <2> QED BY <2>1, AsksKeeps
<1>13. CASE Leave
  BY <1>13, OpensKeeps DEF Leave, Pages
<1>14. CASE OthersAsk
  <2>1. PICK kind, pw, new, key : Sends("else", kind, pw, new, key)
    BY <1>14 DEF OthersAsk
  <2>2. \A p \in Slots : \/ reqs'[p] = reqs[p]
                         \/ reqs[p].at = "free" /\ reqs'[p].page = "else"
    <3> DEFINE q == CHOOSE p \in Slots : reqs[p].at = "free"
               r == Asked("else", kind, pw, new, key)
    <3>1. q \in Slots /\ reqs[q].at = "free"
      BY <2>1 DEF Sends
    <3>2. reqs' = [reqs EXCEPT ![q] = r]
      BY <2>1 DEF Sends, Asked
    <3>3. r.page = "else"
      BY DEF Asked, Free
    <3> HIDE DEF q, r
    <3>4. \A p \in Slots : p # q => reqs'[p] = reqs[p]
      BY <3>1, <3>2 DEF Shaped
    <3>5. reqs'[q] = r
      BY <3>1, <3>2 DEF Shaped
    <3> QED BY <3>1, <3>3, <3>4, <3>5
  <2> QED BY <1>14, <2>2, RestingKeeps DEF OthersAsk, Resting, Service
<1>15. CASE CheckLink
  <2>1. Asks("validate", First, First, Key("link", 1)) /\ Fits("validate") /\ Barely
    BY <1>1, <1>15 DEF CheckLink
  <2> QED BY <2>1, AsksKeeps
<1>16. CASE CheckInvitation
  <2>1. Asks("invitation", First, First, Nothing) /\ Fits("invitation") /\ Barely
    BY <1>1, <1>16 DEF CheckInvitation
  <2> QED BY <2>1, AsksKeeps
<1>17. CASE FollowLink
  <2>1. Barely
    BY <1>1, <1>17 DEF FollowLink
  <2>2. \E kind \in {"consume", "invitation"}, n \in 1..2 : Asks(kind, First, First, Key("link", n))
    BY <1>17 DEF FollowLink
  <2>3. \A kind \in {"consume", "invitation"} : Fits(kind)
    OBVIOUS
  <2> QED BY <2>1, <2>2, <2>3, AsksKeeps
<1>18. CASE Redirect
  BY <1>18, OpensKeeps DEF Redirect, Pages
<1>19. CASE Tick
  BY <1>19, TickKeeps
<1> QED
  BY <1>2, <1>3, <1>4, <1>5, <1>6, <1>7, <1>8, <1>9, <1>10, <1>11, <1>12, <1>13, <1>14, <1>15,
     <1>16, <1>17, <1>18, <1>19
  DEF Buttons, Effects

\* Where the service works the screen does not change.
LEMMA ServiceKeeps ==
    ASSUME Shaped, CodesInv, TabInv, UNCHANGED screen,
           (\E q \in Slots : Serve(q) \/ Refuse(q) \/ Break(q)) \/ WindowPasses \/ LockPasses
    PROVE  TabInv'
<1> USE DEF TabInv
<1>1. \A p \in Slots : reqs'[p].page = reqs[p].page /\ reqs'[p].kind = reqs[p].kind
  BY OthersStay, RequestStays, Failures DEF Same, WindowPasses, LockPasses
<1>2. HomeInv' /\ WaitInv'
  BY <1>1 DEF HomeInv, AtHome, Awaited, HereLogin, Here, WaitInv
<1>3. Coming => Coming'
  BY <1>1, OthersStay, Stages, Failures DEF Same, Coming, Here, WindowPasses, LockPasses
<1>4. ASSUME "codes" \notin seen'.crossed
      PROVE  screen.codes \in {0} \cup tokens'.code \cup seen'.spent \/ Coming'
  <2>1. ASSUME NEW q \in Slots, InsertCodes(q)
        PROVE  screen.codes \in {0} \cup tokens'.code \cup seen'.spent \/ Coming'
    <3>1. "codes" \notin seen.crossed /\ tokens.code \subseteq reqs[q].snap
      BY <1>4, <2>1, Insertion, Writers DEF Serve, OtherStep, CodesInv, Deleted
    <3>2. CASE reqs[q].page = "here"
      BY <1>1, <2>1, <3>2, Insertion DEF Coming, Here
    <3>3. CASE reqs[q].page = "gone"
      BY <3>3 DEF SheetInv
    <3>4. CASE reqs[q].page = "else"
      BY <1>3, <2>1, <3>1, <3>4, Insertion DEF SheetInv
    <3> QED BY <3>2, <3>3, <3>4 DEF SheetInv
  <2>2. ASSUME NEW q \in Slots, Serve(q), ~InsertCodes(q)
        PROVE  screen.codes \in {0} \cup tokens'.code \cup seen'.spent \/ Coming'
    <3>1. "codes" \notin seen.crossed
      BY <1>4, <2>2, Writers
    <3>2. \E S : tokens'.code = tokens.code \ S /\ seen'.spent = seen.spent \cup S
      <4>1. CASE VerifyMFA(q)
        BY <4>1, Spending
      <4>2. CASE ~VerifyMFA(q)
        <5>1. tokens'.code = tokens.code \ {} /\ seen'.spent = seen.spent \cup {}
          BY <2>2, <4>2, Writers
        <5> QED BY <5>1
      <4> QED BY <4>1, <4>2
    <3> QED BY <1>3, <3>1, <3>2 DEF SheetInv
  <2>3. ASSUME (\E q \in Slots : Refuse(q) \/ Break(q)) \/ WindowPasses \/ LockPasses
        PROVE  screen.codes \in {0} \cup tokens'.code \cup seen'.spent \/ Coming'
    <3>1. /\ tokens' = tokens /\ seen'.spent = seen.spent /\ seen.crossed \subseteq seen'.crossed
      BY <2>3, Failures DEF WindowPasses, LockPasses, Shaped, Seen
    <3> QED BY <1>3, <1>4, <3>1 DEF SheetInv
  <2> QED BY <2>1, <2>2, <2>3
<1>5. SheetInv'
  BY <1>1, <1>4 DEF SheetInv
<1> QED BY <1>2, <1>5

-----------------------------------------------------------------------------
(* What holds of the pages                                                 *)

\* The pages' invariant holds throughout.
LEMMA TabHolds == Spec => []TabInv
<1>1. Init => TabInv
  <2> SUFFICES ASSUME Init PROVE TabInv
    OBVIOUS
  <2>1. \A q \in Slots : reqs[q] = Free
    BY DEF Init, SignInInit, CredentialsInit
  <2>2. screen = Opens(left.page)
    BY DEF Init, SignInInit
  <2>3. HomeInv
    BY <2>1, <2>2 DEF HomeInv, AtHome, Awaited, HereLogin, Here, Free, Opens, Screen
  <2>4. WaitInv
    BY <2>2, SignInAssumption DEF WaitInv, Opens
  <2>5. SheetInv
    BY <2>1, <2>2 DEF SheetInv, Free, Opens
  <2> QED BY <2>3, <2>4, <2>5 DEF TabInv
<1>2. ASSUME Shaped, CodesInv, TabInv, [Next]_pagesVars PROVE TabInv'
  <2>1. CASE UNCHANGED signInVars
    BY <1>2, <2>1 DEF signInVars, credentials, TabInv, HomeInv, AtHome, Awaited, HereLogin, Here,
                      WaitInv, SheetInv, Coming
  <2>2. CASE SignInNext
    BY <1>2, <2>2, ButtonsKeep, AnswersKeep, ServiceKeeps DEF SignInNext, ServiceStep, Fails, Lapses
  <2> QED BY <1>2, <2>1, <2>2 DEF Next, pagesVars
<1> QED BY <1>1, <1>2, ShapeKept, CodesHold, PTL DEF Spec

\* The sign-in page sends at most MAX_ATTEMPTS wrong passwords, and one more for every time it
\* has waited.
THEOREM PagesWait == Spec => []PageWaits
<1>1. TabInv => PageWaits
  <2> SUFFICES ASSUME TabInv PROVE PageWaits
    OBVIOUS
  <2>1. /\ screen.wrong \in Nat /\ screen.tries \in Nat /\ screen.served \in Nat
        /\ screen.wrong + screen.tries <= MaxTries + screen.served
    BY DEF TabInv, WaitInv
  <2> QED BY <2>1, SignInAssumption DEF PageWaits
<1> QED BY <1>1, TabHolds, PTL

\* A reset link sets one password, an account asks for codes of a secret whose code was typed,
\* and of recovery codes the newest sheet works and no other.
THEOREM GrantsServeOnce == Spec => []GrantsAreKept
<1>1. ResetInv => ResetOnce
  <2> SUFFICES ASSUME ResetInv PROVE ResetOnce
    OBVIOUS
  <2>1. DOMAIN seen.used = 1..2 /\ seen.used[1] \in {0, 1} /\ seen.used[2] = 0
    BY DEF ResetInv
  <2> QED BY <2>1 DEF ResetOnce
<1>2. MfaInv => MfaIsConfirmed
  BY DEF MfaInv
<1>3. CodesInv /\ TabInv => CodesWork
  <2> SUFFICES ASSUME CodesInv, TabInv, "codes" \notin seen.crossed
               PROVE  /\ Cardinality(tokens.code) <= 1
                      /\ \/ screen.codes \in {0} \cup tokens.code \cup seen.spent
                         \/ \E q \in Slots : reqs[q].at # "free" /\ reqs[q].kind = "codes"
    BY DEF CodesWork
  <2>1. Cardinality(tokens.code) <= 1
    <3>1. CASE tokens.code = {}
      BY <3>1, FS_EmptySet
    <3>2. CASE tokens.code # {}
      <4>1. PICK c : tokens.code = {c}
        BY <3>2 DEF CodesInv
      <4> QED BY <4>1, FS_Singleton
    <3> QED BY <3>1, <3>2
  <2> QED BY <2>1 DEF TabInv, SheetInv, Coming
<1>4. ResetInv /\ MfaInv /\ CodesInv /\ TabInv => GrantsAreKept
  BY <1>1, <1>2, <1>3 DEF GrantsAreKept
<1> QED BY <1>4, ResetHolds, MfaHolds, CodesHold, TabHolds, PTL

-----------------------------------------------------------------------------
(* The frame                                                               *)

FrameRecord ==
    [path : Routes, pending : Seq(Routes), bar : BOOLEAN, timer : BOOLEAN,
     armed : {"no", "page", "field"}, palette : BOOLEAN, query : Queries, active : -1..2,
     help : BOOLEAN, aimed : BOOLEAN, stayed : BOOLEAN, strayed : BOOLEAN]

\* The last navigation on its way leads to another route than the one before it.
LeadsOn(f) ==
    LET n == Len(f.pending)
    IN n > 0 /\ f.pending[n] # IF n = 1 THEN f.path ELSE f.pending[n - 1]

\* The mark of the palette is on an entry if there is one; a "g" typed in a field arms nothing;
\* a bar without its timer waits for a route that is not the one shown then.
FrameOK(f) ==
    /\ f \in FrameRecord
    /\ f.active \in 0..Matches(f.query) - 1 \/ Matches(f.query) = 0
    /\ f.armed # "field" /\ f.aimed /\ ~f.strayed
    /\ f.bar /\ ~f.timer /\ ~f.stayed => LeadsOn(f)

LEMMA MatchesAre == Matches("") = 3 /\ Matches("r") = 2 /\ Matches("zz") = 0
  BY DEF Matches

LEMMA MatchesBound == \A query \in Queries : Matches(query) \in {0, 2, 3}
  BY MatchesAre DEF Queries

LEMMA StartingKeeps ==
    ASSUME NEW f, FrameOK(f), NEW to \in Routes
    PROVE  FrameOK(Starting(f, to))
<1>1. PICK p : p = Append(f.pending, to)
  OBVIOUS
<1>2. PICK s \in BOOLEAN : s = (f.stayed \/ to = (IF f.pending = <<>> THEN f.path ELSE f.pending[Len(f.pending)]))
  OBVIOUS
<1>3. PICK g : g = [f EXCEPT !.bar = TRUE, !.pending = p, !.stayed = s]
  OBVIOUS
<1>4. g = Starting(f, to)
  BY <1>1, <1>2, <1>3 DEF Starting, FrameOK, FrameRecord
<1>5. f.pending \in Seq(Routes) /\ f.path \in Routes /\ f.stayed \in BOOLEAN
  BY DEF FrameOK, FrameRecord
<1>6. p \in Seq(Routes) /\ Len(p) = Len(f.pending) + 1 /\ p[Len(p)] = to /\ Len(f.pending) \in Nat
      /\ \A i \in 1..Len(f.pending) : p[i] = f.pending[i]
  BY <1>1, <1>5
<1>7. g \in FrameRecord
  BY <1>3, <1>5, <1>6 DEF FrameOK, FrameRecord
<1>8. /\ g.pending = p /\ g.path = f.path /\ g.stayed = s
      /\ g.active = f.active /\ g.query = f.query /\ g.armed = f.armed /\ g.aimed = f.aimed
      /\ g.strayed = f.strayed
  BY <1>3 DEF FrameOK, FrameRecord
<1>9. ~s => LeadsOn(g)
  <2> SUFFICES ASSUME ~s
               PROVE  LeadsOn(g)
    OBVIOUS
  <2>1. to # (IF f.pending = <<>> THEN f.path ELSE f.pending[Len(f.pending)])
    BY <1>2
  <2>2. Len(p) > 0 /\ p[Len(p)] # IF Len(p) = 1 THEN f.path ELSE p[Len(p) - 1]
    <3>1. CASE f.pending = <<>>
      BY <1>6, <2>1, <3>1
    <3>2. CASE f.pending # <<>>
      <4>1. Len(f.pending) > 0
        BY <1>5, <3>2
      <4>2. Len(p) # 1 /\ Len(p) - 1 = Len(f.pending) /\ p[Len(p) - 1] = f.pending[Len(f.pending)]
        BY <1>6, <4>1
      <4>3. to # f.pending[Len(f.pending)]
        BY <2>1, <3>2
      <4> QED  BY <1>6, <4>1, <4>2, <4>3
    <3> QED  BY <3>1, <3>2
  <2> QED  BY <1>8, <2>2 DEF LeadsOn
<1> QED  BY <1>4, <1>7, <1>8, <1>9 DEF FrameOK

\* Fields that a step of the keys sets, and those it leaves.
LEMMA KeysKeep ==
    ASSUME NEW f, FrameOK(f), NEW g \in FrameRecord,
           g.path = f.path, g.pending = f.pending, g.bar = f.bar, g.timer = f.timer, g.stayed = f.stayed,
           g.active \in 0..Matches(g.query) - 1 \/ Matches(g.query) = 0,
           g.armed # "field", g.aimed, ~g.strayed
    PROVE  FrameOK(g)
  BY DEF FrameOK, LeadsOn

LEMMA ClosedKeeps ==
    ASSUME NEW f, FrameOK(f)
    PROVE  FrameOK(Closed(f)) /\ FrameOK([Closed(f) EXCEPT !.help = TRUE])
<1>1. PICK g : g = Closed(f)
  OBVIOUS
<1>2. PICK h : h = [g EXCEPT !.help = TRUE]
  OBVIOUS
<1>3. g \in FrameRecord /\ h \in FrameRecord
  BY <1>1, <1>2 DEF Closed, FrameOK, FrameRecord
<1>4. /\ g.path = f.path /\ g.pending = f.pending /\ g.bar = f.bar /\ g.timer = f.timer
      /\ g.stayed = f.stayed /\ g.active = f.active /\ g.query = f.query /\ g.armed = f.armed
      /\ g.aimed = f.aimed /\ g.strayed = f.strayed
  BY <1>1 DEF Closed, FrameOK, FrameRecord
<1>5. /\ h.path = f.path /\ h.pending = f.pending /\ h.bar = f.bar /\ h.timer = f.timer
      /\ h.stayed = f.stayed /\ h.active = f.active /\ h.query = f.query /\ h.armed = f.armed
      /\ h.aimed = f.aimed /\ h.strayed = f.strayed
  BY <1>2, <1>3, <1>4 DEF FrameRecord
<1>6. FrameOK(g)
  BY <1>3, <1>4, KeysKeep DEF FrameOK
<1>7. FrameOK(h)
  BY <1>3, <1>5, KeysKeep DEF FrameOK
<1> QED  BY <1>1, <1>2, <1>6, <1>7

LEMMA RunsKeep ==
    ASSUME NEW f, FrameOK(f), NEW g \in Runs(f)
    PROVE  FrameOK(g)
<1>1. PICK c : c = Closed(f)
  OBVIOUS
<1>2. FrameOK(c)
  BY <1>1, ClosedKeeps
<1>3. CASE \E to \in Routes : g = Starting(c, to)
  BY <1>2, <1>3, StartingKeeps
<1>4. CASE g \in {Closed(f), [Closed(f) EXCEPT !.help = TRUE]}
  BY <1>4, ClosedKeeps
<1> QED  BY <1>1, <1>3, <1>4 DEF Runs

LEMMA JumpKeeps ==
    ASSUME NEW f, FrameOK(f), NEW key, NEW field \in BOOLEAN
    PROVE  FrameOK(Jump(f, key, field))
<1>1. PICK to : to = CASE key = "u" -> "users" [] key = "r" -> "roles" [] OTHER -> "none"
  OBVIOUS
<1>2. PICK g : g = [f EXCEPT !.armed = "no", !.strayed = f.strayed \/ (f.armed = "field" /\ field /\ to # "none")]
  OBVIOUS
<1>3. (f.strayed \/ (f.armed = "field" /\ field /\ to # "none")) = FALSE
  BY DEF FrameOK
<1>4. g \in FrameRecord /\ ~g.strayed /\ g.armed = "no"
  BY <1>2, <1>3 DEF FrameOK, FrameRecord
<1>5. /\ g.path = f.path /\ g.pending = f.pending /\ g.bar = f.bar /\ g.timer = f.timer
      /\ g.stayed = f.stayed /\ g.active = f.active /\ g.query = f.query /\ g.aimed = f.aimed
  BY <1>2 DEF FrameOK, FrameRecord
<1>6. FrameOK(g)
  BY <1>4, <1>5, KeysKeep DEF FrameOK
<1>7. to \in Routes \cup {"none"}
  BY <1>1 DEF Routes
<1>8. to \in Routes => FrameOK(Starting(g, to))
  BY <1>6, StartingKeeps
<1>9. Jump(f, key, field) = IF f.armed # "no" /\ to # "none" THEN Starting(g, to) ELSE g
  BY <1>1, <1>2 DEF Jump
<1> QED  BY <1>6, <1>7, <1>8, <1>9

LEMMA PaletteKeyKeeps ==
    ASSUME NEW f, FrameOK(f), NEW key, NEW g \in PaletteKey(f, key)
    PROVE  FrameOK(g)
<1>1. f \in FrameRecord /\ f.active \in -1..2 /\ Matches(f.query) \in {0, 2, 3}
  BY MatchesBound DEF FrameOK, FrameRecord
<1>2. CASE ~f.palette \/ key \notin {"esc", "up", "down", "enter"}
  BY <1>2 DEF PaletteKey
<1>3. CASE f.palette /\ key = "esc"
  <2>1. g = Closed(f)
    BY <1>3 DEF PaletteKey
  <2> QED  BY <2>1, ClosedKeeps
<1>4. ASSUME NEW n \in -1..2, g = [f EXCEPT !.active = n], n \in 0..Matches(f.query) - 1 \/ Matches(f.query) = 0
      PROVE  FrameOK(g)
  <2>1. g \in FrameRecord /\ g.active = n
    BY <1>1, <1>4 DEF FrameRecord
  <2>2. /\ g.path = f.path /\ g.pending = f.pending /\ g.bar = f.bar /\ g.timer = f.timer
        /\ g.stayed = f.stayed /\ g.query = f.query /\ g.armed = f.armed
        /\ g.aimed = f.aimed /\ g.strayed = f.strayed
    BY <1>1, <1>4 DEF FrameRecord
  <2> QED  BY <1>4, <2>1, <2>2, KeysKeep DEF FrameOK
<1>5. CASE f.palette /\ key = "down"
  <2>1. g = [f EXCEPT !.active = Below(f)]
    BY <1>5 DEF PaletteKey
  <2>2. Below(f) \in -1..2 /\ (Below(f) \in 0..Matches(f.query) - 1 \/ Matches(f.query) = 0)
    BY <1>1 DEF Below, Smaller, FrameOK
  <2> QED  BY <1>4, <2>1, <2>2
<1>6. CASE f.palette /\ key = "up"
  <2>1. g = [f EXCEPT !.active = Larger(f.active - 1, 0)]
    BY <1>6 DEF PaletteKey
  <2>2. Larger(f.active - 1, 0) \in -1..2 /\ (Larger(f.active - 1, 0) \in 0..Matches(f.query) - 1 \/ Matches(f.query) = 0)
    BY <1>1 DEF Larger, FrameOK
  <2> QED  BY <1>4, <2>1, <2>2
<1>7. CASE f.palette /\ key = "enter"
  <2>1. g \in IF f.active \notin 0..Matches(f.query) - 1 THEN {[f EXCEPT !.aimed = Matches(f.query) = 0]} ELSE Runs(f)
    BY <1>7 DEF PaletteKey
  <2>2. CASE f.active \notin 0..Matches(f.query) - 1
    <3>1. (Matches(f.query) = 0) = TRUE
      BY <2>2 DEF FrameOK
    <3>2. g = [f EXCEPT !.aimed = TRUE]
      BY <2>1, <2>2, <3>1
    <3>3. f.aimed = TRUE
      BY <1>1 DEF FrameOK, FrameRecord
    <3>4. g = f
      BY <1>1, <3>2, <3>3 DEF FrameRecord
    <3> QED  BY <3>4
  <2>3. CASE f.active \in 0..Matches(f.query) - 1
    BY <2>1, <2>3, RunsKeep
  <2> QED  BY <2>2, <2>3
<1>8. key \in {"esc", "up", "down", "enter"} /\ f.palette => key = "esc" \/ key = "down" \/ key = "up" \/ key = "enter"
  OBVIOUS
<1> QED  BY <1>2, <1>3, <1>5, <1>6, <1>7, <1>8

LEMMA ShortcutKeeps ==
    ASSUME NEW f, FrameOK(f), NEW key, NEW field \in BOOLEAN
    PROVE  FrameOK(Shortcut(f, key, field))
<1>1. f \in FrameRecord
  BY DEF FrameOK
<1>2. ASSUME NEW g \in FrameRecord,
             g.path = f.path, g.pending = f.pending, g.bar = f.bar, g.timer = f.timer, g.stayed = f.stayed,
             g.aimed = f.aimed, g.strayed = f.strayed, g.armed # "field",
             (g.active = f.active /\ g.query = f.query) \/ (g.active = 0 /\ g.query = "")
      PROVE  FrameOK(g)
  <2>1. g.active \in 0..Matches(g.query) - 1 \/ Matches(g.query) = 0
    <3>1. CASE g.active = f.active /\ g.query = f.query
      BY <3>1 DEF FrameOK
    <3>2. CASE g.active = 0 /\ g.query = ""
      <4>1. PICK n \in Nat : n = Matches(g.query) /\ n = 3
        BY <3>2, MatchesAre
      <4>2. 0 \in 0..n - 1
        BY <4>1
      <4> QED  BY <3>2, <4>1, <4>2
    <3> QED  BY <1>2, <3>1, <3>2
  <2> QED  BY <1>2, <2>1, KeysKeep DEF FrameOK
<1>3. PICK g : g = Shortcut(f, key, field)
  OBVIOUS
<1>4. CASE field
  BY <1>4 DEF Shortcut, Outside
<1>5. CASE ~field /\ key = "g"
  <2>1. g = [f EXCEPT !.armed = "page"]
    BY <1>3, <1>5 DEF Shortcut, Outside
  <2> QED  BY <1>1, <1>2, <1>3, <2>1 DEF FrameRecord
<1>6. CASE ~field /\ key = "ctrl-k"
  <2>1. g = [f EXCEPT !.palette = ~f.palette, !.query = "", !.active = 0]
    BY <1>3, <1>6 DEF Shortcut, Outside
  <2>2. PICK b \in BOOLEAN : b = ~f.palette
    OBVIOUS
  <2>3. g = [f EXCEPT !.palette = b, !.query = "", !.active = 0] /\ "" \in Queries /\ 0 \in -1..2
    BY <2>1, <2>2 DEF Queries
  <2>4. g \in FrameRecord
    BY <1>1, <2>3 DEF FrameRecord
  <2>5. /\ g.path = f.path /\ g.pending = f.pending /\ g.bar = f.bar /\ g.timer = f.timer
        /\ g.stayed = f.stayed /\ g.aimed = f.aimed /\ g.strayed = f.strayed
        /\ g.armed = f.armed /\ g.active = 0 /\ g.query = ""
    BY <1>1, <2>3 DEF FrameRecord
  <2> QED  BY <1>2, <1>3, <2>4, <2>5 DEF FrameOK
<1>7. CASE ~field /\ key = "?"
  <2>1. g = [f EXCEPT !.help = TRUE]
    BY <1>3, <1>7 DEF Shortcut, Outside
  <2> QED  BY <1>1, <1>2, <1>3, <2>1 DEF FrameRecord, FrameOK
<1>8. CASE ~field /\ key \notin {"g", "ctrl-k", "?"}
  <2>1. g = f
    BY <1>3, <1>8 DEF Shortcut, Outside
  <2> QED  BY <1>3, <2>1
<1> QED  BY <1>4, <1>5, <1>6, <1>7, <1>8

DrawerRecord ==
    [open : BOOLEAN, focus : Inside \cup {"button", "body", "page"},
     back : Inside \cup {"button", "body", "page"}, lost : BOOLEAN]

DrawerOK ==
    /\ drawer \in DrawerRecord
    /\ drawer.open => drawer.focus \in Inside \/ drawer.focus = "body" \/ drawer.lost

ScrollRecord ==
    [top : 0..2, room : 0..2, saved : [Routes -> 0..2], frame : 0..2, due : BOOLEAN,
     event : BOOLEAN, left : [Routes -> 0..2], short : SUBSET Routes]

BudgetOK == budget \in [parts : SUBSET {"keys", "drawer", "scroll", "health"}, acts : Nat]

\* A sitting without scrolling.
Unscrolled ==
    /\ scroll.top = 0 /\ scroll.room = 2 /\ ~scroll.due /\ ~scroll.event
    /\ \A r \in Routes : scroll.saved[r] = 0 /\ scroll.left[r] = 0

\* Of the route on screen: until its place is restored, that is the one on its way; afterwards
\* it is where the element stands.
ScrollOK ==
    /\ scroll \in ScrollRecord
    /\ ~With("scroll") => Unscrolled
    /\ LET r == frame.path
       IN r \in scroll.short \/ scroll.left[r] = IF scroll.due THEN scroll.frame ELSE scroll.top
    /\ PlacesAreKept

\* Pings have numbers of their own, and the newest answered is none of those under way.
HealthRecord ==
    [state : {"unknown", "ok", "down"}, up : BOOLEAN,
     pings : SUBSET [n : Nat, says : {"none", "ok", "down"}], count : Nat, last : Nat,
     found : {"unknown", "ok", "down"}, late : BOOLEAN]

HealthOK ==
    /\ health \in HealthRecord
    /\ health.last <= health.count
    /\ \A p \in health.pings : p.n <= health.count /\ p.n # health.last
    /\ \A p, o \in health.pings : p.n = o.n => p = o
    /\ PillIsNewest

ShellInv == BudgetOK /\ FrameOK(frame) /\ DrawerOK /\ ScrollOK /\ HealthOK

LEMMA InitShell == ShellInit => ShellInv
<1> SUFFICES ASSUME ShellInit
             PROVE  ShellInv
  OBVIOUS
<1>1. PICK t \in BOOLEAN : t = ("keys" \in budget.parts)
  <2>1. CASE "keys" \in budget.parts
    <3>1. ("keys" \in budget.parts) = TRUE
      BY <2>1
    <3> QED  BY <3>1
  <2>2. CASE "keys" \notin budget.parts
    <3>1. ("keys" \in budget.parts) = FALSE
      BY <2>2
    <3> QED  BY <3>1
  <2> QED  BY <2>1, <2>2
<1>2. frame = [path |-> "users", pending |-> <<>>, bar |-> FALSE, timer |-> t, armed |-> "no",
               palette |-> FALSE, query |-> "", active |-> 0, help |-> FALSE, aimed |-> TRUE,
               stayed |-> FALSE, strayed |-> FALSE]
  BY <1>1 DEF ShellInit
<1>3. scroll = [top |-> 0, room |-> 2, saved |-> [r \in Routes |-> 0], frame |-> 0, due |-> FALSE,
                event |-> FALSE, left |-> [r \in Routes |-> 0], short |-> {}]
  BY DEF ShellInit
<1>4. health = [state |-> "unknown", up |-> TRUE, pings |-> {}, count |-> 0, last |-> 0,
                found |-> "unknown", late |-> FALSE]
  BY DEF ShellInit
<1>5. drawer \in [open : BOOLEAN, focus : {"body"}, back : {"body"}, lost : {FALSE}]
  BY DEF ShellInit
<1>6. FrameOK(frame)
  <2>1. <<>> \in Seq(Routes) /\ "users" \in Routes /\ "" \in Queries /\ 0 \in -1..2
    BY DEF Routes, Queries
  <2>2. frame \in FrameRecord
    <3>1. PICK p \in Seq(Routes) : p = <<>>
      BY <2>1
    <3>2. frame = [path |-> "users", pending |-> p, bar |-> FALSE, timer |-> t, armed |-> "no",
                   palette |-> FALSE, query |-> "", active |-> 0, help |-> FALSE, aimed |-> TRUE,
                   stayed |-> FALSE, strayed |-> FALSE]
      BY <1>2, <3>1
    <3> QED  BY <1>1, <2>1, <3>2 DEF FrameRecord
  <2>3. frame.active = 0 /\ frame.query = "" /\ frame.armed = "no" /\ frame.aimed /\ ~frame.strayed /\ ~frame.bar
    BY <1>2
  <2>4. Matches(frame.query) = 3
    BY <2>3, MatchesAre
  <2>5. 0 \in 0..3 - 1
    OBVIOUS
  <2>6. frame.active \in 0..Matches(frame.query) - 1
    BY <2>3, <2>4, <2>5
  <2> QED  BY <2>2, <2>3, <2>6 DEF FrameOK
<1>7. DrawerOK
  BY <1>5 DEF DrawerOK, DrawerRecord
<1>8. ScrollOK
  <2>1. PICK places : places = [r \in Routes |-> 0]
    OBVIOUS
  <2>2. places \in [Routes -> 0..2] /\ \A r \in Routes : places[r] = 0
    BY <2>1
  <2>3. scroll = [top |-> 0, room |-> 2, saved |-> places, frame |-> 0, due |-> FALSE,
                  event |-> FALSE, left |-> places, short |-> {}]
    BY <1>3, <2>1
  <2>4. scroll \in ScrollRecord
    BY <2>2, <2>3 DEF ScrollRecord
  <2>5. frame.path = "users" /\ "users" \in Routes
    BY <1>2 DEF Routes
  <2>6. scroll.saved = places /\ scroll.left = places /\ scroll.due = FALSE /\ scroll.top = 0
    BY <2>3
  <2>7. PlacesAreKept
    BY <2>2, <2>6 DEF PlacesAreKept
  <2>8. scroll.left[frame.path] = scroll.top
    BY <2>2, <2>5, <2>6
  <2>9. Unscrolled
    BY <2>2, <2>3, <2>6 DEF Unscrolled
  <2> QED  BY <2>4, <2>6, <2>7, <2>8, <2>9 DEF ScrollOK
<1>9. HealthOK
  <2>1. health \in HealthRecord
    BY <1>4 DEF HealthRecord
  <2> QED  BY <1>4, <2>1 DEF HealthOK, PillIsNewest
<1>10. BudgetOK
  BY FramesAssumption DEF BudgetOK, ShellInit
<1> QED  BY <1>6, <1>7, <1>8, <1>9, <1>10 DEF ShellInv

LEMMA SmallerIs == \A m, n \in 0..2 : Smaller(m, n) \in 0..2
  BY DEF Smaller

\* What a sitting may use stays.
LEMMA ActsKeeps == BudgetOK /\ Acts => BudgetOK' /\ (With("scroll") <=> With("scroll")')
<1> SUFFICES ASSUME BudgetOK, Acts
             PROVE  BudgetOK' /\ (With("scroll") <=> With("scroll")')
  OBVIOUS
<1>1. budget' = [budget EXCEPT !.acts = budget.acts - 1] /\ budget.acts - 1 \in Nat
  BY DEF Acts, BudgetOK
<1>2. budget' \in [parts : SUBSET {"keys", "drawer", "scroll", "health"}, acts : Nat]
      /\ budget'.parts = budget.parts
  BY <1>1 DEF BudgetOK
<1> QED  BY <1>2 DEF BudgetOK, With

LEMMA BudgetRests == BudgetOK /\ UNCHANGED budget => BudgetOK' /\ (With("scroll") <=> With("scroll")')
  BY DEF BudgetOK, With

\* Another route renders.
LEMMA RendersKeeps ==
    ASSUME ScrollOK, With("scroll") /\ With("scroll")', frame.path \in Routes, NEW to \in Routes, NEW room \in 0..2, frame'.path = to, to # frame.path,
           Renders(to, room)
    PROVE  ScrollOK'
<1>1. PICK top \in 0..2 : top = Smaller(scroll.top, room)
  BY SmallerIs DEF ScrollOK, ScrollRecord
<1>2. PICK old \in Routes : old = frame.path
  OBVIOUS
<1>3. PICK gone : gone = IF top # scroll.top \/ scroll.due THEN {old} ELSE {}
  OBVIOUS
<1>4. scroll' = [scroll EXCEPT !.room = room, !.top = top, !.saved[old] = top, !.frame = scroll.saved[to],
                              !.due = TRUE, !.event = scroll.event \/ top # scroll.top,
                              !.short = scroll.short \cup gone]
  BY <1>1, <1>2, <1>3 DEF Renders, UnderOld
<1>5. PICK e \in BOOLEAN : e = (scroll.event \/ top # scroll.top)
  BY DEF ScrollOK, ScrollRecord
<1>6. /\ scroll'.room = room /\ scroll'.top = top /\ scroll'.saved = [scroll.saved EXCEPT ![old] = top]
      /\ scroll'.frame = scroll.saved[to] /\ scroll'.due = TRUE /\ scroll'.event = e
      /\ scroll'.left = scroll.left /\ scroll'.short = scroll.short \cup gone
  BY <1>4, <1>5 DEF ScrollOK, ScrollRecord
<1>7. scroll' \in ScrollRecord
  BY <1>1, <1>2, <1>3, <1>4, <1>5 DEF ScrollOK, ScrollRecord
<1>8. \A r \in Routes : scroll'.saved[r] = IF r = old THEN top ELSE scroll.saved[r]
  BY <1>6 DEF ScrollOK, ScrollRecord
<1>9. to \in scroll'.short \/ scroll'.left[to] = scroll'.frame
  BY <1>2, <1>6 DEF ScrollOK, PlacesAreKept
<1>10. PlacesAreKept'
  <2> SUFFICES ASSUME NEW r \in Routes, r # to
               PROVE  scroll'.saved[r] = scroll'.left[r] \/ r \in scroll'.short
    BY DEF PlacesAreKept
  <2>1. CASE r = old
    BY <1>2, <1>3, <1>6, <1>8, <2>1 DEF ScrollOK
  <2>2. CASE r # old
    BY <1>2, <1>6, <1>8, <2>2 DEF ScrollOK, PlacesAreKept
  <2> QED  BY <2>1, <2>2
<1> QED  BY <1>6, <1>7, <1>9, <1>10 DEF ScrollOK

\* The route on screen stays and nobody scrolls.
LEMMA ScrollRests ==
    ASSUME ScrollOK, frame'.path = frame.path, UNCHANGED scroll, With("scroll") <=> With("scroll")'
    PROVE  ScrollOK'
  BY DEF ScrollOK, PlacesAreKept, Unscrolled

\* Nothing scrolls in this sitting.
LEMMA UnusedRests ==
    ASSUME ScrollOK, UNCHANGED scroll, ~With("scroll"), frame'.path \in Routes
    PROVE  ScrollOK'
<1>1. Unscrolled /\ Unscrolled'
  BY DEF ScrollOK, Unscrolled
<1> QED  BY <1>1 DEF ScrollOK, PlacesAreKept, Unscrolled

LEMMA HealthRests == HealthOK /\ UNCHANGED health => HealthOK'
  BY DEF HealthOK, PillIsNewest

LEMMA DrawerRests == DrawerOK /\ UNCHANGED drawer => DrawerOK'
  BY DEF DrawerOK

-----------------------------------------------------------------------------
(* Steps of the frame                                                      *)

\* Another key or the mouse: the route on screen stays.
LEMMA KeyStepKeeps ==
    ASSUME FrameOK(frame),
           \/ \E to \in Routes : FollowNav(to)
           \/ \E key \in Strokes, field \in BOOLEAN : Press(key, field)
           \/ OpenPalette \/ ClickEntry \/ ClickAway
           \/ \E query \in Queries : TypeQuery(query)
           \/ \E i \in 0..2 : Hover(i)
           \/ Disarm
    PROVE  FrameOK(frame')
<1>1. frame \in FrameRecord /\ Matches(frame.query) \in {0, 2, 3}
  BY MatchesBound DEF FrameOK, FrameRecord
<1>2. CASE \E to \in Routes : FollowNav(to)
  BY <1>2, StartingKeeps DEF FollowNav
<1>3. ASSUME NEW key \in Strokes, NEW field \in BOOLEAN, Press(key, field)
      PROVE  FrameOK(frame')
  <2>1. PICK j : j = Jump(frame, key, field)
    OBVIOUS
  <2>2. FrameOK(j)
    BY <2>1, JumpKeeps
  <2>3. PICK f \in PaletteKey(j, key) :
            frame' = Shortcut(IF key = "esc" THEN [f EXCEPT !.help = FALSE] ELSE f, key, field)
    BY <1>3, <2>1 DEF Press
  <2>4. FrameOK(f)
    BY <2>2, PaletteKeyKeeps
  <2>5. PICK g : g = [f EXCEPT !.help = FALSE]
    OBVIOUS
  <2>6. g \in FrameRecord
    BY <2>4, <2>5 DEF FrameOK, FrameRecord
  <2>7. /\ g.path = f.path /\ g.pending = f.pending /\ g.bar = f.bar /\ g.timer = f.timer
        /\ g.stayed = f.stayed /\ g.active = f.active /\ g.query = f.query /\ g.armed = f.armed
        /\ g.aimed = f.aimed /\ g.strayed = f.strayed
    BY <2>4, <2>5 DEF FrameOK, FrameRecord
  <2>8. FrameOK(g)
    BY <2>4, <2>6, <2>7, KeysKeep DEF FrameOK
  <2>9. CASE key = "esc"
    BY <2>3, <2>5, <2>8, <2>9, ShortcutKeeps
  <2>10. CASE key # "esc"
    BY <2>3, <2>4, <2>10, ShortcutKeeps
  <2> QED  BY <2>9, <2>10
<1>4. ASSUME NEW active \in 0..2, NEW query \in Queries, NEW palette \in BOOLEAN,
             frame' = [frame EXCEPT !.palette = palette, !.query = query, !.active = active],
             active \in 0..Matches(query) - 1 \/ Matches(query) = 0
      PROVE  FrameOK(frame')
  <2>1. active \in -1..2
    OBVIOUS
  <2>2. frame' \in FrameRecord /\ frame'.active = active /\ frame'.query = query
    BY <1>1, <1>4, <2>1 DEF FrameRecord
  <2>3. /\ frame'.path = frame.path /\ frame'.pending = frame.pending /\ frame'.bar = frame.bar
        /\ frame'.timer = frame.timer /\ frame'.stayed = frame.stayed /\ frame'.armed = frame.armed
        /\ frame'.aimed = frame.aimed /\ frame'.strayed = frame.strayed
    BY <1>1, <1>4 DEF FrameRecord
  <2> QED  BY <1>4, <2>2, <2>3, KeysKeep DEF FrameOK
<1>5. \A query \in Queries : 0 \in 0..Matches(query) - 1 \/ Matches(query) = 0
  <2> SUFFICES ASSUME NEW query \in Queries
               PROVE  0 \in 0..Matches(query) - 1 \/ Matches(query) = 0
    OBVIOUS
  <2>1. PICK n \in {0, 2, 3} : n = Matches(query)
    BY MatchesBound
  <2>2. 0 \in 0..n - 1 \/ n = 0
    OBVIOUS
  <2> QED  BY <2>1, <2>2
<1>6. CASE OpenPalette
  <2>1. frame' = [frame EXCEPT !.palette = TRUE, !.query = "", !.active = 0]
    BY <1>6 DEF OpenPalette
  <2>2. "" \in Queries
    BY DEF Queries
  <2>3. 0 \in 0..Matches("") - 1 \/ Matches("") = 0
    BY <1>5, <2>2
  <2>4. 0 \in 0..2
    OBVIOUS
  <2> QED  BY <1>4, <2>1, <2>2, <2>3, <2>4
<1>7. CASE ClickEntry
  BY <1>7, RunsKeep DEF ClickEntry
<1>8. CASE ClickAway
  <2>1. CASE frame.help
    <3>1. frame' = [frame EXCEPT !.help = FALSE]
      BY <1>8, <2>1 DEF ClickAway
    <3>2. frame' \in FrameRecord
      BY <1>1, <3>1 DEF FrameRecord
    <3>3. /\ frame'.path = frame.path /\ frame'.pending = frame.pending /\ frame'.bar = frame.bar
          /\ frame'.timer = frame.timer /\ frame'.stayed = frame.stayed /\ frame'.active = frame.active
          /\ frame'.query = frame.query /\ frame'.armed = frame.armed
          /\ frame'.aimed = frame.aimed /\ frame'.strayed = frame.strayed
      BY <1>1, <3>1 DEF FrameRecord
    <3> QED  BY <3>2, <3>3, KeysKeep DEF FrameOK
  <2>2. CASE ~frame.help
    BY <1>8, <2>2, ClosedKeeps DEF ClickAway
  <2> QED  BY <2>1, <2>2
<1>9. ASSUME NEW query \in Queries, TypeQuery(query)
      PROVE  FrameOK(frame')
  <2>1. frame' = [frame EXCEPT !.query = query, !.active = 0]
    BY <1>9 DEF TypeQuery, FirstEntry
  <2>2. PICK palette \in BOOLEAN : palette = frame.palette
    BY <1>1 DEF FrameRecord
  <2>3. frame' = [frame EXCEPT !.palette = palette, !.query = query, !.active = 0]
    BY <1>1, <2>1, <2>2 DEF FrameRecord
  <2>4. 0 \in 0..Matches(query) - 1 \/ Matches(query) = 0
    BY <1>5
  <2>5. 0 \in 0..2
    OBVIOUS
  <2> QED  BY <1>4, <2>3, <2>4, <2>5
<1>10. ASSUME NEW i \in 0..2, Hover(i)
       PROVE  FrameOK(frame')
  <2>1. frame' = [frame EXCEPT !.active = i] /\ i < Matches(frame.query)
    BY <1>10 DEF Hover
  <2>2. PICK palette \in BOOLEAN : palette = frame.palette
    BY <1>1 DEF FrameRecord
  <2>3. PICK query \in Queries : query = frame.query
    BY <1>1 DEF FrameRecord
  <2>4. frame' = [frame EXCEPT !.palette = palette, !.query = query, !.active = i]
    BY <1>1, <2>1, <2>2, <2>3 DEF FrameRecord
  <2>5. i \in 0..Matches(query) - 1
    BY <1>1, <2>1, <2>3
  <2> QED  BY <1>4, <2>4, <2>5
<1>11. CASE Disarm
  <2>1. frame' = [frame EXCEPT !.armed = "no"]
    BY <1>11 DEF Disarm
  <2>2. frame' \in FrameRecord
    BY <1>1, <2>1 DEF FrameRecord
  <2>3. /\ frame'.path = frame.path /\ frame'.pending = frame.pending /\ frame'.bar = frame.bar
        /\ frame'.timer = frame.timer /\ frame'.stayed = frame.stayed /\ frame'.active = frame.active
        /\ frame'.query = frame.query /\ frame'.armed = "no"
        /\ frame'.aimed = frame.aimed /\ frame'.strayed = frame.strayed
    BY <1>1, <2>1 DEF FrameRecord
  <2> QED  BY <2>2, <2>3, KeysKeep DEF FrameOK
<1> QED  BY <1>2, <1>3, <1>6, <1>7, <1>8, <1>9, <1>10, <1>11
LEMMA StaysThere ==
    ASSUME NEW f, f \in FrameRecord, NEW to
    PROVE  /\ Starting(f, to).path = f.path
           /\ \A g \in Runs(f) : g.path = f.path
           /\ \A key, field : Jump(f, key, field).path = f.path
           /\ \A key : \A g \in PaletteKey(f, key) : g.path = f.path
           /\ \A key, field : Shortcut(f, key, field).path = f.path
           /\ [f EXCEPT !.help = FALSE].path = f.path
<1>1. \A g : g \in FrameRecord => \A r : Starting(g, r).path = g.path
  BY DEF Starting, FrameRecord
<1>2. Closed(f) \in FrameRecord /\ Closed(f).path = f.path
  BY DEF Closed, FrameRecord
<1>3. \A g \in Runs(f) : g.path = f.path
  BY <1>1, <1>2 DEF Runs, FrameRecord
<1>4. \A key, field : Jump(f, key, field).path = f.path
  BY DEF Jump, Starting, FrameRecord
<1>5. \A key : \A g \in PaletteKey(f, key) : g.path = f.path
  BY <1>2, <1>3 DEF PaletteKey, FrameRecord
<1>6. \A key, field : Shortcut(f, key, field).path = f.path
  BY DEF Shortcut, FrameRecord
<1> QED  BY <1>1, <1>3, <1>4, <1>5, <1>6 DEF FrameRecord

\* Keys lead nowhere at once: navigation comes with the transition.
LEMMA KeyStepStays ==
    ASSUME FrameOK(frame),
           \/ \E to \in Routes : FollowNav(to)
           \/ \E key \in Strokes, field \in BOOLEAN : Press(key, field)
           \/ OpenPalette \/ ClickEntry \/ ClickAway
           \/ \E query \in Queries : TypeQuery(query)
           \/ \E i \in 0..2 : Hover(i)
           \/ Disarm
    PROVE  frame'.path = frame.path
<1>1. frame \in FrameRecord
  BY DEF FrameOK
<1>2. CASE \E to \in Routes : FollowNav(to)
  BY <1>1, <1>2, StaysThere DEF FollowNav
<1>3. ASSUME NEW key \in Strokes, NEW field \in BOOLEAN, Press(key, field)
      PROVE  frame'.path = frame.path
  <2>1. PICK j : j = Jump(frame, key, field)
    OBVIOUS
  <2>2. j \in FrameRecord /\ j.path = frame.path
    BY <1>1, <2>1, StaysThere, JumpKeeps DEF FrameOK
  <2>3. PICK f \in PaletteKey(j, key) :
            frame' = Shortcut(IF key = "esc" THEN [f EXCEPT !.help = FALSE] ELSE f, key, field)
    BY <1>3, <2>1 DEF Press
  <2>4. f \in FrameRecord /\ f.path = j.path
    BY <2>1, <2>2, JumpKeeps, PaletteKeyKeeps, StaysThere DEF FrameOK
  <2>5. PICK g : g = IF key = "esc" THEN [f EXCEPT !.help = FALSE] ELSE f
    OBVIOUS
  <2>6. g \in FrameRecord /\ g.path = f.path
    <3>1. CASE key = "esc"
      BY <2>4, <2>5, <3>1 DEF FrameRecord
    <3>2. CASE key # "esc"
      BY <2>4, <2>5, <3>2
    <3> QED  BY <3>1, <3>2
  <2>7. frame' = Shortcut(g, key, field)
    BY <2>3, <2>5
  <2>8. Shortcut(g, key, field).path = g.path
    BY <2>6, StaysThere
  <2> QED  BY <2>2, <2>4, <2>6, <2>7, <2>8
<1>4. CASE OpenPalette
  BY <1>1, <1>4 DEF OpenPalette, FrameRecord
<1>5. CASE ClickEntry
  BY <1>1, <1>5, StaysThere DEF ClickEntry
<1>6. CASE ClickAway
  BY <1>1, <1>6 DEF ClickAway, Closed, FrameRecord
<1>7. CASE \E query \in Queries : TypeQuery(query)
  BY <1>1, <1>7 DEF TypeQuery, FrameRecord
<1>8. CASE \E i \in 0..2 : Hover(i)
  BY <1>1, <1>8 DEF Hover, FrameRecord
<1>9. CASE Disarm
  BY <1>1, <1>9 DEF Disarm, FrameRecord
<1> QED  BY <1>2, <1>3, <1>4, <1>5, <1>6, <1>7, <1>8, <1>9
\* A route change: the timer that ends the bar starts with it.
LEMMA RouteKeeps ==
    ASSUME FrameOK(frame), NEW to \in Routes, NEW rest2 \in Seq(Routes),
           frame' = [Timed(frame, to) EXCEPT !.path = to, !.pending = rest2],
           to = frame.path => \/ rest2 = frame.pending
                              \/ frame.pending # <<>> /\ to = Head(frame.pending) /\ rest2 = Tail(frame.pending)
    PROVE  FrameOK(frame')
<1>1. frame \in FrameRecord
  BY DEF FrameOK
<1>2. CASE to # frame.path
  <2>1. frame' = [frame EXCEPT !.timer = TRUE, !.stayed = FALSE, !.path = to, !.pending = rest2]
    BY <1>1, <1>2 DEF Timed, FrameRecord
  <2>2. frame' \in FrameRecord /\ frame'.timer
    BY <1>1, <2>1 DEF FrameRecord
  <2>3. /\ frame'.active = frame.active /\ frame'.query = frame.query /\ frame'.armed = frame.armed
        /\ frame'.aimed = frame.aimed /\ frame'.strayed = frame.strayed
    BY <1>1, <2>1 DEF FrameRecord
  <2> QED  BY <2>2, <2>3 DEF FrameOK
<1>3. CASE to = frame.path
  <2>1. frame' = [frame EXCEPT !.pending = rest2]
    BY <1>1, <1>3 DEF Timed, FrameRecord
  <2>2. frame' \in FrameRecord
    BY <1>1, <2>1 DEF FrameRecord
  <2>3. /\ frame'.active = frame.active /\ frame'.query = frame.query /\ frame'.armed = frame.armed
        /\ frame'.aimed = frame.aimed /\ frame'.strayed = frame.strayed
        /\ frame'.bar = frame.bar /\ frame'.timer = frame.timer /\ frame'.stayed = frame.stayed
        /\ frame'.path = frame.path /\ frame'.pending = rest2
    BY <1>1, <2>1 DEF FrameRecord
  <2>4. ASSUME LeadsOn(frame)
        PROVE  LeadsOn(frame')
    <3>1. CASE rest2 = frame.pending
      BY <2>3, <2>4, <3>1 DEF LeadsOn
    <3>2. CASE frame.pending # <<>> /\ to = Head(frame.pending) /\ rest2 = Tail(frame.pending)
      <4>1. frame.pending \in Seq(Routes) /\ Len(frame.pending) \in Nat \ {0}
        BY <1>1, <3>2 DEF FrameRecord
      <4>2. /\ Len(rest2) = Len(frame.pending) - 1 /\ frame.pending[1] = frame.path
            /\ \A i \in 1..Len(rest2) : rest2[i] = frame.pending[i + 1]
        BY <1>3, <3>2, <4>1
      <4>3. Len(frame.pending) # 1
        BY <2>4, <4>2 DEF LeadsOn
      <4>4. PICK n \in Nat \ {0} : n = Len(frame.pending)
        BY <4>1
      <4>5. n > 1 /\ frame.pending[n] # frame.pending[n - 1]
        <5>1. Len(frame.pending) # 1 =>
                  frame.pending[Len(frame.pending)] # frame.pending[Len(frame.pending) - 1]
          BY <2>4 DEF LeadsOn
        <5>2. frame.pending[n] # frame.pending[n - 1]
          BY <4>3, <4>4, <5>1
        <5>3. n # 1
          BY <4>3, <4>4
        <5>4. n > 1
          BY <5>3
        <5> QED  BY <5>2, <5>4
      <4>6. Len(rest2) = n - 1 /\ rest2[n - 1] = frame.pending[n]
        <5>1. n - 1 \in 1..n - 1 /\ n - 1 + 1 = n
          BY <4>5
        <5> QED  BY <4>2, <4>4, <5>1
      <4>7. n - 1 # 1 => rest2[n - 1 - 1] = frame.pending[n - 1]
        <5>1. n - 1 # 1 => n - 1 - 1 \in 1..n - 1 /\ n - 1 - 1 + 1 = n - 1
          BY <4>5
        <5> QED  BY <4>2, <4>4, <5>1
      <4>8. n - 1 = 1 => frame.pending[n - 1] = frame.path
        BY <4>2
      <4> QED  BY <2>3, <4>5, <4>6, <4>7, <4>8 DEF LeadsOn
    <3> QED  BY <1>3, <3>1, <3>2
  <2> QED  BY <2>2, <2>3, <2>4 DEF FrameOK
<1> QED  BY <1>2, <1>3

LEMMA TransitionKeeps ==
    ASSUME ShellInv, Transition
    PROVE  ShellInv'
<1>1. frame \in FrameRecord /\ FrameOK(frame)
  BY DEF ShellInv, FrameOK
<1>2. frame.pending \in Seq(Routes) /\ frame.pending # <<>>
  BY <1>1 DEF Transition, FrameRecord
<1>3. PICK to \in Routes : to = Head(frame.pending)
  <2>1. Len(frame.pending) \in Nat \ {0}
    BY <1>2
  <2>2. Head(frame.pending) \in Routes
    BY <1>2, <2>1
  <2> QED  BY <2>2
<1>4. PICK rest2 \in Seq(Routes) : rest2 = Tail(frame.pending)
  <2>1. Tail(frame.pending) \in Seq(Routes)
    BY <1>2
  <2> QED  BY <2>1
<1>5. PICK f : f = Timed(frame, to)
  OBVIOUS
<1>6. f \in FrameRecord /\ f.pending = frame.pending
  BY <1>1, <1>5 DEF Timed, FrameRecord
<1>7. frame' = [f EXCEPT !.path = to, !.pending = Tail(f.pending)]
  BY <1>3, <1>5 DEF Transition
<1>8. frame' = [f EXCEPT !.path = to, !.pending = rest2] /\ frame'.path = to
  BY <1>4, <1>6, <1>7 DEF FrameRecord
<1>9. FrameOK(frame')
  BY <1>1, <1>3, <1>4, <1>5, <1>8, RouteKeeps DEF Transition
<1>10. ScrollOK'
  <2>1. CASE With("scroll") /\ to # frame.path
    <3>1. PICK room \in 0..2 : Renders(to, room)
      BY <1>3, <2>1 DEF Transition
    <3>2. ScrollOK /\ frame.path \in Routes
      BY <1>1 DEF ShellInv, FrameRecord
    <3>3. With("scroll") /\ With("scroll")'
      BY <2>1, BudgetRests DEF ShellInv, Transition
    <3> QED  BY <1>8, <2>1, <3>1, <3>2, <3>3, RendersKeeps
  <2>2. CASE ~(With("scroll") /\ to # frame.path)
    <3>1. UNCHANGED scroll
      BY <1>3, <2>2 DEF Transition
    <3>2. CASE to = frame.path
      BY <1>8, <3>1, <3>2, ScrollRests, BudgetRests DEF ShellInv, Transition
    <3>3. CASE ~With("scroll")
      BY <1>3, <1>8, <3>1, <3>3, UnusedRests, BudgetRests DEF ShellInv, Transition
    <3> QED  BY <2>2, <3>2, <3>3
  <2> QED  BY <2>1, <2>2
<1>11. DrawerOK' /\ HealthOK' /\ BudgetOK'
  BY DrawerRests, HealthRests, BudgetRests DEF ShellInv, Transition
<1> QED  BY <1>9, <1>10, <1>11 DEF ShellInv

LEMMA TurnKeeps ==
    ASSUME ShellInv, NEW to \in Routes, NEW room \in 0..2, Turn(to, room)
    PROVE  ShellInv'
<1>1. frame \in FrameRecord /\ FrameOK(frame)
  BY DEF ShellInv, FrameOK
<1>2. PICK f : f = Timed(frame, to)
  OBVIOUS
<1>3. f = [frame EXCEPT !.timer = TRUE, !.stayed = FALSE]
  BY <1>2 DEF Turn, Timed
<1>4. f \in FrameRecord /\ f.pending = frame.pending
  BY <1>1, <1>3 DEF FrameRecord
<1>5. PICK rest2 \in Seq(Routes) : rest2 = frame.pending
  BY <1>1 DEF FrameRecord
<1>6. frame' = [f EXCEPT !.path = to]
  BY <1>2 DEF Turn
<1>7. frame' = [f EXCEPT !.path = to, !.pending = rest2] /\ frame'.path = to
  BY <1>4, <1>5, <1>6 DEF FrameRecord
<1>8. FrameOK(frame')
  BY <1>1, <1>2, <1>5, <1>7, RouteKeeps
<1>9. BudgetOK' /\ With("scroll") /\ With("scroll")'
  BY ActsKeeps DEF ShellInv, Turn
<1>10. ScrollOK'
  <2>1. ScrollOK /\ frame.path \in Routes
    BY <1>1 DEF ShellInv, FrameRecord
  <2>2. Renders(to, room) /\ to # frame.path
    BY DEF Turn
  <2> QED  BY <1>7, <1>9, <2>1, <2>2, RendersKeeps
<1>11. DrawerOK' /\ HealthOK'
  BY DrawerRests, HealthRests DEF ShellInv, Turn
<1> QED  BY <1>8, <1>9, <1>10, <1>11 DEF ShellInv

LEMMA EndBarKeeps ==
    ASSUME FrameOK(frame), EndBar
    PROVE  FrameOK(frame') /\ frame'.path = frame.path
<1>1. frame \in FrameRecord /\ frame' = [frame EXCEPT !.timer = FALSE, !.bar = FALSE]
  BY DEF FrameOK, EndBar
<1>2. frame' \in FrameRecord /\ ~frame'.bar
  BY <1>1 DEF FrameRecord
<1>3. /\ frame'.active = frame.active /\ frame'.query = frame.query /\ frame'.armed = frame.armed
      /\ frame'.aimed = frame.aimed /\ frame'.strayed = frame.strayed /\ frame'.path = frame.path
  BY <1>1 DEF FrameRecord
<1> QED  BY <1>2, <1>3 DEF FrameOK

\* Somebody scrolls, a frame is drawn, the content arrives.
LEMMA ScrollKeeps ==
    ASSUME ScrollOK, frame.path \in Routes, UNCHANGED frame, With("scroll") <=> With("scroll")',
           (\E to \in 0..2 : Scroll(to)) \/ NextFrame \/ Loaded
    PROVE  ScrollOK'
<1>1. scroll \in ScrollRecord /\ PlacesAreKept
  BY DEF ScrollOK
<1>2. PICK r \in Routes : r = frame.path /\ r = frame'.path
  OBVIOUS
<1>3. /\ scroll.top \in 0..2 /\ scroll.room \in 0..2 /\ scroll.saved \in [Routes -> 0..2]
      /\ scroll.frame \in 0..2 /\ scroll.due \in BOOLEAN /\ scroll.event \in BOOLEAN
      /\ scroll.left \in [Routes -> 0..2] /\ scroll.short \in SUBSET Routes
  BY <1>1 DEF ScrollRecord
<1>4. ASSUME NEW to \in 0..2, Scroll(to)
      PROVE  ScrollOK'
  <2>1. With("scroll") /\ With("scroll")'
    BY <1>4 DEF Scroll
  <2>2. PICK gone : gone = IF scroll.due THEN scroll.short \cup {r} ELSE scroll.short \ {r}
    OBVIOUS
  <2>3. PICK kept : kept = IF scroll.due THEN scroll.left ELSE [scroll.left EXCEPT ![r] = to]
    OBVIOUS
  <2>4. scroll' = [scroll EXCEPT !.top = to, !.event = TRUE, !.left = kept, !.short = gone]
    BY <1>2, <1>4, <2>2, <2>3 DEF Scroll
  <2>5. gone \in SUBSET Routes /\ kept \in [Routes -> 0..2]
    BY <1>3, <2>2, <2>3
  <2>6. scroll' \in ScrollRecord
    BY <1>1, <2>4, <2>5 DEF ScrollRecord
  <2>7. /\ scroll'.top = to /\ scroll'.left = kept /\ scroll'.short = gone
        /\ scroll'.due = scroll.due /\ scroll'.saved = scroll.saved
    BY <1>1, <2>4 DEF ScrollRecord
  <2>8. r \in gone \/ kept[r] = IF scroll.due THEN scroll.frame ELSE to
    BY <1>3, <2>2, <2>3
  <2>9. \A o \in Routes \ {r} : kept[o] = scroll.left[o] /\ (o \in gone <=> o \in scroll.short)
    BY <1>3, <2>2, <2>3
  <2>10. scroll'.frame = scroll.frame
    BY <1>1, <2>4 DEF ScrollRecord
  <2>11. PlacesAreKept'
    BY <1>1, <1>2, <2>7, <2>9 DEF PlacesAreKept
  <2>12. r \in scroll'.short \/ scroll'.left[r] = IF scroll'.due THEN scroll'.frame ELSE scroll'.top
    BY <2>7, <2>8, <2>10
  <2> QED  BY <1>2, <2>1, <2>6, <2>11, <2>12 DEF ScrollOK
<1>5. CASE NextFrame
  <2>1. With("scroll") /\ With("scroll")'
    BY <1>5 DEF NextFrame, ScrollOK, Unscrolled
  <2>2. PICK saved2 : saved2 = IF scroll.event THEN [scroll.saved EXCEPT ![r] = scroll.top] ELSE scroll.saved
    OBVIOUS
  <2>3. PICK top : top = IF scroll.due THEN Smaller(scroll.frame, scroll.room) ELSE scroll.top
    OBVIOUS
  <2>4. PICK gone : gone = IF scroll.due /\ top # scroll.frame THEN scroll.short \cup {r} ELSE scroll.short
    OBVIOUS
  <2>5. PICK moved \in BOOLEAN : moved = (top # scroll.top)
    OBVIOUS
  <2>6. scroll' = [scroll EXCEPT !.saved = saved2, !.top = top, !.due = FALSE, !.event = moved, !.short = gone]
    BY <1>2, <1>5, <2>2, <2>3, <2>4, <2>5 DEF NextFrame
  <2>7. saved2 \in [Routes -> 0..2] /\ top \in 0..2 /\ gone \in SUBSET Routes
    BY <1>3, <2>2, <2>3, <2>4, SmallerIs
  <2>8. scroll' \in ScrollRecord
    BY <1>1, <2>5, <2>6, <2>7 DEF ScrollRecord
  <2>9. /\ scroll'.top = top /\ scroll'.left = scroll.left /\ scroll'.short = gone
        /\ scroll'.due = FALSE /\ scroll'.saved = saved2
    BY <1>1, <2>6 DEF ScrollRecord
  <2>10. r \in gone \/ scroll.left[r] = top
    BY <1>2, <2>3, <2>4 DEF ScrollOK
  <2>11. \A o \in Routes \ {r} : saved2[o] = scroll.saved[o] /\ (o \in gone <=> o \in scroll.short)
    BY <1>3, <2>2, <2>4
  <2>12. PlacesAreKept'
    BY <1>1, <1>2, <2>9, <2>11 DEF PlacesAreKept
  <2> QED  BY <1>2, <2>1, <2>8, <2>9, <2>10, <2>12 DEF ScrollOK
<1>6. CASE Loaded
  <2>1. With("scroll") /\ With("scroll")'
    BY <1>6 DEF Loaded, ScrollOK, Unscrolled
  <2>2. scroll' = [scroll EXCEPT !.room = 2]
    BY <1>6 DEF Loaded
  <2>3. scroll' \in ScrollRecord
    BY <1>1, <2>2 DEF ScrollRecord
  <2>4. /\ scroll'.top = scroll.top /\ scroll'.left = scroll.left /\ scroll'.short = scroll.short
        /\ scroll'.due = scroll.due /\ scroll'.saved = scroll.saved /\ scroll'.frame = scroll.frame
    BY <1>1, <2>2 DEF ScrollRecord
  <2> QED  BY <1>2, <2>1, <2>3, <2>4 DEF ScrollOK, PlacesAreKept
<1> QED  BY <1>4, <1>5, <1>6

LEMMA DrawerKeeps ==
    ASSUME DrawerOK, DrawerStep
    PROVE  DrawerOK'
<1>1. drawer \in DrawerRecord /\ {"panel", "first", "last"} = Inside
  BY DEF DrawerOK, Inside
<1>2. ASSUME NEW from \in Inside \cup {"button", "body", "page"}, drawer' = Opened(from)
      PROVE  DrawerOK'
  BY <1>1, <1>2 DEF DrawerOK, DrawerRecord, Opened
<1>3. CASE PressMenu
  BY <1>2, <1>3 DEF PressMenu
<1>4. CASE Swipe
  BY <1>1, <1>2, <1>4 DEF Swipe, DrawerRecord
<1>5. CASE FocusDrawer
  BY <1>1, <1>5 DEF FocusDrawer, DrawerOK, DrawerRecord
<1>6. CASE CloseDrawer
  BY <1>1, <1>6 DEF CloseDrawer, DrawerOK, DrawerRecord
<1>7. ASSUME NEW back \in BOOLEAN, Tab(back)
      PROVE  DrawerOK'
  <2>1. PICK next \in Inside \cup {"page"} :
            /\ next \in CASE drawer.focus = "panel" -> IF back THEN {"page"} ELSE {"first"}
                          [] drawer.focus = "first" -> {IF back THEN Wraps("first") ELSE "last"}
                          [] drawer.focus = "last" -> {IF back THEN "first" ELSE Wraps("last")}
                          [] OTHER -> IF back THEN {"page"} ELSE {"page", "first"}
            /\ drawer' = [drawer EXCEPT !.focus = next,
                              !.lost = drawer.lost \/ (drawer.focus = "panel" /\ back)]
    BY <1>7 DEF Tab
  <2>2. PICK lost \in BOOLEAN : lost = (drawer.lost \/ (drawer.focus = "panel" /\ back))
    OBVIOUS
  <2>3. drawer' = [drawer EXCEPT !.focus = next, !.lost = lost]
    BY <2>1, <2>2
  <2>4. drawer' \in DrawerRecord /\ drawer'.focus = next /\ drawer'.lost = lost
    BY <1>1, <2>3 DEF DrawerRecord
  <2>5. next \in Inside \/ lost
    <3>1. CASE drawer.focus = "panel"
      BY <1>1, <2>1, <2>2, <3>1
    <3>2. CASE drawer.focus = "first"
      BY <1>1, <2>1, <3>2 DEF Wraps
    <3>3. CASE drawer.focus = "last"
      BY <1>1, <2>1, <3>3 DEF Wraps
    <3>4. CASE drawer.focus \notin Inside
      <4>1. drawer.lost
        BY <1>7, <3>4 DEF Tab, DrawerOK
      <4> QED  BY <2>2, <4>1
    <3> QED  BY <1>1, <3>1, <3>2, <3>3, <3>4
  <2> QED  BY <2>4, <2>5 DEF DrawerOK
<1> QED  BY <1>3, <1>4, <1>5, <1>6, <1>7 DEF DrawerStep

LEMMA HealthKeeps ==
    ASSUME HealthOK, HealthStep
    PROVE  HealthOK'
<1> DEFINE APing == [n : Nat, says : {"none", "ok", "down"}]
<1>1. health \in HealthRecord
  BY DEF HealthOK
<1>2. /\ health.pings \in SUBSET APing /\ health.count \in Nat /\ health.last \in Nat
      /\ health.state \in {"unknown", "ok", "down"} /\ health.found \in {"unknown", "ok", "down"}
  BY <1>1 DEF HealthRecord
<1>3. CASE Flap
  <2>1. PICK up \in BOOLEAN : up = ~health.up
    OBVIOUS
  <2>2. health' = [health EXCEPT !.up = up]
    BY <1>3, <2>1 DEF Flap
  <2>3. health' \in HealthRecord
    BY <1>1, <2>2 DEF HealthRecord
  <2>4. /\ health'.pings = health.pings /\ health'.count = health.count /\ health'.last = health.last
        /\ health'.late = health.late /\ health'.state = health.state /\ health'.found = health.found
    BY <1>1, <2>2 DEF HealthRecord
  <2> QED  BY <2>3, <2>4 DEF HealthOK, PillIsNewest
<1>4. CASE Ping
  <2>1. PICK m \in Nat : m = health.count + 1
    BY <1>2
  <2>2. PICK p : p = [n |-> m, says |-> "none"]
    OBVIOUS
  <2>3. p \in APing
    BY <2>2
  <2>4. health' = [health EXCEPT !.count = health.count + 1, !.pings = health.pings \cup {p}]
    BY <1>4, <2>1, <2>2 DEF Ping
  <2>5. health' = [health EXCEPT !.count = m, !.pings = health.pings \cup {p}]
    BY <2>1, <2>4
  <2>6. health' \in HealthRecord
    BY <1>1, <1>2, <2>3, <2>5 DEF HealthRecord
  <2>7. /\ health'.pings = health.pings \cup {p} /\ health'.count = health.count + 1
        /\ health'.last = health.last
        /\ health'.late = health.late /\ health'.state = health.state /\ health'.found = health.found
    BY <1>1, <2>4 DEF HealthRecord
  <2>8. p.n = health.count + 1
    BY <2>1, <2>2
  <2>9. \A o \in health.pings : o.n <= health.count /\ o.n # health.last /\ o.n \in Nat
    BY <1>2 DEF HealthOK
  <2>10. \A o \in health'.pings : o.n <= health'.count /\ o.n # health'.last
    BY <1>2, <2>7, <2>8, <2>9 DEF HealthOK
  <2>11. \A o, q \in health'.pings : o.n = q.n => o = q
    BY <1>2, <2>7, <2>8, <2>9 DEF HealthOK
  <2>12. health'.last <= health'.count
    BY <1>2, <2>7 DEF HealthOK
  <2>13. PillIsNewest'
    BY <2>7 DEF HealthOK, PillIsNewest
  <2> QED  BY <2>6, <2>10, <2>11, <2>12, <2>13 DEF HealthOK
<1>5. ASSUME NEW p \in health.pings, Pinged(p)
      PROVE  HealthOK'
  <2>1. PICK says \in {"ok", "down"} : says = IF health.up THEN "ok" ELSE "down"
    OBVIOUS
  <2>2. PICK q : q = [p EXCEPT !.says = says]
    OBVIOUS
  <2>3. p \in APing
    BY <1>2
  <2>4. q \in APing /\ q.n = p.n
    BY <2>2, <2>3
  <2>5. health' = [health EXCEPT !.pings = (health.pings \ {p}) \cup {q}]
    BY <1>5, <2>1, <2>2 DEF Pinged
  <2>6. health' \in HealthRecord
    BY <1>1, <1>2, <2>4, <2>5 DEF HealthRecord
  <2>7. /\ health'.pings = (health.pings \ {p}) \cup {q} /\ health'.count = health.count
        /\ health'.last = health.last
        /\ health'.late = health.late /\ health'.state = health.state /\ health'.found = health.found
    BY <1>1, <2>5 DEF HealthRecord
  <2>8. \A o \in health'.pings : o.n <= health'.count /\ o.n # health'.last
    BY <2>4, <2>7 DEF HealthOK
  <2>9. \A o, r \in health'.pings : o.n = r.n => o = r
    BY <2>4, <2>7 DEF HealthOK
  <2>10. health'.last <= health'.count
    BY <2>7 DEF HealthOK
  <2>11. PillIsNewest'
    BY <2>7 DEF HealthOK, PillIsNewest
  <2> QED  BY <2>6, <2>8, <2>9, <2>10, <2>11 DEF HealthOK
<1>6. ASSUME NEW p \in health.pings, PingAnswered(p)
      PROVE  HealthOK'
  <2>1. p \in APing /\ p.says # "none"
    BY <1>2, <1>6 DEF PingAnswered
  <2>2. p.n \in Nat /\ p.says \in {"none", "ok", "down"}
    BY <2>1
  <2>3. p.n \in Nat /\ p.says \in {"ok", "down"}
    BY <2>1, <2>2
  <2>4. PICK late \in BOOLEAN : late = (p.n < health.last)
    <3>1. CASE p.n < health.last
      <4>1. TRUE = (p.n < health.last)
        BY <3>1
      <4> QED  BY <4>1
    <3>2. CASE ~(p.n < health.last)
      <4>1. (p.n < health.last) = FALSE
        BY <3>2
      <4> QED  BY <4>1
    <3> QED  BY <3>1, <3>2
  <2>5. PICK last \in Nat : last = Larger(p.n, health.last)
    BY <1>2, <2>3 DEF Larger
  <2>6. PICK found \in {"unknown", "ok", "down"} : found = IF p.n > health.last THEN p.says ELSE health.found
    BY <1>2, <2>3
  <2>7. health' = [health EXCEPT !.pings = health.pings \ {p}, !.state = p.says, !.late = late,
                                 !.last = last, !.found = found]
    BY <1>6, <2>4, <2>5, <2>6 DEF PingAnswered, Shows
  <2>8. health' \in HealthRecord
    BY <1>1, <1>2, <2>3, <2>7 DEF HealthRecord
  <2>9. /\ health'.pings = health.pings \ {p} /\ health'.count = health.count /\ health'.last = last
        /\ health'.late = late /\ health'.state = p.says /\ health'.found = found
    BY <1>1, <2>7 DEF HealthRecord
  <2>10. p.n <= health.count /\ p.n # health.last /\ health.last <= health.count
    BY DEF HealthOK
  <2>11. last = p.n \/ last = health.last
    BY <2>5 DEF Larger
  <2>12. health'.last <= health'.count
    BY <2>9, <2>10, <2>11
  <2>13. \A o \in health'.pings : o.n <= health'.count /\ o.n # health'.last
    BY <2>9, <2>11 DEF HealthOK
  <2>14. \A o, r \in health'.pings : o.n = r.n => o = r
    BY <2>9 DEF HealthOK
  <2>15. late \/ p.says = found
    <3>1. CASE p.n > health.last
      BY <2>6, <3>1
    <3>2. CASE ~(p.n > health.last)
      <4>1. p.n < health.last
        BY <1>2, <2>3, <2>10, <3>2
      <4> QED  BY <2>4, <4>1
    <3> QED  BY <3>1, <3>2
  <2>16. PillIsNewest'
    BY <2>9, <2>15 DEF PillIsNewest
  <2> QED  BY <2>8, <2>12, <2>13, <2>14, <2>16 DEF HealthOK
<1> QED  BY <1>3, <1>4, <1>5, <1>6 DEF HealthStep

LEMMA ShellStep ==
    ASSUME ShellInv, [ShellNext]_shellVars
    PROVE  ShellInv'
<1>1. FrameOK(frame) /\ frame \in FrameRecord /\ frame.path \in Routes
  BY DEF ShellInv, FrameOK, FrameRecord
<1>2. ASSUME FrameOK(frame'), frame'.path = frame.path, UNCHANGED <<drawer, scroll, health>>,
             BudgetOK', With("scroll") <=> With("scroll")'
      PROVE  ShellInv'
  BY <1>2, ScrollRests, DrawerRests, HealthRests DEF ShellInv
<1>3. CASE \/ \E to \in Routes : FollowNav(to)
           \/ \E key \in Strokes, field \in BOOLEAN : Press(key, field)
           \/ OpenPalette \/ ClickEntry \/ ClickAway
           \/ \E query \in Queries : TypeQuery(query)
           \/ \E i \in 0..2 : Hover(i)
           \/ Disarm
  <2>1. FrameOK(frame')
    BY <1>1, <1>3, KeyStepKeeps
  <2>2. frame'.path = frame.path
    BY <1>1, <1>3, KeyStepStays
  <2>3. UNCHANGED <<drawer, scroll, health>>
    BY <1>3 DEF FollowNav, Press, OpenPalette, ClickEntry, ClickAway, TypeQuery, Hover, Disarm
  <2>4. Acts \/ UNCHANGED budget
    BY <1>3 DEF FollowNav, Press, OpenPalette, ClickEntry, ClickAway, TypeQuery, Hover, Disarm
  <2>5. BudgetOK' /\ (With("scroll") <=> With("scroll")')
    BY <2>4, ActsKeeps, BudgetRests DEF ShellInv
  <2> QED  BY <1>2, <2>1, <2>2, <2>3, <2>5
<1>4. CASE Transition
  BY <1>4, TransitionKeeps
<1>5. CASE EndBar
  BY <1>1, <1>2, <1>5, EndBarKeeps, BudgetRests DEF ShellInv, EndBar
<1>6. CASE \E to \in Routes, room \in 0..2 : Turn(to, room)
  BY <1>6, TurnKeeps
<1>7. CASE (\E to \in 0..2 : Scroll(to)) \/ NextFrame \/ Loaded
  <2>1. UNCHANGED <<frame, drawer, health>> /\ (Acts \/ UNCHANGED budget)
    BY <1>7 DEF Scroll, NextFrame, Loaded
  <2>2. BudgetOK' /\ (With("scroll") <=> With("scroll")')
    BY <2>1, ActsKeeps, BudgetRests DEF ShellInv
  <2>3. ScrollOK'
    BY <1>1, <1>7, <2>1, <2>2, ScrollKeeps DEF ShellInv
  <2>4. FrameOK(frame') /\ DrawerOK' /\ HealthOK'
    BY <1>1, <2>1, DrawerRests, HealthRests DEF ShellInv
  <2> QED  BY <2>2, <2>3, <2>4 DEF ShellInv
<1>8. CASE DrawerStep
  <2>1. UNCHANGED <<frame, scroll, health>> /\ (Acts \/ UNCHANGED budget)
    BY <1>8 DEF DrawerStep, PressMenu, Swipe, FocusDrawer, CloseDrawer, Tab
  <2>2. BudgetOK' /\ (With("scroll") <=> With("scroll")')
    BY <2>1, ActsKeeps, BudgetRests DEF ShellInv
  <2>3. DrawerOK'
    BY <1>8, DrawerKeeps DEF ShellInv
  <2>4. FrameOK(frame') /\ ScrollOK' /\ HealthOK'
    BY <1>1, <2>1, <2>2, ScrollRests, HealthRests DEF ShellInv
  <2> QED  BY <2>2, <2>3, <2>4 DEF ShellInv
<1>9. CASE HealthStep
  <2>1. UNCHANGED <<frame, drawer, scroll>> /\ (Acts \/ UNCHANGED budget)
    BY <1>9 DEF HealthStep, Flap, Ping, Pinged, PingAnswered
  <2>2. BudgetOK' /\ (With("scroll") <=> With("scroll")')
    BY <2>1, ActsKeeps, BudgetRests DEF ShellInv
  <2>3. HealthOK'
    BY <1>9, HealthKeeps DEF ShellInv
  <2>4. FrameOK(frame') /\ ScrollOK' /\ DrawerOK'
    BY <1>1, <2>1, <2>2, ScrollRests, DrawerRests DEF ShellInv
  <2> QED  BY <2>2, <2>3, <2>4 DEF ShellInv
<1>10. CASE UNCHANGED shellVars
  <2>1. UNCHANGED <<drawer, scroll, health, budget, frame>>
    BY <1>10 DEF shellVars
  <2> QED  BY <1>1, <1>2, <2>1, BudgetRests DEF ShellInv
<1> QED  BY <1>3, <1>4, <1>5, <1>6, <1>7, <1>8, <1>9, <1>10 DEF ShellNext, KeyStep, ScrollStep

LEMMA ShellInvKeeps == ShellInv => FrameKeeps /\ ShellTypeOK
<1> SUFFICES ASSUME ShellInv
             PROVE  FrameKeeps /\ ShellTypeOK
  OBVIOUS
<1>1. FrameOK(frame) /\ frame \in FrameRecord /\ DrawerOK /\ ScrollOK /\ HealthOK
  BY DEF ShellInv, FrameOK
<1>2. BarEnds
  <2>1. LeadsOn(frame) => frame.pending # <<>>
    <3>1. frame.pending \in Seq(Routes)
      BY <1>1 DEF FrameRecord
    <3>2. frame.pending = <<>> => Len(frame.pending) = 0
      BY <3>1
    <3> QED  BY <3>2 DEF LeadsOn
  <2> QED  BY <1>1, <2>1 DEF BarEnds, FrameOK
<1>3. PaletteAims /\ FieldsAreText /\ FocusStaysIn /\ PlacesAreKept /\ PillIsNewest
  BY <1>1 DEF PaletteAims, FieldsAreText, FocusStaysIn, FrameOK, DrawerOK, ScrollOK, HealthOK
<1>4. ShellTypeOK
  BY <1>1 DEF ShellTypeOK, FrameRecord, DrawerOK, DrawerRecord, ScrollOK, ScrollRecord, HealthOK, HealthRecord
<1> QED  BY <1>2, <1>3, <1>4 DEF FrameKeeps

LEMMA ShellHolds == Spec => []ShellInv
<1>1. Init => ShellInv
  BY InitShell DEF Init
<1>2. ShellInv /\ [Next]_pagesVars => ShellInv'
  <2> SUFFICES ASSUME ShellInv, [Next]_pagesVars
               PROVE  [ShellNext]_shellVars
    BY ShellStep
  <2> QED  BY DEF Next, pagesVars
<1> QED  BY <1>1, <1>2, PTL DEF Spec

\* Whatever is pressed, clicked, scrolled and answered in the frame: its bar goes unless a
\* navigation led nowhere, Enter finds its entry, fields take text, the focus stays in the
\* drawer, routes come back where they were left, and the pill shows the newest answer.
THEOREM FrameStays == Spec => []FrameKeeps
<1>1. ShellInv => FrameKeeps
  BY ShellInvKeeps
<1> QED  BY <1>1, ShellHolds, PTL

-----------------------------------------------------------------------------
(* The console                                                             *)

CallKinds == {"load", "create", "update", "invite", "save", "connect"} \cup Boxes
Senders == Filters \cup SavedCards \cup {"tour", "effect", "button", "create", "update", "invite"}
RowSets == UNION {[S -> {"open", "complete"}] : S \in SUBSET Nat}

CallRecord ==
    [n : Nat, what : CallKinds, by : Senders, for : Filters, id : Nat, status : {"open", "complete"},
     lines : Nat, made : Nat, stored : Nat, at : {"sent", "ok", "failed"}, rows : RowSets, asOf : Nat]

BoxRecord == [typed : Nat, result : Nat, last : Nat, doubt : SUBSET {"edited", "overtaken", "failed"}]

ViewRecord ==
    [filter : Filters, busy : BOOLEAN, rows : RowSets, shown : Filters, asOf : Nat, count : Nat, last : Nat,
     doubt : SUBSET {"overtaken", "closure", "failed"}, early : BOOLEAN, told : [said : Nat, stored : Nat],
     box : [Boxes -> BoxRecord], away : SUBSET (SavedCards \cup {"tour"}), asking : BOOLEAN,
     connected : BOOLEAN, socks : SUBSET [n : Nat, open : BOOLEAN], socket : Nat, twice : BOOLEAN]

Entry == [kind : RecordKinds, status : {"open", "complete"}]

RecordsRecord == [list : Seq(Entry), version : Nat, own : Nat]

\* Calls and what is remembered of them are numbered; rows on screen are rows of the list.
Typed ==
    /\ records \in RecordsRecord /\ records.own <= records.version
    /\ saved \subseteq SavedCards \cup {"tour"}
    /\ calls \subseteq CallRecord /\ IsFiniteSet(calls)
    /\ view \in ViewRecord
    /\ view.last <= view.count
    /\ \A b \in Boxes : view.box[b].last <= view.count
    /\ \A c \in calls : c.n \in 1..view.count
    /\ \A c, d \in calls : c.n = d.n => c = d
    /\ \A c \in calls : DOMAIN c.rows \subseteq DOMAIN records.list
    /\ \A c \in calls : c.what = "update" => c.id \in DOMAIN records.list
    /\ \A c \in calls : c.what \in {"create", "invite"} => c.for \in RecordKinds
    /\ \A c \in calls : c.what \in {"create", "update", "invite"} => c.by \in Filters
    /\ \A c \in calls : c.what = "save" => c.by \in SavedCards \cup {"tour"}
    /\ \A c \in calls : c.by = "create" => c.what = "load"
    /\ DOMAIN view.rows \subseteq DOMAIN records.list
Writes == {"create", "update", "invite"}

\* Something under way will show what was written up to now, after the load with number n.
Fix(n) ==
    \/ \E w \in calls : w.what \in Writes
    \/ \E e \in calls : e.what = "load" /\ e.n > n /\ (e.at = "ok" => e.asOf >= records.own)

\* A load that was answered before the last write, and the list on screen, are followed by
\* another; so is a list of another filter.
ListInv ==
    /\ \A d \in calls : d.what = "load" /\ d.at = "ok" =>
           d.asOf >= records.own \/ d.n <= view.last \/ Fix(d.n)
    /\ view.doubt = {} => view.asOf >= records.own \/ Fix(view.last)
    /\ view.doubt = {} => \/ view.shown = view.filter
                          \/ \E e \in calls : e.what = "load" /\ e.for = view.filter /\ e.n > view.last

\* Of the questions under way the newest is the one that stands in the fields, until they are
\* edited.
Answers(b, n) == \E d \in calls : d.what = b /\ d.n > n /\ d.id = view.box[b].typed
AnswerInv ==
    \A b \in Boxes :
        /\ \A c \in calls : c.what = b => c.n # view.box[b].last
        /\ "edited" \notin view.box[b].doubt =>
               \A c \in calls : c.what = b => \/ c.id = view.box[b].typed
                                              \/ c.n < view.box[b].last
                                              \/ Answers(b, c.n)
        /\ view.box[b].doubt = {} =>
               view.box[b].result = view.box[b].typed \/ Answers(b, view.box[b].last)

\* A record being created, and the list that shows it, keep the button busy.
CreateInv ==
    ~view.early =>
        \A c \in calls : c.what = "create" \/ c.by = "create" =>
            /\ view.busy
            /\ \A d \in calls : d.what = "create" \/ d.by = "create" => c.n = d.n

\* What the service has counted and stored.
SaidInv ==
    /\ \A c \in calls : c.what = "invite" =>
           /\ c.at = "sent" => c.made = c.stored
           /\ c.at = "ok" => c.stored = c.made + 1
    /\ \A c \in calls : c.what = "save" /\ c.at = "ok" => c.by \in saved
    /\ ToldIsStored /\ AwayIsStored

\* Connect pressed once at a time: one socket, or the call that asks where it is.
LiveInv ==
    ~view.twice =>
        /\ \A c, d \in calls : c.what = "connect" /\ d.what = "connect" => c.n = d.n
        /\ (\E c \in calls : c.what = "connect") => view.socks = {}
        /\ \A s, t \in view.socks : s = t
        /\ \A s \in view.socks : s.n = view.socket
        /\ view.connected <=> \E s \in view.socks : s.open

ConsoleInv == Typed /\ ListInv /\ AnswerInv /\ CreateInv /\ SaidInv /\ LiveInv

\* How calls move: some are gone, some are new, the others remain what they are.
Alike(c, d) == c.n = d.n /\ c.what = d.what /\ c.by = d.by /\ c.for = d.for /\ c.id = d.id
Moves(gone, new) ==
    /\ \A c \in calls' \ new : \E d \in calls \ gone : Alike(c, d)
    /\ \A d \in calls \ gone : \E c \in calls' \ new : Alike(c, d)

\* What of the view a step leaves.
ListSame ==
    /\ view'.filter = view.filter /\ view'.shown = view.shown /\ view'.asOf = view.asOf
    /\ view'.last = view.last /\ view'.doubt = view.doubt
BoxSame == view'.box = view.box
BusySame == view'.busy = view.busy /\ view'.early = view.early
SaidSame == view'.told = view.told /\ view'.away = view.away
LiveSame ==
    /\ view'.connected = view.connected /\ view'.socks = view.socks
    /\ view'.socket = view.socket /\ view'.twice = view.twice

Adds(e) ==
    /\ e \in CallRecord /\ e.n = view.count + 1 /\ e.at = "sent" /\ e.rows = <<>>
    /\ e.made = 0 /\ e.stored = 0
    /\ view'.count = view.count + 1

LEMMA AddsMoves ==
    ASSUME Typed, NEW e, Adds(e), NEW gone \in SUBSET calls, calls' = (calls \ gone) \cup {e}
    PROVE  Moves(gone, {e})
<1>1. \A c \in calls : c.n # e.n
  BY DEF Typed, Adds, ViewRecord
<1> QED  BY <1>1 DEF Moves, Alike

LEMMA BecomesMoves ==
    ASSUME NEW c \in calls, NEW d, Alike(c, d), Becomes(c, d)
    PROVE  Moves({}, {})
  BY DEF Moves, Alike, Becomes

LEMMA GoneMoves ==
    ASSUME NEW gone \in SUBSET calls, calls' = calls \ gone
    PROVE  Moves(gone, {})
  BY DEF Moves, Alike

\* The rest of the invariant in a step that does not concern it.
LEMMA ListRests ==
    ASSUME ListInv, ListSame, records'.own = records.own,
           \A c \in calls : c.what \in ListCalls => c \in calls',
           \A c \in calls' \ calls : c.what = "load" => c.at = "sent"
    PROVE  ListInv'
<1>1. Writes \subseteq ListCalls /\ "load" \in ListCalls
  BY DEF Writes, ListCalls
<1>2. \A n : Fix(n) => Fix(n)'
  BY <1>1 DEF Fix
<1>3. ASSUME NEW d \in calls', d.what = "load", d.at = "ok"
      PROVE  d.asOf >= records'.own \/ d.n <= view'.last \/ Fix(d.n)'
  <2>1. d \in calls
    BY <1>3
  <2> QED  BY <1>2, <1>3, <2>1 DEF ListInv, ListSame
<1>4. view'.doubt = {} => view'.asOf >= records'.own \/ Fix(view.last)'
  BY <1>2 DEF ListInv, ListSame
<1>5. view'.doubt = {} => \/ view'.shown = view'.filter
                          \/ \E e \in calls' : e.what = "load" /\ e.for = view'.filter /\ e.n > view'.last
  BY <1>1 DEF ListInv, ListSame
<1> QED  BY <1>3, <1>4, <1>5 DEF ListInv, ListSame, Fix

LEMMA AnswerRests ==
    ASSUME AnswerInv, BoxSame, NEW gone, NEW new, Moves(gone, new),
           \A c \in gone \cup new : c.what \notin Boxes
    PROVE  AnswerInv'
<1> SUFFICES ASSUME NEW b \in Boxes
             PROVE  /\ \A c \in calls' : c.what = b => c.n # view'.box[b].last
                    /\ "edited" \notin view'.box[b].doubt =>
                           \A c \in calls' : c.what = b => \/ c.id = view'.box[b].typed
                                                           \/ c.n < view'.box[b].last
                                                           \/ Answers(b, c.n)'
                    /\ view'.box[b].doubt = {} =>
                           view'.box[b].result = view'.box[b].typed \/ Answers(b, view.box[b].last)'
  BY DEF AnswerInv, Answers
<1>1. \A c \in calls' : c.what = b => \E d \in calls : d.what = b /\ d.n = c.n /\ d.id = c.id
  BY DEF Moves, Alike
<1>2. \A d \in calls : d.what = b => \E c \in calls' : c.what = b /\ c.n = d.n /\ c.id = d.id
  BY DEF Moves, Alike
<1>3. \A n : Answers(b, n) => \E c \in calls' : c.what = b /\ c.n > n /\ c.id = view'.box[b].typed
  BY <1>2 DEF Answers, BoxSame
<1>4. \A n : Answers(b, n) => Answers(b, n)'
  BY <1>3 DEF Answers
<1>5. \A c \in calls' : c.what = b => c.n # view'.box[b].last
  BY <1>1 DEF AnswerInv, BoxSame
<1>6. ASSUME "edited" \notin view'.box[b].doubt, NEW c \in calls', c.what = b
      PROVE  c.id = view'.box[b].typed \/ c.n < view'.box[b].last \/ Answers(b, c.n)'
  <2>1. PICK d \in calls : d.what = b /\ d.n = c.n /\ d.id = c.id
    BY <1>1, <1>6
  <2>2. d.id = view.box[b].typed \/ d.n < view.box[b].last \/ Answers(b, d.n)
    BY <1>6, <2>1 DEF AnswerInv, BoxSame
  <2>3. Answers(b, d.n) => Answers(b, c.n)'
    BY <1>3, <2>1 DEF Answers
  <2> QED  BY <2>1, <2>2, <2>3 DEF BoxSame
<1>7. view'.box[b].doubt = {} =>
          view'.box[b].result = view'.box[b].typed \/ Answers(b, view.box[b].last)'
  <2>1. Answers(b, view.box[b].last) => Answers(b, view.box[b].last)'
    BY <1>3 DEF Answers, BoxSame
  <2> QED  BY <2>1 DEF AnswerInv, BoxSame
<1> QED  BY <1>5, <1>6, <1>7

LEMMA CreateRests ==
    ASSUME CreateInv, BusySame, NEW gone, NEW new, Moves(gone, new),
           \A c \in new : c.what # "create" /\ c.by # "create"
    PROVE  CreateInv'
<1>1. \A c \in calls' : c.what = "create" \/ c.by = "create" =>
          \E d \in calls : (d.what = "create" \/ d.by = "create") /\ d.n = c.n
  BY DEF Moves, Alike
<1> QED  BY <1>1 DEF CreateInv, BusySame

LEMMA SaidRests ==
    ASSUME SaidInv, SaidSame, saved \subseteq saved',
           \A c \in calls' : c.what \in {"invite", "save"} =>
               c \in calls \/ (c.at # "ok" /\ (c.at = "sent" => c.made = c.stored))
    PROVE  SaidInv'
  BY DEF SaidInv, SaidSame, ToldIsStored, AwayIsStored

LEMMA LiveRests ==
    ASSUME LiveInv, LiveSame, NEW gone, NEW new, Moves(gone, new),
           \A c \in new : c.what # "connect"
    PROVE  LiveInv'
<1>1. \A c \in calls' : c.what = "connect" => \E d \in calls : d.what = "connect" /\ d.n = c.n
  BY DEF Moves, Alike
<1> QED  BY <1>1 DEF LiveInv, LiveSame

\* Calls keep their types and numbers.
LEMMA TypedAdds ==
    ASSUME Typed, NEW e, Adds(e), NEW gone \in SUBSET calls, calls' = (calls \ gone) \cup {e},
           UNCHANGED <<records, saved>>, view' \in ViewRecord, view'.last = view.last,
           \A b \in Boxes : view'.box[b].last = view.box[b].last, view'.rows = view.rows,
           e.what = "update" => e.id \in DOMAIN records.list,
           e.what \in {"create", "invite"} => e.for \in RecordKinds,
           e.what \in {"create", "update", "invite"} => e.by \in Filters,
           e.what = "save" => e.by \in SavedCards \cup {"tour"},
           e.by = "create" => e.what = "load"
    PROVE  Typed'
<1>1. view.count \in Nat /\ view'.count = view.count + 1 /\ view.last \in Nat
      /\ \A b \in Boxes : view.box[b].last \in Nat
  BY DEF Typed, Adds, ViewRecord, BoxRecord
<1>2. IsFiniteSet(calls')
  <2>1. IsFiniteSet(calls \ gone)
    BY FS_Subset DEF Typed
  <2> QED  BY <2>1, FS_AddElement
<1>3. calls' \subseteq CallRecord
  BY DEF Typed, Adds
<1>4. \A c \in calls' : c.n \in 1..view'.count
  <2>1. \A c \in calls : c.n \in 1..view.count
    BY DEF Typed
  <2> QED  BY <1>1, <2>1 DEF Adds
<1>5. \A c, d \in calls' : c.n = d.n => c = d
  <2>1. \A c \in calls : c.n # e.n
    BY <1>1 DEF Typed, Adds
  <2>2. \A c, d \in calls : c.n = d.n => c = d
    BY DEF Typed
  <2> QED  BY <2>1, <2>2
<1>6. DOMAIN e.rows \subseteq DOMAIN records.list
  BY DEF Adds
<1>7. view'.last <= view'.count /\ \A b \in Boxes : view'.box[b].last <= view'.count
  BY <1>1 DEF Typed
<1>8. /\ \A c \in calls' : DOMAIN c.rows \subseteq DOMAIN records'.list
      /\ \A c \in calls' : c.what = "update" => c.id \in DOMAIN records'.list
      /\ \A c \in calls' : c.what \in {"create", "invite"} => c.for \in RecordKinds
      /\ \A c \in calls' : c.what \in {"create", "update", "invite"} => c.by \in Filters
      /\ \A c \in calls' : c.what = "save" => c.by \in SavedCards \cup {"tour"}
      /\ \A c \in calls' : c.by = "create" => c.what = "load"
      /\ DOMAIN view'.rows \subseteq DOMAIN records'.list
  BY <1>6 DEF Typed
<1>9. records' \in RecordsRecord /\ records'.own <= records'.version /\ saved' \subseteq SavedCards \cup {"tour"}
  BY DEF Typed
<1> QED  BY <1>2, <1>3, <1>4, <1>5, <1>7, <1>8, <1>9 DEF Typed

LEMMA TypedBecomes ==
    ASSUME Typed, NEW c \in calls, NEW d \in CallRecord, Alike(c, d), Becomes(c, d), UNCHANGED view,
           records' \in RecordsRecord, records'.own <= records'.version,
           DOMAIN records.list \subseteq DOMAIN records'.list, DOMAIN d.rows \subseteq DOMAIN records'.list,
           saved' \subseteq SavedCards \cup {"tour"}
    PROVE  Typed'
<1>1. calls' = (calls \ {c}) \cup {d}
  BY DEF Becomes
<1>2. IsFiniteSet(calls')
  <2>1. IsFiniteSet(calls \ {c})
    BY FS_Subset DEF Typed
  <2> QED  BY <1>1, <2>1, FS_AddElement
<1>3. calls' \subseteq CallRecord /\ \A x \in calls' : x.n \in 1..view'.count
  BY <1>1 DEF Typed, Alike
<1>4. \A x, y \in calls' : x.n = y.n => x = y
  BY <1>1 DEF Typed, Alike
<1>5. \A x \in calls' : DOMAIN x.rows \subseteq DOMAIN records'.list
  <2>1. \A x \in calls : DOMAIN x.rows \subseteq DOMAIN records.list
    BY DEF Typed
  <2> QED  BY <1>1, <2>1
<1>6. /\ \A x \in calls' : x.what = "update" => x.id \in DOMAIN records'.list
      /\ \A x \in calls' : x.what \in {"create", "invite"} => x.for \in RecordKinds
      /\ \A x \in calls' : x.what \in {"create", "update", "invite"} => x.by \in Filters
      /\ \A x \in calls' : x.what = "save" => x.by \in SavedCards \cup {"tour"}
      /\ \A x \in calls' : x.by = "create" => x.what = "load"
  BY <1>1 DEF Typed, Alike
<1>7. DOMAIN view'.rows \subseteq DOMAIN records'.list
  BY DEF Typed
<1>8. /\ view' \in ViewRecord /\ view'.last <= view'.count
      /\ \A b \in Boxes : view'.box[b].last <= view'.count
  BY DEF Typed
<1> QED  BY <1>2, <1>3, <1>4, <1>5, <1>6, <1>7, <1>8 DEF Typed

LEMMA TypedDrops ==
    ASSUME Typed, NEW gone \in SUBSET calls, calls' = calls \ gone, UNCHANGED <<records, saved>>,
           view' \in ViewRecord, view'.count = view.count, view'.last <= view.count,
           \A b \in Boxes : view'.box[b].last <= view.count,
           DOMAIN view'.rows \subseteq DOMAIN records.list
    PROVE  Typed'
<1>1. IsFiniteSet(calls') /\ calls' \subseteq calls
  BY FS_Subset DEF Typed
<1>2. calls' \subseteq CallRecord /\ \A x \in calls' : x.n \in 1..view'.count
  BY <1>1 DEF Typed
<1>3. /\ \A x, y \in calls' : x.n = y.n => x = y
      /\ \A x \in calls' : DOMAIN x.rows \subseteq DOMAIN records'.list
      /\ \A x \in calls' : x.what = "update" => x.id \in DOMAIN records'.list
      /\ \A x \in calls' : x.what \in {"create", "invite"} => x.for \in RecordKinds
      /\ \A x \in calls' : x.what \in {"create", "update", "invite"} => x.by \in Filters
      /\ \A x \in calls' : x.what = "save" => x.by \in SavedCards \cup {"tour"}
      /\ \A x \in calls' : x.by = "create" => x.what = "load"
  BY <1>1 DEF Typed
<1> QED  BY <1>1, <1>2, <1>3 DEF Typed

\* A call is served, or fails: the loads that are to show what was written are still there.
LEMMA ListBecomes ==
    ASSUME ListInv, Typed, NEW c \in calls, NEW d, Alike(c, d), Becomes(c, d), UNCHANGED view,
           records'.own \in Nat, records.own \in Nat,
           records'.own = records.own \/ c.what \in Writes,
           d.what = "load" /\ d.at = "ok" => d.asOf >= records'.own
    PROVE  ListInv'
<1>1. calls' = (calls \ {c}) \cup {d}
  BY DEF Becomes
<1>2. CASE c.what \in Writes
  <2>1. d \in calls' /\ d.what \in Writes
    BY <1>1, <1>2 DEF Alike
  <2>2. \A n : Fix(n)'
    BY <2>1 DEF Fix
  <2>3. view.doubt = {} => \/ view.shown = view.filter
                           \/ \E e \in calls' : e.what = "load" /\ e.for = view.filter /\ e.n > view.last
    BY <1>1, <1>2 DEF ListInv, Writes
  <2> QED  BY <2>2, <2>3 DEF ListInv
<1>3. CASE records'.own = records.own
  <2>1. \A n : Fix(n) => Fix(n)'
    <3> SUFFICES ASSUME NEW n, Fix(n)
                 PROVE  Fix(n)'
      OBVIOUS
    <3>1. CASE \E w \in calls : w.what \in Writes
      BY <1>1, <3>1 DEF Fix, Alike
    <3>2. ASSUME NEW e \in calls, e.what = "load", e.n > n, e.at = "ok" => e.asOf >= records.own
          PROVE  Fix(n)'
      <4>1. CASE e = c
        <5>1. d \in calls' /\ d.what = "load" /\ d.n > n
          BY <1>1, <3>2, <4>1 DEF Alike
        <5> QED  BY <5>1 DEF Fix
      <4>2. CASE e # c
        BY <1>1, <1>3, <3>2, <4>2 DEF Fix
      <4> QED  BY <4>1, <4>2
    <3> QED  BY <3>1, <3>2 DEF Fix
  <2>2. \A x \in calls' : x.what = "load" /\ x.at = "ok" =>
            x.asOf >= records'.own \/ x.n <= view.last \/ Fix(x.n)'
    BY <1>1, <1>3, <2>1 DEF ListInv
  <2>3. view.doubt = {} => view.asOf >= records'.own \/ Fix(view.last)'
    BY <1>3, <2>1 DEF ListInv
  <2>4. view.doubt = {} => \/ view.shown = view.filter
                           \/ \E e \in calls' : e.what = "load" /\ e.for = view.filter /\ e.n > view.last
    BY <1>1 DEF ListInv, Alike
  <2> QED  BY <2>2, <2>3, <2>4 DEF ListInv
<1> QED  BY <1>2, <1>3

-----------------------------------------------------------------------------
(* Steps of the console                                                    *)

LEMMA NoRows == <<>> \in RowSets /\ DOMAIN <<>> = {}
<1>1. <<>> \in [{} -> {"open", "complete"}]
  OBVIOUS
<1> QED  BY <1>1 DEF RowSets

LEMMA CallIs ==
    /\ Call \in CallRecord
    /\ Call.what = "load" /\ Call.by = "effect" /\ Call.for = "all" /\ Call.id = 0 /\ Call.at = "sent"
    /\ Call.rows = <<>> /\ Call.made = 0 /\ Call.stored = 0 /\ Call.asOf = 0
<1>1. PICK rows \in RowSets : rows = <<>>
  BY NoRows
<1>2. Call = [n |-> 0, what |-> "load", by |-> "effect", for |-> "all", id |-> 0, status |-> "open",
              lines |-> 0, made |-> 0, stored |-> 0, at |-> "sent", rows |-> rows, asOf |-> 0]
  BY <1>1 DEF Call
<1>3. "load" \in CallKinds /\ "effect" \in Senders /\ "all" \in Filters
  BY DEF CallKinds, Senders, Filters
<1>4. Call \in CallRecord
  BY <1>2, <1>3 DEF CallRecord
<1> QED  BY <1>1, <1>2, <1>4

\* A click that sends a call about anything but a list of another filter, a record or a socket.
LEMMA AddsRests ==
    ASSUME ConsoleInv, NEW e, Adds(e), calls' = calls \cup {e}, UNCHANGED <<records, saved>>,
           view' \in ViewRecord, view'.rows = view.rows, ListSame,
           \A b \in Boxes : view'.box[b].last = view.box[b].last,
           e.what = "update" => e.id \in DOMAIN records.list,
           e.what \in {"create", "invite"} => e.for \in RecordKinds,
           e.what \in {"create", "update", "invite"} => e.by \in Filters,
           e.what = "save" => e.by \in SavedCards \cup {"tour"},
           e.by = "create" => e.what = "load"
    PROVE  /\ Typed' /\ ListInv'
           /\ BoxSame /\ e.what \notin Boxes => AnswerInv'
           /\ BusySame /\ e.what # "create" /\ e.by # "create" => CreateInv'
           /\ SaidSame => SaidInv'
           /\ LiveSame /\ e.what # "connect" => LiveInv'
<1>1. Moves({}, {e})
  BY AddsMoves DEF ConsoleInv
<1>2. Typed'
  <2>1. calls' = (calls \ {}) \cup {e} /\ {} \in SUBSET calls
    OBVIOUS
  <2>2. view'.last = view.last
    BY DEF ListSame
  <2> QED  BY <2>1, <2>2, TypedAdds DEF ConsoleInv
<1>3. ListInv'
  BY ListRests DEF ConsoleInv, Adds
<1>4. BoxSame /\ e.what \notin Boxes => AnswerInv'
  BY <1>1, AnswerRests DEF ConsoleInv
<1>5. BusySame /\ e.what # "create" /\ e.by # "create" => CreateInv'
  BY <1>1, CreateRests DEF ConsoleInv
<1>6. SaidSame => SaidInv'
  BY SaidRests DEF ConsoleInv, Adds
<1>7. LiveSame /\ e.what # "connect" => LiveInv'
  BY <1>1, LiveRests DEF ConsoleInv
<1> QED  BY <1>2, <1>3, <1>4, <1>5, <1>6, <1>7

\* What a click that sends call c leaves of the view v.
LEMMA SubmitsIs ==
    ASSUME Typed, NEW c \in CallRecord, c.at = "sent", c.rows = <<>>, c.made = 0, c.stored = 0,
           NEW v \in ViewRecord, v.count = view.count, Submits(c, v)
    PROVE  /\ \E e : /\ Adds(e) /\ calls' = calls \cup {e}
                     /\ e.what = c.what /\ e.by = c.by /\ e.for = c.for /\ e.id = c.id
           /\ view' \in ViewRecord /\ UNCHANGED <<records, saved>>
           /\ view'.filter = v.filter /\ view'.busy = v.busy /\ view'.rows = v.rows /\ view'.shown = v.shown
           /\ view'.asOf = v.asOf /\ view'.last = v.last /\ view'.doubt = v.doubt /\ view'.early = v.early
           /\ view'.told = v.told /\ view'.box = v.box /\ view'.away = v.away
           /\ view'.connected = v.connected /\ view'.socks = v.socks /\ view'.socket = v.socket
           /\ view'.twice = v.twice
<1>1. PICK n \in Nat : n = view.count + 1
  BY DEF Typed, ViewRecord
<1>2. PICK e : e = [c EXCEPT !.n = n]
  OBVIOUS
<1>3. e \in CallRecord
  BY <1>2 DEF CallRecord
<1>4. /\ e.n = n /\ e.at = "sent" /\ e.rows = <<>> /\ e.made = 0 /\ e.stored = 0
      /\ e.what = c.what /\ e.by = c.by /\ e.for = c.for /\ e.id = c.id
  BY <1>2 DEF CallRecord
<1>5. view' = [v EXCEPT !.count = n] /\ UNCHANGED <<records, saved>>
  BY <1>1 DEF Submits
<1>6. calls' = calls \cup {e}
  BY <1>1, <1>2 DEF Submits
<1>7. view' \in ViewRecord /\ view'.count = n
  BY <1>5 DEF ViewRecord
<1>8. /\ view'.filter = v.filter /\ view'.busy = v.busy /\ view'.rows = v.rows /\ view'.shown = v.shown
      /\ view'.asOf = v.asOf /\ view'.last = v.last /\ view'.doubt = v.doubt /\ view'.early = v.early
      /\ view'.told = v.told /\ view'.box = v.box /\ view'.away = v.away
      /\ view'.connected = v.connected /\ view'.socks = v.socks /\ view'.socket = v.socket
      /\ view'.twice = v.twice
  BY <1>5 DEF ViewRecord
<1>9. Adds(e)
  BY <1>1, <1>3, <1>4, <1>7 DEF Adds
<1> QED  BY <1>4, <1>5, <1>6, <1>7, <1>8, <1>9

LEMMA RefreshKeeps ==
    ASSUME ConsoleInv, Refresh
    PROVE  ConsoleInv'
<1>1. view \in ViewRecord /\ view.filter \in Filters
  BY DEF ConsoleInv, Typed, ViewRecord
<1>2. PICK c : c = [Call EXCEPT !.by = "button", !.for = view.filter]
  OBVIOUS
<1>3. "button" \in Senders /\ "button" # "create" /\ "load" \notin Boxes
  BY DEF Senders, Boxes
<1>4. /\ c \in CallRecord /\ c.at = "sent" /\ c.rows = <<>> /\ c.made = 0 /\ c.stored = 0
      /\ c.what = "load" /\ c.by = "button"
  BY <1>1, <1>2, <1>3, CallIs DEF CallRecord
<1>5. Submits(c, view)
  BY <1>2 DEF Refresh
<1>6. PICK e : /\ Adds(e) /\ calls' = calls \cup {e}
               /\ e.what = c.what /\ e.by = c.by /\ e.for = c.for /\ e.id = c.id
  BY <1>1, <1>4, <1>5, SubmitsIs DEF ConsoleInv
<1>7. view' \in ViewRecord /\ UNCHANGED <<records, saved>> /\ view'.rows = view.rows
      /\ ListSame /\ BoxSame /\ BusySame /\ SaidSame /\ LiveSame
  BY <1>1, <1>4, <1>5, SubmitsIs DEF ConsoleInv, ListSame, BoxSame, BusySame, SaidSame, LiveSame
<1> QED  BY <1>3, <1>4, <1>6, <1>7, AddsRests DEF ConsoleInv, BoxSame

\* Another filter: the list that comes is asked for with it.
LEMMA FilterByKeeps ==
    ASSUME ConsoleInv, NEW f \in Filters, FilterBy(f)
    PROVE  ConsoleInv'
<1>1. view \in ViewRecord
  BY DEF ConsoleInv, Typed
<1>2. PICK c : c = [Call EXCEPT !.for = f]
  OBVIOUS
<1>3. PICK v : v = [view EXCEPT !.filter = f, !.busy = TRUE]
  OBVIOUS
<1>4. /\ c \in CallRecord /\ c.at = "sent" /\ c.rows = <<>> /\ c.made = 0 /\ c.stored = 0
      /\ c.what = "load" /\ c.by = "effect" /\ c.for = f
  BY <1>2, CallIs DEF CallRecord
<1>5. /\ v \in ViewRecord /\ v.count = view.count /\ v.filter = f /\ v.busy = TRUE /\ v.rows = view.rows
      /\ v.shown = view.shown /\ v.asOf = view.asOf /\ v.last = view.last /\ v.doubt = view.doubt
      /\ v.early = view.early /\ v.told = view.told /\ v.box = view.box /\ v.away = view.away
      /\ v.connected = view.connected /\ v.socks = view.socks /\ v.socket = view.socket
      /\ v.twice = view.twice
  BY <1>1, <1>3 DEF ViewRecord
<1>6. Submits(c, v)
  BY <1>2, <1>3 DEF FilterBy
<1>7. PICK e : /\ Adds(e) /\ calls' = calls \cup {e}
               /\ e.what = c.what /\ e.by = c.by /\ e.for = c.for /\ e.id = c.id
  BY <1>4, <1>5, <1>6, SubmitsIs DEF ConsoleInv
<1>8. /\ view' \in ViewRecord /\ UNCHANGED <<records, saved>> /\ view'.rows = view.rows /\ view'.filter = f
      /\ view'.last = view.last /\ view'.doubt = view.doubt /\ view'.asOf = view.asOf /\ view'.busy = TRUE
      /\ view'.early = view.early
      /\ BoxSame /\ SaidSame /\ LiveSame
  BY <1>4, <1>5, <1>6, SubmitsIs DEF ConsoleInv, BoxSame, SaidSame, LiveSame
<1>9. e.what = "load" /\ e.by = "effect" /\ e.for = f /\ "load" \notin Boxes
  BY <1>4, <1>7 DEF Boxes
<1>10. calls' = (calls \ {}) \cup {e} /\ {} \in SUBSET calls
  BY <1>7
<1>11. Moves({}, {e})
  BY <1>7, <1>10, AddsMoves DEF ConsoleInv
<1>12. Typed'
  BY <1>7, <1>8, <1>9, <1>10, TypedAdds DEF ConsoleInv, BoxSame
<1>13. ListInv'
  <2>1. \A n : Fix(n) => Fix(n)'
    BY <1>7, <1>8 DEF Fix
  <2>2. \A d \in calls' : d.what = "load" /\ d.at = "ok" => d \in calls
    BY <1>7 DEF Adds
  <2>3. \A d \in calls' : d.what = "load" /\ d.at = "ok" =>
            d.asOf >= records'.own \/ d.n <= view'.last \/ Fix(d.n)'
    BY <1>8, <2>1, <2>2 DEF ConsoleInv, ListInv
  <2>4. view'.doubt = {} => view'.asOf >= records'.own \/ Fix(view.last)'
    BY <1>8, <2>1 DEF ConsoleInv, ListInv
  <2>5. e \in calls' /\ e.n > view'.last
    <3>1. view.last \in Nat /\ view.count \in Nat /\ view.last <= view.count
      BY <1>1 DEF ConsoleInv, Typed, ViewRecord
    <3> QED  BY <1>7, <1>8, <3>1 DEF Adds
  <2> QED  BY <1>8, <1>9, <2>3, <2>4, <2>5 DEF ListInv, Fix
<1>14. AnswerInv'
  BY <1>8, <1>9, <1>11, AnswerRests DEF ConsoleInv
<1>15. CreateInv'
  <2>1. \A x \in calls' : x.what = "create" \/ x.by = "create" => x \in calls
    BY <1>7, <1>9
  <2> QED  BY <1>8, <2>1 DEF ConsoleInv, CreateInv
<1>16. SaidInv'
  BY <1>7, <1>8, SaidRests DEF ConsoleInv, Adds
<1>17. LiveInv'
  BY <1>8, <1>9, <1>11, LiveRests DEF ConsoleInv
<1> QED  BY <1>12, <1>13, <1>14, <1>15, <1>16, <1>17 DEF ConsoleInv

\* A record is created while no other is.
LEMMA CreateKeeps ==
    ASSUME ConsoleInv, NEW kind \in RecordKinds, CreateRecord(kind)
    PROVE  ConsoleInv'
<1>1. view \in ViewRecord /\ view.filter \in Filters /\ ~view.busy
  BY DEF ConsoleInv, Typed, ViewRecord, CreateRecord, MayCreate
<1>2. PICK c : c = [Call EXCEPT !.what = "create", !.by = view.filter, !.for = kind]
  OBVIOUS
<1>3. PICK v : v = [view EXCEPT !.busy = TRUE]
  OBVIOUS
<1>4. /\ kind \in Filters /\ view.filter \in Senders /\ view.filter # "create"
      /\ "create" \in CallKinds /\ "create" \notin Boxes
  BY <1>1 DEF Filters, Senders, RecordKinds, CallKinds, Boxes
<1>5. /\ c \in CallRecord /\ c.at = "sent" /\ c.rows = <<>> /\ c.made = 0 /\ c.stored = 0
      /\ c.what = "create" /\ c.by = view.filter /\ c.for = kind
  BY <1>2, <1>4, CallIs DEF CallRecord
<1>6. /\ v \in ViewRecord /\ v.count = view.count /\ v.filter = view.filter /\ v.busy = TRUE
      /\ v.rows = view.rows
      /\ v.shown = view.shown /\ v.asOf = view.asOf /\ v.last = view.last /\ v.doubt = view.doubt
      /\ v.early = view.early /\ v.told = view.told /\ v.box = view.box /\ v.away = view.away
      /\ v.connected = view.connected /\ v.socks = view.socks /\ v.socket = view.socket
      /\ v.twice = view.twice
  BY <1>1, <1>3 DEF ViewRecord
<1>7. Submits(c, v)
  BY <1>2, <1>3 DEF CreateRecord
<1>8. PICK e : /\ Adds(e) /\ calls' = calls \cup {e}
               /\ e.what = c.what /\ e.by = c.by /\ e.for = c.for /\ e.id = c.id
  BY <1>5, <1>6, <1>7, SubmitsIs DEF ConsoleInv
<1>9. /\ view' \in ViewRecord /\ UNCHANGED <<records, saved>> /\ view'.rows = view.rows
      /\ view'.busy = TRUE /\ view'.early = view.early
      /\ ListSame /\ BoxSame /\ SaidSame /\ LiveSame
  BY <1>5, <1>6, <1>7, SubmitsIs DEF ConsoleInv, ListSame, BoxSame, SaidSame, LiveSame
<1>10. Typed' /\ ListInv' /\ AnswerInv' /\ SaidInv' /\ LiveInv'
  BY <1>1, <1>4, <1>5, <1>8, <1>9, AddsRests DEF BoxSame
<1>11. CreateInv'
  <2>1. ~view.early => \A x \in calls : x.what # "create" /\ x.by # "create"
    BY <1>1 DEF ConsoleInv, CreateInv
  <2> QED  BY <1>8, <1>9, <2>1 DEF CreateInv
<1> QED  BY <1>10, <1>11 DEF ConsoleInv

LEMMA UpdateKeeps ==
    ASSUME ConsoleInv, NEW i \in DOMAIN records.list, UpdateRecord(i)
    PROVE  ConsoleInv'
<1>1. view \in ViewRecord /\ view.filter \in Filters /\ i \in Nat
  <2>1. records.list \in Seq(Entry)
    BY DEF ConsoleInv, Typed, RecordsRecord
  <2>2. i \in Nat
    BY <2>1
  <2> QED  BY <2>2 DEF ConsoleInv, Typed, ViewRecord
<1>2. PICK status \in {"open", "complete"} : status = IF view.rows[i] = "open" THEN "complete" ELSE "open"
  OBVIOUS
<1>3. PICK c : c = [Call EXCEPT !.what = "update", !.by = view.filter, !.id = i, !.status = status]
  OBVIOUS
<1>4. /\ view.filter \in Senders /\ view.filter # "create"
      /\ "update" \in CallKinds /\ "update" \notin Boxes
  BY <1>1 DEF Filters, Senders, RecordKinds, CallKinds, Boxes
<1>5. /\ c \in CallRecord /\ c.at = "sent" /\ c.rows = <<>> /\ c.made = 0 /\ c.stored = 0
      /\ c.what = "update" /\ c.by = view.filter /\ c.id = i
  BY <1>1, <1>2, <1>3, <1>4, CallIs DEF CallRecord
<1>6. Submits(c, view)
  BY <1>2, <1>3 DEF UpdateRecord
<1>7. PICK e : /\ Adds(e) /\ calls' = calls \cup {e}
               /\ e.what = c.what /\ e.by = c.by /\ e.for = c.for /\ e.id = c.id
  BY <1>1, <1>5, <1>6, SubmitsIs DEF ConsoleInv
<1>8. view' \in ViewRecord /\ UNCHANGED <<records, saved>> /\ view'.rows = view.rows
      /\ ListSame /\ BoxSame /\ BusySame /\ SaidSame /\ LiveSame
  BY <1>1, <1>5, <1>6, SubmitsIs DEF ConsoleInv, ListSame, BoxSame, BusySame, SaidSame, LiveSame
<1> QED  BY <1>1, <1>4, <1>5, <1>7, <1>8, AddsRests DEF ConsoleInv, BoxSame

LEMMA InviteKeeps ==
    ASSUME ConsoleInv, NEW n \in 1..MaxLines + 1, NEW header \in BOOLEAN, BulkInvite(n, header)
    PROVE  ConsoleInv'
<1>1. view \in ViewRecord /\ view.filter \in Filters
  BY DEF ConsoleInv, Typed, ViewRecord
<1>2. PICK lines \in Nat : lines = Least(n, MaxLines) - (IF header THEN 1 ELSE 0)
  BY ConsoleAssumption DEF BulkInvite, Least
<1>3. PICK c : c = [Call EXCEPT !.what = "invite", !.by = view.filter, !.for = "invitation", !.lines = lines]
  OBVIOUS
<1>4. /\ view.filter \in Senders /\ view.filter # "create" /\ "invitation" \in Filters
      /\ "invitation" \in RecordKinds /\ "invite" \in CallKinds /\ "invite" \notin Boxes
  BY <1>1 DEF Filters, Senders, RecordKinds, CallKinds, Boxes
<1>5. /\ c \in CallRecord /\ c.at = "sent" /\ c.rows = <<>> /\ c.made = 0 /\ c.stored = 0
      /\ c.what = "invite" /\ c.by = view.filter /\ c.for = "invitation"
  BY <1>2, <1>3, <1>4, CallIs DEF CallRecord
<1>6. Submits(c, view)
  BY <1>2, <1>3 DEF BulkInvite
<1>7. PICK e : /\ Adds(e) /\ calls' = calls \cup {e}
               /\ e.what = c.what /\ e.by = c.by /\ e.for = c.for /\ e.id = c.id
  BY <1>1, <1>5, <1>6, SubmitsIs DEF ConsoleInv
<1>8. view' \in ViewRecord /\ UNCHANGED <<records, saved>> /\ view'.rows = view.rows
      /\ ListSame /\ BoxSame /\ BusySame /\ SaidSame /\ LiveSame
  BY <1>1, <1>5, <1>6, SubmitsIs DEF ConsoleInv, ListSame, BoxSame, BusySame, SaidSame, LiveSame
<1> QED  BY <1>1, <1>4, <1>5, <1>7, <1>8, AddsRests DEF ConsoleInv, BoxSame

\* Connect pressed again while a socket is under way is "twice".
LEMMA ConnectKeeps ==
    ASSUME ConsoleInv, Connect
    PROVE  ConsoleInv'
<1>1. view \in ViewRecord /\ ~view.connected
  BY DEF ConsoleInv, Typed, Connect
<1>2. PICK again \in BOOLEAN : again = (view.twice \/ view.socks # {} \/ \E c \in calls : c.what = "connect")
  OBVIOUS
<1>3. PICK c : c = [Call EXCEPT !.what = "connect"]
  OBVIOUS
<1>4. PICK v : v = [view EXCEPT !.twice = again]
  OBVIOUS
<1>5. "connect" \in CallKinds /\ "connect" \notin Boxes
  BY DEF CallKinds, Boxes
<1>6. /\ c \in CallRecord /\ c.at = "sent" /\ c.rows = <<>> /\ c.made = 0 /\ c.stored = 0
      /\ c.what = "connect" /\ c.by = "effect"
  BY <1>3, <1>5, CallIs DEF CallRecord
<1>7. /\ v \in ViewRecord /\ v.count = view.count /\ v.filter = view.filter /\ v.busy = view.busy
      /\ v.rows = view.rows
      /\ v.shown = view.shown /\ v.asOf = view.asOf /\ v.last = view.last /\ v.doubt = view.doubt
      /\ v.early = view.early /\ v.told = view.told /\ v.box = view.box /\ v.away = view.away
      /\ v.connected = view.connected /\ v.socks = view.socks /\ v.socket = view.socket
      /\ v.twice = again
  BY <1>1, <1>4 DEF ViewRecord
<1>8. Submits(c, v)
  BY <1>2, <1>3, <1>4 DEF Connect
<1>9. PICK e : /\ Adds(e) /\ calls' = calls \cup {e}
               /\ e.what = c.what /\ e.by = c.by /\ e.for = c.for /\ e.id = c.id
  BY <1>6, <1>7, <1>8, SubmitsIs DEF ConsoleInv
<1>10. /\ view' \in ViewRecord /\ UNCHANGED <<records, saved>> /\ view'.rows = view.rows
       /\ ListSame /\ BoxSame /\ SaidSame /\ BusySame
       /\ view'.connected = view.connected /\ view'.socks = view.socks
       /\ view'.socket = view.socket /\ view'.twice = again
  BY <1>6, <1>7, <1>8, SubmitsIs DEF ConsoleInv, ListSame, BoxSame, SaidSame, BusySame
<1>11. Typed' /\ ListInv' /\ AnswerInv' /\ SaidInv' /\ CreateInv'
  BY <1>5, <1>6, <1>9, <1>10, AddsRests DEF BoxSame
<1>12. LiveInv'
  <2> SUFFICES ASSUME ~again
               PROVE  /\ \A x, d \in calls' : x.what = "connect" /\ d.what = "connect" => x.n = d.n
                      /\ view.socks = {} /\ ~view.connected
    BY <1>1, <1>10 DEF LiveInv
  <2>1. view.socks = {} /\ \A x \in calls : x.what # "connect"
    BY <1>2
  <2> QED  BY <1>1, <1>9, <2>1
<1> QED  BY <1>11, <1>12 DEF ConsoleInv

\* A step of the view alone.
LEMMA ViewRests ==
    ASSUME ConsoleInv, UNCHANGED <<records, saved, calls>>, view' \in ViewRecord, view'.count = view.count,
           view'.rows = view.rows, ListSame, \A b \in Boxes : view'.box[b].last = view.box[b].last
    PROVE  /\ Typed' /\ ListInv'
           /\ BoxSame => AnswerInv'
           /\ BusySame => CreateInv'
           /\ SaidSame => SaidInv'
           /\ LiveSame => LiveInv'
<1>1. Moves({}, {})
  BY DEF Moves, Alike
<1>2. Typed'
  <2>1. calls' = calls \ {} /\ {} \in SUBSET calls
    OBVIOUS
  <2>2. view'.last <= view.count /\ \A b \in Boxes : view'.box[b].last <= view.count
    BY DEF ConsoleInv, Typed, ListSame
  <2>3. DOMAIN view'.rows \subseteq DOMAIN records.list
    BY DEF ConsoleInv, Typed
  <2> QED  BY <2>1, <2>2, <2>3, TypedDrops DEF ConsoleInv
<1>3. ListInv'
  BY ListRests DEF ConsoleInv
<1>4. BoxSame => AnswerInv'
  BY <1>1, AnswerRests DEF ConsoleInv
<1>5. BusySame => CreateInv'
  BY <1>1, CreateRests DEF ConsoleInv
<1>6. SaidSame => SaidInv'
  BY SaidRests DEF ConsoleInv
<1>7. LiveSame => LiveInv'
  BY <1>1, LiveRests DEF ConsoleInv
<1> QED  BY <1>2, <1>3, <1>4, <1>5, <1>6, <1>7

LEMMA EditKeeps ==
    ASSUME ConsoleInv, NEW b \in Boxes, Edit(b)
    PROVE  ConsoleInv'
<1>1. view \in ViewRecord /\ view.box \in [Boxes -> BoxRecord] /\ view.box[b] \in BoxRecord
  BY DEF ConsoleInv, Typed, ViewRecord
<1>2. PICK doubt \in SUBSET {"edited", "overtaken", "failed"} : doubt = view.box[b].doubt \cup {"edited"}
  BY <1>1 DEF BoxRecord
<1>3. PICK typed \in Nat : typed = view.box[b].typed + 1
  BY <1>1 DEF BoxRecord
<1>4. PICK box : box = [view.box[b] EXCEPT !.typed = typed, !.doubt = doubt]
  OBVIOUS
<1>5. box \in BoxRecord /\ box.last = view.box[b].last /\ "edited" \in box.doubt
  BY <1>1, <1>2, <1>4 DEF BoxRecord
<1>6. box = BoxEdited(view.box[b])
  BY <1>2, <1>3, <1>4 DEF BoxEdited
<1>7. view' = [view EXCEPT !.box[b] = box] /\ UNCHANGED <<records, saved, calls>>
  BY <1>6 DEF Edit
<1>8. PICK all \in [Boxes -> BoxRecord] : all = [view.box EXCEPT ![b] = box]
  BY <1>1, <1>5
<1>9. view' = [view EXCEPT !.box = all]
  BY <1>7, <1>8
<1>10. /\ view' \in ViewRecord /\ view'.count = view.count /\ view'.rows = view.rows /\ view'.box = all
       /\ ListSame /\ BusySame /\ SaidSame /\ LiveSame
  BY <1>1, <1>9 DEF ViewRecord, ListSame, BusySame, SaidSame, LiveSame
<1>11. all[b] = box /\ \A o \in Boxes \ {b} : all[o] = view.box[o]
  BY <1>1, <1>8
<1>12. \A o \in Boxes : view'.box[o].last = view.box[o].last
  BY <1>5, <1>10, <1>11
<1>13. Typed' /\ ListInv' /\ CreateInv' /\ SaidInv' /\ LiveInv'
  BY <1>7, <1>10, <1>12, ViewRests
<1>14. AnswerInv'
  <2> SUFFICES ASSUME NEW o \in Boxes
               PROVE  /\ \A c \in calls : c.what = o => c.n # all[o].last
                      /\ "edited" \notin all[o].doubt =>
                             \A c \in calls : c.what = o => \/ c.id = all[o].typed
                                                            \/ c.n < all[o].last
                                                            \/ \E d \in calls : d.what = o /\ d.n > c.n /\ d.id = all[o].typed
                      /\ all[o].doubt = {} =>
                             \/ all[o].result = all[o].typed
                             \/ \E d \in calls : d.what = o /\ d.n > all[o].last /\ d.id = all[o].typed
    BY <1>7, <1>10 DEF AnswerInv, Answers
  <2>1. CASE o = b
    BY <1>5, <1>11, <2>1 DEF ConsoleInv, AnswerInv
  <2>2. CASE o # b
    BY <1>11, <2>2 DEF ConsoleInv, AnswerInv, Answers
  <2> QED  BY <2>1, <2>2
<1> QED  BY <1>13, <1>14 DEF ConsoleInv

\* The newest question is the one that stands in the fields.
LEMMA AskBoxKeeps ==
    ASSUME ConsoleInv, NEW b \in Boxes, AskBox(b)
    PROVE  ConsoleInv'
<1>1. view \in ViewRecord /\ view.box \in [Boxes -> BoxRecord] /\ view.box[b] \in BoxRecord
  BY DEF ConsoleInv, Typed, ViewRecord
<1>2. PICK doubt \in SUBSET {"edited", "overtaken", "failed"} : doubt = view.box[b].doubt \ {"edited"}
  BY <1>1 DEF BoxRecord
<1>3. PICK box : box = [view.box[b] EXCEPT !.doubt = doubt]
  OBVIOUS
<1>4. /\ box \in BoxRecord /\ box.last = view.box[b].last /\ box.typed = view.box[b].typed
      /\ box.last \in Nat
  BY <1>1, <1>2, <1>3 DEF BoxRecord
<1>5. box = BoxAsks(view.box[b])
  BY <1>2, <1>3 DEF BoxAsks
<1>6. PICK all \in [Boxes -> BoxRecord] : all = [view.box EXCEPT ![b] = box]
  BY <1>1, <1>4
<1>7. PICK v : v = [view EXCEPT !.box = all]
  OBVIOUS
<1>8. v = [view EXCEPT !.box[b] = BoxAsks(view.box[b])]
  BY <1>5, <1>6, <1>7
<1>9. PICK c : c = [Call EXCEPT !.what = b, !.id = view.box[b].typed]
  OBVIOUS
<1>10. b \in CallKinds /\ view.box[b].typed \in Nat /\ b \notin ListCalls \cup {"save", "connect"}
  BY <1>1 DEF CallKinds, BoxRecord, Boxes, ListCalls
<1>11. /\ c \in CallRecord /\ c.at = "sent" /\ c.rows = <<>> /\ c.made = 0 /\ c.stored = 0
       /\ c.what = b /\ c.by = "effect" /\ c.id = view.box[b].typed
  BY <1>9, <1>10, CallIs DEF CallRecord
<1>12. /\ v \in ViewRecord /\ v.count = view.count /\ v.filter = view.filter /\ v.busy = view.busy
       /\ v.rows = view.rows
       /\ v.shown = view.shown /\ v.asOf = view.asOf /\ v.last = view.last /\ v.doubt = view.doubt
       /\ v.early = view.early /\ v.told = view.told /\ v.box = all /\ v.away = view.away
       /\ v.connected = view.connected /\ v.socks = view.socks /\ v.socket = view.socket
       /\ v.twice = view.twice
  BY <1>1, <1>7 DEF ViewRecord
<1>13. Submits(c, v)
  BY <1>8, <1>9 DEF AskBox, Query
<1>14. PICK e : /\ Adds(e) /\ calls' = calls \cup {e}
                /\ e.what = c.what /\ e.by = c.by /\ e.for = c.for /\ e.id = c.id
  BY <1>11, <1>12, <1>13, SubmitsIs DEF ConsoleInv
<1>15. /\ view' \in ViewRecord /\ UNCHANGED <<records, saved>> /\ view'.rows = view.rows /\ view'.box = all
       /\ ListSame /\ BusySame /\ SaidSame /\ LiveSame
  BY <1>11, <1>12, <1>13, SubmitsIs DEF ConsoleInv, ListSame, BusySame, SaidSame, LiveSame
<1>16. all[b] = box /\ \A o \in Boxes \ {b} : all[o] = view.box[o]
  BY <1>1, <1>6
<1>17. \A o \in Boxes : view'.box[o].last = view.box[o].last
  BY <1>4, <1>15, <1>16
<1>18. e.what \notin {"update", "create", "invite", "save", "connect"} /\ e.by = "effect"
  BY <1>10, <1>11, <1>14 DEF ListCalls
<1>19. Typed' /\ ListInv' /\ CreateInv' /\ SaidInv' /\ LiveInv'
  BY <1>14, <1>15, <1>17, <1>18, AddsRests
<1>20. AnswerInv'
  <2> SUFFICES ASSUME NEW o \in Boxes
               PROVE  /\ \A x \in calls' : x.what = o => x.n # all[o].last
                      /\ "edited" \notin all[o].doubt =>
                             \A x \in calls' : x.what = o => \/ x.id = all[o].typed
                                                             \/ x.n < all[o].last
                                                             \/ \E d \in calls' : d.what = o /\ d.n > x.n /\ d.id = all[o].typed
                      /\ all[o].doubt = {} =>
                             \/ all[o].result = all[o].typed
                             \/ \E d \in calls' : d.what = o /\ d.n > all[o].last /\ d.id = all[o].typed
    BY <1>15 DEF AnswerInv, Answers
  <2>1. CASE o = b
    <3>1. e \in calls' /\ e.what = b /\ e.id = all[b].typed /\ e.n = view.count + 1
      BY <1>4, <1>11, <1>14, <1>16 DEF Adds
    <3>2. view.count \in Nat /\ all[b].last = view.box[b].last /\ all[b].last \in Nat /\ all[b].last <= view.count
      BY <1>1, <1>4, <1>16 DEF ConsoleInv, Typed, ViewRecord
    <3>3. e.n > all[b].last
      BY <3>1, <3>2
    <3>4. \A x \in calls : x.n \in 1..view.count
      BY DEF ConsoleInv, Typed
    <3>5. \A x \in calls : x.n < e.n
      BY <3>1, <3>2, <3>4
    <3>6. \A x \in calls' : x.what = b => x.n # all[b].last
      BY <1>14, <3>2, <3>3 DEF ConsoleInv, AnswerInv
    <3>7. \A x \in calls' : x.id = all[b].typed \/ e.n > x.n
      BY <1>14, <3>1, <3>5
    <3> QED  BY <2>1, <3>1, <3>3, <3>6, <3>7
  <2>2. CASE o # b
    <3>1. \A x \in calls' : x.what = o => x \in calls
      BY <1>11, <1>14, <2>2
    <3> QED  BY <1>14, <1>16, <2>2, <3>1 DEF ConsoleInv, AnswerInv, Answers
  <2> QED  BY <2>1, <2>2
<1> QED  BY <1>19, <1>20 DEF ConsoleInv

\* The question of the page before an account is erased.
LEMMA AskEraseKeeps ==
    ASSUME ConsoleInv, AskErase \/ CancelErase
    PROVE  ConsoleInv'
<1>1. view \in ViewRecord
  BY DEF ConsoleInv, Typed
<1>2. PICK asking \in BOOLEAN : view' = [view EXCEPT !.asking = asking]
  BY DEF AskErase, CancelErase
<1>3. UNCHANGED <<records, saved, calls>>
  BY DEF AskErase, CancelErase
<1>4. /\ view' \in ViewRecord /\ view'.count = view.count /\ view'.rows = view.rows
      /\ ListSame /\ BoxSame /\ BusySame /\ SaidSame /\ LiveSame
  BY <1>1, <1>2 DEF ViewRecord, ListSame, BoxSame, BusySame, SaidSame, LiveSame
<1> QED  BY <1>3, <1>4, ViewRests DEF ConsoleInv, BoxSame

LEMMA SaveKeeps ==
    ASSUME ConsoleInv, FinishTour \/ \E what \in SavedCards : Save(what)
    PROVE  ConsoleInv'
<1>1. view \in ViewRecord /\ view.away \subseteq SavedCards \cup {"tour"}
  BY DEF ConsoleInv, Typed, ViewRecord
<1>2. PICK what \in SavedCards \cup {"tour"}, asking \in BOOLEAN, away \in SUBSET (SavedCards \cup {"tour"}) :
          /\ Submits([Call EXCEPT !.what = "save", !.by = what], [view EXCEPT !.asking = asking, !.away = away])
          /\ away \ {"tour"} = view.away \ {"tour"}
  <2>1. view.asking \in BOOLEAN /\ "tour" \in SavedCards \cup {"tour"}
    BY <1>1 DEF ViewRecord
  <2>2. CASE FinishTour
    <3>1. PICK asking \in BOOLEAN, away \in SUBSET (SavedCards \cup {"tour"}) :
              asking = view.asking /\ away = view.away \cup {"tour"}
      BY <1>1, <2>1
    <3>2. [view EXCEPT !.away = view.away \cup {"tour"}] = [view EXCEPT !.asking = asking, !.away = away]
      BY <1>1, <3>1 DEF ViewRecord
    <3>3. Submits([Call EXCEPT !.what = "save", !.by = "tour"], [view EXCEPT !.asking = asking, !.away = away])
      BY <2>2, <3>2 DEF FinishTour
    <3>4. away \ {"tour"} = view.away \ {"tour"}
      BY <3>1
    <3> QED  BY <2>1, <3>3, <3>4
  <2>3. ASSUME NEW what \in SavedCards, Save(what)
        PROVE  Submits([Call EXCEPT !.what = "save", !.by = what], [view EXCEPT !.asking = FALSE, !.away = view.away])
    <3>1. [view EXCEPT !.asking = FALSE] = [view EXCEPT !.asking = FALSE, !.away = view.away]
      BY <1>1 DEF ViewRecord
    <3>2. Submits([Call EXCEPT !.what = "save", !.by = what], [view EXCEPT !.asking = FALSE])
      BY <2>3 DEF Save, Waits
    <3> QED  BY <3>1, <3>2
  <2> QED  BY <1>1, <2>2, <2>3
<1>3. PICK c : c = [Call EXCEPT !.what = "save", !.by = what]
  OBVIOUS
<1>4. PICK v : v = [view EXCEPT !.asking = asking, !.away = away]
  OBVIOUS
<1>5. "save" \in CallKinds /\ "save" \notin Boxes /\ what \in Senders /\ what # "create"
  BY <1>2 DEF CallKinds, Boxes, Senders, SavedCards, Inbox, Address, SessionList, Privacy, Request
<1>6. /\ c \in CallRecord /\ c.at = "sent" /\ c.rows = <<>> /\ c.made = 0 /\ c.stored = 0
      /\ c.what = "save" /\ c.by = what
  BY <1>3, <1>5, CallIs DEF CallRecord
<1>7. /\ v \in ViewRecord /\ v.count = view.count /\ v.filter = view.filter /\ v.busy = view.busy
      /\ v.rows = view.rows
      /\ v.shown = view.shown /\ v.asOf = view.asOf /\ v.last = view.last /\ v.doubt = view.doubt
      /\ v.early = view.early /\ v.told = view.told /\ v.box = view.box /\ v.away = away
      /\ v.connected = view.connected /\ v.socks = view.socks /\ v.socket = view.socket
      /\ v.twice = view.twice
  BY <1>1, <1>4 DEF ViewRecord
<1>8. Submits(c, v)
  BY <1>2, <1>3, <1>4
<1>9. PICK e : /\ Adds(e) /\ calls' = calls \cup {e}
               /\ e.what = c.what /\ e.by = c.by /\ e.for = c.for /\ e.id = c.id
  BY <1>6, <1>7, <1>8, SubmitsIs DEF ConsoleInv
<1>10. /\ view' \in ViewRecord /\ UNCHANGED <<records, saved>> /\ view'.rows = view.rows
       /\ view'.told = view.told /\ view'.away = away
       /\ ListSame /\ BoxSame /\ BusySame /\ LiveSame
  BY <1>6, <1>7, <1>8, SubmitsIs DEF ConsoleInv, ListSame, BoxSame, BusySame, LiveSame
<1>11. Typed' /\ ListInv' /\ AnswerInv' /\ CreateInv' /\ LiveInv'
  BY <1>2, <1>5, <1>6, <1>9, <1>10, AddsRests DEF BoxSame
<1>12. SaidInv'
  <2>1. \A x \in calls' : x.what \in {"invite", "save"} => x \in calls \/ (x.at = "sent" /\ x.made = x.stored)
    BY <1>9 DEF Adds
  <2>2. AwayIsStored'
    BY <1>2, <1>10 DEF ConsoleInv, SaidInv, AwayIsStored
  <2> QED  BY <1>10, <2>1, <2>2 DEF ConsoleInv, SaidInv, ToldIsStored
<1> QED  BY <1>11, <1>12 DEF ConsoleInv

\* A call is served or fails.
LEMMA BecomesKeeps ==
    ASSUME ConsoleInv, NEW c \in calls, NEW d \in CallRecord, Alike(c, d), Becomes(c, d), UNCHANGED view,
           records' \in RecordsRecord, records'.own <= records'.version,
           records'.own = records.own \/ c.what \in Writes,
           DOMAIN records.list \subseteq DOMAIN records'.list, DOMAIN d.rows \subseteq DOMAIN records'.list,
           saved \subseteq saved', saved' \subseteq SavedCards \cup {"tour"},
           d.what = "load" /\ d.at = "ok" => d.asOf >= records'.own,
           d.what = "invite" => /\ d.at = "sent" => d.made = d.stored
                                /\ d.at = "ok" => d.stored = d.made + 1,
           d.what = "save" /\ d.at = "ok" => d.by \in saved'
    PROVE  ConsoleInv'
<1>1. Moves({}, {})
  BY BecomesMoves
<1>2. Typed'
  BY TypedBecomes DEF ConsoleInv
<1>3. ListInv'
  <2>1. records'.own \in Nat /\ records.own \in Nat
    BY DEF ConsoleInv, Typed, RecordsRecord
  <2> QED  BY <2>1, ListBecomes DEF ConsoleInv
<1>4. BoxSame /\ BusySame /\ SaidSame /\ LiveSame
  BY DEF BoxSame, BusySame, SaidSame, LiveSame
<1>5. AnswerInv' /\ CreateInv' /\ LiveInv'
  BY <1>1, <1>4, AnswerRests, CreateRests, LiveRests DEF ConsoleInv
<1>6. SaidInv'
  <2>1. calls' = (calls \ {c}) \cup {d}
    BY DEF Becomes
  <2>2. \A x \in calls' : x.what = "invite" =>
            /\ x.at = "sent" => x.made = x.stored
            /\ x.at = "ok" => x.stored = x.made + 1
    BY <2>1 DEF ConsoleInv, SaidInv
  <2>3. \A x \in calls' : x.what = "save" /\ x.at = "ok" => x.by \in saved'
    BY <2>1 DEF ConsoleInv, SaidInv
  <2> QED  BY <1>4, <2>2, <2>3 DEF ConsoleInv, SaidInv, ToldIsStored, AwayIsStored
<1> QED  BY <1>2, <1>3, <1>5, <1>6 DEF ConsoleInv

\* A list with another entry in the place of one.
LEMMA ListPut ==
    ASSUME NEW S, NEW list \in Seq(S), NEW i \in DOMAIN list, NEW r \in S
    PROVE  [list EXCEPT ![i] = r] \in Seq(S) /\ DOMAIN [list EXCEPT ![i] = r] = DOMAIN list
<1>1. PICK n \in Nat : n = Len(list) /\ DOMAIN list = 1..n
  OBVIOUS
<1>2. list \in [1..n -> S]
  BY <1>1
<1>3. [list EXCEPT ![i] = r] \in [1..n -> S]
  BY <1>1, <1>2
<1> QED  BY <1>1, <1>3

LEMMA EntryPut ==
    ASSUME NEW e \in Entry, NEW status \in {"open", "complete"}
    PROVE  [e EXCEPT !.status = status] \in Entry
  BY DEF Entry

LEMMA RecordsAre ==
    ASSUME ConsoleInv
    PROVE  /\ records \in RecordsRecord /\ records.own <= records.version
           /\ records.list \in Seq(Entry)
           /\ records.version \in Nat /\ records.own \in Nat
           /\ DOMAIN records.list = 1..Len(records.list) /\ Len(records.list) \in Nat
           /\ saved \subseteq SavedCards \cup {"tour"}
  BY DEF ConsoleInv, Typed, RecordsRecord

LEMMA StoresIs ==
    ASSUME ConsoleInv, NEW list \in Seq(Entry),
           NEW own \in BOOLEAN, Stores(list, own)
    PROVE  /\ records' \in RecordsRecord /\ records'.own <= records'.version /\ records'.list = list
           /\ ~own => records'.own = records.own
<1>1. PICK n \in Nat : n = records.version + 1
  BY RecordsAre
<1>2. PICK o \in Nat : o = IF own THEN n ELSE records.own
  BY <1>1, RecordsAre
<1>3. records' = [list |-> list, version |-> n, own |-> o]
  BY <1>1, <1>2 DEF Stores
<1>4. o <= n
  BY <1>1, <1>2, RecordsAre
<1> QED  BY <1>2, <1>3, <1>4 DEF RecordsRecord

LEMMA ServeKeeps ==
    ASSUME ConsoleInv, ServeConsole
    PROVE  ConsoleInv'
<1>1. PICK c \in calls : c.at = "sent" /\ (Listed(c) \/ Stored(c) \/ Updated(c) \/ Kept(c))
  BY DEF ServeConsole
<1>2. UNCHANGED view /\ c \in CallRecord /\ DOMAIN c.rows \subseteq DOMAIN records.list
  BY DEF ServeConsole, ConsoleInv, Typed
<1>3. CASE Listed(c)
  <2>1. PICK rows : rows = [i \in Matching(c.for) |-> records.list[i].status]
    OBVIOUS
  <2>2. rows \in RowSets /\ DOMAIN rows \subseteq DOMAIN records.list
    <3>1. PICK S : S = Matching(c.for)
      OBVIOUS
    <3>2. S \subseteq DOMAIN records.list /\ S \in SUBSET Nat
      <4>1. S \subseteq DOMAIN records.list
        BY <3>1 DEF Matching
      <4> QED  BY <4>1, RecordsAre
    <3>3. \A i \in S : records.list[i].status \in {"open", "complete"}
      <4>1. \A i \in S : records.list[i] \in Entry
        BY <3>2, RecordsAre
      <4> QED  BY <4>1 DEF Entry
    <3>4. rows \in [S -> {"open", "complete"}] /\ DOMAIN rows = S
      BY <2>1, <3>1, <3>3
    <3> QED  BY <3>2, <3>4 DEF RowSets
  <2>3. PICK d : d = [c EXCEPT !.at = "ok", !.asOf = records.version, !.rows = rows]
    OBVIOUS
  <2>4. records.version \in Nat
    BY RecordsAre
  <2>5. d \in CallRecord /\ Alike(c, d) /\ d.rows = rows /\ d.asOf = records.version
    BY <1>2, <2>2, <2>3, <2>4 DEF CallRecord, Alike
  <2>6. Becomes(c, d) /\ UNCHANGED <<records, saved>> /\ c.what = "load"
    BY <1>3, <2>1, <2>3 DEF Listed
  <2>7. d.what = "load"
    BY <2>5, <2>6 DEF Alike
  <2>8. d.asOf >= records'.own
    BY <2>5, <2>6, RecordsAre
  <2> QED  BY <1>2, <2>2, <2>5, <2>6, <2>7, <2>8, RecordsAre, BecomesKeeps
<1>4. CASE Stored(c)
  <2>1. PICK r \in Entry : r = [kind |-> c.for, status |-> "open"]
    <3>1. c.for \in RecordKinds
      BY <1>4 DEF Stored, ConsoleInv, Typed
    <3>2. [kind |-> c.for, status |-> "open"] \in Entry
      BY <3>1 DEF Entry
    <3> QED  BY <3>2
  <2>2. PICK list \in Seq(Entry) : list = Append(records.list, r)
    <3>1. records.list \in Seq(Entry)
      BY RecordsAre
    <3>2. Append(records.list, r) \in Seq(Entry)
      BY <3>1
    <3> QED  BY <3>2
  <2>3. Stores(list, TRUE)
    BY <1>4, <2>1, <2>2 DEF Stored
  <2>4. DOMAIN records.list \subseteq DOMAIN list
    BY <2>2, RecordsAre
  <2>5. PICK n \in Nat : n = c.stored + 1
    BY <1>2 DEF CallRecord
  <2>6. PICK d : d = [c EXCEPT !.at = "ok", !.stored = n]
    OBVIOUS
  <2>7. /\ d \in CallRecord /\ Alike(c, d) /\ d.rows = c.rows /\ d.at = "ok" /\ d.stored = n /\ d.made = c.made
        /\ d.what = c.what
    BY <1>2, <2>6 DEF CallRecord, Alike
  <2>8. Becomes(c, d) /\ UNCHANGED saved /\ c.what \in {"create", "invite"}
    BY <1>4, <2>5, <2>6 DEF Stored
  <2>9. records' \in RecordsRecord /\ records'.own <= records'.version /\ records'.list = list
    BY <2>3, StoresIs
  <2>10. c.what = "invite" => d.stored = d.made + 1
    BY <1>1, <2>5, <2>7 DEF ConsoleInv, SaidInv
  <2>11. c.what \in Writes /\ d.what # "load" /\ d.what # "save"
    BY <2>7, <2>8 DEF Writes
  <2> QED  BY <1>2, <2>4, <2>7, <2>8, <2>9, <2>10, <2>11, RecordsAre, BecomesKeeps
<1>5. CASE Updated(c)
  <2>1. c.what = "update" /\ c.id \in DOMAIN records.list /\ c.status \in {"open", "complete"}
    BY <1>2, <1>5 DEF Updated, ConsoleInv, Typed, CallRecord
  <2>2. PICK r \in Entry :
            r = [records.list[c.id] EXCEPT !.status = c.status]
    <3>1. records.list[c.id] \in Entry
      BY <2>1, RecordsAre
    <3> QED  BY <2>1, <3>1, EntryPut
  <2>3. PICK list \in Seq(Entry) :
            list = [records.list EXCEPT ![c.id] = r] /\ DOMAIN list = DOMAIN records.list
    <3>1. records.list \in Seq(Entry)
      BY RecordsAre
    <3>2. /\ [records.list EXCEPT ![c.id] = r] \in Seq(Entry)
          /\ DOMAIN [records.list EXCEPT ![c.id] = r] = DOMAIN records.list
      BY <2>1, <3>1, ListPut
    <3> QED  BY <3>2
  <2>4. Stores(list, TRUE)
    BY <1>5, <2>2, <2>3 DEF Updated
  <2>5. PICK d : d = [c EXCEPT !.at = "ok"]
    OBVIOUS
  <2>6. d \in CallRecord /\ Alike(c, d) /\ d.rows = c.rows /\ d.what = "update"
    BY <1>2, <2>1, <2>5 DEF CallRecord, Alike
  <2>7. Becomes(c, d) /\ UNCHANGED saved
    BY <1>5, <2>5 DEF Updated
  <2>8. records' \in RecordsRecord /\ records'.own <= records'.version /\ records'.list = list
    BY <2>4, StoresIs
  <2>9. c.what \in Writes
    BY <2>1 DEF Writes
  <2> QED  BY <1>2, <2>3, <2>6, <2>7, <2>8, <2>9, RecordsAre, BecomesKeeps
<1>6. CASE Kept(c)
  <2>1. PICK d : d = [c EXCEPT !.at = "ok"]
    OBVIOUS
  <2>2. d \in CallRecord /\ Alike(c, d) /\ d.rows = c.rows /\ d.what = c.what /\ d.by = c.by
    BY <1>2, <2>1 DEF CallRecord, Alike
  <2>3. Becomes(c, d) /\ UNCHANGED records
    BY <1>6, <2>1 DEF Kept
  <2>4. c.what \notin {"load", "invite"}
    BY <1>6 DEF Kept, Boxes
  <2>5. saved \subseteq saved' /\ (c.what = "save" => c.by \in saved')
    BY <1>6 DEF Kept
  <2>6. saved' \subseteq SavedCards \cup {"tour"}
    BY <1>6 DEF Kept, ConsoleInv, Typed
  <2> QED  BY <1>2, <2>2, <2>3, <2>4, <2>5, <2>6, RecordsAre, BecomesKeeps
<1> QED  BY <1>1, <1>3, <1>4, <1>5, <1>6

LEMMA CallFailsKeeps ==
    ASSUME ConsoleInv, CallFails
    PROVE  ConsoleInv'
<1>1. PICK c \in calls : Becomes(c, [c EXCEPT !.at = "failed"])
  BY DEF CallFails
<1>2. PICK d : d = [c EXCEPT !.at = "failed"]
  OBVIOUS
<1>3. c \in CallRecord /\ DOMAIN c.rows \subseteq DOMAIN records.list /\ UNCHANGED <<records, saved, view>>
  BY DEF CallFails, ConsoleInv, Typed
<1>4. d \in CallRecord /\ Alike(c, d) /\ d.rows = c.rows /\ d.at = "failed" /\ Becomes(c, d)
  BY <1>1, <1>2, <1>3 DEF CallRecord, Alike
<1> QED  BY <1>3, <1>4, RecordsAre, BecomesKeeps

LEMMA OtherKeeps ==
    ASSUME ConsoleInv, OtherWrites
    PROVE  ConsoleInv'
<1>1. PICK i \in DOMAIN records.list : Stores([records.list EXCEPT ![i].status = "complete"], FALSE)
  BY DEF OtherWrites
<1>2. UNCHANGED <<saved, calls, view>>
  BY DEF OtherWrites
<1>3. PICK r \in Entry : r = [records.list[i] EXCEPT !.status = "complete"]
  <2>1. records.list[i] \in Entry
    BY RecordsAre
  <2> QED  BY <2>1, EntryPut
<1>4. PICK list \in Seq(Entry) :
          list = [records.list EXCEPT ![i] = r] /\ DOMAIN list = DOMAIN records.list
  <2>1. records.list \in Seq(Entry)
    BY RecordsAre
  <2>2. /\ [records.list EXCEPT ![i] = r] \in Seq(Entry)
        /\ DOMAIN [records.list EXCEPT ![i] = r] = DOMAIN records.list
    BY <2>1, ListPut
  <2> QED  BY <2>2
<1>5. Stores(list, FALSE)
  BY <1>1, <1>3, <1>4
<1>6. /\ records' \in RecordsRecord /\ records'.own <= records'.version /\ records'.list = list
      /\ records'.own = records.own
  BY <1>5, StoresIs
<1>7. Typed'
  BY <1>2, <1>4, <1>6 DEF ConsoleInv, Typed
<1>8. ListSame /\ BoxSame /\ BusySame /\ SaidSame /\ LiveSame /\ Moves({}, {})
  BY <1>2 DEF ListSame, BoxSame, BusySame, SaidSame, LiveSame, Moves, Alike
<1>9. ListInv'
  BY <1>2, <1>6, <1>8, ListRests DEF ConsoleInv
<1>10. AnswerInv' /\ CreateInv' /\ LiveInv'
  BY <1>8, AnswerRests, CreateRests, LiveRests DEF ConsoleInv
<1>11. SaidInv'
  BY <1>2, <1>8, SaidRests DEF ConsoleInv
<1> QED  BY <1>7, <1>9, <1>10, <1>11 DEF ConsoleInv

-----------------------------------------------------------------------------
(* Answers to the console                                                  *)

\* An answer arrives: its call is gone.
LEMMA DropRests ==
    ASSUME ConsoleInv, NEW c \in calls, calls' = calls \ {c}, UNCHANGED <<records, saved>>,
           view' \in ViewRecord, view'.count = view.count, view'.last <= view.count,
           \A b \in Boxes : view'.box[b].last <= view.count,
           DOMAIN view'.rows \subseteq DOMAIN records.list
    PROVE  /\ Typed'
           /\ ListSame /\ c.what \notin ListCalls => ListInv'
           /\ BoxSame /\ c.what \notin Boxes => AnswerInv'
           /\ BusySame => CreateInv'
           /\ SaidSame => SaidInv'
           /\ LiveSame => LiveInv'
<1>1. {c} \in SUBSET calls
  OBVIOUS
<1>2. Moves({c}, {})
  BY <1>1, GoneMoves
<1>3. Typed'
  BY <1>1, TypedDrops DEF ConsoleInv
<1>4. ListSame /\ c.what \notin ListCalls => ListInv'
  BY ListRests DEF ConsoleInv
<1>5. BoxSame /\ c.what \notin Boxes => AnswerInv'
  BY <1>2, AnswerRests DEF ConsoleInv
<1>6. BusySame => CreateInv'
  BY <1>2, CreateRests DEF ConsoleInv
<1>7. SaidSame => SaidInv'
  BY SaidRests DEF ConsoleInv
<1>8. LiveSame => LiveInv'
  BY <1>2, LiveRests DEF ConsoleInv
<1> QED  BY <1>3, <1>4, <1>5, <1>6, <1>7, <1>8

\* What is known of a call under way.
LEMMA CallFacts ==
    ASSUME ConsoleInv, NEW c \in calls
    PROVE  /\ c \in CallRecord /\ c.n \in Nat /\ c.n <= view.count /\ view.count \in Nat
           /\ view.last \in Nat /\ view.last <= view.count
           /\ Later(c.n, view.last) \in Nat /\ Later(c.n, view.last) <= view.count
           /\ c.n <= Later(c.n, view.last) /\ view.last <= Later(c.n, view.last)
           /\ Later(c.n, view.last) \in {c.n, view.last}
           /\ \A d \in calls : d.n = c.n => d = c
<1>1. c \in CallRecord /\ view.count \in Nat /\ view.last \in Nat /\ c.n \in 1..view.count
      /\ view.last <= view.count /\ \A d \in calls : d.n = c.n => d = c
  BY DEF ConsoleInv, Typed, ViewRecord
<1> QED  BY <1>1 DEF Later

\* A load that goes, answered or failed, is remembered as the last.
LEMMA LoadGone ==
    ASSUME ConsoleInv, NEW c \in calls, c.what = "load", calls' = calls \ {c}, UNCHANGED records,
           view'.last = Later(c.n, view.last)
    PROVE  /\ \A n \in Nat : Fix(n) => n < c.n \/ Fix(n)'
           /\ \A d \in calls' : d.what = "load" /\ d.at = "ok" =>
                  d.asOf >= records'.own \/ d.n <= view'.last \/ Fix(d.n)'
<1>1. \A n \in Nat : Fix(n) => n < c.n \/ Fix(n)'
  <2> SUFFICES ASSUME NEW n \in Nat, Fix(n), ~(n < c.n)
               PROVE  Fix(n)'
    OBVIOUS
  <2>1. CASE \E w \in calls : w.what \in Writes
    <3>1. PICK w \in calls : w.what \in Writes
      BY <2>1
    <3>2. w # c
      BY <3>1 DEF Writes
    <3> QED  BY <3>1, <3>2 DEF Fix
  <2>2. CASE \E e \in calls : e.what = "load" /\ e.n > n /\ (e.at = "ok" => e.asOf >= records.own)
    <3>1. PICK e \in calls : e.what = "load" /\ e.n > n /\ (e.at = "ok" => e.asOf >= records.own)
      BY <2>2
    <3>2. e # c
      BY <3>1, CallFacts
    <3> QED  BY <3>1, <3>2 DEF Fix
  <2> QED  BY <2>1, <2>2 DEF Fix
<1>2. ASSUME NEW d \in calls', d.what = "load", d.at = "ok"
      PROVE  d.asOf >= records'.own \/ d.n <= view'.last \/ Fix(d.n)'
  <2>1. d \in calls /\ d.n \in Nat
    BY <1>2, CallFacts
  <2>2. d.asOf >= records.own \/ d.n <= view.last \/ Fix(d.n)
    BY <1>2, <2>1 DEF ConsoleInv, ListInv
  <2>3. CASE d.n <= view.last
    BY <2>1, <2>3, CallFacts
  <2>4. CASE d.n < c.n
    BY <2>1, <2>4, CallFacts
  <2>5. CASE Fix(d.n) /\ ~(d.n < c.n)
    BY <1>1, <2>1, <2>5
  <2> QED  BY <2>2, <2>3, <2>4, <2>5
<1> QED  BY <1>1, <1>2

\* The button rests when the load that kept it busy is gone, and with it the record being created.
LEMMA BusyAfter ==
    ASSUME ConsoleInv, NEW c \in calls, c.what = "load", calls' = calls \ {c},
           view'.busy = Rests(c), view'.early = (view.early \/ TooEarly(c))
    PROVE  CreateInv'
<1> SUFFICES ASSUME ~view.early, ~TooEarly(c)
             PROVE  \A x \in calls \ {c} : x.what = "create" \/ x.by = "create" =>
                        /\ Rests(c)
                        /\ \A d \in calls \ {c} : d.what = "create" \/ d.by = "create" => x.n = d.n
  BY DEF CreateInv
<1>1. \A x, d \in calls : (x.what = "create" \/ x.by = "create") /\ (d.what = "create" \/ d.by = "create") =>
          view.busy /\ x.n = d.n
  BY DEF ConsoleInv, CreateInv
<1>2. CASE c.by = "effect"
  BY <1>2 DEF TooEarly
<1>3. CASE c.by = "create"
  <2>1. \A x \in calls \ {c} : x.what # "create" /\ x.by # "create"
    BY <1>1, <1>3, CallFacts
  <2> QED  BY <2>1
<1>4. CASE c.by \notin {"effect", "create"}
  BY <1>1, <1>4 DEF Rests
<1> QED  BY <1>2, <1>3, <1>4

LEMMA LoadKeeps ==
    ASSUME ConsoleInv, NEW c \in calls, LoadArrives(c)
    PROVE  ConsoleInv'
<1>1. view \in ViewRecord /\ c \in CallRecord /\ c.what = "load" /\ c.at = "ok"
  BY CallFacts DEF ConsoleInv, Typed, LoadArrives
<1>2. PICK last \in Nat : last = Later(c.n, view.last)
  BY CallFacts
<1>3. PICK doubt \in SUBSET {"overtaken", "closure", "failed"} :
          doubt = (IF c.n <= view.last THEN {"overtaken"} ELSE {}) \cup
                  (IF c.for # view.filter THEN {"closure"} ELSE {})
  OBVIOUS
<1>4. PICK busy \in BOOLEAN : busy = Rests(c)
  BY <1>1 DEF Rests, ViewRecord
<1>5. PICK early \in BOOLEAN : early = (view.early \/ TooEarly(c))
  OBVIOUS
<1>6. /\ c.rows \in RowSets /\ c.for \in Filters /\ c.asOf \in Nat
      /\ DOMAIN c.rows \subseteq DOMAIN records.list
  BY <1>1 DEF CallRecord, ConsoleInv, Typed
<1>7. /\ view' = [view EXCEPT !.rows = c.rows, !.shown = c.for, !.asOf = c.asOf, !.last = last,
                              !.doubt = doubt, !.busy = busy, !.early = early]
      /\ calls' = calls \ {c} /\ UNCHANGED <<records, saved>>
  BY <1>2, <1>3, <1>4, <1>5 DEF LoadArrives
<1>8. /\ view' \in ViewRecord /\ view'.count = view.count /\ view'.filter = view.filter
      /\ view'.rows = c.rows /\ view'.shown = c.for /\ view'.asOf = c.asOf /\ view'.last = last
      /\ view'.doubt = doubt /\ view'.busy = busy /\ view'.early = early
      /\ BoxSame /\ SaidSame /\ LiveSame
  BY <1>1, <1>6, <1>7 DEF ViewRecord, BoxSame, SaidSame, LiveSame
<1>9. last <= view.count /\ \A b \in Boxes : view'.box[b].last <= view.count
  BY <1>2, <1>8, CallFacts DEF ConsoleInv, Typed, BoxSame
<1>10. "load" \notin Boxes
  BY DEF Boxes
<1>11. Typed' /\ AnswerInv' /\ SaidInv' /\ LiveInv'
  BY <1>1, <1>6, <1>7, <1>8, <1>9, <1>10, DropRests
<1>12. CreateInv'
  BY <1>1, <1>4, <1>5, <1>7, <1>8, BusyAfter
<1>13. ListInv'
  <2>1. /\ \A n \in Nat : Fix(n) => n < c.n \/ Fix(n)'
        /\ \A d \in calls' : d.what = "load" /\ d.at = "ok" =>
               d.asOf >= records'.own \/ d.n <= view'.last \/ Fix(d.n)'
    BY <1>1, <1>2, <1>7, <1>8, LoadGone
  <2>2. ASSUME doubt = {}
        PROVE  (c.asOf >= records'.own \/ Fix(last)') /\ c.for = view.filter
    <3>1. ~(c.n <= view.last) /\ c.for = view.filter
      BY <1>3, <2>2
    <3>2. last = c.n /\ c.n \in Nat
      BY <1>2, <3>1, CallFacts DEF Later
    <3>3. c.asOf >= records.own \/ Fix(c.n)
      BY <1>1, <3>1 DEF ConsoleInv, ListInv
    <3>4. Fix(c.n) => Fix(c.n)'
      BY <2>1, <3>2
    <3> QED  BY <1>7, <3>1, <3>2, <3>3, <3>4
  <2> QED  BY <1>8, <2>1, <2>2 DEF ListInv, Fix
<1> QED  BY <1>11, <1>12, <1>13 DEF ConsoleInv

\* An answer to a question, or its failure: the others under way are older, or follow it.
LEMMA BoxGone ==
    ASSUME ConsoleInv, NEW c \in calls, c.what \in Boxes, calls' = calls \ {c}, NEW box \in BoxRecord,
           view'.box = [view.box EXCEPT ![c.what] = box],
           box.typed = view.box[c.what].typed, box.last = Later(c.n, view.box[c.what].last),
           "edited" \in box.doubt <=> "edited" \in view.box[c.what].doubt,
           box.doubt = {} => box.result = c.id /\ ~(c.n < view.box[c.what].last)
    PROVE  /\ AnswerInv'
           /\ \A b \in Boxes : view'.box[b].last <= view.count
<1>1. view.box \in [Boxes -> BoxRecord] /\ \A b \in Boxes : view.box[b].last \in Nat /\ view.box[b].last <= view.count
  BY DEF ConsoleInv, Typed, ViewRecord, BoxRecord
<1>2. PICK b \in Boxes : b = c.what
  OBVIOUS
<1>3. view'.box[b] = box /\ \A o \in Boxes \ {b} : view'.box[o] = view.box[o]
  BY <1>1, <1>2
<1>4. /\ \A x \in calls : x.n \in Nat
      /\ \A x \in calls \ {c} : x.n # c.n
  BY CallFacts
<1>5. /\ box.last \in {c.n, view.box[b].last} /\ c.n <= box.last /\ view.box[b].last <= box.last
      /\ box.last <= view.count /\ box.last \in Nat
  BY <1>1, <1>2, CallFacts DEF Later
<1>6. \A o \in Boxes : view'.box[o].last <= view.count
  BY <1>1, <1>3, <1>5
<1>7. AnswerInv'
  <2> SUFFICES ASSUME NEW o \in Boxes
               PROVE  /\ \A x \in calls' : x.what = o => x.n # view'.box[o].last
                      /\ "edited" \notin view'.box[o].doubt =>
                             \A x \in calls' : x.what = o => \/ x.id = view'.box[o].typed
                                                             \/ x.n < view'.box[o].last
                                                             \/ \E d \in calls' : d.what = o /\ d.n > x.n /\ d.id = view'.box[o].typed
                      /\ view'.box[o].doubt = {} =>
                             \/ view'.box[o].result = view'.box[o].typed
                             \/ \E d \in calls' : d.what = o /\ d.n > view'.box[o].last /\ d.id = view'.box[o].typed
    BY DEF AnswerInv, Answers
  <2>1. CASE o # b
    BY <1>2, <1>3, <2>1 DEF ConsoleInv, AnswerInv, Answers
  <2>2. CASE o = b
    <3>1. \A x \in calls' : x.what = b => x.n # box.last
      BY <1>4, <1>5 DEF ConsoleInv, AnswerInv
    <3>2. ASSUME "edited" \notin box.doubt, NEW x \in calls, x.what = b, ~(x.n < view.box[b].last), x.id # box.typed
          PROVE  \E d \in calls : d.what = b /\ d.n > x.n /\ d.id = box.typed
      BY <1>2, <3>2 DEF ConsoleInv, AnswerInv, Answers
    <3>3. ASSUME "edited" \notin box.doubt, NEW x \in calls', x.what = b, x.id # box.typed, ~(x.n < box.last)
          PROVE  \E d \in calls' : d.what = b /\ d.n > x.n /\ d.id = box.typed
      <4>1. x \in calls /\ x.n \in Nat /\ ~(x.n < view.box[b].last) /\ ~(x.n < c.n)
        BY <1>1, <1>4, <1>5, <3>3
      <4>2. PICK d \in calls : d.what = b /\ d.n > x.n /\ d.id = box.typed
        BY <3>2, <3>3, <4>1
      <4>3. d # c
        BY <1>4, <4>1, <4>2
      <4> QED  BY <4>2, <4>3
    <3>4. ASSUME box.doubt = {}, box.result # box.typed
          PROVE  \E d \in calls' : d.what = b /\ d.n > box.last /\ d.id = box.typed
      <4>1. c.id # box.typed /\ ~(c.n < view.box[b].last) /\ "edited" \notin box.doubt
        BY <1>2, <3>4
      <4>2. box.last = c.n
        BY <1>1, <1>4, <1>5, <4>1
      <4>3. PICK d \in calls : d.what = b /\ d.n > c.n /\ d.id = box.typed
        BY <1>2, <3>2, <4>1
      <4>4. d # c
        BY <1>4, <4>3
      <4> QED  BY <4>2, <4>3, <4>4
    <3> QED  BY <1>3, <2>2, <3>1, <3>3, <3>4
  <2> QED  BY <2>1, <2>2
<1> QED  BY <1>6, <1>7

LEMMA BoxKeeps ==
    ASSUME ConsoleInv, NEW c \in calls, BoxAnswered(c)
    PROVE  ConsoleInv'
<1>1. view \in ViewRecord /\ c \in CallRecord /\ c.what \in Boxes
  BY CallFacts DEF ConsoleInv, Typed, BoxAnswered
<1>2. view.box \in [Boxes -> BoxRecord] /\ view.box[c.what] \in BoxRecord
  BY <1>1 DEF ViewRecord
<1>3. PICK old \in BoxRecord : old = view.box[c.what]
  BY <1>2
<1>4. PICK last \in Nat : last = Later(c.n, old.last)
  BY <1>1, <1>3 DEF Later, BoxRecord, CallRecord
<1>5. PICK doubt \in SUBSET {"edited", "overtaken", "failed"} :
          doubt = (old.doubt \cap {"edited"}) \cup (IF c.n < old.last THEN {"overtaken"} ELSE {})
  OBVIOUS
<1>6. PICK box : box = [old EXCEPT !.result = c.id, !.last = last, !.doubt = doubt]
  OBVIOUS
<1>7. /\ box \in BoxRecord /\ box.typed = old.typed /\ box.last = last /\ box.doubt = doubt
      /\ box.result = c.id
  BY <1>1, <1>6 DEF BoxRecord, CallRecord
<1>8. box = BoxShows(view.box[c.what], c)
  BY <1>3, <1>4, <1>5, <1>6 DEF BoxShows
<1>9. PICK all \in [Boxes -> BoxRecord] : all = [view.box EXCEPT ![c.what] = box]
  BY <1>2, <1>7
<1>10. view' = [view EXCEPT !.box = all] /\ calls' = calls \ {c} /\ UNCHANGED <<records, saved>>
  BY <1>8, <1>9 DEF BoxAnswered
<1>11. /\ view' \in ViewRecord /\ view'.count = view.count /\ view'.rows = view.rows /\ view'.box = all
       /\ ListSame /\ BusySame /\ SaidSame /\ LiveSame
  BY <1>1, <1>10 DEF ViewRecord, ListSame, BusySame, SaidSame, LiveSame
<1>12. "edited" \in doubt <=> "edited" \in old.doubt
  BY <1>5
<1>13. doubt = {} => ~(c.n < old.last)
  BY <1>5
<1>14. AnswerInv' /\ \A b \in Boxes : view'.box[b].last <= view.count
  BY <1>1, <1>3, <1>4, <1>7, <1>9, <1>10, <1>11, <1>12, <1>13, BoxGone
<1>15. c.what \notin ListCalls /\ view'.last <= view.count /\ DOMAIN view'.rows \subseteq DOMAIN records.list
  BY <1>1, <1>11 DEF Boxes, ListCalls, ListSame, ConsoleInv, Typed
<1>16. Typed' /\ ListInv' /\ CreateInv' /\ SaidInv' /\ LiveInv'
  BY <1>10, <1>11, <1>14, <1>15, DropRests
<1> QED  BY <1>14, <1>16 DEF ConsoleInv

LEMMA FailedKeeps ==
    ASSUME ConsoleInv, NEW c \in calls, CallFailed(c)
    PROVE  ConsoleInv'
<1>1. view \in ViewRecord /\ c \in CallRecord
  BY CallFacts DEF ConsoleInv, Typed
<1>2. PICK doubt \in SUBSET {"overtaken", "closure", "failed"} :
          doubt = IF c.what \in ListCalls THEN view.doubt \cup {"failed"} ELSE view.doubt
  BY <1>1 DEF ViewRecord
<1>3. PICK last : last = CASE c.what = "load" -> Later(c.n, view.last)
                           [] c.what \in ListCalls \ {"load"} -> view.count
                           [] OTHER -> view.last
  OBVIOUS
<1>4. /\ c.what = "load" => last = Later(c.n, view.last)
      /\ c.what \in ListCalls \ {"load"} => last = view.count
      /\ c.what \notin ListCalls => last = view.last
  BY <1>3 DEF ListCalls
<1>5. last \in Nat /\ last <= view.count /\ view.last <= last
  BY <1>4, CallFacts
<1>6. PICK busy \in BOOLEAN :
          busy = IF c.what = "create" THEN FALSE ELSE IF c.what = "load" THEN Rests(c) ELSE view.busy
  BY <1>1 DEF Rests, ViewRecord
<1>7. PICK early \in BOOLEAN : early = (view.early \/ (c.what = "load" /\ TooEarly(c)))
  OBVIOUS
<1>8. view.box \in [Boxes -> BoxRecord]
  BY <1>1 DEF ViewRecord
<1>9. PICK all : all = IF c.what \in Boxes THEN [view.box EXCEPT ![c.what] = BoxFails(view.box[c.what], c)]
                       ELSE view.box
  OBVIOUS
<1>10. ASSUME c.what \in Boxes
       PROVE  \E box \in BoxRecord :
                  /\ all = [view.box EXCEPT ![c.what] = box] /\ all \in [Boxes -> BoxRecord]
                  /\ box.typed = view.box[c.what].typed /\ box.last = Later(c.n, view.box[c.what].last)
                  /\ "edited" \in box.doubt <=> "edited" \in view.box[c.what].doubt
                  /\ box.doubt # {}
  <2>1. PICK old \in BoxRecord : old = view.box[c.what]
    BY <1>8, <1>10
  <2>2. PICK n \in Nat : n = Later(c.n, old.last)
    BY <1>1 DEF Later, BoxRecord, CallRecord
  <2>3. PICK d \in SUBSET {"edited", "overtaken", "failed"} : d = old.doubt \cup {"failed"}
    BY DEF BoxRecord
  <2>4. PICK box : box = [old EXCEPT !.doubt = d, !.last = n]
    OBVIOUS
  <2>5. box \in BoxRecord /\ box.typed = old.typed /\ box.last = n /\ box.doubt = d
    BY <2>4 DEF BoxRecord
  <2>6. box = BoxFails(view.box[c.what], c)
    BY <2>1, <2>2, <2>3, <2>4 DEF BoxFails
  <2>7. all = [view.box EXCEPT ![c.what] = box] /\ all \in [Boxes -> BoxRecord]
    BY <1>8, <1>9, <1>10, <2>5, <2>6
  <2>8. box.typed = view.box[c.what].typed /\ box.last = Later(c.n, view.box[c.what].last)
    BY <2>1, <2>2, <2>5
  <2>9. "edited" \in box.doubt <=> "edited" \in view.box[c.what].doubt
    BY <2>1, <2>3, <2>5
  <2>10. box.doubt # {}
    BY <2>3, <2>5
  <2> QED  BY <2>5, <2>7, <2>8, <2>9, <2>10
<1>11. all \in [Boxes -> BoxRecord]
  BY <1>8, <1>9, <1>10
<1>12. /\ view' = [view EXCEPT !.doubt = doubt, !.last = last, !.box = all, !.busy = busy, !.early = early]
       /\ calls' = calls \ {c} /\ UNCHANGED <<records, saved>>
  BY <1>2, <1>3, <1>6, <1>7, <1>9 DEF CallFailed
<1>13. /\ view' \in ViewRecord /\ view'.count = view.count /\ view'.rows = view.rows
       /\ view'.filter = view.filter /\ view'.shown = view.shown /\ view'.asOf = view.asOf
       /\ view'.last = last /\ view'.doubt = doubt /\ view'.box = all /\ view'.busy = busy
       /\ view'.early = early /\ SaidSame /\ LiveSame
  BY <1>1, <1>5, <1>11, <1>12 DEF ViewRecord, SaidSame, LiveSame
<1>14. (c.what \notin Boxes => BoxSame) /\ \A b \in Boxes : view'.box[b].last <= view.count
  <2>1. CASE c.what \in Boxes
    <3>1. PICK box \in BoxRecord :
                  /\ all = [view.box EXCEPT ![c.what] = box] /\ all \in [Boxes -> BoxRecord]
                  /\ box.typed = view.box[c.what].typed /\ box.last = Later(c.n, view.box[c.what].last)
                  /\ "edited" \in box.doubt <=> "edited" \in view.box[c.what].doubt
                  /\ box.doubt # {}
      BY <1>10, <2>1
    <3> QED  BY <1>12, <1>13, <2>1, <3>1, BoxGone
  <2>2. CASE c.what \notin Boxes
    BY <1>9, <1>13, <2>2 DEF BoxSame, ConsoleInv, Typed
  <2> QED  BY <2>1, <2>2
<1>15. AnswerInv'
  <2>1. CASE c.what \in Boxes
    <3>1. PICK box \in BoxRecord :
                  /\ all = [view.box EXCEPT ![c.what] = box] /\ all \in [Boxes -> BoxRecord]
                  /\ box.typed = view.box[c.what].typed /\ box.last = Later(c.n, view.box[c.what].last)
                  /\ "edited" \in box.doubt <=> "edited" \in view.box[c.what].doubt
                  /\ box.doubt # {}
      BY <1>10, <2>1
    <3> QED  BY <1>12, <1>13, <2>1, <3>1, BoxGone
  <2>2. CASE c.what \notin Boxes
    <3>1. {c} \in SUBSET calls
      OBVIOUS
    <3>2. Moves({c}, {})
      BY <1>12, <3>1, GoneMoves
    <3> QED  BY <1>14, <2>2, <3>2, AnswerRests DEF ConsoleInv
  <2> QED  BY <2>1, <2>2
<1>16. view'.last <= view.count /\ DOMAIN view'.rows \subseteq DOMAIN records.list
  BY <1>5, <1>13 DEF ConsoleInv, Typed
<1>17. Typed' /\ SaidInv' /\ LiveInv' /\ (ListSame /\ c.what \notin ListCalls => ListInv')
       /\ (BusySame => CreateInv')
  BY <1>12, <1>13, <1>14, <1>16, DropRests
<1>18. ListInv'
  <2>1. CASE c.what \notin ListCalls
    BY <1>2, <1>4, <1>13, <1>17, <2>1 DEF ListSame
  <2>2. CASE c.what \in ListCalls
    <3>1. view'.doubt # {}
      BY <1>2, <1>13, <2>2
    <3>2. \A d \in calls' : d.what = "load" /\ d.at = "ok" =>
              d.asOf >= records'.own \/ d.n <= view'.last \/ Fix(d.n)'
      <4>1. CASE c.what = "load"
        BY <1>4, <1>12, <1>13, <4>1, LoadGone
      <4>2. CASE c.what # "load"
        <5>1. \A d \in calls : d.n <= view.count
          BY CallFacts
        <5> QED  BY <1>4, <1>12, <1>13, <2>2, <4>2, <5>1
      <4> QED  BY <4>1, <4>2
    <3> QED  BY <3>1, <3>2 DEF ListInv
  <2> QED  BY <2>1, <2>2
<1>19. CreateInv'
  <2>1. CASE c.what = "load"
    BY <1>6, <1>7, <1>12, <1>13, <2>1, BusyAfter
  <2>2. CASE c.what = "create"
    <3>1. ~view.early => \A x \in calls : x.what = "create" \/ x.by = "create" => x.n = c.n
      BY <2>2 DEF ConsoleInv, CreateInv
    <3>2. ~view.early => \A x \in calls \ {c} : x.what # "create" /\ x.by # "create"
      BY <3>1, CallFacts
    <3> QED  BY <1>7, <1>12, <1>13, <2>2, <3>2 DEF CreateInv
  <2>3. CASE c.what \notin {"load", "create"}
    <3>1. busy = view.busy /\ early = view.early
      BY <1>1, <1>6, <1>7, <2>3 DEF ViewRecord
    <3> QED  BY <1>13, <1>17, <3>1 DEF BusySame
  <2> QED  BY <2>1, <2>2, <2>3
<1> QED  BY <1>15, <1>17, <1>18, <1>19 DEF ConsoleInv

\* After a record is written the page loads: the load that was sent is the newest call.
LEMMA ReloadsIs ==
    ASSUME Typed, NEW c \in calls, NEW by \in Senders, c.by \in Filters,
           NEW v \in ViewRecord, v.count = view.count, Reloads(c, by, v)
    PROVE  /\ \E e : /\ Adds(e) /\ calls' = (calls \ {c}) \cup {e}
                     /\ e.what = "load" /\ e.by = by /\ e.for = c.by
           /\ view' \in ViewRecord /\ UNCHANGED <<records, saved>>
           /\ view'.filter = v.filter /\ view'.busy = v.busy /\ view'.rows = v.rows /\ view'.shown = v.shown
           /\ view'.asOf = v.asOf /\ view'.last = v.last /\ view'.doubt = v.doubt /\ view'.early = v.early
           /\ view'.told = v.told /\ view'.box = v.box /\ view'.away = v.away
           /\ view'.connected = v.connected /\ view'.socks = v.socks /\ view'.socket = v.socket
           /\ view'.twice = v.twice
<1>1. PICK n \in Nat : n = view.count + 1
  BY DEF Typed, ViewRecord
<1>2. PICK e : e = [Call EXCEPT !.n = n, !.by = by, !.for = c.by]
  OBVIOUS
<1>3. /\ e \in CallRecord /\ e.n = n /\ e.at = "sent" /\ e.rows = <<>> /\ e.made = 0 /\ e.stored = 0
      /\ e.what = "load" /\ e.by = by /\ e.for = c.by
  BY <1>2, CallIs DEF CallRecord
<1>4. view' = [v EXCEPT !.count = n] /\ UNCHANGED <<records, saved>> /\ calls' = (calls \ {c}) \cup {e}
  BY <1>1, <1>2 DEF Reloads
<1>5. view' \in ViewRecord /\ view'.count = n
  BY <1>4 DEF ViewRecord
<1>6. /\ view'.filter = v.filter /\ view'.busy = v.busy /\ view'.rows = v.rows /\ view'.shown = v.shown
      /\ view'.asOf = v.asOf /\ view'.last = v.last /\ view'.doubt = v.doubt /\ view'.early = v.early
      /\ view'.told = v.told /\ view'.box = v.box /\ view'.away = v.away
      /\ view'.connected = v.connected /\ view'.socks = v.socks /\ view'.socket = v.socket
      /\ view'.twice = v.twice
  BY <1>4 DEF ViewRecord
<1>7. Adds(e)
  BY <1>1, <1>3, <1>5 DEF Adds
<1> QED  BY <1>3, <1>4, <1>5, <1>6, <1>7

\* The write is over, and the load that follows it reads what was written.
LEMMA ReloadsKeeps ==
    ASSUME ConsoleInv, NEW c \in calls, c.what \in Writes, NEW told \in [said : Nat, stored : Nat],
           told.said = told.stored, Reloads(c, c.what, [view EXCEPT !.told = told])
    PROVE  ConsoleInv'
<1>1. view \in ViewRecord /\ c \in CallRecord /\ c.by \in Filters /\ c.what \in Senders
  BY CallFacts DEF ConsoleInv, Typed, Writes, Senders
<1>2. PICK v : v = [view EXCEPT !.told = told]
  OBVIOUS
<1>3. /\ v \in ViewRecord /\ v.count = view.count /\ v.filter = view.filter /\ v.busy = view.busy
      /\ v.rows = view.rows
      /\ v.shown = view.shown /\ v.asOf = view.asOf /\ v.last = view.last /\ v.doubt = view.doubt
      /\ v.early = view.early /\ v.told = told /\ v.box = view.box /\ v.away = view.away
      /\ v.connected = view.connected /\ v.socks = view.socks /\ v.socket = view.socket
      /\ v.twice = view.twice
  BY <1>1, <1>2 DEF ViewRecord
<1>4. Reloads(c, c.what, v)
  BY <1>2
<1>5. PICK e : /\ Adds(e) /\ calls' = (calls \ {c}) \cup {e}
               /\ e.what = "load" /\ e.by = c.what /\ e.for = c.by
  BY <1>1, <1>3, <1>4, ReloadsIs DEF ConsoleInv
<1>6. /\ view' \in ViewRecord /\ UNCHANGED <<records, saved>> /\ view'.rows = view.rows
      /\ view'.told = told /\ view'.away = view.away
      /\ ListSame /\ BoxSame /\ BusySame /\ LiveSame
  BY <1>1, <1>3, <1>4, ReloadsIs DEF ConsoleInv, ListSame, BoxSame, BusySame, LiveSame
<1>7. {c} \in SUBSET calls
  OBVIOUS
<1>8. Moves({c}, {e})
  BY <1>5, <1>7, AddsMoves DEF ConsoleInv
<1>9. Typed'
  <2>1. view'.last = view.last /\ \A b \in Boxes : view'.box[b].last = view.box[b].last
    BY <1>6 DEF ListSame, BoxSame
  <2> QED  BY <1>5, <1>6, <1>7, <2>1, TypedAdds DEF ConsoleInv
<1>10. c.what \notin Boxes \cup {"load", "save", "connect"} /\ "load" \notin Boxes
  BY DEF Writes, Boxes
<1>11. AnswerInv' /\ LiveInv'
  BY <1>5, <1>6, <1>8, <1>10, AnswerRests, LiveRests DEF ConsoleInv
<1>12. /\ e \in calls' /\ e.at = "sent" /\ e.n = view.count + 1
       /\ \A d \in calls : d.n \in Nat /\ d.n <= view.count
       /\ view.last \in Nat /\ view.last <= view.count /\ view.count \in Nat
  BY <1>5, CallFacts DEF Adds
<1>13. ListInv'
  <2>1. e.n > view.last /\ \A d \in calls : e.n > d.n
    BY <1>12
  <2>2. \A n : e.n > n => Fix(n)'
    BY <1>5, <1>12 DEF Fix
  <2>3. view.doubt = {} => \/ view.shown = view.filter
                           \/ \E x \in calls' : x.what = "load" /\ x.for = view.filter /\ x.n > view.last
    BY <1>5, <1>10 DEF ConsoleInv, ListInv
  <2>4. \A d \in calls' : d.what = "load" /\ d.at = "ok" => d \in calls
    BY <1>5, <1>12
  <2>5. \A d \in calls' : d.what = "load" /\ d.at = "ok" => Fix(d.n)'
    BY <2>1, <2>2, <2>4
  <2>6. Fix(view.last)'
    BY <1>6, <2>1, <2>2 DEF ListSame, Fix
  <2> QED  BY <1>6, <2>3, <2>5, <2>6 DEF ListInv, ListSame, Fix
<1>14. CreateInv'
  <2>1. \A x \in calls' : x.what = "create" \/ x.by = "create" =>
            \/ x \in calls \ {c}
            \/ x = e /\ c.what = "create"
    BY <1>5
  <2>2. ~view.early => \A x, d \in calls : (x.what = "create" \/ x.by = "create") /\ (d.what = "create" \/ d.by = "create") =>
            view.busy /\ x = d
    BY CallFacts DEF ConsoleInv, CreateInv
  <2> QED  BY <1>6, <2>1, <2>2 DEF CreateInv, BusySame
<1>15. SaidInv'
  <2>1. \A x \in calls' : x.what \in {"invite", "save"} => x \in calls
    BY <1>5
  <2> QED  BY <1>6, <2>1 DEF ConsoleInv, SaidInv, ToldIsStored, AwayIsStored
<1> QED  BY <1>9, <1>11, <1>13, <1>14, <1>15 DEF ConsoleInv

LEMMA WrittenKeeps ==
    ASSUME ConsoleInv, NEW c \in calls, RecordWritten(c) \/ LineQueued(c)
    PROVE  ConsoleInv'
<1>1. view \in ViewRecord /\ view.told \in [said : Nat, stored : Nat] /\ view.told.said = view.told.stored
  BY DEF ConsoleInv, Typed, ViewRecord, SaidInv, ToldIsStored
<1>2. c \in CallRecord /\ DOMAIN c.rows \subseteq DOMAIN records.list
  BY DEF ConsoleInv, Typed
<1>3. CASE RecordWritten(c)
  <2>1. [view EXCEPT !.told = view.told] = view
    BY <1>1 DEF ViewRecord
  <2>2. Reloads(c, c.what, [view EXCEPT !.told = view.told]) /\ c.what \in Writes
    BY <1>3, <2>1 DEF RecordWritten, Writes
  <2> QED  BY <1>1, <2>2, ReloadsKeeps
<1>4. CASE LineQueued(c) /\ ~(c.lines > 1)
  <2>1. c.what = "invite" /\ c.stored = c.made + 1 /\ c.made + 1 \in Nat /\ c.stored \in Nat
    BY <1>2, <1>4 DEF LineQueued, ConsoleInv, SaidInv, CallRecord
  <2>2. PICK told : told = [said |-> c.made + 1, stored |-> c.stored]
    OBVIOUS
  <2>3. told \in [said : Nat, stored : Nat] /\ told.said = told.stored
    BY <2>1, <2>2
  <2>4. Reloads(c, c.what, [view EXCEPT !.told = told]) /\ c.what \in Writes
    BY <1>4, <2>1, <2>2 DEF LineQueued, Writes
  <2> QED  BY <2>3, <2>4, ReloadsKeeps
<1>5. CASE LineQueued(c) /\ c.lines > 1
  <2>1. c.what = "invite" /\ c.stored = c.made + 1 /\ UNCHANGED <<records, saved, view>>
    BY <1>5 DEF LineQueued, ConsoleInv, SaidInv
  <2>2. PICK lines \in Nat, made \in Nat : lines = c.lines - 1 /\ made = c.made + 1
    BY <1>2, <1>5 DEF CallRecord
  <2>3. PICK d : d = [c EXCEPT !.at = "sent", !.lines = lines, !.made = made]
    OBVIOUS
  <2>4. Becomes(c, d)
    BY <1>5, <2>2, <2>3 DEF LineQueued
  <2>5. /\ d \in CallRecord /\ Alike(c, d) /\ d.rows = c.rows /\ d.at = "sent" /\ d.made = made
        /\ d.stored = c.stored /\ d.what = "invite"
    BY <1>2, <2>1, <2>3 DEF CallRecord, Alike
  <2>6. d.made = d.stored
    BY <2>1, <2>2, <2>5
  <2> QED  BY <1>2, <2>1, <2>4, <2>5, <2>6, RecordsAre, BecomesKeeps
<1> QED  BY <1>3, <1>4, <1>5

LEMMA CardKeeps ==
    ASSUME ConsoleInv, NEW c \in calls, CardSaved(c)
    PROVE  ConsoleInv'
<1>1. view \in ViewRecord /\ c \in CallRecord /\ c.by \in SavedCards \cup {"tour"} /\ c.by \in saved
  BY DEF ConsoleInv, Typed, CardSaved, SaidInv
<1>2. PICK away \in SUBSET (SavedCards \cup {"tour"}) : away = view.away \cup {c.by}
  BY <1>1 DEF ViewRecord
<1>3. /\ view' = [view EXCEPT !.away = away] /\ calls' = calls \ {c} /\ UNCHANGED <<records, saved>>
      /\ c.what = "save"
  BY <1>2 DEF CardSaved
<1>4. /\ view' \in ViewRecord /\ view'.count = view.count /\ view'.rows = view.rows
      /\ view'.told = view.told /\ view'.away = away
      /\ ListSame /\ BoxSame /\ BusySame /\ LiveSame
  BY <1>1, <1>3 DEF ViewRecord, ListSame, BoxSame, BusySame, LiveSame
<1>5. /\ view'.last <= view.count /\ \A b \in Boxes : view'.box[b].last <= view.count
      /\ DOMAIN view'.rows \subseteq DOMAIN records.list
  BY <1>4 DEF ConsoleInv, Typed, ListSame, BoxSame
<1>6. c.what \notin ListCalls \cup Boxes
  BY <1>3 DEF ListCalls, Boxes
<1>7. Typed' /\ ListInv' /\ AnswerInv' /\ CreateInv' /\ LiveInv'
  BY <1>3, <1>4, <1>5, <1>6, DropRests
<1>8. SaidInv'
  <2>1. view'.away \ {"tour"} \subseteq saved
    BY <1>1, <1>2, <1>4 DEF ConsoleInv, SaidInv, AwayIsStored
  <2> QED  BY <1>3, <1>4, <2>1 DEF ConsoleInv, SaidInv, ToldIsStored, AwayIsStored
<1> QED  BY <1>7, <1>8 DEF ConsoleInv

\* The socket that was asked for is the only one, unless Connect was pressed again.
LEMMA SocketStartsKeeps ==
    ASSUME ConsoleInv, NEW c \in calls, SocketStarts(c)
    PROVE  ConsoleInv'
<1>1. view \in ViewRecord /\ c \in CallRecord /\ c.n \in Nat
  BY CallFacts DEF ConsoleInv, Typed
<1>2. PICK s \in [n : Nat, open : BOOLEAN] : s = [n |-> c.n, open |-> FALSE]
  BY <1>1
<1>3. PICK socks \in SUBSET [n : Nat, open : BOOLEAN] : socks = view.socks \cup {s}
  BY <1>1 DEF ViewRecord
<1>4. /\ view' = [view EXCEPT !.socket = c.n, !.socks = socks] /\ calls' = calls \ {c}
      /\ UNCHANGED <<records, saved>> /\ c.what = "connect"
  BY <1>2, <1>3 DEF SocketStarts
<1>5. /\ view' \in ViewRecord /\ view'.count = view.count /\ view'.rows = view.rows
      /\ view'.socks = socks /\ view'.socket = c.n /\ view'.twice = view.twice
      /\ view'.connected = view.connected
      /\ ListSame /\ BoxSame /\ BusySame /\ SaidSame
  BY <1>1, <1>4 DEF ViewRecord, ListSame, BoxSame, BusySame, SaidSame
<1>6. /\ view'.last <= view.count /\ \A b \in Boxes : view'.box[b].last <= view.count
      /\ DOMAIN view'.rows \subseteq DOMAIN records.list
  BY <1>5 DEF ConsoleInv, Typed, ListSame, BoxSame
<1>7. c.what \notin ListCalls \cup Boxes
  BY <1>4 DEF ListCalls, Boxes
<1>8. Typed' /\ ListInv' /\ AnswerInv' /\ CreateInv' /\ SaidInv'
  BY <1>4, <1>5, <1>6, <1>7, DropRests
<1>9. LiveInv'
  <2> SUFFICES ASSUME ~view.twice
               PROVE  LiveInv'
    BY <1>5 DEF LiveInv
  <2>1. /\ \A x, d \in calls : x.what = "connect" /\ d.what = "connect" => x.n = d.n
        /\ view.socks = {}
        /\ view.connected <=> \E t \in view.socks : t.open
    BY <1>4 DEF ConsoleInv, LiveInv
  <2>2. \A x \in calls' : x.what # "connect"
    BY <1>4, <2>1, CallFacts
  <2>3. socks = {s} /\ s.n = c.n
    BY <1>2, <1>3, <2>1
  <2>4. ~s.open /\ ~view.connected
    BY <1>2, <2>1
  <2> QED  BY <1>5, <2>2, <2>3, <2>4 DEF LiveInv
<1> QED  BY <1>8, <1>9 DEF ConsoleInv

LEMMA SocketOpensKeeps ==
    ASSUME ConsoleInv, NEW s \in view.socks, SocketOpens(s)
    PROVE  ConsoleInv'
<1>1. view \in ViewRecord /\ s \in [n : Nat, open : BOOLEAN]
  BY DEF ConsoleInv, Typed, ViewRecord
<1>2. PICK t : t = [s EXCEPT !.open = TRUE]
  OBVIOUS
<1>3. t \in [n : Nat, open : BOOLEAN] /\ t.n = s.n
  BY <1>1, <1>2
<1>4. t.open
  BY <1>1, <1>2
<1>5. PICK socks \in SUBSET [n : Nat, open : BOOLEAN] : socks = (view.socks \ {s}) \cup {t}
  BY <1>1, <1>3 DEF ViewRecord
<1>6. view' = [view EXCEPT !.socks = socks, !.connected = TRUE] /\ UNCHANGED <<records, saved, calls>>
  BY <1>2, <1>5 DEF SocketOpens
<1>7. /\ view' \in ViewRecord /\ view'.count = view.count /\ view'.rows = view.rows
      /\ view'.socks = socks /\ view'.socket = view.socket /\ view'.twice = view.twice
      /\ ListSame /\ BoxSame /\ BusySame /\ SaidSame
  BY <1>1, <1>6 DEF ViewRecord, ListSame, BoxSame, BusySame, SaidSame
<1>8. view'.connected
  BY <1>1, <1>6 DEF ViewRecord
<1>9. Typed' /\ ListInv' /\ AnswerInv' /\ CreateInv' /\ SaidInv'
  BY <1>6, <1>7, ViewRests DEF BoxSame
<1>10. LiveInv'
  <2> SUFFICES ASSUME ~view.twice
               PROVE  LiveInv'
    BY <1>7 DEF LiveInv
  <2>1. /\ \A x, d \in calls : x.what = "connect" /\ d.what = "connect" => x.n = d.n
        /\ \A x \in calls : x.what # "connect"
        /\ \A x, y \in view.socks : x = y
        /\ s.n = view.socket
    BY DEF ConsoleInv, LiveInv
  <2>2. socks = {t}
    BY <1>5, <2>1
  <2>3. t.n = view'.socket /\ \A x \in calls' : x.what # "connect"
    BY <1>3, <1>6, <1>7, <2>1
  <2> QED  BY <1>4, <1>7, <1>8, <2>2, <2>3 DEF LiveInv
<1> QED  BY <1>9, <1>10 DEF ConsoleInv

LEMMA SocketClosesKeeps ==
    ASSUME ConsoleInv, NEW s \in view.socks, SocketCloses(s)
    PROVE  ConsoleInv'
<1>1. view \in ViewRecord
  BY DEF ConsoleInv, Typed
<1>2. PICK socks \in SUBSET [n : Nat, open : BOOLEAN] : socks = view.socks \ {s}
  BY <1>1 DEF ViewRecord
<1>3. view' = [view EXCEPT !.socks = socks, !.connected = FALSE] /\ UNCHANGED <<records, saved, calls>>
  BY <1>2 DEF SocketCloses, GoesDown
<1>4. /\ view' \in ViewRecord /\ view'.count = view.count /\ view'.rows = view.rows
      /\ view'.socks = socks /\ view'.socket = view.socket /\ view'.twice = view.twice
      /\ ListSame /\ BoxSame /\ BusySame /\ SaidSame
  BY <1>1, <1>3 DEF ViewRecord, ListSame, BoxSame, BusySame, SaidSame
<1>5. ~view'.connected
  BY <1>1, <1>3 DEF ViewRecord
<1>6. Typed' /\ ListInv' /\ AnswerInv' /\ CreateInv' /\ SaidInv'
  BY <1>3, <1>4, ViewRests DEF BoxSame
<1>7. LiveInv'
  <2> SUFFICES ASSUME ~view.twice
               PROVE  LiveInv'
    BY <1>4 DEF LiveInv
  <2>1. socks = {} /\ \A x \in calls : x.what # "connect"
    BY <1>2 DEF ConsoleInv, LiveInv
  <2> QED  BY <1>3, <1>4, <1>5, <2>1 DEF LiveInv
<1> QED  BY <1>6, <1>7 DEF ConsoleInv

LEMMA ConsoleStep ==
    ASSUME ConsoleInv, [ConsoleNext]_consoleVars
    PROVE  ConsoleInv'
<1>1. CASE UNCHANGED consoleVars
  <2>1. UNCHANGED <<records, saved, calls, view>>
    BY <1>1 DEF consoleVars
  <2>2. view' \in ViewRecord
    BY <2>1 DEF ConsoleInv, Typed
  <2> QED  BY <2>1, <2>2, ViewRests DEF ConsoleInv, ListSame, BoxSame, BusySame, SaidSame, LiveSame
<1>2. CASE Clicks
  BY <1>2, FilterByKeeps, RefreshKeeps, CreateKeeps, UpdateKeeps, InviteKeeps, EditKeeps, AskBoxKeeps,
     ConnectKeeps, AskEraseKeeps, SaveKeeps
     DEF Clicks
<1>3. CASE ServeConsole \/ CallFails \/ OtherWrites
  BY <1>3, ServeKeeps, CallFailsKeeps, OtherKeeps
<1>4. CASE Arrive
  BY <1>4, LoadKeeps, FailedKeeps, WrittenKeeps, BoxKeeps, CardKeeps, SocketStartsKeeps DEF Arrive, Ends
<1>5. CASE Sockets
  BY <1>5, SocketOpensKeeps, SocketClosesKeeps DEF Sockets
<1> QED  BY <1>1, <1>2, <1>3, <1>4, <1>5 DEF ConsoleNext

LEMMA InitConsole ==
    ASSUME ConsoleInit
    PROVE  ConsoleInv
<1>1. records = [list |-> <<[kind |-> "notification", status |-> "open"]>>, version |-> 0, own |-> 0]
      /\ saved = {}
  BY DEF ConsoleInit
<1>2. PICK r \in Entry : r = [kind |-> "notification", status |-> "open"]
  BY DEF Entry, RecordKinds
<1>3. <<r>> \in Seq(Entry)
  OBVIOUS
<1>4. records \in RecordsRecord /\ records.own = 0 /\ records.version = 0
  BY <1>1, <1>2, <1>3 DEF RecordsRecord
<1>5. PICK e : e = [Call EXCEPT !.n = 1]
  OBVIOUS
<1>6. /\ e \in CallRecord /\ e.n = 1 /\ e.at = "sent" /\ e.what = "load" /\ e.by = "effect" /\ e.for = "all"
      /\ DOMAIN e.rows = {}
  BY <1>5, CallIs, NoRows DEF CallRecord
<1>7. calls \subseteq {e} /\ (calls = {} \/ calls = {e})
  BY <1>5 DEF ConsoleInit
<1>8. PICK busy \in BOOLEAN : busy = (calls # {})
  OBVIOUS
<1>9. PICK rows \in RowSets : rows = <<>> /\ DOMAIN rows = {}
  BY NoRows
<1>10. PICK one \in BoxRecord :
           one = [typed |-> 0, result |-> 0, last |-> 0, doubt |-> {}]
  BY DEF BoxRecord
<1>11. PICK box \in [Boxes -> BoxRecord] : box = [b \in Boxes |-> one]
  OBVIOUS
<1>12. PICK told \in [said : Nat, stored : Nat] : told = [said |-> 0, stored |-> 0]
  OBVIOUS
<1>13. view = [filter |-> "all", busy |-> busy, rows |-> rows, shown |-> "all", asOf |-> 0,
               count |-> 1, last |-> 0, doubt |-> {}, early |-> FALSE, told |-> told,
               box |-> box, away |-> {}, asking |-> FALSE, connected |-> FALSE, socks |-> {}, socket |-> 0,
               twice |-> FALSE]
  BY <1>8, <1>9, <1>10, <1>11, <1>12 DEF ConsoleInit
<1>14. view \in ViewRecord
  BY <1>13 DEF ViewRecord, Filters
<1>15. IsFiniteSet(calls)
  <2>1. IsFiniteSet({}) /\ IsFiniteSet({e})
    BY FS_EmptySet, FS_Singleton
  <2> QED  BY <1>7, <2>1
<1>16. \A b \in Boxes : view.box[b].last = 0 /\ view.box[b].typed = 0 /\ view.box[b].result = 0
  BY <1>10, <1>11, <1>13
<1>17. Typed
  <2>1. /\ calls \subseteq CallRecord /\ \A c, d \in calls : c.n = d.n => c = d
        /\ \A c \in calls : c.n \in 1..view.count
    BY <1>6, <1>7, <1>13
  <2>2. /\ \A c \in calls : DOMAIN c.rows \subseteq DOMAIN records.list
        /\ \A c \in calls : c.what = "load" /\ c.by = "effect"
    BY <1>6, <1>7
  <2>3. view.last <= view.count /\ \A b \in Boxes : view.box[b].last <= view.count
    BY <1>13, <1>16
  <2>4. DOMAIN view.rows \subseteq DOMAIN records.list
    BY <1>9, <1>13
  <2> QED  BY <1>1, <1>4, <1>14, <1>15, <2>1, <2>2, <2>3, <2>4 DEF Typed
<1>18. \A c \in calls : c.at = "sent" /\ c.what = "load" /\ c.by = "effect"
  BY <1>6, <1>7
<1>19. ListInv
  BY <1>4, <1>13, <1>18 DEF ListInv
<1>20. AnswerInv
  <2>1. \A c \in calls : c.what \notin Boxes
    BY <1>18 DEF Boxes
  <2> QED  BY <1>16, <2>1 DEF AnswerInv
<1>21. CreateInv
  BY <1>18 DEF CreateInv
<1>22. SaidInv
  <2>1. view.told.said = view.told.stored
    BY <1>12, <1>13
  <2> QED  BY <1>13, <1>18, <2>1 DEF SaidInv, ToldIsStored, AwayIsStored
<1>23. LiveInv
  BY <1>13, <1>18 DEF LiveInv
<1> QED  BY <1>17, <1>19, <1>20, <1>21, <1>22, <1>23 DEF ConsoleInv

LEMMA ConsoleShows ==
    ASSUME ConsoleInv
    PROVE  ConsoleTypeOK /\ ShownIsAsked /\ OneCreate /\ SaidIsTrue
<1>1. ConsoleTypeOK
  <2>1. records.own \in 0..records.version
    BY RecordsAre
  <2>2. records.list \in Seq([kind : RecordKinds, status : {"open", "complete"}])
    BY RecordsAre DEF Entry
  <2>3. \A c \in calls : /\ c.at \in {"sent", "ok", "failed"} /\ c.n \in 1..view.count
                         /\ \A d \in calls : c.n = d.n => c = d
    BY DEF ConsoleInv, Typed, CallRecord
  <2> QED  BY <2>1, <2>2, <2>3 DEF ConsoleInv, Typed, ViewRecord, ConsoleTypeOK
<1>2. ListIsCurrent
  <2>1. Writes \subseteq ListCalls /\ "load" \in ListCalls
    BY DEF Writes, ListCalls
  <2> QED  BY <2>1 DEF ConsoleInv, ListInv, Fix, ListIsCurrent
<1>3. AnswersMatch
  BY DEF ConsoleInv, AnswerInv, Answers, AnswersMatch
<1>4. OneCreate
  <2> SUFFICES ASSUME ~view.early
               PROVE  Cardinality({c \in calls : c.what = "create"}) <= 1
    BY DEF OneCreate
  <2> DEFINE S == {c \in calls : c.what = "create"}
  <2>1. \A c, d \in S : c = d
    BY CallFacts DEF ConsoleInv, CreateInv
  <2>2. CASE S = {}
    BY <2>2, FS_EmptySet
  <2>3. CASE S # {}
    <3>1. PICK c \in S : TRUE
      BY <2>3
    <3>2. S = {c}
      BY <2>1, <3>1
    <3>3. Cardinality(S) = 1
      BY <3>2, FS_Singleton
    <3> QED  BY <3>3
  <2> QED  BY <2>2, <2>3
<1>5. SaidIsTrue
  <2>1. ConnectedIsTrue
    <3> SUFFICES ASSUME ~view.twice
                 PROVE  view.connected <=> [n |-> view.socket, open |-> TRUE] \in view.socks
      BY DEF ConnectedIsTrue
    <3>1. \A s \in view.socks : s \in [n : Nat, open : BOOLEAN] /\ s.n = view.socket
      BY DEF ConsoleInv, Typed, ViewRecord, LiveInv
    <3>2. view.connected <=> \E s \in view.socks : s.open
      BY DEF ConsoleInv, LiveInv
    <3>3. ASSUME NEW s \in view.socks, s.open
          PROVE  s = [n |-> view.socket, open |-> TRUE]
      BY <3>1, <3>3
    <3>4. [n |-> view.socket, open |-> TRUE].open
      OBVIOUS
    <3> QED  BY <3>2, <3>3, <3>4
  <2> QED  BY <2>1 DEF ConsoleInv, SaidInv, SaidIsTrue
<1> QED  BY <1>1, <1>2, <1>3, <1>4, <1>5 DEF ShownIsAsked

LEMMA ConsoleHolds == Spec => []ConsoleInv
<1>1. Init => ConsoleInv
  BY InitConsole DEF Init
<1>2. ConsoleInv /\ [Next]_pagesVars => ConsoleInv'
  <2> SUFFICES ASSUME ConsoleInv, [Next]_pagesVars
               PROVE  [ConsoleNext]_consoleVars
    BY ConsoleStep
  <2> QED  BY DEF Next, pagesVars
<1> QED  BY <1>1, <1>2, PTL DEF Spec

\* With nothing under way the list on screen is that of its filter and holds what the page wrote,
\* and the answers on screen belong to what stands in the fields (ProductPage.tsx, App.tsx).
THEOREM ListsAreCurrent == Spec => []ShownIsAsked
<1>1. ConsoleInv => ShownIsAsked
  BY ConsoleShows
<1> QED  BY <1>1, ConsoleHolds, PTL

\* One record is created at a time, unless a list that was loading released the button.
THEOREM CreatesAreSingle == Spec => []OneCreate
<1>1. ConsoleInv => OneCreate
  BY ConsoleShows
<1> QED  BY <1>1, ConsoleHolds, PTL

\* What the console says is stored, put away or connected is, however calls fail and overlap.
THEOREM ConsoleTellsTheTruth == Spec => []SaidIsTrue
<1>1. ConsoleInv => SaidIsTrue
  BY ConsoleShows
<1> QED  BY <1>1, ConsoleHolds, PTL

-----------------------------------------------------------------------------
(* Types of the credentials and their pages                                *)

\* A request that shows a secret or a sheet shows one that was issued.
Numbered(q) ==
    /\ reqs[q].kind = "enroll" => reqs[q].key.n <= issued.secret
    /\ reqs[q].kind = "codes" => reqs[q].key.n <= issued.code

Asking ==
    \A q \in Slots :
        /\ reqs[q].kind \in Kinds \cup {"none"} /\ reqs[q].page \in {"here", "gone", "else"}
        /\ reqs[q].pw \in Passwords /\ reqs[q].new \in Passwords
        /\ reqs[q].key \in Keys /\ reqs[q].row \in Rows /\ Numbered(q)

Tokened == tokens \in [reset : SUBSET (1..issued.reset), magic : SUBSET (1..issued.magic),
                       code : SUBSET (1..issued.code)]
Issued == issued \in [reset : Nat, magic : Nat, code : Nat, secret : Nat]

Serving ==
    /\ account \in Rows /\ Len(account.hist) <= History
    /\ fails \in [n : Nat, lapses : BOOLEAN]
    /\ live \subseteq Passwords \cup {ByLink}
    /\ Tokened /\ Issued
    /\ pending \in 0..issued.secret
    /\ taken \in BOOLEAN /\ faults \in Nat

Screens(secret, code) ==
    [at : Pages, busy : BOOLEAN, alt : BOOLEAN, tries : 0..MaxTries, wait : 0..LockTicks, otp : BOOLEAN,
     link : {"none", "checking", "valid", "invalid", "checked"}, mail : {"none", "typed", "invited"},
     done : BOOLEAN, secret : 0..secret, codes : 0..code, wrong : Nat, served : Nat]

Sitting == [page : Pages, asks : Nat, others : Nat, kinds : SUBSET Kinds, leaves : Nat,
            faults : Nat, accounts : SUBSET Rows]

Seated == screen \in Screens(issued.secret, issued.code) /\ left \in Sitting

TypeInv == Shaped /\ Serving /\ Asking /\ Seated

\* What a statement does not write it leaves alone.
LEMMA Untouched ==
    ASSUME NEW q \in Slots, Serve(q)
    PROVE  /\ \/ account' = account \/ Rehash(q) \/ LockAccount(q) \/ ClearLock(q)
              \/ StorePassword(q) \/ SetLocked(q) \/ EnableMFA(q)
           /\ fails' = fails \/ CountFailure(q) \/ SetExpiry(q) \/ Uncount(q)
           /\ live' = live \/ StartSession(q) \/ RevokeSessions(q)
           /\ \/ tokens' = tokens \/ VerifyMFA(q) \/ TakeLink(q) \/ SendLink(q) \/ ConsumeLink(q)
              \/ InsertCodes(q)
           /\ issued' = issued \/ SendLink(q) \/ BeginMFA(q) \/ InsertCodes(q)
           /\ pending' = pending \/ BeginMFA(q) \/ DropPending(q)
           /\ taken' = taken \/ CreateUser(q)
           /\ faults' = faults \/ SetExpiry(q)
<1>1. CASE LoginStep(q)
  BY <1>1 DEF LoginStep, LoginReads, Rehash, VerifyMFA, CountFailure, SetExpiry, LockAccount, ClearLock,
              Uncount, StartSession
<1>2. CASE PasswordStep(q)
  BY <1>2 DEF PasswordStep, ConfirmPassword, Validate, TakeLink, StorePassword, RevokeSessions, SetLocked
<1>3. CASE OtherStep(q)
  BY <1>3 DEF OtherStep, SendLink, ValidateReset, ConsumeLink, BeginMFA, VerifyEnrollment, EnableMFA,
              DropPending, DeleteCodes, InsertCodes, LookUpAddress, CreateUser, AnswerElsewhere
<1> QED  BY <1>1, <1>2, <1>3 DEF Serve

\* The row a request works with is one it has read.
LEMMA RowsAreRead ==
    ASSUME Shaped, NEW q \in Slots, Serve(q)
    PROVE  reqs'[q].row \in {reqs[q].row, account}
<1>1. CASE LoginReads(q) \/ Validate(q)
  BY <1>1 DEF LoginReads, Validate, Shaped, Req
<1> DEFINE Simple == \/ \E at : Goes(q, at)
                     \/ \E out : Reply(q, out)
                     \/ \E what, next : Wrote(q, what, next)
<1>2. ASSUME Simple PROVE reqs'[q].row = reqs[q].row
  BY <1>2 DEF Goes, Reply, Wrote, Shaped, Req
<1>3. CASE VerifyMFA(q) \/ ClearLock(q) \/ BeginMFA(q)
  BY <1>3 DEF VerifyMFA, ClearLock, BeginMFA, Shaped, Req
<1>4. CASE DeleteCodes(q)
  <2>1. CASE Reply(q, "400")
    BY <1>2, <2>1
  <2>2. CASE reqs' = [reqs EXCEPT ![q].at = "insert", ![q].snap = tokens.code, ![q].over = {}]
    BY <2>2 DEF Shaped, Req
  <2> QED  BY <1>4, <2>1, <2>2 DEF DeleteCodes
<1>5. CASE InsertCodes(q)
  <2>1. reqs'[q] = [reqs[q] EXCEPT !.at = "answer", !.out = "ok", !.over = {},
                                   !.key = Key("code", issued.code + 1)]
    BY <1>5 DEF InsertCodes
  <2> QED  BY <2>1 DEF Shaped, Req
<1> HIDE DEF Simple
<1>6. Rehash(q) \/ CountFailure(q) \/ SetExpiry(q) \/ LockAccount(q) \/ Uncount(q) => Simple
  BY DEF Simple, Rehash, CountFailure, SetExpiry, LockAccount, Uncount
<1>7. StartSession(q) \/ ConfirmPassword(q) \/ TakeLink(q) \/ StorePassword(q) \/ RevokeSessions(q) => Simple
  BY DEF Simple, StartSession, ConfirmPassword, TakeLink, StorePassword, RevokeSessions
<1>8. SetLocked(q) \/ SendLink(q) \/ ValidateReset(q) \/ ConsumeLink(q) \/ VerifyEnrollment(q) => Simple
  BY DEF Simple, SetLocked, SendLink, ValidateReset, ConsumeLink, VerifyEnrollment
<1>9. EnableMFA(q) \/ DropPending(q) \/ LookUpAddress(q) \/ CreateUser(q) \/ AnswerElsewhere(q) => Simple
  BY DEF Simple, EnableMFA, DropPending, LookUpAddress, CreateUser, AnswerElsewhere
<1> QED  BY <1>1, <1>2, <1>3, <1>4, <1>5, <1>6, <1>7, <1>8, <1>9
            DEF Serve, LoginStep, PasswordStep, OtherStep

LEMMA HistoryIsBounded ==
    ASSUME NEW row \in Rows
    PROVE  Remembers(row) \in Seq(Passwords) /\ Len(Remembers(row)) <= History
<1>1. PICK s \in Seq(Passwords) : s = <<row.pw>> \o row.hist
  <2>1. row.pw \in Passwords /\ row.hist \in Seq(Passwords)
    BY DEF Rows
  <2>2. <<row.pw>> \o row.hist \in Seq(Passwords)
    BY <2>1
  <2> QED  BY <2>2
<1>2. PICK n \in Nat : n = (IF Len(s) < History THEN Len(s) ELSE History) /\ n <= Len(s) /\ n <= History
  BY CredentialsAssumption
<1>3. Remembers(row) = SubSeq(s, 1, n)
  BY <1>1, <1>2 DEF Remembers, Newest
<1>4. SubSeq(s, 1, n) \in Seq(Passwords) /\ Len(SubSeq(s, 1, n)) = n
  BY <1>2
<1> QED  BY <1>2, <1>3, <1>4

\* The account keeps its type.
LEMMA AccountTyped ==
    ASSUME TypeInv, NEW q \in Slots, Serve(q)
    PROVE  account' \in Rows /\ Len(account'.hist) <= History
<1>1. account \in Rows /\ Len(account.hist) <= History /\ reqs[q].pw \in Passwords /\ reqs[q].new \in Passwords
      /\ reqs[q].key \in Keys /\ reqs[q].row \in Rows
  BY DEF TypeInv, Serving, Asking
<1>2. CASE Rehash(q)
  BY <1>1, <1>2 DEF Rehash, Rows
<1>3. CASE LockAccount(q) \/ ClearLock(q)
  BY <1>1, <1>3 DEF LockAccount, ClearLock, Rows
<1>4. CASE SetLocked(q)
  <2>1. PICK locked \in {"no", "admin"} : account' = [account EXCEPT !.locked = locked]
    BY <1>4 DEF SetLocked
  <2> QED  BY <1>1, <2>1 DEF Rows
<1>5. CASE EnableMFA(q)
  <2>1. PICK n \in Nat : n = reqs[q].key.n
    BY <1>1 DEF Keys
  <2>2. account' = [account EXCEPT !.mfa = n]
    BY <1>5, <2>1 DEF EnableMFA, Verified
  <2> QED  BY <1>1, <2>2 DEF Rows
<1>6. CASE StorePassword(q)
  <2>1. PICK hist \in Seq(Passwords) : hist = Remembers(reqs[q].row) /\ Len(hist) <= History
    BY <1>1, HistoryIsBounded
  <2>2. account' = [account EXCEPT !.pw = reqs[q].new, !.hist = hist, !.stale = FALSE]
    BY <1>6, <2>1 DEF StorePassword
  <2> QED  BY <1>1, <2>1, <2>2 DEF Rows
<1> QED  BY <1>1, <1>2, <1>3, <1>4, <1>5, <1>6, Untouched

\* Tokens in the service are among those that were issued.
LEMMA TokensTyped ==
    ASSUME TypeInv, NEW q \in Slots, Serve(q)
    PROVE  /\ Tokened' /\ Issued'
           /\ issued.code <= issued'.code /\ issued.secret <= issued'.secret
<1>1. /\ tokens.reset \subseteq 1..issued.reset /\ tokens.magic \subseteq 1..issued.magic
      /\ tokens.code \subseteq 1..issued.code /\ Tokened
      /\ Issued /\ issued.reset \in Nat /\ issued.magic \in Nat /\ issued.code \in Nat /\ issued.secret \in Nat
  BY DEF TypeInv, Serving, Tokened, Issued
<1>2. CASE SendLink(q)
  <2>1. PICK what \in {"reset", "magic"} :
            tokens' = [tokens EXCEPT ![what] = @ \cup {issued[what] + 1}] /\ Issue(what)
    BY <1>2 DEF SendLink
  <2>2. PICK S : S = tokens[what] \cup {issued[what] + 1}
    OBVIOUS
  <2>3. tokens' = [tokens EXCEPT ![what] = S]
    BY <2>1, <2>2
  <2>4. CASE what = "reset"
    <3>1. issued' \in [reset : Nat, magic : Nat, code : Nat, secret : Nat] /\ issued'.reset = issued.reset + 1
          /\ issued'.magic = issued.magic /\ issued'.code = issued.code /\ issued'.secret = issued.secret
      BY <2>1, <2>4 DEF Issue, TypeInv, Serving, Issued
    <3>2. S \subseteq 1..issued'.reset
      BY <1>1, <2>2, <2>4, <3>1
    <3>3. tokens' = [tokens EXCEPT !.reset = S]
      BY <2>3, <2>4
    <3> QED  BY <1>1, <3>1, <3>2, <3>3 DEF Tokened, Issued
  <2>5. CASE what = "magic"
    <3>1. issued' \in [reset : Nat, magic : Nat, code : Nat, secret : Nat] /\ issued'.magic = issued.magic + 1
          /\ issued'.reset = issued.reset /\ issued'.code = issued.code /\ issued'.secret = issued.secret
      BY <2>1, <2>5 DEF Issue, TypeInv, Serving, Issued
    <3>2. S \subseteq 1..issued'.magic
      BY <1>1, <2>2, <2>5, <3>1
    <3>3. tokens' = [tokens EXCEPT !.magic = S]
      BY <2>3, <2>5
    <3> QED  BY <1>1, <3>1, <3>2, <3>3 DEF Tokened, Issued
  <2> QED  BY <2>4, <2>5
<1>3. CASE BeginMFA(q)
  <2>1. issued' \in [reset : Nat, magic : Nat, code : Nat, secret : Nat] /\ issued'.secret = issued.secret + 1
        /\ issued'.reset = issued.reset /\ issued'.code = issued.code /\ issued'.magic = issued.magic
        /\ tokens' = tokens
    BY <1>3 DEF BeginMFA, Issue, TypeInv, Serving, Issued
  <2> QED  BY <1>1, <2>1 DEF Tokened, Issued
<1>4. CASE InsertCodes(q)
  <2>1. issued' \in [reset : Nat, magic : Nat, code : Nat, secret : Nat] /\ issued'.code = issued.code + 1
        /\ issued'.reset = issued.reset /\ issued'.magic = issued.magic /\ issued'.secret = issued.secret
    BY <1>4 DEF InsertCodes, Issue, TypeInv, Serving, Issued
  <2>2. PICK S : S = (tokens.code \ reqs[q].snap) \cup {issued.code + 1}
    OBVIOUS
  <2>3. tokens' = [tokens EXCEPT !.code = S]
    BY <1>4, <2>2 DEF InsertCodes, Replaces
  <2>4. S \subseteq 1..issued'.code
    BY <1>1, <2>1, <2>2
  <2> QED  BY <1>1, <2>1, <2>3, <2>4 DEF Tokened, Issued
<1>5. CASE issued' = issued /\ (VerifyMFA(q) \/ TakeLink(q) \/ ConsumeLink(q))
  <2>1. CASE VerifyMFA(q)
    <3>1. PICK S \in SUBSET tokens.code : tokens' = [tokens EXCEPT !.code = S]
      BY <2>1 DEF VerifyMFA
    <3> QED  BY <1>1, <1>5, <3>1 DEF Tokened, Issued
  <2>2. CASE TakeLink(q)
    <3>1. PICK S \in SUBSET tokens.reset : tokens' = [tokens EXCEPT !.reset = S]
      BY <2>2 DEF TakeLink, Taken
    <3> QED  BY <1>1, <1>5, <3>1 DEF Tokened, Issued
  <2>3. CASE ConsumeLink(q)
    <3>1. PICK S \in SUBSET tokens.magic : tokens' = [tokens EXCEPT !.magic = S]
      BY <2>3 DEF ConsumeLink
    <3> QED  BY <1>1, <1>5, <3>1 DEF Tokened, Issued
  <2> QED  BY <1>5, <2>1, <2>2, <2>3
<1>6. CASE issued' = issued /\ tokens' = tokens
  BY <1>1, <1>6 DEF Tokened, Issued
<1> QED  BY <1>2, <1>3, <1>4, <1>5, <1>6, Untouched

LEMMA ServeTyped ==
    ASSUME TypeInv, NEW q \in Slots, Serve(q)
    PROVE  Serving'
<1>1. account' \in Rows /\ Len(account'.hist) <= History
  BY AccountTyped
<1>2. Tokened' /\ Issued' /\ issued.secret <= issued'.secret /\ issued.secret \in Nat /\ issued'.secret \in Nat
  BY TokensTyped DEF TypeInv, Serving, Issued
<1>3. fails' \in [n : Nat, lapses : BOOLEAN]
  <2>1. fails \in [n : Nat, lapses : BOOLEAN]
    BY DEF TypeInv, Serving
  <2>2. CASE CountFailure(q)
    <3>1. PICK lapses \in BOOLEAN : lapses = (fails.n > 0 /\ fails.lapses)
      OBVIOUS
    <3>2. fails' = [n |-> fails.n + 1, lapses |-> lapses]
      BY <2>2, <3>1 DEF CountFailure
    <3> QED  BY <2>1, <3>2
  <2>3. CASE SetExpiry(q)
    <3>1. fails' = fails \/ fails' = [fails EXCEPT !.lapses = TRUE] \/ fails' = [fails EXCEPT !.lapses = FALSE]
      <4>1. CASE fails.n > 0
        BY <2>3, <4>1 DEF SetExpiry
      <4>2. CASE ~(fails.n > 0)
        <5>1. (fails.n > 0) = FALSE
          BY <4>2
        <5> QED  BY <2>3, <5>1 DEF SetExpiry
      <4> QED  BY <4>1, <4>2
    <3> QED  BY <2>1, <3>1
  <2>4. CASE Uncount(q)
    BY <2>4 DEF Uncount
  <2> QED  BY <2>1, <2>2, <2>3, <2>4, Untouched
<1>4. live' \subseteq Passwords \cup {ByLink}
  <2>1. live \subseteq Passwords \cup {ByLink} /\ reqs[q].pw \in Passwords
    BY DEF TypeInv, Serving, Asking
  <2> QED  BY <2>1, Untouched DEF StartSession, RevokeSessions, Ended
<1>5. pending' \in 0..issued'.secret
  <2>1. pending \in 0..issued.secret
    BY DEF TypeInv, Serving
  <2>2. CASE BeginMFA(q)
    <3>1. pending' = issued.secret + 1 /\ issued'.secret = issued.secret + 1
      BY <2>2 DEF BeginMFA, Issue, TypeInv, Serving, Issued
    <3> QED  BY <1>2, <3>1
  <2>3. CASE DropPending(q)
    BY <1>2, <2>3 DEF DropPending
  <2>4. CASE pending' = pending
    BY <1>2, <2>1, <2>4
  <2> QED  BY <2>2, <2>3, <2>4, Untouched
<1>6. taken' \in BOOLEAN /\ faults' \in Nat
  <2>1. taken \in BOOLEAN /\ faults \in Nat
    BY DEF TypeInv, Serving
  <2>2. taken' \in BOOLEAN
    BY <2>1, Untouched DEF CreateUser
  <2>3. faults' \in Nat
    <3>1. faults' = faults \/ (faults > 0 /\ faults' = faults - 1)
      BY Untouched DEF SetExpiry, Fault
    <3> QED  BY <2>1, <3>1
  <2> QED  BY <2>2, <2>3
<1> QED  BY <1>1, <1>2, <1>3, <1>4, <1>5, <1>6 DEF Serving

\* Requests keep their types at every statement of the service.
LEMMA ServeAsking ==
    ASSUME TypeInv, NEW q \in Slots, Serve(q)
    PROVE  Asking'
<1>1. /\ Shaped /\ Issued /\ Issued' /\ issued.code <= issued'.code /\ issued.secret <= issued'.secret
      /\ issued.code \in Nat /\ issued.secret \in Nat /\ issued'.code \in Nat /\ issued'.secret \in Nat
  BY TokensTyped DEF TypeInv, Serving, Issued
<1>2. \A p \in Slots :
          /\ reqs[p].kind \in Kinds \cup {"none"} /\ reqs[p].page \in {"here", "gone", "else"}
          /\ reqs[p].pw \in Passwords /\ reqs[p].new \in Passwords
          /\ reqs[p].key \in Keys /\ reqs[p].row \in Rows /\ Numbered(p) /\ reqs[p].key.n \in Nat
  BY DEF TypeInv, Asking, Keys
<1>3. account \in Rows
  BY DEF TypeInv, Serving
<1>4. \A p \in Slots :
          /\ reqs'[p].kind = reqs[p].kind /\ reqs'[p].page = reqs[p].page
          /\ reqs'[p].pw = reqs[p].pw /\ reqs'[p].new = reqs[p].new
          /\ reqs'[p].row \in {reqs[p].row, account}
          /\ \/ reqs'[p].key = reqs[p].key
             \/ p = q /\ (BeginMFA(q) \/ InsertCodes(q))
  BY <1>1, OthersStay, RequestStays, RowsAreRead DEF Same
<1>5. CASE BeginMFA(q)
  <2>1. reqs'[q].key = Key("totp", issued.secret + 1) /\ issued'.secret = issued.secret + 1
        /\ reqs[q].kind = "enroll"
    BY <1>1, <1>5 DEF BeginMFA, Is, Issue, Issued, Shaped, Req
  <2>2. reqs'[q].key \in Keys /\ reqs'[q].key.n = issued'.secret
    BY <1>1, <2>1 DEF Key, Keys
  <2>3. \A p \in Slots : p # q => reqs'[p].key = reqs[p].key
    BY <1>4
  <2>4. \A p \in Slots : Numbered(p)'
    BY <1>1, <1>2, <1>4, <2>1, <2>2, <2>3 DEF Numbered
  <2> QED  BY <1>2, <1>3, <1>4, <2>2, <2>3, <2>4 DEF Asking
<1>6. CASE InsertCodes(q)
  <2>1. reqs'[q].key = Key("code", issued.code + 1) /\ issued'.code = issued.code + 1
        /\ reqs[q].kind = "codes"
    <3>1. reqs'[q] = [reqs[q] EXCEPT !.at = "answer", !.out = "ok", !.over = {},
                                     !.key = Key("code", issued.code + 1)]
      BY <1>6 DEF InsertCodes
    <3>2. reqs'[q].key = Key("code", issued.code + 1)
      BY <1>1, <3>1 DEF Shaped, Req
    <3>3. issued'.code = issued.code + 1
      BY <1>1, <1>6 DEF InsertCodes, Issue, Issued
    <3>4. reqs[q].kind = "codes"
      BY <1>6 DEF InsertCodes, Is
    <3> QED  BY <3>2, <3>3, <3>4
  <2>2. reqs'[q].key \in Keys /\ reqs'[q].key.n = issued'.code
    BY <1>1, <2>1 DEF Key, Keys
  <2>3. \A p \in Slots : p # q => reqs'[p].key = reqs[p].key
    BY <1>4
  <2>4. \A p \in Slots : Numbered(p)'
    BY <1>1, <1>2, <1>4, <2>1, <2>2, <2>3 DEF Numbered
  <2> QED  BY <1>2, <1>3, <1>4, <2>2, <2>3, <2>4 DEF Asking
<1>7. CASE ~BeginMFA(q) /\ ~InsertCodes(q)
  <2>1. \A p \in Slots : reqs'[p].key = reqs[p].key
    BY <1>4, <1>7
  <2>2. \A p \in Slots : Numbered(p)'
    BY <1>1, <1>2, <1>4, <2>1 DEF Numbered
  <2> QED  BY <1>2, <1>3, <1>4, <2>1, <2>2 DEF Asking
<1> QED  BY <1>5, <1>6, <1>7

\* A request that fails, or that time overtakes.
LEMMA FailTyped ==
    ASSUME TypeInv, (\E q \in Slots : Refuse(q) \/ Break(q)) \/ WindowPasses \/ LockPasses
    PROVE  Serving' /\ Asking' /\ UNCHANGED issued
<1>1. CASE \E q \in Slots : Refuse(q) \/ Break(q)
  <2>1. PICK q \in Slots : Refuse(q) \/ Break(q)
    BY <1>1
  <2>2. UNCHANGED <<account, fails, live, tokens, pending, issued, taken>> /\ faults > 0 /\ faults' = faults - 1
    BY <2>1 DEF Refuse, Break, Fault
  <2>3. Serving'
    BY <2>2 DEF TypeInv, Serving, Tokened, Issued
  <2>4. PICK out : Reply(q, out)
    BY <2>1 DEF Refuse, Break
  <2>5. \A p \in Slots :
            /\ reqs'[p].kind = reqs[p].kind /\ reqs'[p].page = reqs[p].page
            /\ reqs'[p].pw = reqs[p].pw /\ reqs'[p].new = reqs[p].new
            /\ reqs'[p].key = reqs[p].key /\ reqs'[p].row = reqs[p].row
    BY <2>4 DEF Reply, TypeInv, Shaped, Req
  <2> QED  BY <2>2, <2>3, <2>5 DEF TypeInv, Asking, Numbered
<1>2. CASE WindowPasses
  <2>1. UNCHANGED <<account, live, tokens, pending, issued, taken, reqs, faults>>
        /\ (fails' = fails \/ fails' = [n |-> 0, lapses |-> FALSE])
    BY <1>2 DEF WindowPasses
  <2>2. [n |-> 0, lapses |-> FALSE] \in [n : Nat, lapses : BOOLEAN] /\ fails \in [n : Nat, lapses : BOOLEAN]
    BY DEF TypeInv, Serving
  <2>3. fails' \in [n : Nat, lapses : BOOLEAN]
    BY <2>1, <2>2
  <2> QED  BY <2>1, <2>3 DEF TypeInv, Serving, Tokened, Issued, Asking, Numbered
<1>3. CASE LockPasses
  <2>1. UNCHANGED <<fails, live, tokens, pending, issued, taken, reqs, faults>>
        /\ account' = [account EXCEPT !.locked = "no"]
    BY <1>3 DEF LockPasses
  <2>2. account' \in Rows /\ Len(account'.hist) <= History
    BY <2>1 DEF TypeInv, Serving, Rows
  <2> QED  BY <2>1, <2>2 DEF TypeInv, Serving, Tokened, Issued, Asking, Numbered
<1> QED  BY <1>1, <1>2, <1>3

\* The tab leaves the service's variables alone.
LEMMA ServiceStays ==
    ASSUME TypeInv, UNCHANGED <<account, fails, live, tokens, pending, issued, taken, faults>>
    PROVE  Serving'
  BY DEF TypeInv, Serving, Tokened, Issued

\* A request that is sent has its types.
LEMMA SendsTyped ==
    ASSUME TypeInv, NEW page \in {"here", "else"}, NEW kind \in Kinds, NEW pw \in Passwords,
           NEW new \in Passwords, NEW key \in Keys, kind \in {"enroll", "codes"} => key.n = 0,
           Sends(page, kind, pw, new, key), UNCHANGED issued
    PROVE  Asking'
<1> DEFINE q == CHOOSE p \in Slots : reqs[p].at = "free"
           r == Asked(page, kind, pw, new, key)
<1>1. q \in Slots
  BY DEF Sends
<1>2. reqs' = [reqs EXCEPT ![q] = r]
  BY DEF Sends, Asked
<1>3. r.kind = kind /\ r.page = page /\ r.pw = pw /\ r.new = new /\ r.key = key /\ r.row = FirstRow
  BY DEF Asked, Free
<1> HIDE DEF q, r
<1>4. FirstRow \in Rows
  BY CredentialsAssumption DEF FirstRow, Rows
<1>5. \A p \in Slots : reqs'[p] = IF p = q THEN r ELSE reqs[p]
  BY <1>1, <1>2 DEF TypeInv, Shaped
<1>6. issued.secret \in Nat /\ issued.code \in Nat /\ Asking
  BY DEF TypeInv, Serving, Issued
<1> QED  BY <1>3, <1>4, <1>5, <1>6 DEF Asking, Numbered

\* Requests whose page goes, or whose answer is taken.
LEMMA FreedTyped ==
    ASSUME TypeInv, UNCHANGED issued,
           \A p \in Slots : reqs'[p] = reqs[p] \/ reqs'[p] = [reqs[p] EXCEPT !.page = "gone"] \/ reqs'[p] = Free
    PROVE  Asking'
<1>1. FirstRow \in Rows /\ First \in Passwords /\ Nothing \in Keys
  BY CredentialsAssumption DEF FirstRow, Rows, Nothing, Keys
<1>2. Asking
  BY DEF TypeInv
<1> SUFFICES ASSUME NEW p \in Slots
             PROVE  /\ reqs'[p].kind \in Kinds \cup {"none"} /\ reqs'[p].page \in {"here", "gone", "else"}
                    /\ reqs'[p].pw \in Passwords /\ reqs'[p].new \in Passwords
                    /\ reqs'[p].key \in Keys /\ reqs'[p].row \in Rows /\ Numbered(p)'
  BY DEF Asking, Numbered
<1>3. CASE reqs'[p] = reqs[p]
  BY <1>2, <1>3 DEF Asking, Numbered
<1>4. CASE reqs'[p] = [reqs[p] EXCEPT !.page = "gone"]
  <2>1. /\ reqs'[p].kind = reqs[p].kind /\ reqs'[p].page = "gone" /\ reqs'[p].pw = reqs[p].pw
        /\ reqs'[p].new = reqs[p].new /\ reqs'[p].key = reqs[p].key /\ reqs'[p].row = reqs[p].row
    BY <1>4 DEF TypeInv, Shaped, Req
  <2> QED  BY <1>2, <2>1 DEF Asking, Numbered
<1>5. CASE reqs'[p] = Free
  <2>1. /\ reqs'[p].kind = "none" /\ reqs'[p].page = "else" /\ reqs'[p].pw = First
        /\ reqs'[p].new = First /\ reqs'[p].key = Nothing /\ reqs'[p].row = FirstRow
    BY <1>5 DEF Free
  <2> QED  BY <1>1, <2>1 DEF Numbered, Kinds
<1> QED  BY <1>3, <1>4, <1>5

\* What a page asks.
LEMMA AsksTyped ==
    ASSUME TypeInv, NEW kind \in Kinds, NEW pw \in Passwords, NEW new \in Passwords, NEW key \in Keys,
           kind \in {"enroll", "codes"} => key.n = 0, Asks(kind, pw, new, key)
    PROVE  Serving' /\ Asking' /\ left' \in Sitting /\ UNCHANGED issued
<1>1. Sends("here", kind, pw, new, key)
      /\ UNCHANGED <<account, fails, live, tokens, pending, issued, taken, faults>>
  BY DEF Asks, Service
<1>2. left \in Sitting /\ left.asks > 0 /\ left' = [left EXCEPT !.asks = left.asks - 1]
  BY DEF Asks, Spend, TypeInv, Seated
<1>3. left' \in Sitting
  BY <1>2 DEF Sitting
<1> QED  BY <1>1, <1>3, SendsTyped, ServiceStays

\* Codes and links that somebody may type.
LEMMA KeysTyped ==
    ASSUME TypeInv
    PROVE  /\ Codes \cup {Nothing, Key("link", 1), Key("link", 2), Key("totp", pending)} \subseteq Keys
           /\ Key("totp", 9) \in Keys /\ Key("totp", screen.secret) \in Keys
           /\ Nothing.n = 0 /\ First \in Passwords
<1>1. /\ account.mfa \in Nat /\ pending \in Nat /\ screen.secret \in Nat
      /\ \A n \in 1..issued.code : n \in Nat
  BY DEF TypeInv, Serving, Rows, Seated, Screens, Issued
<1>2. \A n \in Nat : Key("totp", n) \in Keys /\ Key("code", n) \in Keys /\ Key("link", n) \in Keys
  BY DEF Key, Keys
<1> QED  BY <1>1, <1>2, CredentialsAssumption DEF Codes, Nothing, Keys

\* A page that opens.
LEMMA OpensTyped ==
    ASSUME NEW page \in Pages, NEW secret \in Nat, NEW code \in Nat
    PROVE  Opens(page) \in Screens(secret, code)
  BY SignInAssumption DEF Opens, Screens

\* Buttons and effects keep the types.
LEMMA ButtonsTyped ==
    ASSUME TypeInv, Buttons \/ Effects
    PROVE  Serving' /\ Asking' /\ Seated'
<1>1. PICK S : S = Screens(issued.secret, issued.code)
  OBVIOUS
<1>2. screen \in S /\ issued.secret \in Nat /\ issued.code \in Nat /\ left \in Sitting
  BY <1>1 DEF TypeInv, Seated, Serving, Issued
<1>3. \A page \in Pages : Opens(page) \in S
  BY <1>1, <1>2, OpensTyped
<1>4. /\ [screen EXCEPT !.busy = TRUE] \in S /\ [screen EXCEPT !.alt = TRUE] \in S
      /\ [screen EXCEPT !.link = "checking"] \in S /\ [screen EXCEPT !.mail = "typed"] \in S
      /\ [screen EXCEPT !.done = TRUE] \in S
  BY <1>1, <1>2 DEF Screens
<1>5. ASSUME NEW kind \in Kinds, NEW pw \in Passwords, NEW new \in Passwords, NEW key \in Keys,
             kind \in {"enroll", "codes"} => key.n = 0, Asks(kind, pw, new, key), screen' \in S
      PROVE  Serving' /\ Asking' /\ Seated'
  <2>1. Serving' /\ Asking' /\ left' \in Sitting /\ UNCHANGED issued
    BY <1>5, AsksTyped
  <2> QED  BY <1>1, <1>5, <2>1 DEF Seated
<1>6. ASSUME UNCHANGED <<account, fails, live, tokens, pending, issued, taken, faults>>,
             reqs' = reqs \/ reqs' = Orphaned, left' \in Sitting, screen' \in S
      PROVE  Serving' /\ Asking' /\ Seated'
  <2>1. \A p \in Slots : reqs'[p] = reqs[p] \/ reqs'[p] = [reqs[p] EXCEPT !.page = "gone"]
    BY <1>6 DEF Orphaned
  <2>2. Serving' /\ Asking'
    BY <1>6, <2>1, ServiceStays, FreedTyped
  <2> QED  BY <1>1, <1>6, <2>2 DEF Seated
<1>7. ASSUME NEW pw \in Passwords, NEW otp \in Codes \cup {Nothing}, SubmitLogin(pw, otp)
      PROVE  Serving' /\ Asking' /\ Seated'
  <2>1. Asks("login", pw, First, otp) /\ screen' \in S /\ "login" \in Kinds /\ otp \in Keys
    BY <1>4, <1>7, KeysTyped DEF SubmitLogin, Kinds
  <2> QED  BY <1>5, <2>1, KeysTyped
<1>8. CASE SendMagicLink \/ StartOAuth \/ SendReset \/ SubmitRegister \/ SetUpMFA \/ GenerateCodes
  <2>1. PICK kind \in Kinds : Asks(kind, First, First, Nothing) /\ screen' \in S
    BY <1>2, <1>4, <1>8
       DEF SendMagicLink, StartOAuth, SendReset, SubmitRegister, SetUpMFA, GenerateCodes, Kinds
  <2> QED  BY <1>5, <2>1, KeysTyped
<1>9. CASE CheckLink \/ CheckInvitation
  <2>1. \/ Asks("validate", First, First, Key("link", 1)) /\ screen' \in S
        \/ Asks("invitation", First, First, Nothing) /\ screen' \in S
    BY <1>4, <1>9 DEF CheckLink, CheckInvitation
  <2>2. "validate" \in Kinds /\ "invitation" \in Kinds
    BY DEF Kinds
  <2> QED  BY <1>5, <2>1, <2>2, KeysTyped
<1>10. CASE FollowLink
  <2>1. PICK kind \in {"consume", "invitation"}, n \in 1..2 : Asks(kind, First, First, Key("link", n))
    BY <1>10 DEF FollowLink
  <2>2. screen' \in S /\ kind \in Kinds /\ n \in {1, 2}
    BY <1>4, <1>10 DEF FollowLink, Kinds
  <2> QED  BY <1>5, <2>1, <2>2, KeysTyped
<1>11. ASSUME NEW new \in Passwords, SubmitReset(new)
       PROVE  Serving' /\ Asking' /\ Seated'
  <2>1. Asks("reset", First, new, Key("link", 1)) /\ screen' \in S /\ "reset" \in Kinds
    BY <1>4, <1>11 DEF SubmitReset, Kinds
  <2> QED  BY <1>5, <2>1, KeysTyped
<1>12. ASSUME NEW old \in Passwords, NEW new \in Passwords, SubmitPassword(old, new)
       PROVE  Serving' /\ Asking' /\ Seated'
  <2>1. Asks("change", old, new, Nothing) /\ screen' \in S /\ "change" \in Kinds
    BY <1>4, <1>12 DEF SubmitPassword, Kinds
  <2> QED  BY <1>5, <2>1, KeysTyped
<1>13. ASSUME NEW n \in {screen.secret, 9}, SubmitCode(n)
       PROVE  Serving' /\ Asking' /\ Seated'
  <2>1. Asks("verify", First, First, Key("totp", n)) /\ screen' \in S /\ "verify" \in Kinds
    BY <1>4, <1>13 DEF SubmitCode, Kinds
  <2> QED  BY <1>5, <2>1, KeysTyped
<1>14. CASE TypeMail
  <2>1. UNCHANGED <<account, fails, live, tokens, pending, issued, taken, faults, reqs, left>> /\ screen' \in S
    BY <1>4, <1>14 DEF TypeMail, credentials
  <2> QED  BY <1>2, <1>6, <2>1
<1>15. CASE Tick
  <2>1. UNCHANGED <<account, fails, live, tokens, pending, issued, taken, faults, reqs, left>>
    BY <1>15 DEF Tick, credentials
  <2>2. screen.wait \in 0..LockTicks /\ screen.wait > 0 /\ screen.served \in Nat /\ LockTicks \in Nat
    BY <1>1, <1>2, <1>15, SignInAssumption DEF Tick, Screens
  <2>3. PICK wait \in 0..LockTicks, served \in Nat :
            screen' = [screen EXCEPT !.wait = wait, !.served = served]
    <3>1. screen.wait - 1 \in 0..LockTicks /\ screen.served + 1 \in Nat
      BY <2>2
    <3>2. \E served \in Nat : screen' = [screen EXCEPT !.wait = screen.wait - 1, !.served = served]
      BY <1>15, <2>2, <3>1 DEF Tick
    <3> QED  BY <3>1, <3>2
  <2>4. screen' \in S
    BY <1>1, <1>2, <2>3 DEF Screens
  <2> QED  BY <1>2, <1>6, <2>1, <2>4
<1>16. CASE Leave \/ Redirect
  <2>1. UNCHANGED <<account, fails, live, tokens, pending, issued, taken, faults>> /\ reqs' = Orphaned
    BY <1>16 DEF Leave, Redirect, Service
  <2>2. screen' \in S
    BY <1>3, <1>16 DEF Leave, Redirect, Pages
  <2>3. left' \in Sitting
    BY <1>2, <1>16 DEF Leave, Redirect, Spend, Sitting
  <2> QED  BY <1>6, <2>1, <2>2, <2>3
<1>17. CASE OthersAsk
  <2>1. left.others > 0 /\ left' = [left EXCEPT !.others = left.others - 1]
    BY <1>17 DEF OthersAsk, Spend
  <2>2. left' \in Sitting /\ left.kinds \subseteq Kinds
    BY <1>2, <2>1 DEF Sitting
  <2>3. PICK kind \in left.kinds, pw \in Passwords, new \in Passwords,
             key \in Codes \cup {Nothing, Key("link", 1), Key("totp", pending)} :
            /\ kind \notin {"login", "verify", "reset", "consume"} => key = Nothing
            /\ Sends("else", kind, pw, new, key)
    BY <1>17 DEF OthersAsk
  <2>4. key \in Keys /\ (kind \in {"enroll", "codes"} => key.n = 0)
    BY <2>3, KeysTyped
  <2>5. UNCHANGED <<account, fails, live, tokens, pending, issued, taken, faults, screen>>
    BY <1>17 DEF OthersAsk, Service
  <2>6. Serving' /\ Asking'
    BY <2>2, <2>3, <2>4, <2>5, ServiceStays, SendsTyped
  <2> QED  BY <1>1, <1>2, <2>2, <2>5, <2>6 DEF Seated
<1> QED
  BY <1>7, <1>8, <1>9, <1>10, <1>11, <1>12, <1>13, <1>14, <1>15, <1>16, <1>17 DEF Buttons, Effects

\* Answers keep the types: what is shown of them was issued.
LEMMA AnswersTyped ==
    ASSUME TypeInv, NEW q \in Slots, Receive(q)
    PROVE  Serving' /\ Asking' /\ Seated'
<1>1. PICK S : S = Screens(issued.secret, issued.code)
  OBVIOUS
<1>2. screen \in S /\ issued.secret \in Nat /\ issued.code \in Nat /\ left \in Sitting
  BY <1>1 DEF TypeInv, Seated, Serving, Issued
<1>3. \A page \in Pages : Opens(page) \in S
  BY <1>1, <1>2, OpensTyped
<1>4. ASSUME UNCHANGED <<account, fails, live, tokens, pending, issued, taken, faults, left>>,
             reqs' = [reqs EXCEPT ![q] = Free] \/ reqs' = [Orphaned EXCEPT ![q] = Free], screen' \in S
      PROVE  Serving' /\ Asking' /\ Seated'
  <2>1. \A p \in Slots : reqs'[p] = reqs[p] \/ reqs'[p] = [reqs[p] EXCEPT !.page = "gone"] \/ reqs'[p] = Free
    BY <1>4 DEF Orphaned, TypeInv, Shaped
  <2>2. Serving' /\ Asking'
    BY <1>4, <2>1, ServiceStays, FreedTyped
  <2> QED  BY <1>1, <1>2, <1>4, <2>2 DEF Seated
<1>5. ASSUME NEW kinds, Answered(q, kinds), screen' \in S
      PROVE  Serving' /\ Asking' /\ Seated'
  BY <1>4, <1>5 DEF Answered, Service
<1>6. ASSUME NEW kinds, NEW page \in Pages, Turns(q, kinds, page)
      PROVE  Serving' /\ Asking' /\ Seated'
  BY <1>3, <1>4, <1>6 DEF Turns, Service
<1>7. CASE SignedIn(q) \/ PasswordChanged(q)
  BY <1>6, <1>7 DEF SignedIn, PasswordChanged, Pages
<1>8. CASE LoginRefused(q)
  <2>1. screen.tries \in 0..MaxTries /\ screen.wait \in 0..LockTicks /\ screen.wrong \in Nat
        /\ LockTicks \in Nat \ {0} /\ MaxTries \in Nat
    BY <1>1, <1>2, SignInAssumption DEF Screens
  <2>2. PICK tries \in 0..MaxTries :
            tries = IF reqs[q].out = "401" /\ screen.tries > 0 THEN screen.tries - 1 ELSE screen.tries
    BY <2>1
  <2>3. PICK wait \in 0..LockTicks :
            wait = CASE reqs[q].out = "wait" -> 1
                     [] reqs[q].out # "wait" /\ tries = 0 -> LockTicks
                     [] OTHER -> screen.wait
    <3>1. 1 \in 0..LockTicks /\ LockTicks \in 0..LockTicks
      BY <2>1
    <3> QED  BY <2>1, <3>1
  <2>4. PICK wrong \in Nat : wrong = IF reqs[q].out = "401" THEN screen.wrong + 1 ELSE screen.wrong
    BY <2>1
  <2>5. \/ screen' = [screen EXCEPT !.busy = FALSE, !.otp = TRUE]
        \/ screen' = [screen EXCEPT !.busy = FALSE, !.tries = tries, !.wait = wait, !.wrong = wrong]
    BY <1>8, <2>2, <2>3, <2>4 DEF LoginRefused, Locks
  <2>6. screen' \in S
    BY <1>1, <1>2, <2>5 DEF Screens
  <2> QED  BY <1>5, <1>8, <2>6 DEF LoginRefused
<1>9. CASE AlternativeAnswered(q)
  <2>1. screen' = Opens("away") \/ screen' = [screen EXCEPT !.alt = FALSE]
    BY <1>9 DEF AlternativeAnswered
  <2>2. screen' \in S
    BY <1>1, <1>2, <1>3, <2>1 DEF Screens, Pages
  <2> QED  BY <1>5, <1>9, <2>2 DEF AlternativeAnswered
<1>10. CASE ResetSent(q)
  <2>1. PICK done \in BOOLEAN : done = (screen.done \/ Ok(q))
    OBVIOUS
  <2>2. screen.wait \in 0..LockTicks /\ 1 \in 0..LockTicks /\ LockTicks \in 0..LockTicks
    BY <1>1, <1>2, SignInAssumption DEF Screens
  <2>3. PICK wait \in 0..LockTicks : wait = CASE Ok(q) -> LockTicks
                                              [] reqs[q].out = "wait" -> 1
                                              [] OTHER -> screen.wait
    BY <2>2 DEF Ok
  <2>4. screen' = [screen EXCEPT !.busy = FALSE, !.done = done, !.wait = wait]
    BY <1>10, <2>1, <2>3 DEF ResetSent
  <2>5. screen' \in S
    BY <1>1, <1>2, <2>4 DEF Screens
  <2> QED  BY <1>5, <1>10, <2>5 DEF ResetSent
<1>11. CASE LinkChecked(q)
  <2>1. PICK link \in {"valid", "invalid"} : screen' = [screen EXCEPT !.link = link]
    BY <1>11 DEF LinkChecked
  <2>2. screen' \in S
    BY <1>1, <1>2, <2>1 DEF Screens
  <2> QED  BY <1>5, <1>11, <2>2 DEF LinkChecked
<1>12. CASE ResetAnswered(q) \/ RegisterAnswered(q)
  <2>1. PICK done \in BOOLEAN : done = Ok(q)
    BY DEF Ok
  <2>2. PICK link \in {"invalid", screen.link} : link = IF reqs[q].out = "400" THEN "invalid" ELSE screen.link
    OBVIOUS
  <2>3. \/ screen' = [screen EXCEPT !.busy = FALSE, !.done = done, !.link = link]
        \/ screen' = [screen EXCEPT !.busy = FALSE, !.done = done]
    BY <1>12, <2>1, <2>2 DEF ResetAnswered, RegisterAnswered
  <2>4. screen' \in S
    BY <1>1, <1>2, <2>3 DEF Screens
  <2> QED  BY <1>5, <1>12, <2>4 DEF ResetAnswered, RegisterAnswered
<1>13. CASE InvitationChecked(q)
  <2>1. PICK mail \in {"invited", screen.mail} : screen' = [screen EXCEPT !.link = "checked", !.mail = mail]
    BY <1>13 DEF InvitationChecked
  <2>2. screen' \in S
    BY <1>1, <1>2, <2>1 DEF Screens
  <2> QED  BY <1>5, <1>13, <2>2 DEF InvitationChecked
<1>14. CASE LinkFollowed(q)
  <2>1. CASE Turns(q, {"invitation"}, "login")
    BY <1>6, <2>1 DEF Pages
  <2>2. CASE Answered(q, {"consume", "invitation"}) /\ UNCHANGED screen
    BY <1>2, <1>5, <2>2
  <2> QED  BY <1>14, <2>1, <2>2 DEF LinkFollowed
<1>15. CASE PasswordRefused(q)
  <2>1. screen' = [screen EXCEPT !.busy = FALSE]
    BY <1>15 DEF PasswordRefused, Released
  <2>2. screen' \in S
    BY <1>1, <1>2, <2>1 DEF Screens
  <2> QED  BY <1>5, <1>15, <2>2 DEF PasswordRefused
<1>16. CASE Enrolling(q)
  <2>1. Answered(q, {"enroll"})
    BY <1>16 DEF Enrolling
  <2>2. reqs[q].key.n \in 0..issued.secret
    <3>1. reqs[q].key.n \in Nat /\ Numbered(q)
      BY DEF TypeInv, Asking, Keys
    <3> QED  BY <1>2, <2>1, <3>1 DEF Answered, Numbered
  <2>3. PICK n \in 0..issued.secret : screen' = [screen EXCEPT !.alt = FALSE, !.secret = n]
    <3>1. screen.secret \in 0..issued.secret
      BY <1>1, <1>2 DEF Screens
    <3> QED  BY <1>16, <2>2, <3>1 DEF Enrolling
  <2>4. screen' \in S
    BY <1>1, <1>2, <2>3 DEF Screens
  <2> QED  BY <1>5, <2>1, <2>4
<1>17. CASE CodeChecked(q)
  <2>1. PICK n \in {0, screen.secret} : screen' = [screen EXCEPT !.alt = FALSE, !.secret = n]
    BY <1>17 DEF CodeChecked
  <2>2. n \in 0..issued.secret
    BY <1>1, <1>2, <2>1 DEF Screens
  <2>3. screen' \in S
    BY <1>1, <1>2, <2>1, <2>2 DEF Screens
  <2> QED  BY <1>5, <1>17, <2>3 DEF CodeChecked
<1>18. CASE CodesShown(q)
  <2>1. reqs[q].key.n \in 0..issued.code
    <3>1. reqs[q].key.n \in Nat /\ Numbered(q)
      BY DEF TypeInv, Asking, Keys
    <3> QED  BY <1>2, <1>18, <3>1 DEF CodesShown, Numbered
  <2>2. screen' = screen \/ screen' = [screen EXCEPT !.codes = reqs[q].key.n]
    BY <1>18 DEF CodesShown
  <2>3. screen' \in S
    BY <1>1, <1>2, <2>1, <2>2 DEF Screens
  <2> QED  BY <1>4, <1>18, <2>3 DEF CodesShown
<1>19. CASE Dropped(q)
  BY <1>2, <1>4, <1>19 DEF Dropped, Service
<1> QED
  BY <1>7, <1>8, <1>9, <1>10, <1>11, <1>12, <1>13, <1>14, <1>15, <1>16, <1>17, <1>18, <1>19 DEF Receive

\* Every step keeps the types.
LEMMA TypeStep ==
    ASSUME TypeInv, [SignInNext]_signInVars
    PROVE  Serving' /\ Asking' /\ Seated'
<1>1. CASE UNCHANGED signInVars
  BY <1>1 DEF signInVars, credentials, TypeInv, Serving, Tokened, Issued, Asking, Numbered, Seated
<1>2. CASE Buttons \/ Effects
  BY <1>2, ButtonsTyped
<1>3. CASE \E q \in Slots : Receive(q)
  BY <1>3, AnswersTyped
<1>4. CASE ServiceStep
  <2>1. UNCHANGED <<screen, left>>
    BY <1>4 DEF ServiceStep
  <2>2. /\ Serving' /\ Asking' /\ issued.secret \in Nat /\ issued.code \in Nat
        /\ issued.secret <= issued'.secret /\ issued.code <= issued'.code
        /\ issued'.secret \in Nat /\ issued'.code \in Nat
    <3>1. issued.secret \in Nat /\ issued.code \in Nat
      BY DEF TypeInv, Serving, Issued
    <3>2. CASE \E q \in Slots : Serve(q)
      BY <3>1, <3>2, ServeTyped, ServeAsking, TokensTyped DEF Issued
    <3>3. CASE Fails \/ Lapses
      BY <3>1, <3>3, FailTyped DEF Fails, Lapses
    <3> QED  BY <1>4, <3>2, <3>3 DEF ServiceStep
  <2>3. screen \in Screens(issued.secret, issued.code)
    BY DEF TypeInv, Seated
  <2>4. 0..issued.secret \subseteq 0..issued'.secret /\ 0..issued.code \subseteq 0..issued'.code
    BY <2>2
  <2>5. screen \in Screens(issued'.secret, issued'.code)
    BY <2>3, <2>4 DEF Screens
  <2> QED  BY <2>1, <2>2, <2>5 DEF TypeInv, Seated
<1> QED  BY <1>1, <1>2, <1>3, <1>4 DEF SignInNext

LEMMA TypesAtFirst ==
    ASSUME Init
    PROVE  Serving /\ Asking /\ Seated
<1>1. FirstRow \in Rows /\ First \in Passwords /\ Nothing \in Keys /\ Len(FirstRow.hist) <= History
  BY CredentialsAssumption DEF FirstRow, Rows, Nothing, Keys
<1>2. /\ account \in {FirstRow, [FirstRow EXCEPT !.stale = TRUE], [FirstRow EXCEPT !.mfa = 1]}
      /\ fails = [n |-> 0, lapses |-> FALSE] /\ live = {} /\ pending = 0
      /\ issued = [reset |-> 1, magic |-> 0, code |-> 1, secret |-> 1] /\ taken = FALSE /\ faults \in Nat
      /\ reqs = [q \in Slots |-> Free] /\ screen = Opens(left.page) /\ left \in Sittings
  BY DEF Init, SignInInit, CredentialsInit
<1>3. account \in Rows /\ Len(account.hist) <= History
  <2>1. CASE account = FirstRow
    BY <1>1, <2>1
  <2>2. CASE account = [FirstRow EXCEPT !.stale = TRUE]
    <3>1. account.hist = FirstRow.hist
      BY <2>2 DEF FirstRow
    <3> QED  BY <1>1, <2>2, <3>1 DEF Rows
  <2>3. CASE account = [FirstRow EXCEPT !.mfa = 1]
    <3>1. account.hist = FirstRow.hist
      BY <2>3 DEF FirstRow
    <3> QED  BY <1>1, <2>3, <3>1 DEF Rows
  <2> QED  BY <1>2, <2>1, <2>2, <2>3
<1>4. Issued /\ issued.reset = 1 /\ issued.magic = 0 /\ issued.code = 1 /\ issued.secret = 1
  BY <1>2 DEF Issued
<1>5. Tokened
  <2>1. PICK code \in SUBSET {1} : code = IF account.mfa = 1 THEN {1} ELSE {}
    OBVIOUS
  <2>2. tokens = [reset |-> {1}, magic |-> {}, code |-> code]
    BY <2>1 DEF Init, SignInInit, CredentialsInit
  <2>3. {1} = 1..1
    OBVIOUS
  <2> QED  BY <1>4, <2>2, <2>3 DEF Tokened
<1>6. Serving
  <2>1. fails \in [n : Nat, lapses : BOOLEAN]
    BY <1>2
  <2>2. pending \in 0..issued.secret
    BY <1>2, <1>4
  <2> QED  BY <1>2, <1>3, <1>4, <1>5, <2>1, <2>2 DEF Serving
<1>7. Asking
  <2>1. /\ Free.kind = "none" /\ Free.page = "else" /\ Free.pw = First
        /\ Free.new = First /\ Free.key = Nothing /\ Free.row = FirstRow
    BY DEF Free
  <2> QED  BY <1>1, <1>2, <2>1 DEF Asking, Numbered
<1>8. left \in Sitting /\ left.page \in Pages
  BY <1>2, SittingsAssumption DEF Sitting
<1>9. screen \in Screens(issued.secret, issued.code)
  BY <1>2, <1>4, <1>8, OpensTyped
<1> QED  BY <1>6, <1>7, <1>8, <1>9 DEF Seated

LEMMA TypesMean ==
    ASSUME Serving, Asking, Seated
    PROVE  SignInTypeOK
<1>1. CredentialsTypeOK
  BY DEF Serving, Tokened, Issued, Asking, CredentialsTypeOK
<1> QED  BY <1>1 DEF Seated, Screens, SignInTypeOK

LEMMA TypesHold == Spec => [](Serving /\ Asking /\ Seated)
<1>1. Init => Serving /\ Asking /\ Seated
  BY TypesAtFirst
<1>2. Shaped /\ (Serving /\ Asking /\ Seated) /\ [Next]_pagesVars => (Serving /\ Asking /\ Seated)'
  <2> SUFFICES ASSUME Shaped, Serving, Asking, Seated, [Next]_pagesVars
               PROVE  [SignInNext]_signInVars
    BY TypeStep DEF TypeInv
  <2> QED  BY DEF Next, pagesVars
<1> QED  BY <1>1, <1>2, ShapeKept, PTL DEF Spec

\* Every variable of the pages, the console and the frame has its type, in every sitting.
THEOREM PagesTypeCorrect == Spec => []TypeOK
<1>1. Spec => [](part \in Parts)
  <2>1. Init => part \in Parts
    BY DEF Init
  <2>2. part \in Parts /\ [Next]_pagesVars => (part \in Parts)'
    BY DEF Next, pagesVars
  <2> QED  BY <2>1, <2>2, PTL DEF Spec
<1>2. Serving /\ Asking /\ Seated => SignInTypeOK
  BY TypesMean
<1>3. ConsoleInv => ConsoleTypeOK
  BY ConsoleShows
<1>4. ShellInv => ShellTypeOK
  BY ShellInvKeeps
<1>5. part \in Parts /\ SignInTypeOK /\ ConsoleTypeOK /\ ShellTypeOK => TypeOK
  BY DEF TypeOK
<1> QED  BY <1>1, <1>2, <1>3, <1>4, <1>5, TypesHold, ConsoleHolds, ShellHolds, PTL
=============================================================================
