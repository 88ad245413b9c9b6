------------------------------ MODULE Sessions ------------------------------
(***************************************************************************)
(* Refresh-token families of the auth service: the rows of auth.sessions,  *)
(* the Redis grace entries and rotation locks, and the handlers that read  *)
(* and write them one statement at a time (services/auth/internal).        *)
(*                                                                         *)
(* A refresh token and the row that stores its digest are one Token: an    *)
(* integer, numbered in creation order, which is the order of the column   *)
(* created_at that the session limit sorts by.  A family is named by the   *)
(* first token issued in it.  Every handler runs in a request slot; the    *)
(* steps of two slots interleave between any two database or Redis         *)
(* commands.                                                               *)
(***************************************************************************)
EXTENDS Naturals, FiniteSets

CONSTANTS
    Users,          \* accounts
    Requests,       \* request slots of all auth replicas
    Devices,        \* device identifiers a client may send
    NoDevice,       \* the empty X-Device-ID
    NoRequest,      \* an unheld rotation lock
    MaxToken,       \* bound on the refresh tokens issued
    MaxEvents,      \* bound on revocations, lapses, failures and crashes
    Cap,            \* MaxActiveSessions
    LeaseOutlived   \* may a handler run longer than the lock's 20 s TTL?

ASSUME ConstantsAssumption ==
    /\ Users # {}
    /\ NoDevice \notin Devices
    /\ NoRequest \notin Requests
    /\ MaxToken \in Nat /\ MaxEvents \in Nat
    /\ Cap \in Nat \ {0}
    /\ LeaseOutlived \in BOOLEAN

Token    == 1 .. MaxToken
DeviceId == Devices \cup {NoDevice}

VARIABLES
    st,       \* st[t]: the row of token t: none yet, live, revoked, or deleted ("gone")
    info,     \* info[t]: the immutable columns of the row
    expired,  \* tokens past expires_at
    status,   \* users.users.status
    grace,    \* grace[t]: the token cached under refresh:grace:<t>, 0 when absent
    lock,     \* lock[t]: the owner stored under refresh:lock:<t>
    pc,       \* what each request slot does next
    tok,      \* the refresh token the request presents (0: a login)
    dev,      \* the device identifier the request sends
    own,      \* the user the request acts for
    out,      \* the token the request has issued, 0 before
    events,   \* events left of MaxEvents
    \* history of the run, read by no action
    rotated,  \* tokens consumed by a rotation
    spent,    \* tokens whose grace entry lapsed, was deleted or was never written
    ended,    \* families revoked as a whole
    raced,    \* those of them that had a rotation under way at that moment
    owed      \* owed[u]: session limits of u left unenforced by a failed request

rows    == <<st, info, expired, status>>
redis   == <<grace, lock>>
args    == <<tok, dev, own>>
history == <<rotated, spent, ended, raced, owed>>
vars    == <<rows, redis, pc, args, out, events, history>>

Locked  == {"reread", "select", "expire", "user", "save", "insert", "cap",
            "store", "reuse", "kill", "unlock"}
PC      == Locked \cup {"idle", "lock", "logout", "revokeAll"}

TypeOK ==
    /\ st \in [Token -> {"none", "live", "revoked", "gone"}]
    /\ info \in [Token -> [user : Users, fam : Token, dev : DeviceId]]
    /\ expired \in SUBSET Token
    /\ status \in [Users -> {"active", "inactive"}]
    /\ grace \in [Token -> Token \cup {0}]
    /\ lock \in [Token -> Requests \cup {NoRequest}]
    /\ pc \in [Requests -> PC]
    /\ tok \in [Requests -> Token \cup {0}]
    /\ dev \in [Requests -> DeviceId]
    /\ own \in [Requests -> Users]
    /\ out \in [Requests -> Token \cup {0}]
    /\ events \in 0 .. MaxEvents
    /\ rotated \in SUBSET Token
    /\ spent \in SUBSET Token
    /\ ended \in SUBSET Token
    /\ raced \in SUBSET Token
    /\ owed \in [Users -> Nat]

AnyUser == CHOOSE u \in Users : TRUE

Init ==
    /\ st = [t \in Token |-> "none"]
    /\ info = [t \in Token |-> [user |-> AnyUser, fam |-> t, dev |-> NoDevice]]
    /\ expired = {}
    /\ status = [u \in Users |-> "active"]
    /\ grace = [t \in Token |-> 0]
    /\ lock = [t \in Token |-> NoRequest]
    /\ pc = [r \in Requests |-> "idle"]
    /\ tok = [r \in Requests |-> 0]
    /\ dev = [r \in Requests |-> NoDevice]
    /\ own = [r \in Requests |-> AnyUser]
    /\ out = [r \in Requests |-> 0]
    /\ events = MaxEvents
    /\ rotated = {} /\ spent = {} /\ ended = {} /\ raced = {}
    /\ owed = [u \in Users |-> 0]

-----------------------------------------------------------------------------
(* Statements on auth.sessions                                             *)

Issued   == {t \in Token : st[t] # "none"}
Live(u)  == {t \in Token : st[t] = "live" /\ info[t].user = u}
Family(f) == {t \in Token : st[t] # "none" /\ info[t].fam = f}
Fam(r)   == info[tok[r]].fam

\* UPDATE ... SET revoked_at WHERE revoked_at IS NULL AND the row is in S.
RevokeIn(S) ==
    st' = [t \in Token |-> IF t \in S /\ st[t] = "live" THEN "revoked" ELSE st[t]]

\* A slip: the stale copy is saved as it was read.
SaveStale(t) == st' = [st EXCEPT ![t] = "live"]

\* gorm's Save of a row read earlier, with revoked_at set: an UPDATE of every
\* column by primary key, and an INSERT when the row is no longer there.
SaveRevoked(t) == st' = [st EXCEPT ![t] = "revoked"]

\* A rotation that has read a live row of family f and not yet written its
\* successor.
InWindow(r)  == pc[r] \in {"user", "save", "insert"} /\ tok[r] # 0
Rotating(f)  == \E r \in Requests : InWindow(r) /\ Fam(r) = f

\* Bookkeeping of a revocation of whole families.
Ends(F) ==
    /\ ended' = ended \cup F
    /\ raced' = raced \cup {f \in F : Rotating(f)}

\* One of the bounded events.
Event == events > 0 /\ events' = events - 1

Goto(r, l) == pc' = [pc EXCEPT ![r] = l]

\* The handler returns: its slot is free again.
Return(r) ==
    /\ Goto(r, "idle")
    /\ tok' = [tok EXCEPT ![r] = 0]
    /\ dev' = [dev EXCEPT ![r] = NoDevice]
    /\ own' = [own EXCEPT ![r] = AnyUser]
    /\ out' = [out EXCEPT ![r] = 0]

Begin(r, l, t, d, u) ==
    /\ pc[r] = "idle"
    /\ Goto(r, l)
    /\ tok' = [tok EXCEPT ![r] = t]
    /\ dev' = [dev EXCEPT ![r] = d]
    /\ own' = [own EXCEPT ![r] = u]
    /\ UNCHANGED out

-----------------------------------------------------------------------------
(* Login: the account is checked, then startSession opens a family.        *)

BeginLogin(r, u, d) ==
    /\ status[u] = "active"
    /\ Begin(r, "insert", 0, d, u)
    /\ UNCHANGED <<events, rows, redis, history>>

(* newSessionInFamily, shared by Login and Refresh.                        *)

InsertSession(r) ==
    /\ pc[r] = "insert"
    /\ \E n \in Token :
          /\ st[n] = "none" /\ \A m \in Token : m < n => st[m] # "none"
          /\ st' = [st EXCEPT ![n] = "live"]
          /\ info' = [info EXCEPT ![n] =
                IF tok[r] = 0 THEN [user |-> own[r], fam |-> n, dev |-> dev[r]]
                              ELSE info[tok[r]]]
          /\ out' = [out EXCEPT ![r] = n]
    /\ Goto(r, "cap")
    /\ UNCHANGED <<events, expired, status, redis, args, history>>

\* A slip: one session too many stays.
NewestAndOne(u) == {t \in Live(u) : Cardinality({s \in Live(u) : s > t}) <= Cap}

\* The Cap most recent live sessions of the user stay, the others are revoked.
Newest(u) == {t \in Live(u) : Cardinality({s \in Live(u) : s > t}) < Cap}

EnforceCap(r) ==
    /\ pc[r] = "cap"
    /\ RevokeIn(Live(own[r]) \ Newest(own[r]))
    /\ owed' = [owed EXCEPT ![own[r]] = 0]
    /\ IF tok[r] = 0 THEN Return(r) ELSE Goto(r, "store") /\ UNCHANGED <<args, out>>
    /\ UNCHANGED <<events, info, expired, status, redis, rotated, spent, ended, raced>>

-----------------------------------------------------------------------------
(* Refresh                                                                 *)

\* readGrace: the cached result is usable by the device it is bound to.
GraceHit(t, d) ==
    /\ grace[t] # 0
    /\ info[grace[t]].dev \in {NoDevice, d}

\* A hit on the first look answers at once and changes nothing.
BeginRefresh(r, t, d) ==
    /\ st[t] # "none"
    /\ ~ GraceHit(t, d)
    /\ Begin(r, "lock", t, d, info[t].user)
    /\ UNCHANGED <<events, rows, redis, history>>

\* A slip: SET without NX.
TakesLock(t) == TRUE

\* SETNX succeeds.
LockFree(t) == lock[t] = NoRequest

AcquireLock(r) ==
    /\ pc[r] = "lock"
    /\ LockFree(tok[r])
    /\ lock' = [lock EXCEPT ![tok[r]] = r]
    /\ Goto(r, "reread")
    /\ UNCHANGED <<events, rows, grace, args, out, history>>

\* A slip: no second look at the grace entry.
NoReread(r) == FALSE

Reread(r) == GraceHit(tok[r], dev[r])

RereadGrace(r) ==
    /\ pc[r] = "reread"
    /\ Goto(r, IF Reread(r) THEN "unlock" ELSE "select")
    /\ UNCHANGED <<events, rows, redis, args, out, history>>

SelectSession(r) ==
    LET t == tok[r] IN
    /\ pc[r] = "select"
    /\ \/ st[t] = "gone" /\ Goto(r, "unlock")
       \/ st[t] = "revoked" /\ Goto(r, "reuse")
       \/ st[t] = "live" /\ t \in expired /\ Goto(r, "expire")
       \/ /\ st[t] = "live" /\ t \notin expired
          /\ Goto(r, IF info[t].dev \in {NoDevice, dev[r]} THEN "user" ELSE "unlock")
    /\ UNCHANGED <<events, rows, redis, args, out, history>>

CheckUser(r) ==
    /\ pc[r] = "user"
    /\ Goto(r, IF status[own[r]] = "active" THEN "save" ELSE "kill")
    /\ UNCHANGED <<events, rows, redis, args, out, history>>

\* A slip: only the presented token is revoked.
KilledOne(r) == {tok[r]}

Killed(r) == Family(Fam(r))

\* killFamily, for a replayed token or a barred account.
KillFamily(r) ==
    /\ pc[r] \in {"reuse", "kill"}
    /\ RevokeIn(Killed(r))
    /\ Ends({Fam(r)})
    /\ Goto(r, "unlock")
    /\ UNCHANGED <<events, info, expired, status, redis, args, out, rotated, spent, owed>>

SaveExpired(r) ==
    /\ pc[r] = "expire"
    /\ SaveRevoked(tok[r])
    /\ Goto(r, "unlock")
    /\ UNCHANGED <<events, info, expired, status, redis, args, out, history>>

SaveRotated(r) ==
    /\ pc[r] = "save"
    /\ SaveRevoked(tok[r])
    /\ rotated' = rotated \cup {tok[r]}
    /\ Goto(r, "insert")
    /\ UNCHANGED <<events, info, expired, status, redis, args, out, spent, ended, raced, owed>>

\* The outcome of SET is ignored: the entry may not be there afterwards.
StoreGrace(r) ==
    /\ pc[r] = "store"
    /\ \/ /\ grace' = [grace EXCEPT ![tok[r]] = out[r]]
          /\ spent' = spent \ {tok[r]}
          /\ UNCHANGED events
       \/ Event /\ spent' = spent \cup {tok[r]} /\ UNCHANGED grace
    /\ Goto(r, "unlock")
    /\ UNCHANGED <<rows, lock, args, out, rotated, ended, raced, owed>>

\* The deferred compare-and-delete.
FreedLock(r) == IF lock[tok[r]] = r THEN [lock EXCEPT ![tok[r]] = NoRequest] ELSE lock

ReleaseLock(r) ==
    /\ pc[r] = "unlock"
    /\ lock' = FreedLock(r)
    /\ Return(r)
    /\ UNCHANGED <<events, rows, grace, history>>

-----------------------------------------------------------------------------
(* Logout                                                                  *)

\* DEL of the presented token's grace entry, before its row is looked up; a
\* deletion of the row between the two is one before them.
BeginLogout(r, t) ==
    /\ st[t] # "none"
    /\ grace' = [grace EXCEPT ![t] = 0]
    /\ spent' = spent \cup {t}
    /\ IF st[t] = "gone" THEN UNCHANGED <<pc, args, out>>
                         ELSE Begin(r, "logout", t, NoDevice, info[t].user)
    /\ UNCHANGED <<events, rows, lock, rotated, ended, raced, owed>>

SaveLogout(r) ==
    /\ pc[r] = "logout"
    /\ SaveRevoked(tok[r])
    /\ Return(r)
    /\ UNCHANGED <<events, info, expired, status, redis, history>>

-----------------------------------------------------------------------------
(* Revocations of one statement                                            *)

RevokeSession(t) ==
    /\ Event
    /\ st[t] = "live"
    /\ RevokeIn({t})
    /\ UNCHANGED <<info, expired, status, redis, pc, args, out, history>>

\* Sign out of the other devices: keep is the caller's own session.
RevokeAllOtherSessions(u, keep) ==
    /\ Event
    /\ Live(u) \ {keep} # {}
    /\ RevokeIn(Live(u) \ {keep})
    /\ UNCHANGED <<info, expired, status, redis, pc, args, out, history>>

FamiliesOf(u) == {info[t].fam : t \in {s \in Issued : info[s].user = u}}

\* ChangePassword and Reset: every active session of the user is revoked.
RevokeAll(u) ==
    /\ Event
    /\ Live(u) # {}
    /\ RevokeIn(Live(u))
    /\ Ends(FamiliesOf(u))
    /\ UNCHANGED <<info, expired, status, redis, pc, args, out, rotated, spent, owed>>

\* SetPasswordByID and EnsureBootstrapAdmin: the rows themselves are deleted.
DeleteAll(u) ==
    /\ Event
    /\ \E t \in Issued : info[t].user = u /\ st[t] # "gone"
    /\ st' = [t \in Token |-> IF st[t] # "none" /\ info[t].user = u THEN "gone" ELSE st[t]]
    /\ Ends(FamiliesOf(u))
    /\ UNCHANGED <<info, expired, status, redis, pc, args, out, rotated, spent, owed>>

\* SetUserState to inactive: the status first, the sessions in a second statement.
Deactivate(r, u) ==
    /\ Event
    /\ status[u] = "active"
    /\ status' = [status EXCEPT ![u] = "inactive"]
    /\ Begin(r, "revokeAll", 0, NoDevice, u)
    /\ UNCHANGED <<st, info, expired, redis, history>>

FinishDeactivate(r) ==
    /\ pc[r] = "revokeAll"
    /\ RevokeIn(Live(own[r]))
    /\ Ends(FamiliesOf(own[r]))
    /\ Return(r)
    /\ UNCHANGED <<events, info, expired, status, redis, rotated, spent, owed>>

Reactivate(u) ==
    /\ Event
    /\ status[u] = "inactive"
    /\ status' = [status EXCEPT ![u] = "active"]
    /\ UNCHANGED <<st, info, expired, redis, pc, args, out, history>>

\* SweepSessions: expired rows, and rows revoked seven days ago, when no grace
\* entry or request of that age is left.
Sweep(t) ==
    /\ Event
    /\ \/ st[t] \in {"live", "revoked"} /\ t \in expired
       \/ /\ st[t] = "revoked" /\ grace[t] = 0
          /\ \A r \in Requests : tok[r] # t
    /\ st' = [st EXCEPT ![t] = "gone"]
    /\ UNCHANGED <<info, expired, status, redis, pc, args, out, history>>

-----------------------------------------------------------------------------
(* Time and failures                                                       *)

Expire(t) ==
    /\ Event
    /\ st[t] = "live" /\ t \notin expired
    /\ expired' = expired \cup {t}
    /\ UNCHANGED <<st, info, status, redis, pc, args, out, history>>

GraceExpires(t) ==
    /\ Event
    /\ grace[t] # 0
    /\ grace' = [grace EXCEPT ![t] = 0]
    /\ spent' = spent \cup {t}
    /\ UNCHANGED <<rows, lock, pc, args, out, rotated, ended, raced, owed>>

Holds(r, t) == pc[r] \in Locked /\ tok[r] = t /\ lock[t] = r

\* A slip: the lock is set without a TTL.
NoTTL(t) == FALSE

\* The TTL of 20 s passes: of a lock whose owner is gone, or, when a handler
\* may stall that long, of any.
TTLPasses(t) == lock[t] # NoRequest /\ (LeaseOutlived \/ ~ Holds(lock[t], t))

LockExpires(t) ==
    /\ TTLPasses(t)
    /\ lock' = [lock EXCEPT ![t] = NoRequest]
    /\ UNCHANGED <<events, rows, grace, pc, args, out, history>>

\* What a request cut short leaves undone.
CutShort(r) ==
    /\ spent' = IF pc[r] \in {"reread", "insert", "cap", "store"} /\ tok[r] # 0
                THEN spent \cup {tok[r]} ELSE spent
    /\ owed' = IF pc[r] = "cap" THEN [owed EXCEPT ![own[r]] = @ + 1] ELSE owed
    /\ UNCHANGED <<rotated, ended, raced>>

\* A statement fails, or the client's context is cancelled: the handler stops
\* and its deferred release still runs.  A failed GET of the grace entry counts
\* as a miss.  An INSERT beyond MaxToken fails too.
Fail(r) ==
    /\ pc[r] \notin {"idle", "unlock", "store"}
    /\ \/ Event
       \/ pc[r] = "insert" /\ Issued = Token /\ UNCHANGED events
    /\ CASE pc[r] = "reread" -> Goto(r, "select") /\ UNCHANGED <<args, out>>
         [] pc[r] \in Locked \ {"reread"} /\ tok[r] # 0
                             -> Goto(r, "unlock") /\ UNCHANGED <<args, out>>
         [] OTHER            -> Return(r)
    /\ CutShort(r)
    /\ UNCHANGED <<rows, redis>>

\* The replica dies: nothing is released.
Crash(r) ==
    /\ Event
    /\ pc[r] # "idle"
    /\ Return(r)
    /\ CutShort(r)
    /\ UNCHANGED <<rows, redis>>

-----------------------------------------------------------------------------
Step(r) ==
    \/ InsertSession(r) \/ EnforceCap(r) \/ AcquireLock(r) \/ RereadGrace(r)
    \/ SelectSession(r) \/ CheckUser(r) \/ KillFamily(r) \/ SaveExpired(r)
    \/ SaveRotated(r) \/ StoreGrace(r) \/ ReleaseLock(r) \/ SaveLogout(r) \/ FinishDeactivate(r) \/ Fail(r)

Start(r) ==
    \/ \E u \in Users, d \in DeviceId : BeginLogin(r, u, d)
    \/ \E t \in Token, d \in DeviceId : BeginRefresh(r, t, d)
    \/ \E t \in Token : BeginLogout(r, t)
    \/ \E u \in Users : Deactivate(r, u)

Environment ==
    \/ \E t \in Token : \/ RevokeSession(t) \/ Sweep(t) \/ Expire(t)
                        \/ GraceExpires(t) \/ LockExpires(t)
    \/ \E u \in Users : \/ RevokeAll(u) \/ DeleteAll(u) \/ Reactivate(u)
                        \/ \E t \in Token : RevokeAllOtherSessions(u, t)

Next == Environment \/ \E r \in Requests : Start(r) \/ Step(r) \/ Crash(r)

Spec == Init /\ [][Next]_vars

\* Handlers run to their end or die; a TTL that has started runs out.
FairSpec ==
    /\ Spec
    /\ \A r \in Requests : WF_vars(Step(r))
    /\ \A t \in Token : WF_vars(LockExpires(t))

-----------------------------------------------------------------------------
(* Properties                                                              *)

\* A family never has two live refresh tokens: a rotation retires its token
\* before it issues the next, and the lock keeps a second rotation of the same
\* token out.
OneLivePerFamily ==
    \A s, t \in Token :
        st[s] = "live" /\ st[t] = "live" /\ info[s].fam = info[t].fam => s = t

\* A family that was revoked as a whole while none of its rotations was between
\* reading its row and writing the successor has no live token ever again.
EndedStaysEnded ==
    \A t \in Token : st[t] = "live" => info[t].fam \notin ended \ raced

\* A refresh is treated as a replay, and the family killed, only if the token's
\* grace entry is out of reach: two tabs presenting the same token at the same
\* time, from the device it is bound to, never end their own session.
OnlyRealReuseKills ==
    \A r \in Requests :
        pc[r] = "reuse" /\ tok[r] \in rotated \ spent
            => info[tok[r]].dev \notin {NoDevice, dev[r]}

\* A user has at most Cap live sessions, plus one for every session that has
\* been inserted and whose limit is still to be enforced or never was.
CapHolds ==
    \A u \in Users :
        Cardinality(Live(u)) <=
            Cap + owed[u] + Cardinality({r \in Requests : pc[r] = "cap" /\ own[r] = u})

\* A refresh token that was revoked or deleted is never accepted again, whatever
\* stale copy of its row a handler saves.
RevocationIsFinal ==
    [][\A t \in Token : st[t] \in {"revoked", "gone"} => st'[t] # "live"]_vars

\* The rotation lock of a token is always freed, also when its owner dies.
LockIsReleased ==
    \A t \in Token : lock[t] # NoRequest ~> lock[t] = NoRequest

-----------------------------------------------------------------------------
(* What a family promises: one current token at a time, each one new.      *)

Current == [f \in Token |->
    IF \E t \in Token : st[t] = "live" /\ info[t].fam = f
    THEN CHOOSE t \in Token : st[t] = "live" /\ info[t].fam = f
    ELSE 0]

Chain == INSTANCE TokenChain WITH current <- Current, issued <- Issued

\* The statements and locks of the service implement that promise.
ImplementsChain == Chain!Spec
=============================================================================
