---------------------------- MODULE Credentials ----------------------------
(***************************************************************************)
(* The credentials of one account in the auth service: signing in with its  *)
(* password, an authenticator code or a recovery code, the failure counter  *)
(* in Redis and the lock in the database, changing and resetting the        *)
(* password with its history of old ones, enrolling an authenticator,       *)
(* recovery codes, sign-in links, registration of a second address          *)
(* (services/auth/internal: service.go, mfa.go, product_auth.go).           *)
(*                                                                         *)
(* Every request runs statement by statement, so two of them interleave at  *)
(* the database and at Redis. A request is a record in a slot: "at" names   *)
(* its next statement, "row" is the user row it has read.                   *)
(***************************************************************************)
EXTENDS Naturals, Sequences, FiniteSets, SequencesExt

CONSTANTS
    Slots,         \* requests the service works on at a time
    Passwords,     \* passwords somebody may type
    First,         \* the account's password at first
    ByLink,        \* stands for a sign-in without a password
    MaxAttempts,   \* LoginMaxAttempts: failures before the account is locked
    History        \* PasswordHistory: old passwords that may not come back

ASSUME CredentialsAssumption ==
    /\ Slots \subseteq Nat /\ IsFiniteSet(Slots)
    /\ IsFiniteSet(Passwords) /\ First \in Passwords /\ ByLink \notin Passwords
    /\ MaxAttempts \in Nat \ {0}
    /\ History \in Nat \ {0}

VARIABLES
    account,   \* the row of users.users
    fails,     \* the key login:fail: how many failures, and whether it will expire
    live,      \* live sessions, by the password that opened them
    tokens,    \* grants in Redis and auth.identity_tokens: reset links, sign-in links,
               \* recovery codes (a batch counts as one code)
    pending,   \* the secret under mfa:pending, 0 without
    issued,    \* how many secrets, codes and links of each kind there have been
    taken,     \* the second address is registered
    reqs,      \* reqs[q]: the request in slot q
    faults,    \* how many statements may still fail: a bound
    \* history of the run, read by no action
    seen

credentials == <<account, fails, live, tokens, pending, issued, taken, reqs, faults, seen>>

Kinds == {"login", "change", "set", "forgot", "validate", "reset", "lock", "unlock",
          "enroll", "verify", "codes", "magic", "consume", "register", "invitation", "oauth"}

\* What a request carries besides a password: a code or a link of some kind.
Nothing == [of |-> "nothing", n |-> 0]
Key(of, n) == [of |-> of, n |-> n]

FirstRow == [pw |-> First, hist |-> <<>>, stale |-> FALSE, locked |-> "no", mfa |-> 0]

Free == [at |-> "free", kind |-> "none", page |-> "else", pw |-> First, new |-> First, key |-> Nothing,
         row |-> FirstRow, snap |-> {}, over |-> {}, out |-> "none"]

CredentialsInit ==
    /\ account \in {FirstRow, [FirstRow EXCEPT !.stale = TRUE], [FirstRow EXCEPT !.mfa = 1]}
    /\ fails = [n |-> 0, lapses |-> FALSE]
    /\ live = {}
    /\ tokens = [reset |-> {1}, magic |-> {}, code |-> IF account.mfa = 1 THEN {1} ELSE {}]
    /\ pending = 0
    /\ issued = [reset |-> 1, magic |-> 0, code |-> 1, secret |-> 1]
    /\ taken = FALSE
    /\ reqs = [q \in Slots |-> Free]
    /\ faults \in Nat
    /\ seen = [past |-> <<>>, crossed |-> {}, recent |-> 0, admin |-> FALSE,
               confirmed |-> {0, 1}, used |-> [n \in 1..2 |-> 0], spent |-> {}]

-----------------------------------------------------------------------------
(* Slots                                                                   *)

Running(q) == reqs[q].at \notin {"free", "answer"}

\* A client sends a request.
Sends(page, kind, pw, new, key) ==
    LET q == CHOOSE p \in Slots : reqs[p].at = "free"
    IN /\ \E p \in Slots : reqs[p].at = "free"
       /\ reqs' = [reqs EXCEPT ![q] =
              [Free EXCEPT !.at = "begin", !.kind = kind, !.page = page, !.pw = pw, !.new = new,
                            !.key = key]]

\* Request q goes on to its next statement.
Goes(q, at) == reqs' = [reqs EXCEPT ![q].at = at]
Reply(q, out) == reqs' = [reqs EXCEPT ![q].at = "answer", ![q].out = out]

\* Request q goes on, and has written something the others may have read already.
Wrote(q, what, next) ==
    reqs' = [p \in Slots |->
        IF p = q THEN [reqs[q] EXCEPT !.at = next]
        ELSE IF reqs[p].at = "free" THEN reqs[p]
        ELSE [reqs[p] EXCEPT !.over = @ \cup {what}]]

\* For the history: request q was overtaken in this by a write it has not seen.
Crosses(q, whats, as) ==
    IF reqs[q].over \cap whats # {} THEN [seen EXCEPT !.crossed = @ \cup {as}] ELSE seen

Is(q, at, kinds) == reqs[q].at = at /\ reqs[q].kind \in kinds

Fault == faults > 0 /\ faults' = faults - 1

-----------------------------------------------------------------------------
(* Signing in with a password                                              *)

\* A slip: a locked account is looked at like any other.
AnyRow(row) == TRUE
MaySignIn(row) == row.locked = "no"

LoginReads(q) ==
    /\ Is(q, "begin", {"login"})
    /\ reqs' = [reqs EXCEPT ![q].row = account, ![q].over = {}, ![q].out = "401",
           ![q].at = CASE ~MaySignIn(account) -> "answer"
                       [] MaySignIn(account) /\ reqs[q].pw # account.pw -> "count"
                       [] MaySignIn(account) /\ reqs[q].pw = account.pw ->
                              IF account.stale THEN "rehash" ELSE "mfa"]
    /\ UNCHANGED <<account, fails, live, tokens, pending, issued, taken, faults, seen>>

\* The hash is of an old algorithm: the password that was verified is hashed again.
Rehash(q) ==
    /\ Is(q, "rehash", {"login"})
    /\ account' = [account EXCEPT !.pw = reqs[q].pw, !.stale = FALSE]
    /\ Goes(q, "mfa")
    /\ seen' = Crosses(q, {"password"}, "rehash")
    /\ UNCHANGED <<fails, live, tokens, pending, issued, taken, faults>>

\* Codes of an authenticator and of the recovery sheet; a recovery code is used up.
Passes(row, key) ==
    \/ row.mfa = 0
    \/ key.of = "totp" /\ key.n = row.mfa
    \/ key.of = "code" /\ key.n \in tokens.code

VerifyMFA(q) ==
    LET k == reqs[q].key
        row == reqs[q].row
        spends == row.mfa # 0 /\ k.of = "code" /\ Passes(row, k)
    IN /\ Is(q, "mfa", {"login"})
       /\ reqs' = [reqs EXCEPT ![q].at = IF Passes(row, k) THEN "clear" ELSE "count",
                               ![q].out = IF row.mfa # 0 /\ k = Nothing THEN "mfa" ELSE @]
       /\ tokens' = [tokens EXCEPT !.code = IF spends THEN @ \ {k.n} ELSE @]
       /\ seen' = [seen EXCEPT !.spent = IF spends THEN @ \cup {k.n} ELSE @]
       /\ UNCHANGED <<account, fails, live, pending, issued, taken, faults>>

\* recordFailedAttempt: INCR, EXPIRE for the first of a window, and at the limit a lock.
\* A slip: the limit is one short.
OneShort(n) == n + 1 >= MaxAttempts
AtLimit(n) == n >= MaxAttempts

CountFailure(q) ==
    /\ Is(q, "count", {"login"})
    /\ fails' = [n |-> fails.n + 1, lapses |-> fails.n > 0 /\ fails.lapses]
    /\ Goes(q, CASE fails.n = 0 -> "expire"
                 [] fails.n > 0 /\ AtLimit(fails.n + 1) -> "lock"
                 [] OTHER -> "answer")
    /\ seen' = [seen EXCEPT !.recent = IF @ < MaxAttempts THEN @ + 1 ELSE @]
    /\ UNCHANGED <<account, live, tokens, pending, issued, taken, faults>>

SetExpiry(q) ==
    /\ Is(q, "expire", {"login"})
    /\ \/ /\ fails' = [fails EXCEPT !.lapses = fails.n > 0]
          /\ UNCHANGED <<faults, seen>>
       \/ /\ Fault
          /\ seen' = [seen EXCEPT !.crossed = @ \cup {"expiry"}]
          /\ UNCHANGED fails
    /\ Goes(q, IF AtLimit(1) THEN "lock" ELSE "answer")
    /\ UNCHANGED <<account, live, tokens, pending, issued, taken>>

LockAccount(q) ==
    /\ Is(q, "lock", {"login"})
    /\ account' = [account EXCEPT !.locked = "while"]
    /\ Goes(q, "uncount")
    /\ seen' = Crosses(q, {"lock"}, "lock")
    /\ UNCHANGED <<fails, live, tokens, pending, issued, taken, faults>>

ClearLock(q) ==
    /\ Is(q, "clear", {"login"})
    /\ account' = [account EXCEPT !.locked = "no"]
    /\ reqs' = [reqs EXCEPT ![q].at = "uncount", ![q].out = "ok"]
    /\ seen' = Crosses(q, {"lock"}, "lock")
    /\ UNCHANGED <<fails, live, tokens, pending, issued, taken, faults>>

\* The key login:fail goes, after a lock and after a success.
Uncount(q) ==
    /\ Is(q, "uncount", {"login"})
    /\ fails' = [n |-> 0, lapses |-> FALSE]
    /\ Goes(q, IF reqs[q].out = "ok" THEN "session" ELSE "answer")
    /\ UNCHANGED <<account, live, tokens, pending, issued, taken, faults, seen>>

StartSession(q) ==
    /\ Is(q, "session", {"login", "consume"})
    /\ live' = live \cup {IF reqs[q].kind = "login" THEN reqs[q].pw ELSE ByLink}
    /\ Reply(q, "ok")
    /\ seen' = Crosses(q, {"password"}, "session")
    /\ UNCHANGED <<account, fails, tokens, pending, issued, taken, faults>>

\* Fifteen minutes go by: the window of the counter, and a lock for a while.
WindowPasses ==
    /\ \A q \in Slots : ~Running(q)
    /\ seen.recent > 0
    /\ fails' = IF fails.lapses THEN [n |-> 0, lapses |-> FALSE] ELSE fails
    /\ seen' = [seen EXCEPT !.recent = 0]
    /\ UNCHANGED <<account, live, tokens, pending, issued, taken, reqs, faults>>

LockPasses ==
    /\ account.locked = "while"
    /\ account' = [account EXCEPT !.locked = "no"]
    /\ UNCHANGED <<fails, live, tokens, pending, issued, taken, reqs, faults, seen>>

-----------------------------------------------------------------------------
(* Replacing the password                                                  *)

\* ChangePassword asks for the old one first.
ConfirmPassword(q) ==
    /\ Is(q, "begin", {"change"})
    /\ IF reqs[q].pw = account.pw THEN Goes(q, "validate") ELSE Reply(q, "401")
    /\ UNCHANGED <<account, fails, live, tokens, pending, issued, taken, faults, seen>>

\* A slip: only the password of now is looked at.
OnlyCurrent(row) == {row.pw}
Recent(row) == {row.pw} \cup ToSet(row.hist)

Validate(q) ==
    /\ Is(q, "validate", {"change"}) \/ Is(q, "begin", {"set", "reset"})
    /\ reqs' = [reqs EXCEPT ![q].row = account, ![q].over = {}, ![q].out = "400",
           ![q].at = CASE reqs[q].new \in Recent(account) -> "answer"
                       [] reqs[q].new \notin Recent(account) ->
                              IF reqs[q].kind = "reset" THEN "take" ELSE "store"]
    /\ UNCHANGED <<account, fails, live, tokens, pending, issued, taken, faults, seen>>

\* A slip: the link is looked up and stays.
Peeks(n) == tokens
Taken(n) == [tokens EXCEPT !.reset = @ \ {n}]

\* GETDEL of the reset link.
TakeLink(q) ==
    LET n == reqs[q].key.n
    IN /\ Is(q, "take", {"reset"})
       /\ tokens' = Taken(n)
       /\ IF n \in tokens.reset THEN Goes(q, "store") ELSE Reply(q, "400")
       /\ UNCHANGED <<account, fails, live, pending, issued, taken, faults, seen>>

Newest(s, n) == SubSeq(s, 1, IF Len(s) < n THEN Len(s) ELSE n)

\* A slip: nothing is ever forgotten.
KeepsAll(row) == <<row.pw>> \o row.hist
Remembers(row) == Newest(<<row.pw>> \o row.hist, History)

StorePassword(q) ==
    /\ Is(q, "store", {"change", "set", "reset"})
    /\ account' = [account EXCEPT !.pw = reqs[q].new, !.hist = Remembers(reqs[q].row),
                                  !.stale = FALSE]
    /\ Wrote(q, "password", "revoke")
    /\ seen' = LET s == Crosses(q, {"password"}, "replace")
                   once == [seen.used EXCEPT ![reqs[q].key.n] = @ + 1]
               IN [s EXCEPT !.past = Newest(<<account.pw>> \o @, History),
                            !.used = IF reqs[q].kind = "reset" THEN once ELSE @]
    /\ UNCHANGED <<fails, live, tokens, pending, issued, taken, faults>>

\* A slip: the sessions go on.
Spared == live
Ended == {}

RevokeSessions(q) ==
    /\ Is(q, "revoke", {"change", "set", "reset", "lock"})
    /\ live' = Ended
    /\ Reply(q, "ok")
    /\ UNCHANGED <<account, fails, tokens, pending, issued, taken, faults, seen>>

\* The administrator's lock and unlock (SetUserState).
SetLocked(q) ==
    /\ Is(q, "begin", {"lock", "unlock"})
    /\ LET on == reqs[q].kind = "lock"
       IN /\ account' = [account EXCEPT !.locked = IF on THEN "admin" ELSE "no"]
          /\ seen' = [seen EXCEPT !.admin = on]
          /\ IF on THEN Wrote(q, "lock", "revoke") ELSE Reply(q, "ok")
    /\ UNCHANGED <<fails, live, tokens, pending, issued, taken, faults>>

-----------------------------------------------------------------------------
(* Links, codes, the second address                                        *)

Issue(what) == issued' = [issued EXCEPT ![what] = @ + 1]

\* Forgot and RequestMagicLink: a grant is stored and mailed.
SendLink(q) ==
    LET what == IF reqs[q].kind = "forgot" THEN "reset" ELSE "magic"
    IN /\ Is(q, "begin", {"forgot", "magic"})
       /\ tokens' = [tokens EXCEPT ![what] = @ \cup {issued[what] + 1}]
       /\ Issue(what)
       /\ Reply(q, "ok")
       /\ UNCHANGED <<account, fails, live, pending, taken, faults, seen>>

ValidateReset(q) ==
    /\ Is(q, "begin", {"validate"})
    /\ Reply(q, IF reqs[q].key.n \in tokens.reset THEN "ok" ELSE "400")
    /\ UNCHANGED <<account, fails, live, tokens, pending, issued, taken, faults, seen>>

\* The sign-in link is consumed in one statement, then its session starts.
ConsumeLink(q) ==
    LET n == reqs[q].key.n
    IN /\ Is(q, "begin", {"consume"})
       /\ tokens' = [tokens EXCEPT !.magic = @ \ {n}]
       /\ IF n \in tokens.magic THEN Goes(q, "session") ELSE Reply(q, "400")
       /\ UNCHANGED <<account, fails, live, pending, issued, taken, faults, seen>>

BeginMFA(q) ==
    /\ Is(q, "begin", {"enroll"})
    /\ pending' = issued.secret + 1
    /\ Issue("secret")
    /\ reqs' = [reqs EXCEPT ![q].at = "answer", ![q].out = "ok",
                            ![q].key = Key("totp", issued.secret + 1)]
    /\ UNCHANGED <<account, fails, live, tokens, taken, faults, seen>>

VerifyEnrollment(q) ==
    LET k == reqs[q].key
        right == pending # 0 /\ k = Key("totp", pending)
    IN /\ Is(q, "begin", {"verify"})
       /\ IF right THEN Goes(q, "enable") ELSE Reply(q, "400")
       /\ seen' = [seen EXCEPT !.confirmed = IF right THEN @ \cup {pending} ELSE @]
       /\ UNCHANGED <<account, fails, live, tokens, pending, issued, taken, faults>>

\* A slip: the pending secret is looked up again.
LooksAgain(q) == pending
Verified(q) == reqs[q].key.n

EnableMFA(q) ==
    /\ Is(q, "enable", {"verify"})
    /\ account' = [account EXCEPT !.mfa = Verified(q)]
    /\ Goes(q, "unpend")
    /\ UNCHANGED <<fails, live, tokens, pending, issued, taken, faults, seen>>

DropPending(q) ==
    /\ Is(q, "unpend", {"verify"})
    /\ pending' = 0
    /\ Reply(q, "ok")
    /\ UNCHANGED <<account, fails, live, tokens, issued, taken, faults, seen>>

\* Recovery codes, in one transaction: DELETE the rows it sees, INSERT new ones.
DeleteCodes(q) ==
    /\ Is(q, "begin", {"codes"})
    /\ IF account.mfa = 0 THEN Reply(q, "400")
       ELSE reqs' = [reqs EXCEPT ![q].at = "insert", ![q].snap = tokens.code, ![q].over = {}]
    /\ UNCHANGED <<account, fails, live, tokens, pending, issued, taken, faults, seen>>

\* A slip: the new rows come on top.
OnTop(old, new) == tokens.code \cup {new}
Replaces(old, new) == (tokens.code \ old) \cup {new}

InsertCodes(q) ==
    LET n == issued.code + 1
    IN /\ Is(q, "insert", {"codes"})
       /\ tokens' = [tokens EXCEPT !.code = Replaces(reqs[q].snap, n)]
       /\ Issue("code")
       /\ seen' = LET s == Crosses(q, {"codes"}, "codes")
                  IN [s EXCEPT !.spent = IF reqs[q].page = "else" THEN @ \cup reqs[q].snap ELSE @]
       /\ reqs' = [p \in Slots |->
              IF p = q THEN [reqs[q] EXCEPT !.at = "answer", !.out = "ok", !.over = {},
                                            !.key = Key("code", n)]
              ELSE [reqs[p] EXCEPT !.over = IF reqs[p].at = "free" THEN @ ELSE @ \cup {"codes"}]]
       /\ UNCHANGED <<account, fails, live, pending, taken, faults>>

\* Register: the lookup is advisory, the unique index decides.
LookUpAddress(q) ==
    /\ Is(q, "begin", {"register"})
    /\ IF taken THEN Reply(q, "409") ELSE Goes(q, "create")
    /\ UNCHANGED <<account, fails, live, tokens, pending, issued, taken, faults, seen>>

CreateUser(q) ==
    /\ Is(q, "create", {"register"})
    /\ taken' = TRUE
    /\ Reply(q, IF taken THEN "409" ELSE "ok")
    /\ UNCHANGED <<account, fails, live, tokens, pending, issued, faults, seen>>

\* Invitations are looked up by the users service, providers are configured or not.
AnswerElsewhere(q) ==
    /\ Is(q, "begin", {"invitation", "oauth"})
    /\ \E out \in {"ok", "400"} : Reply(q, out)
    /\ UNCHANGED <<account, fails, live, tokens, pending, issued, taken, faults, seen>>

-----------------------------------------------------------------------------
(* Failures                                                                *)

\* Limiters in front: 429, with or without a time to wait.
Refuse(q) ==
    /\ Is(q, "begin", {"login", "forgot"})
    /\ Fault
    /\ \E out \in {"429", "wait"} : Reply(q, out)
    /\ UNCHANGED <<account, fails, live, tokens, pending, issued, taken, seen>>

\* A statement fails and the request with it; what it had written stays.
Break(q) ==
    /\ reqs[q].at \in {"begin", "validate", "take", "store", "revoke", "clear", "session",
                       "enable", "insert", "create"}
    /\ Fault
    /\ Reply(q, "500")
    /\ seen' = IF reqs[q].at = "revoke" THEN [seen EXCEPT !.crossed = @ \cup {"undone"}] ELSE seen
    /\ UNCHANGED <<account, fails, live, tokens, pending, issued, taken>>

LoginStep(q) ==
    \/ LoginReads(q) \/ Rehash(q) \/ VerifyMFA(q) \/ CountFailure(q) \/ SetExpiry(q)
    \/ LockAccount(q) \/ ClearLock(q) \/ Uncount(q) \/ StartSession(q)
PasswordStep(q) ==
    \/ ConfirmPassword(q) \/ Validate(q) \/ TakeLink(q) \/ StorePassword(q)
    \/ RevokeSessions(q) \/ SetLocked(q)
OtherStep(q) ==
    \/ SendLink(q) \/ ValidateReset(q) \/ ConsumeLink(q) \/ BeginMFA(q) \/ VerifyEnrollment(q)
    \/ EnableMFA(q) \/ DropPending(q) \/ DeleteCodes(q) \/ InsertCodes(q) \/ LookUpAddress(q)
    \/ CreateUser(q) \/ AnswerElsewhere(q)

Serve(q) == LoginStep(q) \/ PasswordStep(q) \/ OtherStep(q)

-----------------------------------------------------------------------------
(* What the service promises                                               *)

Rows == [pw : Passwords, hist : Seq(Passwords), stale : BOOLEAN,
         locked : {"no", "while", "admin"}, mfa : Nat]
Keys == [of : {"nothing", "totp", "code", "link"}, n : Nat]

CredentialsTypeOK ==
    /\ account \in Rows /\ Len(account.hist) <= History
    /\ fails \in [n : Nat, lapses : BOOLEAN]
    /\ live \subseteq Passwords \cup {ByLink}
    /\ tokens \in [reset : SUBSET (1..issued.reset), magic : SUBSET (1..issued.magic),
                   code : SUBSET (1..issued.code)]
    /\ pending \in 0..issued.secret
    /\ issued \in [reset : Nat, magic : Nat, code : Nat, secret : Nat]
    /\ taken \in BOOLEAN
    /\ faults \in Nat
    /\ \A q \in Slots :
           /\ reqs[q].kind \in Kinds \cup {"none"} /\ reqs[q].page \in {"here", "gone", "else"}
           /\ reqs[q].pw \in Passwords /\ reqs[q].new \in Passwords
           /\ reqs[q].key \in Keys /\ reqs[q].row \in Rows

\* No password comes back while it is among the last ones the account has had, unless two
\* replacements, or a replacement and the rehash of a sign-in, overlapped: both write back what
\* they have read (storePasswordReplacement and Login write rows they read statements earlier).
NoRecentReuse ==
    [][account'.pw # account.pw =>
          \/ account'.pw \notin ToSet(seen.past)
          \/ seen'.crossed \cap {"replace", "rehash"} # {}]_credentials

\* Once a replaced password's sessions are revoked none is left, unless a sign-in that had read
\* the old row was still on its way, the revocation failed after the password was stored, or a
\* rehash brought the old password back.
SessionsFollowPassword ==
    \A s \in live :
        \/ s \in {account.pw, ByLink}
        \/ \E q \in Slots : reqs[q].at = "revoke"
        \/ seen.crossed \cap {"session", "undone", "rehash"} # {}

\* An account is locked for a while only after MaxAttempts failures within one window, unless
\* the EXPIRE of a window's first failure was lost (recordFailedAttempt ignores its result).
EarnedLock ==
    [][account.locked # "while" /\ account'.locked = "while" =>
          seen.recent = MaxAttempts \/ "expiry" \in seen.crossed]_credentials

\* An administrator's lock holds until an administrator takes it back, unless a sign-in that had
\* read the account before was still on its way: its last statements write locked_until.
AdminLockStays == seen.admin /\ account.locked # "admin" => "lock" \in seen.crossed

\* However often and from wherever a reset link is sent, it sets one password (GETDEL).
ResetOnce == \A n \in DOMAIN seen.used : seen.used[n] <= 1

\* The secret an account asks codes of is one whose code its owner has typed, also when another
\* enrolment starts between the check and the write.
MfaIsConfirmed == account.mfa \in seen.confirmed
=============================================================================
