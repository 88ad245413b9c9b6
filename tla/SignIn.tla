------------------------------- MODULE SignIn -------------------------------
(***************************************************************************)
(* The pages of one tab that deal with credentials - sign-in, forgotten and *)
(* new password, registration, links from mails (apps/web-auth), and the    *)
(* password, authenticator and recovery-code cards of the settings page     *)
(* (apps/web/src/App.tsx) - with the auth service behind them, where other  *)
(* clients and administrators send requests about the same account.         *)
(***************************************************************************)
EXTENDS Credentials

CONSTANTS
    MaxTries,    \* MAX_ATTEMPTS of the sign-in page
    LockTicks,   \* its lock, and the pause of the forgotten-password page, in ticks
    Sittings     \* bounds: the page at first, what is asked there and by others

ASSUME SignInAssumption ==
    /\ MaxTries \in Nat \ {0} /\ LockTicks \in Nat \ {0}

VARIABLES
    screen,   \* what the tab shows
    left      \* what is left of the bounds

signInVars == <<credentials, screen, left>>

Pages == {"login", "forgot", "reset", "register", "magic", "verify", "settings", "admin", "away"}

\* A sitting: where the tab is, how often something is asked there and by others, and of what kind.
ASSUME SittingsAssumption ==
    Sittings \subseteq [page : Pages, asks : Nat, others : Nat, kinds : SUBSET Kinds, leaves : Nat,
                        faults : Nat, accounts : SUBSET Rows]

\* A page as it opens. The last two fields are history: wrong passwords answered, waits served.
Opens(at) == [at |-> at, busy |-> FALSE, alt |-> FALSE, tries |-> MaxTries, wait |-> 0,
              otp |-> FALSE, link |-> "none", mail |-> "none", done |-> FALSE, secret |-> 0,
              codes |-> 0, wrong |-> 0, served |-> 0]

SignInInit ==
    /\ left \in Sittings
    /\ faults = left.faults
    /\ account \in left.accounts
    /\ CredentialsInit
    /\ screen = Opens(left.page)

\* What somebody types at a sign-in: the code of the authenticator, another one, one of the
\* recovery sheet.
Codes == {Key("totp", account.mfa), Key("totp", 9)} \cup {Key("code", n) : n \in 1..issued.code}

Service == <<account, fails, live, tokens, pending, issued, taken, faults, seen>>

Spend(what) == left[what] > 0 /\ left' = [left EXCEPT ![what] = @ - 1]

Asks(kind, pw, new, key) ==
    /\ Spend("asks")
    /\ Sends("here", kind, pw, new, key)
    /\ UNCHANGED Service

-----------------------------------------------------------------------------
(* Buttons and effects                                                     *)

At(page) == screen.at = page

\* The calls of a page that goes; the answers still run its code.
Orphaned == [q \in Slots |-> IF reqs[q].page = "here" THEN [reqs[q] EXCEPT !.page = "gone"]
                             ELSE reqs[q]]

\* The form of the sign-in page (submit); its button rests while it is busy or locked.
SubmitLogin(pw, otp) ==
    /\ At("login") /\ ~screen.busy /\ screen.wait = 0
    /\ screen.otp <=> otp # Nothing
    /\ Asks("login", pw, First, otp)
    /\ screen' = [screen EXCEPT !.busy = TRUE]

SendMagicLink ==
    /\ At("login") /\ ~screen.alt
    /\ Asks("magic", First, First, Nothing)
    /\ screen' = [screen EXCEPT !.alt = TRUE]

StartOAuth ==
    /\ At("login") /\ ~screen.alt
    /\ Asks("oauth", First, First, Nothing)
    /\ screen' = [screen EXCEPT !.alt = TRUE]

\* The forgotten-password form, and "Send again" once it was sent.
SendReset ==
    /\ At("forgot") /\ ~screen.busy
    /\ screen.done => screen.wait = 0
    /\ Asks("forgot", First, First, Nothing)
    /\ screen' = [screen EXCEPT !.busy = TRUE]

\* The new-password page looks its link up when it opens.
CheckLink ==
    /\ At("reset") /\ screen.link = "none"
    /\ Asks("validate", First, First, Key("link", 1))
    /\ screen' = [screen EXCEPT !.link = "checking"]

SubmitReset(new) ==
    /\ At("reset") /\ screen.link = "valid" /\ ~screen.busy /\ ~screen.done
    /\ Asks("reset", First, new, Key("link", 1))
    /\ screen' = [screen EXCEPT !.busy = TRUE]

\* An invitation is looked up once, when the registration page opens with one.
CheckInvitation ==
    /\ At("register") /\ screen.link = "none"
    /\ Asks("invitation", First, First, Nothing)
    /\ screen' = [screen EXCEPT !.link = "checking"]

TypeMail ==
    /\ At("register") /\ screen.mail = "none"
    /\ screen' = [screen EXCEPT !.mail = "typed"]
    /\ UNCHANGED <<left, credentials>>

SubmitRegister ==
    /\ At("register") /\ screen.mail # "none" /\ ~screen.busy /\ ~screen.done
    /\ Asks("register", First, First, Nothing)
    /\ screen' = [screen EXCEPT !.busy = TRUE]

\* The pages behind sign-in links and links that confirm something: one call, when they open.
FollowLink ==
    /\ screen.at \in {"magic", "verify"} /\ ~screen.done
    /\ \E n \in 1..2 :
           Asks(IF At("magic") THEN "consume" ELSE "invitation", First, First, Key("link", n))
    /\ screen' = [screen EXCEPT !.done = TRUE]

SubmitPassword(old, new) ==
    /\ At("settings") /\ ~screen.busy
    /\ Asks("change", old, new, Nothing)
    /\ screen' = [screen EXCEPT !.busy = TRUE]

SetUpMFA ==
    /\ At("settings") /\ ~screen.alt /\ screen.secret = 0
    /\ Asks("enroll", First, First, Nothing)
    /\ screen' = [screen EXCEPT !.alt = TRUE]

\* A code of the secret on screen, or a mistyped one.
SubmitCode(n) ==
    /\ At("settings") /\ ~screen.alt /\ screen.secret # 0 /\ n \in {screen.secret, 9}
    /\ Asks("verify", First, First, Key("totp", n))
    /\ screen' = [screen EXCEPT !.alt = TRUE]

\* Its button never rests.
GenerateCodes ==
    /\ At("settings")
    /\ Asks("codes", First, First, Nothing)
    /\ UNCHANGED screen

\* Links between the pages; what was asked goes on without its page.
Leave ==
    /\ \/ At("login") /\ \E page \in {"forgot", "register"} : screen' = Opens(page)
       \/ screen.at \in {"forgot", "reset", "register"} /\ screen' = Opens("login")
    /\ Spend("leaves")
    /\ reqs' = Orphaned
    /\ UNCHANGED Service

\* Once the new password is set, the page goes to the sign-in page by itself.
Redirect ==
    /\ At("reset") /\ screen.done
    /\ screen' = Opens("login")
    /\ reqs' = Orphaned
    /\ UNCHANGED <<left, Service>>

\* The countdown of a lock or a pause.
Tick ==
    /\ screen.wait > 0
    /\ screen' = [screen EXCEPT !.wait = @ - 1,
                                !.served = IF screen.wait = 1 THEN @ + 1 ELSE @]
    /\ UNCHANGED <<left, credentials>>

-----------------------------------------------------------------------------
(* Answers                                                                 *)

Answered(q, kinds) ==
    /\ reqs[q].at = "answer" /\ reqs[q].page = "here" /\ reqs[q].kind \in kinds
    /\ reqs' = [reqs EXCEPT ![q] = Free]
    /\ UNCHANGED <<left, Service>>
Ok(q) == reqs[q].out = "ok"

\* An answer after which the tab shows another page, whether or not its page is still there.
Turns(q, kinds, page) ==
    /\ reqs[q].at = "answer" /\ reqs[q].page # "else" /\ reqs[q].kind \in kinds
    /\ Ok(q)
    /\ screen' = Opens(page)
    /\ reqs' = [Orphaned EXCEPT ![q] = Free]
    /\ UNCHANGED <<left, Service>>

\* handleLoggedIn, after a sign-in or a sign-in link.
SignedIn(q) == Turns(q, {"login", "consume"}, "admin")

\* A slip: the page counts and never locks.
NeverLocks(n) == FALSE
Locks(n) == n = 0

LoginRefused(q) ==
    LET out == reqs[q].out
        counted == IF out = "401" /\ screen.tries > 0 THEN screen.tries - 1 ELSE screen.tries
    IN /\ ~Ok(q)
       /\ Answered(q, {"login"})
       /\ screen' = IF out = "mfa" THEN [screen EXCEPT !.busy = FALSE, !.otp = TRUE]
                    ELSE [screen EXCEPT !.busy = FALSE, !.tries = counted,
                              !.wait = CASE out = "wait" -> 1
                                         [] out # "wait" /\ Locks(counted) -> LockTicks
                                         [] OTHER -> @,
                              !.wrong = IF out = "401" THEN @ + 1 ELSE @]

\* The provider's page replaces this one, or the buttons are back.
AlternativeAnswered(q) ==
    /\ Answered(q, {"magic", "oauth"})
    /\ screen' = IF reqs[q].kind = "oauth" /\ Ok(q) THEN Opens("away")
                 ELSE [screen EXCEPT !.alt = FALSE]

ResetSent(q) ==
    /\ Answered(q, {"forgot"})
    /\ screen' = [screen EXCEPT !.busy = FALSE, !.done = @ \/ Ok(q),
                      !.wait = CASE Ok(q) -> LockTicks
                                 [] reqs[q].out = "wait" -> 1
                                 [] OTHER -> @]

LinkChecked(q) ==
    /\ Answered(q, {"validate"})
    /\ screen' = [screen EXCEPT !.link = IF Ok(q) THEN "valid" ELSE "invalid"]

\* Every 400 counts as an invalid link, also the one for a password used before.
ResetAnswered(q) ==
    /\ Answered(q, {"reset"})
    /\ screen' = [screen EXCEPT !.busy = FALSE, !.done = Ok(q),
                                !.link = IF reqs[q].out = "400" THEN "invalid" ELSE @]

InvitationChecked(q) ==
    /\ At("register") /\ Answered(q, {"invitation"})
    /\ screen' = [screen EXCEPT !.link = "checked",
                                !.mail = IF Ok(q) THEN "invited" ELSE @]

RegisterAnswered(q) ==
    /\ Answered(q, {"register"})
    /\ screen' = [screen EXCEPT !.busy = FALSE, !.done = Ok(q)]

\* A link that confirmed something leads to the sign-in page; one that failed says so.
LinkFollowed(q) ==
    \/ At("verify") /\ Turns(q, {"invitation"}, "login")
    \/ /\ screen.at \in {"magic", "verify"} /\ ~Ok(q)
       /\ Answered(q, {"consume", "invitation"})
       /\ UNCHANGED screen

\* The password card signs out everywhere once the password is changed.
PasswordChanged(q) == Turns(q, {"change"}, "login")

\* A slip: a failure leaves the button resting.
StaysBusy(on) == on
Released(on) == FALSE

PasswordRefused(q) ==
    /\ ~Ok(q) /\ Answered(q, {"change"})
    /\ screen' = [screen EXCEPT !.busy = Released(screen.busy)]

Enrolling(q) ==
    /\ Answered(q, {"enroll"})
    /\ screen' = [screen EXCEPT !.alt = FALSE, !.secret = IF Ok(q) THEN reqs[q].key.n ELSE @]

CodeChecked(q) ==
    /\ Answered(q, {"verify"})
    /\ screen' = [screen EXCEPT !.alt = FALSE, !.secret = IF Ok(q) THEN 0 ELSE @]

\* The codes of the answer are shown, whatever other answers there were.
CodesShown(q) ==
    /\ reqs[q].at = "answer" /\ reqs[q].page = "here" /\ reqs[q].kind = "codes"
    /\ screen' = IF Ok(q) THEN [screen EXCEPT !.codes = reqs[q].key.n] ELSE screen
    /\ reqs' = [reqs EXCEPT ![q] = Free]
    /\ seen' = Crosses(q, {"codes"}, "codes")
    /\ UNCHANGED <<account, fails, live, tokens, pending, issued, taken, faults, left>>

\* Answers nobody waits for, and those that find their page gone.
Dropped(q) ==
    /\ reqs[q].at = "answer"
    /\ \/ reqs[q].page = "else"
       \/ reqs[q].page = "gone" /\ ~(Ok(q) /\ reqs[q].kind \in {"login", "consume", "change"})
    /\ reqs' = [reqs EXCEPT ![q] = Free]
    /\ UNCHANGED <<left, screen, Service>>

Receive(q) ==
    \/ SignedIn(q) \/ LoginRefused(q) \/ AlternativeAnswered(q) \/ ResetSent(q)
    \/ LinkChecked(q) \/ ResetAnswered(q) \/ InvitationChecked(q) \/ RegisterAnswered(q)
    \/ LinkFollowed(q) \/ PasswordChanged(q) \/ PasswordRefused(q) \/ Enrolling(q)
    \/ CodeChecked(q) \/ CodesShown(q) \/ Dropped(q)

-----------------------------------------------------------------------------
(* Everybody else, and the specification                                   *)

OthersAsk ==
    /\ Spend("others")
    /\ \E kind \in left.kinds, pw, new \in Passwords :
           /\ kind \notin {"login", "change"} => pw = First
           /\ kind \notin {"change", "set", "reset"} => new = First
           /\ \E key \in Codes \cup {Nothing, Key("link", 1), Key("totp", pending)} :
                  /\ kind \notin {"login", "verify", "reset", "consume"} => key = Nothing
                  /\ kind = "login" => key.of # "link" /\ (account.mfa = 0 => key = Nothing)
                                    /\ key # Key("totp", 0)
                  /\ kind = "verify" => key = Key("totp", pending)
                  /\ kind \in {"reset", "consume"} => key.of = "link"
                  /\ Sends("else", kind, pw, new, key)
    /\ UNCHANGED <<screen, Service>>

Buttons ==
    \/ \E pw \in Passwords, otp \in Codes \cup {Nothing} : SubmitLogin(pw, otp)
    \/ SendMagicLink \/ StartOAuth \/ SendReset \/ TypeMail \/ SubmitRegister
    \/ \E new \in Passwords : SubmitReset(new)
    \/ \E old, new \in Passwords : SubmitPassword(old, new)
    \/ SetUpMFA \/ \E n \in {screen.secret, 9} : SubmitCode(n)
    \/ GenerateCodes \/ Leave \/ OthersAsk

Effects == CheckLink \/ CheckInvitation \/ FollowLink \/ Redirect \/ Tick

Fails == \E q \in Slots : Refuse(q) \/ Break(q)
Lapses == WindowPasses \/ LockPasses

ServiceStep ==
    /\ \/ \E q \in Slots : Serve(q)
       \/ Fails
       \/ Lapses
    /\ UNCHANGED <<screen, left>>

SignInNext == Buttons \/ Effects \/ ServiceStep \/ \E q \in Slots : Receive(q)

\* The service answers, answers reach the tab, and its timers run.
SignInFairness ==
    /\ \A q \in Slots : WF_signInVars(Serve(q) /\ UNCHANGED <<screen, left>>)
    /\ \A q \in Slots : WF_signInVars(Receive(q))
    /\ WF_signInVars(Tick)

-----------------------------------------------------------------------------
(* What the pages promise                                                  *)

SignInTypeOK ==
    /\ CredentialsTypeOK
    /\ screen \in [at : Pages, busy : BOOLEAN, alt : BOOLEAN, tries : 0..MaxTries,
                   wait : 0..LockTicks, otp : BOOLEAN,
                   link : {"none", "checking", "valid", "invalid", "checked"},
                   mail : {"none", "typed", "invited"}, done : BOOLEAN,
                   secret : 0..issued.secret, codes : 0..issued.code,
                   wrong : Nat, served : Nat]

\* The sign-in page sends at most MAX_ATTEMPTS wrong passwords, and one more for every time it
\* has waited (LoginPage.tsx counts 401 answers, locks at none left and never refills).
PageWaits == screen.wrong <= MaxTries + screen.served

\* The recovery codes on the settings page still work, unless they were used up, another client
\* asked for new ones, newer ones are on their way, or two requests for codes overlapped; and
\* only one sheet works.
CodesWork ==
    "codes" \notin seen.crossed =>
        /\ Cardinality(tokens.code) <= 1
        /\ \/ screen.codes \in {0} \cup tokens.code \cup seen.spent
           \/ \E q \in Slots : reqs[q].at # "free" /\ reqs[q].kind = "codes"

\* Links, authenticators and recovery codes: each serves once, for whom it was given.
GrantsAreKept == ResetOnce /\ MfaIsConfirmed /\ CodesWork

\* Whatever the service answers, and on whatever page it finds the tab, no button rests for good.
SubmitSettles == screen.busy \/ screen.alt ~> ~screen.busy /\ ~screen.alt
=============================================================================
