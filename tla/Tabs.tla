-------------------------------- MODULE Tabs --------------------------------
(***************************************************************************)
(* The session of a browser in several tabs of the console: the one refresh *)
(* cookie they share, the access token and the user each keeps in memory,   *)
(* the refresh every bundle of a tab runs under a lock of the browser, the  *)
(* two broadcast channels, sign-in and sign-out, support sessions, and the  *)
(* settings page with the copy of the profile it saves                      *)
(* (packages/contracts/src/index.ts, apps/web/src/auth-context.tsx,         *)
(* App.tsx, shell/Banners.tsx).                                             *)
(*                                                                         *)
(* The auth service is here what a browser sees of it; module Sessions has  *)
(* its inside.                                                             *)
(***************************************************************************)
EXTENDS Naturals, Sequences, FiniteSets, SequencesExt

CONSTANTS
    Users, Admin,   \* accounts, and the one that may start support sessions
    NoOne,          \* no account
    Tabs,           \* tabs of one browser
    Clients,        \* copies of the client module: a tab's host bundle and its remotes
    Sittings        \* bounds: the tabs that are open in a behaviour, what users do in
                    \* them, and how often

Budget == [tabs : SUBSET Tabs, signins : Nat, signouts : Nat, supports : Nat, beats : Nat,
           calls : Nat, reloads : Nat, revokes : Nat, faults : Nat, settings : Nat]

ASSUME ConstantsAssumption ==
    /\ Admin \in Users /\ NoOne \notin Users
    /\ IsFiniteSet(Users) /\ IsFiniteSet(Tabs)
    /\ \A t \in Tabs : <<t, "host">> \in Clients
    /\ Clients \subseteq Tabs \X {"host", "remote"}
    /\ Sittings \subseteq Budget

VARIABLES
    rows,     \* the refresh tokens the service has issued
    cookie,   \* the one in the browser's cookie, 0 without
    lock,     \* the clients that hold and await the lock starter-auth-refresh
    flight,   \* flight[c]: the refresh of client c
    recent,   \* recent[c]: crossTabToken, NoOne once it is two seconds old
    tab,      \* tab[t]: what tab t holds and shows
    call,     \* call[t]: the sign-in, sign-out, ... tab t has under way
    inbox,    \* inbox[t]: broadcasts on their way to tab t
    left,     \* what is left of the bounds
    \* history of the run, read by no action
    last,     \* who signed in last, NoOne after a sign-out
    crossed,  \* a sign-in or sign-out overlapped something or was not heard, a refresh
              \* took the token of a session before, or a support session fell back
              \* on an old one
    lost,     \* refresh tokens whose answer never reached the browser
    replays,  \* rotated refresh tokens that were presented for a second time
    wrote     \* writes of settings: whose they were, whose they became

browser == <<cookie, lock, flight, recent, inbox>>
history == <<last, crossed, lost, replays, wrote>>
vars == <<rows, cookie, lock, flight, recent, tab, call, inbox, left, history>>

Host(t) == <<t, "host">>
Remote(t) == <<t, "remote">>

Anyone == Users \cup {NoOne}

\* What an access token says: whom it speaks for, and that it is a support token.
Own(u) == [sub |-> u, support |-> FALSE]
NoToken == Own(NoOne)

Open == left.tabs
Spend(what) == left[what] > 0 /\ left' = [left EXCEPT ![what] = @ - 1]
Idle(c) == flight[c].phase = "idle"

-----------------------------------------------------------------------------
(* The auth service                                                        *)

Family(n) == {m \in DOMAIN rows : rows[m].fam = rows[n].fam}

Row(u, fam) == [user |-> u, fam |-> fam, st |-> "live", next |-> 0, grace |-> FALSE]
\* A slip: the cookie names a row that is not there.
Ahead == Len(rows) + 2

Issued == Len(rows) + 1

\* Login: a new family of refresh tokens.
Login(u) == rows' = Append(rows, Row(u, Issued))

\* Rotation: the answer is kept for a short while for whoever asks again.
Rotate(n) == rows' = Append([rows EXCEPT ![n].st = "used", ![n].next = Issued, ![n].grace = TRUE],
                            Row(rows[n].user, rows[n].fam))

Revoked(N) == [n \in DOMAIN rows |-> IF n \in N THEN [rows[n] EXCEPT !.st = "dead"] ELSE rows[n]]
RowsOf(u) == {n \in DOMAIN rows : rows[n].user = u}

\* Logout revokes the token presented and forgets the answer kept for it.
Logout(n) ==
    rows' = IF n = 0 THEN rows ELSE [rows EXCEPT ![n].st = "dead", ![n].grace = FALSE]

-----------------------------------------------------------------------------
(* What a tab does with its session: the reducer, and its callers          *)

\* A slip: the form outlives its page.
KeepsForm(tb) == [tb EXCEPT !.page = "other"]

\* The settings page goes, with what it held of a user.
Unmounted(tb) == [tb EXCEPT !.page = "other", !.asked = NoOne, !.profile = NoOne,
                            !.turned = @ \ {"profile"}]

\* The user on screen becomes u: the shell mounts or unmounts, and otherwise stays.
Shows(tb, u) ==
    CASE u = NoOne -> [Unmounted(tb) EXCEPT !.user = NoOne, !.prefs = NoOne]
      [] u # NoOne /\ tb.user = NoOne -> [tb EXCEPT !.user = u, !.prefs = u, !.turned = {}]
      [] OTHER -> [tb EXCEPT !.user = u, !.turned = IF u = tb.user THEN @ ELSE {"profile", "prefs"}]

Restored(tb, u) == [Shows(tb, u) EXCEPT !.booting = FALSE]
SignedIn(tb, u, token) ==
    [Shows(tb, u) EXCEPT !.token = token, !.booting = FALSE, !.expired = FALSE]
SignedOut(tb) ==
    [Shows(tb, NoOne) EXCEPT !.token = NoToken, !.booting = FALSE, !.expired = FALSE]
Expired(tb) == [tb EXCEPT !.token = NoToken, !.booting = FALSE, !.expired = TRUE]

NoSupport == [user |-> NoOne, token |-> NoToken]
InSupport(tb) == tb.original.user # NoOne

Fresh == [user |-> NoOne, token |-> NoToken, booting |-> TRUE, expired |-> FALSE,
          original |-> NoSupport, page |-> "other", asked |-> NoOne, profile |-> NoOne,
          prefs |-> NoOne, turned |-> {}]

NoFlight == [phase |-> "idle", for |-> {}, sent |-> 0, row |-> 0, got |-> NoOne]
NoCall == [op |-> "none", who |-> NoOne, sent |-> 0, row |-> 0, phase |-> "idle"]

\* silentRefresh: start one, or wait for the one of this bundle that is under way.
Awaited(F, c, why) ==
    [F EXCEPT ![c] = IF F[c].phase = "idle"
                       THEN [NoFlight EXCEPT !.phase = "queued", !.for = {why}]
                       ELSE [F[c] EXCEPT !.for = @ \cup {why}]]
Queued(L, c) == IF Idle(c) THEN Append(L, c) ELSE L

Init ==
    /\ rows = <<>> /\ cookie = 0
    /\ lock = <<>>
    /\ flight = [c \in Clients |-> NoFlight]
    /\ recent = [c \in Clients |-> NoOne]
    /\ tab = [t \in Tabs |-> [Fresh EXCEPT !.booting = FALSE]]
    /\ call = [t \in Tabs |-> NoCall]
    /\ inbox = [t \in Tabs |-> <<>>]
    /\ left \in Sittings
    /\ last = NoOne /\ crossed = FALSE /\ lost = {} /\ replays = {} /\ wrote = {}

-----------------------------------------------------------------------------
(* Bookkeeping: whether sign-ins and sign-outs overlap anything else       *)

Signing(t) == call[t].op \in {"login", "logout", "start"}
Crosses(t) ==
    \/ \E s \in Tabs \ {t} : Signing(s)
    \/ \E c \in Clients : ~Idle(c)
    \/ \E s \in Tabs : inbox[s] # <<>>

\* A sign-in or sign-out is under way, or some tab has still to hear of it.
Unheard(s) == \E i \in DOMAIN inbox[s] : inbox[s][i].type # "done"
Changing == \E s \in Tabs : Signing(s) \/ Unheard(s)

-----------------------------------------------------------------------------
(* The silent refresh                                                      *)

Awaits(c, why) ==
    /\ flight' = Awaited(flight, c, why)
    /\ lock' = Queued(lock, c)
    /\ crossed' = (crossed \/ Changing)
    /\ UNCHANGED <<rows, cookie, recent, call, inbox, last, lost, replays, wrote>>

\* The tab becomes visible: the session is checked, unless it is a support session.
Heartbeat(t) ==
    /\ tab[t].user # NoOne /\ ~InSupport(tab[t])
    /\ Spend("beats")
    /\ Awaits(Host(t), "beat")
    /\ UNCHANGED tab

\* A request of a page was answered 401.
Unauthorized(t) ==
    /\ Remote(t) \in Clients /\ tab[t].user # NoOne
    /\ Spend("calls")
    /\ Awaits(Remote(t), "call")
    /\ UNCHANGED tab

\* The banner's Exit impersonation.
ExitSupport(t) ==
    /\ tab[t].user # NoOne
    /\ InSupport(tab[t]) /\ tab[t].original.token # NoToken
    /\ "exit" \notin flight[Host(t)].for
    /\ Awaits(Host(t), "exit")
    /\ UNCHANGED <<tab, left>>

\* A slip: the lock is not waited for.
AtOnce(c) == TRUE

Turn(c) == lock # <<>> /\ Head(lock) = c

\* The lock is granted: a recent token will do, or the request leaves.
Granted(c) ==
    /\ Turn(c) /\ flight[c].phase = "queued"
    /\ IF recent[c] # NoOne
       THEN /\ flight' = [flight EXCEPT ![c].phase = "settled", ![c].got = recent[c]]
            /\ lock' = Tail(lock)
       ELSE /\ flight' = [flight EXCEPT ![c].phase = "sent", ![c].sent = cookie]
            /\ UNCHANGED lock
    /\ crossed' = (crossed \/ recent[c] \notin {last, NoOne})
    /\ UNCHANGED <<rows, cookie, recent, tab, call, inbox, left, last, lost, replays, wrote>>

Answers(c, n) == flight' = [flight EXCEPT ![c].phase = "answered", ![c].row = n]

\* Refresh at the service: the answer kept for this token, a rotation, or a refusal,
\* and then the whole family of a token that was revoked before.
ServeRefresh(c) ==
    LET n == flight[c].sent IN
    /\ flight[c].phase = "sent"
    /\ CASE n = 0 -> Answers(c, 0) /\ UNCHANGED <<rows, replays>>
         [] n # 0 /\ rows[n].grace -> Answers(c, rows[n].next) /\ UNCHANGED <<rows, replays>>
         [] n # 0 /\ ~rows[n].grace /\ rows[n].st = "live" ->
              Rotate(n) /\ Answers(c, Issued) /\ UNCHANGED replays
         [] OTHER ->
              /\ rows' = Revoked(Family(n)) /\ Answers(c, 0)
              /\ replays' = IF rows[n].st = "used" THEN replays \cup {n} ELSE replays
    /\ UNCHANGED <<cookie, lock, recent, tab, call, inbox, left, last, crossed, lost, wrote>>

Posted(msg, to) == [s \in Tabs |-> IF s \in to THEN Append(inbox[s], msg) ELSE inbox[s]]

\* refreshRequest goes on: the cookie is the answer's, the token is stored and told
\* to every other bundle, in this tab and the others.
RefreshAnswered(c) ==
    LET t == c[1]
        n == flight[c].row
        u == IF n = 0 THEN NoOne ELSE rows[n].user
    IN
    /\ flight[c].phase = "answered"
    /\ cookie' = IF n = 0 /\ flight[c].sent = 0 THEN cookie ELSE n
    /\ flight' = [flight EXCEPT ![c].phase = "settled", ![c].got = u]
    /\ lock' = Tail(lock)
    /\ IF u = NoOne THEN UNCHANGED <<recent, tab, inbox>>
       ELSE /\ recent' = [recent EXCEPT ![c] = u]
            /\ tab' = [tab EXCEPT ![t].token = Own(u)]
            /\ inbox' = Posted([type |-> "done", user |-> u, from |-> c], Open)
    /\ UNCHANGED <<rows, call, left, history>>

\* The request fails, or its answer is lost.
RefreshFails(c) ==
    /\ flight[c].phase \in {"sent", "answered"}
    /\ Spend("faults")
    /\ flight' = [flight EXCEPT ![c].phase = "settled", ![c].got = NoOne]
    /\ lock' = Tail(lock)
    /\ lost' = lost \cup {flight[c].row}
    /\ UNCHANGED <<rows, cookie, recent, tab, call, inbox, last, crossed, replays, wrote>>

-----------------------------------------------------------------------------
(* Those who waited for a refresh, each with what it does next             *)

Boots(tb, u) ==
    LET x == IF u = NoOne THEN tb ELSE Restored(tb, u)
    IN  IF x.token = NoToken THEN Restored(x, NoOne) ELSE x

Beats(tb, u) == IF u = NoOne THEN Expired(tb) ELSE [tb EXCEPT !.expired = FALSE]

\* The request is sent once more, or the session has expired.
Retries(tb, u) == IF u = NoOne THEN Expired(tb) ELSE tb

\* Back to the session of the actor, with the token of before if need be.
Exits(tb, u) ==
    LET was == tb.original
        x == [Unmounted(tb) EXCEPT !.original = NoSupport]
    IN  IF u # NoOne THEN SignedIn(x, u, Own(u)) ELSE SignedIn(x, was.user, was.token)

\* The promise of a client's refresh settles.
Resume(c) ==
    LET t == c[1]
        u == flight[c].got
        W == flight[c].for
        a == IF "boot" \in W THEN Boots(tab[t], u) ELSE tab[t]
        b == IF "beat" \in W THEN Beats(a, u) ELSE a
        d == IF "call" \in W THEN Retries(b, u) ELSE b
    IN
    /\ flight[c].phase = "settled"
    /\ tab' = [tab EXCEPT ![t] = IF "exit" \in W THEN Exits(d, u) ELSE d]
    /\ flight' = [flight EXCEPT ![c] = NoFlight]
    /\ crossed' = (crossed \/ ("exit" \in W /\ u = NoOne))
    /\ UNCHANGED <<rows, cookie, lock, recent, call, inbox, left, last, lost, replays, wrote>>

-----------------------------------------------------------------------------
(* Signing in and out                                                      *)

Calls(t, op, who) ==
    call' = [call EXCEPT ![t] = [op |-> op, who |-> who, sent |-> cookie, row |-> 0,
                                 phase |-> "sent"]]

\* The login page, or the dialog over an expired session: any account may sign in.
SignIn(t, u) ==
    /\ call[t] = NoCall
    /\ (tab[t].user = NoOne /\ ~tab[t].booting) \/ tab[t].expired
    /\ Spend("signins")
    /\ Calls(t, "login", u)
    /\ crossed' = (crossed \/ Crosses(t))
    /\ UNCHANGED <<rows, browser, tab, last, lost, replays, wrote>>

SignOut(t) ==
    /\ call[t] = NoCall
    /\ tab[t].user # NoOne
    /\ Spend("signouts")
    /\ Calls(t, "logout", NoOne)
    /\ crossed' = (crossed \/ Crosses(t))
    /\ UNCHANGED <<rows, browser, tab, last, lost, replays, wrote>>

\* The product page starts a support session for another account.
StartSupport(t, u) ==
    /\ call[t] = NoCall
    /\ tab[t].user # NoOne /\ ~tab[t].expired /\ tab[t].page = "other"
    /\ tab[t].token = Own(Admin) /\ u # Admin
    /\ Spend("supports")
    /\ Calls(t, "start", u)
    /\ crossed' = (crossed \/ Crosses(t))
    /\ UNCHANGED <<rows, browser, tab, last, lost, replays, wrote>>

\* A new password ends every session of the account; the page then signs out.
ChangePassword(t) ==
    /\ call[t] = NoCall
    /\ tab[t].page = "settings" /\ tab[t].token.sub # NoOne /\ ~tab[t].token.support
    /\ Spend("signouts")
    /\ rows' = Revoked(RowsOf(tab[t].token.sub))
    /\ cookie' = 0
    /\ call' = [call EXCEPT ![t] = [NoCall EXCEPT !.op = "logout", !.phase = "sent"]]
    /\ crossed' = (crossed \/ Crosses(t))
    /\ UNCHANGED <<lock, flight, recent, tab, inbox, last, lost, replays, wrote>>

ServeCall(t) ==
    /\ call[t].phase = "sent"
    /\ call' = [call EXCEPT ![t].phase = "answered",
                            ![t].row = IF call[t].op = "login" THEN Issued ELSE 0]
    /\ CASE call[t].op = "login" -> Login(call[t].who)
         [] call[t].op = "logout" -> Logout(call[t].sent)
         [] OTHER -> UNCHANGED rows
    /\ UNCHANGED <<browser, tab, left, history>>

\* A slip: the other tabs are not told.
KeepsToItself(t, msg) == UNCHANGED inbox

\* A broadcast on starter:session reaches the other tabs.
Tells(t, msg) == inbox' = Posted(msg, Open \ {t})

LoggedIn(t) ==
    /\ call[t].op = "login" /\ call[t].phase = "answered"
    /\ cookie' = call[t].row
    /\ tab' = [tab EXCEPT ![t] =
         SignedIn(IF @.user = NoOne THEN Unmounted(@) ELSE @, call[t].who, Own(call[t].who))]
    /\ Tells(t, [type |-> "login", user |-> call[t].who, from |-> Host(t)])
    /\ call' = [call EXCEPT ![t] = NoCall]
    /\ last' = call[t].who
    /\ UNCHANGED <<rows, lock, flight, recent, left, crossed, lost, replays, wrote>>

LogsOut(t) ==
    /\ tab' = [tab EXCEPT ![t] = SignedOut(@)]
    /\ Tells(t, [type |-> "logout", user |-> NoOne, from |-> Host(t)])
    /\ call' = [call EXCEPT ![t] = NoCall]
    /\ last' = NoOne
    /\ UNCHANGED <<rows, lock, flight, recent, replays, wrote>>

LoggedOut(t) ==
    /\ call[t].op = "logout" /\ call[t].phase = "answered"
    /\ cookie' = 0
    /\ LogsOut(t)
    /\ UNCHANGED <<left, crossed, lost>>

\* A support session begins in this tab only; the settings page opens.
SupportStarts(t) ==
    LET u == call[t].who
        was == tab[t].original
    IN
    /\ call[t].op = "start" /\ call[t].phase = "answered"
    /\ tab' = [tab EXCEPT ![t] =
         [Unmounted(SignedIn(@, u, [sub |-> u, support |-> TRUE])) EXCEPT
            !.page = "settings", !.asked = u,
            !.original = [user |-> IF tab[t].user = NoOne THEN was.user ELSE tab[t].user,
                          token |-> IF tab[t].token = NoToken THEN was.token ELSE tab[t].token]]]
    /\ call' = [call EXCEPT ![t] = NoCall]
    /\ UNCHANGED <<rows, browser, left, history>>

\* A failed sign-out is taken for one; anything else is an error message.
CallFails(t) ==
    /\ call[t].phase \in {"sent", "answered"}
    /\ Spend("faults")
    /\ UNCHANGED <<cookie, lost>>
    /\ IF call[t].op = "logout" THEN LogsOut(t) /\ crossed' = TRUE
       ELSE /\ call' = [call EXCEPT ![t] = NoCall]
            /\ UNCHANGED <<rows, lock, flight, recent, tab, inbox, last, crossed, replays, wrote>>

\* A broadcast arrives.
Deliver(t) ==
    LET m == Head(inbox[t]) IN
    /\ inbox[t] # <<>>
    /\ inbox' = [inbox EXCEPT ![t] = Tail(@)]
    /\ CASE m.type = "done" ->
              /\ recent' = [c \in Clients |-> IF c[1] = t /\ c # m.from THEN m.user ELSE recent[c]]
              /\ tab' = [tab EXCEPT ![t].token = Own(m.user)]
         [] m.type = "login" ->
              tab' = [tab EXCEPT ![t] = SignedIn(@, m.user, Own(m.user))] /\ UNCHANGED recent
         [] m.type = "logout" ->
              tab' = [tab EXCEPT ![t] = SignedOut(@)] /\ UNCHANGED recent
    /\ UNCHANGED <<rows, cookie, lock, flight, call, left, history>>

-----------------------------------------------------------------------------
(* The settings page and the preferences of the shell                      *)

\* The page opens and asks for the profile of whoever the token speaks for.
OpenSettings(t) ==
    /\ tab[t].user # NoOne /\ ~tab[t].expired /\ tab[t].page = "other"
    /\ Spend("settings")
    /\ tab' = [tab EXCEPT ![t].page = "settings", ![t].asked = tab[t].token.sub]
    /\ UNCHANGED <<rows, browser, call, history>>

ProfileArrives(t) ==
    /\ tab[t].asked # NoOne
    /\ tab' = [tab EXCEPT ![t].profile = tab[t].asked, ![t].asked = NoOne]
    /\ UNCHANGED <<rows, browser, call, left, history>>

LeaveSettings(t) ==
    /\ tab[t].page = "settings"
    /\ tab' = [tab EXCEPT ![t] = Unmounted(@)]
    /\ UNCHANGED <<rows, browser, call, left, history>>

Writes(t, what, whose) ==
    wrote' = wrote \cup {[of |-> whose, to |-> tab[t].user,
                          mixed |-> crossed \/ InSupport(tab[t]) \/ what \in tab[t].turned]}

\* The form is sent to the address of the user on screen; nobody's profile is a form
\* that its loading has not filled yet.
SaveProfile(t) ==
    /\ tab[t].page = "settings" /\ tab[t].user # NoOne /\ ~tab[t].expired
    /\ ~tab[t].token.support /\ tab[t].token.sub \in {tab[t].user, Admin}
    /\ Writes(t, "profile", tab[t].profile)
    /\ tab' = [tab EXCEPT ![t].profile = tab[t].user,
                            ![t].turned = IF tab[t].asked = NoOne THEN @ \ {"profile"} ELSE @]
    /\ UNCHANGED <<rows, browser, call, left, last, crossed, lost, replays>>

\* Preferences are read when the shell mounts and stored under the user's name.
SavePreferences(t) ==
    /\ tab[t].page = "settings" /\ tab[t].user # NoOne /\ ~tab[t].expired
    /\ Writes(t, "prefs", tab[t].prefs)
    /\ UNCHANGED <<rows, browser, tab, call, left, last, crossed, lost, replays>>

-----------------------------------------------------------------------------
(* Time, reloads and other sessions' doings                                *)

\* Two seconds after a refresh its token is not reused any more.
Ages ==
    /\ recent # [c \in Clients |-> NoOne]
    /\ recent' = [c \in Clients |-> NoOne]
    /\ UNCHANGED <<rows, cookie, lock, flight, tab, call, inbox, left, history>>

\* The service forgets the answer it kept for a rotated token.
GraceLapses(n) ==
    /\ rows[n].grace
    /\ rows' = [rows EXCEPT ![n].grace = FALSE]
    /\ UNCHANGED <<browser, tab, call, left, history>>

\* Every session of an account is revoked, by an administrator or on another device.
Revokes(u) ==
    /\ Spend("revokes")
    /\ rows' = Revoked(RowsOf(u))
    /\ UNCHANGED <<browser, tab, call, history>>

\* A slip: what a page held of the lock outlives it.
StillHeld(t) == lock

\* Nobody holds or awaits the lock twice.
Without(s, c) ==
    IF \E i \in DOMAIN s : s[i] = c THEN RemoveAt(s, CHOOSE i \in DOMAIN s : s[i] = c) ELSE s

\* The browser takes the lock from what is gone.
LeftTo(t) == Without(Without(lock, Host(t)), Remote(t))

\* A reload: whatever the page held or waited for is gone, and the session is restored
\* from the cookie.
Reload(t) ==
    LET Mine == {c \in Clients : c[1] = t} IN
    /\ Spend("reloads")
    /\ tab' = [tab EXCEPT ![t] = Fresh]
    /\ call' = [call EXCEPT ![t] = NoCall]
    /\ flight' = Awaited([c \in Clients |-> IF c \in Mine THEN NoFlight ELSE flight[c]],
                         Host(t), "boot")
    /\ lock' = Append(LeftTo(t), Host(t))
    /\ recent' = [c \in Clients |-> IF c \in Mine THEN NoOne ELSE recent[c]]
    /\ inbox' = [inbox EXCEPT ![t] = <<>>]
    /\ lost' = lost \cup {flight[c].row : c \in Mine}
    /\ crossed' = (crossed \/ Changing)
    /\ UNCHANGED <<rows, cookie, last, replays, wrote>>

Settling(c) ==
    \/ Granted(c) \/ ServeRefresh(c) \/ RefreshAnswered(c) \/ Resume(c)

Proceeds(t) == ServeCall(t) \/ LoggedIn(t) \/ LoggedOut(t) \/ SupportStarts(t)

Signs(t) ==
    \/ \E u \in Users : SignIn(t, u) \/ StartSupport(t, u)
    \/ SignOut(t) \/ ChangePassword(t) \/ ExitSupport(t)

Refreshes(t) == Heartbeat(t) \/ Unauthorized(t) \/ Reload(t)

Settings(t) ==
    \/ OpenSettings(t) \/ ProfileArrives(t) \/ LeaveSettings(t)
    \/ SaveProfile(t) \/ SavePreferences(t)

Next ==
    \/ \E c \in Clients : Settling(c) \/ RefreshFails(c)
    \/ Ages
    \/ \E t \in Open :
          Proceeds(t) \/ CallFails(t) \/ Deliver(t) \/ Signs(t) \/ Refreshes(t) \/ Settings(t)
    \/ \E n \in DOMAIN rows : GraceLapses(n)
    \/ \E u \in Users : Revokes(u)

Spec == Init /\ [][Next]_vars

\* The service answers or the connection fails, the browser grants its lock and
\* delivers its messages; users and time owe nothing.
Fairness ==
    /\ \A c \in Clients : WF_vars(Settling(c))
    /\ \A t \in Tabs : WF_vars(Proceeds(t)) /\ WF_vars(Deliver(t))

FairSpec == Spec /\ Fairness

-----------------------------------------------------------------------------
(* Properties                                                              *)

Token == [sub : Anyone, support : BOOLEAN]
Waiter == {"boot", "beat", "call", "exit"}
Numbers == 0 .. Len(rows)

RowState == [user : Users, fam : Nat, st : {"live", "used", "dead"}, next : Numbers,
             grace : BOOLEAN]
FlightState == [phase : {"idle", "queued", "sent", "answered", "settled"},
                for : SUBSET Waiter, sent : Numbers, row : Numbers, got : Anyone]
TabState == [user : Anyone, token : Token, booting : BOOLEAN, expired : BOOLEAN,
             original : [user : Anyone, token : Token],
             page : {"other", "settings"}, asked : Anyone, profile : Anyone,
             prefs : Anyone, turned : SUBSET {"profile", "prefs"}]
CallState == [op : {"none", "login", "logout", "start"}, who : Anyone, sent : Numbers,
              row : Numbers, phase : {"idle", "sent", "answered"}]
Message == [type : {"done", "login", "logout"}, user : Anyone, from : Clients]

\* Every variable has its type.
TypeOK ==
    /\ rows \in Seq(RowState)
    /\ cookie \in Numbers
    /\ lock \in Seq(Clients)
    /\ flight \in [Clients -> FlightState]
    /\ recent \in [Clients -> Anyone]
    /\ tab \in [Tabs -> TabState]
    /\ call \in [Tabs -> CallState]
    /\ \A t \in Tabs : call[t].op \in {"login", "start"} => call[t].who \in Users
    /\ inbox \in [Tabs -> Seq(Message)]
    /\ left \in Budget
    /\ last \in Anyone /\ crossed \in BOOLEAN

Quiet ==
    /\ \A c \in Clients : Idle(c)
    /\ \A t \in Tabs : call[t] = NoCall /\ inbox[t] = <<>>

\* The tabs of a browser agree: once everything has settled, each shows nobody or the
\* account that signed in last, and its token speaks for nobody else, unless a sign-in
\* or sign-out overlapped something (auth-context.tsx:83, index.ts:124).
TabsAgree ==
    Quiet /\ ~crossed =>
        \A t \in Tabs : ~InSupport(tab[t]) =>
            {tab[t].user, tab[t].token.sub} \subseteq {last, NoOne}

\* The lock makes the bundles and tabs take turns: a refresh token is presented a second
\* time, which ends the session everywhere, only if the answer to the first was lost.
NoReplay == \A n \in replays : rows[n].next \in lost

\* What the settings page saves for an account is that account's, unless the account on
\* screen changed under the page, a sign-in overlapped something, or a refresh put the
\* actor's token in place of a support session's (App.tsx:361).
SavesTheirOwn == \A w \in wrote : w.of \in {w.to, NoOne} \/ w.mixed

\* Every refresh ends, also when tabs reload in the middle of theirs: the lock goes on.
RefreshSettles == \A c \in Clients : ~Idle(c) ~> Idle(c)

\* A tab that restores its session comes to an end of it: it shows somebody or the login
\* page, or else it has been told a token meanwhile (auth-context.tsx:141).
BootSettles == \A t \in Tabs : tab[t].booting ~> (~tab[t].booting \/ tab[t].token # NoToken)

\* Neither waits for good.
TabsSettle == RefreshSettles /\ BootSettles
=============================================================================
