------------------------------- MODULE Claims -------------------------------
(***************************************************************************)
(* Claim versions, from a role change to the refusal of an old access      *)
(* token: the rbac service's transactions and the versions it writes to    *)
(* Redis afterwards (services/rbac/internal), the claims that auth         *)
(* resolves, caches and signs into tokens (services/auth/internal/         *)
(* claims.go), and the check of the gateway (services/gateway/internal/    *)
(* proxy.go).                                                              *)
(*                                                                         *)
(* A transaction of rbac is two steps: the read of the users who hold the  *)
(* role, and the commit.  The version rows it locks in between are changed *)
(* by nobody else, so its bump is part of the commit.  An archived role is *)
(* a role without permissions.                                             *)
(***************************************************************************)
EXTENDS Naturals

CONSTANTS
    Users,        \* accounts
    Roles,        \* roles that exist before the first step
    DefaultRole,  \* the role every registered user is given
    Perms,        \* permissions
    Requests,     \* requests that change roles
    Logins,       \* logins and refreshes, each signs one access token
    NoRole,       \* no fallback role
    NoClaims,     \* no cache entry
    MaxEvents     \* bound on failures, crashes and evictions

\* Permissions with the version they are signed with.  "clean" is history: no
\* change of the user's roles committed while they were being read.
ClaimSet == [perms : SUBSET Perms, ver : Nat, clean : BOOLEAN]

ASSUME ConstantsAssumption ==
    /\ DefaultRole \in Roles
    /\ NoRole \notin Roles /\ NoClaims \notin ClaimSet
    /\ MaxEvents \in Nat

VARIABLES
    role,     \* role[r]: the permissions of role r, none once it is deleted
    exists,   \* roles not deleted
    held,     \* held[u]: the roles of user u
    ver,      \* ver[u]: rbac.user_versions.ver, 0 when there is no row
    redis,    \* redis[u]: claims:ver:<u>, 0 when there is no key
    pc,       \* what each request does next
    job,      \* job[q]: the role it changes and how
    snap,     \* snap[q]: the users it read as holders of that role
    todo,     \* todo[q]: <<user, version>> pairs it has still to write to Redis
    lpc,      \* what each login does next
    sub,      \* sub[l]: the user who logs in
    left,     \* left[l]: the roles whose permissions are still to be read
    read,     \* read[l]: the claims read so far, in the end those signed
    cache,    \* cache[u]: auth's cache entry
    fresh,    \* users whose cache entry has not expired
    events,   \* events left of MaxEvents
    \* history of the run, read by no action
    late,     \* users given a role that a request is about to change without them
    crossed,  \* users whose versions two requests were writing at the same time
    lost      \* users with a version that a failure kept from Redis

rbac    == <<role, exists, held, ver>>
admin   == <<pc, job, snap, todo>>
login   == <<lpc, sub, left, read>>
auth    == <<cache, fresh>>
history == <<late, crossed, lost>>
vars    == <<role, exists, held, ver, redis, pc, job, snap, todo, lpc, sub, left,
             read, cache, fresh, events, late, crossed, lost>>

\* What a login has read before its first query.
Blank == [perms |-> {}, ver |-> 0, clean |-> TRUE]

Job   == [role : Roles, perms : SUBSET Perms, fallback : Roles \cup {NoRole}]
NoJob == [role |-> DefaultRole, perms |-> {}, fallback |-> NoRole]

TypeOK ==
    /\ role \in [Roles -> SUBSET Perms]
    /\ exists \in SUBSET Roles
    /\ held \in [Users -> SUBSET Roles]
    /\ ver \in [Users -> Nat]
    /\ redis \in [Users -> Nat]
    /\ pc \in [Requests -> {"new", "update", "plain", "moving", "delete", "load",
                            "each", "write", "done"}]
    /\ job \in [Requests -> Job]
    /\ \A q \in Requests : pc[q] \in {"moving", "delete"} => job[q].fallback \in Roles
    /\ snap \in [Requests -> SUBSET Users]
    /\ \A q \in Requests : pc[q] = "plain" => snap[q] = {}
    /\ todo \in [Requests -> SUBSET (Users \X Nat)]
    /\ lpc \in [Logins -> {"new", "roles", "ver", "perms", "signed"}]
    /\ sub \in [Logins -> Users]
    /\ left \in [Logins -> SUBSET Roles]
    /\ read \in [Logins -> ClaimSet]
    /\ cache \in [Users -> ClaimSet \cup {NoClaims}]
    /\ fresh \in SUBSET {u \in Users : cache[u] \in ClaimSet}
    /\ events \in 0 .. MaxEvents
    /\ late \in SUBSET Users
    /\ crossed \in SUBSET Users
    /\ lost \in SUBSET Users

\* Some users are registered: they hold the default role at version 1.
Init ==
    \E registered \in SUBSET Users :
        /\ role \in [Roles -> SUBSET Perms]
        /\ exists = Roles
        /\ held = [u \in Users |-> IF u \in registered THEN {DefaultRole} ELSE {}]
        /\ ver = [u \in Users |-> IF u \in registered THEN 1 ELSE 0]
        /\ redis = [u \in Users |-> 0]
        /\ pc = [q \in Requests |-> "new"]
        /\ job = [q \in Requests |-> NoJob]
        /\ snap = [q \in Requests |-> {}]
        /\ todo = [q \in Requests |-> {}]
        /\ lpc = [l \in Logins |-> "new"]
        /\ sub \in [Logins -> Users]
        /\ left = [l \in Logins |-> {}]
        /\ read = [l \in Logins |-> Blank]
        /\ cache = [u \in Users |-> NoClaims]
        /\ fresh = {}
        /\ events = MaxEvents
        /\ late = {} /\ crossed = {} /\ lost = {}

Holders(r) == {u \in Users : r \in held[u]}
Granted(u) == UNION {role[r] : r \in held[u]}

-----------------------------------------------------------------------------
(* Transactions of rbac. *)

\* Request q goes to state s.
Goto(q, s) == pc' = [pc EXCEPT ![q] = s]

\* Request q returns and forgets what it did.
Answer(q) ==
    /\ Goto(q, "done")
    /\ job' = [job EXCEPT ![q] = NoJob]
    /\ snap' = [snap EXCEPT ![q] = {}]
    /\ todo' = [todo EXCEPT ![q] = {}]

\* The row of role r is locked by a transaction that changes it.
RowLocked(r) == \E q \in Requests : pc[q] = "update" /\ job[q].role = r

\* Users are being moved to role r: the foreign key keeps it from being deleted.
Pinned(r) == \E q \in Requests :
    pc[q] = "delete" /\ job[q].fallback = r /\ snap[q] # {}

\* A slip: a user who has a version row keeps its version (DO NOTHING).
FirstOnly(us) == [u \in Users |-> IF u \in us /\ ver[u] = 0 THEN 1 ELSE ver[u]]

\* The versions with those of the users us one higher.
Bumped(us) == [u \in Users |-> IF u \in us THEN ver[u] + 1 ELSE ver[u]]

\* Reads of the claims of users us that are under way are no longer clean.
Disturb(us) ==
    read' = [l \in Logins |->
        IF sub[l] \in us /\ lpc[l] \in {"ver", "perms"}
          THEN [read[l] EXCEPT !.clean = FALSE] ELSE read[l]]

\* User u now holds roles S, and a request that has already read the holders of
\* one of them will change it without u.
ComesLate(u, S) == \E q \in Requests :
    /\ pc[q] \in {"update", "plain", "delete"}
    /\ job[q].role \in S
    /\ u \notin snap[q]

\* Request q has committed a version of u that is not in Redis yet.
Owes(q, u) ==
    /\ pc[q] \in {"load", "each", "write"}
    /\ u \in snap[q] \/ \E p \in todo[q] : p[1] = u

\* Request q commits while another one owes a version of u.
Crosses(q, u) == \E b \in Requests \ {q} : Owes(b, u)

AssignDefaultRole(u) ==
    /\ ~RowLocked(DefaultRole)
    /\ exists' = exists \cup {DefaultRole}
    /\ held' = [held EXCEPT ![u] = @ \cup {DefaultRole}]
    /\ ver' = [ver EXCEPT ![u] = IF @ = 0 THEN 1 ELSE @]
    /\ late' = late \cup {w \in {u} : ComesLate(w, {DefaultRole})}
    /\ UNCHANGED <<role, redis, admin, login, auth, events, crossed, lost>>

SetUserRoles(q, u, S) ==
    /\ pc[q] = "new" /\ S \subseteq exists
    /\ ver' = Bumped({u})
    /\ held' = [held EXCEPT ![u] = S]
    /\ Disturb({u})
    /\ todo' = [todo EXCEPT ![q] = {<<u, ver[u] + 1>>}]
    /\ Goto(q, "write")
    /\ late' = late \cup {w \in {u} : ComesLate(w, S)}
    /\ crossed' = crossed \cup {w \in {u} : Crosses(q, w)}
    /\ UNCHANGED <<role, exists, redis, job, snap, lpc, sub, left, auth, events,
                   lost>>

\* UpdateRole up to the read of the holders in bumpVerTx.
UpdateRole(q, r, P) ==
    /\ pc[q] = "new" /\ r \in exists /\ ~RowLocked(r)
    /\ job' = [job EXCEPT ![q] = [role |-> r, perms |-> P, fallback |-> NoRole]]
    /\ snap' = [snap EXCEPT ![q] = Holders(r)]
    /\ Goto(q, "update")
    /\ UNCHANGED <<rbac, redis, todo, login, auth, events, history>>

CommitUpdate(q) ==
    /\ pc[q] = "update"
    /\ role' = [role EXCEPT ![job[q].role] = job[q].perms]
    /\ ver' = Bumped(snap[q])
    /\ Disturb(snap[q] \cup Holders(job[q].role))
    /\ Goto(q, "load")
    /\ crossed' = crossed \cup {u \in snap[q] : Crosses(q, u)}
    /\ UNCHANGED <<exists, held, redis, job, snap, todo, lpc, sub, left, auth,
                   events, late, lost>>

\* DeleteRole's first query, outside its transaction: the number of holders
\* decides whether it moves users or deletes at once.
DeleteRole(q, r, f) ==
    /\ pc[q] = "new" /\ r \in exists
    /\ IF Holders(r) = {} THEN f = NoRole ELSE f \in Roles \ {r}
    /\ job' = [job EXCEPT ![q] = [role |-> r, perms |-> {}, fallback |-> f]]
    /\ snap' = [snap EXCEPT ![q] = {}]
    /\ Goto(q, IF Holders(r) = {} THEN "plain" ELSE "moving")
    /\ UNCHANGED <<rbac, redis, todo, login, auth, events, history>>

\* The check of the fallback role and the reads of the users to move.
MoveUsers(q) ==
    /\ pc[q] = "moving" /\ job[q].fallback \in exists
    /\ snap' = [snap EXCEPT ![q] = Holders(job[q].role)]
    /\ Goto(q, "delete")
    /\ UNCHANGED <<rbac, redis, job, todo, login, auth, events, history>>

\* What role deletion q leaves user u: the cascade takes the role from everyone,
\* the users read before are given the fallback.
RolesAfter(q, u) ==
    (IF u \in snap[q] THEN held[u] \cup {job[q].fallback} ELSE held[u])
        \ {job[q].role}

CommitDelete(q) ==
    LET r == job[q].role IN
    /\ pc[q] \in {"plain", "delete"}
    /\ r \in exists /\ ~RowLocked(r) /\ ~Pinned(r)
    /\ held' = [u \in Users |-> RolesAfter(q, u)]
    /\ ver' = Bumped(snap[q])
    /\ exists' = exists \ {r}
    /\ role' = [role EXCEPT ![r] = {}]
    /\ Disturb(snap[q] \cup Holders(r))
    /\ Goto(q, "each")
    /\ late' = late \cup {u \in snap[q] : ComesLate(u, {job[q].fallback})}
    /\ crossed' = crossed \cup {u \in snap[q] : Crosses(q, u)}
    /\ UNCHANGED <<redis, job, snap, todo, lpc, sub, left, auth, events, lost>>

\* A check, a deadlock or an error inside a transaction: it is rolled back.
Rollback(q) ==
    /\ pc[q] \in {"update", "plain", "moving", "delete"}
    /\ Answer(q)
    /\ UNCHANGED <<rbac, redis, login, auth, events, history>>

-----------------------------------------------------------------------------
(* The versions on their way to Redis, after the commit. *)

\* invalidateRoleUsers reads who holds the role now, and their versions.
LoadVersions(q) ==
    /\ pc[q] = "load"
    /\ todo' = [todo EXCEPT ![q] = {<<u, ver[u]>> : u \in Holders(job[q].role)}]
    /\ snap' = [snap EXCEPT ![q] = {}]
    /\ Goto(q, "write")
    /\ UNCHANGED <<rbac, redis, job, login, auth, events, history>>

\* The loop of DeleteRole over the users it moved, one version at a time.
LoadVersion(q, u) ==
    /\ pc[q] = "each" /\ todo[q] = {} /\ u \in snap[q]
    /\ todo' = [todo EXCEPT ![q] = {<<u, ver[u]>>}]
    /\ snap' = [snap EXCEPT ![q] = @ \ {u}]
    /\ UNCHANGED <<rbac, redis, pc, job, login, auth, events, history>>

\* A slip: SET ... NX, only the first version is stored.
WrittenOnce(u, v) == IF redis[u] = 0 THEN [redis EXCEPT ![u] = v] ELSE redis

\* The SET of InvalidateClaims: it overwrites whatever version is there.
Written(u, v) == [redis EXCEPT ![u] = v]

WriteVersion(q, p) ==
    /\ redis' = Written(p[1], p[2])
    /\ todo' = [todo EXCEPT ![q] = @ \ {p}]
    /\ UNCHANGED <<rbac, pc, job, snap, login, auth, events, history>>

Return(q) ==
    /\ pc[q] \in {"each", "write"} /\ todo[q] = {}
    /\ pc[q] = "each" => snap[q] = {}
    /\ Answer(q)
    /\ UNCHANGED <<rbac, redis, login, auth, events, history>>

Event == events > 0 /\ events' = events - 1

\* A SET that fails is logged and the loop goes on.
FailWrite(q, p) ==
    /\ Event
    /\ todo' = [todo EXCEPT ![q] = @ \ {p}]
    /\ lost' = lost \cup {p[1]}
    /\ UNCHANGED <<rbac, redis, pc, job, snap, login, auth, late, crossed>>

\* The read of the versions fails, or rbac stops: the versions committed are
\* never written.
Abandon(q) ==
    /\ Event /\ pc[q] \in {"load", "each", "write"}
    /\ Answer(q)
    /\ lost' = lost \cup {u \in Users : Owes(q, u)}
    /\ UNCHANGED <<rbac, redis, login, auth, late, crossed>>

-----------------------------------------------------------------------------
(* Claims of a login or a refresh (ClaimsClient.Resolve, ResolveClaims). *)

\* A cache entry that has not expired is signed as it is.
BeginLogin(l, u) ==
    /\ lpc[l] \in {"new", "signed"}
    /\ sub' = [sub EXCEPT ![l] = u]
    /\ IF u \in fresh
         THEN /\ read' = [read EXCEPT ![l] = cache[u]]
              /\ lpc' = [lpc EXCEPT ![l] = "signed"]
         ELSE /\ read' = [read EXCEPT ![l] = Blank]
              /\ lpc' = [lpc EXCEPT ![l] = "roles"]
    /\ UNCHANGED <<rbac, redis, admin, left, auth, events, history>>

ReadRoles(l) ==
    /\ lpc[l] = "roles"
    /\ left' = [left EXCEPT ![l] = held[sub[l]]]
    /\ lpc' = [lpc EXCEPT ![l] = "ver"]
    /\ UNCHANGED <<rbac, redis, admin, sub, read, auth, events, history>>

ReadVersion(l) ==
    /\ lpc[l] = "ver"
    /\ read' = [read EXCEPT ![l].ver = ver[sub[l]]]
    /\ lpc' = [lpc EXCEPT ![l] = "perms"]
    /\ UNCHANGED <<rbac, redis, admin, sub, left, auth, events, history>>

\* permsForRole, one statement for each role.
ReadPerms(l, r) ==
    /\ lpc[l] = "perms" /\ r \in left[l]
    /\ read' = [read EXCEPT ![l].perms = @ \cup role[r]]
    /\ left' = [left EXCEPT ![l] = @ \ {r}]
    /\ UNCHANGED <<rbac, redis, admin, lpc, sub, auth, events, history>>

StoreClaims(l) ==
    /\ lpc[l] = "perms" /\ left[l] = {}
    /\ cache' = [cache EXCEPT ![sub[l]] = read[l]]
    /\ fresh' = fresh \cup {sub[l]}
    /\ lpc' = [lpc EXCEPT ![l] = "signed"]
    /\ UNCHANGED <<rbac, redis, admin, sub, left, read, events, history>>

\* rbac does not answer: the entry found at first, expired, is signed, or no
\* permissions at all.
ResolveFails(l, u) ==
    /\ Event /\ lpc[l] \in {"new", "signed"} /\ u \notin fresh
    /\ sub' = [sub EXCEPT ![l] = u]
    /\ read' = [read EXCEPT ![l] = IF cache[u] = NoClaims THEN Blank ELSE cache[u]]
    /\ lpc' = [lpc EXCEPT ![l] = "signed"]
    /\ UNCHANGED <<rbac, redis, admin, left, auth, history>>

CacheExpires(u) ==
    /\ u \in fresh
    /\ fresh' = fresh \ {u}
    /\ UNCHANGED <<rbac, redis, admin, login, cache, events, history>>

\* The cache is full, or auth restarts.
Evict(u) ==
    /\ Event /\ cache[u] # NoClaims
    /\ cache' = [cache EXCEPT ![u] = NoClaims]
    /\ fresh' = fresh \ {u}
    /\ UNCHANGED <<rbac, redis, admin, login, history>>

-----------------------------------------------------------------------------
Change(q) ==
    \/ \E u \in Users, S \in SUBSET Roles : SetUserRoles(q, u, S)
    \/ \E r \in Roles, P \in SUBSET Perms : UpdateRole(q, r, P)
    \/ \E r \in Roles, f \in Roles \cup {NoRole} : DeleteRole(q, r, f)

Proceed(q) ==
    \/ CommitUpdate(q) \/ MoveUsers(q) \/ CommitDelete(q) \/ Rollback(q)
    \/ LoadVersions(q) \/ Return(q) \/ Abandon(q)
    \/ \E u \in Users : LoadVersion(q, u)
    \/ \E p \in todo[q] : WriteVersion(q, p) \/ FailWrite(q, p)

Resolve(l) ==
    \/ \E u \in Users : BeginLogin(l, u) \/ ResolveFails(l, u)
    \/ ReadRoles(l) \/ ReadVersion(l) \/ StoreClaims(l)
    \/ \E r \in Roles : ReadPerms(l, r)

Next ==
    \/ \E q \in Requests : Change(q) \/ Proceed(q)
    \/ \E l \in Logins : Resolve(l)
    \/ \E u \in Users : AssignDefaultRole(u) \/ CacheExpires(u) \/ Evict(u)

Spec == Init /\ [][Next]_vars

-----------------------------------------------------------------------------
(* Properties. *)

\* The gateway's check of a token: the version in Redis is not a newer one.
Accepted(l) == lpc[l] = "signed" /\ redis[sub[l]] <= read[l].ver

\* Claims read for user u name what u is granted, or an older version.
Names(u, c) ==
    c.clean /\ c.ver = ver[u] /\ u \notin late => c.perms \subseteq Granted(u)

\* A version names its permissions: claims read while nothing changed, in a
\* token or in auth's cache, carry nothing that is not granted as long as the
\* user's version is the one they were read with; every path that takes a
\* permission away raises the version of everyone who had it.  Users given a
\* role between a request's read of its holders and its commit are excepted.
VersionNamesClaims ==
    /\ \A l \in Logins : lpc[l] = "signed" => Names(sub[l], read[l])
    /\ \A u \in Users : cache[u] # NoClaims => Names(u, cache[u])

InFlight(u) == \E q \in Requests : Owes(q, u)

\* What role changes promise end to end: after they have returned, the gateway
\* refuses every token that carries a permission its user is not granted any more,
\* whatever logins, caches and expired entries the token came from.
StaleClaimsRefused == \A l \in Logins :
    LET u == sub[l] IN
    Accepted(l) /\ read[l].clean /\ ~InFlight(u) /\ u \notin late \cup crossed \cup lost
        => read[l].perms \subseteq Granted(u)
=============================================================================
