---------------------------- MODULE ClaimsProofs ----------------------------
(***************************************************************************)
(* Proofs about Claims, for any users, roles, requests, logins and events. *)
(***************************************************************************)
EXTENDS Claims, TLAPS

LEMMA NoJobIsJob == NoJob \in Job
  BY ConstantsAssumption DEF NoJob, Job

\* What the parts of a step take from the type invariant.
LEMMA DisturbType ==
    ASSUME TypeOK, NEW us, Disturb(us)
    PROVE  read' \in [Logins -> ClaimSet]
<1>. SUFFICES ASSUME NEW l \in Logins
              PROVE  (IF sub[l] \in us /\ lpc[l] \in {"ver", "perms"}
                        THEN [read[l] EXCEPT !.clean = FALSE] ELSE read[l]) \in ClaimSet
  BY DEF Disturb
<1>. QED  BY DEF TypeOK, ClaimSet

LEMMA BumpedType ==
    ASSUME TypeOK, NEW us
    PROVE  Bumped(us) \in [Users -> Nat]
  BY DEF Bumped, TypeOK

\* A request that returns forgets what it did.
LEMMA AnswerType ==
    ASSUME TypeOK, NEW q \in Requests, Answer(q)
    PROVE  /\ pc' \in [Requests -> {"new", "update", "plain", "moving", "delete", "load",
                                    "each", "write", "done"}]
           /\ job' \in [Requests -> Job]
           /\ \A p \in Requests : pc'[p] \in {"moving", "delete"} => job'[p].fallback \in Roles
           /\ snap' \in [Requests -> SUBSET Users]
           /\ \A p \in Requests : pc'[p] = "plain" => snap'[p] = {}
           /\ todo' \in [Requests -> SUBSET (Users \X Nat)]
<1>1. /\ pc' = [pc EXCEPT ![q] = "done"] /\ job' = [job EXCEPT ![q] = NoJob]
      /\ snap' = [snap EXCEPT ![q] = {}] /\ todo' = [todo EXCEPT ![q] = {}]
  BY DEF Answer, Goto
<1>2. pc' \in [Requests -> {"new", "update", "plain", "moving", "delete", "load",
                           "each", "write", "done"}]
  BY <1>1 DEF TypeOK
<1>3. job' \in [Requests -> Job]
  BY <1>1, NoJobIsJob DEF TypeOK
<1>4. snap' \in [Requests -> SUBSET Users] /\ todo' \in [Requests -> SUBSET (Users \X Nat)]
  BY <1>1 DEF TypeOK
<1>5. ASSUME NEW p \in Requests
      PROVE  /\ pc'[p] \in {"moving", "delete"} => job'[p].fallback \in Roles
             /\ pc'[p] = "plain" => snap'[p] = {}
  BY <1>1 DEF TypeOK
<1>. QED  BY <1>2, <1>3, <1>4, <1>5

\* Init establishes the type invariant.
LEMMA TypeInit == Init => TypeOK
<1>1. NoJob \in Job /\ Blank \in ClaimSet
  BY ConstantsAssumption DEF NoJob, Job, Blank, ClaimSet
<1>. QED  BY <1>1, ConstantsAssumption, SMTT(30) DEF Init, TypeOK

\* Every step keeps it.
LEMMA TypeStep == TypeOK /\ [Next]_vars => TypeOK'
<1>. SUFFICES ASSUME TypeOK, [Next]_vars PROVE TypeOK'
  OBVIOUS
<1>. USE DEF rbac, admin, login, auth, history
<1>1. ASSUME NEW u \in Users, AssignDefaultRole(u) PROVE TypeOK'
  BY <1>1, ConstantsAssumption DEF AssignDefaultRole, TypeOK
<1>2. ASSUME NEW q \in Requests, NEW u \in Users, NEW S \in SUBSET Roles,
             SetUserRoles(q, u, S)
      PROVE  TypeOK'
  <2>1. /\ ver' \in [Users -> Nat]
        /\ read' \in [Logins -> ClaimSet]
    BY <1>2, BumpedType, DisturbType DEF SetUserRoles
  <2>2. todo' \in [Requests -> SUBSET (Users \X Nat)]
    BY <1>2 DEF SetUserRoles, TypeOK
  <2>. QED  BY <1>2, <2>1, <2>2 DEF Goto, SetUserRoles, TypeOK
<1>3. ASSUME NEW q \in Requests, NEW r \in Roles, NEW P \in SUBSET Perms,
             UpdateRole(q, r, P)
      PROVE  TypeOK'
  BY <1>3 DEF Goto, UpdateRole, TypeOK, Job, Holders
<1>4. ASSUME NEW q \in Requests, NEW r \in Roles, NEW f \in Roles \cup {NoRole},
             DeleteRole(q, r, f)
      PROVE  TypeOK'
  BY <1>4 DEF Goto, DeleteRole, TypeOK, Job
<1>5. ASSUME NEW q \in Requests, CommitUpdate(q) PROVE TypeOK'
  <2>1. /\ ver' \in [Users -> Nat]
        /\ read' \in [Logins -> ClaimSet]
    BY <1>5, BumpedType, DisturbType DEF CommitUpdate
  <2>2. role' \in [Roles -> SUBSET Perms]
    BY <1>5 DEF CommitUpdate, TypeOK, Job
  <2>. QED  BY <1>5, <2>1, <2>2 DEF Goto, CommitUpdate, TypeOK
<1>6. ASSUME NEW q \in Requests, MoveUsers(q) PROVE TypeOK'
  BY <1>6 DEF Goto, MoveUsers, TypeOK, Holders
<1>7. ASSUME NEW q \in Requests, CommitDelete(q) PROVE TypeOK'
  <2>1. /\ ver' \in [Users -> Nat]
        /\ read' \in [Logins -> ClaimSet]
    BY <1>7, BumpedType, DisturbType DEF CommitDelete
  <2>2. held' \in [Users -> SUBSET Roles]
    BY <1>7 DEF CommitDelete, RolesAfter, TypeOK
  <2>. QED  BY <1>7, <2>1, <2>2 DEF Goto, CommitDelete, TypeOK
<1>8. ASSUME NEW q \in Requests, Rollback(q) \/ Return(q) PROVE TypeOK'
  <2>1. Answer(q) /\ UNCHANGED <<rbac, redis, login, auth, events, history>>
    BY <1>8 DEF Rollback, Return
  <2>. QED  BY <2>1, AnswerType DEF TypeOK
<1>9. ASSUME NEW q \in Requests, Abandon(q) PROVE TypeOK'
  <2>1. Answer(q)
    BY <1>9 DEF Abandon
  <2>. QED  BY <1>9, <2>1, AnswerType, ConstantsAssumption DEF Abandon, Event, TypeOK
<1>10. ASSUME NEW q \in Requests, LoadVersions(q) PROVE TypeOK'
  BY <1>10 DEF Goto, LoadVersions, TypeOK, Holders
<1>11. ASSUME NEW q \in Requests, NEW u \in Users, LoadVersion(q, u) PROVE TypeOK'
  BY <1>11 DEF LoadVersion, TypeOK
<1>12. ASSUME NEW q \in Requests, NEW p \in todo[q],
              WriteVersion(q, p) \/ FailWrite(q, p)
       PROVE  TypeOK'
  <2>1. p[1] \in Users /\ p[2] \in Nat
    BY DEF TypeOK
  <2>. QED  BY <1>12, <2>1, ConstantsAssumption
            DEF WriteVersion, FailWrite, Written, Event, TypeOK
<1>13. ASSUME NEW l \in Logins, NEW u \in Users, BeginLogin(l, u) \/ ResolveFails(l, u)
       PROVE  TypeOK'
  <2>1. Blank \in ClaimSet
    BY DEF Blank, ClaimSet
  <2>2. CASE BeginLogin(l, u)
    BY <2>1, <2>2 DEF BeginLogin, TypeOK
  <2>3. CASE ResolveFails(l, u)
    BY <2>1, <2>3, ConstantsAssumption DEF ResolveFails, Event, TypeOK
  <2>. QED  BY <1>13, <2>2, <2>3
<1>14. ASSUME NEW l \in Logins, ReadRoles(l) \/ ReadVersion(l) \/ StoreClaims(l)
       PROVE  TypeOK'
  <2>1. CASE ReadRoles(l)
    BY <2>1 DEF ReadRoles, TypeOK
  <2>2. CASE ReadVersion(l)
    BY <2>2 DEF ReadVersion, TypeOK, ClaimSet
  <2>3. CASE StoreClaims(l)
    BY <2>3 DEF StoreClaims, TypeOK
  <2>. QED  BY <1>14, <2>1, <2>2, <2>3
<1>15. ASSUME NEW l \in Logins, NEW r \in Roles, ReadPerms(l, r) PROVE TypeOK'
  BY <1>15 DEF ReadPerms, TypeOK, ClaimSet
<1>16. ASSUME NEW u \in Users, CacheExpires(u) \/ Evict(u) PROVE TypeOK'
  BY <1>16, ConstantsAssumption DEF CacheExpires, Evict, Event, TypeOK
<1>17. CASE UNCHANGED vars
  BY <1>17 DEF vars, TypeOK
<1>. QED
  BY <1>1, <1>2, <1>3, <1>4, <1>5, <1>6, <1>7, <1>8, <1>9, <1>10, <1>11, <1>12,
     <1>13, <1>14, <1>15, <1>16, <1>17
  DEF Next, Change, Proceed, Resolve

\* The type invariant: transactions, writes to Redis, logins and evictions keep
\* roles, versions, requests, claims and cache entries well formed.
THEOREM TypeCorrect == Spec => []TypeOK
  BY TypeInit, TypeStep, PTL DEF Spec

-----------------------------------------------------------------------------
(* A version names its permissions                                         *)

Sound(u, c) == c.ver <= ver[u] /\ Names(u, c)

Reading(l) == lpc[l] \in {"ver", "perms"}

\* Why VersionNamesClaims is kept: a clean read has only roles the user still
\* holds left to look up, and a request about to commit knows every holder of
\* its role, but for those who came late.
NamesInv ==
    /\ \A l \in Logins : Sound(sub[l], read[l])
    /\ \A l \in Logins : Reading(l) /\ read[l].clean => left[l] \subseteq held[sub[l]]
    /\ \A l \in Logins : lpc[l] \in {"roles", "ver"} => read[l].perms = {}
    /\ \A u \in Users : cache[u] # NoClaims => Sound(u, cache[u])
    /\ \A q \in Requests : pc[q] \in {"update", "plain", "delete"} =>
          Holders(job[q].role) \subseteq snap[q] \cup late

LEMMA NamesInit == Init => NamesInv
<1>. SUFFICES ASSUME Init PROVE NamesInv
  OBVIOUS
<1>1. \A l \in Logins : sub[l] \in Users /\ ver[sub[l]] \in Nat /\ read[l] = Blank
  BY TypeInit DEF Init, TypeOK
<1>2. \A l \in Logins : Sound(sub[l], read[l])
  BY <1>1 DEF Sound, Names, Blank
<1>. QED  BY <1>2 DEF Init, NamesInv, Reading

\* Claims stay sound when versions only grow and a permission is only taken from
\* a user whose version grows or who came late.
LEMMA SoundKept ==
    ASSUME TypeOK, TypeOK',
           NEW u \in Users, NEW c \in ClaimSet, NEW d \in ClaimSet, Sound(u, c),
           d.ver = c.ver, d.perms = c.perms, d.clean => c.clean,
           ver[u] <= ver'[u], late \subseteq late',
           ver'[u] = ver[u] /\ u \notin late' => Granted(u) \subseteq Granted(u)'
    PROVE  Sound(u, d)'
<1>1. d.ver \in Nat /\ ver[u] \in Nat /\ ver'[u] \in Nat
  BY DEF TypeOK, ClaimSet
<1>2. d.ver <= ver'[u]
  BY <1>1 DEF Sound
<1>3. ASSUME d.clean, d.ver = ver'[u], u \notin late'
      PROVE  d.perms \subseteq Granted(u)'
  <2>1. ver'[u] = ver[u] /\ c.ver = ver[u]
    BY <1>1, <1>3 DEF Sound
  <2>. QED  BY <1>3, <2>1 DEF Sound, Names
<1>. QED  BY <1>2, <1>3 DEF Sound, Names

\* A commit keeps what NamesInv says of logins and cache entries, if it marks the
\* reads of those it takes roles from.
LEMMA ReadsKept ==
    ASSUME TypeOK, TypeOK', NamesInv, UNCHANGED <<lpc, sub, left, cache>>,
           late \subseteq late',
           \A u \in Users : ver[u] <= ver'[u],
           \A u \in Users :
              ver'[u] = ver[u] /\ u \notin late' => Granted(u) \subseteq Granted(u)',
           \A l \in Logins :
              /\ read'[l].ver = read[l].ver /\ read'[l].perms = read[l].perms
              /\ read'[l].clean => read[l].clean
              /\ Reading(l) /\ read'[l].clean => held[sub[l]] \subseteq held'[sub[l]]
    PROVE  /\ \A l \in Logins : Sound(sub[l], read[l])'
           /\ \A l \in Logins :
                 (Reading(l) /\ read[l].clean => left[l] \subseteq held[sub[l]])'
           /\ \A l \in Logins : (lpc[l] \in {"roles", "ver"} => read[l].perms = {})'
           /\ \A u \in Users : (cache[u] # NoClaims => Sound(u, cache[u]))'
<1>1. ASSUME NEW l \in Logins PROVE Sound(sub[l], read[l])'
  <2>1. sub[l] \in Users /\ read[l] \in ClaimSet /\ read'[l] \in ClaimSet
    BY DEF TypeOK
  <2>2. Sound(sub[l], read[l])
    BY DEF NamesInv
  <2>3. sub'[l] = sub[l]
    OBVIOUS
  <2>4. PICK u \in Users : u = sub[l]
    BY <2>1
  <2>5. PICK d \in ClaimSet : d = read'[l]
    BY <2>1
  <2>6. Sound(u, d)'
    BY <2>1, <2>2, <2>4, <2>5, SoundKept
  <2>. QED  BY <2>3, <2>4, <2>5, <2>6 DEF Sound, Names, Granted
<1>2. ASSUME NEW u \in Users, cache'[u] # NoClaims PROVE Sound(u, cache[u])'
  <2>1. PICK c \in ClaimSet : c = cache[u]
    BY <1>2 DEF TypeOK
  <2>2. Sound(u, c)
    BY <1>2, <2>1 DEF NamesInv
  <2>3. Sound(u, c)'
    BY <2>2, SoundKept
  <2>. QED  BY <2>1, <2>3 DEF Sound, Names, Granted
<1>3. ASSUME NEW l \in Logins
      PROVE  (Reading(l) /\ read[l].clean => left[l] \subseteq held[sub[l]])'
  BY DEF NamesInv, Reading
<1>4. ASSUME NEW l \in Logins PROVE (lpc[l] \in {"roles", "ver"} => read[l].perms = {})'
  BY DEF NamesInv
<1>. QED  BY <1>1, <1>2, <1>3, <1>4

\* What a change of user u's roles to S leaves true of the requests about to
\* commit, once those who come late are noted.
LEMMA HoldersKept ==
    ASSUME TypeOK, NamesInv, NEW q \in Requests, NEW us \in SUBSET Users,
           pc'[q] \in {"update", "plain", "delete"} => pc'[q] = pc[q],
           pc'[q] = pc[q] => job'[q] = job[q] /\ snap'[q] = snap[q],
           \A u \in Users \ us : held'[u] \subseteq held[u],
           \A u \in us : job[q].role \in held'[u] =>
              job[q].role \in held[u] \/ u \in snap[q] \/ u \in late'
              \/ pc[q] \notin {"update", "plain", "delete"},
           late \subseteq late'
    PROVE  (pc[q] \in {"update", "plain", "delete"} =>
              Holders(job[q].role) \subseteq snap[q] \cup late)'
<1>. SUFFICES ASSUME pc'[q] \in {"update", "plain", "delete"}, NEW u \in Users,
                     job'[q].role \in held'[u]
              PROVE  u \in snap'[q] \cup late'
  BY DEF Holders
<1>1. /\ pc[q] \in {"update", "plain", "delete"}
      /\ job'[q] = job[q] /\ snap'[q] = snap[q]
  OBVIOUS
<1>2. CASE job[q].role \in held[u]
  BY <1>1, <1>2 DEF NamesInv, Holders
<1>3. CASE job[q].role \notin held[u]
  BY <1>1, <1>3
<1>. QED  BY <1>2, <1>3

LEMMA VersionsAreNumbers == TypeOK => \A u \in Users : ver[u] \in Nat
  BY DEF TypeOK

LEMMA AssignDefaultRoleNames ==
    ASSUME TypeOK, TypeOK', NamesInv, NEW u \in Users, AssignDefaultRole(u)
    PROVE  NamesInv'
<1>. USE DEF admin, login, auth
<1>1. \A w \in Users : held[w] \subseteq held'[w] /\ ver[w] <= ver'[w]
  BY DEF AssignDefaultRole, TypeOK
<1>2. \A w \in Users : Granted(w) \subseteq Granted(w)'
  BY <1>1 DEF AssignDefaultRole, Granted
<1>3. \A l \in Logins : sub[l] \in Users
  BY DEF TypeOK
<1>4. late \subseteq late'
  BY DEF AssignDefaultRole
<1>5. UNCHANGED <<lpc, sub, left, read, cache, pc, job, snap>>
  BY DEF AssignDefaultRole
<1>6. ASSUME NEW q \in Requests
      PROVE  (pc[q] \in {"update", "plain", "delete"} =>
                Holders(job[q].role) \subseteq snap[q] \cup late)'
  <2>1. \A w \in Users \ {u} : held'[w] \subseteq held[w]
    BY DEF AssignDefaultRole, TypeOK
  <2>2. held'[u] = held[u] \cup {DefaultRole}
    BY DEF AssignDefaultRole, TypeOK
  <2>3. pc[q] \in {"update", "plain", "delete"} /\ job[q].role = DefaultRole
          => u \in snap[q] \/ u \in late'
    BY DEF AssignDefaultRole, ComesLate
  <2>. QED  BY <1>4, <1>5, <2>1, <2>2, <2>3, HoldersKept
<1>. QED  BY <1>1, <1>2, <1>3, <1>4, <1>5, <1>6, ReadsKept DEF NamesInv

\* The reads a commit marks.
LEMMA DisturbReads ==
    ASSUME TypeOK, NEW us, Disturb(us), NEW l \in Logins
    PROVE  /\ read'[l].ver = read[l].ver /\ read'[l].perms = read[l].perms
           /\ read'[l].clean => read[l].clean
           /\ Reading(l) /\ read'[l].clean => sub[l] \notin us
<1>1. read[l] \in ClaimSet
  BY DEF TypeOK
<1>2. read'[l] = IF sub[l] \in us /\ lpc[l] \in {"ver", "perms"}
                   THEN [read[l] EXCEPT !.clean = FALSE] ELSE read[l]
  BY DEF Disturb
<1>. QED  BY <1>1, <1>2 DEF ClaimSet, Reading

LEMMA SetUserRolesNames ==
    ASSUME TypeOK, TypeOK', NamesInv, NEW p \in Requests, NEW u \in Users,
           NEW S \in SUBSET Roles, SetUserRoles(p, u, S)
    PROVE  NamesInv'
<1>. USE DEF auth
<1>1. \A w \in Users \ {u} : held'[w] = held[w] /\ ver'[w] = ver[w]
  BY DEF SetUserRoles, Bumped, TypeOK
<1>2. held'[u] = S /\ ver'[u] = ver[u] + 1 /\ ver[u] \in Nat
  BY DEF SetUserRoles, Bumped, TypeOK
<1>3. \A w \in Users : ver[w] <= ver'[w]
  BY <1>1, <1>2, VersionsAreNumbers
<1>4. \A w \in Users : ver'[w] = ver[w] => Granted(w) \subseteq Granted(w)'
  BY <1>1, <1>2 DEF SetUserRoles, Granted
<1>5. late \subseteq late' /\ UNCHANGED <<lpc, sub, left, cache, job, snap>>
  BY DEF SetUserRoles
<1>6. ASSUME NEW l \in Logins
      PROVE  /\ read'[l].ver = read[l].ver /\ read'[l].perms = read[l].perms
             /\ read'[l].clean => read[l].clean
             /\ Reading(l) /\ read'[l].clean => held[sub[l]] \subseteq held'[sub[l]]
  <2>1. sub[l] \in Users /\ Disturb({u})
    BY DEF TypeOK, SetUserRoles
  <2>. QED  BY <1>1, <2>1, DisturbReads
<1>7. ASSUME NEW q \in Requests
      PROVE  (pc[q] \in {"update", "plain", "delete"} =>
                Holders(job[q].role) \subseteq snap[q] \cup late)'
  <2>1. pc'[q] \in {"update", "plain", "delete"} => pc'[q] = pc[q]
    BY DEF SetUserRoles, Goto, TypeOK
  <2>2. pc[q] \in {"update", "plain", "delete"} /\ job[q].role \in S
          => u \in snap[q] \/ u \in late'
    BY DEF SetUserRoles, ComesLate
  <2>. QED  BY <1>1, <1>2, <1>5, <2>1, <2>2, HoldersKept
<1>. QED  BY <1>3, <1>4, <1>5, <1>6, <1>7, ReadsKept DEF NamesInv

LEMMA CommitUpdateNames ==
    ASSUME TypeOK, TypeOK', NamesInv, NEW p \in Requests, CommitUpdate(p)
    PROVE  NamesInv'
<1>. USE DEF auth
<1>1. \A w \in Users : ver'[w] = IF w \in snap[p] THEN ver[w] + 1 ELSE ver[w]
  BY DEF CommitUpdate, Bumped
<1>2. \A w \in Users : ver[w] \in Nat /\ ver[w] <= ver'[w]
  BY <1>1, VersionsAreNumbers
<1>3. UNCHANGED <<lpc, sub, left, cache, job, snap, late, held>>
  BY DEF CommitUpdate
<1>4. ASSUME NEW w \in Users, ver'[w] = ver[w], w \notin late'
      PROVE  Granted(w) \subseteq Granted(w)'
  <2>1. w \notin snap[p]
    BY <1>1, <1>2, <1>4
  <2>2. job[p].role \notin held[w]
    BY <1>3, <1>4, <2>1 DEF NamesInv, CommitUpdate, Holders
  <2>3. \A r \in held[w] : role'[r] = role[r]
    BY <2>2 DEF CommitUpdate, TypeOK
  <2>. QED  BY <1>3, <2>3 DEF Granted
<1>5. ASSUME NEW l \in Logins
      PROVE  /\ read'[l].ver = read[l].ver /\ read'[l].perms = read[l].perms
             /\ read'[l].clean => read[l].clean
  BY DisturbReads DEF CommitUpdate
<1>6. ASSUME NEW q \in Requests
      PROVE  (pc[q] \in {"update", "plain", "delete"} =>
                Holders(job[q].role) \subseteq snap[q] \cup late)'
  <2>1. pc'[q] \in {"update", "plain", "delete"} => pc'[q] = pc[q]
    BY DEF CommitUpdate, Goto, TypeOK
  <2>. QED  BY <1>3, <2>1 DEF NamesInv, Holders
<1>. QED  BY <1>2, <1>3, <1>4, <1>5, <1>6, ReadsKept DEF NamesInv

LEMMA CommitDeleteNames ==
    ASSUME TypeOK, TypeOK', NamesInv, NEW p \in Requests, CommitDelete(p)
    PROVE  NamesInv'
<1>. USE DEF auth
<1>. DEFINE r == job[p].role
<1>1. \A w \in Users : ver'[w] = IF w \in snap[p] THEN ver[w] + 1 ELSE ver[w]
  BY DEF CommitDelete, Bumped
<1>2. \A w \in Users : ver[w] \in Nat /\ ver[w] <= ver'[w]
  BY <1>1, VersionsAreNumbers
<1>3. /\ UNCHANGED <<lpc, sub, left, cache, job, snap>>
      /\ late \subseteq late'
  BY DEF CommitDelete
<1>4. \A w \in Users : held'[w] = RolesAfter(p, w)
  BY DEF CommitDelete
<1>5. Holders(r) \subseteq snap[p] \cup late
  BY DEF NamesInv, CommitDelete
<1>6. ASSUME NEW w \in Users, ver'[w] = ver[w], w \notin late'
      PROVE  Granted(w) \subseteq Granted(w)'
  <2>1. w \notin snap[p]
    BY <1>1, <1>2, <1>6
  <2>2. r \notin held[w]
    BY <1>3, <1>5, <1>6, <2>1 DEF Holders
  <2>3. held'[w] = held[w]
    BY <1>4, <2>1, <2>2 DEF RolesAfter
  <2>4. \A x \in held[w] : role'[x] = role[x]
    BY <2>2 DEF CommitDelete, TypeOK
  <2>. QED  BY <2>3, <2>4 DEF Granted
<1>7. ASSUME NEW l \in Logins
      PROVE  /\ read'[l].ver = read[l].ver /\ read'[l].perms = read[l].perms
             /\ read'[l].clean => read[l].clean
             /\ Reading(l) /\ read'[l].clean => held[sub[l]] \subseteq held'[sub[l]]
  <2>1. Disturb(snap[p] \cup Holders(r)) /\ sub[l] \in Users
    BY DEF CommitDelete, TypeOK
  <2>2. ASSUME NEW w \in Users, w \notin snap[p] \cup Holders(r)
        PROVE  held'[w] = held[w]
    <3>1. r \notin held[w]
      BY <2>2 DEF Holders
    <3>2. RolesAfter(p, w) = held[w]
      BY <2>2, <3>1 DEF RolesAfter
    <3>. QED  BY <1>4, <3>2
  <2>. QED  BY <2>1, <2>2, DisturbReads
<1>8. ASSUME NEW q \in Requests
      PROVE  (pc[q] \in {"update", "plain", "delete"} =>
                Holders(job[q].role) \subseteq snap[q] \cup late)'
  <2>1. pc'[q] \in {"update", "plain", "delete"} => pc'[q] = pc[q]
    BY DEF CommitDelete, Goto, TypeOK
  <2>2. \A w \in Users \ snap[p] : held'[w] \subseteq held[w]
    BY <1>4 DEF RolesAfter
  <2>3. ASSUME NEW w \in snap[p], job[q].role \in held'[w],
               pc[q] \in {"update", "plain", "delete"}
        PROVE  job[q].role \in held[w] \/ w \in snap[q] \/ w \in late'
    <3>1. w \in Users
      BY DEF TypeOK
    <3>2. job[q].role \in held[w] \/ job[q].role = job[p].fallback
      BY <1>4, <2>3, <3>1 DEF RolesAfter
    <3>3. job[q].role = job[p].fallback => w \in snap[q] \/ w \in late'
      BY <2>3, <3>1 DEF CommitDelete, ComesLate
    <3>. QED  BY <3>2, <3>3
  <2>4. snap[p] \in SUBSET Users
    BY DEF TypeOK
  <2>. QED  BY <1>3, <2>1, <2>2, <2>3, <2>4, HoldersKept
<1>. QED  BY <1>2, <1>3, <1>6, <1>7, <1>8, ReadsKept DEF NamesInv

\* A step of a request that commits nothing.
LEMMA RequestStepNames ==
    ASSUME TypeOK, NamesInv, UNCHANGED <<rbac, login, auth, late>>,
           \A q \in Requests : pc'[q] \in {"update", "plain", "delete"} =>
              \/ pc'[q] = pc[q] /\ job'[q] = job[q] /\ snap'[q] = snap[q]
              \/ Holders(job'[q].role) \subseteq snap'[q]
    PROVE  NamesInv'
<1>1. UNCHANGED <<held, ver, role, late, lpc, sub, left, read, cache>>
  BY DEF rbac, login, auth
<1>2. \A q \in Requests : (pc[q] \in {"update", "plain", "delete"} =>
                Holders(job[q].role) \subseteq snap[q] \cup late)'
  BY <1>1 DEF NamesInv, Holders
<1>. QED  BY <1>1, <1>2 DEF NamesInv, Sound, Names, Granted, Reading

LEMMA RequestNames ==
    ASSUME TypeOK, NamesInv, NEW q \in Requests,
           \/ \E r \in Roles, P \in SUBSET Perms : UpdateRole(q, r, P)
           \/ \E r \in Roles, f \in Roles \cup {NoRole} : DeleteRole(q, r, f)
           \/ MoveUsers(q) \/ Rollback(q) \/ LoadVersions(q) \/ Return(q) \/ Abandon(q)
           \/ \E u \in Users : LoadVersion(q, u)
           \/ \E p \in todo[q] : WriteVersion(q, p) \/ FailWrite(q, p)
    PROVE  NamesInv'
<1>. USE DEF history
<1>1. ASSUME NEW r \in Roles, NEW P \in SUBSET Perms, UpdateRole(q, r, P)
      PROVE  NamesInv'
  BY <1>1, RequestStepNames DEF UpdateRole, Goto, TypeOK
<1>2. ASSUME NEW r \in Roles, NEW f \in Roles \cup {NoRole}, DeleteRole(q, r, f)
      PROVE  NamesInv'
  BY <1>2, RequestStepNames DEF DeleteRole, Goto, TypeOK
<1>3. CASE MoveUsers(q)
  BY <1>3, RequestStepNames DEF MoveUsers, Goto, TypeOK
<1>4. CASE Rollback(q) \/ Return(q)
  BY <1>4, RequestStepNames DEF Rollback, Return, Answer, Goto, TypeOK
<1>5. CASE Abandon(q)
  BY <1>5, RequestStepNames DEF Abandon, Answer, Goto, TypeOK
<1>6. CASE LoadVersions(q)
  BY <1>6, RequestStepNames DEF LoadVersions, Goto, TypeOK
<1>7. ASSUME NEW u \in Users, LoadVersion(q, u) PROVE NamesInv'
  BY <1>7, RequestStepNames DEF LoadVersion, TypeOK
<1>8. ASSUME NEW p \in todo[q], WriteVersion(q, p) \/ FailWrite(q, p) PROVE NamesInv'
  BY <1>8, RequestStepNames DEF WriteVersion, FailWrite, TypeOK
<1>. QED  BY <1>1, <1>2, <1>3, <1>4, <1>5, <1>6, <1>7, <1>8

\* A step of one login.
LEMMA LoginStepNames ==
    ASSUME TypeOK, NamesInv, NEW k \in Logins,
           UNCHANGED <<rbac, admin, late>>,
           \A l \in Logins \ {k} :
              UNCHANGED <<lpc[l], sub[l], left[l], read[l]>>,
           Sound(sub'[k], read'[k]),
           lpc'[k] \in {"ver", "perms"} /\ read'[k].clean
              => left'[k] \subseteq held[sub'[k]],
           lpc'[k] \in {"roles", "ver"} => read'[k].perms = {},
           \A u \in Users : cache'[u] # NoClaims => Sound(u, cache'[u])
    PROVE  NamesInv'
<1>1. UNCHANGED <<held, ver, role, late, pc, job, snap>>
  BY DEF rbac, admin
<1>2. ASSUME NEW u, NEW c, Sound(u, c) PROVE Sound(u, c)'
  BY <1>1, <1>2 DEF Sound, Names, Granted
<1>3. ASSUME NEW l \in Logins PROVE Sound(sub[l], read[l])'
  <2>1. Sound(sub'[l], read'[l])
    BY DEF NamesInv
  <2>. QED  BY <1>1, <2>1 DEF Sound, Names, Granted
<1>4. ASSUME NEW u \in Users, cache'[u] # NoClaims PROVE Sound(u, cache[u])'
  <2>1. Sound(u, cache'[u])
    BY <1>4
  <2>. QED  BY <1>1, <2>1 DEF Sound, Names, Granted
<1>. QED  BY <1>1, <1>3, <1>4 DEF NamesInv, Reading, Holders

LEMMA LoginNames ==
    ASSUME TypeOK, NamesInv, NEW l \in Logins, Resolve(l)
    PROVE  NamesInv'
<1>. USE DEF auth, history
<1>1. /\ sub[l] \in Users /\ read[l] \in ClaimSet /\ Sound(sub[l], read[l])
      /\ ver[sub[l]] \in Nat
  BY DEF NamesInv, TypeOK
<1>2. ASSUME NEW u \in Users PROVE Sound(u, Blank)
  BY <1>2, VersionsAreNumbers DEF Sound, Names, Blank
<1>3. ASSUME NEW u \in Users, BeginLogin(l, u) PROVE NamesInv'
  <2>1. /\ UNCHANGED <<rbac, admin, late, left, cache>>
        /\ sub'[l] = u /\ lpc'[l] \in {"roles", "signed"}
        /\ \A k \in Logins \ {l} : UNCHANGED <<lpc[k], sub[k], read[k]>>
    BY <1>3 DEF BeginLogin, TypeOK
  <2>2. CASE u \in fresh
    <3>1. cache[u] # NoClaims
      BY <2>2, ConstantsAssumption DEF TypeOK
    <3>2. Sound(u, cache[u])
      BY <3>1 DEF NamesInv
    <3>3. read'[l] = cache[u] /\ lpc'[l] = "signed"
      BY <1>3, <2>2 DEF BeginLogin, TypeOK
    <3>. QED  BY <2>1, <3>2, <3>3, LoginStepNames DEF NamesInv
  <2>3. CASE u \notin fresh
    <3>1. read'[l] = Blank /\ lpc'[l] = "roles"
      BY <1>3, <2>3 DEF BeginLogin, TypeOK
    <3>2. Blank.perms = {}
      BY DEF Blank
    <3>. QED  BY <1>2, <2>1, <3>1, <3>2, LoginStepNames DEF NamesInv
  <2>. QED  BY <2>2, <2>3
<1>4. ASSUME NEW u \in Users, ResolveFails(l, u) PROVE NamesInv'
  BY <1>2, <1>4, LoginStepNames DEF ResolveFails, TypeOK, NamesInv
<1>5. CASE ReadRoles(l)
  <2>1. /\ UNCHANGED <<rbac, admin, late, sub, read, cache>>
        /\ left'[l] = held[sub[l]] /\ lpc'[l] = "ver" /\ lpc[l] = "roles"
        /\ \A k \in Logins \ {l} : UNCHANGED <<lpc[k], left[k]>>
    BY <1>5 DEF ReadRoles, TypeOK
  <2>2. read[l].perms = {}
    BY <2>1 DEF NamesInv
  <2>3. \A u \in Users : cache'[u] # NoClaims => Sound(u, cache'[u])
    BY <2>1 DEF NamesInv
  <2>. QED  BY <1>1, <2>1, <2>2, <2>3, LoginStepNames
<1>6. CASE ReadVersion(l)
  <2>1. /\ UNCHANGED <<rbac, admin, late, sub, left, cache>>
        /\ lpc'[l] = "perms" /\ lpc[l] = "ver"
        /\ \A k \in Logins \ {l} : UNCHANGED <<lpc[k], read[k]>>
    BY <1>6 DEF ReadVersion, TypeOK
  <2>2. /\ read'[l].ver = ver[sub[l]] /\ read'[l].perms = read[l].perms
        /\ read'[l].clean = read[l].clean
    BY <1>1, <1>6 DEF ReadVersion, TypeOK, ClaimSet
  <2>3. Sound(sub'[l], read'[l])
    BY <1>1, <2>1, <2>2 DEF NamesInv, Sound, Names
  <2>4. read[l].clean => left[l] \subseteq held[sub[l]]
    BY <2>1 DEF NamesInv, Reading
  <2>5. \A u \in Users : cache'[u] # NoClaims => Sound(u, cache'[u])
    BY <2>1 DEF NamesInv
  <2>. QED  BY <2>1, <2>2, <2>3, <2>4, <2>5, LoginStepNames
<1>7. ASSUME NEW r \in Roles, ReadPerms(l, r) PROVE NamesInv'
  <2>1. /\ read'[l].perms = read[l].perms \cup role[r] /\ read'[l].ver = read[l].ver
        /\ read'[l].clean = read[l].clean /\ left'[l] \subseteq left[l]
        /\ lpc'[l] = "perms" /\ lpc[l] = "perms" /\ r \in left[l]
        /\ sub'[l] = sub[l]
    BY <1>1, <1>7 DEF ReadPerms, TypeOK, ClaimSet
  <2>2. read[l].clean => left[l] \subseteq held[sub[l]]
    BY <2>1 DEF NamesInv, Reading
  <2>3. read[l].clean => role[r] \subseteq Granted(sub[l])
    BY <2>1, <2>2 DEF Granted
  <2>4. Sound(sub'[l], read'[l])
    BY <1>1, <2>1, <2>3 DEF Sound, Names
  <2>5. /\ UNCHANGED <<rbac, admin, late, cache>>
        /\ \A k \in Logins \ {l} : UNCHANGED <<lpc[k], sub[k], left[k], read[k]>>
    BY <1>7 DEF ReadPerms, TypeOK
  <2>6. \A u \in Users : cache'[u] # NoClaims => Sound(u, cache'[u])
    BY <2>5 DEF NamesInv
  <2>. QED  BY <2>1, <2>2, <2>4, <2>5, <2>6, LoginStepNames
<1>8. CASE StoreClaims(l)
  <2>1. /\ UNCHANGED <<rbac, admin, late, sub, left, read>>
        /\ lpc'[l] = "signed"
        /\ \A k \in Logins \ {l} : UNCHANGED lpc[k]
    BY <1>8 DEF StoreClaims, TypeOK
  <2>2. \A u \in Users : cache'[u] # NoClaims => Sound(u, cache'[u])
    BY <1>1, <1>8 DEF StoreClaims, TypeOK, NamesInv
  <2>. QED  BY <1>1, <2>1, <2>2, LoginStepNames
<1>. QED  BY <1>3, <1>4, <1>5, <1>6, <1>7, <1>8 DEF Resolve

\* Cache entries that stay or go change nothing of what versions name.
LEMMA ForgettingKeepsNames ==
    ASSUME NamesInv,
           UNCHANGED <<role, held, ver, pc, job, snap, lpc, sub, left, read, late>>,
           \A w \in Users : cache'[w] \in {cache[w], NoClaims}
    PROVE  NamesInv'
<1>1. \A l \in Logins : Sound(sub[l], read[l])'
  BY DEF NamesInv, Sound, Names, Granted
<1>2. \A u \in Users : cache'[u] # NoClaims => Sound(u, cache[u])'
  BY DEF NamesInv, Sound, Names, Granted
<1>3. \A q \in Requests : pc'[q] \in {"update", "plain", "delete"} =>
          Holders(job[q].role)' \subseteq snap'[q] \cup late'
  BY DEF NamesInv, Holders
<1>4. \A l \in Logins : (Reading(l) /\ read[l].clean => left[l] \subseteq held[sub[l]])'
  BY DEF NamesInv, Reading
<1>5. \A l \in Logins : (lpc[l] \in {"roles", "ver"} => read[l].perms = {})'
  BY DEF NamesInv
<1>. QED  BY <1>1, <1>2, <1>3, <1>4, <1>5 DEF NamesInv

LEMMA NamesStep == TypeOK /\ TypeOK' /\ NamesInv /\ [Next]_vars => NamesInv'
<1>. SUFFICES ASSUME TypeOK, TypeOK', NamesInv, [Next]_vars PROVE NamesInv'
  OBVIOUS
<1>1. ASSUME NEW u \in Users, CacheExpires(u) \/ Evict(u) PROVE NamesInv'
  <2>1. /\ UNCHANGED <<role, held, ver, pc, job, snap, lpc, sub, left, read, late>>
        /\ \A w \in Users : cache'[w] \in {cache[w], NoClaims}
    BY <1>1 DEF CacheExpires, Evict, rbac, admin, login, history, TypeOK
  <2>. QED  BY <2>1, ForgettingKeepsNames
<1>2. CASE UNCHANGED vars
  <2>1. /\ UNCHANGED <<role, held, ver, pc, job, snap, lpc, sub, left, read, late>>
        /\ \A w \in Users : cache'[w] \in {cache[w], NoClaims}
    BY <1>2 DEF vars
  <2>. QED  BY <2>1, ForgettingKeepsNames
<1>. QED
  BY <1>1, <1>2, AssignDefaultRoleNames, SetUserRolesNames, CommitUpdateNames,
     CommitDeleteNames, RequestNames, LoginNames
  DEF Next, Change, Proceed

\* A version names its permissions, for any number of requests, logins, roles and
\* failures: what a clean token or cache entry carries is granted as long as its
\* version is the user's.
THEOREM VersionsNameClaims == Spec => []VersionNamesClaims
<1>1. NamesInv => VersionNamesClaims
  BY DEF NamesInv, VersionNamesClaims, Sound
<1>. QED  BY <1>1, TypeInit, TypeStep, NamesInit, NamesStep, PTL DEF Spec

-----------------------------------------------------------------------------
(* The gateway refuses what has been taken away                            *)

\* Request q will still write the version of a change that took something from u.
Carries(q, u) ==
    \/ pc[q] = "load" /\ u \in snap[q] /\ job[q].role \in held[u]
    \/ pc[q] = "each" /\ u \in snap[q]
    \/ \E v \in Nat : <<u, v>> \in todo[q]

\* What the gateway lets through of user u is granted.
Current(u, c) == c.clean /\ redis[u] <= c.ver => c.perms \subseteq Granted(u)

\* No commit, crossing write or failure is in the way of u's version in Redis.
Settled(u) ==
    u \notin late \cup crossed \cup lost /\ \A q \in Requests : ~Carries(q, u)

\* A version is on its way only after a commit, and is the latest unless two
\* requests crossed.
WritesInv ==
    /\ \A q \in Requests : pc[q] \notin {"each", "write"} => todo[q] = {}
    /\ \A q \in Requests, u \in Users, v \in Nat :
          <<u, v>> \in todo[q] /\ u \notin crossed => v = ver[u]

\* Without a version row a user has no roles, and none is read or written.
ZeroInv ==
    /\ \A u \in Users : ver[u] = 0 => held[u] = {}
    /\ \A q \in Requests, u \in Users : u \in snap[q] => ver[u] # 0
    /\ \A q \in Requests, u \in Users, v \in Nat : <<u, v>> \in todo[q] => ver[u] # 0
    /\ \A l \in Logins : lpc[l] = "ver" /\ ver[sub[l]] = 0 => left[l] = {}
    /\ \A l \in Logins : lpc[l] = "perms" /\ read[l].ver = 0 =>
          left[l] = {} /\ read[l].perms = {}

\* A clean read carries the version the user has now, or none.
InStep(l) == lpc[l] = "perms" /\ read[l].clean => read[l].ver \in {ver[sub[l]], 0}

StaleInv ==
    /\ WritesInv
    /\ ZeroInv
    /\ \A l \in Logins : InStep(l)
    /\ \A l \in Logins : lpc[l] = "signed" /\ Settled(sub[l]) => Current(sub[l], read[l])
    /\ \A u \in Users : cache[u] # NoClaims /\ Settled(u) => Current(u, cache[u])

LEMMA StaleInit == Init => StaleInv
<1>. SUFFICES ASSUME Init PROVE StaleInv
  OBVIOUS
<1>1. WritesInv
  BY DEF Init, WritesInv
<1>2. \A u \in Users : ver[u] = 0 => held[u] = {}
  BY DEF Init
<1>3. ZeroInv
  BY <1>2 DEF Init, ZeroInv
<1>. QED  BY <1>1, <1>3 DEF Init, StaleInv, InStep

-----------------------------------------------------------------------------
(* Versions on their way: what each step does to them. *)

\* A request that owes a version of a user crosses whoever commits another one.
LEMMA OthersCross ==
    ASSUME TypeOK, WritesInv, NEW q \in Requests, NEW b \in Requests \ {q},
           NEW u \in Users, NEW v \in Nat, <<u, v>> \in todo[b]
    PROVE  Crosses(q, u)
<1>1. pc[b] \in {"each", "write"} /\ <<u, v>>[1] = u
  BY DEF WritesInv
<1>. QED  BY <1>1 DEF Crosses, Owes

\* Requests that keep what they have still to write, or have less of it.
LEMMA FewerWrites ==
    ASSUME WritesInv, NEW q \in Requests,
           \A b \in Requests \ {q} : pc'[b] = pc[b] /\ todo'[b] = todo[b],
           pc'[q] \in {"each", "write"} \/ todo'[q] = {},
           todo'[q] \subseteq todo[q], crossed \subseteq crossed',
           \A u \in Users, v \in Nat, b \in Requests :
              <<u, v>> \in todo[b] /\ u \notin crossed' => ver'[u] = ver[u]
    PROVE  WritesInv'
<1>1. \A b \in Requests : pc'[b] \notin {"each", "write"} => todo'[b] = {}
  BY DEF WritesInv
<1>2. ASSUME NEW b \in Requests, NEW u \in Users, NEW v \in Nat,
             <<u, v>> \in todo'[b], u \notin crossed'
      PROVE  v = ver'[u]
  <2>1. <<u, v>> \in todo[b] /\ u \notin crossed
    BY <1>2
  <2>. QED  BY <1>2, <2>1 DEF WritesInv
<1>. QED  BY <1>1, <1>2 DEF WritesInv

LEMMA AssignDefaultRoleWrites ==
    ASSUME TypeOK, WritesInv, ZeroInv, NEW w \in Users, AssignDefaultRole(w)
    PROVE  WritesInv'
<1>1. UNCHANGED <<pc, todo, crossed>>
  BY DEF AssignDefaultRole, admin
<1>2. \A u \in Users : ver[u] # 0 => ver'[u] = ver[u]
  BY DEF AssignDefaultRole, TypeOK
<1>3. \A u \in Users, v \in Nat, b \in Requests : <<u, v>> \in todo[b] => ver'[u] = ver[u]
  BY <1>2 DEF ZeroInv
<1>. QED  BY <1>1, <1>3 DEF WritesInv

LEMMA SetUserRolesWrites ==
    ASSUME TypeOK, WritesInv, NEW q \in Requests, NEW w \in Users,
           NEW S \in SUBSET Roles, SetUserRoles(q, w, S)
    PROVE  WritesInv'
<1>1. /\ \A b \in Requests \ {q} : pc'[b] = pc[b] /\ todo'[b] = todo[b]
      /\ pc'[q] = "write" /\ todo'[q] = {<<w, ver[w] + 1>>}
      /\ crossed' = crossed \cup {x \in {w} : Crosses(q, x)}
  BY DEF SetUserRoles, Goto, TypeOK
<1>2. /\ \A u \in Users \ {w} : ver'[u] = ver[u]
      /\ ver'[w] = ver[w] + 1
  BY DEF SetUserRoles, Bumped
<1>3. \A b \in Requests : pc'[b] \notin {"each", "write"} => todo'[b] = {}
  BY <1>1 DEF WritesInv
<1>4. ASSUME NEW b \in Requests, NEW u \in Users, NEW v \in Nat,
             <<u, v>> \in todo'[b], u \notin crossed'
      PROVE  v = ver'[u]
  <2>1. CASE b = q
    BY <1>1, <1>2, <1>4, <2>1
  <2>2. CASE b # q
    <3>1. <<u, v>> \in todo[b] /\ u \notin crossed
      BY <1>1, <1>4, <2>2
    <3>2. v = ver[u] /\ Crosses(q, u)
      BY <2>2, <3>1, OthersCross DEF WritesInv
    <3>. QED  BY <1>1, <1>2, <1>4, <3>2
  <2>. QED  BY <2>1, <2>2
<1>. QED  BY <1>3, <1>4 DEF WritesInv

\* A commit of request q raises the versions of its users: whoever has one of
\* theirs still to write is crossed.
LEMMA CommitWrites ==
    ASSUME TypeOK, WritesInv, NEW q \in Requests, CommitUpdate(q) \/ CommitDelete(q)
    PROVE  WritesInv'
<1>1. /\ \A b \in Requests \ {q} : pc'[b] = pc[b] /\ todo'[b] = todo[b]
      /\ todo'[q] = {}
      /\ crossed' = crossed \cup {u \in snap[q] : Crosses(q, u)}
  BY DEF CommitUpdate, CommitDelete, Goto, TypeOK, WritesInv
<1>2. \A u \in Users : u \notin snap[q] => ver'[u] = ver[u]
  BY DEF CommitUpdate, CommitDelete, Bumped
<1>3. \A u \in Users, v \in Nat, b \in Requests :
         <<u, v>> \in todo[b] /\ u \notin crossed' => ver'[u] = ver[u]
  <2>. SUFFICES ASSUME NEW u \in Users, NEW v \in Nat, NEW b \in Requests,
                       <<u, v>> \in todo[b], u \notin crossed'
                PROVE  ver'[u] = ver[u]
    OBVIOUS
  <2>1. b # q
    BY DEF CommitUpdate, CommitDelete, WritesInv
  <2>2. Crosses(q, u)
    BY <2>1, OthersCross
  <2>. QED  BY <1>1, <1>2, <2>2
<1>4. todo'[q] \subseteq todo[q] /\ crossed \subseteq crossed'
  BY <1>1
<1>. QED  BY <1>1, <1>3, <1>4, FewerWrites

LEMMA RequestWrites ==
    ASSUME TypeOK, WritesInv, NEW q \in Requests,
           \/ \E r \in Roles, P \in SUBSET Perms : UpdateRole(q, r, P)
           \/ \E r \in Roles, f \in Roles \cup {NoRole} : DeleteRole(q, r, f)
           \/ MoveUsers(q) \/ Rollback(q) \/ LoadVersions(q) \/ Return(q) \/ Abandon(q)
           \/ \E u \in Users : LoadVersion(q, u)
           \/ \E p \in todo[q] : WriteVersion(q, p) \/ FailWrite(q, p)
    PROVE  WritesInv'
<1>. USE DEF rbac, history
<1>0. UNCHANGED <<ver, crossed>>
  BY DEF UpdateRole, DeleteRole, MoveUsers, Rollback, LoadVersions, Return, Abandon,
         LoadVersion, WriteVersion, FailWrite
<1>1. \A b \in Requests \ {q} : pc'[b] = pc[b] /\ todo'[b] = todo[b]
  BY DEF UpdateRole, DeleteRole, MoveUsers, Rollback, LoadVersions, Return, Abandon,
         LoadVersion, WriteVersion, FailWrite, Answer, Goto, TypeOK
<1>2. CASE \E u \in Users : LoadVersion(q, u)
  <2>1. PICK w \in Users : LoadVersion(q, w)
    BY <1>2
  <2>2. pc'[q] = "each" /\ todo'[q] = {<<w, ver[w]>>}
    BY <2>1 DEF LoadVersion, TypeOK
  <2>3. \A b \in Requests : pc'[b] \notin {"each", "write"} => todo'[b] = {}
    BY <1>1, <2>2 DEF WritesInv
  <2>4. \A b \in Requests, u \in Users, v \in Nat :
           <<u, v>> \in todo'[b] /\ u \notin crossed => v = ver[u]
    BY <1>1, <2>2 DEF WritesInv
  <2>. QED  BY <1>0, <2>3, <2>4 DEF WritesInv
<1>3. CASE LoadVersions(q)
  <2>2. /\ pc'[q] = "write"
        /\ todo'[q] = {<<u, ver[u]>> : u \in Holders(job[q].role)}
    BY <1>3 DEF LoadVersions, Goto, TypeOK
  <2>3. \A b \in Requests : pc'[b] \notin {"each", "write"} => todo'[b] = {}
    BY <1>1, <2>2 DEF WritesInv
  <2>4. \A b \in Requests, u \in Users, v \in Nat :
           <<u, v>> \in todo'[b] /\ u \notin crossed => v = ver[u]
    BY <1>1, <2>2 DEF WritesInv
  <2>. QED  BY <1>0, <2>3, <2>4 DEF WritesInv
<1>4. CASE \E p \in todo[q] : WriteVersion(q, p) \/ FailWrite(q, p)
  <2>1. todo'[q] \subseteq todo[q] /\ pc'[q] = pc[q]
    BY <1>4 DEF WriteVersion, FailWrite, TypeOK
  <2>2. pc[q] \in {"each", "write"}
    BY <1>4 DEF WritesInv
  <2>. QED  BY <1>0, <1>1, <2>1, <2>2, FewerWrites
<1>5. CASE \/ \E r \in Roles, P \in SUBSET Perms : UpdateRole(q, r, P)
           \/ \E r \in Roles, f \in Roles \cup {NoRole} : DeleteRole(q, r, f)
           \/ MoveUsers(q)
  <2>1. todo'[q] = todo[q] /\ pc[q] \notin {"each", "write"}
    BY <1>5 DEF UpdateRole, DeleteRole, MoveUsers
  <2>2. todo'[q] = {}
    BY <2>1 DEF WritesInv
  <2>. QED  BY <1>0, <1>1, <2>2, FewerWrites
<1>6. CASE Rollback(q) \/ Return(q) \/ Abandon(q)
  <2>1. todo'[q] = {}
    BY <1>6 DEF Rollback, Return, Abandon, Answer, TypeOK
  <2>. QED  BY <1>0, <1>1, <2>1, FewerWrites
<1>. QED  BY <1>2, <1>3, <1>4, <1>5, <1>6

\* Every step keeps what is said of the writes.
LEMMA WritesStep ==
    ASSUME TypeOK, WritesInv, ZeroInv, [Next]_vars
    PROVE  WritesInv'
<1>1. CASE UNCHANGED <<rbac, redis, admin, history>>
  BY <1>1 DEF rbac, admin, history, WritesInv
<1>2. UNCHANGED vars => UNCHANGED <<rbac, redis, admin, history>>
  BY DEF vars, rbac, admin, history
<1>3. (\E l \in Logins : Resolve(l)) => UNCHANGED <<rbac, redis, admin, history>>
  BY DEF Resolve, BeginLogin, ResolveFails, ReadRoles, ReadVersion, StoreClaims, ReadPerms,
         history
<1>4. (\E u \in Users : CacheExpires(u) \/ Evict(u))
         => UNCHANGED <<rbac, redis, admin, history>>
  BY DEF CacheExpires, Evict, history
<1>. QED
  BY <1>1, <1>2, <1>3, <1>4, AssignDefaultRoleWrites, SetUserRolesWrites, CommitWrites,
     RequestWrites
  DEF Next, Change, Proceed

-----------------------------------------------------------------------------
(* Version 0 and versions that move under a read. *)

LEMMA VersionsGrow ==
    ASSUME TypeOK, [Next]_vars
    PROVE  \A u \in Users : ver[u] # 0 => ver'[u] # 0
<1>1. UNCHANGED ver => \A u \in Users : ver[u] # 0 => ver'[u] # 0
  OBVIOUS
<1>2. ASSUME NEW us, ver' = Bumped(us) PROVE \A u \in Users : ver[u] # 0 => ver'[u] # 0
  BY <1>2 DEF Bumped, TypeOK
<1>3. ASSUME NEW w \in Users, AssignDefaultRole(w)
      PROVE  \A u \in Users : ver[u] # 0 => ver'[u] # 0
  BY <1>3 DEF AssignDefaultRole, TypeOK
<1>. QED
  BY <1>1, <1>2, <1>3
  DEF Next, Change, Proceed, Resolve, UpdateRole, DeleteRole, MoveUsers, Rollback,
      LoadVersions, Return, Abandon, LoadVersion, WriteVersion, FailWrite, SetUserRoles,
      CommitUpdate, CommitDelete, BeginLogin, ResolveFails, ReadRoles, ReadVersion,
      StoreClaims, ReadPerms, CacheExpires, Evict, rbac, vars

\* Who holds a role has a version.
HoldersHaveVersions == \A u \in Users : ver[u] = 0 => held[u] = {}

LEMMA HoldersStep ==
    ASSUME TypeOK, TypeOK', ZeroInv, [Next]_vars
    PROVE  HoldersHaveVersions'
<1>1. CASE UNCHANGED <<held, ver>>
  BY <1>1 DEF ZeroInv, HoldersHaveVersions
<1>2. ASSUME NEW w \in Users, AssignDefaultRole(w) PROVE HoldersHaveVersions'
  BY <1>2 DEF AssignDefaultRole, TypeOK, ZeroInv, HoldersHaveVersions
<1>3. ASSUME NEW q \in Requests, NEW w \in Users, NEW S \in SUBSET Roles,
             SetUserRoles(q, w, S)
      PROVE  HoldersHaveVersions'
  BY <1>3 DEF SetUserRoles, Bumped, TypeOK, ZeroInv, HoldersHaveVersions
<1>4. ASSUME NEW q \in Requests, CommitUpdate(q) PROVE HoldersHaveVersions'
  BY <1>4 DEF CommitUpdate, Bumped, TypeOK, ZeroInv, HoldersHaveVersions
<1>5. ASSUME NEW q \in Requests, CommitDelete(q) PROVE HoldersHaveVersions'
  <2>1. \A u \in Users : held'[u] = RolesAfter(q, u)
    BY <1>5 DEF CommitDelete
  <2>2. \A u \in Users : ver'[u] = IF u \in snap[q] THEN ver[u] + 1 ELSE ver[u]
    BY <1>5 DEF CommitDelete, Bumped
  <2>. SUFFICES ASSUME NEW u \in Users, ver'[u] = 0 PROVE held'[u] = {}
    BY DEF HoldersHaveVersions
  <2>3. u \notin snap[q] /\ ver[u] = 0
    BY <2>2, VersionsAreNumbers
  <2>4. held[u] = {}
    BY <2>3 DEF ZeroInv
  <2>. QED  BY <2>1, <2>3, <2>4 DEF RolesAfter
<1>6. UNCHANGED vars => UNCHANGED <<held, ver>>
  BY DEF vars
<1>. QED
  BY <1>1, <1>2, <1>3, <1>4, <1>5, <1>6
  DEF Next, Change, Proceed, Resolve, UpdateRole, DeleteRole, MoveUsers, Rollback,
      LoadVersions, Return, Abandon, LoadVersion, WriteVersion, FailWrite,
      BeginLogin, ResolveFails, ReadRoles, ReadVersion,
      StoreClaims, ReadPerms, CacheExpires, Evict, rbac

\* The users a request has read, and those it has still to write: what a step adds
\* are users who hold a role or get a version.
SnapHaveVersions == \A q \in Requests, u \in Users : u \in snap[q] => ver[u] # 0
TodoHaveVersions ==
    \A q \in Requests, u \in Users, v \in Nat : <<u, v>> \in todo[q] => ver[u] # 0

LEMMA SnapStep ==
    ASSUME TypeOK, ZeroInv, [Next]_vars
    PROVE  SnapHaveVersions'
<1>. DEFINE Kept == \A q \in Requests :
                snap'[q] \subseteq snap[q] \/ snap'[q] \subseteq {u \in Users : held[u] # {}}
<1>1. Kept
  <2>1. ASSUME NEW q \in Requests, NEW r \in Roles, NEW P \in SUBSET Perms,
               UpdateRole(q, r, P)
        PROVE  Kept
    BY <2>1 DEF UpdateRole, Holders, TypeOK
  <2>2. ASSUME NEW q \in Requests, MoveUsers(q) PROVE Kept
    BY <2>2 DEF MoveUsers, Holders, TypeOK
  <2>3. UNCHANGED snap => Kept
    OBVIOUS
  <2>4. ASSUME NEW q \in Requests, Answer(q) PROVE Kept
    BY <2>4 DEF Answer, TypeOK
  <2>5. ASSUME NEW q \in Requests, LoadVersions(q) PROVE Kept
    BY <2>5 DEF LoadVersions, TypeOK
  <2>6. ASSUME NEW q \in Requests, NEW w \in Users, LoadVersion(q, w) PROVE Kept
    BY <2>6 DEF LoadVersion, TypeOK
  <2>7. ASSUME NEW q \in Requests, NEW r \in Roles, NEW f \in Roles \cup {NoRole},
               DeleteRole(q, r, f)
        PROVE  Kept
    BY <2>7 DEF DeleteRole, TypeOK
  <2>. QED
    BY <2>1, <2>2, <2>3, <2>4, <2>5, <2>6, <2>7
    DEF Next, Change, Proceed, Resolve, Rollback, Return, Abandon, WriteVersion, FailWrite,
        AssignDefaultRole, SetUserRoles, CommitUpdate, CommitDelete, BeginLogin,
        ResolveFails, ReadRoles, ReadVersion, StoreClaims, ReadPerms, CacheExpires, Evict,
        admin, vars
<1>2. \A u \in Users : held[u] # {} => ver[u] # 0
  BY DEF ZeroInv
<1>3. \A q \in Requests, u \in Users : u \in snap[q] => ver[u] # 0
  BY DEF ZeroInv
<1>. QED  BY <1>1, <1>2, <1>3, VersionsGrow DEF SnapHaveVersions

LEMMA TodoStep ==
    ASSUME TypeOK, ZeroInv, [Next]_vars
    PROVE  TodoHaveVersions'
<1>. DEFINE Kept(q) == \A u \in Users, v \in Nat :
                <<u, v>> \in todo'[q] => <<u, v>> \in todo[q] \/ ver'[u] # 0
<1>0. \A u \in Users : ver[u] # 0 => ver'[u] # 0
  BY VersionsGrow
<1>1. ASSUME NEW q \in Requests PROVE Kept(q)
  <2>1. ASSUME NEW p \in Requests, NEW w \in Users, NEW S \in SUBSET Roles,
               SetUserRoles(p, w, S)
        PROVE  Kept(q)
    <3>1. ver'[w] # 0
      BY <2>1 DEF SetUserRoles, Bumped, TypeOK
    <3>. QED  BY <2>1, <3>1 DEF SetUserRoles, TypeOK
  <2>2. ASSUME NEW p \in Requests, LoadVersions(p) PROVE Kept(q)
    <3>1. \A w \in Holders(job[p].role) : ver[w] # 0
      BY DEF Holders, ZeroInv
    <3>2. Holders(job[p].role) \subseteq Users
      BY DEF Holders
    <3>. QED  BY <1>0, <2>2, <3>1, <3>2 DEF LoadVersions, TypeOK
  <2>3. ASSUME NEW p \in Requests, NEW w \in Users, LoadVersion(p, w) PROVE Kept(q)
    <3>1. ver[w] # 0
      BY <2>3 DEF LoadVersion, ZeroInv
    <3>. QED  BY <1>0, <2>3, <3>1 DEF LoadVersion, TypeOK
  <2>4. UNCHANGED todo => Kept(q)
    OBVIOUS
  <2>5. ASSUME NEW p \in Requests, Answer(p) PROVE Kept(q)
    BY <2>5 DEF Answer, TypeOK
  <2>6. ASSUME NEW p \in Requests, NEW x \in todo[p], WriteVersion(p, x) \/ FailWrite(p, x)
        PROVE  Kept(q)
    BY <2>6 DEF WriteVersion, FailWrite, TypeOK
  <2>. QED
    BY <2>1, <2>2, <2>3, <2>4, <2>5, <2>6
    DEF Next, Change, Proceed, Resolve, Rollback, Return, Abandon,
        AssignDefaultRole, UpdateRole, DeleteRole, MoveUsers, CommitUpdate, CommitDelete,
        BeginLogin, ResolveFails, ReadRoles, ReadVersion, StoreClaims, ReadPerms,
        CacheExpires, Evict, admin, vars
<1>2. \A q \in Requests, u \in Users, v \in Nat : <<u, v>> \in todo[q] => ver[u] # 0
  BY DEF ZeroInv
<1>. QED  BY <1>0, <1>1, <1>2 DEF TodoHaveVersions

\* What a clean read under way has to do with the versions: without a version
\* there is nothing to read, and a version that moves marks it.
ReadInv ==
    /\ \A l \in Logins : lpc[l] = "ver" /\ ver[sub[l]] = 0 => left[l] = {}
    /\ \A l \in Logins : lpc[l] = "perms" /\ read[l].ver = 0 =>
          left[l] = {} /\ read[l].perms = {}
    /\ \A l \in Logins : InStep(l)

\* A commit that marks the reads of everyone whose version it raises.
LEMMA CommitKeepsReads ==
    ASSUME TypeOK, ReadInv, NEW us, NEW vs, Disturb(us), vs \subseteq us,
           ver' = Bumped(vs), UNCHANGED <<lpc, sub, left>>
    PROVE  ReadInv'
<1>1. \A u \in Users : /\ u \notin us => ver'[u] = ver[u]
                       /\ ver'[u] = 0 => ver[u] = 0
  BY VersionsAreNumbers DEF Bumped
<1>2. ASSUME NEW l \in Logins
      PROVE  /\ lpc'[l] = "ver" /\ ver'[sub'[l]] = 0 => left'[l] = {}
             /\ lpc'[l] = "perms" /\ read'[l].ver = 0 =>
                   left'[l] = {} /\ read'[l].perms = {}
             /\ lpc'[l] = "perms" /\ read'[l].clean =>
                   read'[l].ver \in {ver'[sub'[l]], 0}
  <2>1. sub'[l] = sub[l] /\ lpc'[l] = lpc[l] /\ left'[l] = left[l] /\ sub[l] \in Users
    BY DEF TypeOK
  <2>2. read'[l].ver = read[l].ver /\ read'[l].perms = read[l].perms
    BY DisturbReads
  <2>3. ASSUME lpc[l] = "perms", read'[l].clean PROVE read[l].clean /\ sub[l] \notin us
    BY <2>3, DisturbReads DEF Reading
  <2>4. lpc'[l] = "ver" /\ ver'[sub'[l]] = 0 => left'[l] = {}
    BY <1>1, <2>1 DEF ReadInv
  <2>5. lpc'[l] = "perms" /\ read'[l].ver = 0 => left'[l] = {} /\ read'[l].perms = {}
    BY <2>1, <2>2 DEF ReadInv
  <2>6. ASSUME lpc'[l] = "perms", read'[l].clean
        PROVE  read'[l].ver \in {ver'[sub'[l]], 0}
    <3>1. read[l].clean /\ sub[l] \notin us
      BY <2>1, <2>3, <2>6
    <3>2. read[l].ver \in {ver[sub[l]], 0}
      BY <2>1, <2>6, <3>1 DEF ReadInv, InStep
    <3>. QED  BY <1>1, <2>1, <2>2, <3>1, <3>2
  <2>. QED  BY <2>4, <2>5, <2>6
<1>. QED  BY <1>2 DEF ReadInv, InStep

\* A step of one login leaves the reads of the others alone.
LEMMA OneLoginReads ==
    ASSUME ReadInv, NEW k \in Logins, UNCHANGED ver,
           \A l \in Logins \ {k} : UNCHANGED <<lpc[l], sub[l], left[l], read[l]>>,
           lpc'[k] = "ver" /\ ver[sub'[k]] = 0 => left'[k] = {},
           lpc'[k] = "perms" /\ read'[k].ver = 0 => left'[k] = {} /\ read'[k].perms = {},
           lpc'[k] = "perms" /\ read'[k].clean => read'[k].ver \in {ver[sub'[k]], 0}
    PROVE  ReadInv'
  BY DEF ReadInv, InStep

LEMMA LoginReads ==
    ASSUME TypeOK, NamesInv, ZeroInv, ReadInv, NEW l \in Logins, Resolve(l)
    PROVE  ReadInv'
<1>. USE DEF rbac
<1>0. sub[l] \in Users /\ read[l] \in ClaimSet
  BY DEF TypeOK
<1>1. ASSUME NEW u \in Users, BeginLogin(l, u) \/ ResolveFails(l, u) PROVE ReadInv'
  <2>1. lpc'[l] \in {"roles", "signed"}
    BY <1>1 DEF BeginLogin, ResolveFails, TypeOK
  <2>2. /\ UNCHANGED ver
        /\ \A k \in Logins \ {l} : UNCHANGED <<lpc[k], sub[k], left[k], read[k]>>
    BY <1>1 DEF BeginLogin, ResolveFails, TypeOK
  <2>. QED  BY <2>1, <2>2, OneLoginReads
<1>2. CASE ReadRoles(l)
  <2>1. /\ UNCHANGED <<ver, sub>> /\ lpc'[l] = "ver" /\ left'[l] = held[sub[l]]
        /\ \A k \in Logins \ {l} : UNCHANGED <<lpc[k], sub[k], left[k], read[k]>>
    BY <1>2 DEF ReadRoles, TypeOK
  <2>2. ver[sub[l]] = 0 => held[sub[l]] = {}
    BY <1>0 DEF ZeroInv
  <2>. QED  BY <2>1, <2>2, OneLoginReads
<1>3. CASE ReadVersion(l)
  <2>1. /\ UNCHANGED <<ver, sub, left>> /\ lpc'[l] = "perms" /\ lpc[l] = "ver"
        /\ \A k \in Logins \ {l} : UNCHANGED <<lpc[k], sub[k], left[k], read[k]>>
    BY <1>3 DEF ReadVersion, TypeOK
  <2>2. read'[l].ver = ver[sub[l]] /\ read'[l].perms = read[l].perms
    BY <1>0, <1>3 DEF ReadVersion, TypeOK, ClaimSet
  <2>3. read[l].perms = {}
    BY <2>1 DEF NamesInv
  <2>4. ver[sub[l]] = 0 => left[l] = {}
    BY <2>1 DEF ReadInv
  <2>5. \A k \in Logins \ {l} : UNCHANGED <<lpc[k], sub[k], left[k], read[k]>>
    BY <2>1
  <2>6. sub'[l] = sub[l] /\ left'[l] = left[l]
    BY <2>1
  <2>. QED  BY <2>1, <2>2, <2>3, <2>4, <2>5, <2>6, OneLoginReads
<1>4. ASSUME NEW r \in Roles, ReadPerms(l, r) PROVE ReadInv'
  <2>1. /\ UNCHANGED <<ver, sub, lpc>> /\ lpc[l] = "perms" /\ r \in left[l]
        /\ \A k \in Logins \ {l} : UNCHANGED <<lpc[k], sub[k], left[k], read[k]>>
    BY <1>4 DEF ReadPerms, TypeOK
  <2>2. read'[l].ver = read[l].ver /\ read'[l].clean = read[l].clean
    BY <1>0, <1>4 DEF ReadPerms, TypeOK, ClaimSet
  <2>3. read[l].ver # 0
    BY <2>1 DEF ReadInv
  <2>4. read[l].clean => read[l].ver \in {ver[sub[l]], 0}
    BY <2>1 DEF ReadInv, InStep
  <2>5. \A k \in Logins \ {l} : UNCHANGED <<lpc[k], sub[k], left[k], read[k]>>
    BY <2>1
  <2>6. lpc'[l] = "perms" /\ sub'[l] = sub[l]
    BY <2>1
  <2>. QED  BY <2>1, <2>2, <2>3, <2>4, <2>5, <2>6, OneLoginReads
<1>5. CASE StoreClaims(l)
  <2>1. /\ UNCHANGED <<ver, sub>> /\ lpc'[l] = "signed"
        /\ \A k \in Logins \ {l} : UNCHANGED <<lpc[k], sub[k], left[k], read[k]>>
    BY <1>5 DEF StoreClaims, TypeOK
  <2>. QED  BY <2>1, OneLoginReads
<1>. QED  BY <1>1, <1>2, <1>3, <1>4, <1>5 DEF Resolve

LEMMA ReadsStep ==
    ASSUME TypeOK, NamesInv, ZeroInv, ReadInv, [Next]_vars
    PROVE  ReadInv'
<1>1. CASE UNCHANGED <<ver, lpc, sub, left, read>>
  BY <1>1 DEF ReadInv, InStep
<1>2. ASSUME NEW w \in Users, AssignDefaultRole(w) PROVE ReadInv'
  <2>1. UNCHANGED <<lpc, sub, left, read>>
    BY <1>2 DEF AssignDefaultRole, login
  <2>2. \A u \in Users : ver[u] # 0 => ver'[u] = ver[u]
    BY <1>2 DEF AssignDefaultRole, TypeOK
  <2>3. \A u \in Users : ver'[u] = 0 => ver[u] = 0
    BY <1>2 DEF AssignDefaultRole, TypeOK
  <2>4. \A l \in Logins : sub[l] \in Users
    BY DEF TypeOK
  <2>. QED  BY <2>1, <2>2, <2>3, <2>4 DEF ReadInv, InStep
<1>3. ASSUME NEW q \in Requests, NEW w \in Users, NEW S \in SUBSET Roles,
             SetUserRoles(q, w, S)
      PROVE  ReadInv'
  BY <1>3, CommitKeepsReads DEF SetUserRoles
<1>4. ASSUME NEW q \in Requests, CommitUpdate(q) PROVE ReadInv'
  BY <1>4, CommitKeepsReads DEF CommitUpdate
<1>5. ASSUME NEW q \in Requests, CommitDelete(q) PROVE ReadInv'
  BY <1>5, CommitKeepsReads DEF CommitDelete
<1>. QED
  BY <1>1, <1>2, <1>3, <1>4, <1>5, LoginReads
  DEF Next, Change, Proceed, UpdateRole, DeleteRole, MoveUsers, Rollback,
      LoadVersions, Return, Abandon, LoadVersion, WriteVersion, FailWrite,
      CacheExpires, Evict, rbac, login, vars

-----------------------------------------------------------------------------
(* What each step does to what the gateway lets through. *)

\* What must be true of user u for claims to stay current over a step: nothing is
\* taken from u, or the version in Redis is now u's.
Safely(u) ==
    Settled(u)' =>
        \/ Settled(u) /\ redis'[u] = redis[u] /\ Granted(u) \subseteq Granted(u)'
        \/ redis'[u] = ver'[u]

\* Requests that keep or extend what they carry, while no one loses a role.
LEMMA SettledKept ==
    ASSUME NEW u \in Users, NEW q \in Requests,
           \A b \in Requests \ {q} : UNCHANGED <<pc[b], job[b], snap[b], todo[b]>>,
           held[u] \subseteq held'[u] \/ Carries(q, u)' \/ u \in late',
           Carries(q, u) => Carries(q, u)' \/ u \in lost' \cup late',
           late \subseteq late', crossed \subseteq crossed', lost \subseteq lost'
    PROVE  Settled(u)' => Settled(u)
<1>. SUFFICES ASSUME Settled(u)', NEW b \in Requests, Carries(b, u) PROVE FALSE
  BY DEF Settled
<1>1. CASE b = q
  BY <1>1 DEF Settled
<1>2. CASE b # q
  <2>1. held[u] \subseteq held'[u]
    BY DEF Settled
  <2>2. Carries(b, u)'
    BY <1>2, <2>1 DEF Carries
  <2>. QED  BY <2>2 DEF Settled
<1>. QED  BY <1>1, <1>2

LEMMA AssignDefaultRoleSafely ==
    ASSUME TypeOK, NEW w \in Users, AssignDefaultRole(w), NEW u \in Users
    PROVE  Safely(u)
<1>1. held[u] \subseteq held'[u] /\ late \subseteq late'
      /\ UNCHANGED <<pc, job, snap, todo, redis, role, crossed, lost>>
  BY DEF AssignDefaultRole, admin, TypeOK
<1>2. \A b \in Requests : Carries(b, u) => Carries(b, u)'
  BY <1>1 DEF Carries
<1>. QED  BY <1>1, <1>2 DEF Safely, Settled, Granted

LEMMA SetUserRolesSafely ==
    ASSUME TypeOK, WritesInv, NEW q \in Requests, NEW w \in Users, NEW S \in SUBSET Roles,
           SetUserRoles(q, w, S), NEW u \in Users
    PROVE  Safely(u)
<1>1. /\ \A b \in Requests \ {q} : UNCHANGED <<pc[b], job[b], snap[b], todo[b]>>
      /\ late \subseteq late' /\ crossed \subseteq crossed' /\ lost' = lost
      /\ todo'[q] = {<<w, ver[w] + 1>>} /\ pc[q] = "new" /\ UNCHANGED <<role, redis>>
  BY DEF SetUserRoles, Goto, TypeOK
<1>2. CASE u = w
  <2>1. ver[w] + 1 \in Nat
    BY VersionsAreNumbers
  <2>2. Carries(q, u)'
    BY <1>1, <1>2, <2>1 DEF Carries
  <2>. QED  BY <2>2 DEF Safely, Settled
<1>3. CASE u # w
  <2>1. held'[u] = held[u]
    BY <1>3 DEF SetUserRoles, TypeOK
  <2>2. ~Carries(q, u)
    BY <1>1 DEF Carries, WritesInv
  <2>3. Settled(u)' => Settled(u)
    BY <1>1, <2>1, <2>2, SettledKept
  <2>. QED  BY <1>1, <2>1, <2>3 DEF Safely, Granted
<1>. QED  BY <1>2, <1>3

\* A role is changed: who held it and was read by the request is carried, who held
\* it and was not came late, and nobody else had its permissions.
LEMMA CommitUpdateSafely ==
    ASSUME TypeOK, NamesInv, WritesInv, NEW q \in Requests, CommitUpdate(q), NEW u \in Users
    PROVE  Safely(u)
<1>1. /\ \A b \in Requests \ {q} : UNCHANGED <<pc[b], job[b], snap[b], todo[b]>>
      /\ UNCHANGED <<held, late, lost, redis, snap, job, todo>> /\ crossed \subseteq crossed'
      /\ pc[q] = "update" /\ pc'[q] = "load"
  BY DEF CommitUpdate, Goto, TypeOK
<1>2. ~Carries(q, u)
  BY <1>1 DEF Carries, WritesInv
<1>3. Settled(u)' => Settled(u)
  BY <1>1, <1>2, SettledKept
<1>4. CASE job[q].role \in held[u]
  <2>1. u \in snap[q] \cup late
    BY <1>1, <1>4 DEF NamesInv, Holders
  <2>2. u \in snap[q] => Carries(q, u)'
    BY <1>1, <1>4 DEF Carries
  <2>. QED  BY <1>1, <2>1, <2>2 DEF Safely, Settled
<1>5. CASE job[q].role \notin held[u]
  <2>1. \A r \in held[u] : role'[r] = role[r]
    BY <1>5 DEF CommitUpdate, TypeOK
  <2>2. Granted(u)' = Granted(u)
    BY <1>1, <2>1 DEF Granted
  <2>. QED  BY <1>1, <1>3, <2>2 DEF Safely
<1>. QED  BY <1>4, <1>5

\* A role is deleted: the users moved are carried, who else held it came late.
LEMMA CommitDeleteSafely ==
    ASSUME TypeOK, NamesInv, WritesInv, NEW q \in Requests, CommitDelete(q), NEW u \in Users
    PROVE  Safely(u)
<1>1. /\ \A b \in Requests \ {q} : UNCHANGED <<pc[b], job[b], snap[b], todo[b]>>
      /\ UNCHANGED <<lost, redis, snap, job, todo>> /\ crossed \subseteq crossed'
      /\ late \subseteq late' /\ pc[q] \in {"plain", "delete"} /\ pc'[q] = "each"
      /\ held'[u] = RolesAfter(q, u)
  BY DEF CommitDelete, Goto, TypeOK
<1>2. ~Carries(q, u)
  BY <1>1 DEF Carries, WritesInv
<1>3. CASE u \in snap[q]
  <2>1. Carries(q, u)'
    BY <1>1, <1>3 DEF Carries
  <2>. QED  BY <2>1 DEF Safely, Settled
<1>4. CASE u \notin snap[q] /\ job[q].role \in held[u]
  <2>1. u \in late
    BY <1>1, <1>4 DEF NamesInv, Holders
  <2>. QED  BY <1>1, <2>1 DEF Safely, Settled
<1>5. CASE u \notin snap[q] /\ job[q].role \notin held[u]
  <2>1. held'[u] = held[u]
    BY <1>1, <1>5 DEF RolesAfter
  <2>2. \A r \in held[u] : role'[r] = role[r]
    BY <1>5 DEF CommitDelete, TypeOK
  <2>3. Settled(u)' => Settled(u)
    BY <1>1, <1>2, <2>1, SettledKept
  <2>. QED  BY <1>1, <2>1, <2>2, <2>3 DEF Safely, Granted
<1>. QED  BY <1>3, <1>4, <1>5

\* A step of request q after its commit, or one that only reads.
LEMMA RequestSafely ==
    ASSUME TypeOK, TypeOK', WritesInv, WritesInv', NEW q \in Requests,
           \/ \E r \in Roles, P \in SUBSET Perms : UpdateRole(q, r, P)
           \/ \E r \in Roles, f \in Roles \cup {NoRole} : DeleteRole(q, r, f)
           \/ MoveUsers(q) \/ Rollback(q) \/ LoadVersions(q) \/ Return(q) \/ Abandon(q)
           \/ \E w \in Users : LoadVersion(q, w)
           \/ \E p \in todo[q] : WriteVersion(q, p) \/ FailWrite(q, p),
           NEW u \in Users
    PROVE  Safely(u)
<1>. USE DEF rbac, history
<1>0. /\ UNCHANGED <<role, held, ver, late, crossed>>
      /\ lost \subseteq lost'
      /\ \A b \in Requests \ {q} : UNCHANGED <<pc[b], job[b], snap[b], todo[b]>>
  BY DEF UpdateRole, DeleteRole, MoveUsers, Rollback, LoadVersions, Return, Abandon,
         LoadVersion, WriteVersion, FailWrite, Answer, Goto, TypeOK
<1>1. Granted(u)' = Granted(u)
  BY <1>0 DEF Granted
<1>2. ASSUME Carries(q, u) => Carries(q, u)' \/ u \in lost', redis'[u] = redis[u]
      PROVE  Safely(u)
  <2>1. Settled(u)' => Settled(u)
    BY <1>0, <1>2, SettledKept
  <2>. QED  BY <1>1, <1>2, <2>1 DEF Safely
<1>3. CASE \/ \E r \in Roles, P \in SUBSET Perms : UpdateRole(q, r, P)
           \/ \E r \in Roles, f \in Roles \cup {NoRole} : DeleteRole(q, r, f)
           \/ MoveUsers(q) \/ Rollback(q) \/ Return(q)
  <2>1. redis' = redis /\ ~Carries(q, u)
    BY <1>3 DEF UpdateRole, DeleteRole, MoveUsers, Rollback, Return, Carries, WritesInv
  <2>. QED  BY <1>2, <2>1
<1>4. CASE LoadVersions(q)
  <2>1. /\ redis' = redis /\ pc[q] = "load"
        /\ todo'[q] = {<<w, ver[w]>> : w \in Holders(job[q].role)}
    BY <1>4 DEF LoadVersions, TypeOK
  <2>2. todo[q] = {}
    BY <2>1 DEF WritesInv
  <2>3. Carries(q, u) => job[q].role \in held[u]
    BY <2>1, <2>2 DEF Carries
  <2>4. job[q].role \in held[u] => <<u, ver[u]>> \in todo'[q]
    BY <2>1 DEF Holders
  <2>5. ver[u] \in Nat
    BY VersionsAreNumbers
  <2>. QED  BY <1>2, <2>1, <2>3, <2>4, <2>5 DEF Carries
<1>5. ASSUME NEW w \in Users, LoadVersion(q, w) PROVE Safely(u)
  <2>1. /\ redis' = redis /\ pc[q] = "each" /\ pc'[q] = "each" /\ todo[q] = {}
        /\ todo'[q] = {<<w, ver[w]>>} /\ snap'[q] = snap[q] \ {w}
    BY <1>5 DEF LoadVersion, TypeOK
  <2>2. ver[w] \in Nat
    BY VersionsAreNumbers
  <2>3. Carries(q, u) => Carries(q, u)'
    BY <2>1, <2>2 DEF Carries
  <2>. QED  BY <1>2, <2>1, <2>3
<1>6. CASE Abandon(q)
  <2>1. redis' = redis /\ lost' = lost \cup {w \in Users : Owes(q, w)}
    BY <1>6 DEF Abandon
  <2>2. Carries(q, u) => Owes(q, u)
    <3>1. ASSUME NEW v \in Nat, <<u, v>> \in todo[q] PROVE Owes(q, u)
      <4>1. pc[q] \in {"each", "write"} /\ <<u, v>>[1] = u
        BY <3>1 DEF WritesInv
      <4>. QED  BY <3>1, <4>1 DEF Owes
    <3>. QED  BY <3>1 DEF Carries, Owes
  <2>. QED  BY <1>2, <2>1, <2>2
<1>7. ASSUME NEW p \in todo[q], FailWrite(q, p) PROVE Safely(u)
  <2>1. /\ UNCHANGED <<redis, pc, job, snap>>
        /\ todo'[q] = todo[q] \ {p} /\ lost' = lost \cup {p[1]}
    BY <1>7 DEF FailWrite, TypeOK
  <2>2. Carries(q, u) => Carries(q, u)' \/ u \in lost'
    <3>1. ASSUME NEW v \in Nat, <<u, v>> \in todo[q]
          PROVE  Carries(q, u)' \/ u \in lost'
      <4>1. CASE <<u, v>> = p
        BY <2>1, <4>1
      <4>2. CASE <<u, v>> # p
        BY <2>1, <3>1, <4>2 DEF Carries
      <4>. QED  BY <4>1, <4>2
    <3>. QED  BY <1>0, <2>1, <3>1 DEF Carries
  <2>. QED  BY <1>2, <2>1, <2>2
<1>8. ASSUME NEW p \in todo[q], WriteVersion(q, p) PROVE Safely(u)
  <2>1. /\ UNCHANGED <<pc, job, snap>> /\ redis' = [redis EXCEPT ![p[1]] = p[2]]
        /\ todo'[q] = todo[q] \ {p}
    BY <1>8 DEF WriteVersion, Written, TypeOK
  <2>2. PICK w \in Users, v \in Nat : p = <<w, v>>
    BY DEF TypeOK
  <2>3. CASE u = w
    <3>1. redis'[u] = v
      BY <2>1, <2>2, <2>3 DEF TypeOK
    <3>2. u \notin crossed => v = ver[u]
      BY <2>2, <2>3 DEF WritesInv
    <3>. QED  BY <1>0, <3>1, <3>2 DEF Safely, Settled
  <2>4. CASE u # w
    <3>1. redis'[u] = redis[u]
      BY <2>1, <2>2, <2>4 DEF TypeOK
    <3>2. \A x \in Nat : <<u, x>> \in todo[q] => <<u, x>> \in todo'[q]
      BY <2>1, <2>2, <2>4
    <3>3. Carries(q, u) => Carries(q, u)'
      BY <1>0, <2>1, <3>2 DEF Carries
    <3>. QED  BY <1>2, <3>1, <3>3
  <2>. QED  BY <2>3, <2>4
<1>. QED  BY <1>3, <1>4, <1>5, <1>6, <1>7, <1>8

LEMMA SafelyStep ==
    ASSUME TypeOK, TypeOK', NamesInv, WritesInv, WritesInv', [Next]_vars, NEW u \in Users
    PROVE  Safely(u)
<1>1. CASE UNCHANGED <<rbac, redis, admin, history>>
  BY <1>1 DEF rbac, admin, history, Safely, Settled, Carries, Granted
<1>2. UNCHANGED vars => UNCHANGED <<rbac, redis, admin, history>>
  BY DEF vars, rbac, admin, history
<1>3. (\E l \in Logins : Resolve(l)) => UNCHANGED <<rbac, redis, admin, history>>
  BY DEF Resolve, BeginLogin, ResolveFails, ReadRoles, ReadVersion, StoreClaims, ReadPerms,
         history
<1>4. (\E w \in Users : CacheExpires(w) \/ Evict(w))
         => UNCHANGED <<rbac, redis, admin, history>>
  BY DEF CacheExpires, Evict, history
<1>. QED
  BY <1>1, <1>2, <1>3, <1>4, AssignDefaultRoleSafely, SetUserRolesSafely,
     CommitUpdateSafely, CommitDeleteSafely, RequestSafely
  DEF Next, Change, Proceed

-----------------------------------------------------------------------------
(* The claims of logins and of the cache. *)

\* Claims that were current are after the step, marked or not.
LEMMA CurrentKept ==
    ASSUME TypeOK, TypeOK', NEW u \in Users, Safely(u),
           NEW c \in ClaimSet, NEW d \in ClaimSet,
           Settled(u) => Current(u, c), Sound(u, d)',
           d.ver = c.ver, d.perms = c.perms, d.clean => c.clean
    PROVE  (Settled(u) => Current(u, d))'
<1>. SUFFICES ASSUME Settled(u)', d.clean, redis'[u] <= d.ver
              PROVE  d.perms \subseteq Granted(u)'
  BY DEF Current
<1>1. CASE /\ Settled(u) /\ redis'[u] = redis[u]
           /\ Granted(u) \subseteq Granted(u)'
  BY <1>1 DEF Current
<1>2. CASE redis'[u] = ver'[u]
  <2>1. d.ver \in Nat /\ ver'[u] \in Nat /\ d.ver <= ver'[u]
    BY DEF Sound, TypeOK, ClaimSet
  <2>2. d.ver = ver'[u]
    BY <1>2, <2>1
  <2>3. u \notin late'
    BY DEF Settled
  <2>. QED  BY <2>2, <2>3 DEF Sound, Names
<1>. QED  BY <1>1, <1>2 DEF Safely

\* What a step puts in a token or in the cache was there before, is blank, or is a
\* read that has just ended.
Origin(u, d) ==
    \/ \E l \in Logins :
          /\ sub[l] = u /\ lpc[l] \in {"perms", "signed"}
          /\ d.ver = read[l].ver /\ d.perms = read[l].perms
          /\ d.clean => read[l].clean
    \/ cache[u] # NoClaims /\ d = cache[u]
    \/ d = Blank

\* A read that ends is current.
LEMMA EndedRead ==
    ASSUME TypeOK, NamesInv, StaleInv, NEW l \in Logins, lpc[l] \in {"perms", "signed"},
           Settled(sub[l])
    PROVE  Current(sub[l], read[l])
<1>1. CASE lpc[l] = "signed"
  BY <1>1 DEF StaleInv
<1>2. CASE lpc[l] = "perms"
  <2>. SUFFICES ASSUME read[l].clean
                PROVE  read[l].perms \subseteq Granted(sub[l])
    BY DEF Current
  <2>1. read[l].ver \in {ver[sub[l]], 0}
    BY <1>2 DEF StaleInv, InStep
  <2>2. CASE read[l].ver = 0
    BY <1>2, <2>2 DEF StaleInv, ZeroInv
  <2>3. CASE read[l].ver = ver[sub[l]]
    BY <2>3 DEF NamesInv, Sound, Names, Settled
  <2>. QED  BY <2>1, <2>2, <2>3
<1>. QED  BY <1>1, <1>2

LEMMA OriginIsCurrent ==
    ASSUME TypeOK, TypeOK', NamesInv, StaleInv, NEW u \in Users, Safely(u),
           NEW d \in ClaimSet, Sound(u, d)', Origin(u, d)
    PROVE  (Settled(u) => Current(u, d))'
<1>1. ASSUME NEW l \in Logins,
             sub[l] = u, lpc[l] \in {"perms", "signed"},
             d.ver = read[l].ver, d.perms = read[l].perms, d.clean => read[l].clean
      PROVE  (Settled(u) => Current(u, d))'
  <2>1. read[l] \in ClaimSet /\ (Settled(u) => Current(u, read[l]))
    BY <1>1, EndedRead DEF TypeOK
  <2>2. PICK c \in ClaimSet : c = read[l]
    BY <2>1
  <2>. QED  BY <1>1, <2>1, <2>2, CurrentKept
<1>2. CASE cache[u] # NoClaims /\ d = cache[u]
  <2>1. Settled(u) => Current(u, d)
    BY <1>2 DEF StaleInv
  <2>. QED  BY <2>1, CurrentKept
<1>3. CASE d = Blank
  BY <1>3 DEF Blank, Current
<1>. QED  BY <1>1, <1>2, <1>3 DEF Origin

\* Where the claims come from that are in a token or in the cache after a step.
LEMMA Origins ==
    ASSUME TypeOK, [Next]_vars
    PROVE  /\ \A l \in Logins : lpc'[l] = "signed" => Origin(sub'[l], read'[l])
           /\ \A u \in Users : cache'[u] # NoClaims => Origin(u, cache'[u])
<1>. DEFINE From == /\ \A l \in Logins : lpc'[l] = "signed" => Origin(sub'[l], read'[l])
                    /\ \A u \in Users : cache'[u] # NoClaims => Origin(u, cache'[u])
<1>1. ASSUME UNCHANGED <<login, auth>> PROVE From
  BY <1>1 DEF login, auth, Origin
<1>2. ASSUME NEW us, Disturb(us), UNCHANGED <<lpc, sub, cache>> PROVE From
  <2>1. \A l \in Logins : lpc'[l] = "signed" => Origin(sub'[l], read'[l])
    BY <1>2, DisturbReads DEF Origin
  <2>. QED  BY <1>2, <2>1 DEF Origin
<1>3. ASSUME NEW k \in Logins, NEW w \in Users, BeginLogin(k, w) \/ ResolveFails(k, w)
      PROVE  From
  <2>1. /\ \A l \in Logins \ {k} : UNCHANGED <<lpc[l], sub[l], read[l]>>
        /\ sub'[k] = w /\ cache' = cache
    BY <1>3 DEF BeginLogin, ResolveFails, TypeOK, auth
  <2>2. lpc'[k] = "signed" =>
           (cache[w] # NoClaims /\ read'[k] = cache[w]) \/ read'[k] = Blank
    BY <1>3, ConstantsAssumption DEF BeginLogin, ResolveFails, TypeOK
  <2>3. \A l \in Logins : lpc'[l] = "signed" => Origin(sub'[l], read'[l])
    BY <2>1, <2>2 DEF Origin
  <2>. QED  BY <2>1, <2>3 DEF Origin
<1>4. ASSUME NEW k \in Logins, StoreClaims(k) PROVE From
  <2>1. /\ \A l \in Logins \ {k} : lpc'[l] = lpc[l]
        /\ UNCHANGED <<sub, read>> /\ lpc[k] = "perms"
        /\ cache' = [cache EXCEPT ![sub[k]] = read[k]]
    BY <1>4 DEF StoreClaims, TypeOK
  <2>2. \A l \in Logins : lpc'[l] = "signed" => Origin(sub'[l], read'[l])
    BY <2>1 DEF Origin
  <2>3. \A u \in Users \ {sub[k]} : cache'[u] = cache[u]
    BY <2>1 DEF TypeOK
  <2>4. sub[k] \in Users /\ cache'[sub[k]] = read[k]
    BY <2>1 DEF TypeOK
  <2>. QED  BY <2>1, <2>2, <2>3, <2>4 DEF Origin
<1>5. ASSUME NEW k \in Logins,
             \/ ReadRoles(k) \/ ReadVersion(k)
             \/ \E r \in Roles : ReadPerms(k, r)
      PROVE  From
  <2>1. /\ \A l \in Logins \ {k} : UNCHANGED <<lpc[l], read[l]>>
        /\ UNCHANGED <<sub, cache>> /\ lpc'[k] # "signed"
    BY <1>5 DEF ReadRoles, ReadVersion, ReadPerms, TypeOK, auth
  <2>. QED  BY <2>1 DEF Origin
<1>6. ASSUME NEW w \in Users, CacheExpires(w) \/ Evict(w) PROVE From
  <2>1. /\ UNCHANGED <<lpc, sub, read>>
        /\ \A u \in Users : cache'[u] \in {cache[u], NoClaims}
    BY <1>6 DEF CacheExpires, Evict, login, TypeOK
  <2>. QED  BY <2>1 DEF Origin
<1>7. ASSUME NEW q \in Requests, CommitUpdate(q) \/ CommitDelete(q) PROVE From
  BY <1>2, <1>7 DEF CommitUpdate, CommitDelete, auth
<1>8. ASSUME NEW q \in Requests, NEW u \in Users, NEW S \in SUBSET Roles,
             SetUserRoles(q, u, S)
      PROVE  From
  BY <1>2, <1>8 DEF SetUserRoles, auth
<1>9. UNCHANGED vars => UNCHANGED <<login, auth>>
  BY DEF vars, login, auth
<1>. HIDE DEF From
<1>10. From
  BY <1>1, <1>3, <1>4, <1>5, <1>6, <1>7, <1>8, <1>9
  DEF Next, Change, Proceed, Resolve, AssignDefaultRole, UpdateRole,
      DeleteRole, MoveUsers, Rollback, LoadVersions, Return,
      Abandon, LoadVersion, WriteVersion, FailWrite
<1>. QED  BY <1>10 DEF From

LEMMA StaleStep ==
    TypeOK /\ TypeOK' /\ NamesInv /\ NamesInv' /\ StaleInv /\ [Next]_vars => StaleInv'
<1>. SUFFICES ASSUME TypeOK, TypeOK', NamesInv, NamesInv', StaleInv, [Next]_vars
              PROVE  StaleInv'
  OBVIOUS
<1>1. WritesInv /\ ZeroInv /\ ReadInv
  BY DEF StaleInv, ZeroInv, ReadInv
<1>2. WritesInv'
  BY <1>1, WritesStep
<1>3. ReadInv'
  BY <1>1, ReadsStep
<1>4. ZeroInv'
  BY <1>1, <1>3, HoldersStep, SnapStep, TodoStep
  DEF ZeroInv, ReadInv, HoldersHaveVersions, SnapHaveVersions, TodoHaveVersions
<1>5. \A u \in Users : Safely(u)
  BY <1>1, <1>2, SafelyStep
<1>6. ASSUME NEW l \in Logins, lpc'[l] = "signed"
      PROVE  (Settled(sub[l]) => Current(sub[l], read[l]))'
  <2>1. sub'[l] \in Users /\ read'[l] \in ClaimSet
    BY DEF TypeOK
  <2>2. PICK u \in Users, d \in ClaimSet : u = sub'[l] /\ d = read'[l]
    BY <2>1
  <2>3. Sound(u, d)' /\ Origin(u, d)
    BY <1>6, <2>2, Origins DEF NamesInv, Sound, Names, Granted
  <2>4. (Settled(u) => Current(u, d))'
    BY <1>5, <2>3, OriginIsCurrent
  <2>. QED  BY <2>2, <2>4 DEF Settled, Current, Carries, Granted
<1>7. ASSUME NEW u \in Users, cache'[u] # NoClaims
      PROVE  (Settled(u) => Current(u, cache[u]))'
  <2>1. PICK d \in ClaimSet : d = cache'[u]
    BY <1>7 DEF TypeOK
  <2>2. Sound(u, d)' /\ Origin(u, d)
    BY <1>7, <2>1, Origins DEF NamesInv, Sound, Names, Granted
  <2>3. (Settled(u) => Current(u, d))'
    BY <1>5, <2>2, OriginIsCurrent
  <2>. QED  BY <2>1, <2>3 DEF Settled, Current, Carries, Granted
<1>. QED  BY <1>2, <1>3, <1>4, <1>6, <1>7 DEF StaleInv, ReadInv

\* Once role changes have returned, the gateway refuses every token that carries a
\* permission its user is not granted any more, for any number of requests, logins,
\* failures and evictions: outside the three windows the histories name.
THEOREM StaleClaimsAreRefused == Spec => []StaleClaimsRefused
<1>1. TypeOK /\ StaleInv => StaleClaimsRefused
  <2>. SUFFICES ASSUME TypeOK, StaleInv, NEW l \in Logins, NEW u, u = sub[l],
                       Accepted(l), read[l].clean, ~InFlight(u),
                       u \notin late \cup crossed \cup lost
                PROVE  read[l].perms \subseteq Granted(u)
    BY DEF StaleClaimsRefused
  <2>1. ASSUME NEW q \in Requests PROVE ~Carries(q, u)
    <3>1. ~Owes(q, u)
      BY DEF InFlight
    <3>2. ASSUME NEW v \in Nat, <<u, v>> \in todo[q] PROVE FALSE
      <4>1. pc[q] \in {"each", "write"} /\ <<u, v>>[1] = u
        BY <3>2 DEF StaleInv, WritesInv
      <4>. QED  BY <3>1, <3>2, <4>1 DEF Owes
    <3>. QED  BY <3>1, <3>2 DEF Carries, Owes
  <2>2. Settled(u)
    BY <2>1 DEF Settled
  <2>. QED  BY <2>2 DEF StaleInv, Accepted, Current
<1>. QED  BY <1>1, TypeInit, TypeStep, NamesInit, NamesStep, StaleInit, StaleStep, PTL DEF Spec
=============================================================================
