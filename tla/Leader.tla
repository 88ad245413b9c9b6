------------------------------- MODULE Leader -------------------------------
(***************************************************************************)
(* Leader election on a Redis lease (internal/platform/lock.go, leader.go) *)
(* by the replicas of the scheduler service, whose jobs run only in the    *)
(* callback of the leader.                                                 *)
(*                                                                         *)
(* Time passes in ticks, Third of them to ttl/3.  A replica takes no time  *)
(* between two calls; a call to Redis takes effect at one instant and is   *)
(* answered CallTime ticks after it was made at the latest, and a callback *)
(* whose context is cancelled returns within StopTime ticks.               *)
(***************************************************************************)
EXTENDS Naturals

CONSTANTS
    Replicas,   \* replicas of the service
    NoOne,      \* the owner of a key that does not exist
    Lost,       \* an owner string that no attempt under way will present again
    Third,      \* ttl/3 in ticks
    CallTime,   \* longest call to Redis
    StopTime,   \* longest time a callback takes to notice its cancellation
    MaxEvents   \* bound on crashes, shutdowns, failed calls and callbacks that end

ASSUME ConstantsAssumption ==
    /\ NoOne \notin Replicas /\ Lost \notin Replicas /\ NoOne # Lost
    /\ Third \in Nat \ {0}
    /\ CallTime \in Nat /\ StopTime \in Nat /\ MaxEvents \in Nat

VARIABLES
    owner,    \* the value of the key: the replica whose current attempt set it
    ttl,      \* ticks until the key expires
    pc,       \* where each replica is in Run
    reply,    \* reply[r]: what the call r is in did at Redis, none before it did
    age,      \* age[r]: ticks since r's call began or its callback was cancelled
    phase,    \* phase[r]: ticks until the ticker that r looks at fires
    due,      \* due[r]: it has fired and r has not looked
    work,     \* work[r]: the callback has not returned
    stopped,  \* stopped[r]: the context of Run is cancelled
    events    \* events left of MaxEvents

lease == <<owner, ttl>>
call  == <<pc, reply, age>>
clock == <<phase, due>>
vars  == <<owner, ttl, pc, reply, age, phase, due, work, stopped, events>>

Ttl == 3 * Third

\* Slips in the arguments of NewTicker and SetNX, where 0 means no expiry.
RenewsLate == Ttl
NoExpiry   == 0

\* The period of both tickers, and the time SetNX gives the key.
Period  == Third
Granted == Ttl

Calling == {"asking", "renewing", "releasing"}

TypeOK ==
    /\ owner \in Replicas \cup {NoOne, Lost}
    /\ ttl \in 0 .. Ttl
    /\ ttl = 0 <=> owner = NoOne
    /\ pc \in [Replicas -> {"campaign", "waiting", "leading", "stopping", "gone"} \cup Calling]
    /\ reply \in [Replicas -> {"none", "yes", "no"}]
    /\ age \in [Replicas -> Nat]
    /\ phase \in [Replicas -> 1 .. Third]
    /\ due \in [Replicas -> BOOLEAN]
    /\ work \in [Replicas -> BOOLEAN]
    /\ stopped \in [Replicas -> BOOLEAN]
    /\ events \in 0 .. MaxEvents

Init ==
    /\ owner = NoOne /\ ttl = 0
    /\ pc = [r \in Replicas |-> "gone"]
    /\ reply = [r \in Replicas |-> "none"]
    /\ age = [r \in Replicas |-> 0]
    /\ phase = [r \in Replicas |-> Period]
    /\ due = [r \in Replicas |-> FALSE]
    /\ work = [r \in Replicas |-> FALSE]
    /\ stopped = [r \in Replicas |-> FALSE]
    /\ events = MaxEvents

-----------------------------------------------------------------------------
\* r goes on to place p, where a new call or a new wait begins.
Goto(r, p) ==
    /\ pc' = [pc EXCEPT ![r] = p]
    /\ reply' = [reply EXCEPT ![r] = "none"]
    /\ age' = [age EXCEPT ![r] = 0]

Answer(r, a) ==
    /\ reply' = [reply EXCEPT ![r] = a]
    /\ UNCHANGED <<pc, age>>

\* An attempt ends: its owner string is in nobody's hands any more.
Forget(r) ==
    /\ owner' = IF owner = r THEN Lost ELSE owner
    /\ UNCHANGED ttl

Event ==
    /\ events > 0
    /\ events' = events - 1

\* A process begins Run.
Start(r) ==
    /\ pc[r] = "gone"
    /\ Goto(r, "campaign")
    /\ stopped' = [stopped EXCEPT ![r] = FALSE]
    /\ phase' = [phase EXCEPT ![r] = Period]
    /\ due' = [due EXCEPT ![r] = FALSE]
    /\ UNCHANGED <<lease, work, events>>

\* The head of the loop: TryDistributedLock under a new owner string.
Campaign(r) ==
    /\ pc[r] = "campaign"
    /\ Goto(r, IF stopped[r] THEN "gone" ELSE "asking")
    /\ UNCHANGED <<lease, clock, work, stopped, events>>

SetNX(r) ==
    /\ pc[r] = "asking" /\ reply[r] = "none"
    /\ \/ /\ owner = NoOne
          /\ owner' = r /\ ttl' = Granted
          /\ Answer(r, "yes")
       \/ /\ owner # NoOne
          /\ Answer(r, "no")
          /\ UNCHANGED lease
    /\ UNCHANGED <<clock, work, stopped, events>>

\* SetNX was answered: the callback and the ticker of the renewals start, or
\* the replica waits for the next retry.
Lead(r) ==
    /\ pc[r] = "asking" /\ reply[r] = "yes"
    /\ Goto(r, "leading")
    /\ work' = [work EXCEPT ![r] = TRUE]
    /\ phase' = [phase EXCEPT ![r] = Period]
    /\ due' = [due EXCEPT ![r] = FALSE]
    /\ UNCHANGED <<lease, stopped, events>>

Refused(r) ==
    /\ pc[r] = "asking" /\ reply[r] = "no"
    /\ Goto(r, "waiting")
    /\ UNCHANGED <<lease, clock, work, stopped, events>>

Wait(r) ==
    /\ pc[r] = "waiting"
    /\ \/ /\ stopped[r]
          /\ Goto(r, "gone")
          /\ UNCHANGED clock
       \/ /\ due[r]
          /\ Goto(r, "campaign")
          /\ due' = [due EXCEPT ![r] = FALSE]
          /\ UNCHANGED phase
    /\ UNCHANGED <<lease, work, stopped, events>>

-----------------------------------------------------------------------------
RenewalDue(r) ==
    /\ pc[r] = "leading" /\ due[r]
    /\ Goto(r, "renewing")
    /\ due' = [due EXCEPT ![r] = FALSE]
    /\ UNCHANGED <<lease, phase, work, stopped, events>>

\* The comparisons in the scripts of Renew and of Release.
Holds(r)     == owner = r
MayDelete(r) == owner = r

Renew(r) ==
    /\ pc[r] = "renewing" /\ reply[r] = "none"
    /\ \/ /\ Holds(r)
          /\ ttl' = Ttl
          /\ Answer(r, "yes")
          /\ UNCHANGED owner
       \/ /\ ~Holds(r)
          /\ Answer(r, "no")
          /\ UNCHANGED lease
    /\ UNCHANGED <<clock, work, stopped, events>>

Renewed(r) ==
    /\ pc[r] = "renewing" /\ reply[r] = "yes"
    /\ Goto(r, "leading")
    /\ UNCHANGED <<lease, clock, work, stopped, events>>

\* leader = false: the lease is gone, the callback has returned or the context
\* of Run is cancelled.  The callback's context is cancelled with it.
Resign(r) ==
    /\ \/ pc[r] = "renewing" /\ reply[r] = "no"
       \/ pc[r] = "leading" /\ (stopped[r] \/ ~work[r])
    /\ Goto(r, "stopping")
    /\ UNCHANGED <<lease, clock, work, stopped, events>>

\* The callback returns after its context was cancelled, or by itself.
CallbackReturns(r) ==
    /\ work[r]
    /\ work' = [work EXCEPT ![r] = FALSE]
    /\ \/ /\ pc[r] = "stopping" \/ stopped[r]
          /\ UNCHANGED events
       \/ /\ pc[r] \in {"leading", "renewing"}
          /\ Event
    /\ UNCHANGED <<lease, call, clock, stopped>>

\* <-done, then Release.
Stopped(r) ==
    /\ pc[r] = "stopping" /\ ~work[r]
    /\ Goto(r, "releasing")
    /\ UNCHANGED <<lease, clock, work, stopped, events>>

Release(r) ==
    /\ pc[r] = "releasing" /\ reply[r] = "none"
    /\ \/ /\ MayDelete(r)
          /\ owner' = NoOne /\ ttl' = 0
          /\ Answer(r, "yes")
       \/ /\ ~MayDelete(r)
          /\ Answer(r, "no")
          /\ UNCHANGED lease
    /\ UNCHANGED <<clock, work, stopped, events>>

\* Release has returned.  The ticker of the retries went on meanwhile.
Again(r) ==
    /\ pc[r] = "releasing" /\ reply[r] # "none"
    /\ Goto(r, "campaign")
    /\ \E p \in 1 .. Period : phase' = [phase EXCEPT ![r] = p]
    /\ \E d \in BOOLEAN : due' = [due EXCEPT ![r] = d]
    /\ UNCHANGED <<lease, work, stopped, events>>

-----------------------------------------------------------------------------
\* A call fails, with or without effect at Redis; under a cancelled context it
\* fails before it has one.  The failure of Release is ignored.
CallFails(r) ==
    /\ \/ Event
       \/ /\ stopped[r] /\ pc[r] # "releasing" /\ reply[r] = "none"
          /\ UNCHANGED events
    /\ \/ /\ pc[r] = "asking"
          /\ Goto(r, "waiting")
          /\ Forget(r)
          /\ UNCHANGED clock
       \/ /\ pc[r] = "renewing"
          /\ Goto(r, "stopping")
          /\ UNCHANGED <<lease, clock>>
       \/ /\ pc[r] = "releasing"
          /\ Goto(r, "campaign")
          /\ Forget(r)
          /\ \E p \in 1 .. Period : phase' = [phase EXCEPT ![r] = p]
          /\ \E d \in BOOLEAN : due' = [due EXCEPT ![r] = d]
    /\ UNCHANGED <<work, stopped>>

\* SIGTERM: the context of Run is cancelled.
Shutdown(r) ==
    /\ pc[r] # "gone" /\ ~stopped[r]
    /\ stopped' = [stopped EXCEPT ![r] = TRUE]
    /\ Event
    /\ UNCHANGED <<lease, call, clock, work>>

Crash(r) ==
    /\ pc[r] # "gone"
    /\ Goto(r, "gone")
    /\ work' = [work EXCEPT ![r] = FALSE]
    /\ Forget(r)
    /\ Event
    /\ UNCHANGED <<clock, stopped>>

-----------------------------------------------------------------------------
\* r does something before time passes: it computes, a call has taken CallTime,
\* or a callback StopTime.
Urgent(r) ==
    \/ pc[r] = "campaign"
    \/ pc[r] \in {"waiting", "leading"} /\ (due[r] \/ stopped[r])
    \/ pc[r] \in {"leading", "stopping"} /\ ~work[r]
    \/ pc[r] \in Calling /\ age[r] >= CallTime
    \/ pc[r] = "stopping" /\ age[r] >= StopTime

\* The tickers that run: a tick that finds one pending is dropped.
Ticking(r) == pc[r] \in {"asking", "waiting", "leading", "renewing"}
Fires(r)   == Ticking(r) /\ phase[r] = 1

\* A key without an expiry stays.
Tick ==
    /\ \A r \in Replicas : ~Urgent(r)
    /\ ttl' = IF ttl > 0 THEN ttl - 1 ELSE ttl
    /\ owner' = IF ttl = 1 THEN NoOne ELSE owner
    /\ age' = [r \in Replicas |->
                 IF pc[r] \in Calling \cup {"stopping"} THEN age[r] + 1 ELSE age[r]]
    /\ phase' = [r \in Replicas |->
                   IF Fires(r) THEN Period
                   ELSE IF Ticking(r) THEN phase[r] - 1 ELSE phase[r]]
    /\ due' = [r \in Replicas |-> due[r] \/ Fires(r)]
    /\ UNCHANGED <<pc, reply, work, stopped, events>>

Proceed(r) ==
    \/ Campaign(r) \/ SetNX(r) \/ Lead(r) \/ Refused(r) \/ Wait(r)
    \/ RenewalDue(r) \/ Renew(r) \/ Renewed(r) \/ Resign(r)
    \/ Stopped(r) \/ Release(r) \/ Again(r)

Next ==
    \/ \E r \in Replicas :
          \/ Start(r) \/ Proceed(r) \/ CallbackReturns(r)
          \/ CallFails(r) \/ Shutdown(r) \/ Crash(r)
    \/ Tick

Spec == Init /\ [][Next]_vars

\* A process goes on with its loop, Redis answers, a cancelled callback returns
\* and time passes.  Nobody restarts a process that is gone.
FairSpec ==
    /\ Spec
    /\ WF_vars(Tick)
    /\ \A r \in Replicas :
          WF_vars(Proceed(r)) /\ WF_vars(pc[r] = "stopping" /\ CallbackReturns(r))

-----------------------------------------------------------------------------
\* What the configured times must satisfy for a lease to outlive a renewal that
\* fails and a callback that has to stop.
Prompt == 2 * CallTime + StopTime < 2 * Third

\* A callback runs only while the key names the attempt that started it, so no
\* two replicas run their jobs (leader.go:26, "ensuring only the current owner
\* keeps working").  It holds under Prompt.
OnlyOwnerWorks == \A r \in Replicas : work[r] => owner = r

\* A key disappears because it expires or because its owner releases it: a
\* replica whose lease has expired never deletes the key of another (lock.go:11).
OnlyOwnerUnlocks ==
    [][\A r \in Replicas :
         owner = r /\ owner' = NoOne => ttl = 1 \/ pc[r] = "releasing"]_vars

\* Whatever fails, as long as a replica runs there is a leader again: neither a
\* dead leader nor an owner string that nobody knows keeps the key for ever.
LeadershipReturns ==
    []<>((\E r \in Replicas : work[r]) \/ (\A r \in Replicas : pc[r] = "gone"))

=============================================================================
