---------------------------- MODULE LeaderProofs ----------------------------
(***************************************************************************)
(* What Leader guarantees for every number of replicas, every ttl and      *)
(* every number of failures.  The argument for OnlyOwnerWorks is a budget: *)
(* wherever a replica with a running callback is in its loop, the lease    *)
(* lasts longer than all that can still happen before that callback ends.  *)
(***************************************************************************)
EXTENDS Leader, TLAPS

\* Only these places have a callback.
WorkPlaces == {"leading", "renewing", "stopping"}

LEMMA InitTypeOK == Init => TypeOK
BY ConstantsAssumption DEF Init, TypeOK, Period, Ttl, Calling

LEMMA TickTypeOK == TypeOK /\ Tick => TypeOK'
<1> SUFFICES ASSUME TypeOK, Tick PROVE TypeOK'
    OBVIOUS
<1> USE ConstantsAssumption DEF TypeOK, Period, Ttl, Calling
<1>1. /\ ttl' \in 0 .. Ttl
      /\ ttl' = 0 <=> owner' = NoOne
      /\ owner' \in Replicas \cup {NoOne, Lost}
    BY DEF Tick
<1>2. age' \in [Replicas -> Nat]
    BY DEF Tick
<1>3. phase' \in [Replicas -> 1 .. Third]
  <2>1. ASSUME NEW r \in Replicas
        PROVE  (IF Fires(r) THEN Period
                ELSE IF Ticking(r) THEN phase[r] - 1 ELSE phase[r]) \in 1 .. Third
    BY DEF Fires
  <2> QED
    BY <2>1 DEF Tick
<1>4. due' \in [Replicas -> BOOLEAN]
  <2>1. ASSUME NEW r \in Replicas
        PROVE  (due[r] \/ Fires(r)) \in BOOLEAN
    OBVIOUS
  <2> QED
    BY <2>1 DEF Tick
<1> QED
    BY <1>1, <1>2, <1>3, <1>4 DEF Tick

LEMMA NextTypeOK == TypeOK /\ [Next]_vars => TypeOK'
<1> SUFFICES ASSUME TypeOK, [Next]_vars PROVE TypeOK'
    OBVIOUS
<1> USE ConstantsAssumption
    DEF TypeOK, Period, Granted, Ttl, Calling, Goto, Answer, Forget, Event, lease, call, clock
<1>1. CASE UNCHANGED vars
    BY <1>1 DEF vars
<1>2. CASE Tick
    BY <1>2, TickTypeOK
<1>3. ASSUME NEW r \in Replicas, Start(r) PROVE TypeOK'
    BY <1>3 DEF Start
<1>4. ASSUME NEW r \in Replicas, Campaign(r) PROVE TypeOK'
    BY <1>4 DEF Campaign
<1>5. ASSUME NEW r \in Replicas, SetNX(r) PROVE TypeOK'
    BY <1>5 DEF SetNX
<1>6. ASSUME NEW r \in Replicas, Lead(r) PROVE TypeOK'
    BY <1>6 DEF Lead
<1>7. ASSUME NEW r \in Replicas, Refused(r) PROVE TypeOK'
    BY <1>7 DEF Refused
<1>8. ASSUME NEW r \in Replicas, Wait(r) PROVE TypeOK'
  <2>1. CASE stopped[r] /\ Goto(r, "gone") /\ UNCHANGED clock
    BY <1>8, <2>1 DEF Wait
  <2>2. CASE /\ Goto(r, "campaign")
             /\ due' = [due EXCEPT ![r] = FALSE]
             /\ UNCHANGED phase
    BY <1>8, <2>2 DEF Wait
  <2> QED
    BY <1>8, <2>1, <2>2 DEF Wait
<1>9. ASSUME NEW r \in Replicas, RenewalDue(r) PROVE TypeOK'
    BY <1>9 DEF RenewalDue
<1>10. ASSUME NEW r \in Replicas, Renew(r) PROVE TypeOK'
    BY <1>10 DEF Renew, Holds
<1>11. ASSUME NEW r \in Replicas, Renewed(r) PROVE TypeOK'
    BY <1>11 DEF Renewed
<1>12. ASSUME NEW r \in Replicas, Resign(r) PROVE TypeOK'
    BY <1>12 DEF Resign
<1>13. ASSUME NEW r \in Replicas, Stopped(r) PROVE TypeOK'
    BY <1>13 DEF Stopped
<1>14. ASSUME NEW r \in Replicas, Release(r) PROVE TypeOK'
    BY <1>14 DEF Release
<1>15. ASSUME NEW r \in Replicas, Again(r) PROVE TypeOK'
    BY <1>15 DEF Again
<1>16. ASSUME NEW r \in Replicas, CallbackReturns(r) PROVE TypeOK'
    BY <1>16 DEF CallbackReturns
<1>17. ASSUME NEW r \in Replicas, CallFails(r) PROVE TypeOK'
    BY <1>17 DEF CallFails
<1>18. ASSUME NEW r \in Replicas, Shutdown(r) PROVE TypeOK'
    BY <1>18 DEF Shutdown
<1>19. ASSUME NEW r \in Replicas, Crash(r) PROVE TypeOK'
    BY <1>19 DEF Crash
<1> QED
    BY <1>1, <1>2, <1>3, <1>4, <1>5, <1>6, <1>7, <1>8, <1>9, <1>10, <1>11, <1>12,
       <1>13, <1>14, <1>15, <1>16, <1>17, <1>18, <1>19 DEF Next, Proceed

\* Every variable of the election keeps its type, and the key has a time to
\* live exactly as long as it exists, for every number of replicas and failures.
THEOREM TypeCorrect == Spec => []TypeOK
BY InitTypeOK, NextTypeOK, PTL DEF Spec

-----------------------------------------------------------------------------
\* What is left of the lease, at each place where a callback may run.
Budget(r) ==
    /\ pc[r] \in Calling => age[r] <= CallTime
    /\ pc[r] = "asking" /\ reply[r] = "yes" => owner = r /\ ttl + age[r] >= Ttl
    /\ work[r] => owner = r /\ pc[r] \in WorkPlaces
    /\ work[r] /\ pc[r] = "leading" =>
         ttl > CallTime + StopTime + (IF due[r] THEN 0 ELSE phase[r])
    /\ work[r] /\ pc[r] = "renewing" =>
         \/ reply[r] = "none" /\ ttl + age[r] > CallTime + StopTime
         \/ reply[r] = "yes" /\ ttl + age[r] >= Ttl
    /\ work[r] /\ pc[r] = "stopping" => ttl + age[r] > StopTime

Budgets == \A r \in Replicas : Budget(r)

LEMMA InitBudgets == Init => Budgets
BY ConstantsAssumption DEF Init, Budgets, Budget, Calling

\* A step of r does not shorten the lease of another replica.
LEMMA OthersKept ==
    ASSUME TypeOK, Budgets, NEW r \in Replicas, NEW s \in Replicas, s # r,
           owner = s => owner' = owner /\ ttl' = ttl,
           pc'[s] = pc[s], reply'[s] = reply[s], age'[s] = age[s],
           phase'[s] = phase[s], due'[s] = due[s], work'[s] = work[s]
    PROVE  Budget(s)'
BY DEF Budgets, Budget, Calling, WorkPlaces

\* Time passes: no call and no callback is at its limit, so every budget has
\* more than one tick left and the lease does not expire under a callback.
LEMMA TickBudgets == ASSUME Prompt, TypeOK, Budgets, Tick PROVE Budgets'
<1> SUFFICES ASSUME NEW r \in Replicas PROVE Budget(r)'
    BY DEF Budgets
<1> USE ConstantsAssumption
<1>1. Budget(r) /\ ~Urgent(r)
    BY DEF Budgets, Tick
<1>2. /\ ttl \in Nat /\ age[r] \in Nat /\ phase[r] \in 1 .. Third
      /\ pc'[r] = pc[r] /\ reply'[r] = reply[r] /\ work'[r] = work[r]
      /\ Ttl = 3 * Third
    BY DEF TypeOK, Tick, Ttl
<1>3. age'[r] = IF pc[r] \in Calling \cup {"stopping"} THEN age[r] + 1 ELSE age[r]
    BY DEF TypeOK, Tick
<1>4. ttl > 1 => ttl' = ttl - 1 /\ owner' = owner
    BY <1>2 DEF Tick
<1>5. CASE ~work[r] /\ ~(pc[r] = "asking" /\ reply[r] = "yes")
    BY <1>1, <1>2, <1>3, <1>5 DEF Budget, Urgent, Calling
<1>6. CASE pc[r] = "asking" /\ reply[r] = "yes"
    BY <1>1, <1>2, <1>3, <1>4, <1>6 DEF Budget, Urgent, Calling, WorkPlaces, Prompt
<1>7. CASE work[r] /\ pc[r] = "leading"
  <2>1. ~due[r] /\ ttl > CallTime + StopTime + phase[r]
    BY <1>1, <1>7 DEF Budget, Urgent
  <2>2. ttl > 1
    BY <1>2, <2>1
  <2>3. ttl' > CallTime + StopTime + (IF due'[r] THEN 0 ELSE phase'[r])
    <3>1. CASE phase[r] = 1
      <4>1. due'[r]
        BY <1>7, <3>1 DEF Tick, TypeOK, Fires, Ticking
      <4> QED
        BY <1>2, <1>4, <2>1, <2>2, <3>1, <4>1
    <3>2. CASE phase[r] # 1
      <4>1. ~due'[r] /\ phase'[r] = phase[r] - 1
        BY <1>7, <2>1, <3>2 DEF Tick, TypeOK, Fires, Ticking
      <4> QED
        BY <1>2, <1>4, <2>1, <2>2, <4>1
    <3> QED
      BY <3>1, <3>2
  <2> QED
    BY <1>1, <1>2, <1>4, <1>7, <2>2, <2>3 DEF Budget, Calling, WorkPlaces
<1>8. CASE work[r] /\ pc[r] = "renewing"
    BY <1>1, <1>2, <1>3, <1>4, <1>8 DEF Budget, Urgent, Calling, WorkPlaces, Prompt
<1>9. CASE work[r] /\ pc[r] = "stopping"
    BY <1>1, <1>2, <1>3, <1>4, <1>9 DEF Budget, Urgent, Calling, WorkPlaces
<1> QED
    BY <1>1, <1>5, <1>6, <1>7, <1>8, <1>9 DEF Budget, WorkPlaces

\* A step of r keeps its own budget.
LEMMA OwnBudget ==
    ASSUME Prompt, TypeOK, Budgets, NEW r \in Replicas,
           \/ Start(r) \/ Proceed(r) \/ CallbackReturns(r)
           \/ CallFails(r) \/ Shutdown(r) \/ Crash(r)
    PROVE  Budget(r)'
<1> USE ConstantsAssumption DEF Budget, Goto, Answer, Forget, lease, call, clock, Calling, WorkPlaces
<1>1. Budget(r)
    BY DEF Budgets
<1>2. /\ ttl \in Nat /\ age[r] \in Nat /\ phase[r] \in 1 .. Third
      /\ due[r] \in BOOLEAN /\ work[r] \in BOOLEAN
      /\ Ttl = 3 * Third
    BY DEF TypeOK, Ttl
<1>3. CASE Start(r)
    BY <1>1, <1>2, <1>3 DEF TypeOK, Start
<1>4. CASE Campaign(r)
    BY <1>1, <1>2, <1>4 DEF TypeOK, Campaign
<1>5. CASE SetNX(r)
    BY <1>1, <1>2, <1>5 DEF TypeOK, SetNX, Granted, Period
<1>6. CASE Lead(r)
    BY <1>1, <1>2, <1>6 DEF TypeOK, Lead, Granted, Period, Prompt
<1>7. CASE Refused(r)
    BY <1>1, <1>2, <1>7 DEF TypeOK, Refused
<1>8. CASE Wait(r)
    BY <1>1, <1>2, <1>8 DEF TypeOK, Wait
<1>9. CASE RenewalDue(r)
    BY <1>1, <1>2, <1>9 DEF TypeOK, RenewalDue
<1>10. CASE Renew(r)
    BY <1>1, <1>2, <1>10 DEF TypeOK, Renew, Holds
<1>11. CASE Renewed(r)
    BY <1>1, <1>2, <1>11 DEF TypeOK, Renewed, Prompt
<1>12. CASE Resign(r)
    BY <1>1, <1>2, <1>12 DEF TypeOK, Resign, Prompt
<1>13. CASE Stopped(r)
    BY <1>1, <1>2, <1>13 DEF TypeOK, Stopped
<1>14. CASE Release(r)
    BY <1>1, <1>2, <1>14 DEF TypeOK, Release, MayDelete
<1>15. CASE Again(r)
    BY <1>1, <1>2, <1>15 DEF TypeOK, Again
<1>16. CASE CallbackReturns(r)
    BY <1>1, <1>2, <1>16 DEF TypeOK, CallbackReturns
<1>17. CASE CallFails(r)
    BY <1>1, <1>2, <1>17 DEF TypeOK, CallFails, Prompt
<1>18. CASE Shutdown(r)
    BY <1>1, <1>2, <1>18 DEF TypeOK, Shutdown
<1>19. CASE Crash(r)
    BY <1>1, <1>2, <1>19 DEF TypeOK, Crash
<1> QED
    BY <1>3, <1>4, <1>5, <1>6, <1>7, <1>8, <1>9, <1>10, <1>11, <1>12, <1>13, <1>14, <1>15, <1>16, <1>17, <1>18, <1>19 DEF Proceed

\* It leaves the place, the timers and the lease of every other replica alone.
LEMMA OthersUntouched ==
    ASSUME TypeOK, Budgets, NEW r \in Replicas, NEW s \in Replicas, s # r,
           \/ Start(r) \/ Proceed(r) \/ CallbackReturns(r)
           \/ CallFails(r) \/ Shutdown(r) \/ Crash(r)
    PROVE  Budget(s)'
<1>1. /\ pc'[s] = pc[s] /\ reply'[s] = reply[s] /\ age'[s] = age[s]
      /\ phase'[s] = phase[s] /\ due'[s] = due[s] /\ work'[s] = work[s]
      /\ owner = s => owner' = owner /\ ttl' = ttl
  <2> USE ConstantsAssumption DEF TypeOK, Goto, Answer, Forget, lease, call, clock
  <2>1. CASE Start(r)
    BY <2>1 DEF Start
  <2>2. CASE Campaign(r)
    BY <2>2 DEF Campaign
  <2>3. CASE SetNX(r)
    BY <2>3 DEF SetNX
  <2>4. CASE Lead(r)
    BY <2>4 DEF Lead
  <2>5. CASE Refused(r)
    BY <2>5 DEF Refused
  <2>6. CASE Wait(r)
    BY <2>6 DEF Wait
  <2>7. CASE RenewalDue(r)
    BY <2>7 DEF RenewalDue
  <2>8. CASE Renew(r)
    BY <2>8 DEF Renew, Holds
  <2>9. CASE Renewed(r)
    BY <2>9 DEF Renewed
  <2>10. CASE Resign(r)
    BY <2>10 DEF Resign
  <2>11. CASE Stopped(r)
    BY <2>11 DEF Stopped
  <2>12. CASE Release(r)
    BY <2>12 DEF Release, MayDelete
  <2>13. CASE Again(r)
    BY <2>13 DEF Again
  <2>14. CASE CallbackReturns(r)
    BY <2>14 DEF CallbackReturns
  <2>15. CASE CallFails(r)
    BY <2>15 DEF CallFails
  <2>16. CASE Shutdown(r)
    BY <2>16 DEF Shutdown
  <2>17. CASE Crash(r)
    BY <2>17 DEF Crash
  <2> QED
    BY <2>1, <2>2, <2>3, <2>4, <2>5, <2>6, <2>7, <2>8, <2>9, <2>10, <2>11, <2>12, <2>13, <2>14, <2>15, <2>16, <2>17 DEF Proceed
<1> QED
    BY <1>1, OthersKept

LEMMA NextBudgets == ASSUME Prompt, TypeOK, Budgets, [Next]_vars PROVE Budgets'
<1>1. CASE UNCHANGED vars
    BY <1>1 DEF vars, Budgets, Budget
<1>2. CASE Tick
    BY <1>2, TickBudgets
<1>3. ASSUME NEW r \in Replicas,
             \/ Start(r) \/ Proceed(r) \/ CallbackReturns(r)
             \/ CallFails(r) \/ Shutdown(r) \/ Crash(r)
      PROVE  Budgets'
    BY <1>3, OwnBudget, OthersUntouched DEF Budgets
<1> QED
    BY <1>1, <1>2, <1>3 DEF Next

\* If calls and callbacks are prompt enough for the ttl, a callback runs only
\* while its replica owns the key, for every ttl, every number of replicas and
\* every number of crashes, shutdowns and failed calls (leader.go:26).
THEOREM OwnersWork == ASSUME Prompt PROVE Spec => []OnlyOwnerWorks
<1>1. Init => TypeOK /\ Budgets
    BY InitTypeOK, InitBudgets
<1>2. TypeOK /\ Budgets /\ [Next]_vars => (TypeOK /\ Budgets)'
    BY NextTypeOK, NextBudgets
<1>3. Budgets => OnlyOwnerWorks
    BY DEF Budgets, Budget, OnlyOwnerWorks
<1> QED
    BY <1>1, <1>2, <1>3, PTL DEF Spec

\* Whatever the times, the key disappears only when it expires or when its
\* owner releases it (lock.go:11).
THEOREM OwnersUnlock == Spec => OnlyOwnerUnlocks
<1>1. ASSUME TypeOK, [Next]_vars, NEW r \in Replicas, owner = r, owner' = NoOne
      PROVE  ttl = 1 \/ pc[r] = "releasing"
  <2> USE <1>1, ConstantsAssumption DEF TypeOK, Forget, lease
  <2>1. CASE UNCHANGED vars
    BY <2>1 DEF vars
  <2>2. CASE Tick
    BY <2>2 DEF Tick
  <2>3. ASSUME NEW s \in Replicas,
               \/ Start(s) \/ Campaign(s) \/ SetNX(s) \/ Lead(s) \/ Refused(s)
               \/ Wait(s) \/ RenewalDue(s) \/ Renew(s) \/ Renewed(s) \/ Resign(s)
               \/ Stopped(s) \/ Again(s) \/ CallbackReturns(s) \/ CallFails(s)
               \/ Shutdown(s) \/ Crash(s)
        PROVE  FALSE
    BY <2>3 DEF Start, Campaign, SetNX, Lead, Refused, Wait, RenewalDue, Renew, Renewed,
                Resign, Stopped, Again, CallbackReturns, CallFails, Shutdown, Crash
  <2>4. ASSUME NEW s \in Replicas, Release(s) PROVE pc[r] = "releasing"
    BY <2>4 DEF Release, MayDelete
  <2> QED
    BY <2>1, <2>2, <2>3, <2>4 DEF Next, Proceed
<1>2. TypeOK /\ [Next]_vars =>
        [\A r \in Replicas :
           owner = r /\ owner' = NoOne => ttl = 1 \/ pc[r] = "releasing"]_vars
    BY <1>1
<1> QED
    BY <1>2, TypeCorrect, PTL DEF Spec, OnlyOwnerUnlocks
=============================================================================
