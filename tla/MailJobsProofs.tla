--------------------------- MODULE MailJobsProofs ---------------------------
(***************************************************************************)
(* Theorems about MailJobs, for every number of workers, jobs, attempts    *)
(* and faults.                                                             *)
(***************************************************************************)
EXTENDS MailJobs, TLAPS

LEMMA TypeInit == Init => TypeOK
  BY ConstantsAssumption DEF Init, TypeOK, Jobs

LEMMA TypeStep == TypeOK /\ [Next]_vars => TypeOK'
<1> SUFFICES ASSUME TypeOK, [Next]_vars PROVE TypeOK'
  OBVIOUS
<1> USE ConstantsAssumption DEF TypeOK, worker, history, Goto, Fault
<1>1. ASSUME NEW j \in Jobs, Publish(j) \/ AttemptsLapse(j) PROVE TypeOK'
  BY <1>1 DEF Publish, AttemptsLapse
<1>2. ASSUME NEW w \in Workers, Read(w) PROVE TypeOK'
  BY <1>2 DEF Read, Queued
<1>3. ASSUME NEW w \in Workers, Reclaim(w) PROVE TypeOK'
  BY <1>3 DEF Reclaim, Pending
<1>4. ASSUME NEW w \in Workers, NextJob(w) PROVE TypeOK'
  BY <1>4 DEF NextJob
<1>5. ASSUME NEW w \in Workers, BumpAttempts(w) PROVE TypeOK'
  BY <1>5 DEF BumpAttempts
<1>6. ASSUME NEW w \in Workers, SetMarker(w) PROVE TypeOK'
  BY <1>6 DEF SetMarker
<1>7. ASSUME NEW w \in Workers, Send(w) PROVE TypeOK'
  BY <1>7 DEF Send
<1>8. ASSUME NEW w \in Workers, Unmark(w) PROVE TypeOK'
  BY <1>8 DEF Unmark, ClearedMarker
<1>9. ASSUME NEW w \in Workers, Record(w) PROVE TypeOK'
  BY <1>9 DEF Record, Checkpoint, Finish
<1>10. ASSUME NEW w \in Workers, FailJob(w) PROVE TypeOK'
  BY <1>10 DEF FailJob, Finish
<1>11. ASSUME NEW w \in Workers, AckBatch(w) PROVE TypeOK'
  BY <1>11 DEF AckBatch
<1>12. ASSUME NEW w \in Workers, Crash(w) PROVE TypeOK'
  BY <1>12 DEF Crash
<1>13. CASE UNCHANGED vars
  BY <1>13 DEF vars
<1> QED
  BY <1>1, <1>2, <1>3, <1>4, <1>5, <1>6, <1>7, <1>8, <1>9, <1>10, <1>11, <1>12, <1>13
  DEF Next, Consume, Step

\* The type invariant: the calls of every worker keep entries, ledger, counters
\* and batches well formed.
THEOREM TypeCorrect == Spec => []TypeOK
  BY TypeInit, TypeStep, PTL DEF Spec

-----------------------------------------------------------------------------
(* One send per job                                                        *)

Sending(w, j) == pc[w] \in {"send", "unmark"} /\ cur[w] = j

\* NoDoubleMail holds because the marker admits one sender at a time, and stays
\* once a mail has left for certain.
SendInv ==
    /\ NoDoubleMail
    /\ \A w \in Workers, j \in Jobs : Sending(w, j) => j \in marker
    /\ \A v, w \in Workers, j \in Jobs : Sending(v, j) /\ Sending(w, j) => v = w
    /\ \A j \in Jobs : sent[j] > 0 /\ j \notin doubtful =>
          j \in marker /\ \A w \in Workers : ~ Sending(w, j)

LEMMA SendInit == Init => SendInv
  BY DEF Init, SendInv, NoDoubleMail, Sending

LEMMA SendStep == TypeOK /\ SendInv /\ [Next]_vars => SendInv'
<1> SUFFICES ASSUME TypeOK, SendInv, [Next]_vars PROVE SendInv'
  OBVIOUS
<1> USE DEF TypeOK, SendInv, NoDoubleMail, worker, history, Goto
<1>1. ASSUME UNCHANGED <<marker, sent, doubtful>>,
             \A w \in Workers, j \in Jobs : Sending(w, j)' => Sending(w, j)
      PROVE  SendInv'
  BY <1>1
<1>2. ASSUME NEW w \in Workers, SetMarker(w) PROVE SendInv'
  <2> DEFINE j == cur[w]
  <2>1. j \in Jobs /\ UNCHANGED <<cur, sent, doubtful>>
    BY <1>2 DEF SetMarker
  <2>2. CASE marker' = marker /\ pc' \in {[pc EXCEPT ![w] = "failed"], [pc EXCEPT ![w] = "record"]}
    BY <1>1, <1>2, <2>1, <2>2 DEF Sending
  <2>3. CASE j \notin marker /\ marker' = marker \cup {j}
             /\ pc' \in {[pc EXCEPT ![w] = "failed"], [pc EXCEPT ![w] = "send"]}
    <3>1. \A v \in Workers, k \in Jobs : Sending(v, k)' => Sending(v, k) \/ (v = w /\ k = j)
      BY <2>1, <2>3 DEF Sending
    <3>2. sent[j] > 0 => j \in doubtful
      BY <2>1, <2>3
    <3>3. \A v \in Workers : ~ Sending(v, j)
      BY <2>1, <2>3
    <3> QED
      BY <2>1, <2>3, <3>1, <3>2, <3>3
  <2> QED
    BY <1>2, <2>2, <2>3 DEF SetMarker, Marked
<1>3. ASSUME NEW w \in Workers, Send(w) PROVE SendInv'
  <2> DEFINE j == cur[w]
  <2>1. j \in Jobs /\ Sending(w, j) /\ UNCHANGED <<cur, marker>> /\ doubtful \subseteq doubtful'
    BY <1>3 DEF Send, Sending
  <2>2. \A v \in Workers, k \in Jobs : Sending(v, k)' => Sending(v, k)
    BY <1>3, <2>1 DEF Send, Sending
  <2>3. \A v \in Workers : Sending(v, j) => v = w
    BY <2>1
  <2>4. CASE sent' = [sent EXCEPT ![j] = @ + 1] /\ pc' = [pc EXCEPT ![w] = "record"]
    <3>1. sent[j] = 0 \/ j \in doubtful
      BY <2>1
    <3>2. \A v \in Workers : ~ Sending(v, j)'
      BY <2>1, <2>2, <2>3, <2>4 DEF Sending
    <3> QED
      BY <2>1, <2>2, <2>4, <3>1, <3>2
  <2>5. CASE sent' = [sent EXCEPT ![j] = @ + 1] /\ doubtful' = doubtful \cup {j}
    BY <2>1, <2>2, <2>5
  <2>6. CASE UNCHANGED <<sent, doubtful>>
    BY <1>1, <2>1, <2>2, <2>6
  <2> QED
    BY <1>3, <2>4, <2>5, <2>6 DEF Send
<1>4. ASSUME NEW w \in Workers, Unmark(w) PROVE SendInv'
  <2> DEFINE j == cur[w]
  <2>1. j \in Jobs /\ Sending(w, j) /\ UNCHANGED <<cur, sent, doubtful>>
        /\ pc' = [pc EXCEPT ![w] = "failed"]
    BY <1>4 DEF Unmark, Sending
  <2>2. \A v \in Workers, k \in Jobs : Sending(v, k)' => Sending(v, k) /\ v # w
    BY <2>1 DEF Sending
  <2>3. \A v \in Workers : ~ Sending(v, j)'
    BY <2>1, <2>2
  <2>4. sent[j] > 0 => j \in doubtful
    BY <2>1
  <2>5. \A k \in Jobs : k # j /\ k \in marker => k \in marker'
    BY <1>4 DEF Unmark, ClearedMarker
  <2> QED
    BY <2>1, <2>2, <2>3, <2>4, <2>5
<1>5. ASSUME NEW j \in Jobs, Publish(j) \/ AttemptsLapse(j) PROVE SendInv'
  BY <1>1, <1>5 DEF Publish, AttemptsLapse, Sending
<1>6. ASSUME NEW w \in Workers, Read(w) \/ Reclaim(w) \/ NextJob(w) \/ BumpAttempts(w)
      PROVE  SendInv'
  BY <1>1, <1>6 DEF Read, Reclaim, NextJob, BumpAttempts, Sending
<1>7. ASSUME NEW w \in Workers, Record(w) \/ FailJob(w) \/ AckBatch(w) \/ Crash(w)
      PROVE  SendInv'
  BY <1>1, <1>7 DEF Record, FailJob, AckBatch, Crash, Finish, Sending
<1>8. CASE UNCHANGED vars
  BY <1>1, <1>8 DEF vars, Sending
<1> QED
  BY <1>2, <1>3, <1>4, <1>5, <1>6, <1>7, <1>8 DEF Next, Consume, Step

\* A job's mail leaves at most once unless a mailer reported a failure for a mail
\* that had left: through any redelivery, crash, failed call or lapsed counter,
\* and however long a batch takes.
THEOREM MailOnce == Spec => []NoDoubleMail
<1>1. Spec => [](TypeOK /\ SendInv)
  BY TypeInit, TypeStep, SendInit, SendStep, PTL DEF Spec
<1> QED
  BY <1>1, PTL DEF SendInv

-----------------------------------------------------------------------------
(* No job is lost but for the accepted losses                              *)

Holds(w, j) == j \in batch[w] \/ j \in done[w] \/ j = cur[w]

\* A pending job is held by one worker at most, which is what a reclaim idle
\* time longer than any batch buys.
HeldInv ==
    /\ \A w \in Workers, j \in Jobs : Holds(w, j) => entry[j] = "pending"
    /\ \A v, w \in Workers, j \in Jobs : Holds(v, j) /\ Holds(w, j) => v = w
    /\ \A w \in Workers, j \in Jobs : pc[w] = "idle" => ~ Holds(w, j)
    /\ \A w \in Workers : pc[w] = "next" => cur[w] = 0

LEMMA HeldInit == Init => HeldInv
  BY DEF Init, HeldInv, Holds, Jobs

LEMMA HeldStep ==
    ASSUME ~ Slow
    PROVE  TypeOK /\ HeldInv /\ [Next]_vars => HeldInv'
<1> SUFFICES ASSUME TypeOK, HeldInv, [Next]_vars PROVE HeldInv'
  OBVIOUS
<1> USE DEF TypeOK, HeldInv, worker, history, Goto
<1>0. \A j \in Jobs : j # 0
  BY DEF Jobs
<1>1. ASSUME entry' = entry,
             \A w \in Workers, j \in Jobs : Holds(w, j)' => Holds(w, j),
             \A w \in Workers, j \in Jobs : pc'[w] = "idle" => ~ Holds(w, j)',
             \A w \in Workers : pc'[w] = "next" => cur'[w] = 0
      PROVE  HeldInv'
  BY <1>1
<1>2. ASSUME NEW j \in Jobs, Publish(j) \/ AttemptsLapse(j) PROVE HeldInv'
  BY <1>2 DEF Publish, AttemptsLapse, Holds
<1>3. ASSUME NEW w \in Workers, NEW S \in SUBSET Jobs, pc[w] = "idle", Goto(w, "next"),
             batch' = [batch EXCEPT ![w] = S], UNCHANGED <<cur, done>>,
             \A j \in Jobs : entry'[j] = IF j \in S THEN "pending" ELSE entry[j],
             \A j \in S, v \in Workers : ~ Holds(v, j)
      PROVE  HeldInv'
  <2>1. cur[w] \notin Jobs /\ done[w] = {}
    BY <1>3 DEF Holds
  <2>2. \A v \in Workers, j \in Jobs : Holds(v, j)' <=> IF v = w THEN j \in S ELSE Holds(v, j)
    BY <1>3, <2>1 DEF Holds
  <2>3. cur[w] = 0
    BY <2>1
  <2> QED
    BY <1>3, <2>2, <2>3
<1>4. ASSUME NEW w \in Workers, Read(w) PROVE HeldInv'
  <2>1. PICK S \in SUBSET Queued :
          /\ entry' = [j \in Jobs |-> IF j \in S THEN "pending" ELSE entry[j]]
          /\ batch' = [batch EXCEPT ![w] = S]
    BY <1>4 DEF Read
  <2>2. S \in SUBSET Jobs /\ \A j \in S, v \in Workers : ~ Holds(v, j)
    BY DEF Queued
  <2> QED
    BY <1>3, <1>4, <2>1, <2>2 DEF Read
<1>5. ASSUME NEW w \in Workers, Reclaim(w) PROVE HeldInv'
  <2>1. PICK S \in SUBSET Pending :
          /\ \A v \in Workers : S \cap Held(v) = {}
          /\ batch' = [batch EXCEPT ![w] = S]
    BY <1>5 DEF Reclaim
  <2>2. S \in SUBSET Jobs /\ \A j \in S, v \in Workers : ~ Holds(v, j)
    BY <1>0, <2>1 DEF Pending, Held, Holds
  <2>3. \A j \in Jobs : entry'[j] = IF j \in S THEN "pending" ELSE entry[j]
    BY <1>5 DEF Reclaim, Pending
  <2> QED
    BY <1>3, <1>5, <2>1, <2>2, <2>3 DEF Reclaim
<1>6. ASSUME NEW w \in Workers, NextJob(w) PROVE HeldInv'
  <2>1. \A v \in Workers, j \in Jobs : Holds(v, j)' => Holds(v, j)
    BY <1>6 DEF NextJob, Holds
  <2>2. \A v \in Workers, j \in Jobs : pc'[v] = "idle" => ~ Holds(v, j)'
    BY <1>6, <2>1 DEF NextJob
  <2>3. \A v \in Workers : pc'[v] = "next" => cur'[v] = 0
    BY <1>6 DEF NextJob
  <2> QED
    BY <1>1, <1>6, <2>1, <2>2, <2>3 DEF NextJob
<1>7. ASSUME NEW w \in Workers, NEW l, l \notin {"idle", "next"}, Goto(w, l),
             UNCHANGED <<entry, batch, cur, done>>
      PROVE  HeldInv'
  <2>1. \A v \in Workers, j \in Jobs : Holds(v, j)' <=> Holds(v, j)
    BY <1>7 DEF Holds
  <2>2. \A v \in Workers : pc'[v] \in {"idle", "next"} => pc'[v] = pc[v]
    BY <1>7
  <2> QED
    BY <1>1, <1>7, <2>1, <2>2
<1>8. ASSUME NEW w \in Workers, NEW ack \in BOOLEAN, Finish(w, ack), entry' = entry
      PROVE  HeldInv'
  <2>1. \A v \in Workers, j \in Jobs : Holds(v, j)' => Holds(v, j)
    BY <1>0, <1>8 DEF Finish, Holds
  <2>2. \A v \in Workers, j \in Jobs : pc'[v] = "idle" => ~ Holds(v, j)'
    BY <1>8, <2>1 DEF Finish
  <2>3. \A v \in Workers : pc'[v] = "next" => cur'[v] = 0
    BY <1>8 DEF Finish
  <2> QED
    BY <1>1, <1>8, <2>1, <2>2, <2>3
<1>9. ASSUME NEW w \in Workers, BumpAttempts(w) \/ SetMarker(w) \/ Send(w) \/ Unmark(w)
      PROVE  HeldInv'
  BY <1>7, <1>9 DEF BumpAttempts, SetMarker, Send, Unmark
<1>10. ASSUME NEW w \in Workers, Record(w) \/ FailJob(w) PROVE HeldInv'
  BY <1>7, <1>8, <1>10 DEF Record, FailJob
<1>11. ASSUME NEW w \in Workers, AckBatch(w) PROVE HeldInv'
  <2>1. \A v \in Workers, j \in Jobs : Holds(v, j)' => Holds(v, j) /\ v # w
    BY <1>0, <1>11 DEF AckBatch, Holds
  <2>2. \A v \in Workers, j \in Jobs : Holds(v, j)' => j \notin done[w]
    BY <2>1, <1>11 DEF Holds
  <2>3. \A v \in Workers, j \in Jobs : Holds(v, j)' => entry'[j] = "pending"
    BY <1>11, <2>1, <2>2 DEF AckBatch
  <2>4. \A v \in Workers, j \in Jobs : pc'[v] = "idle" => ~ Holds(v, j)'
    BY <1>11, <2>1 DEF AckBatch
  <2>5. \A v \in Workers : pc'[v] = "next" => cur'[v] = 0
    BY <1>11 DEF AckBatch
  <2> QED
    BY <2>1, <2>3, <2>4, <2>5
<1>12. ASSUME NEW w \in Workers, Crash(w) PROVE HeldInv'
  <2>1. \A v \in Workers, j \in Jobs : Holds(v, j)' => Holds(v, j) /\ v # w
    BY <1>0, <1>12 DEF Crash, Holds
  <2>2. \A v \in Workers : v # w => pc'[v] = pc[v] /\ cur'[v] = cur[v]
    BY <1>12 DEF Crash
  <2>3. cur'[w] = 0
    BY <1>12 DEF Crash
  <2> QED
    BY <1>1, <1>12, <2>1, <2>2, <2>3 DEF Crash
<1>13. CASE UNCHANGED vars
  BY <1>13 DEF vars, Holds
<1> QED
  BY <1>2, <1>4, <1>5, <1>6, <1>9, <1>10, <1>11, <1>12, <1>13 DEF Next, Consume, Step

\* What may become of a job that is settled.
Accounted(j) == sent[j] > 0 \/ j \in parked \cup cut \cup dropped \cup Invalid

\* NothingElseIsLost holds because whatever leads to an acknowledgement accounts
\* for its job: the ledger, a marker but for that of a send under way, and the
\* jobs a worker has finished.
LossInv ==
    /\ NothingElseIsLost
    /\ \A j \in ledger : Accounted(j)
    /\ \A w \in Workers : \A j \in done[w] : Accounted(j)
    /\ \A w \in Workers : pc[w] = "record" => Accounted(cur[w])
    /\ \A j \in marker : Accounted(j) \/ \E w \in Workers : Sending(w, j)

LEMMA LossInit == Init => LossInv
  BY DEF Init, LossInv, NothingElseIsLost

LEMMA LossStep ==
    TypeOK /\ HeldInv /\ LossInv /\ [Next]_vars => LossInv'
<1> SUFFICES ASSUME TypeOK, HeldInv, LossInv, [Next]_vars PROVE LossInv'
  OBVIOUS
<1> USE DEF TypeOK, LossInv, NothingElseIsLost, worker, history, Goto
<1>1. ASSUME NEW j \in Jobs, Publish(j) \/ AttemptsLapse(j) PROVE LossInv'
  BY <1>1 DEF Publish, AttemptsLapse, Accounted, Sending
<1>2. ASSUME NEW w \in Workers, Read(w) \/ Reclaim(w) PROVE LossInv'
  BY <1>2 DEF Read, Reclaim, Queued, Accounted, Sending
<1>3. ASSUME NEW w \in Workers, NextJob(w) PROVE LossInv'
  BY <1>3 DEF NextJob, Accounted, Sending
<1>4. ASSUME NEW w \in Workers, BumpAttempts(w) PROVE LossInv'
  BY <1>4 DEF BumpAttempts, Accounted, Sending
<1>5. ASSUME NEW w \in Workers, SetMarker(w) PROVE LossInv'
  <2> DEFINE j == cur[w]
  <2>1. j \in Jobs /\ \A k \in Jobs : Accounted(k)' <=> Accounted(k)
    BY <1>5 DEF SetMarker, Accounted
  <2>2. \A v \in Workers : v # w => ~ Sending(v, j)
    BY <1>5, <2>1 DEF HeldInv, Holds, Sending, SetMarker
  <2>3. ~ Sending(w, j)
    BY <1>5 DEF SetMarker, Sending
  <2>4. \A v \in Workers, k \in Jobs : Sending(v, k) => Sending(v, k)'
    BY <1>5 DEF SetMarker, Sending
  <2>5. CASE j \in marker
    BY <1>5, <2>1, <2>2, <2>3, <2>4, <2>5 DEF SetMarker, Marked
  <2>6. CASE j \notin marker /\ j \in Invalid
    BY <1>5, <2>1, <2>4, <2>6 DEF SetMarker, Marked, Accounted
  <2>7. CASE j \notin marker /\ j \notin Invalid
    <3>1. marker' \subseteq marker \cup {j}
      BY <1>5, <2>7 DEF SetMarker, Marked
    <3>2. j \in marker' => Sending(w, j)'
      BY <1>5, <2>7 DEF SetMarker, Marked, Sending
    <3> QED
      BY <1>5, <2>1, <2>4, <2>7, <3>1, <3>2 DEF SetMarker, Marked
  <2> QED
    BY <2>5, <2>6, <2>7
<1>6. ASSUME NEW w \in Workers, Send(w) PROVE LossInv'
  <2> DEFINE j == cur[w]
  <2>1. j \in Jobs /\ \A k \in Jobs : Accounted(k) => Accounted(k)'
    BY <1>6 DEF Send, Accounted
  <2>2. \A v \in Workers, k \in Jobs : Sending(v, k) => Sending(v, k)' \/ (v = w /\ Accounted(k)')
    BY <1>6 DEF Send, Sending, Accounted
  <2>3. pc'[w] = "record" => Accounted(j)'
    BY <1>6, <2>1 DEF Send, Accounted
  <2> QED
    BY <1>6, <2>1, <2>2, <2>3 DEF Send
<1>7. ASSUME NEW w \in Workers, Unmark(w) PROVE LossInv'
  <2> DEFINE j == cur[w]
  <2>1. j \in Jobs /\ \A k \in Jobs : Accounted(k) => Accounted(k)'
    BY <1>7 DEF Unmark, Accounted
  <2>2. \A v \in Workers, k \in Jobs : Sending(v, k) /\ k # j => Sending(v, k)'
    BY <1>7 DEF Unmark, Sending
  <2>3. j \in marker' => Accounted(j)'
    BY <1>7, <2>1 DEF Unmark, ClearedMarker, Accounted
  <2>4. marker' \subseteq marker
    BY <1>7 DEF Unmark, ClearedMarker
  <2> QED
    BY <1>7, <2>1, <2>2, <2>3, <2>4 DEF Unmark
<1>8. ASSUME NEW w \in Workers, Record(w) PROVE LossInv'
  <2>1. \A k \in Jobs : Accounted(k)' <=> Accounted(k)
    BY <1>8 DEF Record, Accounted
  <2>2. \A v \in Workers, k \in Jobs : Sending(v, k) => Sending(v, k)'
    BY <1>8 DEF Record, Finish, Sending
  <2> QED
    BY <1>8, <2>1, <2>2 DEF Record, Checkpoint, Finish
<1>9. ASSUME NEW w \in Workers, FailJob(w) PROVE LossInv'
  <2>1. \A k \in Jobs : Accounted(k) => Accounted(k)'
    BY <1>9 DEF FailJob, Accounted
  <2>2. \A v \in Workers, k \in Jobs : Sending(v, k) => Sending(v, k)'
    BY <1>9 DEF FailJob, Finish, Sending
  <2>3. \A k \in Jobs : k \in done'[w] => k \in done[w] \/ Accounted(k)'
    BY <1>9 DEF FailJob, Finish, Accounted
  <2> QED
    BY <1>9, <2>1, <2>2, <2>3 DEF FailJob, Finish
<1>10. ASSUME NEW w \in Workers, AckBatch(w) PROVE LossInv'
  BY <1>10 DEF AckBatch, Accounted, Sending
<1>11. ASSUME NEW w \in Workers, Crash(w) PROVE LossInv'
  <2>1. \A k \in Jobs : Accounted(k) => Accounted(k)'
    BY <1>11 DEF Crash, Accounted
  <2>2. \A v \in Workers, k \in Jobs : Sending(v, k) => Sending(v, k)' \/ Accounted(k)'
    BY <1>11 DEF Crash, Sending, Accounted
  <2> QED
    BY <1>11, <2>1, <2>2 DEF Crash
<1>12. CASE UNCHANGED vars
  BY <1>12 DEF vars, Accounted, Sending
<1> QED
  BY <1>1, <1>2, <1>3, <1>4, <1>5, <1>6, <1>7, <1>8, <1>9, <1>10, <1>11, <1>12
  DEF Next, Consume, Step

\* As long as no batch takes longer than the reclaim idle time, an acknowledged
\* mail job was sent or parked, or its payload was invalid, its send was cut short
\* after the marker was set, or its dead-letter copy failed.
THEOREM LossesAreAccepted ==
    ASSUME ~ Slow
    PROVE  Spec => []NothingElseIsLost
<1>1. Spec => [](TypeOK /\ HeldInv /\ LossInv)
  BY TypeInit, TypeStep, HeldInit, HeldStep, LossInit, LossStep, PTL DEF Spec
<1> QED
  BY <1>1, PTL DEF LossInv
=============================================================================
