------------------------------ MODULE MailJobs ------------------------------
(***************************************************************************)
(* Mail jobs of the worker (services/worker/internal/consumer.go): the     *)
(* entries of stream mail.jobs in the consumer group "workers", the ledger *)
(* audit.processed_messages, the Redis attempt counters and sent markers,  *)
(* the dead-letter stream, and the goroutines that read, reclaim and       *)
(* handle batches one database, Redis or SMTP call at a time.              *)
(***************************************************************************)
EXTENDS Naturals, FiniteSets

CONSTANTS
    Workers,      \* goroutines of all replicas, reading or reclaiming
    NumJobs,      \* bound on the jobs published
    Invalid,      \* jobs whose payload fails the schema validation
    ReadCount,    \* COUNT of XREADGROUP
    MaxAttempts,  \* dlqMax
    MaxFaults,    \* bound on failed calls, crashes and lapsed counters
    Slow          \* may a batch take longer than the reclaim idle time?

Jobs == 1 .. NumJobs

ASSUME ConstantsAssumption ==
    /\ NumJobs \in Nat /\ MaxFaults \in Nat
    /\ ReadCount \in Nat \ {0} /\ MaxAttempts \in Nat \ {0}
    /\ Invalid \subseteq Jobs
    /\ Slow \in BOOLEAN

VARIABLES
    entry,     \* entry[j]: not published, queued in the group, pending, acked
    ledger,    \* jobs in audit.processed_messages
    attempts,  \* attempts[j]: worker:attempts:<j>
    marker,    \* jobs with a key worker:sent:<j>
    parked,    \* jobs copied to the dead-letter stream
    pc,        \* what each worker does next
    batch,     \* batch[w]: the jobs it has still to handle
    cur,       \* cur[w]: the job it is handling, 0 when none
    att,       \* att[w]: the attempt number it read for that job
    done,      \* done[w]: the jobs it will acknowledge
    sent,      \* sent[j]: mails that left for job j
    faults,    \* faults left of MaxFaults
    \* history of the run, read by no action
    doubtful,  \* jobs whose mail left although Send reported a failure
    cut,       \* jobs whose marker was set by a send that never happened
    dropped    \* jobs whose copy to the dead-letter stream failed

vars == <<entry, ledger, attempts, marker, parked, pc, batch, cur, att, done,
          sent, faults, doubtful, cut, dropped>>
worker  == <<batch, cur, att, done>>
history == <<doubtful, cut, dropped>>

TypeOK ==
    /\ entry \in [Jobs -> {"none", "queued", "pending", "acked"}]
    /\ ledger \in SUBSET Jobs
    /\ attempts \in [Jobs -> Nat]
    /\ marker \in SUBSET Jobs
    /\ parked \in SUBSET Jobs
    /\ pc \in [Workers -> {"idle", "next", "bump", "mark", "send", "unmark",
                           "record", "failed"}]
    /\ batch \in [Workers -> SUBSET Jobs]
    /\ cur \in [Workers -> Jobs \cup {0}]
    /\ \A w \in Workers : pc[w] \notin {"idle", "next"} => cur[w] \in Jobs
    /\ att \in [Workers -> Nat]
    /\ done \in [Workers -> SUBSET Jobs]
    /\ sent \in [Jobs -> Nat]
    /\ faults \in 0 .. MaxFaults
    /\ doubtful \in SUBSET Jobs
    /\ cut \in SUBSET Jobs
    /\ dropped \in SUBSET Jobs

Init ==
    /\ entry = [j \in Jobs |-> "none"]
    /\ ledger = {} /\ marker = {} /\ parked = {}
    /\ attempts = [j \in Jobs |-> 0]
    /\ pc = [w \in Workers |-> "idle"]
    /\ batch = [w \in Workers |-> {}]
    /\ cur = [w \in Workers |-> 0]
    /\ att = [w \in Workers |-> 0]
    /\ done = [w \in Workers |-> {}]
    /\ sent = [j \in Jobs |-> 0]
    /\ faults = MaxFaults
    /\ doubtful = {} /\ cut = {} /\ dropped = {}

-----------------------------------------------------------------------------
Goto(w, l) == pc' = [pc EXCEPT ![w] = l]

Fault == faults > 0 /\ faults' = faults - 1

Queued  == {j \in Jobs : entry[j] = "queued"}

\* A slip: entries a dead worker had not started are left out.
StartedPending == {j \in Jobs : entry[j] = "pending" /\ attempts[j] > 0}

Pending == {j \in Jobs : entry[j] = "pending"}

\* The jobs a worker still holds in memory.
Held(w) == batch[w] \cup done[w] \cup ({cur[w]} \ {0})

\* auth appends a job; the ids of a stream grow.
Publish(j) ==
    /\ entry[j] = "none" /\ \A k \in Jobs : k < j => entry[k] # "none"
    /\ entry' = [entry EXCEPT ![j] = "queued"]
    /\ UNCHANGED <<ledger, attempts, marker, parked, pc, worker, sent, faults, history>>

\* XREADGROUP: the oldest ReadCount undelivered entries become pending.
Read(w) ==
    /\ pc[w] = "idle"
    /\ \E S \in SUBSET Queued :
          /\ S # {} /\ Cardinality(S) <= ReadCount
          /\ S # Queued => Cardinality(S) = ReadCount
          /\ \A j \in S, k \in Queued \ S : j < k
          /\ entry' = [j \in Jobs |-> IF j \in S THEN "pending" ELSE entry[j]]
          /\ batch' = [batch EXCEPT ![w] = S]
    /\ Goto(w, "next")
    /\ UNCHANGED <<ledger, attempts, marker, parked, cur, att, done, sent, faults, history>>

\* XAUTOCLAIM: the pending entries that have been idle for minIdle.
Reclaim(w) ==
    /\ pc[w] = "idle"
    /\ \E S \in SUBSET Pending :
          /\ S # {}
          /\ Slow \/ \A v \in Workers : S \cap Held(v) = {}
          /\ batch' = [batch EXCEPT ![w] = S]
    /\ Goto(w, "next")
    /\ UNCHANGED <<entry, ledger, attempts, marker, parked, cur, att, done, sent, faults, history>>

-----------------------------------------------------------------------------
(* processWithDB                                                           *)

\* The handling of the current job ends; acknowledge it or leave it pending.
Finish(w, ack) ==
    /\ Goto(w, "next")
    /\ done' = IF ack THEN [done EXCEPT ![w] = @ \cup {cur[w]}] ELSE done
    /\ cur' = [cur EXCEPT ![w] = 0]
    /\ att' = [att EXCEPT ![w] = 0]
    /\ UNCHANGED batch

\* The next job in id order; the ledger says whether it was handled before.  A
\* failed SELECT counts as no.
NextJob(w) ==
    /\ pc[w] = "next"
    /\ \E j \in batch[w] :
          /\ \A k \in batch[w] : j <= k
          /\ batch' = [batch EXCEPT ![w] = @ \ {j}]
          /\ \/ /\ j \in ledger
                /\ done' = [done EXCEPT ![w] = @ \cup {j}]
                /\ UNCHANGED <<pc, cur, faults>>
             \/ /\ \/ j \notin ledger /\ UNCHANGED faults
                   \/ j \in ledger /\ Fault
                /\ cur' = [cur EXCEPT ![w] = j]
                /\ Goto(w, "bump")
                /\ UNCHANGED done
    /\ UNCHANGED <<entry, ledger, attempts, marker, parked, att, sent, history>>

\* bumpAttempts: a failed INCR counts as the first attempt.
BumpAttempts(w) ==
    LET j == cur[w] IN
    /\ pc[w] = "bump"
    /\ \/ /\ attempts' = [attempts EXCEPT ![j] = @ + 1]
          /\ att' = [att EXCEPT ![w] = attempts[j] + 1]
          /\ UNCHANGED faults
       \/ Fault /\ att' = [att EXCEPT ![w] = 1] /\ UNCHANGED attempts
    /\ Goto(w, "mark")
    /\ UNCHANGED <<entry, ledger, marker, parked, batch, cur, done, sent, history>>

\* A slip: the marker is set, but an earlier one is not looked at.
NeverMarked(j) == FALSE

\* SETNX finds the marker of an earlier attempt.
Marked(j) == j \in marker

\* handleEmail up to the send: the marker is set first, then the payload is
\* validated.
SetMarker(w) ==
    LET j == cur[w] IN
    /\ pc[w] = "mark"
    /\ \/ Fault /\ Goto(w, "failed") /\ UNCHANGED marker
       \/ Marked(j) /\ Goto(w, "record") /\ UNCHANGED <<faults, marker>>
       \/ /\ ~ Marked(j)
          /\ marker' = marker \cup {j}
          /\ Goto(w, IF j \in Invalid THEN "failed" ELSE "send")
          /\ UNCHANGED faults
    /\ UNCHANGED <<entry, ledger, attempts, parked, worker, sent, history>>

\* The mailer accepts the mail, refuses it, or reports a failure although the
\* mail has left.
Send(w) ==
    LET j == cur[w] IN
    /\ pc[w] = "send"
    /\ \/ /\ sent' = [sent EXCEPT ![j] = @ + 1]
          /\ Goto(w, "record")
          /\ UNCHANGED <<faults, doubtful>>
       \/ Fault /\ Goto(w, "unmark") /\ UNCHANGED <<sent, doubtful>>
       \/ /\ Fault
          /\ sent' = [sent EXCEPT ![j] = @ + 1]
          /\ doubtful' = doubtful \cup {j}
          /\ Goto(w, "unmark")
    /\ UNCHANGED <<entry, ledger, attempts, marker, parked, worker, cut, dropped>>

\* A slip: a failed send keeps its marker.
KeptMarker(j) == marker

\* DEL of the marker.
ClearedMarker(j) == marker \ {j}

\* The retry is allowed to send again; a failed DEL is ignored.
Unmark(w) ==
    LET j == cur[w] IN
    /\ pc[w] = "unmark"
    /\ \/ marker' = ClearedMarker(j) /\ UNCHANGED <<faults, cut>>
       \/ Fault /\ cut' = cut \cup {j} /\ UNCHANGED marker
    /\ Goto(w, "failed")
    /\ UNCHANGED <<entry, ledger, attempts, parked, worker, sent, doubtful, dropped>>

Checkpoint(w) == ledger \cup {cur[w]}

\* The checkpoint of a handled job.
Record(w) ==
    /\ pc[w] = "record"
    /\ \/ ledger' = Checkpoint(w) /\ Finish(w, TRUE) /\ UNCHANGED faults
       \/ Fault /\ Goto(w, "failed") /\ UNCHANGED <<ledger, worker>>
    /\ UNCHANGED <<entry, attempts, marker, parked, sent, history>>

Exhausted(w) == att[w] >= MaxAttempts

\* A failed job stays pending, or moves to the dead-letter stream, where a
\* failed XADD is ignored.
FailJob(w) ==
    /\ pc[w] = "failed"
    /\ \/ ~ Exhausted(w) /\ Finish(w, FALSE) /\ UNCHANGED <<parked, faults, dropped>>
       \/ /\ Exhausted(w)
          /\ Finish(w, TRUE)
          /\ \/ parked' = parked \cup {cur[w]} /\ UNCHANGED <<faults, dropped>>
             \/ Fault /\ dropped' = dropped \cup {cur[w]} /\ UNCHANGED parked
    /\ UNCHANGED <<entry, ledger, attempts, marker, sent, doubtful, cut>>

\* ackBatch: XACK and DEL of the attempt counters; a failure is only logged.
AckBatch(w) ==
    /\ pc[w] = "next" /\ batch[w] = {}
    /\ \/ /\ entry' = [j \in Jobs |-> IF j \in done[w] THEN "acked" ELSE entry[j]]
          /\ attempts' = [j \in Jobs |-> IF j \in done[w] THEN 0 ELSE attempts[j]]
          /\ UNCHANGED faults
       \/ done[w] # {} /\ Fault /\ UNCHANGED <<entry, attempts>>
    /\ done' = [done EXCEPT ![w] = {}]
    /\ Goto(w, "idle")
    /\ UNCHANGED <<ledger, marker, parked, batch, cur, att, sent, history>>

\* The replica dies, or its context is cancelled: nothing it holds is acked.
Crash(w) ==
    /\ Fault
    /\ pc[w] # "idle"
    /\ Goto(w, "idle")
    /\ batch' = [batch EXCEPT ![w] = {}]
    /\ done' = [done EXCEPT ![w] = {}]
    /\ cur' = [cur EXCEPT ![w] = 0]
    /\ att' = [att EXCEPT ![w] = 0]
    /\ cut' = IF pc[w] \in {"send", "unmark"} THEN cut \cup {cur[w]} ELSE cut
    /\ UNCHANGED <<entry, ledger, attempts, marker, parked, sent, doubtful, dropped>>

\* The counter of a job that has been failing for an hour lapses.
AttemptsLapse(j) ==
    /\ Fault
    /\ attempts[j] > 0
    /\ attempts' = [attempts EXCEPT ![j] = 0]
    /\ UNCHANGED <<entry, ledger, marker, parked, pc, worker, sent, history>>

-----------------------------------------------------------------------------
Step(w) ==
    \/ NextJob(w) \/ BumpAttempts(w) \/ SetMarker(w) \/ Send(w) \/ Unmark(w)
    \/ Record(w) \/ FailJob(w) \/ AckBatch(w)

Consume(w) == Read(w) \/ Reclaim(w) \/ Step(w)

Next ==
    \/ \E j \in Jobs : Publish(j) \/ AttemptsLapse(j)
    \/ \E w \in Workers : Consume(w) \/ Crash(w)

Spec == Init /\ [][Next]_vars

\* The read and reclaim loops run for ever and every call returns.
FairSpec == Spec /\ \A w \in Workers : WF_vars(Consume(w))

-----------------------------------------------------------------------------
(* Properties                                                              *)

\* A job's mail leaves at most once, however often the job is redelivered and
\* however many workers hold it, unless a mailer reported a failure for a mail
\* that had left.
NoDoubleMail == \A j \in Jobs : sent[j] > 1 => j \in doubtful

\* A job is acknowledged only when its mail left or it is in the dead-letter
\* stream, save for three losses the code accepts: a send cut short after its
\* marker was set, a dead-letter copy that failed, an invalid payload.
NothingElseIsLost ==
    \A j \in Jobs : entry[j] = "acked" =>
        sent[j] > 0 \/ j \in parked \cup cut \cup dropped \cup Invalid

\* Every job is settled: acknowledged, whatever failed on the way.
EveryJobSettles == \A j \in Jobs : entry[j] = "queued" ~> entry[j] = "acked"
=============================================================================
