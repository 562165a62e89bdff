------------------------------ MODULE WikiJobs ------------------------------
(***************************************************************************)
(* The wiki of one knowledge base: the jobs that summarise the active      *)
(* version of each document with a language model, within a token budget.  *)
(*                                                                         *)
(* A job has the key wiki:{version}, so jobs are named by their version.   *)
(* Every action is one transaction of wiki/processor.py, wiki/jobs.py or   *)
(* wiki/service.py, one call to the model, or one message of the queue;    *)
(* job and wiki_configs rows are locked FOR UPDATE.  The activation of a   *)
(* document version reads wiki_configs without a lock before it commits,   *)
(* and is two actions.                                                     *)
(*                                                                         *)
(* Abstractions: every job is estimated at the same number of tokens; the  *)
(* content of checkpoints and pages is left out (an active version has     *)
(* chunks, and its checkpoint parses); the outbox and the broker are one   *)
(* queue, whose delivery is the subject of Outbox.                         *)
(***************************************************************************)
EXTENDS Naturals, FiniteSets

CONSTANTS
  Versions,     \* document versions that are ever activated
  Workers,      \* Celery worker slots
  None,         \* the version of a free worker
  Limits,       \* values users choose for token_limit
  Estimate,     \* tokens reserved for one job
  Charges,      \* tokens one job may be charged in the end
  MaxAttempts,  \* wiki_jobs.max_attempts (3 in the code)
  MaxMessages,  \* bound on messages told apart for one job
  MaxFaults,    \* bound on faults
  Zombies       \* may the heartbeat of a job expire while a worker executes it?

ASSUME BoundsAssumption ==
  /\ IsFiniteSet(Versions)
  /\ Limits \subseteq Nat
  /\ Charges \subseteq Nat
  /\ Estimate \in Nat \ {0}
  /\ MaxAttempts \in Nat
  /\ MaxMessages \in Nat \ {0}
  /\ MaxFaults \in Nat
  /\ Zombies \in BOOLEAN
  /\ None \notin Versions

VARIABLES
  enabled,     \* wiki_configs.enabled
  limit,       \* token_limit
  reserved,    \* tokens_reserved
  charged,     \* tokens_charged
  active,      \* active versions of documents
  ready,       \* those whose document has status ready
  scheduling,  \* scheduling[v]: what the transaction activating v read of enabled
  status,      \* status[v]: wiki_jobs.status, "none" without a row
  attempt,     \* attempt_count
  held,        \* reserved_tokens of the job
  settled,     \* jobs with a checkpoint in payload and a row of wiki_token_usage
  stale,       \* running jobs whose heartbeat is 35 minutes old
  retried,     \* retried[v]: the attempt of its last wiki-retry key
  queue,       \* queue[v]: messages for v that are due
  retries,     \* jobs with a wiki-retry event that is not due
  lost,        \* history: jobs one of whose messages was lost
  pc,          \* pc[w]: next step of worker w
  ver,         \* ver[w]: the version it works on
  faults       \* faults so far

configVars == <<enabled, limit, reserved, charged>>
sourceVars == <<active, ready, scheduling>>
jobVars == <<status, attempt, held, settled, stale, retried>>
queueVars == <<queue, retries, lost>>
workerVars == <<pc, ver>>
vars == <<configVars, sourceVars, jobVars, queueVars, workerVars, faults>>
-----------------------------------------------------------------------------
Statuses == {"none", "pending", "running", "retry_wait", "paused_budget",
             "paused_disabled", "superseded", "succeeded", "failed"}
Waiting == {"pending", "retry_wait"}
Paused == {"paused_budget", "paused_disabled"}

\* Steps of WikiProcessor.run.
Executing == {"generate", "settle", "publish", "fail"}
Steps == {"idle", "claim"} \cup Executing

TypeOK ==
  /\ enabled \in BOOLEAN
  /\ limit \in Nat
  /\ reserved \in Nat
  /\ charged \in Nat
  /\ active \subseteq Versions
  /\ ready \subseteq active
  /\ scheduling \in [Versions -> {"no", "read_enabled", "read_disabled"}]
  /\ status \in [Versions -> Statuses]
  /\ attempt \in [Versions -> Nat]
  /\ held \in [Versions -> {0, Estimate}]
  /\ settled \subseteq Versions
  /\ stale \subseteq Versions
  /\ retried \in [Versions -> Nat]
  /\ queue \in [Versions -> 0..MaxMessages]
  /\ retries \subseteq Versions
  /\ lost \subseteq Versions
  /\ pc \in [Workers -> Steps]
  /\ ver \in [Workers -> Versions \cup {None}]
  /\ faults \in 0..MaxFaults

Init ==
  /\ enabled = FALSE
  /\ limit = 0
  /\ reserved = 0
  /\ charged = 0
  /\ active = {}
  /\ ready = {}
  /\ scheduling = [v \in Versions |-> "no"]
  /\ status = [v \in Versions |-> "none"]
  /\ attempt = [v \in Versions |-> 0]
  /\ held = [v \in Versions |-> 0]
  /\ settled = {}
  /\ stale = {}
  /\ retried = [v \in Versions |-> 0]
  /\ queue = [v \in Versions |-> 0]
  /\ retries = {}
  /\ lost = {}
  /\ pc = [w \in Workers |-> "idle"]
  /\ ver = [w \in Workers |-> None]
  /\ faults = 0
-----------------------------------------------------------------------------
Fault == faults < MaxFaults /\ faults' = faults + 1

\* A queue of n messages with one more; messages beyond the bound are merged.
OneMore(n) == IF n < MaxMessages THEN n + 1 ELSE n

\* The task ends and its message is acknowledged, also after an exception.
Ack(w) ==
  /\ pc' = [pc EXCEPT ![w] = "idle"]
  /\ ver' = [ver EXCEPT ![w] = None]

Goto(w, step) == pc' = [pc EXCEPT ![w] = step] /\ UNCHANGED ver

\* schedule_document_wiki for each of the given versions: where a job exists
\* the insert does nothing.
Schedule(versions) ==
  LET new == {v \in versions : status[v] = "none"} IN
    /\ status' = [v \in Versions |-> IF v \in new THEN "pending" ELSE status[v]]
    /\ queue' = [v \in Versions |-> IF v \in new THEN OneMore(queue[v]) ELSE queue[v]]

-----------------------------------------------------------------------------
\* The documents, as ingestion and deletion change them.

\* activate, up to the read of wiki_configs in schedule_document_wiki.
ActivateReads(v) ==
  /\ v \notin active
  /\ scheduling[v] = "no"
  /\ scheduling' = [scheduling EXCEPT ![v] = IF enabled THEN "read_enabled" ELSE "read_disabled"]
  /\ UNCHANGED <<configVars, active, ready, jobVars, queueVars, workerVars, faults>>

\* Its commit; v may replace the active version of its document.
ActivateCommits(v) ==
  /\ scheduling[v] # "no"
  /\ \E old \in active \cup {v} :
       /\ active' = (active \ {old}) \cup {v}
       /\ ready' = (ready \ {old}) \cup {v}
  /\ Schedule(IF scheduling[v] = "read_enabled" THEN {v} ELSE {})
  /\ scheduling' = [scheduling EXCEPT ![v] = "no"]
  /\ UNCHANGED <<configVars, attempt, held, settled, stale, retried, retries, lost,
                 workerVars, faults>>

\* The document of v leaves ready: another version of it is being ingested
\* (update_stage), or it is being deleted.
DocumentBusy(v) ==
  /\ v \in ready
  /\ ready' = ready \ {v}
  /\ UNCHANGED <<configVars, active, scheduling, jobVars, queueVars, workerVars, faults>>

\* The document has an active version, which a failed ingestion leaves alone.
StillUsable(v) == v \in active

\* The ingestion of the other version failed (mark_failed).
DocumentReadyAgain(v) ==
  /\ v \notin ready
  /\ StillUsable(v)
  /\ ready' = ready \cup {v}
  /\ UNCHANGED <<configVars, active, scheduling, jobVars, queueVars, workerVars, faults>>

-----------------------------------------------------------------------------
\* update_config: a switch of enabled, a new limit, or both.

\* Paused jobs become pending, each with a wiki-resume event, and the given
\* versions are scheduled.
Resume(versions) ==
  LET resumed == {v \in Versions : status[v] \in Paused}
      new == {v \in versions : status[v] = "none"} IN
    /\ status' = [v \in Versions |-> IF v \in new \cup resumed THEN "pending" ELSE status[v]]
    /\ queue' = [v \in Versions |-> IF v \in new \cup resumed THEN OneMore(queue[v])
                                    ELSE queue[v]]

\* Mutant: only what was charged limits a new token_limit.
LimitAboveCharged(l) == l >= charged

\* Otherwise token_limit_below_usage.
LimitAdmitted(l) == l >= charged + reserved

UpdateConfig(e, l) ==
  /\ l # limit => LimitAdmitted(l)
  /\ e /\ ~enabled => l > 0
  /\ enabled' = e
  /\ limit' = l
  /\ IF e /\ (~enabled \/ l > limit)
     THEN Resume(IF enabled THEN {} ELSE ready)
     ELSE UNCHANGED <<status, queue>>
  /\ UNCHANGED <<reserved, charged, sourceVars, attempt, held, settled, stale, retried,
                 retries, lost, workerVars, faults>>

-----------------------------------------------------------------------------
\* Messages.

Receive(w, v) ==
  /\ pc[w] = "idle"
  /\ queue[v] > 0
  /\ queue' = [queue EXCEPT ![v] = @ - 1]
  /\ pc' = [pc EXCEPT ![w] = "claim"]
  /\ ver' = [ver EXCEPT ![w] = v]
  /\ UNCHANGED <<configVars, sourceVars, jobVars, retries, lost, faults>>

\* available_at of the retry event passes, and with it next_retry_at.
RetryDue(v) ==
  /\ v \in retries
  /\ retries' = retries \ {v}
  /\ queue' = [queue EXCEPT ![v] = OneMore(@)]
  /\ UNCHANGED <<configVars, sourceVars, jobVars, lost, workerVars, faults>>

\* At-least-once delivery.
Duplicate(v) ==
  /\ Fault
  /\ status[v] # "none"
  /\ queue' = [queue EXCEPT ![v] = OneMore(@)]
  /\ UNCHANGED <<configVars, sourceVars, jobVars, retries, lost, workerVars>>

\* Redis loses a message.
LoseMessage(v) ==
  /\ Fault
  /\ queue[v] > 0
  /\ queue' = [queue EXCEPT ![v] = @ - 1]
  /\ lost' = lost \cup {v}
  /\ UNCHANGED <<configVars, sourceVars, jobVars, retries, workerVars>>

\* An exception that run does not catch: a transaction or the connection fails.
Raise(w) ==
  /\ Fault
  /\ pc[w] \in {"claim"} \cup (Executing \ {"generate"})
  /\ lost' = IF pc[w] = "claim" THEN lost \cup {ver[w]} ELSE lost
  /\ Ack(w)
  /\ UNCHANGED <<configVars, sourceVars, jobVars, queue, retries>>

\* The worker process dies; its message returns (task_reject_on_worker_lost).
Crash(w) ==
  /\ Fault
  /\ pc[w] # "idle"
  /\ queue' = [queue EXCEPT ![ver[w]] = OneMore(@)]
  /\ Ack(w)
  /\ UNCHANGED <<configVars, sourceVars, jobVars, retries, lost>>

\* task_time_limit: the worker is killed and the message acknowledged.
TimeLimit(w) ==
  /\ Fault
  /\ pc[w] = "generate"
  /\ Ack(w)
  /\ UNCHANGED <<configVars, sourceVars, jobVars, queueVars>>

-----------------------------------------------------------------------------
\* _claim.

\* The retry is due and the heartbeat, if the job runs, has expired.
Claimable(v) ==
  \/ status[v] = "pending"
  \/ status[v] = "retry_wait" /\ v \notin retries
  \/ status[v] = "running" /\ v \in stale

ClaimSkips(w) ==
  /\ pc[w] = "claim"
  /\ ~Claimable(ver[w])
  /\ Ack(w)
  /\ UNCHANGED <<configVars, sourceVars, jobVars, queueVars, faults>>

\* The wiki is off, or the document is not ready with this version.
ClaimStops(w) ==
  /\ pc[w] = "claim"
  /\ Claimable(ver[w])
  /\ ~enabled \/ ver[w] \notin ready
  /\ status' = [status EXCEPT ![ver[w]] = IF enabled THEN "superseded" ELSE "paused_disabled"]
  /\ Ack(w)
  /\ UNCHANGED <<configVars, sourceVars, attempt, held, settled, stale, retried, queueVars,
                 faults>>

Proceeds(w) ==
  /\ pc[w] = "claim"
  /\ Claimable(ver[w])
  /\ enabled
  /\ ver[w] \in ready

\* Mutant: the checkpoint of a job that was paused and resumed is forgotten.
CheckpointOfRunning(v) == v \in settled /\ status[v] = "running"

\* The job has a checkpoint.
HasCheckpoint(v) == v \in settled

\* The model is not called again.
ClaimPublishes(w) ==
  /\ Proceeds(w)
  /\ HasCheckpoint(ver[w])
  /\ status' = [status EXCEPT ![ver[w]] = "running"]
  /\ stale' = stale \ {ver[w]}
  /\ Goto(w, "publish")
  /\ UNCHANGED <<configVars, sourceVars, attempt, held, settled, retried, queueVars, faults>>

\* Mutant: the budget ignores the reservations of other jobs.
FitsCharged(v) == charged + Estimate <= limit

\* tokens_reserved without what the job v holds (max(0, ...) in the code).
Released(v) == IF reserved > held[v] THEN reserved - held[v] ELSE 0

Fits(v) == charged + Released(v) + Estimate <= limit

ClaimGenerates(w) ==
  /\ Proceeds(w)
  /\ ~HasCheckpoint(ver[w])
  /\ Fits(ver[w])
  /\ reserved' = Released(ver[w]) + Estimate
  /\ held' = [held EXCEPT ![ver[w]] = Estimate]
  /\ status' = [status EXCEPT ![ver[w]] = "running"]
  /\ attempt' = [attempt EXCEPT ![ver[w]] = @ + 1]
  /\ stale' = stale \ {ver[w]}
  /\ Goto(w, "generate")
  /\ UNCHANGED <<enabled, limit, charged, sourceVars, settled, retried, queueVars, faults>>

ClaimOverBudget(w) ==
  /\ Proceeds(w)
  /\ ~HasCheckpoint(ver[w])
  /\ ~Fits(ver[w])
  /\ reserved' = Released(ver[w])
  /\ held' = [held EXCEPT ![ver[w]] = 0]
  /\ status' = [status EXCEPT ![ver[w]] = "paused_budget"]
  /\ Ack(w)
  /\ UNCHANGED <<enabled, limit, charged, sourceVars, attempt, settled, stale, retried,
                 queueVars, faults>>

-----------------------------------------------------------------------------
\* run, after the claim.

Generate(w) ==
  /\ pc[w] = "generate"
  /\ Goto(w, "settle")
  /\ UNCHANGED <<configVars, sourceVars, jobVars, queueVars, faults>>

\* The model, or the check of its output, raises.
GenerateFails(w) ==
  /\ pc[w] = "generate"
  /\ Fault
  /\ Goto(w, "fail")
  /\ UNCHANGED <<configVars, sourceVars, jobVars, queueVars>>

\* _settle: what the model measured, or the reservation, is charged unless the
\* call was charged before.
Settle(w) ==
  /\ pc[w] = "settle"
  /\ \E c \in Charges :
       charged' = IF ver[w] \in settled THEN charged ELSE charged + c
  /\ reserved' = Released(ver[w])
  /\ held' = [held EXCEPT ![ver[w]] = 0]
  /\ settled' = settled \cup {ver[w]}
  /\ stale' = stale \ {ver[w]}
  /\ Goto(w, "publish")
  /\ UNCHANGED <<enabled, limit, sourceVars, status, attempt, retried, queueVars, faults>>

\* The unique key of the retry event exists: the transaction fails.
RetryKeyTaken(v) == attempt[v] < MaxAttempts /\ retried[v] = attempt[v]

\* _fail.
Fail(w) ==
  /\ pc[w] = "fail"
  /\ LET v == ver[w]
         final == attempt[v] >= MaxAttempts IN
       IF RetryKeyTaken(v)
       THEN UNCHANGED <<reserved, held, status, retried, retries>>
       ELSE /\ reserved' = Released(v)
            /\ held' = [held EXCEPT ![v] = 0]
            /\ status' = [status EXCEPT ![v] = IF final THEN "failed" ELSE "retry_wait"]
            /\ retries' = IF final THEN retries ELSE retries \cup {v}
            /\ retried' = IF final THEN retried ELSE [retried EXCEPT ![v] = attempt[v]]
  /\ Ack(w)
  /\ UNCHANGED <<enabled, limit, charged, sourceVars, attempt, settled, stale, queue, lost,
                 faults>>

\* _publish.
Publish(w) ==
  /\ pc[w] = "publish"
  /\ LET v == ver[w]
         outcome == IF ~enabled THEN "paused_disabled"
                    ELSE IF v \in ready THEN "succeeded" ELSE "superseded" IN
       status' = IF status[v] = "running" THEN [status EXCEPT ![v] = outcome] ELSE status
  /\ Ack(w)
  /\ UNCHANGED <<configVars, sourceVars, attempt, held, settled, stale, retried, queueVars,
                 faults>>

-----------------------------------------------------------------------------
\* A worker is killed after 30 minutes (task_time_limit), so only the heartbeat
\* of a job without worker gets 35 minutes old, unless the limit is not enforced.
ExecutedBy(w, v) == pc[w] \in Executing /\ ver[w] = v

HeartbeatExpires(v) ==
  /\ status[v] = "running"
  /\ v \notin stale
  /\ Zombies \/ \A w \in Workers : ~ExecutedBy(w, v)
  /\ stale' = stale \cup {v}
  /\ UNCHANGED <<configVars, sourceVars, status, attempt, held, settled, retried, queueVars,
                 workerVars, faults>>

\* Mutant: only jobs that were not settled are looked for.
LooksStale(v) == status[v] = "running" /\ v \in stale /\ v \notin settled

IsStale(v) == status[v] = "running" /\ v \in stale

\* recover_stale, every minute for as long as the job is stale.
RecoverStale(v) ==
  /\ IsStale(v)
  /\ queue[v] < MaxMessages
  /\ queue' = [queue EXCEPT ![v] = OneMore(@)]
  /\ UNCHANGED <<configVars, sourceVars, jobVars, retries, lost, workerVars, faults>>

-----------------------------------------------------------------------------
Documents ==
  \E v \in Versions :
    ActivateReads(v) \/ ActivateCommits(v) \/ DocumentBusy(v) \/ DocumentReadyAgain(v)

Queueing ==
  \E v \in Versions :
    \/ \E w \in Workers : Receive(w, v)
    \/ RetryDue(v) \/ Duplicate(v) \/ LoseMessage(v)

WorkerStep(w) ==
  \/ ClaimSkips(w) \/ ClaimStops(w) \/ ClaimPublishes(w) \/ ClaimGenerates(w)
  \/ ClaimOverBudget(w) \/ Generate(w) \/ Settle(w) \/ Fail(w) \/ Publish(w)

WorkerFault(w) == GenerateFails(w) \/ Raise(w) \/ Crash(w) \/ TimeLimit(w)

Beat == \E v \in Versions : HeartbeatExpires(v) \/ RecoverStale(v)

Next ==
  \/ Documents
  \/ \E e \in BOOLEAN, l \in Limits \cup {limit} : UpdateConfig(e, l)
  \/ Queueing
  \/ \E w \in Workers : WorkerStep(w) \/ WorkerFault(w)
  \/ Beat

Spec == Init /\ [][Next]_vars

\* The queue is first in, first out, so every message is received in the end;
\* workers go on, time passes, and Beat looks for stale jobs for ever.
Fairness ==
  /\ \A v \in Versions : SF_vars(\E w \in Workers : Receive(w, v))
  /\ \A v \in Versions : WF_vars(RetryDue(v))
  /\ \A w \in Workers : WF_vars(WorkerStep(w))
  /\ \A v \in Versions : WF_vars(HeartbeatExpires(v))
  /\ \A v \in Versions : WF_vars(RecoverStale(v))

FairSpec == Spec /\ Fairness
-----------------------------------------------------------------------------
\* Properties the code keeps.

\* One worker at a time executes a job, across repeated messages, crashes and
\* recovery: the lease of the heartbeat is longer than the life of a task
\* (_claim, recover_stale, task_time_limit).
OneRunPerJob ==
  \A w1, w2 \in Workers :
    w1 # w2 /\ pc[w1] \in Executing /\ pc[w2] \in Executing => ver[w1] # ver[w2]

\* Once a generation is charged, the model is not called again for this job,
\* whatever fails or crashes while its page is published (_claim, _settle).
GeneratedOnce ==
  \A w \in Workers : pc[w] \in {"generate", "settle", "fail"} => ver[w] \notin settled

\* Jobs with a reservation.
Reserving == {v \in Versions : held[v] # 0}

\* The reservation of the knowledge base is the sum of those of its jobs, so
\* the max(0, ...) of each release never hides a loss.
ReservationsMatch == reserved = Estimate * Cardinality(Reserving)

\* What was charged and what may still be charged stay within the limit the
\* user set last, provided no generation costs more than estimated (_claim,
\* _settle, _fail, update_config).
BudgetKept == charged + reserved <= limit

\* A job that waits has a message on its way or at a worker about to claim it,
\* unless a message for it was lost: a message that arrives too early, or while
\* the job runs, is dropped only when another one follows (_claim, _fail).
WaitingHasMessage ==
  \A v \in Versions :
    status[v] \in Waiting =>
      \/ queue[v] > 0 \/ v \in retries \/ v \in lost
      \/ \E w \in Workers : pc[w] = "claim" /\ ver[w] = v

\* A job that was scheduled or resumed comes to rest after crashes, failing
\* transactions and killed workers: it is done, given up, superseded or paused
\* (recover_stale, _fail), unless a message for it was lost.
JobsSettle ==
  \A v \in Versions :
    status[v] \in Waiting \cup {"running"} ~>
      status[v] \notin Waiting \cup {"running"} \/ v \in lost

-----------------------------------------------------------------------------
\* Claims of the design that the code does not keep.

\* Jobs are recovered from what PostgreSQL holds: losing a message does not
\* keep a job waiting for ever.
JobsSettleAlways ==
  \A v \in Versions :
    status[v] \in Waiting \cup {"running"} ~> status[v] \notin Waiting \cup {"running"}

\* While the wiki is on, each ready document has a job for its active version.
ReadyHasJob == enabled => \A v \in ready : status[v] # "none"

\* Tokens are reserved for jobs that run only.
ReservedForRunning == \A v \in Versions : held[v] > 0 => status[v] = "running"

\* No job is started more often than max_attempts allows.
AttemptsBounded == \A v \in Versions : attempt[v] <= MaxAttempts

\* A document that stays ready while the wiki stays on is not left superseded.
ReadyNotSuperseded ==
  \A v \in Versions :
    <>[](enabled /\ v \in ready) => []<>(status[v] # "superseded")
=============================================================================
