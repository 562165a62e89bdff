----------------------------- MODULE Ingestion -----------------------------
(***************************************************************************)
(* The life of one document: uploads, the ingestion jobs that parse, chunk,*)
(* embed and index its versions, the switch of the active version, retries,*)
(* recovery of stale jobs, compensating clean-ups and deletion.            *)
(*                                                                         *)
(* Every action is one database transaction, one call to the vector index  *)
(* or one message of the queue, as in jobs/repository.py, ingestion.py,    *)
(* celery_app.py, cleanup.py and management.py.  Rows are locked with      *)
(* SELECT ... FOR UPDATE, so a transaction is atomic; between two of them  *)
(* anything may happen.  Documents share no row, so one is enough.         *)
(*                                                                         *)
(* Abstractions: a version's chunks are named by the run that wrote them;  *)
(* every run of a version produces the same positive number of children,   *)
(* so index counts agree exactly when one run's children are indexed.      *)
(* Wiki generation is off (no wiki_configs row), so the calls into wiki/   *)
(* change nothing.  Clock comparisons are choices, limited where a bound   *)
(* of the code makes one impossible.                                       *)
(***************************************************************************)
EXTENDS Naturals, FiniteSets

CONSTANTS
  MaxVersions,  \* bound on the versions of the document
  MaxJobs,      \* bound on rows of ingestion_jobs
  MaxAttempts,  \* ingestion_jobs.max_attempts (3 in the code)
  Workers,      \* Celery worker slots (worker_concurrency = 2)
  Api,          \* which client requests this instance includes
  Faults,       \* which kinds of fault this instance includes
  MaxFaults,    \* bound on faults
  Zombies       \* may recovery judge a job stale while its worker still runs?

Versions == 1..MaxVersions
Jobs == 1..MaxJobs
None == 0

ASSUME BoundsAssumption ==
  /\ MaxVersions \in Nat
  /\ MaxJobs \in Nat
  /\ MaxAttempts \in Nat
  /\ MaxFaults \in Nat
  /\ Zombies \in BOOLEAN

VARIABLES
  docStatus,   \* documents.status, "none" before the first upload
  active,      \* documents.active_version_id
  deletedAt,   \* documents.deleted_at is set
  nVersions,   \* versions exist for 1..nVersions (version_no)
  vStatus,     \* document_versions.status
  readyAt,     \* versions whose ready_at is set
  chunks,      \* chunks[v]: the run that wrote the rows of chunks, or NoRun
  index,       \* index[v]: the runs whose children the vector index holds
  files,       \* versions whose stored file exists
  nJobs,       \* jobs exist for 1..nJobs, in order of created_at
  jKind,       \* prefix of idempotency_key: ingest, retry or delete
  jVersion,    \* document_version_id
  jStatus,     \* ingestion_jobs.status
  jCode,       \* error_code
  attempt,     \* attempt_count
  outbox,      \* rows of outbox_events
  published,   \* those with status published
  broker,      \* messages waiting in the queue
  pc,          \* pc[w]: the next step of worker w
  msg,         \* msg[w]: the message it has not acknowledged
  run,         \* run[w]: attempt_count when it claimed the job
  prev,        \* prev[w]: previous_active_version_id of its context
  code,        \* code[w]: the error being handled
  todo,        \* todo[w]: versions whose index delete_document must still delete, or
               \* whose compensation the handler of run has just scheduled
  seen,        \* seen[w]: versions delete_document read at its start
  uploading,   \* an upload has found its duplicate and not committed yet
  faults       \* faults so far

docVars == <<docStatus, active, deletedAt>>
versionVars == <<nVersions, vStatus, readyAt>>
dataVars == <<chunks, index, files>>
jobVars == <<nJobs, jKind, jVersion, jStatus, jCode, attempt>>
eventVars == <<outbox, published>>
contextVars == <<run, prev, code, todo, seen>>
vars == <<docVars, versionVars, dataVars, jobVars, eventVars, broker,
          pc, msg, contextVars, uploading, faults>>
-----------------------------------------------------------------------------
DocStatuses == {"none", "pending", "processing", "ready", "failed", "deleting", "deleted"}
Stages == {"parsing", "chunking", "embedding", "indexing"}
VersionStatuses == {"none", "pending", "ready", "failed"} \cup Stages
JobKinds == {"none", "ingest", "retry", "delete"}
JobStatuses == {"none", "pending", "running", "retry_wait", "succeeded", "failed"}
Codes == {"none", "document_parse_failed", "retry_exhausted", "ingestion_failed"}

\* A run is the execution of a job at one attempt_count; it names its chunks.
Runs == Jobs \X Nat
NoRun == <<None, 0>>

\* Messages: an event of the outbox and the Celery message it becomes are
\* the same tuple <<type, id, n>>.
IngestEvent(j, n) == <<"ingest", j, n>>     \* ingest:, retry:, retry-job: and recover: keys
DeleteEvent(j) == <<"delete", j, 0>>        \* delete:{document}
CleanupEvent(v) == <<"cleanup", v, 0>>      \* cleanup-version:{version}
FailedCleanupEvent(v) == <<"cleanup", v, 1>> \* failed-version:{version}
Events == ({"ingest"} \X Jobs \X Nat) \cup ({"delete"} \X Jobs \X {0})
            \cup ({"cleanup"} \X Versions \X {0, 1})
NoMsg == <<"none", None, 0>>

Before == {"parsing", "chunking", "replace_chunks", "embedding", "indexing"}
Indexed == {"clear_index", "insert_index", "verify", "unverified", "activate"}
After == {"ready", "complete"}
Failing == {"undo", "mark_failed", "fail_job"}
Deleting == {"delete_index", "delete_files", "delete_commit"}
Steps == {"idle", "load", "schedule", "delete_read", "cleanup"}
           \cup Before \cup Indexed \cup After \cup Failing \cup Deleting

\* Steps of IngestionPipeline.run once it holds a context.
Running == Before \cup Indexed \cup After \cup Failing
-----------------------------------------------------------------------------
TypeOK ==
  /\ docStatus \in DocStatuses
  /\ active \in Versions \cup {None}
  /\ deletedAt \in BOOLEAN
  /\ nVersions \in 0..MaxVersions
  /\ vStatus \in [Versions -> VersionStatuses]
  /\ readyAt \subseteq Versions
  /\ chunks \in [Versions -> Runs \cup {NoRun}]
  /\ index \in [Versions -> SUBSET Runs]
  /\ files \subseteq Versions
  /\ nJobs \in 0..MaxJobs
  /\ jKind \in [Jobs -> JobKinds]
  /\ jVersion \in [Jobs -> Versions \cup {None}]
  /\ jStatus \in [Jobs -> JobStatuses]
  /\ jCode \in [Jobs -> Codes]
  /\ attempt \in [Jobs -> Nat]
  /\ outbox \subseteq Events
  /\ published \subseteq outbox
  /\ broker \subseteq outbox
  /\ pc \in [Workers -> Steps]
  /\ msg \in [Workers -> Events \cup {NoMsg}]
  /\ run \in [Workers -> Nat]
  /\ prev \in [Workers -> Versions \cup {None}]
  /\ code \in [Workers -> Codes]
  /\ todo \in [Workers -> SUBSET Versions]
  /\ seen \in [Workers -> SUBSET Versions]
  /\ uploading \in BOOLEAN
  /\ faults \in 0..MaxFaults

Init ==
  /\ docStatus = "none"
  /\ active = None
  /\ deletedAt = FALSE
  /\ nVersions = 0
  /\ vStatus = [v \in Versions |-> "none"]
  /\ readyAt = {}
  /\ chunks = [v \in Versions |-> NoRun]
  /\ index = [v \in Versions |-> {}]
  /\ files = {}
  /\ nJobs = 0
  /\ jKind = [j \in Jobs |-> "none"]
  /\ jVersion = [j \in Jobs |-> None]
  /\ jStatus = [j \in Jobs |-> "none"]
  /\ jCode = [j \in Jobs |-> "none"]
  /\ attempt = [j \in Jobs |-> 0]
  /\ outbox = {}
  /\ published = {}
  /\ broker = {}
  /\ pc = [w \in Workers |-> "idle"]
  /\ msg = [w \in Workers |-> NoMsg]
  /\ run = [w \in Workers |-> 0]
  /\ prev = [w \in Workers |-> None]
  /\ code = [w \in Workers |-> "none"]
  /\ todo = [w \in Workers |-> {}]
  /\ seen = [w \in Workers |-> {}]
  /\ uploading = FALSE
  /\ faults = 0
-----------------------------------------------------------------------------
BeingDeleted == docStatus \in {"deleting", "deleted"}
JobOf(w) == msg[w][2]
VersionOf(w) == jVersion[msg[w][2]]
RunOf(w) == <<JobOf(w), run[w]>>

\* Kind-k fault, within the bound.
Fault(k) == k \in Faults /\ faults < MaxFaults /\ faults' = faults + 1

Goto(w, step) ==
  /\ pc' = [pc EXCEPT ![w] = step]
  /\ UNCHANGED <<msg, contextVars>>

\* The task ends and its message is acknowledged, also when it ends with an
\* exception (task_acks_late acknowledges failures too).
Ack(w) ==
  /\ pc' = [pc EXCEPT ![w] = "idle"]
  /\ msg' = [msg EXCEPT ![w] = NoMsg]
  /\ run' = [run EXCEPT ![w] = 0]
  /\ prev' = [prev EXCEPT ![w] = None]
  /\ code' = [code EXCEPT ![w] = "none"]
  /\ todo' = [todo EXCEPT ![w] = {}]
  /\ seen' = [seen EXCEPT ![w] = {}]

\* An exception inside the try block of run: the handler first undoes the
\* index once index_started is set, and skips the version once it is activated.
Raise(w, c) ==
  /\ pc' = [pc EXCEPT ![w] = CASE pc[w] \in Before -> "mark_failed"
                               [] pc[w] \in Indexed -> "undo"
                               [] pc[w] \in After -> "fail_job"]
  /\ code' = [code EXCEPT ![w] = c]
  /\ UNCHANGED <<msg, run, prev, todo, seen>>

-----------------------------------------------------------------------------
\* Outbox and broker: the steps of EventDelivery this module needs.
\*
\* The compensation of a failed clean-up becomes available after five minutes,
\* when the handler that wrote it has long recorded the failure.
Delayed(e) ==
  /\ ~Zombies
  /\ e[1] = "cleanup" /\ e[3] = 1
  /\ \E w \in Workers : pc[w] = "mark_failed" /\ e[2] \in todo[w]

Publish(e) ==
  /\ e \in outbox \ published
  /\ ~Delayed(e)
  /\ broker' = broker \cup {e}
  /\ published' = published \cup {e}
  /\ UNCHANGED <<docVars, versionVars, dataVars, jobVars, outbox, pc, msg,
                 contextVars, uploading, faults>>

\* A second hand-over: a dispatcher dies before mark_published, or revives a
\* published row with a late mark_failed.
Duplicate(e) ==
  /\ Fault("duplicate")
  /\ e \in outbox
  /\ broker' = broker \cup {e}
  /\ UNCHANGED <<docVars, versionVars, dataVars, jobVars, eventVars, pc, msg,
                 contextVars, uploading>>

\* Redis loses a message it had accepted.
LoseMessage(e) ==
  /\ Fault(IF e[1] = "ingest" THEN "loss" ELSE "loss_cleanup")
  /\ e \in broker
  /\ broker' = broker \ {e}
  /\ UNCHANGED <<docVars, versionVars, dataVars, jobVars, eventVars, pc, msg,
                 contextVars, uploading>>

Receive(w) ==
  /\ pc[w] = "idle"
  /\ \E e \in broker :
       /\ broker' = broker \ {e}
       /\ msg' = [msg EXCEPT ![w] = e]
       /\ pc' = [pc EXCEPT ![w] = CASE e[1] = "ingest" -> "load"
                                    [] e[1] = "delete" -> "delete_read"
                                    [] e[1] = "cleanup" -> "cleanup"]
  /\ UNCHANGED <<docVars, versionVars, dataVars, jobVars, eventVars,
                 contextVars, uploading, faults>>

\* KnowledgeWorkerRuntime cannot connect: an exception process_event does not
\* catch, so the task fails and the message is gone.
RuntimeFails(w) ==
  /\ Fault("runtime")
  /\ pc[w] \in {"load", "delete_read", "cleanup"}
  /\ Ack(w)
  /\ UNCHANGED <<docVars, versionVars, dataVars, jobVars, eventVars, broker, uploading>>

\* Crashes of ingestion and of clean-up tasks are told apart, so that a
\* configuration can include either.
CrashKind(w) == IF msg[w][1] = "ingest" THEN "crash" ELSE "crash_cleanup"

\* Mutant: the message was acknowledged when it was received.
CrashAfterEarlyAck(w) ==
  /\ Fault(CrashKind(w))
  /\ pc[w] # "idle"
  /\ Ack(w)
  /\ UNCHANGED <<docVars, versionVars, dataVars, jobVars, eventVars, broker, uploading>>

\* The worker process dies; task_reject_on_worker_lost puts the message back.
Crash(w) ==
  /\ Fault(CrashKind(w))
  /\ pc[w] # "idle"
  /\ Ack(w)
  /\ broker' = broker \cup {msg[w]}
  /\ UNCHANGED <<docVars, versionVars, dataVars, jobVars, eventVars, uploading>>

-----------------------------------------------------------------------------
\* Mutant: load_context does not look at the job's status.
ClaimableInAnyStatus(j) == ~BeingDeleted

\* load_context.
Claimable(j) == jStatus[j] \in {"pending", "retry_wait"} /\ ~BeingDeleted

\* IngestionAlreadyClaimed.  A retry_wait job whose next_retry_at lies ahead
\* counts as claimed; the event of its own attempt is never that early.
LoadSkips(w) ==
  /\ pc[w] = "load"
  /\ \/ ~Claimable(JobOf(w))
     \/ jStatus[JobOf(w)] = "retry_wait" /\ msg[w][3] # attempt[JobOf(w)]
  /\ Ack(w)
  /\ UNCHANGED <<docVars, versionVars, dataVars, jobVars, eventVars, broker,
                 uploading, faults>>

LoadClaims(w) ==
  /\ pc[w] = "load"
  /\ Claimable(JobOf(w))
  /\ VersionOf(w) \in files
  /\ jStatus' = [jStatus EXCEPT ![JobOf(w)] = "running"]
  /\ run' = [run EXCEPT ![w] = attempt[JobOf(w)]]
  /\ prev' = [prev EXCEPT ![w] = active]
  /\ pc' = [pc EXCEPT ![w] = "parsing"]
  /\ UNCHANGED <<docVars, versionVars, dataVars, nJobs, jKind, jVersion, jCode,
                 attempt, eventVars, broker, msg, code, todo, seen, uploading, faults>>

\* stored_file_unavailable, or the transaction fails: ingestion_unavailable.
LoadFails(w) ==
  /\ pc[w] = "load"
  /\ \/ Claimable(JobOf(w)) /\ VersionOf(w) \notin files /\ UNCHANGED faults
     \/ Fault("load")
  /\ Goto(w, "schedule")
  /\ UNCHANGED <<docVars, versionVars, dataVars, jobVars, eventVars, broker, uploading>>

-----------------------------------------------------------------------------
\* update_stage, with the step of run that follows it.
AfterStage(stage) ==
  CASE stage = "parsing" -> "chunking"
    [] stage = "chunking" -> "replace_chunks"
    [] stage = "embedding" -> "indexing"
    [] stage = "indexing" -> "clear_index"

DeletingRaises(w) ==
  /\ pc[w] \in Stages \cup {"activate", "ready"}
  /\ BeingDeleted
  /\ Raise(w, "ingestion_failed")
  /\ UNCHANGED <<docVars, versionVars, dataVars, jobVars, eventVars, broker,
                 uploading, faults>>

UpdateStage(w) ==
  /\ pc[w] \in Stages
  /\ ~BeingDeleted
  /\ jStatus' = [jStatus EXCEPT ![JobOf(w)] = "running"]
  /\ docStatus' = "processing"
  /\ vStatus' = [vStatus EXCEPT ![VersionOf(w)] = pc[w]]
  /\ Goto(w, AfterStage(pc[w]))
  /\ UNCHANGED <<active, deletedAt, nVersions, readyAt, dataVars, nJobs, jKind,
                 jVersion, jCode, attempt, eventVars, broker, uploading, faults>>

\* Parsing, embedding, a transaction or an index call raises.
StepFails(w) ==
  /\ \/ pc[w] \in Before \cup Indexed /\ Fault("step") /\ Raise(w, "ingestion_failed")
     \/ pc[w] \in After /\ Fault("late") /\ Raise(w, "ingestion_failed")
     \/ pc[w] = "chunking" /\ Fault("parse") /\ Raise(w, "document_parse_failed")
  /\ UNCHANGED <<docVars, versionVars, dataVars, jobVars, eventVars, broker, uploading>>

ReplaceChunks(w) ==
  /\ pc[w] = "replace_chunks"
  /\ chunks' = [chunks EXCEPT ![VersionOf(w)] = RunOf(w)]
  /\ Goto(w, "embedding")
  /\ UNCHANGED <<docVars, versionVars, index, files, jobVars, eventVars, broker,
                 uploading, faults>>

\* replace_version is a delete followed by an insert and a flush.
ClearIndex(w) ==
  /\ pc[w] = "clear_index"
  /\ index' = [index EXCEPT ![VersionOf(w)] = {}]
  /\ Goto(w, "insert_index")
  /\ UNCHANGED <<docVars, versionVars, chunks, files, jobVars, eventVars, broker,
                 uploading, faults>>

InsertIndex(w) ==
  /\ pc[w] = "insert_index"
  /\ index' = [index EXCEPT ![VersionOf(w)] = @ \cup {RunOf(w)}]
  /\ Goto(w, "verify")
  /\ UNCHANGED <<docVars, versionVars, chunks, files, jobVars, eventVars, broker,
                 uploading, faults>>

\* count_version compared with expected_child_count: only sizes are compared.
Verify(w) ==
  /\ pc[w] = "verify"
  /\ Goto(w, IF Cardinality(index[VersionOf(w)]) = 1 THEN "activate" ELSE "unverified")
  /\ UNCHANGED <<docVars, versionVars, dataVars, jobVars, eventVars, broker,
                 uploading, faults>>

\* Mutants: the active version, or the deletion, of the document is ignored.
FailVersionAndDocument(v) ==
  /\ vStatus' = [vStatus EXCEPT ![v] = "failed"]
  /\ docStatus' = IF BeingDeleted THEN docStatus ELSE "failed"
  /\ UNCHANGED <<active, deletedAt, nVersions, readyAt>>

FailVersionDuringDeletion(v) ==
  /\ vStatus' = [vStatus EXCEPT ![v] = "failed"]
  /\ docStatus' = IF active # None THEN "ready" ELSE "failed"
  /\ UNCHANGED <<active, deletedAt, nVersions, readyAt>>

\* The two effects of mark_failed.
FailVersion(v) ==
  /\ vStatus' = [vStatus EXCEPT ![v] = "failed"]
  /\ docStatus' = IF BeingDeleted THEN docStatus
                  ELSE IF active # None THEN "ready" ELSE "failed"
  /\ UNCHANGED <<active, deletedAt, nVersions, readyAt>>

\* index_verification_failed: mark_failed, then the exception.
RejectUnverified(w) ==
  /\ pc[w] = "unverified"
  /\ FailVersion(VersionOf(w))
  /\ Raise(w, "ingestion_failed")
  /\ UNCHANGED <<dataVars, jobVars, eventVars, broker, uploading, faults>>

\* The run replaces another active version.
Superseded(w) == prev[w] \notin {None, VersionOf(w)}

\* The clean-up event of the superseded version has a unique key.
KeyTaken(w) == Superseded(w) /\ CleanupEvent(prev[w]) \in outbox

Activate(w) ==
  /\ pc[w] = "activate"
  /\ ~BeingDeleted
  /\ active = prev[w]
  /\ ~KeyTaken(w)
  /\ active' = VersionOf(w)
  /\ docStatus' = "ready"
  /\ vStatus' = [vStatus EXCEPT ![VersionOf(w)] = "ready"]
  /\ readyAt' = readyAt \cup {VersionOf(w)}
  /\ outbox' = outbox \cup (IF Superseded(w) THEN {CleanupEvent(prev[w])} ELSE {})
  /\ Goto(w, "ready")
  /\ UNCHANGED <<deletedAt, nVersions, dataVars, jobVars, published, broker,
                 uploading, faults>>

\* active_version_changed, or the insert violates the unique event_key.
ActivateRaises(w) ==
  /\ pc[w] = "activate"
  /\ ~BeingDeleted
  /\ active # prev[w] \/ KeyTaken(w)
  /\ Raise(w, "ingestion_failed")
  /\ UNCHANGED <<docVars, versionVars, dataVars, jobVars, eventVars, broker,
                 uploading, faults>>

\* update_stage("ready", 100).
StageReady(w) ==
  /\ pc[w] = "ready"
  /\ ~BeingDeleted
  /\ jStatus' = [jStatus EXCEPT ![JobOf(w)] = "running"]
  /\ docStatus' = "ready"
  /\ vStatus' = [vStatus EXCEPT ![VersionOf(w)] = "ready"]
  /\ Goto(w, "complete")
  /\ UNCHANGED <<active, deletedAt, nVersions, readyAt, dataVars, nJobs, jKind,
                 jVersion, jCode, attempt, eventVars, broker, uploading, faults>>

CompleteJob(w) ==
  /\ pc[w] = "complete"
  /\ jStatus' = [jStatus EXCEPT ![JobOf(w)] = "succeeded"]
  /\ Ack(w)
  /\ UNCHANGED <<docVars, versionVars, dataVars, nJobs, jKind, jVersion, jCode,
                 attempt, eventVars, broker, uploading, faults>>

-----------------------------------------------------------------------------
\* The exception handler of run.
UndoIndex(w) ==
  /\ pc[w] = "undo"
  /\ index' = [index EXCEPT ![VersionOf(w)] = {}]
  /\ Goto(w, "mark_failed")
  /\ UNCHANGED <<docVars, versionVars, chunks, files, jobVars, eventVars, broker,
                 uploading, faults>>

\* schedule_failed_version_cleanup: on conflict, nothing.
UndoIndexFails(w) ==
  /\ pc[w] = "undo"
  /\ Fault("undo")
  /\ outbox' = outbox \cup {FailedCleanupEvent(VersionOf(w))}
  /\ todo' = [todo EXCEPT ![w] = IF outbox' = outbox THEN {} ELSE {VersionOf(w)}]
  /\ pc' = [pc EXCEPT ![w] = "mark_failed"]
  /\ UNCHANGED <<docVars, versionVars, dataVars, jobVars, published, broker, msg, run, prev,
                 code, seen, uploading>>

MarkFailed(w) ==
  /\ pc[w] = "mark_failed"
  /\ FailVersion(VersionOf(w))
  /\ Goto(w, "fail_job")
  /\ UNCHANGED <<dataVars, jobVars, eventVars, broker, uploading, faults>>

\* fail_job; process_event re-raises document_parse_failed and schedules a
\* retry for every other code.
FailJob(w) ==
  /\ pc[w] = "fail_job"
  /\ jStatus' = [jStatus EXCEPT ![JobOf(w)] = "failed"]
  /\ jCode' = [jCode EXCEPT ![JobOf(w)] = code[w]]
  /\ IF code[w] = "document_parse_failed" THEN Ack(w) ELSE Goto(w, "schedule")
  /\ UNCHANGED <<docVars, versionVars, dataVars, nJobs, jKind, jVersion, attempt,
                 eventVars, broker, uploading, faults>>

\* The handler itself raises: nothing below it runs, the message is gone.
HandlerFails(w) ==
  /\ pc[w] \in Failing
  /\ Fault("handler")
  /\ Ack(w)
  /\ UNCHANGED <<docVars, versionVars, dataVars, jobVars, eventVars, broker, uploading>>

Exhausted(j) == attempt[j] >= MaxAttempts

\* schedule_retry.
ScheduleRetry(w) ==
  /\ pc[w] = "schedule"
  /\ LET j == JobOf(w) IN
       \/ /\ jStatus[j] \in {"succeeded", "retry_wait"}
          /\ UNCHANGED <<jStatus, jCode, attempt, outbox>>
       \/ /\ jStatus[j] \notin {"succeeded", "retry_wait"}
          /\ Exhausted(j)
          /\ jStatus' = [jStatus EXCEPT ![j] = "failed"]
          /\ jCode' = [jCode EXCEPT ![j] = "retry_exhausted"]
          /\ UNCHANGED <<attempt, outbox>>
       \/ /\ jStatus[j] \notin {"succeeded", "retry_wait"}
          /\ ~Exhausted(j)
          /\ attempt' = [attempt EXCEPT ![j] = @ + 1]
          /\ jStatus' = [jStatus EXCEPT ![j] = "retry_wait"]
          /\ outbox' = outbox \cup {IngestEvent(j, attempt[j] + 1)}
          /\ UNCHANGED jCode
  /\ Ack(w)
  /\ UNCHANGED <<docVars, versionVars, dataVars, nJobs, jKind, jVersion, published,
                 broker, uploading, faults>>

\* PostgreSQL is away: Celery re-queues the task, up to max_retries times.
ScheduleFails(w) ==
  /\ pc[w] = "schedule"
  /\ Fault("schedule")
  /\ Ack(w)
  /\ broker' \in {broker, broker \cup {msg[w]}}
  /\ UNCHANGED <<docVars, versionVars, dataVars, jobVars, eventVars, uploading>>

-----------------------------------------------------------------------------
\* recover_stale_jobs, started by Beat every minute, row by row.  A running or
\* failed job is stale when its heartbeat is five minutes old: while a worker
\* executes it, only if the heartbeats fail (Zombies).  A waiting job has no
\* heartbeat and counts as stale once one of its messages was published.
ExecutedBy(w, j) == msg[w][1] = "ingest" /\ JobOf(w) = j /\ pc[w] \in Running \cup {"schedule"}

\* Mutant: messages that were published and never consumed are not looked for.
StaleHeartbeat(j) ==
  /\ \/ jStatus[j] = "running"
     \/ jStatus[j] = "failed" /\ jCode[j] \notin {"document_parse_failed", "retry_exhausted"}
  /\ Zombies \/ \A w \in Workers : ~ExecutedBy(w, j)

Stale(j) ==
  \/ /\ \/ jStatus[j] = "running"
        \/ jStatus[j] = "failed" /\ jCode[j] \notin {"document_parse_failed", "retry_exhausted"}
     /\ Zombies \/ \A w \in Workers : ~ExecutedBy(w, j)
  \/ /\ jStatus[j] \in {"pending", "retry_wait"}
     /\ \E e \in published : e[1] = "ingest" /\ e[2] = j

Recoverable(j) == j \in 1..nJobs /\ ~BeingDeleted /\ Stale(j)
Activated(v) == active = v /\ vStatus[v] = "ready"

RecoverActivated(j) ==
  /\ Recoverable(j)
  /\ Activated(jVersion[j])
  /\ jStatus' = [jStatus EXCEPT ![j] = "succeeded"]
  /\ UNCHANGED <<docVars, versionVars, dataVars, nJobs, jKind, jVersion, jCode, attempt,
                 eventVars, broker, pc, msg, contextVars, uploading, faults>>

RecoverExhausted(j) ==
  /\ Recoverable(j)
  /\ ~Activated(jVersion[j])
  /\ attempt[j] + 1 >= MaxAttempts
  /\ attempt' = [attempt EXCEPT ![j] = @ + 1]
  /\ jStatus' = [jStatus EXCEPT ![j] = "failed"]
  /\ jCode' = [jCode EXCEPT ![j] = "retry_exhausted"]
  /\ FailVersion(jVersion[j])
  /\ UNCHANGED <<dataVars, nJobs, jKind, jVersion, eventVars, broker, pc, msg,
                 contextVars, uploading, faults>>

\* Mutant: the event is built before attempt_count is incremented.
RecoverRequeuesOldAttempt(j) ==
  /\ Recoverable(j)
  /\ ~Activated(jVersion[j])
  /\ attempt[j] + 1 < MaxAttempts
  /\ attempt' = [attempt EXCEPT ![j] = @ + 1]
  /\ jStatus' = [jStatus EXCEPT ![j] = "retry_wait"]
  /\ outbox' = outbox \cup {IngestEvent(j, attempt[j])}
  /\ UNCHANGED <<docVars, versionVars, dataVars, nJobs, jKind, jVersion, jCode, published,
                 broker, pc, msg, contextVars, uploading, faults>>

RecoverRequeues(j) ==
  /\ Recoverable(j)
  /\ ~Activated(jVersion[j])
  /\ attempt[j] + 1 < MaxAttempts
  /\ attempt' = [attempt EXCEPT ![j] = @ + 1]
  /\ jStatus' = [jStatus EXCEPT ![j] = "retry_wait"]
  /\ outbox' = outbox \cup {IngestEvent(j, attempt[j] + 1)}
  /\ UNCHANGED <<docVars, versionVars, dataVars, nJobs, jKind, jVersion, jCode, published,
                 broker, pc, msg, contextVars, uploading, faults>>

-----------------------------------------------------------------------------
\* KnowledgeCleanupService.delete_document: index by index, then the files,
\* then the row.  Its failures are neither caught nor retried.
DeleteRead(w) ==
  /\ pc[w] = "delete_read"
  /\ todo' = [todo EXCEPT ![w] = 1..nVersions]
  /\ seen' = [seen EXCEPT ![w] = 1..nVersions]
  /\ pc' = [pc EXCEPT ![w] = "delete_index"]
  /\ UNCHANGED <<docVars, versionVars, dataVars, jobVars, eventVars, broker, msg, run,
                 prev, code, uploading, faults>>

DeleteIndex(w) ==
  /\ pc[w] = "delete_index"
  /\ \E v \in todo[w] :
       /\ index' = [index EXCEPT ![v] = {}]
       /\ todo' = [todo EXCEPT ![w] = @ \ {v}]
       /\ pc' = [pc EXCEPT ![w] = IF todo[w] = {v} THEN "delete_files" ELSE @]
  /\ UNCHANGED <<docVars, versionVars, chunks, files, jobVars, eventVars, broker, msg,
                 run, prev, code, seen, uploading, faults>>

DeleteFiles(w) ==
  /\ pc[w] = "delete_files"
  /\ files' = files \ seen[w]
  /\ Goto(w, "delete_commit")
  /\ UNCHANGED <<docVars, versionVars, chunks, index, jobVars, eventVars, broker,
                 uploading, faults>>

DeleteCommit(w) ==
  /\ pc[w] = "delete_commit"
  /\ docStatus' = "deleted"
  /\ deletedAt' = TRUE
  /\ jStatus' = [jStatus EXCEPT ![JobOf(w)] = "succeeded"]
  /\ Ack(w)
  /\ UNCHANGED <<active, versionVars, dataVars, nJobs, jKind, jVersion, jCode, attempt,
                 eventVars, broker, uploading, faults>>

DeleteFails(w) ==
  /\ pc[w] \in Deleting
  /\ Fault("delete")
  /\ Ack(w)
  /\ UNCHANGED <<docVars, versionVars, dataVars, jobVars, eventVars, broker, uploading>>

\* Mutants: one of the two checks of cleanup_version is missing, or it forgets
\* one of the two kinds of versions.
RemovableIfSettled(v) == vStatus[v] \in {"ready", "failed"}
RemovableIfFailed(v) == active # v /\ vStatus[v] = "failed"
RemovableIfReady(v) == active # v /\ vStatus[v] = "ready"

Removable(v) == active # v /\ vStatus[v] \in {"ready", "failed"}

\* cleanup_version: the document's row stays locked from the checks to the end
\* of the index call, so checks and call are one step.
CleanupVersion(w) ==
  /\ pc[w] = "cleanup"
  /\ LET v == msg[w][2] IN
       index' = IF Removable(v) THEN [index EXCEPT ![v] = {}] ELSE index
  /\ Ack(w)
  /\ UNCHANGED <<docVars, versionVars, chunks, files, jobVars, eventVars, broker,
                 uploading, faults>>

CleanupFails(w) ==
  /\ pc[w] = "cleanup"
  /\ Fault("cleanup")
  /\ Ack(w)
  /\ UNCHANGED <<docVars, versionVars, dataVars, jobVars, eventVars, broker, uploading>>

-----------------------------------------------------------------------------
\* Client requests (management.py).

\* A job of the given kind for version v, with its event, as one transaction
\* inserts them.
AddJob(kind, v, event) ==
  /\ nJobs < MaxJobs
  /\ nJobs' = nJobs + 1
  /\ jKind' = [jKind EXCEPT ![nJobs + 1] = kind]
  /\ jVersion' = [jVersion EXCEPT ![nJobs + 1] = v]
  /\ jStatus' = [jStatus EXCEPT ![nJobs + 1] = "pending"]
  /\ outbox' = outbox \cup {event}
  /\ UNCHANGED <<jCode, attempt, published>>

AddVersion ==
  /\ nVersions < MaxVersions
  /\ nVersions' = nVersions + 1
  /\ vStatus' = [vStatus EXCEPT ![nVersions + 1] = "pending"]
  /\ files' = files \cup {nVersions + 1}
  /\ AddJob("ingest", nVersions + 1, IngestEvent(nJobs + 1, 0))
  /\ docStatus' = "pending"
  /\ UNCHANGED <<active, deletedAt, readyAt, chunks, index>>

UploadDocument ==
  /\ docStatus = "none"
  /\ AddVersion
  /\ UNCHANGED <<broker, pc, msg, contextVars, uploading, faults>>

\* upload_document with on_duplicate = new_version.  The duplicate is the
\* newest version that is active or on its way (all versions of a document
\* have its content); only the active one admits a new version.
Duplicates == {v \in 1..nVersions : v = active \/ vStatus[v] \notin {"failed", "ready"}}

UploadFindsDuplicate ==
  /\ "upload" \in Api
  /\ ~uploading
  /\ docStatus # "none" /\ ~deletedAt
  /\ nVersions < MaxVersions /\ nJobs < MaxJobs
  /\ active \in Duplicates
  /\ \A v \in Duplicates : v <= active
  /\ uploading' = TRUE
  /\ UNCHANGED <<docVars, versionVars, dataVars, jobVars, eventVars, broker, pc, msg,
                 contextVars, faults>>

\* The document is locked and written; the conditions are not checked again.
UploadVersion ==
  /\ uploading
  /\ uploading' = FALSE
  /\ AddVersion
  /\ UNCHANGED <<broker, pc, msg, contextVars, faults>>

LatestJob ==
  LET jobs == {j \in 1..nJobs : jVersion[j] = nVersions}
  IN  CHOOSE j \in jobs : \A k \in jobs : k <= j

\* request_document_action(retry); a retry of a retry in flight changes nothing.
RequestRetry ==
  /\ "retry" \in Api
  /\ docStatus # "none" /\ ~deletedAt /\ ~BeingDeleted
  /\ vStatus[nVersions] = "failed"
  /\ jStatus[LatestJob] = "failed"
  /\ vStatus' = [vStatus EXCEPT ![nVersions] = "pending"]
  /\ AddJob("retry", nVersions, IngestEvent(nJobs + 1, 0))
  /\ docStatus' = "pending"
  /\ UNCHANGED <<active, deletedAt, nVersions, readyAt, dataVars, broker, pc, msg,
                 contextVars, uploading, faults>>

\* request_document_action(reindex): building the new DocumentVersion raises
\* (it passes an attribute the model does not have) and the transaction is
\* rolled back.
RequestReindex ==
  /\ "reindex" \in Api
  /\ docStatus # "none" /\ ~deletedAt /\ ~BeingDeleted
  /\ active # None
  /\ UNCHANGED vars

\* delete_document; with a delete job in place it changes nothing.
RequestDelete ==
  /\ "delete" \in Api
  /\ docStatus # "none" /\ ~deletedAt
  /\ \A j \in 1..nJobs : jKind[j] # "delete"
  /\ AddJob("delete", nVersions, DeleteEvent(nJobs + 1))
  /\ docStatus' = "deleting"
  /\ UNCHANGED <<active, deletedAt, versionVars, dataVars, broker, pc, msg, contextVars,
                 uploading, faults>>

-----------------------------------------------------------------------------
WorkerStep(w) ==
  \/ LoadSkips(w) \/ LoadClaims(w)
  \/ UpdateStage(w) \/ DeletingRaises(w)
  \/ ReplaceChunks(w) \/ ClearIndex(w) \/ InsertIndex(w)
  \/ Verify(w) \/ RejectUnverified(w)
  \/ Activate(w) \/ ActivateRaises(w) \/ StageReady(w) \/ CompleteJob(w)
  \/ UndoIndex(w) \/ MarkFailed(w) \/ FailJob(w) \/ ScheduleRetry(w)
  \/ DeleteRead(w) \/ DeleteIndex(w) \/ DeleteFiles(w) \/ DeleteCommit(w)
  \/ CleanupVersion(w)

WorkerFault(w) ==
  \/ LoadFails(w) \/ StepFails(w) \/ UndoIndexFails(w) \/ HandlerFails(w)
  \/ ScheduleFails(w) \/ DeleteFails(w) \/ CleanupFails(w)
  \/ RuntimeFails(w) \/ Crash(w)

Recover(j) == RecoverActivated(j) \/ RecoverExhausted(j) \/ RecoverRequeues(j)

Client ==
  \/ UploadDocument \/ UploadFindsDuplicate \/ UploadVersion
  \/ RequestRetry \/ RequestReindex \/ RequestDelete

Next ==
  \/ Client
  \/ \E e \in outbox : Publish(e) \/ Duplicate(e) \/ LoseMessage(e)
  \/ \E w \in Workers : Receive(w) \/ WorkerStep(w) \/ WorkerFault(w)
  \/ \E j \in Jobs : Recover(j)

Spec == Init /\ [][Next]_vars

\* Dispatch and recovery are scheduled by Beat for ever, a worker that holds
\* a message goes on unless it crashes, and a free worker takes messages.
Fairness ==
  /\ WF_vars(\E e \in outbox : Publish(e))
  /\ WF_vars(\E w \in Workers : Receive(w))
  /\ \A w \in Workers : WF_vars(WorkerStep(w) \/ LoadFails(w))
  /\ \A j \in Jobs : WF_vars(Recover(j))
  /\ WF_vars(UploadVersion)

FairSpec == Spec /\ Fairness
-----------------------------------------------------------------------------
\* Properties the code keeps.

\* The version users are served is complete: it is ready and the vector index
\* holds exactly the children of the chunks PostgreSQL holds, whatever fails
\* before activation and whatever compensations run late (VersionActivator,
\* the exception handler of run, cleanup_version).
ActiveServable ==
  active # None /\ ~BeingDeleted =>
    /\ vStatus[active] = "ready"
    /\ index[active] = {chunks[active]}

\* Duplicated messages, retries and recovery never make two workers process
\* one version at the same time (load_context's claim, schedule_retry).
OneRunPerVersion ==
  \A w1, w2 \in Workers :
    w1 # w2 /\ pc[w1] \in Running /\ pc[w2] \in Running => VersionOf(w1) # VersionOf(w2)

\* Even when recovery takes a live job for stale, one attempt of a job is
\* executed by one worker: a claim belongs to one attempt_count (load_context,
\* recover_stale_jobs).
OneRunPerAttempt ==
  \A w1, w2 \in Workers :
    w1 # w2 /\ pc[w1] \in Running /\ pc[w2] \in Running => RunOf(w1) # RunOf(w2)

\* Users see "ready" only with a version to read and "failed" only without
\* one, whichever of several runs failed last (mark_failed, recovery).
StatusMatchesActive ==
  /\ docStatus = "ready" => active # None
  /\ docStatus = "failed" => active = None

\* A job reported as succeeded has activated its version at some time
\* (complete_job is unconditional; recovery may also record success).
SucceededWasActivated ==
  \A j \in 1..nJobs :
    jStatus[j] = "succeeded" /\ jKind[j] # "delete" => jVersion[j] \in readyAt

\* No job waits for an event nobody wrote: the event of its current attempt
\* was committed with its status (upload, retry, schedule_retry, recovery).
WaitingJobHasEvent ==
  \A j \in 1..nJobs :
    jStatus[j] \in {"pending", "retry_wait"} =>
      (IF jKind[j] = "delete" THEN DeleteEvent(j) ELSE IngestEvent(j, attempt[j])) \in outbox

\* Two mechanisms count attempts, schedule_retry and recover_stale_jobs;
\* together they never start a job beyond max_attempts.
RunsBounded == \A w \in Workers : run[w] <= MaxAttempts

\* From the request to delete on, a document without uploads in flight only
\* moves to deleted, and its active version stays what it was (the deletion
\* checks of update_stage, activate, mark_failed, recovery and management).
DeletionIsFinal ==
  [][BeingDeleted => /\ docStatus' = docStatus \/ docStatus' = "deleted"
                     /\ active' = active]_vars

\* Every ingestion job comes to a verdict after crashes and lost messages
\* (recover_stale_jobs), unless its document is deleted first.
JobsSettle ==
  \A j \in Jobs :
    jStatus[j] = "pending" /\ jKind[j] # "delete" ~>
      jStatus[j] \in {"succeeded", "failed"} \/ BeingDeleted

\* The index of a version that was replaced is removed (activate's clean-up
\* event, cleanup_version).
SupersededIndexRemoved ==
  \A v \in Versions :
    v \in readyAt /\ active # v ~> index[v] = {} \/ active = v \/ BeingDeleted

\* A requested deletion is carried out (delete_document, acks_late).
DeletionCompletes == docStatus = "deleting" ~> docStatus = "deleted"

\* An undo failed again whose compensation had been handed over before: the
\* event key failed-version:{version} is taken, so no other one follows.
Abandoned(w) ==
  /\ pc[w] = "mark_failed" /\ todo[w] = {}
  /\ RunOf(w) \in index[VersionOf(w)]
  /\ FailedCleanupEvent(VersionOf(w)) \in published

\* What an ingestion in flight adds to the index while its document is being
\* deleted is taken out again (the handler of run, the compensation event),
\* unless the one compensation a version has is used up.
DeletedIsErased ==
  \/ docStatus = "deleted" ~> [](\A v \in Versions : index[v] = {})
  \/ <>(\E w \in Workers : Abandoned(w))

-----------------------------------------------------------------------------
\* Claims of documents, comments and tests that the code does not keep.

\* "VersionActivator switches the active version only after Milvus passed the
\* completeness check": the chunks of a newly activated version are indexed.
ActivatedIndexed ==
  [][active' # active => chunks'[active'] \in index'[active']]_vars

\* An active version is always searchable: retrieval joins the index with the
\* chunks of the active version.
ActiveSearchable ==
  active # None /\ ~BeingDeleted /\ ~deletedAt => chunks[active] \in index[active]

\* The same for every version, however often its undo fails.
DeletionErases == docStatus = "deleted" ~> [](\A v \in Versions : index[v] = {})

\* "A crash after activation is directly recorded as success."
RecoveryRecordsSuccess ==
  [][\A j \in Jobs : Recover(j) /\ jVersion[j] \in readyAt => jStatus'[j] = "succeeded"]_vars

\* "Records written to Milvus that PostgreSQL did not switch to are not part of
\* the active version and the clean-up task can delete them": the index of a
\* version that stays failed is removed.
FailedIndexRemoved ==
  \A v \in Versions : vStatus[v] = "failed" ~> index[v] = {} \/ vStatus[v] # "failed"
=============================================================================
