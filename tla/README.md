# Verification of ZHIQIAN-AGENT

TLA+ models of the program in this repository, their TLC configurations and
machine-checked proofs. Paths of the form `knowledge/...` are relative to
`src/src/agent_api/`.

ZHIQIAN-AGENT is a question-answering service over uploaded documents. A FastAPI
process serves the API and the chat. A Celery worker (two slots) with Beat parses,
chunks, embeds and indexes documents. PostgreSQL holds documents, versions, jobs and
events, Milvus the vectors, a directory the files, and Redis the Celery queue. No
transaction spans two of these, so the logic that matters is the one that keeps them
consistent under crashes, repeated messages, retries and concurrent requests. The
project starts there, and goes on to what a chat turn reads while all this changes.

## Inventory

| Component (source) | State | Operations | Interacts with |
|---|---|---|---|
| Transactional outbox (`knowledge/infrastructure/jobs/outbox.py`) | `outbox_events.status`, `available_at`, `attempt_count` | claim under a two-minute lease, publish, mark published or failed | every transaction that writes an event; the broker |
| Ingestion pipeline (`knowledge/application/ingestion.py`) | the context of one run | load, parse, chunk, embed, index, verify, activate, complete; exception handler | job repository, vector index, storage |
| Job repository (`knowledge/infrastructure/jobs/repository.py`) | rows of `documents`, `document_versions`, `ingestion_jobs`, `chunks` | load_context, update_stage, replace_chunks, activate, mark_failed, fail_job, complete_job, schedule_retry, recover_stale_jobs | pipeline, worker tasks |
| Worker entry points (`knowledge/worker/`) | Celery messages, unacknowledged until the task ends | process_event, dispatch_outbox, recover_stale_jobs, wiki tasks | everything above |
| Clean-up (`knowledge/worker/cleanup.py`) | none | delete_document, cleanup_version, delete_knowledge_base | index, storage, documents |
| Document management (`knowledge/application/management.py`) | rows of documents and knowledge bases | upload, new version, retry, reindex, delete; knowledge-base operations; progress stream | outbox |
| Wiki (`knowledge/wiki/`) | `wiki_jobs` with a token budget, `wiki_pages` and versions, claims | schedule, claim, generate, settle, publish, retry, recover; edit, revert, review; retrieval | activation, deletion, chat |
| Retrieval and citations (`knowledge/application/retrieval.py`, `citations.py`, `knowledge/wiki/retrieval.py`, `ranking.py`, `knowledge/tools/readonly.py`) | the numbered sources of a turn, per-call candidates, a text buffer | search, read, wiki search and page, fusion, budgets, numbering, filtering of citations in a stream | index, documents, wiki pages, chat |
| Chat turns (`llm/agent.py`, `api/chat.py`) | conversation checkpoints, locks per thread | stream a turn, cancel, roll back | retrieval, citations, web client |
| Start-up (`core/lifespan.py`, `knowledge/infrastructure/startup.py`) | opened resources | ordered checks, release in reverse order | all |
| Web client (`src/web/src`) | messages, stream parser | send, stop, parse events, poll progress | HTTP API |

What is hard, and what makes each component correct:

* **Outbox.** Beat starts a dispatcher every two seconds and runs overlap; a
  dispatcher may die between the broker's acknowledgement and its own write, or outlive
  its lease. Correct: nothing is written off unsent, a lease excludes other
  dispatchers, duplicates are caused by faults only, everything is sent at last.
* **Ingestion.** Messages come more than once; a worker dies anywhere; recovery and
  the automatic retry both restart jobs; an undo fails and its compensation comes
  minutes later; another version, a manual retry or a deletion arrives in the middle.
  Correct: the version users search is complete, one run at a time works on a version,
  status and job records are true, attempts are bounded, every job settles.
* **Deletion and clean-up.** They race ingestion. Correct: a deletion is never
  reverted, it completes, and nothing of the document stays in the index.
* **Wiki jobs.** Tokens are reserved before a call to the model and settled after it,
  across crashes and retries. Correct: charged once, reservations released, the budget
  respected, every job settles.
* **Wiki pages.** Generation, editors, reverts and reviews write the same page, and
  all of them the page of a shared topic, while changes of documents take the claims it
  rests on away. Correct: one candidate at a time, an edit is not silently overwritten, a
  decided review stands, the topic follows its summaries, verified claims are of active
  versions.
* **Deletion of a knowledge base.** A row lock, a plain read by uploads, a task of many
  calls without a transaction, and ingestions that go on meanwhile. Correct: no document
  is erased that nobody agreed to erase, an accepted deletion completes, and it leaves
  neither files nor index rows.
* **Retrieval.** The calls of a round run at the same time; each reads in several
  statements while versions, pages and switches change, and all number their sources in
  one list. Correct: what is cited was being served, one version of a document at a
  time, claims stand under their own page, and a marker names the source the client has.
* **Citations, ranking, chunking.** Pure functions over streams and lists. Correct: only
  markers of unknown sources vanish, the limits hold, ranks decide, no text is lost.
* **Start-up.** Each of its awaits may fail or be cancelled. Correct: nothing stays open
  that was opened.
* **Chat turns.** Correct: one turn of a conversation at a time, and a failed or
  cancelled turn leaves no half turn behind.

`PROJECT.json` lists each hazard with its line and the properties that cover it, or why
none does yet.

## Modules

| Module | Models |
|---|---|
| `EventDelivery` | abstract: at-least-once delivery of committed events |
| `Outbox` | the dispatcher protocol; `ImplementsDelivery` maps it to `EventDelivery` |
| `OutboxProofs` | theorems about `Outbox` |
| `Ingestion` | one document: uploads, jobs, pipeline, activation, retries, recovery, compensation, clean-up, deletion |
| `IngestionProofs` | theorems about `Ingestion` |
| `WikiJobs` | the wiki jobs of one knowledge base: scheduling, claiming, token budget, settlement, checkpoint, publication, retry, recovery |
| `WikiJobsProofs` | theorems about `WikiJobs` |
| `WikiPages` | the pages of one wiki: publication of summaries, the topic page they share, edits, reverts and reviews, statement by statement |
| `WikiPagesProofs` | theorems about `WikiPages` |
| `ChatTurn` | the turns of one conversation: lock, checkpoint, stream of events, read-ahead of the route, failure, cancellation, roll-back |
| `ChatTurnProofs` | theorems about `ChatTurn` |
| `Retrieval` | the tool calls of one turn against changes of the database: statements, numbering, publication of sources |
| `RetrievalProofs` | theorems about `Retrieval` and `Algorithms` |
| `KnowledgeBases` | deletion of a knowledge base against uploads, ingestion, deletion of documents and crashes |
| `KnowledgeBasesProofs` | theorems about `KnowledgeBases` |
| `Startup` | start and stop of the API process |
| `StartupProofs` | theorems about `Startup` |
| `Citations`, `Ranking`, `Chunking` | pure functions: the citation filter; fusion, choice among claims and budgets; the parent and child chunker |
| `Algorithms` | applies these functions to the inputs they may get, and states what they are to compute |
| `MCAlgorithms`, `MCOutbox`, `MCIngestion`, `MCWikiJobs`, `MCWikiPages`, `MCChatTurn`, `MCRetrieval`, `MCKnowledgeBases`, `MCStartup` | instances for TLC |

How they fit together: an activation in `Ingestion` is the step that makes a version
`ready` in `WikiJobs`, and `Switch` in `Retrieval`; a publication in `WikiJobs` is
`Publish` in `WikiPages` and `Replace` in `Retrieval`; the answer of a tool in `Retrieval`
is `ToolsReturn` in `ChatTurn`; `KnowledgeBases` has the steps of `Ingestion` that touch
files and index, and checks them for all documents of a knowledge base.

### Outbox

`status` and `sends` describe rows and what the broker accepted; `due[e]` is
`available_at <= now()`. `ClaimPending` is `claim_pending` (at most `Limit` rows; the
lease makes them not due), `PublishSucceeds` and `PublishRaises` are `send_task` (when
it raises, the broker may have accepted the message all the same), `MarkPublished` and
`MarkFailed` the two outcomes of `dispatch_once`. `BecomesDue` is the clock; when it
passes the lease of a row some run still holds, that is a fault and sets the history
variable `overrun`. `MarkFailed` is unconditional as in the code, so it can revive a
row another run has published.

### Ingestion

One action per transaction, index call or message:

| Action | Code |
|---|---|
| `Publish`, `Receive`, `Crash`, `Duplicate`, `LoseMessage` | outbox and Celery: `task_acks_late`, `task_reject_on_worker_lost` |
| `LoadClaims`, `LoadSkips`, `LoadFails` | `load_context`, and the two exceptions of `run` before its `try` |
| `UpdateStage`, `StageReady` | `update_stage`, before and after activation |
| `ReplaceChunks` | `replace_chunks` |
| `ClearIndex`, `InsertIndex` | the two calls of `replace_version` on Milvus |
| `Verify`, `RejectUnverified`, `Activate`, `ActivateRaises` | `VersionActivator.activate` and `repository.activate` |
| `CompleteJob` | `complete_job` |
| `UndoIndex`, `UndoIndexFails`, `MarkFailed`, `FailJob`, `HandlerFails` | the exception handler of `run` |
| `ScheduleRetry`, `ScheduleFails` | `schedule_retry` through `_schedule_durable_retry` |
| `RecoverActivated`, `RecoverExhausted`, `RecoverRequeues` | the three outcomes of `recover_stale_jobs` |
| `DeleteRead` ... `DeleteCommit`, `CleanupVersion` | `delete_document`, `cleanup_version` |
| `UploadDocument`, `UploadFindsDuplicate`, `UploadVersion`, `RequestRetry`, `RequestReindex`, `RequestDelete` | `management.py` |

The outbox appears here as what `Outbox` is shown to implement: an event of the
outbox is handed over at least once (`Publish`, `Duplicate`).

Abstractions:

* A document shares no row with another one, so there is one.
* The chunks of a version are represented by the run (job and attempt) that wrote
  them. Identifiers of chunks are fresh in every run, so rows that two runs inserted
  into the index are different rows. Every run of a version yields the same number of
  children, because parsing and chunking are functions of the file; the completeness
  check of `VersionActivator` compares numbers, and `Verify` therefore compares the
  number of runs in the index with one.
* A transaction is one step: rows are locked with `SELECT ... FOR UPDATE`. A deadlock
  (the lock orders differ) shows as a failing step.
* The heartbeat task is not a step. A job whose worker lives is stale only with
  `Zombies = TRUE`, which stands for missed heartbeats.
* A waiting job counts as stale as soon as its message was published; the code adds an
  age of five minutes, which a long queue exceeds.
* The compensation event of a failed undo is published after the handler that wrote
  it (it becomes available five minutes later) unless `Zombies` holds.
* `RequestReindex` changes nothing: building the new version raises and the
  transaction is rolled back (see below).
* `task_time_limit` kills a worker process and acknowledges its message: for the
  model, a crash followed by the loss of the message.
* Wiki generation is off, as it is without a row in `wiki_configs`.

### WikiJobs

A job has the idempotency key `wiki:{version}`, so it is named by its document version.
`enabled`, `limit`, `reserved` and `charged` are the row of `wiki_configs`; `status`,
`attempt`, `held`, `settled` (checkpoint and row of `wiki_token_usage`) and `stale` (the
heartbeat is 35 minutes old) the rows of `wiki_jobs`; `ready` the versions a claim
accepts, that is, active versions of documents with status `ready`. One action per
transaction, model call or message:

| Action | Code |
|---|---|
| `ActivateReads`, `ActivateCommits` | `schedule_document_wiki` in `activate`: the row of `wiki_configs` is read without a lock, so the read and the commit are two steps |
| `DocumentBusy`, `DocumentReadyAgain` | the status of a document while ingestion works on another version of it (`update_stage`, `mark_failed`) |
| `UpdateConfig` | `WikiService.update_config` |
| `ClaimSkips`, `ClaimStops`, `ClaimPublishes`, `ClaimGenerates`, `ClaimOverBudget` | the outcomes of `_claim` |
| `Generate`, `GenerateFails` | the call of the model in `run` |
| `Settle`, `Fail`, `Publish` | `_settle`, `_fail`, `_publish` |
| `RecoverStale` | `recover_stale` |
| `Raise`, `Crash`, `TimeLimit`, `LoseMessage`, `Duplicate` | an exception `run` does not catch, a dying worker, `task_time_limit`, Redis and the outbox |

Abstractions: every job is estimated at the same number of tokens and charged some
number of `Charges` (what the model measured, or the reservation). Checkpoints and
chunks have no content: an active version has chunks, and a checkpoint can be read
back, so the failures of jobs without them do not occur. Pages are left to `WikiPages`.
The outbox and the broker are one queue in which messages of one job beyond
`MaxMessages` are merged.

### WikiPages

`pages[p]` holds the committed rows: the versions in the order of their `version_no`,
`current_version_id` and `deleted_at`. `active[s]` is the active version of the document a
summary belongs to, and `verified` holds the versions of summaries whose claims have
`trust_state = 'verified'`. `tx[t]` is a database session: the page it holds with its
uncommitted row, the claims it has written or invalidated, and what `_upsert_page` and
`_rebuild_topic_pages` have read so far. PostgreSQL runs READ
COMMITTED, so each statement that matters is an action, and reads the committed rows and
its own (`View`); a user's lock (`FOR UPDATE`) and the key lock of an inserted version
(`FOR KEY SHARE`) make other transactions wait (`Free`).

| Action | Code |
|---|---|
| `Publish` | `_publish` up to `_upsert_page` for the summary; the row of `wiki_configs` is locked, so one pipeline transaction runs at a time |
| `ReadPage`, `ReadNumber` | the reads of `_upsert_page`: the page and its current version; the highest `version_no` and the candidates |
| `InsertSummary`, `CommitTopic` | the insert of the new version, of a summary with its claims and of the topic |
| `ReadSources`, `ReadClaims` | `_rebuild_topic_pages`: the current summaries, then the verified claims of each of them in a statement of its own |
| `KeepTopic`, `RetireTopic` | the rest of it and `retire_stale_topic_pages`, then the commit |
| `ChangeDocument`, `CommitDocument` | `activate` and `delete_document`: the document is locked, `invalidate_document_claims` takes the claims that are verified now, and nothing is rebuilt |
| `EditPage`, `RevertPage`, `PublishCandidate`, `RejectCandidate` | `edit_page`, `revert_page`, `review_page`: lock, compare with `base_version`, write; all but a rejection then rebuild the topic |
| `Abort` | a lost connection, a violated constraint, the victim of a deadlock |

Abstractions: contents and metadata are what they were made from (a generation, or the
versions of summaries a topic page was made from). There is one topic. A generation that
is `Topical` names it, and one that is `Cited` has claims that cite the topic's chunks;
the claims of one version of a summary are written, copied and invalidated together, so
they are verified all or none. A topic is supported if two summaries name it and one of
them has such claims, and its content is made of the summaries that have. Everything users
write is the same text, so a summary a user wrote names its topic still (its metadata is
copied) but supports it with no claim, and a reverted one supports it if the claims it was
copied from are still verified (`CopiedClaims`). `active[s] = None` stands for a document
that has no version yet or is being deleted; as `Ingestion` shows, an upload may revive
the latter. Claims of topic pages are left out: no rebuild reads them. The rebuild reads
the summaries without `ORDER BY`; the model takes one order, where another one would add
a version of the topic with the same sentences. A request that is answered with
404 or 409 changes nothing and is no action; a version users saw is current when they
lock the page, or the request is such a one. A generation is published once
for a document; its job and checks are in `WikiJobs`. Clearing `deleted_at` locks the
row of a deleted topic page one statement before the insert; the model takes the lock at
the insert, which allows the same commits and some more. Left out: titles, aliases, and
the index page, which is written like the topic.

### ChatTurn

One conversation: conversations have their own lock and checkpoint and share nothing.
`history` is the list of messages of the checkpoint, `queue` the `asyncio.Lock` (its
holder, then the waiters in the order they came), and `req[r]` the state of a request:
where `stream_events` is (`step`), the events it has still to yield (`todo`; it is
suspended at the first), who reads it (`reader`: the route, then the response), the
snapshot of the messages (`baseline`), and how the client left (`outcome`).

`Send` is a request that reaches the agent, through `stream_events` or the older
`stream` (`legacy`: only messages are visible). `Enter` takes the lock and the snapshot,
`Begin` hands the user's message to the agent. `ModelChunk`, `ModelCalls`, `ToolsReturn`
and `ModelAnswers` are the items of the agent's stream; the last three also append to the
checkpoint, as LangGraph does when a node ends. They may yield a status (the events
`sources` and `status`), a message, both or nothing: which of them depends on texts, and
on what the citation filter holds back, which the properties do not look at. `Buffer`,
`Respond` and `RespondEmpty` are the route, which reads up to the first message so that
an early failure can be answered with 502; `Replay`, `Deliver` and `Done` are the body of
the response. The generator runs only while somebody waits for its next event
(`Awaiting`), and the lock is held meanwhile.

`Fail` is an exception of the agent. `CancelWaiting`, `CancelRunning` and
`CancelRollback` are cancellations at the three kinds of `await`; after `Disconnect` at a
`yield` nobody refers to the generator, and asyncio closes it (`Finalize`), which raises
`GeneratorExit` at that `yield`. `Rollback` is the exception handler with the release of
the lock. LangGraph, Starlette and asyncio are external.

### Retrieval

The database is what its rows say at the moment of a statement: the active version of
each document, whether it is deleted or `ready`, which knowledge bases and wikis are
enabled, the current version of each page, and which claims are still `verified`. PostgreSQL
runs READ COMMITTED, so every statement is an action and sees what is committed by then.
`call[c]` is what a tool call has read so far, `sources` the list in which
`TurnKnowledgeState.register` numbers them.

| Action | Code |
|---|---|
| `Begin` | `_scope`, and the arguments of one of the tools |
| `Fetch` | `_search_sources`: what the index finds, joined by `_fetch_sources` |
| `Match`, `Context` | the two statements of `read` |
| `Metadata`, `Candidates`, `SourcePages` | the channels of `WikiRetrievalService.search` |
| `HydratePages`, `HydrateClaims` | the statements of `_hydrate_pages` for titles and for claims |
| `Register`, `RegisterClaims` | `TurnKnowledgeState.register`, by `register_claim` claim after claim |
| `Unavailable` | the tools' `except Exception` |
| `Write`, `Publish`, `Show` | the model's text, the event `sources`, the text behind the citation filter |
| `Switch`, `Unready`, `Delete`, `SetEnabled`, `SetWiki`, `Replace` | activation, another ingestion, deletion, `update_knowledge_base`, `update_config`, publication of a page |

Abstractions: the index may find and a ranking may choose anything in any order, which
covers every score, limit and reranker; a claim of a page keeps its sources, as rows of
`wiki_claim_sources` do. `served` and `open` are history: what was active, and which
knowledge bases were enabled, at some moment of the call.

### KnowledgeBases

One knowledge base. Every upload creates a document of its own (uploads that find a
duplicate are in `Ingestion`), so an upload names its document, its only version, its
file and its index rows. `LockAndCount` is the `SELECT ... FOR UPDATE` of
`delete_knowledge_base` with the count; `DeleteEmpty`, `Refuse` and `Accept` are its three
ends. An insert of a document needs `FOR KEY SHARE` on the knowledge base for its foreign
key and waits for that lock (`Unlocked`); the upload's `SELECT` of the knowledge base
does not. `ReadVersions`, `DeleteIndex`, `DeleteFile` and `Erase` are
`KnowledgeCleanupService.delete_knowledge_base`, call by call, and `TaskCrashes` starts it
again from its beginning. Ingestion has its checks (`Claim`, `StageIndexing`, `Activate`)
and its calls to the index. `doomed` is history: documents whose deletion was accepted.
Whether the knowledge base is enabled plays no part here and is in `Retrieval`.

### Startup

`lifespan` from the settings to the last `close`. Constructors that connect to nothing
are part of the step before them. A check opens its connection when it runs
(`CheckPasses`, `CheckFails`, `CheckCancelled`: `except Exception` does not catch
`CancelledError`); `initialized` is `KnowledgeStartup._initialized`. When the opening of
the Milvus client is cancelled, the thread of `asyncio.to_thread` goes on and opens it, and
no variable of `lifespan` holds it (`OpenMilvusCancelled`, `stray`). A `close` may raise
or be cancelled (`CloseRaises`, `CloseCheckRaises`), after which the code closes nothing
more.

### Citations, Ranking, Chunking

Texts are sequences of characters. `LoopPass` is one pass of the loop of `push`, and
`Push` repeats it as often as the buffer has characters, which is enough: a pass takes at
least one, or is the last. The digits of a marker are those of ASCII;
Python's `\d` also matches other decimal digits of Unicode, which `int` reads as the same
numbers. `Fusion` and `Marginal` are exact multiples of `1 / Scale`,
floats in the code. `Fuse` puts each item after those that `Before` has before it, which
is what the stable `sorted` does. `Select` is the loop of `WikiRetrievalService.search`
over the ordered pages, on lengths of claims. `Chunk` is `ParentChildChunker.chunk`. All
loops are recursive functions on `0 .. n`.

`Algorithms` calls each function once, on an input that is a constant of the module, and
states what the call returns against definitions of another shape: `Without` deletes
places from the whole text, where the filter sees it piece by piece. `InputAssumption`
types the inputs, any text, list and number among them. It also says that a claim has text
(`wiki/generator.py:193` refuses an empty one) and that the limits are positive
(`wiki/retrieval.py:226`, :228 refuse others).

## Runs

| Run | Instance | What it shows |
|---|---|---|
| `outbox` | 2 events, 2 dispatchers, 3 faults, fair | safety, liveness and refinement of the outbox |
| `ingestion_versions` | 2 versions, 2 jobs of 2 attempts, 2 workers, 2 faults of 12 kinds | the served version is complete and processed by one run, although compensations run late, messages are lost and duplicated and workers die; no job waits without an event |
| `ingestion_lifecycle` | 2 versions, 3 jobs (the third is the deletion), a crash, a lost message or a failed deletion, fair | the status agrees with the active version; every job settles; the index of a replaced version goes |
| `ingestion_deletion` | 1 version, a retry or a deletion, 3 faults (failing step, load or undo, dying deletion), fair | a deletion is not reverted, completes, and the index stays empty for ever, unless an undo fails again after the compensation of its version has been used |
| `wiki_jobs` | 2 documents, 2 workers, a fault of any kind, limits for one job or two, charges below and at the estimate, fair | a charged generation is not repeated; the budget is kept; every scheduled or resumed job comes to rest unless a message for it is lost |
| `wiki_pages` | 2 documents with 3 generations each, two naming the topic and one of these citing it, 2 transactions, 3 edits, reverts, reviews or changes of documents | one candidate per page; no author replaces what he has not seen; reviews are decided once; without overlaps edits stand and the topic follows the summaries and their verified claims, up to what a change of a document takes away |
| `chat_turns` | 2 requests of a conversation, a chunk and a call of a tool each, 2 failures, cancellations or disconnections, fair | no half or mixed turn stays; done turns stay; done streams are complete; each request ends and releases the lock |
| `retrieval` | 2 calls at the same time, 2 knowledge bases, 2 documents of 2 versions, a page of 2 versions with 3 claims, 2 changes, room for 2 sources | what is cited was being served, in scope, in one version; claims belong to their title; markers resolve |
| `knowledge_bases` | 2 uploads, a client that asks as often as it likes, a fault, fair | nothing of a document whose deletion was accepted stays; nothing goes unasked; an accepted deletion completes |
| `startup` | 4 checks, a failure, a cancellation or a raising `close` anywhere | the end leaves nothing open that the code still holds but a failed check's connection |
| `algorithms` | 670 000 inputs | what the five functions compute |
| `v_late_failure` | 1 version | a place where ingestion departs from its documents, see below |

Each property has a mutant of the code it breaks under (`PROJECT.json`, "mutants");
their operators are marked "Mutant" in the modules.

**Bounds.** Two dispatchers and two workers are the smallest number that overlap, and
two is also the configured concurrency of the worker. Three faults allow an event of
the outbox to be overrun, fail and be revived. Two versions make one replace the other;
a second job of a version is an automatic retry of the first, a manual one or a
deletion. Two attempts make one retry and one exhaustion; with `MaxAttempts = 1` the
manual retry and the deletion are reached with fewer states. Two faults combine a
failure with the failure of its undo; three let the retry fail to undo as well, when the
version's only compensation has been used, which is why the deletion has three. Its
properties hold as well with five faults of these kinds, and with duplicated messages
among three faults (`Faults = {"step", "undo", "duplicate"}`) or two (with `"load"` and
`"crash_cleanup"`). Deadlock is not checked in `Ingestion`:
when the client makes no request, the system rests. In `wiki_jobs` two documents share
one budget, which is all they share, and with `Estimate = 2` and `Limits = {3, 4}` the
second job fits at once, after a charge below the estimate, or not at all. The failure
of one job, the repetition of a message or a worker that dies meets the other job at any
point; the invariants hold as well with two faults and two messages per job (2.2 million
states, symmetric in documents and workers), and `WikiJobsProofs` has them for all bounds.
In `wiki_pages` two summaries are what a topic needs and two transactions what an overlap
needs. A generation that cites the topic, one that only names it and one that does not
make a page appear, change, be retired and come back. Three changes allow an edit, a new
version of a document, which takes its claims away, and a decision on the candidate laid
on the edit. Documents and transactions are symmetric. With four changes and two
generations (2.1 million states), with two generations that both cite the topic, and with
three summaries and one transaction (1.3 million states) the properties hold as well.
Deadlock is not checked: when everything is published
and users are done, the system rests; a circular wait ends by `Abort`. In `chat_turns` two
requests are a turn and the one that waits for it, finds its traces or is rolled back
behind it. One chunk and one call of a tool reach every combination of events before and
after the first message. Two faults are a failure of each turn, or a failure and a
cancellation of its roll-back. Deadlock is not checked: when all requests have ended,
nothing happens.

In `retrieval` two calls are what parallel numbering needs, and two changes put the old
and the new state of any two rows around any statement; the turn may use one of the two
knowledge bases, and the claims of the page's second version rest on both versions of
the document. Room for two sources is used up by one call and denied to the other.
Each call runs once; the code has a list of eight and any number of rounds. In
`knowledge_bases` one upload may be complete, and the other anywhere, when deletion is
asked for; one client that repeats its request is enough, because the row lock lets one
request decide at a time and requests keep nothing of their own. `startup` has one check
more than the code. Both systems, and the turn, come to rest, so deadlock is not checked.

In `algorithms` answers have up to five fragments, which are brackets, numbers of known
and unknown sources and text, cut at any two places, with a source registered before the
third piece; an open bracket is released after 4 characters instead of 16, so that the
texts reach beyond it. Rankings have up to three entries with repetitions. Scores and
similarities of claims straddle the 3/7 at which redundancy outweighs relevance. Page
and claim lengths straddle every limit. Documents have up to two sections, with blanks at
either end, around one and two full children.

**Fairness.** Beat schedules `dispatch_outbox` and `recover_stale_jobs` for ever
(`celery_factory.py`), so publication and recovery of a job are weakly fair. A free
worker takes a message when there is one. A worker that holds a message goes on with
its next step unless a fault intervenes. An upload that read its duplicate commits. No
fairness is assumed for clients, faults and crashes. In `Outbox`, the clock advances,
claims happen as long as rows are due, and a running dispatcher goes on. In `WikiJobs` the
messages of a job are received with strong fairness, because the queue is first in, first
out; retries become due, workers go on, heartbeats of dead workers expire and
`recover_stale` runs every minute. A heartbeat expires after 35 minutes and a task is
killed after 30 (`task_time_limit`), so with `Zombies = FALSE` no heartbeat expires under
a living worker. In `ChatTurn`, each request with its agent and its reader goes on:
asyncio runs what is ready, and closes a generator nobody refers to; a client reads or
its connection breaks; and a call of the model ends. The last is an assumption about the
libraries of the providers: `llm/` sets no time-out of its own, and a call that hangs keeps
the lock of its conversation. No fairness is assumed for failures, cancellations and new
requests. In `KnowledgeBases` the clean-up task goes on (Celery runs the messages it has,
`celery_factory.py`), a request that holds the row lock ends its transaction, and `Erase`
is strongly fair: PostgreSQL queues those who wait for a row, so later requests do not
overtake it for ever. Nothing is assumed of uploads, ingestion and other requests.

## What is proved

`OutboxProofs`, for all sets of events and dispatchers, every `Limit` and every number
of faults:

* `Typing`: the type invariant.
* `NothingWrittenOffUnsent` (`PublishedWasSent`), `LeaseExcludes` (`ExclusiveClaims`)
  and `OutboxImplementsDelivery` (`ImplementsDelivery`: initial states map to initial
  states and each step to a step of `EventDelivery` or a stutter).
* `DuplicatesArePaidFor` (`DuplicatesNeedFaults`).

All rest on `OutboxInv`. `PublishedWasSent` alone is not inductive: a run about to
record success must know that the event at hand was sent (`OutcomeKnown`).
`ExclusiveClaims` alone is not inductive: a second claim is harmless only because the
rows someone holds are not due (`LeaseKept`). The refinement needs that only committed
rows are ever held (`HoldsCommitted`). Exclusiveness, the history of sends and the
committed rows are then preserved action by action; a step that takes no row on is
handled by one lemma, `FewerHolds`. For duplicates, `PaidInv` counts per event: the copies
sent, one more if its row may be claimed again, and the runs that may still send it
(`Bearers`) add up to at most one plus the faults. A claim moves the row's unit to a run, a
send moves it from the run to the copies, and only what is counted as a fault (a lease that
runs out, a lost answer of the broker, a crash) makes a new one. Assumptions: `NoEvent` is
no event, `Limit` is positive, `MaxFaults` is a natural number.

`IngestionProofs`, for all bounds, workers, requests and faults, and with recovery taking
live jobs for stale (`Zombies`) or not:

* `Typing`, `WaitingJobsHaveEvents`, `StatusFollowsActive`: invariants of the runs.
* `SucceededJobsWereActivated`, `RunsAreBounded`, `OneRunForEachAttempt`: success implies
  an activation, attempts are bounded, two workers never execute the same attempt. They
  have a proof for every instance and therefore no run.
* `DeletionStands` (`DeletionIsFinal`), assuming that no client uploads a new version;
  with uploads it does not hold (below).
* `OneRunForEachVersion` (`OneRunPerVersion`), assuming that live jobs are not taken for
  stale, `load_context` does not raise and no client retries by hand: each of these gives
  one version a second run ("Further departures").
* `ActiveIsServable` (`ActiveServable`), assuming in addition that no step after the
  activation raises (`v_late_failure` is the run that shows why) and that clients do not
  both upload and delete (`DeletionIsFinal` below shows why). All other faults may come in
  any number: crashes, lost and repeated messages, failing steps, undos, retries and
  clean-ups.

The inductive invariant `Inv` starts with a register, `Basic`: a busy worker holds a
committed message and is at a step of its kind, events name jobs of their kind, jobs
belong to versions that exist, and nothing but `delete_document` touches a deletion job.
Without it an action could write the row of any job. On it rest three arguments:

* Success: `SucceededWasActivated` needs that an active version and the version of a run
  past activation have been activated, and that an activated document stays active
  (`ServedInv`); the last also carries `StatusMatchesActive`.
* Attempts: a run is claimed at `attempt_count`, so `RunsBounded` needs the bound on the
  jobs that may be claimed (`AttemptsBounded`), from the tests of `schedule_retry` and
  `recover_stale_jobs`, and that inserted jobs start at zero (`FreshJobs`).
* Claims: `OneRunPerAttempt` alone is not inductive. A second claim of an attempt is
  impossible as the job of a run at its current attempt is never waiting
  (`ClaimsCurrent`), and every return to waiting increments the count.

The last two theorems add to `Inv`. `OneRunForEachVersion` needs that a version has one job
(`OneJobPerVersion`), that a job has one worker (`OneWorkerPerJob`; two that found the file
gone may both be about to schedule a retry, and neither runs), and that the status of an
executed job keeps others from claiming it (`JobsHeld`). `ActiveIsServable` needs two
more facts about runs and one about the served version. Until a run activates, nobody else
writes the chunks, status or index of its version (`RunsKept`), so what `Verify` compared is
what `Activate` makes visible. Once a version is active, all its runs are past their
activation and none of its jobs waits (`Undisturbed`), so no run clears its index again;
late compensations and clean-ups name other versions. `Verify` compares numbers, and
that one run's children are in the index means that no other run's are only because the
index is finite (`IndexFinite`).

Frame lemmas (`DocumentFrame`, `JobFrame`, `OutboxFrame`, `ProceedsStep`) say once which
actions write which part of the state. Assumptions: the bounds are natural numbers and
`Zombies` is a Boolean.

`WikiJobsProofs`, for every finite set of versions, any workers, limits, charges and
bounds:

* `Typing`, `WaitingJobsHaveMessages`, `ReservationsAreExact`, with `Zombies` or without
  (these have no run).
* `OneWorkerPerJob` (no run) and `ChargedGenerationsStand`, without `Zombies`.
* `BudgetHolds`, without `Zombies`, if no generation costs more than its estimate.

The first two of the last three rest on `Runs`: an executed job is running under a fresh
heartbeat (`Leases`), which no claim accepts, and from its claim to its settlement it
holds its reservation (`Reserved`). `ReservationsMatch` counts the jobs with a
reservation; `ReleaseIsExact` shows that the `max(0, ...)` of a release never cuts
anything off, and the two lemmas on sums follow from the theorems on finite sets. The
budget then follows from the tests of `_claim` and `update_config`, and in `_settle`
because the reservation that is released covers the charge. Assumptions: `Versions` is
finite, the estimate is positive, limits, charges and bounds are natural numbers.

`WikiPagesProofs`, for every finite set of summaries, any generations, any number of
transactions and changes:

* `Typing`, `OneCandidateEach` (`OneCandidate`), `NothingReplacedUnseen`
  (`ChangesReplaceTheirBase`).
* `TopicFollows` (`TopicFollowsSummaries`), `ReviewsDecidedOnce` (`ReviewsAreFinal`),
  `EditsStandInEveryTurn` (`EditsStandInTurn`).
* `VerifiedClaimsStand` (`VerifiedInTurn`, which no run checks: TLC finds it to hold in
  `MCWikiPages_pages.cfg`, 2.1 million states without `SYMMETRY`).

`OneCandidate` is not inductive: a transaction about to lay a candidate must know that it
supersedes all there are. It knows only what the page held when it read it, so the
invariant says that its knowledge is complete *if the number it chose is still free*
(`ReadsOf`); any commit in between takes that number, and the unique `version_no` makes
the insert fail. This needs that versions are only added, and that a candidate appears
with a new version only (`Evolves`), of each commit and of each uncommitted row relative
to the committed one (`Drafted`), for which in turn no two transactions may hold one page
(`Exclusive`). `ChangesReplaceTheirBase` follows from `Based`, which every step and every
uncommitted row satisfies.

The other four hold as long as no transactions overlapped, and rest on `TurnInv`. While
`overlapped` is false, at most one transaction is open, so everything it has read or
written is the committed state with its own changes, statement by statement: the page and
the number it read, the summaries and, of those whose turn has come, the claims
(`ReadsInTurn`), and its uncommitted row (`DraftInTurn`). `Turn` says what a rebuild finds
and leaves: a topic that is up to date, retired, or has the wanted content offered on the
version users wrote, with no other candidate that could be published (`Answered`, by
`Material`, which is what current summaries and verified claims make). It says so until
claims of a current summary are taken away (`outdated`), and again from the next rebuild
on. The last part of `Offered` is needed for `EditsStandInTurn`: publishing any other
candidate would make the rebuild that follows replace it, which is what happens when claims
were lost in between (below, `EditsStandAlone`) and why the property excepts it. Proving it
also showed that content has to be compared, not versions, for three summaries, which no
run had reached (below, `CandidatesAreFresh`). For `VerifiedClaimsStand`, `Standing` adds
that verified claims, committed or not, are of a version made for the active one, that a
publication under way goes by the active version, and that a change under way takes all
claims of its document. Assumptions: the topic is no summary, `None` is no page,
generations that name the topic are generations, `Summaries` is finite.

`ChatTurnProofs`, for any set of requests, chunks, calls of tools and faults:

* `Typing`, `WholeTurns` (`TurnsAreWhole`), `SerialTurns` (`TurnsAreSerial`), `DoneStays`
  (`DoneIsKept`), `DoneCarriesAll` (`DoneIsComplete`).

The inductive invariant has three arguments. `Locked`: nobody is in the queue of the lock
twice, its members are those who wait or are in their turn, and who is in its turn heads
it; so two requests in their turn are one (`OneTurn`). `Contents`: the checkpoint of a
request in its turn is its snapshot followed by messages of its own, and the snapshot has
none of them; the second half is needed because a roll-back writes the snapshot back, and
must leave nothing of this turn and all of the others. `AllCounted`: the messages the
agent made visible are those the client received, those the route has buffered and those
still to be yielded; each step of the route or the response moves one event from one part
to another (`ShownFirst`, a bijection), so a stream that ends with `done` has carried all.
Assumption: the bounds are natural numbers.

`RetrievalProofs`, for any knowledge bases, documents, pages, claims, calls and changes:

* `Typing` and `TitlesMatch` (`ClaimsMatchTheirPage`). A call answers once, with its last
  step (`AnswersLast`), and until then what it will answer belongs to the titles it has read
  (`RowsMatch`), whatever is published between the two statements.
* `EveryMarkerResolves` (`MarkersResolve`), `SourcesServed` (`SourcesWereServed`),
  `AnswersHaveOneVersion` (`OneVersionPerAnswer`).

`MarkersResolve` needs that `register` only ever adds to the list (`ExtendStays`): the list
the client has stays the front of the list of the turn, whichever calls register in which
order. `Evidence` is what the last two rest on. A call knows of what is live now that it is
in its history, of what it has found that it is citable together (`Known`), and of its
answer that the numbers in it name citable sources (`Cites`). Every statement establishes
this from the rows it reads; a change by others adds to the history; another call's
registration moves no number. `Extend` and `FlattenSeq` go through lists of any length; the
lemma `InductionUpTo` has the induction they need, on a set of numbers below a bound, which
the theorems on finite sets give. Assumptions: documents and claims are finite, bounds are
positive, bases and claims have their types.

The second half of `RetrievalProofs` is about `Algorithms`, for any inputs:

* `NothingElseVanishes` (`OnlyUnknownMarkersVanish`), `UnknownMarkersVanish`
  (`NoUnknownMarkerIsShown`), `FusionFollowsRanks` (`FusionIsMonotone`),
  `RepeatedClaimsYield` (`DuplicatesYield`), `LimitsHoldTogether` (`SelectionHolds`),
  `ChildrenTile` (`ChildrenTileTheirParent`).

Each loop is a recursive function, and `InvariantIteration` gives it a loop invariant: what
holds at 0 and is kept by each step up to n holds at n. The invariants are these.

* The filter: `Filtered`. Of the text received, the output is what `Without` keeps of the
  first a characters, the pending part is the rest, and no bracket closes in what was
  pending before this piece. So a marker found now was completed by this piece, and
  `Passes` compares it with the number of sources that counts (`UnknownIsKnown`). In a flat
  text, moreover, no marker of an unknown source begins before a and ends after it
  (`Thorough`); this is where a release of one bracket after `HoldBack` characters needs
  `HoldBack > 3`. Each pass gets further or leaves no closing bracket (`Further`), so that
  after the last one none is pending, and `finish` shows no complete marker.
* Fusion: the share of an item ahead in a channel is no smaller (`SharesOrdered`), so its
  score is not (`ScoresOrdered`), and equal scores keep the order of appearance. `Before`
  orders the items strictly, and `Sorting` is the lemma that a finite ordered set is listed
  in order by counting what is before each.
* Choice: each claim chosen is worth most of those left when it was chosen (`Greedy`).
  A claim with the tokens of a chosen one has similarity `Scale` to it, and a claim that
  shares nothing has 0 to all of them (`JaccardBounds`).
* Limits: `WithinLimits` relates what is left to what was taken, and `ShowsTheBest` says
  that once a page with claims was seen something is shown, and what.
* Chunks: `DraftsOf` says of the drafts of the first k sections that the parents are the
  stripped sections in order and that each parent is tiled by its children (`TiledUpTo`).

Assumptions: those on the inputs and constants named in `Citations`, `Ranking`, `Chunking`
and `Algorithms`; token sets are finite.

`KnowledgeBasesProofs`, for any uploads, requests and faults:

* `Typing`, `NothingLeft` (`ErasedLeavesNothing`), `AskedFirst` (`NotErasedUnasked`).

`AskedFirst` rests on `Asked`: a confirmed request, an event and a task each imply that
somebody asked, and while a request has found the knowledge base empty it stays empty,
because its lock makes inserts wait. `NothingLeft` needs more: a document whose deletion
was accepted is `Sealed` (its upload is over, and ingestion refuses it), so its index rows
only shrink, except for those of a run that will undo them (`Clean`), and what the task
has not removed yet is on its list (`Listed`). A crash starts the list again, which is
harmless because the rows it is read from are erased last (`DoomedStored`).

`StartupProofs`, for any number of checks:

* `Typing`, `ServedOpen` (`ServedResourcesAreOpen`, no run), `EndReleases`
  (`EndReleasesAll`).

The list of `KnowledgeStartup` holds the first checks in order (`InOrder`), and every open
connection is on it or belongs to a failed check (`Accounted`), until closing raises; what
each step of the `finally` block has closed of what it holds (`DatabaseClosed`,
`BothClosed`, `ChecksClosed`) adds up to the end.

Only model-checked: every liveness property and the temporal properties under fairness,
which the prover cannot treat (it has neither `ENABLED` nor fairness). Every invariant
that a passing run checks is also proved, and `Typing` for every module with a type
invariant.

## Where the code departs from its documents

One departure has a run. `v_late_failure`: an error after activation
(`update_stage("ready")` or `complete_job`) makes the job run again and clears the index
of the version being served.

### Further departures

Each of these is found by TLC when the constants of a configuration are changed as
given. In `Ingestion`, start from `MCIngestion_v_late_failure.cfg` (1 version, 1 job, 2
attempts, 1 fault, without `SYMMETRY` under `FairSpec`):

| Property | Constants | Behaviour |
|---|---|---|
| `ActivatedIndexed` | 2 jobs, `Api = {"retry"}`, `Faults = {"step"}` | `request_document_action` accepts a retry (`management.py:347`) in the window between `fail_job` and `schedule_retry`. Two jobs then process one version, and the one activates chunks that the other has replaced in the index; only row counts are compared, where `docs/superpowers/specs/2026-09-20-native-knowledge-rag-design.md:224` asks for identifiers, too |
| `DeletionCompletes` | `FairSpec`, 2 jobs, `MaxAttempts = 1`, `Api = {"delete"}`, `Faults = {"delete"}` | one exception in `delete_document` leaves the document `deleting` for ever: `process_event` retries ingestion only (`celery_app.py:83`), and the pending job of the deletion is never stale. `docs/requirements/REQ-005.md:44` demands recovery from transient faults |
| `OneRunPerVersion` | `Faults = {"load", "duplicate"}`, `MaxFaults = 2` | the duplicate of a message fails in `load_context`; `schedule_retry` (`repository.py:254`) does not exclude running jobs and requeues the job another worker executes |
| `RecoveryRecordsSuccess` | 2 versions, 2 jobs, `Api = {"upload"}`, `Faults = {"crash"}` | a job crashed after activation; a newer version was activated before the scan (`repository.py:353`), so the old job runs again and puts the older version back. `docs/tasks/TASK-024.md:64` promises that success is recorded |
| `DeletionIsFinal` | 2 versions, 3 jobs, `Api = {"upload", "delete"}`, no faults | a new version is uploaded to a document that is being deleted (`management.py:229`) and takes it back to `pending` |
| `SupersededIndexRemoved` | `FairSpec`, 2 versions, 2 jobs, `Api = {"upload"}`, `Faults = {"cleanup"}` | a failing `cleanup_version` is never run again, although the design asks for it |
| `FailedIndexRemoved` | `FairSpec`, `MaxAttempts = 1`, `Faults = {"crash"}` | recovery gives a job up without removing what it inserted into the index |
| `DeletedIsErased` | `FairSpec`, `MaxAttempts = 1`, 2 jobs, `Api = {"delete"}`, `Faults = {"crash"}` | a worker dies after its insert while the document is deleted |
| `DeletionErases` | `FairSpec`, `MaxAttempts = 1`, 2 jobs, `Api = {"delete"}`, `Faults = {"step", "undo"}`, `MaxFaults = 3` | an undo fails and is compensated; in the retry the document is deleted, the handler's undo fails again, and the event `failed-version:{version}` exists already: `on_conflict_do_nothing` (`repository.py:243`) writes no other compensation, and the index keeps the rows of a deleted document. `DeletedIsErased` excepts this (`Abandoned`) |

In `WikiJobs` (start from `MCWikiJobs.cfg`; only `AttemptsBounded` needs a change,
`MaxFaults = 2`):

| Property | Behaviour |
|---|---|
| `JobsSettleAlways` | a message is lost, or a claim raises, and the job stays `pending`: `recover_stale` looks at running jobs only (`processor.py:183`). `docs/superpowers/specs/2026-09-22-wiki-synthesis-design.md:28` says jobs are recovered from the pending items in PostgreSQL |
| `ReadyHasJob` | a version is activated while the wiki is switched on; neither transaction sees the other (`jobs.py:26`), and the version never gets a job |
| `ReadyNotSuperseded` | a job is claimed while another version of its document is being ingested; it becomes `superseded`, and when that ingestion fails, nothing revives it (its key is taken) |
| `ReservedForRunning` | a job crashes, then the wiki is switched off or its document is busy: `_claim` returns before the release (`processor.py:278`), and the tokens stay reserved |
| `AttemptsBounded` | `max_attempts` is tested in `_fail` only (`processor.py:364`); a job whose worker is killed each time is started for ever |

In `WikiPages` (start from `MCWikiPages_pages.cfg`):

| Property | Behaviour |
|---|---|
| `EditsStand` (`Summaries = {s1}`, `Topical = {}`, `Cited = {}`, `MaxChanges = 2`, without `SYMMETRY`) | `_upsert_page` reads the page, a user's edit commits, and `_upsert_page` reads the highest `version_no` (`processor.py:522`). The number is free, the page read was the pipeline's own, and its version replaces the edit without a review, which `docs/requirements/REQ-006.md:22` excludes; `base_published_version_id` is stored and not compared |
| `EditsStandAlone` | without any overlap: a user edits the topic, which lays a candidate; a document changes and its claims lose their trust; the user publishes the candidate, and the rebuild in the same transaction makes other content of the claims that are left. The page that is current by now is the pipeline's, so that content replaces it at once, unreviewed, against the same rule (`docs/requirements/REQ-006.md:22`) |
| `CandidatesCanBeDecided` | an edit of a page that has a candidate leaves the candidate pending on a base that is no longer current (`service.py:430`): publishing and rejecting it both answer 409 until the next publication of that document, if there is one. `docs/superpowers/specs/2026-09-22-wiki-synthesis-design.md:51` says the difference is generated again |
| `TopicIsCurrent` | two transactions that change different summaries both rebuild the topic, each without the other's summary (`processor.py:560`), although `docs/superpowers/specs/2026-09-22-wiki-synthesis-design.md:28` says merges within one library are serialised; the topic stays wrong until something else rebuilds it |
| `TopicFollowsClaims` | without any overlap: a document changes, `invalidate_document_claims` (`jobs.py:62`) takes the claims the topic rests on, and the topic page keeps their sentences until another page is written; after a deletion nothing may ever do so. The design (`docs/superpowers/specs/2026-09-22-wiki-synthesis-design.md:30`) keeps old pages readable until the new result is there, and readers are protected by the test of the source that `Retrieval` models |
| `VerifiedIsActive` | `_publish` reads that its version is active (`processor.py:392`) without a lock; the version is replaced meanwhile, `invalidate_document_claims` does not see the claims yet, and they are committed as verified, although its docstring (`jobs.py:63`) says claims lose their trust before the text stops being active. A revert then copies that trust (`service.py:464`), and the topic is built from it. `VerifiedClaimsStand` proves that it takes an overlap |
| `CandidatesAreFresh` (`Summaries = {s1, s2, s3}`, `Generations = {g1, g2}`, `Topical = {g1}`, `Transactions = {t1}`, without `SYMMETRY`) | a topic goes from two documents to three, a user takes it back to the version made from two, which lays a candidate made from three, and the third document drops out: `_upsert_page` finds the current version up to date and returns (`processor.py:521`) before it supersedes the candidate, which a user can still publish, although `docs/superpowers/specs/2026-09-22-wiki-synthesis-design.md:52` says it is marked superseded so that nobody reviews outdated content. The same transaction then replaces what was published by a version nobody reviewed |
| `ReviewsStand` | `_upsert_page` selects a candidate, a review decides it, and the candidate is marked superseded (`processor.py:539`); if it was published, the page now shows a superseded version. `knowledge/infrastructure/database/models.py:605` says the state changes in one direction |

In `ChatTurn` (start from `MCChatTurn.cfg`), `TurnsAreAlwaysWhole`: a cancellation that
arrives during the roll-back is swallowed, together with the roll-back, by
`suppress(BaseException)` (`llm/agent.py:160`), and the half turn stays in the checkpoint;
the comment at `llm/agent.py:159` says that any exception rolls the turn back.

These were met while translating the code, and the models have them as they are:

* A marker after an unclosed `[` passes the citation filter whatever it names: the
  candidate `[ ... [99]` is no marker (`citations.py:55`), although the class promises to
  keep markers of real sources only (`citations.py:31`). `NoUnknownMarkerIsShown` is
  therefore stated for texts without nested brackets.
* A search that stops at the limit of pages reports `claim_limit` (`wiki/retrieval.py:311`),
  where the design (`docs/superpowers/specs/2026-10-06-wiki-provenance-hybrid-search-design.md:121`)
  has three limits of which the response is to tell; `page_limit` (line 359) is reported
  only when the limit was reached with the last page and the others had no claims.
* `register` stops at the first source there is no room for (`readonly.py:33`) and so
  leaves out later sources that already have a number.
* `_hydrate_pages` tests in one statement that the knowledge base is enabled and in
  another one that the document is active; `SourcesWereServed` asks for either at some
  moment of the call.
* A failed deletion task of a knowledge base can never be started again: the event
  `delete-kb:{id}` exists, so a new request returns at once (`management.py:518`), while
  `docs/superpowers/specs/2026-09-20-native-knowledge-rag-design.md:306` says every
  clean-up can be repeated. `ErasureCompletes` excepts it.
* A knowledge base being deleted can be switched on again by `update_knowledge_base`, and
  its deleted documents become `deleting` once more. A document uploaded after the
  task has read its versions goes with the cascade, but its file and index rows stay; and an
  undo that fails once the rows are gone is never made up for, since `cleanup_version`
  finds no row (`cleanup.py:71`). `ErasedLeavesNothing` excepts both.
* The startup check that fails is not closed (`startup.py:156`, as its comment says); at
  shutdown the database closes before Milvus, not in the reverse of the order they were
  opened in (`lifespan.py:37`, :131), and a `close` that raises leaves the rest open. A
  start that is cancelled while `asyncio.to_thread` opens the Milvus client
  (`lifespan.py:68`) leaves a client nobody closes; `EndReleasesEveryResource` in place of
  `EndReleasesAll` in `MCStartup.cfg` finds it. The docstring promises that resources are
  released.

A reindex request of a document with an active version always raises: `management.py:365`
passes an attribute (`delete_documentembedding_model`) that `DocumentVersion` does not
have.

## Not modelled

Docling, embeddings, Milvus, Redis and PostgreSQL themselves; HTTP routes (they
translate requests and errors), configuration (checks of single fields), prompts and
the generation of text. Storage is only the set of versions that have a file. Scores and
tokens of texts, excerpts and paging. `list_documents` registers no source, and
`resolve_scope` runs before the turn. The stream of progress (`management.py:441`) has no state
but a cursor over `updated_at`, and misses an update that commits after a later one has
been sent. Row locks are held to the end of a transaction where they matter; a deadlock
between transactions that lock in different orders (`mark_failed` and `activate`) is a
failing step. The web client: `ChatTurn` ends at the stream of events.

## Plan

Done: `Outbox`, `Ingestion`, `WikiJobs`, `WikiPages`, `ChatTurn`, `Retrieval`,
`KnowledgeBases`, `Startup`, each with a proof module, and the pure functions. Left, in
this order:

1. An abstract page with a linear history of released versions, which `WikiPages`
   implements as far as transactions do not overlap.
2. The parser of the event stream and the chat composable of the web client; the stream
   of progress; row locks and their orders.
