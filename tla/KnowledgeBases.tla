---------------------------- MODULE KnowledgeBases ----------------------------
(***************************************************************************)
(* The deletion of a knowledge base (management.py, worker/cleanup.py)     *)
(* against everything that may run at the same time: uploads into it, the  *)
(* ingestion of its documents, the deletion of single documents, other     *)
(* deletion requests, and crashes.                                         *)
(*                                                                         *)
(* One knowledge base; every upload creates a document of its own, with    *)
(* one version, so an upload names its document, version, file and index   *)
(* rows.  An action is one transaction, one statement where the order of   *)
(* two statements matters, or one call to the file store or the index.     *)
(* The deletion request holds the row of the knowledge base FOR UPDATE; an *)
(* insert into documents waits for that lock, because the foreign key      *)
(* takes FOR KEY SHARE on the same row, but a plain SELECT does not.       *)
(***************************************************************************)
EXTENDS Naturals

CONSTANTS
  Uploads,    \* upload requests, and the documents they create
  Requests,   \* clients that ask for its deletion, as often as they like
  MaxFaults   \* bound on crashes and errors

ASSUME MaxFaultsAssumption == MaxFaults \in Nat

VARIABLES
  kb,       \* the row of knowledge_bases: absent, present or gone
  status,   \* documents.status; "none" where there is no row (any more)
  deleted,  \* documents with deleted_at set
  files,    \* uploads whose stored file exists
  index,    \* uploads whose rows the vector index holds
  up,       \* up[u]: where the handler of upload u is
  run,      \* run[u]: where the ingestion run of u is
  purge,    \* purge[u]: where the deletion of document u on its own is
  req,      \* req[r]: where deletion request r is
  event,    \* the outbox has an event delete-kb:{id}
  task,     \* where the clean-up task of that event is
  todo,     \* what the task has still to remove
  asked,    \* history: a request with confirm=True has arrived
  doomed,   \* history: documents there when the deletion of the knowledge base was
            \* accepted, and those deleted on their own
  dirty,    \* history: uploads whose crashed or failed run may leave index rows
  faults    \* faults so far

requestVars == <<kb, req, event, asked>>
taskVars == <<task, todo>>
documentVars == <<status, deleted, doomed, purge>>
vars == <<requestVars, taskVars, documentVars, files, index, up, run, dirty, faults>>

Statuses == {"none", "pending", "processing", "ready", "deleting", "deleted"}
TaskSteps == {"none", "queued", "running", "done", "failed"}
IndexOf(s) == {"index"} \X s
FilesOf(s) == {"file"} \X s

TypeOK ==
  /\ kb \in {"absent", "present", "gone"}
  /\ status \in [Uploads -> Statuses]
  /\ deleted \subseteq Uploads
  /\ files \subseteq Uploads
  /\ index \subseteq Uploads
  /\ up \in [Uploads -> {"idle", "stored", "found", "rejected", "done", "crashed"}]
  /\ purge \in [Uploads -> {"none", "asked", "removed", "done"}]
  /\ run \in [Uploads -> {"none", "claimed", "inserting", "inserted", "undo", "done"}]
  /\ req \in [Requests -> {"idle", "asking", "confirming", "empty", "unconfirmed", "confirmed"}]
  /\ event \in BOOLEAN
  /\ task \in TaskSteps
  /\ todo \subseteq IndexOf(Uploads) \cup FilesOf(Uploads)
  /\ asked \in BOOLEAN
  /\ doomed \subseteq Uploads
  /\ dirty \subseteq Uploads
  /\ faults \in 0..MaxFaults

Init ==
  /\ kb = "absent" /\ event = FALSE /\ asked = FALSE
  /\ status = [u \in Uploads |-> "none"] /\ deleted = {} /\ doomed = {}
  /\ files = {} /\ index = {}
  /\ up = [u \in Uploads |-> "idle"]
  /\ run = [u \in Uploads |-> "none"]
  /\ purge = [u \in Uploads |-> "none"]
  /\ req = [r \in Requests |-> "idle"]
  /\ task = "none" /\ todo = {}
  /\ dirty = {} /\ faults = 0

Stored == {u \in Uploads : status[u] # "none"}
Live == Stored \ deleted
Fault == faults < MaxFaults /\ faults' = faults + 1

\* create_knowledge_base.
Create ==
  /\ kb = "absent"
  /\ kb' = "present"
  /\ UNCHANGED <<req, event, asked, taskVars, documentVars, files, index, up, run, dirty, faults>>
-------------------------------------------------------------------------------
(* Deletion requests: delete_knowledge_base.                               *)

Holding == {"empty", "unconfirmed", "confirmed"}

\* Mutant: the knowledge base is selected without FOR UPDATE.
NeverLocked == TRUE

Unlocked == \A r \in Requests : req[r] \notin Holding

Ask(r, confirm) ==
  /\ req[r] = "idle" /\ kb = "present"
  /\ req' = [req EXCEPT ![r] = IF confirm THEN "confirming" ELSE "asking"]
  /\ asked' = (asked \/ confirm)
  /\ UNCHANGED <<kb, event, taskVars, documentVars, files, index, up, run, dirty, faults>>

NotFound(r) ==
  /\ req[r] \in {"asking", "confirming"} /\ kb = "gone"
  /\ req' = [req EXCEPT ![r] = "idle"]
  /\ UNCHANGED <<kb, event, asked, taskVars, documentVars, files, index, up, run, dirty, faults>>

\* SELECT ... FOR UPDATE, then the count of documents without deleted_at.
LockAndCount(r) ==
  /\ req[r] \in {"asking", "confirming"} /\ kb = "present" /\ Unlocked
  /\ req' = [req EXCEPT ![r] = IF Live = {} THEN "empty"
                               ELSE IF @ = "asking" THEN "unconfirmed" ELSE "confirmed"]
  /\ UNCHANGED <<kb, event, asked, taskVars, documentVars, files, index, up, run, dirty, faults>>

\* DELETE FROM knowledge_bases: the documents go with it (ON DELETE CASCADE).
EraseRows == kb' = "gone" /\ status' = [u \in Uploads |-> "none"]

DeleteEmpty(r) ==
  /\ req[r] = "empty"
  /\ req' = [req EXCEPT ![r] = "idle"]
  /\ EraseRows
  /\ UNCHANGED <<event, asked, taskVars, deleted, doomed, purge, files, index, up, run, dirty, faults>>

\* requires_confirmation, or the deletion has been requested before.
Refuse(r) ==
  /\ req[r] = "unconfirmed" \/ (req[r] = "confirmed" /\ event)
  /\ req' = [req EXCEPT ![r] = "idle"]
  /\ UNCHANGED <<kb, event, asked, taskVars, documentVars, files, index, up, run, dirty, faults>>

\* All its documents, deleted ones too, become "deleting".
Accept(r) ==
  /\ req[r] = "confirmed" /\ ~event
  /\ req' = [req EXCEPT ![r] = "idle"]
  /\ status' = [u \in Uploads |-> IF u \in Stored THEN "deleting" ELSE "none"]
  /\ doomed' = doomed \cup Stored
  /\ event' = TRUE /\ task' = "queued"
  /\ UNCHANGED <<kb, asked, todo, deleted, purge, files, index, up, run, dirty, faults>>
-------------------------------------------------------------------------------
(* The clean-up task: KnowledgeCleanupService.delete_knowledge_base.       *)

\* The versions of all documents, read in a transaction of its own.
ReadVersions ==
  /\ task = "queued"
  /\ task' = "running" /\ todo' = IndexOf(Stored) \cup FilesOf(Stored)
  /\ UNCHANGED <<requestVars, documentVars, files, index, up, run, dirty, faults>>

DeleteIndex(u) ==
  /\ task = "running" /\ <<"index", u>> \in todo
  /\ todo' = todo \ {<<"index", u>>}
  /\ index' = index \ {u}
  /\ UNCHANGED <<requestVars, task, documentVars, files, up, run, dirty, faults>>

\* Files come after the whole index.
DeleteFile(u) ==
  /\ task = "running" /\ <<"file", u>> \in todo /\ todo \cap IndexOf(Uploads) = {}
  /\ todo' = todo \ {<<"file", u>>}
  /\ files' = files \ {u}
  /\ UNCHANGED <<requestVars, task, documentVars, index, up, run, dirty, faults>>

\* The DELETE waits for a request that holds the row.
Erase ==
  /\ task = "running" /\ todo = {} /\ Unlocked
  /\ task' = "done"
  /\ EraseRows
  /\ UNCHANGED <<req, event, asked, todo, deleted, doomed, purge, files, index, up, run, dirty, faults>>

\* Mutant: the message was acknowledged before the task ran.
TaskCrashesForGood ==
  /\ task = "running" /\ Fault
  /\ task' = "done" /\ todo' = {}
  /\ UNCHANGED <<requestVars, documentVars, files, index, up, run, dirty>>

\* The worker dies: the broker delivers the message again (task_acks_late).
TaskCrashes ==
  /\ task = "running" /\ Fault
  /\ task' = "queued" /\ todo' = {}
  /\ UNCHANGED <<requestVars, documentVars, files, index, up, run, dirty>>

\* The index, the file system or PostgreSQL raises: process_event lets the
\* exception pass, the task counts as failed, and its message is acknowledged.
TaskFails ==
  /\ task \in {"queued", "running"} /\ Fault
  /\ task' = "failed" /\ todo' = {}
  /\ UNCHANGED <<requestVars, documentVars, files, index, up, run, dirty>>
-------------------------------------------------------------------------------
(* Uploads: upload_document, for a file no other document has.             *)

WriteFile(u) ==
  /\ up[u] = "idle" /\ kb = "present"
  /\ up' = [up EXCEPT ![u] = "stored"]
  /\ files' = files \cup {u}
  /\ UNCHANGED <<requestVars, taskVars, documentVars, index, run, dirty, faults>>

\* A plain SELECT: it waits for nobody.
FindKnowledgeBase(u) ==
  /\ up[u] = "stored"
  /\ up' = [up EXCEPT ![u] = IF kb = "present" THEN "found" ELSE "rejected"]
  /\ UNCHANGED <<requestVars, taskVars, documentVars, files, index, run, dirty, faults>>

\* The inserts and the commit.  If the knowledge base has gone meanwhile, the
\* foreign key fails them.
Insert(u) ==
  /\ up[u] = "found" /\ Unlocked
  /\ IF kb = "present"
     THEN /\ up' = [up EXCEPT ![u] = "done"]
          /\ status' = [status EXCEPT ![u] = "pending"]
     ELSE /\ up' = [up EXCEPT ![u] = "rejected"]
          /\ UNCHANGED status
  /\ UNCHANGED <<requestVars, taskVars, deleted, doomed, purge, files, index, run, dirty, faults>>

\* except Exception: self._storage.delete(...)
DropFile(u) ==
  /\ up[u] = "rejected"
  /\ up' = [up EXCEPT ![u] = "done"]
  /\ files' = files \ {u}
  /\ UNCHANGED <<requestVars, taskVars, documentVars, index, run, dirty, faults>>

UploadCrashes(u) ==
  /\ up[u] \in {"stored", "found", "rejected"} /\ Fault
  /\ up' = [up EXCEPT ![u] = "crashed"]
  /\ UNCHANGED <<requestVars, taskVars, documentVars, files, index, run, dirty>>
-------------------------------------------------------------------------------
(* Ingestion, as far as it touches the index; module Ingestion has it all. *)

BeingDeleted(u) == status[u] \in {"deleting", "deleted"}

\* Mutant: only the row's existence is checked.
RowExists(u) == u \in Stored

\* load_context, update_stage and activate refuse a document that has gone or is
\* being deleted.
Allowed(u) == u \in Stored /\ ~BeingDeleted(u)

Claim(u) ==
  /\ run[u] = "none" /\ Allowed(u) /\ u \in files
  /\ run' = [run EXCEPT ![u] = "claimed"]
  /\ UNCHANGED <<requestVars, taskVars, documentVars, files, index, up, dirty, faults>>

\* update_stage(job_id, "indexing"), the last check before rows are inserted.
StageIndexing(u) ==
  /\ run[u] = "claimed"
  /\ IF Allowed(u)
     THEN /\ run' = [run EXCEPT ![u] = "inserting"]
          /\ status' = [status EXCEPT ![u] = "processing"]
     ELSE /\ run' = [run EXCEPT ![u] = "done"]
          /\ UNCHANGED status
  /\ UNCHANGED <<requestVars, taskVars, deleted, doomed, purge, files, index, up, dirty, faults>>

InsertIndex(u) ==
  /\ run[u] = "inserting"
  /\ run' = [run EXCEPT ![u] = "inserted"]
  /\ index' = index \cup {u}
  /\ UNCHANGED <<requestVars, taskVars, documentVars, files, up, dirty, faults>>

Activate(u) ==
  /\ run[u] = "inserted"
  /\ IF Allowed(u)
     THEN /\ run' = [run EXCEPT ![u] = "done"]
          /\ status' = [status EXCEPT ![u] = "ready"]
     ELSE /\ run' = [run EXCEPT ![u] = "undo"]
          /\ UNCHANGED status
  /\ UNCHANGED <<requestVars, taskVars, deleted, doomed, purge, files, index, up, dirty, faults>>

\* The handler of a failed run deletes the rows it has inserted.
UndoIndex(u) ==
  /\ run[u] = "undo"
  /\ run' = [run EXCEPT ![u] = "done"]
  /\ index' = index \ {u}
  /\ UNCHANGED <<requestVars, taskVars, documentVars, files, up, dirty, faults>>

\* It cannot; the clean-up it schedules finds no row once they are erased.
UndoFails(u) ==
  /\ run[u] = "undo" /\ Fault
  /\ run' = [run EXCEPT ![u] = "done"]
  /\ dirty' = dirty \cup {u}
  /\ UNCHANGED <<requestVars, taskVars, documentVars, files, index, up>>

\* Recovery makes the job claimable again.
RunCrashes(u) ==
  /\ run[u] \in {"claimed", "inserting", "inserted", "undo"} /\ Fault
  /\ run' = [run EXCEPT ![u] = "none"]
  /\ dirty' = IF run[u] \in {"inserted", "undo"} THEN dirty \cup {u} ELSE dirty
  /\ UNCHANGED <<requestVars, taskVars, documentVars, files, index, up>>
-------------------------------------------------------------------------------
(* Deletion of a single document: delete_document of management.py, and the *)
(* two halves of KnowledgeCleanupService.delete_document.                   *)

RequestDocumentDeletion(u) ==
  /\ u \in Live /\ purge[u] = "none"
  /\ purge' = [purge EXCEPT ![u] = "asked"]
  /\ status' = [status EXCEPT ![u] = "deleting"]
  /\ UNCHANGED <<requestVars, taskVars, deleted, doomed, files, index, up, run, dirty, faults>>

\* Without a row there are no versions to remove.
RemoveDocument(u) ==
  /\ purge[u] = "asked"
  /\ purge' = [purge EXCEPT ![u] = "removed"]
  /\ index' = index \ ({u} \cap Stored)
  /\ files' = files \ ({u} \cap Stored)
  /\ UNCHANGED <<requestVars, taskVars, status, deleted, doomed, up, run, dirty, faults>>

FinishDocument(u) ==
  /\ purge[u] = "removed"
  /\ purge' = [purge EXCEPT ![u] = "done"]
  /\ IF u \in Stored
     THEN /\ status' = [status EXCEPT ![u] = "deleted"]
          /\ deleted' = deleted \cup {u} /\ doomed' = doomed \cup {u}
     ELSE UNCHANGED <<status, deleted, doomed>>
  /\ UNCHANGED <<requestVars, taskVars, files, index, up, run, dirty, faults>>
-------------------------------------------------------------------------------
Request(r) ==
  \/ \E confirm \in BOOLEAN : Ask(r, confirm)
  \/ NotFound(r) \/ LockAndCount(r) \/ DeleteEmpty(r) \/ Refuse(r) \/ Accept(r)

Cleanup == ReadVersions \/ (\E u \in Uploads : DeleteIndex(u) \/ DeleteFile(u)) \/ Erase

Upload(u) == WriteFile(u) \/ FindKnowledgeBase(u) \/ Insert(u) \/ DropFile(u)

Ingest(u) == Claim(u) \/ StageIndexing(u) \/ InsertIndex(u) \/ Activate(u) \/ UndoIndex(u)

DeleteDocument(u) == RequestDocumentDeletion(u) \/ RemoveDocument(u) \/ FinishDocument(u)

Crashes ==
  \/ TaskCrashes \/ TaskFails
  \/ \E u \in Uploads : UploadCrashes(u) \/ UndoFails(u) \/ RunCrashes(u)

Next ==
  \/ Create
  \/ \E r \in Requests : Request(r)
  \/ Cleanup
  \/ \E u \in Uploads : Upload(u) \/ Ingest(u) \/ DeleteDocument(u)
  \/ Crashes

Spec == Init /\ [][Next]_vars

\* Celery runs the messages it has, a handler that holds a lock goes on, and
\* PostgreSQL queues those who wait for a row.
Fairness ==
  /\ WF_vars(Cleanup) /\ SF_vars(Erase)
  /\ \A r \in Requests : WF_vars(DeleteEmpty(r) \/ Refuse(r) \/ Accept(r))

FairSpec == Spec /\ Fairness
-------------------------------------------------------------------------------
\* A knowledge base with documents that are not deleted goes only after somebody
\* confirmed that, whatever is uploaded while a request decides that it is empty
\* (delete_knowledge_base; the lock of management.py:493).
NotErasedUnasked == [][kb' = "gone" /\ kb # "gone" /\ Live # {} => asked]_vars

\* An accepted deletion erases the knowledge base, whatever crashes on the way,
\* unless the task fails with an error, which nobody repeats.
ErasureCompletes == event ~> kb = "gone" \/ task = "failed"

\* When the knowledge base has gone, the documents that a deletion was accepted
\* for have no file, and no index rows except those of a run that is still to
\* undo them, or that crashed or failed to: neither an ingestion that runs across
\* the deletion nor a crash of the clean-up leaves any.
ErasedLeavesNothing ==
  kb = "gone" =>
    \A u \in doomed :
      /\ u \notin files
      /\ u \in index => run[u] \in {"inserted", "undo"} \/ u \in dirty
=============================================================================
