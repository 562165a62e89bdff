------------------------- MODULE KnowledgeBasesProofs -------------------------
(* Deletion of a knowledge base, for all uploads, requests and faults.       *)
EXTENDS KnowledgeBases, TLAPS

ConfirmingImpliesAsked == \A r \in Requests : req[r] \in {"confirming", "confirmed"} => asked
EventImpliesAsked == event => asked
TaskImpliesEvent == task # "none" => event
EmptyIsEmpty == \A r \in Requests : req[r] = "empty" => Live = {}

\* Why nobody is asked in vain: what has been confirmed, and what is empty.
Asked == ConfirmingImpliesAsked /\ EventImpliesAsked /\ TaskImpliesEvent /\ EmptyIsEmpty

\* The upload of u is over, and ingestion refuses the document.
Sealed(u) == up[u] = "done" /\ ~Allowed(u)

\* No index rows but those of a run that will undo them, or could not.
Clean(u) == u \in index => run[u] \in {"inserted", "undo"} \/ u \in dirty
Spent(u) == u \notin files /\ Clean(u)

RowsOfUploads == \A u \in Stored : up[u] = "done"
RowsOfPresent == kb # "present" => Stored = {}
DoomedStored == kb # "gone" => doomed \subseteq Stored
DeletedDoomed == deleted \subseteq doomed
DoomedSealed == \A u \in Uploads : u \in doomed \/ purge[u] # "none" => Sealed(u)

RemovedSpent == \A u \in Stored : purge[u] = "removed" => Spent(u)
DeletedSpent == \A u \in deleted : Spent(u)
GoneSpent == kb = "gone" => \A u \in doomed : Spent(u)

\* What the clean-up has not yet removed is on its list.
Listed ==
  task = "running" => \A u \in doomed : /\ <<"index", u>> \in todo \/ Clean(u)
                                        /\ <<"file", u>> \in todo \/ u \notin files

Rows == RowsOfUploads /\ RowsOfPresent /\ DoomedStored /\ DeletedDoomed /\ DoomedSealed
Remains == RemovedSpent /\ DeletedSpent /\ GoneSpent /\ Listed

IInv == TypeOK /\ Asked /\ Rows /\ Remains
-------------------------------------------------------------------------------
(* Types.                                                                  *)

LEMMA TypingStep ==
  ASSUME TypeOK, [Next]_vars
  PROVE  TypeOK'
<1>. USE DEF TypeOK, Statuses, TaskSteps, IndexOf, FilesOf, vars, requestVars, taskVars,
   documentVars
<1>1. CASE Create
  BY <1>1 DEF Create
<1>2. ASSUME NEW r \in Requests, NEW c \in BOOLEAN, Ask(r, c) PROVE TypeOK'
  BY <1>2 DEF Ask
<1>3. ASSUME NEW r \in Requests, NotFound(r) PROVE TypeOK'
  BY <1>3 DEF NotFound
<1>4. ASSUME NEW r \in Requests, LockAndCount(r) PROVE TypeOK'
  BY <1>4 DEF LockAndCount, Stored, Live
<1>5. ASSUME NEW r \in Requests, DeleteEmpty(r) PROVE TypeOK'
  BY <1>5 DEF DeleteEmpty, EraseRows
<1>6. ASSUME NEW r \in Requests, Refuse(r) PROVE TypeOK'
  BY <1>6 DEF Refuse
<1>7. ASSUME NEW r \in Requests, Accept(r) PROVE TypeOK'
  BY <1>7 DEF Accept, Stored
<1>8. CASE ReadVersions
  BY <1>8 DEF ReadVersions, Stored
<1>9. ASSUME NEW x \in Uploads, DeleteIndex(x) PROVE TypeOK'
  BY <1>9 DEF DeleteIndex
<1>10. ASSUME NEW x \in Uploads, DeleteFile(x) PROVE TypeOK'
  BY <1>10 DEF DeleteFile
<1>11. CASE Erase
  BY <1>11 DEF Erase, EraseRows
<1>12. CASE TaskCrashes
  BY <1>12, MaxFaultsAssumption DEF TaskCrashes, Fault
<1>13. CASE TaskFails
  BY <1>13, MaxFaultsAssumption DEF TaskFails, Fault
<1>14. ASSUME NEW x \in Uploads, WriteFile(x) PROVE TypeOK'
  BY <1>14 DEF WriteFile
<1>15. ASSUME NEW x \in Uploads, FindKnowledgeBase(x) PROVE TypeOK'
  BY <1>15 DEF FindKnowledgeBase
<1>16. ASSUME NEW x \in Uploads, Insert(x) PROVE TypeOK'
  BY <1>16 DEF Insert
<1>17. ASSUME NEW x \in Uploads, DropFile(x) PROVE TypeOK'
  BY <1>17 DEF DropFile
<1>18. ASSUME NEW x \in Uploads, UploadCrashes(x) PROVE TypeOK'
  BY <1>18, MaxFaultsAssumption DEF UploadCrashes, Fault
<1>19. ASSUME NEW x \in Uploads, Claim(x) PROVE TypeOK'
  BY <1>19 DEF Claim
<1>20. ASSUME NEW x \in Uploads, StageIndexing(x) PROVE TypeOK'
  BY <1>20 DEF StageIndexing, Allowed, Stored, BeingDeleted
<1>21. ASSUME NEW x \in Uploads, InsertIndex(x) PROVE TypeOK'
  BY <1>21 DEF InsertIndex
<1>22. ASSUME NEW x \in Uploads, Activate(x) PROVE TypeOK'
  BY <1>22 DEF Activate, Allowed, Stored, BeingDeleted
<1>23. ASSUME NEW x \in Uploads, UndoIndex(x) PROVE TypeOK'
  BY <1>23 DEF UndoIndex
<1>24. ASSUME NEW x \in Uploads, UndoFails(x) PROVE TypeOK'
  BY <1>24, MaxFaultsAssumption DEF UndoFails, Fault
<1>25. ASSUME NEW x \in Uploads, RunCrashes(x) PROVE TypeOK'
  BY <1>25, MaxFaultsAssumption DEF RunCrashes, Fault
<1>26. ASSUME NEW x \in Uploads, RequestDocumentDeletion(x) PROVE TypeOK'
  BY <1>26 DEF RequestDocumentDeletion, Live, Stored
<1>27. ASSUME NEW x \in Uploads, RemoveDocument(x) PROVE TypeOK'
  BY <1>27 DEF RemoveDocument, Stored
<1>28. ASSUME NEW x \in Uploads, FinishDocument(x) PROVE TypeOK'
  BY <1>28 DEF FinishDocument, Stored
<1>29. CASE UNCHANGED vars
  BY <1>29
<1>. HIDE DEF TypeOK, Statuses, TaskSteps, IndexOf, FilesOf, vars, requestVars, taskVars,
   documentVars
<1>. QED
  BY <1>1, <1>2, <1>3, <1>4, <1>5, <1>6, <1>7, <1>8, <1>9, <1>10, <1>11, <1>12, <1>13, <1>14,
     <1>15, <1>16, <1>17, <1>18, <1>19, <1>20, <1>21, <1>22, <1>23, <1>24, <1>25, <1>26,
     <1>27, <1>28, <1>29 DEF Next, Request, Cleanup, Upload, Ingest, DeleteDocument, Crashes

LEMMA Typing0 == Init => TypeOK
<1>. SUFFICES ASSUME Init PROVE TypeOK
  OBVIOUS
<1>1. faults \in 0..MaxFaults
  BY MaxFaultsAssumption DEF Init
<1>2. todo \subseteq IndexOf(Uploads) \cup FilesOf(Uploads)
  BY DEF Init
<1>3. /\ status \in [Uploads -> Statuses]
      /\ up \in [Uploads -> {"idle", "stored", "found", "rejected", "done", "crashed"}]
      /\ purge \in [Uploads -> {"none", "asked", "removed", "done"}]
      /\ run \in [Uploads -> {"none", "claimed", "inserting", "inserted", "undo", "done"}]
      /\ req \in [Requests -> {"idle", "asking", "confirming", "empty", "unconfirmed", "confirmed"}]
  BY DEF Init, Statuses
<1>. QED
  BY <1>1, <1>2, <1>3 DEF Init, TypeOK, TaskSteps

\* Every variable keeps its type.
THEOREM Typing == Spec => []TypeOK
  BY Typing0, TypingStep, PTL DEF Spec
-------------------------------------------------------------------------------
(* Nothing is deleted unasked.                                             *)

LEMMA AskedStep ==
  ASSUME TypeOK, Asked, [Next]_vars
  PROVE  Asked'
<1>. USE DEF Asked, ConfirmingImpliesAsked, EventImpliesAsked, TaskImpliesEvent, EmptyIsEmpty,
   Live, Stored, Unlocked, Holding, TypeOK, vars, requestVars, taskVars, documentVars
<1>1. CASE Create
  BY <1>1 DEF Create
<1>2. ASSUME NEW r \in Requests, NEW c \in BOOLEAN, Ask(r, c) PROVE Asked'
  BY <1>2 DEF Ask
<1>3. ASSUME NEW r \in Requests, NotFound(r) PROVE Asked'
  BY <1>3 DEF NotFound
<1>4. ASSUME NEW r \in Requests, LockAndCount(r) PROVE Asked'
  BY <1>4 DEF LockAndCount
<1>5. ASSUME NEW r \in Requests, DeleteEmpty(r) PROVE Asked'
  BY <1>5 DEF DeleteEmpty, EraseRows
<1>6. ASSUME NEW r \in Requests, Refuse(r) PROVE Asked'
  BY <1>6 DEF Refuse
<1>7. ASSUME NEW r \in Requests, Accept(r) PROVE Asked'
  BY <1>7 DEF Accept
<1>8. CASE ReadVersions
  BY <1>8 DEF ReadVersions, IndexOf, FilesOf
<1>9. ASSUME NEW x \in Uploads, DeleteIndex(x) PROVE Asked'
  BY <1>9 DEF DeleteIndex
<1>10. ASSUME NEW x \in Uploads, DeleteFile(x) PROVE Asked'
  BY <1>10 DEF DeleteFile
<1>11. CASE Erase
  BY <1>11 DEF Erase, EraseRows
<1>12. CASE TaskCrashes
  BY <1>12 DEF TaskCrashes, Fault
<1>13. CASE TaskFails
  BY <1>13 DEF TaskFails, Fault
<1>14. ASSUME NEW x \in Uploads, WriteFile(x) PROVE Asked'
  BY <1>14 DEF WriteFile
<1>15. ASSUME NEW x \in Uploads, FindKnowledgeBase(x) PROVE Asked'
  BY <1>15 DEF FindKnowledgeBase
<1>16. ASSUME NEW x \in Uploads, Insert(x) PROVE Asked'
  BY <1>16 DEF Insert
<1>17. ASSUME NEW x \in Uploads, DropFile(x) PROVE Asked'
  BY <1>17 DEF DropFile
<1>18. ASSUME NEW x \in Uploads, UploadCrashes(x) PROVE Asked'
  BY <1>18 DEF UploadCrashes, Fault
<1>19. ASSUME NEW x \in Uploads, Claim(x) PROVE Asked'
  BY <1>19 DEF Claim
<1>20. ASSUME NEW x \in Uploads, StageIndexing(x) PROVE Asked'
  BY <1>20 DEF StageIndexing, Allowed, BeingDeleted
<1>21. ASSUME NEW x \in Uploads, InsertIndex(x) PROVE Asked'
  BY <1>21 DEF InsertIndex
<1>22. ASSUME NEW x \in Uploads, Activate(x) PROVE Asked'
  BY <1>22 DEF Activate, Allowed, BeingDeleted
<1>23. ASSUME NEW x \in Uploads, UndoIndex(x) PROVE Asked'
  BY <1>23 DEF UndoIndex
<1>24. ASSUME NEW x \in Uploads, UndoFails(x) PROVE Asked'
  BY <1>24 DEF UndoFails, Fault
<1>25. ASSUME NEW x \in Uploads, RunCrashes(x) PROVE Asked'
  BY <1>25 DEF RunCrashes, Fault
<1>26. ASSUME NEW x \in Uploads, RequestDocumentDeletion(x) PROVE Asked'
  BY <1>26 DEF RequestDocumentDeletion
<1>27. ASSUME NEW x \in Uploads, RemoveDocument(x) PROVE Asked'
  BY <1>27 DEF RemoveDocument
<1>28. ASSUME NEW x \in Uploads, FinishDocument(x) PROVE Asked'
  BY <1>28 DEF FinishDocument
<1>29. CASE UNCHANGED vars
  BY <1>29
<1>. HIDE DEF Asked, ConfirmingImpliesAsked, EventImpliesAsked, TaskImpliesEvent, EmptyIsEmpty,
   Live, Stored, Unlocked, Holding, TypeOK, vars, requestVars, taskVars, documentVars
<1>. QED
  BY <1>1, <1>2, <1>3, <1>4, <1>5, <1>6, <1>7, <1>8, <1>9, <1>10, <1>11, <1>12, <1>13, <1>14,
     <1>15, <1>16, <1>17, <1>18, <1>19, <1>20, <1>21, <1>22, <1>23, <1>24, <1>25, <1>26,
     <1>27, <1>28, <1>29 DEF Next, Request, Cleanup, Upload, Ingest, DeleteDocument, Crashes

-------------------------------------------------------------------------------
(* Once a document is sealed it stays so, and its file and its index rows, once *)
(* removed, never come back.                                               *)

LEMMA SealedStep ==
  ASSUME TypeOK, [Next]_vars, NEW u \in Uploads, Sealed(u)
  PROVE  /\ Sealed(u)'
         /\ u \notin files => u \notin files'
         /\ Clean(u) => Clean(u)'
<1>. DEFINE Kept == /\ Sealed(u)'
                    /\ u \notin files => u \notin files'
                    /\ Clean(u) => Clean(u)'
<1>. SUFFICES Kept
  OBVIOUS
<1>. USE DEF Sealed, Clean, Allowed, BeingDeleted, Stored, TypeOK, vars, requestVars, taskVars,
   documentVars
<1>1. CASE Create
  BY <1>1 DEF Create
<1>2. ASSUME NEW r \in Requests, NEW c \in BOOLEAN, Ask(r, c) PROVE Kept
  BY <1>2 DEF Ask
<1>3. ASSUME NEW r \in Requests, NotFound(r) PROVE Kept
  BY <1>3 DEF NotFound
<1>4. ASSUME NEW r \in Requests, LockAndCount(r) PROVE Kept
  BY <1>4 DEF LockAndCount, Live
<1>5. ASSUME NEW r \in Requests, DeleteEmpty(r) PROVE Kept
  BY <1>5 DEF DeleteEmpty, EraseRows
<1>6. ASSUME NEW r \in Requests, Refuse(r) PROVE Kept
  BY <1>6 DEF Refuse
<1>7. ASSUME NEW r \in Requests, Accept(r) PROVE Kept
  BY <1>7 DEF Accept
<1>8. CASE ReadVersions
  BY <1>8 DEF ReadVersions, IndexOf, FilesOf
<1>9. ASSUME NEW x \in Uploads, DeleteIndex(x) PROVE Kept
  BY <1>9 DEF DeleteIndex
<1>10. ASSUME NEW x \in Uploads, DeleteFile(x) PROVE Kept
  BY <1>10 DEF DeleteFile
<1>11. CASE Erase
  BY <1>11 DEF Erase, EraseRows
<1>12. CASE TaskCrashes
  BY <1>12 DEF TaskCrashes, Fault
<1>13. CASE TaskFails
  BY <1>13 DEF TaskFails, Fault
<1>14. ASSUME NEW x \in Uploads, WriteFile(x) PROVE Kept
  BY <1>14 DEF WriteFile
<1>15. ASSUME NEW x \in Uploads, FindKnowledgeBase(x) PROVE Kept
  BY <1>15 DEF FindKnowledgeBase
<1>16. ASSUME NEW x \in Uploads, Insert(x) PROVE Kept
  BY <1>16 DEF Insert
<1>17. ASSUME NEW x \in Uploads, DropFile(x) PROVE Kept
  BY <1>17 DEF DropFile
<1>18. ASSUME NEW x \in Uploads, UploadCrashes(x) PROVE Kept
  BY <1>18 DEF UploadCrashes, Fault
<1>19. ASSUME NEW x \in Uploads, Claim(x) PROVE Kept
  BY <1>19 DEF Claim
<1>20. ASSUME NEW x \in Uploads, StageIndexing(x) PROVE Kept
  BY <1>20 DEF StageIndexing
<1>21. ASSUME NEW x \in Uploads, InsertIndex(x) PROVE Kept
  BY <1>21 DEF InsertIndex
<1>22. ASSUME NEW x \in Uploads, Activate(x) PROVE Kept
  BY <1>22 DEF Activate
<1>23. ASSUME NEW x \in Uploads, UndoIndex(x) PROVE Kept
  BY <1>23 DEF UndoIndex
<1>24. ASSUME NEW x \in Uploads, UndoFails(x) PROVE Kept
  BY <1>24 DEF UndoFails, Fault
<1>25. ASSUME NEW x \in Uploads, RunCrashes(x) PROVE Kept
  BY <1>25 DEF RunCrashes, Fault
<1>26. ASSUME NEW x \in Uploads, RequestDocumentDeletion(x) PROVE Kept
  BY <1>26 DEF RequestDocumentDeletion, Live
<1>27. ASSUME NEW x \in Uploads, RemoveDocument(x) PROVE Kept
  BY <1>27 DEF RemoveDocument
<1>28. ASSUME NEW x \in Uploads, FinishDocument(x) PROVE Kept
  BY <1>28 DEF FinishDocument
<1>29. CASE UNCHANGED vars
  BY <1>29
<1>. HIDE DEF Sealed, Clean, Allowed, BeingDeleted, Stored, TypeOK, vars, requestVars,
   taskVars, documentVars
<1>. QED
  BY <1>1, <1>2, <1>3, <1>4, <1>5, <1>6, <1>7, <1>8, <1>9, <1>10, <1>11, <1>12, <1>13, <1>14,
     <1>15, <1>16, <1>17, <1>18, <1>19, <1>20, <1>21, <1>22, <1>23, <1>24, <1>25, <1>26,
     <1>27, <1>28, <1>29 DEF Next, Request, Cleanup, Upload, Ingest, DeleteDocument, Crashes

-------------------------------------------------------------------------------
(* Which rows there are, and which documents are sealed.                   *)

LEMMA RowsStep ==
  ASSUME TypeOK, Rows, [Next]_vars
  PROVE  Rows'
<1>. USE DEF Rows, RowsOfUploads, RowsOfPresent, DoomedStored, DeletedDoomed, DoomedSealed,
   Sealed, Allowed, BeingDeleted, Stored, Live, TypeOK, vars, requestVars, taskVars,
   documentVars
<1>1. CASE Create
  BY <1>1 DEF Create
<1>2. ASSUME NEW r \in Requests, NEW c \in BOOLEAN, Ask(r, c) PROVE Rows'
  BY <1>2 DEF Ask
<1>3. ASSUME NEW r \in Requests, NotFound(r) PROVE Rows'
  BY <1>3 DEF NotFound
<1>4. ASSUME NEW r \in Requests, LockAndCount(r) PROVE Rows'
  BY <1>4 DEF LockAndCount
<1>5. ASSUME NEW r \in Requests, DeleteEmpty(r) PROVE Rows'
  BY <1>5 DEF DeleteEmpty, EraseRows
<1>6. ASSUME NEW r \in Requests, Refuse(r) PROVE Rows'
  BY <1>6 DEF Refuse
<1>7. ASSUME NEW r \in Requests, Accept(r) PROVE Rows'
  BY <1>7 DEF Accept
<1>8. CASE ReadVersions
  BY <1>8 DEF ReadVersions, IndexOf, FilesOf
<1>9. ASSUME NEW x \in Uploads, DeleteIndex(x) PROVE Rows'
  BY <1>9 DEF DeleteIndex
<1>10. ASSUME NEW x \in Uploads, DeleteFile(x) PROVE Rows'
  BY <1>10 DEF DeleteFile
<1>11. CASE Erase
  BY <1>11 DEF Erase, EraseRows
<1>12. CASE TaskCrashes
  BY <1>12 DEF TaskCrashes, Fault
<1>13. CASE TaskFails
  BY <1>13 DEF TaskFails, Fault
<1>14. ASSUME NEW x \in Uploads, WriteFile(x) PROVE Rows'
  BY <1>14 DEF WriteFile
<1>15. ASSUME NEW x \in Uploads, FindKnowledgeBase(x) PROVE Rows'
  BY <1>15 DEF FindKnowledgeBase
<1>16. ASSUME NEW x \in Uploads, Insert(x) PROVE Rows'
  BY <1>16 DEF Insert
<1>17. ASSUME NEW x \in Uploads, DropFile(x) PROVE Rows'
  BY <1>17 DEF DropFile
<1>18. ASSUME NEW x \in Uploads, UploadCrashes(x) PROVE Rows'
  BY <1>18 DEF UploadCrashes, Fault
<1>19. ASSUME NEW x \in Uploads, Claim(x) PROVE Rows'
  BY <1>19 DEF Claim
<1>20. ASSUME NEW x \in Uploads, StageIndexing(x) PROVE Rows'
  BY <1>20 DEF StageIndexing
<1>21. ASSUME NEW x \in Uploads, InsertIndex(x) PROVE Rows'
  BY <1>21 DEF InsertIndex
<1>22. ASSUME NEW x \in Uploads, Activate(x) PROVE Rows'
  BY <1>22 DEF Activate
<1>23. ASSUME NEW x \in Uploads, UndoIndex(x) PROVE Rows'
  BY <1>23 DEF UndoIndex
<1>24. ASSUME NEW x \in Uploads, UndoFails(x) PROVE Rows'
  BY <1>24 DEF UndoFails, Fault
<1>25. ASSUME NEW x \in Uploads, RunCrashes(x) PROVE Rows'
  BY <1>25 DEF RunCrashes, Fault
<1>26. ASSUME NEW x \in Uploads, RequestDocumentDeletion(x) PROVE Rows'
  BY <1>26 DEF RequestDocumentDeletion
<1>27. ASSUME NEW x \in Uploads, RemoveDocument(x) PROVE Rows'
  BY <1>27 DEF RemoveDocument
<1>28. ASSUME NEW x \in Uploads, FinishDocument(x) PROVE Rows'
  BY <1>28 DEF FinishDocument
<1>29. CASE UNCHANGED vars
  BY <1>29
<1>. HIDE DEF Rows, RowsOfUploads, RowsOfPresent, DoomedStored, DeletedDoomed, DoomedSealed,
   Sealed, Allowed, BeingDeleted, Stored, Live, TypeOK, vars, requestVars, taskVars,
   documentVars
<1>. QED
  BY <1>1, <1>2, <1>3, <1>4, <1>5, <1>6, <1>7, <1>8, <1>9, <1>10, <1>11, <1>12, <1>13, <1>14,
     <1>15, <1>16, <1>17, <1>18, <1>19, <1>20, <1>21, <1>22, <1>23, <1>24, <1>25, <1>26,
     <1>27, <1>28, <1>29 DEF Next, Request, Cleanup, Upload, Ingest, DeleteDocument, Crashes

-------------------------------------------------------------------------------
(* What is left of sealed documents while they are removed.                *)

LEMMA RemainsStep ==
  ASSUME TypeOK, Asked, Rows, Remains, [Next]_vars
  PROVE  Remains'
<1>0. \A u \in Uploads : Sealed(u) => (Clean(u) => Clean(u)') /\ (u \notin files => u \notin files')
  BY SealedStep
<1>1. \A u \in Uploads : Sealed(u) /\ Spent(u) => Spent(u)'
  BY SealedStep DEF Spent
<1>2. RemovedSpent'
  <2>. USE DEF RemovedSpent, Remains, Rows, RowsOfUploads, DoomedSealed, Stored, TypeOK,
     vars, requestVars, taskVars, documentVars
  <2>1. CASE Create
    BY <2>1, <1>1 DEF Create
  <2>2. ASSUME NEW r \in Requests, NEW c \in BOOLEAN, Ask(r, c) PROVE RemovedSpent'
    BY <2>2, <1>1 DEF Ask
  <2>3. ASSUME NEW r \in Requests, NotFound(r) PROVE RemovedSpent'
    BY <2>3, <1>1 DEF NotFound
  <2>4. ASSUME NEW r \in Requests, LockAndCount(r) PROVE RemovedSpent'
    BY <2>4, <1>1 DEF LockAndCount, Live
  <2>5. ASSUME NEW r \in Requests, DeleteEmpty(r) PROVE RemovedSpent'
    BY <2>5, <1>1 DEF DeleteEmpty, EraseRows
  <2>6. ASSUME NEW r \in Requests, Refuse(r) PROVE RemovedSpent'
    BY <2>6, <1>1 DEF Refuse
  <2>7. ASSUME NEW r \in Requests, Accept(r) PROVE RemovedSpent'
    BY <2>7, <1>1 DEF Accept
  <2>8. CASE ReadVersions
    BY <2>8, <1>1 DEF ReadVersions, IndexOf, FilesOf
  <2>9. ASSUME NEW x \in Uploads, DeleteIndex(x) PROVE RemovedSpent'
    BY <2>9, <1>1 DEF DeleteIndex
  <2>10. ASSUME NEW x \in Uploads, DeleteFile(x) PROVE RemovedSpent'
    BY <2>10, <1>1 DEF DeleteFile
  <2>11. CASE Erase
    BY <2>11, <1>1 DEF Erase, EraseRows
  <2>12. CASE TaskCrashes
    BY <2>12, <1>1 DEF TaskCrashes, Fault
  <2>13. CASE TaskFails
    BY <2>13, <1>1 DEF TaskFails, Fault
  <2>14. ASSUME NEW x \in Uploads, WriteFile(x) PROVE RemovedSpent'
    BY <2>14, <1>1 DEF WriteFile
  <2>15. ASSUME NEW x \in Uploads, FindKnowledgeBase(x) PROVE RemovedSpent'
    BY <2>15, <1>1 DEF FindKnowledgeBase
  <2>16. ASSUME NEW x \in Uploads, Insert(x) PROVE RemovedSpent'
    BY <2>16, <1>1 DEF Insert, Sealed, Allowed, BeingDeleted
  <2>17. ASSUME NEW x \in Uploads, DropFile(x) PROVE RemovedSpent'
    BY <2>17, <1>1 DEF DropFile
  <2>18. ASSUME NEW x \in Uploads, UploadCrashes(x) PROVE RemovedSpent'
    BY <2>18, <1>1 DEF UploadCrashes, Fault
  <2>19. ASSUME NEW x \in Uploads, Claim(x) PROVE RemovedSpent'
    BY <2>19, <1>1 DEF Claim
  <2>20. ASSUME NEW x \in Uploads, StageIndexing(x) PROVE RemovedSpent'
    BY <2>20, <1>1 DEF StageIndexing, Allowed, BeingDeleted
  <2>21. ASSUME NEW x \in Uploads, InsertIndex(x) PROVE RemovedSpent'
    BY <2>21, <1>1 DEF InsertIndex
  <2>22. ASSUME NEW x \in Uploads, Activate(x) PROVE RemovedSpent'
    BY <2>22, <1>1 DEF Activate, Allowed, BeingDeleted
  <2>23. ASSUME NEW x \in Uploads, UndoIndex(x) PROVE RemovedSpent'
    BY <2>23, <1>1 DEF UndoIndex
  <2>24. ASSUME NEW x \in Uploads, UndoFails(x) PROVE RemovedSpent'
    BY <2>24, <1>1 DEF UndoFails, Fault
  <2>25. ASSUME NEW x \in Uploads, RunCrashes(x) PROVE RemovedSpent'
    BY <2>25, <1>1 DEF RunCrashes, Fault
  <2>26. ASSUME NEW x \in Uploads, RequestDocumentDeletion(x) PROVE RemovedSpent'
    BY <2>26, <1>1 DEF RequestDocumentDeletion, Live
  <2>27. ASSUME NEW x \in Uploads, RemoveDocument(x) PROVE RemovedSpent'
    BY <2>27, <1>1 DEF RemoveDocument, Spent, Clean
  <2>28. ASSUME NEW x \in Uploads, FinishDocument(x) PROVE RemovedSpent'
    BY <2>28, <1>1 DEF FinishDocument
  <2>29. CASE UNCHANGED vars
    BY <2>29, <1>1
  <2>. HIDE DEF RemovedSpent, Remains, Rows, RowsOfUploads, DoomedSealed, Stored, TypeOK,
     vars, requestVars, taskVars, documentVars
  <2>. QED
    BY <2>1, <2>2, <2>3, <2>4, <2>5, <2>6, <2>7, <2>8, <2>9, <2>10, <2>11, <2>12, <2>13,
       <2>14, <2>15, <2>16, <2>17, <2>18, <2>19, <2>20, <2>21, <2>22, <2>23, <2>24, <2>25,
       <2>26, <2>27, <2>28, <2>29 DEF Next, Request, Cleanup, Upload, Ingest,
       DeleteDocument, Crashes
<1>3. DeletedSpent'
  <2>. USE DEF DeletedSpent, Remains, Rows, DeletedDoomed, DoomedSealed, DoomedStored,
     TypeOK, vars, requestVars, taskVars, documentVars
  <2>1. CASE Create
    BY <2>1, <1>1 DEF Create
  <2>2. ASSUME NEW r \in Requests, NEW c \in BOOLEAN, Ask(r, c) PROVE DeletedSpent'
    BY <2>2, <1>1 DEF Ask
  <2>3. ASSUME NEW r \in Requests, NotFound(r) PROVE DeletedSpent'
    BY <2>3, <1>1 DEF NotFound
  <2>4. ASSUME NEW r \in Requests, LockAndCount(r) PROVE DeletedSpent'
    BY <2>4, <1>1 DEF LockAndCount, Stored, Live
  <2>5. ASSUME NEW r \in Requests, DeleteEmpty(r) PROVE DeletedSpent'
    BY <2>5, <1>1 DEF DeleteEmpty, EraseRows
  <2>6. ASSUME NEW r \in Requests, Refuse(r) PROVE DeletedSpent'
    BY <2>6, <1>1 DEF Refuse
  <2>7. ASSUME NEW r \in Requests, Accept(r) PROVE DeletedSpent'
    BY <2>7, <1>1 DEF Accept, Stored
  <2>8. CASE ReadVersions
    BY <2>8, <1>1 DEF ReadVersions, Stored, IndexOf, FilesOf
  <2>9. ASSUME NEW x \in Uploads, DeleteIndex(x) PROVE DeletedSpent'
    BY <2>9, <1>1 DEF DeleteIndex
  <2>10. ASSUME NEW x \in Uploads, DeleteFile(x) PROVE DeletedSpent'
    BY <2>10, <1>1 DEF DeleteFile
  <2>11. CASE Erase
    BY <2>11, <1>1 DEF Erase, EraseRows
  <2>12. CASE TaskCrashes
    BY <2>12, <1>1 DEF TaskCrashes, Fault
  <2>13. CASE TaskFails
    BY <2>13, <1>1 DEF TaskFails, Fault
  <2>14. ASSUME NEW x \in Uploads, WriteFile(x) PROVE DeletedSpent'
    BY <2>14, <1>1 DEF WriteFile
  <2>15. ASSUME NEW x \in Uploads, FindKnowledgeBase(x) PROVE DeletedSpent'
    BY <2>15, <1>1 DEF FindKnowledgeBase
  <2>16. ASSUME NEW x \in Uploads, Insert(x) PROVE DeletedSpent'
    BY <2>16, <1>1 DEF Insert
  <2>17. ASSUME NEW x \in Uploads, DropFile(x) PROVE DeletedSpent'
    BY <2>17, <1>1 DEF DropFile
  <2>18. ASSUME NEW x \in Uploads, UploadCrashes(x) PROVE DeletedSpent'
    BY <2>18, <1>1 DEF UploadCrashes, Fault
  <2>19. ASSUME NEW x \in Uploads, Claim(x) PROVE DeletedSpent'
    BY <2>19, <1>1 DEF Claim
  <2>20. ASSUME NEW x \in Uploads, StageIndexing(x) PROVE DeletedSpent'
    BY <2>20, <1>1 DEF StageIndexing, Allowed, Stored, BeingDeleted
  <2>21. ASSUME NEW x \in Uploads, InsertIndex(x) PROVE DeletedSpent'
    BY <2>21, <1>1 DEF InsertIndex
  <2>22. ASSUME NEW x \in Uploads, Activate(x) PROVE DeletedSpent'
    BY <2>22, <1>1 DEF Activate, Allowed, Stored, BeingDeleted
  <2>23. ASSUME NEW x \in Uploads, UndoIndex(x) PROVE DeletedSpent'
    BY <2>23, <1>1 DEF UndoIndex
  <2>24. ASSUME NEW x \in Uploads, UndoFails(x) PROVE DeletedSpent'
    BY <2>24, <1>1 DEF UndoFails, Fault
  <2>25. ASSUME NEW x \in Uploads, RunCrashes(x) PROVE DeletedSpent'
    BY <2>25, <1>1 DEF RunCrashes, Fault
  <2>26. ASSUME NEW x \in Uploads, RequestDocumentDeletion(x) PROVE DeletedSpent'
    BY <2>26, <1>1 DEF RequestDocumentDeletion, Live, Stored
  <2>27. ASSUME NEW x \in Uploads, RemoveDocument(x) PROVE DeletedSpent'
    BY <2>27, <1>1 DEF RemoveDocument, Stored
  <2>28. ASSUME NEW x \in Uploads, FinishDocument(x) PROVE DeletedSpent'
    BY <2>28, <1>1 DEF FinishDocument, Stored, RemovedSpent
  <2>29. CASE UNCHANGED vars
    BY <2>29, <1>1
  <2>. HIDE DEF DeletedSpent, Remains, Rows, DeletedDoomed, DoomedSealed, DoomedStored,
     TypeOK, vars, requestVars, taskVars, documentVars
  <2>. QED
    BY <2>1, <2>2, <2>3, <2>4, <2>5, <2>6, <2>7, <2>8, <2>9, <2>10, <2>11, <2>12, <2>13,
       <2>14, <2>15, <2>16, <2>17, <2>18, <2>19, <2>20, <2>21, <2>22, <2>23, <2>24, <2>25,
       <2>26, <2>27, <2>28, <2>29 DEF Next, Request, Cleanup, Upload, Ingest,
       DeleteDocument, Crashes
<1>4. GoneSpent'
  <2>. USE DEF GoneSpent, Remains, Rows, DoomedSealed, DoomedStored, RowsOfPresent, Stored,
     TypeOK, vars, requestVars, taskVars, documentVars
  <2>1. CASE Create
    BY <2>1, <1>1 DEF Create
  <2>2. ASSUME NEW r \in Requests, NEW c \in BOOLEAN, Ask(r, c) PROVE GoneSpent'
    BY <2>2, <1>1 DEF Ask
  <2>3. ASSUME NEW r \in Requests, NotFound(r) PROVE GoneSpent'
    BY <2>3, <1>1 DEF NotFound
  <2>4. ASSUME NEW r \in Requests, LockAndCount(r) PROVE GoneSpent'
    BY <2>4, <1>1 DEF LockAndCount, Live
  <2>5. ASSUME NEW r \in Requests, DeleteEmpty(r) PROVE GoneSpent'
    BY <2>5, <1>1 DEF DeleteEmpty, EraseRows, Asked, EmptyIsEmpty, Live, DeletedSpent
  <2>6. ASSUME NEW r \in Requests, Refuse(r) PROVE GoneSpent'
    BY <2>6, <1>1 DEF Refuse
  <2>7. ASSUME NEW r \in Requests, Accept(r) PROVE GoneSpent'
    BY <2>7, <1>1 DEF Accept
  <2>8. CASE ReadVersions
    BY <2>8, <1>1 DEF ReadVersions, IndexOf, FilesOf
  <2>9. ASSUME NEW x \in Uploads, DeleteIndex(x) PROVE GoneSpent'
    BY <2>9, <1>1 DEF DeleteIndex
  <2>10. ASSUME NEW x \in Uploads, DeleteFile(x) PROVE GoneSpent'
    BY <2>10, <1>1 DEF DeleteFile
  <2>11. CASE Erase
    BY <2>11, <1>1 DEF Erase, EraseRows, Listed, Spent
  <2>12. CASE TaskCrashes
    BY <2>12, <1>1 DEF TaskCrashes, Fault
  <2>13. CASE TaskFails
    BY <2>13, <1>1 DEF TaskFails, Fault
  <2>14. ASSUME NEW x \in Uploads, WriteFile(x) PROVE GoneSpent'
    BY <2>14, <1>1 DEF WriteFile
  <2>15. ASSUME NEW x \in Uploads, FindKnowledgeBase(x) PROVE GoneSpent'
    BY <2>15, <1>1 DEF FindKnowledgeBase
  <2>16. ASSUME NEW x \in Uploads, Insert(x) PROVE GoneSpent'
    BY <2>16, <1>1 DEF Insert
  <2>17. ASSUME NEW x \in Uploads, DropFile(x) PROVE GoneSpent'
    BY <2>17, <1>1 DEF DropFile
  <2>18. ASSUME NEW x \in Uploads, UploadCrashes(x) PROVE GoneSpent'
    BY <2>18, <1>1 DEF UploadCrashes, Fault
  <2>19. ASSUME NEW x \in Uploads, Claim(x) PROVE GoneSpent'
    BY <2>19, <1>1 DEF Claim
  <2>20. ASSUME NEW x \in Uploads, StageIndexing(x) PROVE GoneSpent'
    BY <2>20, <1>1 DEF StageIndexing, Allowed, BeingDeleted
  <2>21. ASSUME NEW x \in Uploads, InsertIndex(x) PROVE GoneSpent'
    BY <2>21, <1>1 DEF InsertIndex
  <2>22. ASSUME NEW x \in Uploads, Activate(x) PROVE GoneSpent'
    BY <2>22, <1>1 DEF Activate, Allowed, BeingDeleted
  <2>23. ASSUME NEW x \in Uploads, UndoIndex(x) PROVE GoneSpent'
    BY <2>23, <1>1 DEF UndoIndex
  <2>24. ASSUME NEW x \in Uploads, UndoFails(x) PROVE GoneSpent'
    BY <2>24, <1>1 DEF UndoFails, Fault
  <2>25. ASSUME NEW x \in Uploads, RunCrashes(x) PROVE GoneSpent'
    BY <2>25, <1>1 DEF RunCrashes, Fault
  <2>26. ASSUME NEW x \in Uploads, RequestDocumentDeletion(x) PROVE GoneSpent'
    BY <2>26, <1>1 DEF RequestDocumentDeletion, Live
  <2>27. ASSUME NEW x \in Uploads, RemoveDocument(x) PROVE GoneSpent'
    BY <2>27, <1>1 DEF RemoveDocument
  <2>28. ASSUME NEW x \in Uploads, FinishDocument(x) PROVE GoneSpent'
    BY <2>28, <1>1 DEF FinishDocument, RemovedSpent
  <2>29. CASE UNCHANGED vars
    BY <2>29, <1>1
  <2>. HIDE DEF GoneSpent, Remains, Rows, DoomedSealed, DoomedStored, RowsOfPresent, Stored,
     TypeOK, vars, requestVars, taskVars, documentVars
  <2>. QED
    BY <2>1, <2>2, <2>3, <2>4, <2>5, <2>6, <2>7, <2>8, <2>9, <2>10, <2>11, <2>12, <2>13,
       <2>14, <2>15, <2>16, <2>17, <2>18, <2>19, <2>20, <2>21, <2>22, <2>23, <2>24, <2>25,
       <2>26, <2>27, <2>28, <2>29 DEF Next, Request, Cleanup, Upload, Ingest,
       DeleteDocument, Crashes
<1>5. Listed'
  <2>. SUFFICES ASSUME task' = "running", NEW u \in Uploads, u \in doomed'
                PROVE  /\ <<"index", u>> \in todo' \/ Clean(u)'
                       /\ <<"file", u>> \in todo' \/ u \notin files'
    <3>1. TypeOK'
      BY TypingStep
    <3>. QED
      BY <3>1, ZenonT(60) DEF Listed, TypeOK
  <2>1. CASE ReadVersions
    <3>1. u \in doomed /\ todo' = IndexOf(Stored) \cup FilesOf(Stored) /\ kb = kb'
      BY <2>1 DEF ReadVersions, documentVars, requestVars
    <3>2. CASE kb = "gone"
      BY <1>0, <3>1, <3>2 DEF Remains, GoneSpent, Spent, Rows, DoomedSealed
    <3>3. CASE kb # "gone"
      <4>1. u \in Stored
        BY <3>1, <3>3 DEF Rows, DoomedStored
      <4>. QED
        BY <3>1, <4>1 DEF IndexOf, FilesOf
    <3>. QED
      BY <3>2, <3>3
  <2>2. ASSUME NEW x \in Uploads, DeleteIndex(x) PROVE Listed'
    <3>1. /\ task = "running" /\ doomed' = doomed /\ files' = files /\ run' = run /\ dirty' = dirty
          /\ todo' = todo \ {<<"index", x>>} /\ index' = index \ {x}
      BY <2>2 DEF DeleteIndex, documentVars
    <3>. QED
      BY <3>1, ZenonT(60) DEF Remains, Listed, Clean
  <2>3. ASSUME NEW x \in Uploads, DeleteFile(x) PROVE Listed'
    <3>1. /\ task = "running" /\ doomed' = doomed /\ index' = index /\ run' = run /\ dirty' = dirty
          /\ todo' = todo \ {<<"file", x>>} /\ files' = files \ {x}
      BY <2>3 DEF DeleteFile, documentVars
    <3>. QED
      BY <3>1, ZenonT(60) DEF Remains, Listed, Clean
  <2>4. CASE FinishDocument(u) /\ u \in Stored
    <3>1. Spent(u) /\ Sealed(u)
      BY <2>4 DEF FinishDocument, Remains, RemovedSpent, Rows, DoomedSealed
    <3>. QED
      BY <1>0, <3>1 DEF Spent
  <2>5. CASE task = "running" /\ todo' = todo /\ u \in doomed
    <3>1. Sealed(u)
      BY <2>5 DEF Rows, DoomedSealed
    <3>2. /\ <<"index", u>> \in todo \/ Clean(u)
          /\ <<"file", u>> \in todo \/ u \notin files
      BY <2>5 DEF Remains, Listed
    <3>. QED
      BY <1>0, <2>5, <3>1, <3>2
  <2>6. \/ ReadVersions \/ (\E x \in Uploads : DeleteIndex(x) \/ DeleteFile(x))
        \/ FinishDocument(u) /\ u \in Stored
        \/ task = "running" /\ todo' = todo /\ u \in doomed
    <3>. DEFINE Goal == \/ ReadVersions \/ (\E x \in Uploads : DeleteIndex(x) \/ DeleteFile(x))
                        \/ FinishDocument(u) /\ u \in Stored
                        \/ task = "running" /\ todo' = todo /\ u \in doomed
    <3>. SUFFICES Goal
      OBVIOUS
    <3>. USE DEF vars, requestVars, taskVars, documentVars
    <3>1. CASE Create
      BY <3>1 DEF Create
    <3>2. ASSUME NEW r \in Requests, NEW c \in BOOLEAN, Ask(r, c) PROVE Goal
      BY <3>2 DEF Ask
    <3>3. ASSUME NEW r \in Requests, NotFound(r) PROVE Goal
      BY <3>3 DEF NotFound
    <3>4. ASSUME NEW r \in Requests, LockAndCount(r) PROVE Goal
      BY <3>4 DEF LockAndCount, Stored, Live
    <3>5. ASSUME NEW r \in Requests, DeleteEmpty(r) PROVE Goal
      BY <3>5 DEF DeleteEmpty, EraseRows
    <3>6. ASSUME NEW r \in Requests, Refuse(r) PROVE Goal
      BY <3>6 DEF Refuse
    <3>7. ASSUME NEW r \in Requests, Accept(r) PROVE Goal
      BY <3>7 DEF Accept, Stored, Asked, TaskImpliesEvent
    <3>8. CASE ReadVersions
      BY <3>8 DEF ReadVersions, Stored, IndexOf, FilesOf
    <3>9. ASSUME NEW x \in Uploads, DeleteIndex(x) PROVE Goal
      BY <3>9 DEF DeleteIndex
    <3>10. ASSUME NEW x \in Uploads, DeleteFile(x) PROVE Goal
      BY <3>10 DEF DeleteFile
    <3>11. CASE Erase
      BY <3>11 DEF Erase, EraseRows
    <3>12. CASE TaskCrashes
      BY <3>12 DEF TaskCrashes, Fault
    <3>13. CASE TaskFails
      BY <3>13 DEF TaskFails, Fault
    <3>14. ASSUME NEW x \in Uploads, WriteFile(x) PROVE Goal
      BY <3>14 DEF WriteFile
    <3>15. ASSUME NEW x \in Uploads, FindKnowledgeBase(x) PROVE Goal
      BY <3>15 DEF FindKnowledgeBase
    <3>16. ASSUME NEW x \in Uploads, Insert(x) PROVE Goal
      BY <3>16 DEF Insert
    <3>17. ASSUME NEW x \in Uploads, DropFile(x) PROVE Goal
      BY <3>17 DEF DropFile
    <3>18. ASSUME NEW x \in Uploads, UploadCrashes(x) PROVE Goal
      BY <3>18 DEF UploadCrashes, Fault
    <3>19. ASSUME NEW x \in Uploads, Claim(x) PROVE Goal
      BY <3>19 DEF Claim
    <3>20. ASSUME NEW x \in Uploads, StageIndexing(x) PROVE Goal
      BY <3>20 DEF StageIndexing, Allowed, Stored, BeingDeleted
    <3>21. ASSUME NEW x \in Uploads, InsertIndex(x) PROVE Goal
      BY <3>21 DEF InsertIndex
    <3>22. ASSUME NEW x \in Uploads, Activate(x) PROVE Goal
      BY <3>22 DEF Activate, Allowed, Stored, BeingDeleted
    <3>23. ASSUME NEW x \in Uploads, UndoIndex(x) PROVE Goal
      BY <3>23 DEF UndoIndex
    <3>24. ASSUME NEW x \in Uploads, UndoFails(x) PROVE Goal
      BY <3>24 DEF UndoFails, Fault
    <3>25. ASSUME NEW x \in Uploads, RunCrashes(x) PROVE Goal
      BY <3>25 DEF RunCrashes, Fault
    <3>26. ASSUME NEW x \in Uploads, RequestDocumentDeletion(x) PROVE Goal
      BY <3>26 DEF RequestDocumentDeletion, Live, Stored
    <3>27. ASSUME NEW x \in Uploads, RemoveDocument(x) PROVE Goal
      BY <3>27 DEF RemoveDocument, Stored
    <3>28. ASSUME NEW x \in Uploads, FinishDocument(x) PROVE Goal
      BY <3>28 DEF FinishDocument, Stored
    <3>29. CASE UNCHANGED vars
      BY <3>29
    <3>. HIDE DEF vars, requestVars, taskVars, documentVars
    <3>. QED
      BY <3>1, <3>2, <3>3, <3>4, <3>5, <3>6, <3>7, <3>8, <3>9, <3>10, <3>11, <3>12,
         <3>13, <3>14, <3>15, <3>16, <3>17, <3>18, <3>19, <3>20, <3>21, <3>22, <3>23,
         <3>24, <3>25, <3>26, <3>27, <3>28, <3>29 DEF Next, Request, Cleanup, Upload,
         Ingest, DeleteDocument, Crashes
  <2>. QED
    BY <2>1, <2>2, <2>3, <2>4, <2>5, <2>6 DEF Listed
<1>. QED
  BY <1>2, <1>3, <1>4, <1>5 DEF Remains

LEMMA Invariant == Spec => []IInv
<1>1. Init => IInv
  <2>1. Init => TypeOK
    BY Typing0
  <2>2. Init => Asked /\ Rows /\ Remains
    BY DEF Init, Asked, ConfirmingImpliesAsked, EventImpliesAsked, TaskImpliesEvent,
       EmptyIsEmpty, Rows,
           RowsOfUploads, RowsOfPresent, DoomedStored, DeletedDoomed, DoomedSealed, Remains, RemovedSpent,
           DeletedSpent, GoneSpent, Listed, Stored
  <2>. QED
    BY <2>1, <2>2 DEF IInv
<1>2. IInv /\ [Next]_vars => IInv'
  BY TypingStep, AskedStep, RowsStep, RemainsStep DEF IInv
<1>. QED
  BY <1>1, <1>2, PTL DEF Spec

\* When the knowledge base has gone, nothing is left of the documents its deletion was
\* accepted for (delete_knowledge_base of cleanup.py), for any number of uploads,
\* requests and faults.
THEOREM NothingLeft == Spec => []ErasedLeavesNothing
<1>1. IInv => ErasedLeavesNothing
  BY DEF IInv, Remains, GoneSpent, Spent, Clean, ErasedLeavesNothing, TypeOK
<1>. QED
  BY <1>1, Invariant, PTL

\* A knowledge base with documents never goes unless somebody has confirmed it
\* (delete_knowledge_base of management.py).
THEOREM AskedFirst == Spec => NotErasedUnasked
<1>. DEFINE Unasked == kb' = "gone" /\ kb # "gone" /\ Live # {}
<1>1. ASSUME IInv, Next, Unasked PROVE asked
  <2>. USE DEF EraseRows, vars, requestVars, taskVars, documentVars
  <2>1. CASE Create
    BY <2>1, <1>1 DEF Create
  <2>2. ASSUME NEW r \in Requests, NEW c \in BOOLEAN, Ask(r, c) PROVE asked
    BY <2>2, <1>1 DEF Ask
  <2>3. ASSUME NEW r \in Requests, NotFound(r) PROVE asked
    BY <2>3, <1>1 DEF NotFound
  <2>4. ASSUME NEW r \in Requests, LockAndCount(r) PROVE asked
    BY <2>4, <1>1 DEF LockAndCount, Stored, Live
  <2>5. ASSUME NEW r \in Requests, DeleteEmpty(r) PROVE asked
    BY <2>5, <1>1 DEF DeleteEmpty, IInv, Asked, EmptyIsEmpty
  <2>6. ASSUME NEW r \in Requests, Refuse(r) PROVE asked
    BY <2>6, <1>1 DEF Refuse
  <2>7. ASSUME NEW r \in Requests, Accept(r) PROVE asked
    BY <2>7, <1>1 DEF Accept, Stored
  <2>8. CASE ReadVersions
    BY <2>8, <1>1 DEF ReadVersions, Stored, IndexOf, FilesOf
  <2>9. ASSUME NEW x \in Uploads, DeleteIndex(x) PROVE asked
    BY <2>9, <1>1 DEF DeleteIndex
  <2>10. ASSUME NEW x \in Uploads, DeleteFile(x) PROVE asked
    BY <2>10, <1>1 DEF DeleteFile
  <2>11. CASE Erase
    BY <2>11, <1>1 DEF Erase, IInv, Asked, TaskImpliesEvent, EventImpliesAsked
  <2>12. CASE TaskCrashes
    BY <2>12, <1>1 DEF TaskCrashes, Fault
  <2>13. CASE TaskFails
    BY <2>13, <1>1 DEF TaskFails, Fault
  <2>14. ASSUME NEW x \in Uploads, WriteFile(x) PROVE asked
    BY <2>14, <1>1 DEF WriteFile
  <2>15. ASSUME NEW x \in Uploads, FindKnowledgeBase(x) PROVE asked
    BY <2>15, <1>1 DEF FindKnowledgeBase
  <2>16. ASSUME NEW x \in Uploads, Insert(x) PROVE asked
    BY <2>16, <1>1 DEF Insert
  <2>17. ASSUME NEW x \in Uploads, DropFile(x) PROVE asked
    BY <2>17, <1>1 DEF DropFile
  <2>18. ASSUME NEW x \in Uploads, UploadCrashes(x) PROVE asked
    BY <2>18, <1>1 DEF UploadCrashes, Fault
  <2>19. ASSUME NEW x \in Uploads, Claim(x) PROVE asked
    BY <2>19, <1>1 DEF Claim
  <2>20. ASSUME NEW x \in Uploads, StageIndexing(x) PROVE asked
    BY <2>20, <1>1 DEF StageIndexing, Allowed, Stored, BeingDeleted
  <2>21. ASSUME NEW x \in Uploads, InsertIndex(x) PROVE asked
    BY <2>21, <1>1 DEF InsertIndex
  <2>22. ASSUME NEW x \in Uploads, Activate(x) PROVE asked
    BY <2>22, <1>1 DEF Activate, Allowed, Stored, BeingDeleted
  <2>23. ASSUME NEW x \in Uploads, UndoIndex(x) PROVE asked
    BY <2>23, <1>1 DEF UndoIndex
  <2>24. ASSUME NEW x \in Uploads, UndoFails(x) PROVE asked
    BY <2>24, <1>1 DEF UndoFails, Fault
  <2>25. ASSUME NEW x \in Uploads, RunCrashes(x) PROVE asked
    BY <2>25, <1>1 DEF RunCrashes, Fault
  <2>26. ASSUME NEW x \in Uploads, RequestDocumentDeletion(x) PROVE asked
    BY <2>26, <1>1 DEF RequestDocumentDeletion, Live, Stored
  <2>27. ASSUME NEW x \in Uploads, RemoveDocument(x) PROVE asked
    BY <2>27, <1>1 DEF RemoveDocument, Stored
  <2>28. ASSUME NEW x \in Uploads, FinishDocument(x) PROVE asked
    BY <2>28, <1>1 DEF FinishDocument, Stored
  <2>. HIDE DEF EraseRows, vars, requestVars, taskVars, documentVars
  <2>. QED
    BY <1>1, <2>1, <2>2, <2>3, <2>4, <2>5, <2>6, <2>7, <2>8, <2>9, <2>10, <2>11, <2>12,
       <2>13, <2>14, <2>15, <2>16, <2>17, <2>18, <2>19, <2>20, <2>21, <2>22, <2>23, <2>24,
       <2>25, <2>26, <2>27, <2>28 DEF Next, Request, Cleanup, Upload, Ingest,
       DeleteDocument, Crashes
<1>2. IInv /\ [Next]_vars => [kb' = "gone" /\ kb # "gone" /\ Live # {} => asked]_vars
  BY <1>1
<1>. QED
  BY <1>2, Invariant, PTL DEF Spec, NotErasedUnasked
=============================================================================
