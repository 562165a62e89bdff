-------------------------- MODULE IngestionProofs --------------------------
(***************************************************************************)
(* Proofs about the life of a document, for every number of versions, jobs,*)
(* attempts, workers and faults, every kind of fault and request, and with *)
(* recovery taking live jobs for stale (Zombies) or not.                   *)
(***************************************************************************)
EXTENDS Ingestion, FiniteSetTheorems, TLAPS

IngestSteps == {"load", "schedule"} \cup Running
Executing == Running \cup {"schedule"}
Indexing == {"embedding", "indexing"} \cup Indexed
DeleteSteps == {"delete_read"} \cup Deleting
Waiting == {"pending", "retry_wait"}
DeleteJobs == {j \in 1..nJobs : jKind[j] = "delete"}
IngestJobs == {j \in 1..nJobs : jKind[j] # "delete"}

(* The register of jobs, events and workers that every proof rests on.      *)

\* A busy worker holds a message of the outbox and is at a step of its kind.
WorkersHoldMessages ==
  \A w \in Workers :
    \/ pc[w] = "idle"
    \/ /\ msg[w] \in outbox
       /\ \/ msg[w][1] = "ingest" /\ pc[w] \in IngestSteps
          \/ msg[w][1] = "delete" /\ pc[w] \in DeleteSteps
          \/ msg[w][1] = "cleanup" /\ pc[w] = "cleanup"

\* The jobs that events name exist and have the kind of the event.
EventsOfJobs ==
  \A e \in outbox :
    /\ e[1] = "ingest" => e[2] \in IngestJobs
    /\ e[1] = "delete" => e[2] \in DeleteJobs

\* Jobs belong to versions that exist.
JobsOfVersions ==
  /\ \A j \in 1..nJobs : jVersion[j] \in 1..nVersions
  /\ docStatus # "none" => nVersions > 0

\* Neither the pipeline nor recovery touches a deletion job.
DeleteJobsPlain == \A j \in DeleteJobs : jStatus[j] \in {"pending", "succeeded"}

Basic ==
  /\ TypeOK
  /\ WorkersHoldMessages
  /\ EventsOfJobs
  /\ JobsOfVersions
  /\ DeleteJobsPlain

-----------------------------------------------------------------------------
(* What a worker knows of the job it works on, and a job that is inserted.  *)

LEMMA Bounds == TypeOK => 1..nJobs \subseteq Jobs /\ 1..nVersions \subseteq Versions
BY BoundsAssumption DEF TypeOK, Jobs, Versions

LEMMA Holding ==
  ASSUME WorkersHoldMessages, NEW w \in Workers, pc[w] # "idle"
  PROVE  msg[w] \in outbox
BY DEF WorkersHoldMessages

LEMMA EventTypes ==
  /\ \A j \in Jobs, n \in Nat : IngestEvent(j, n) \in Events
  /\ \A j \in Jobs : DeleteEvent(j) \in Events
  /\ \A v \in Versions : CleanupEvent(v) \in Events /\ FailedCleanupEvent(v) \in Events
BY DEF IngestEvent, DeleteEvent, CleanupEvent, FailedCleanupEvent, Events

\* The pipeline works on an ingestion job of an existing version.
LEMMA IngestJob ==
  ASSUME Basic, NEW w \in Workers, pc[w] \in IngestSteps
  PROVE  /\ msg[w] \in outbox
         /\ msg[w][1] = "ingest"
         /\ JobOf(w) \in 1..nJobs
         /\ JobOf(w) \in Jobs
         /\ JobOf(w) \in IngestJobs
         /\ VersionOf(w) \in Versions
         /\ RunOf(w) \in Runs
<1>1. /\ msg[w] \in outbox
      /\ msg[w][1] = "ingest"
  BY DEF Basic, WorkersHoldMessages, IngestSteps, DeleteSteps, Running, Before, Indexed, After,
       Failing, Deleting
<1>2. JobOf(w) \in 1..nJobs /\ JobOf(w) \in IngestJobs
  BY <1>1 DEF Basic, EventsOfJobs, IngestJobs, JobOf
<1>3. jVersion[JobOf(w)] \in 1..nVersions
  BY <1>2 DEF Basic, JobsOfVersions
<1>4. run[w] \in Nat
  BY DEF Basic, TypeOK
<1> QED
  BY <1>1, <1>2, <1>3, <1>4, Bounds DEF Basic, VersionOf, RunOf, Runs, JobOf

\* The deletion task works on a deletion job.
LEMMA DeleteJob ==
  ASSUME Basic, NEW w \in Workers, pc[w] \in DeleteSteps
  PROVE  /\ msg[w] \in outbox
         /\ msg[w][1] = "delete"
         /\ JobOf(w) \in DeleteJobs
<1>1. /\ msg[w] \in outbox
      /\ msg[w][1] = "delete"
  BY DEF Basic, WorkersHoldMessages, IngestSteps, DeleteSteps, Running, Before, Indexed, After,
       Failing, Deleting
<1> QED
  BY <1>1 DEF Basic, EventsOfJobs, JobOf

\* Recovery finds ingestion jobs only: deletion jobs neither run nor fail, and
\* no event of ingestion names them.
LEMMA RecoveredJob ==
  ASSUME Basic, NEW j \in Jobs, Recoverable(j)
  PROVE  j \in IngestJobs
BY DEF Basic, EventsOfJobs, DeleteJobsPlain, Recoverable, Stale, IngestJobs, DeleteJobs, TypeOK

\* One transaction inserts a job with its event.
LEMMA AddJobTyped ==
  ASSUME TypeOK, NEW kind \in JobKinds, NEW v \in Versions, NEW e \in Events,
         AddJob(kind, v, e)
  PROVE  /\ nJobs' \in 0..MaxJobs
         /\ jKind' \in [Jobs -> JobKinds]
         /\ jVersion' \in [Jobs -> Versions \cup {None}]
         /\ jStatus' \in [Jobs -> JobStatuses]
         /\ jCode' \in [Jobs -> Codes]
         /\ attempt' \in [Jobs -> Nat]
         /\ outbox' \subseteq Events
         /\ outbox \subseteq outbox'
         /\ UNCHANGED published
<1>1. nJobs + 1 \in 0..MaxJobs
  BY BoundsAssumption DEF AddJob, TypeOK
<1> QED
  BY <1>1 DEF AddJob, TypeOK, JobStatuses, JobKinds, Codes

-----------------------------------------------------------------------------
(* Types.                                                                   *)

\* Every step keeps the types: one step of the proof per action.
LEMMA TypingStep == Basic /\ [Next]_vars => TypeOK'
<1> SUFFICES ASSUME Basic, [Next]_vars PROVE TypeOK'
  OBVIOUS
<1>t. TypeOK /\ WorkersHoldMessages /\ EventsOfJobs /\ JobsOfVersions
  BY DEF Basic
<1> USE <1>t, BoundsAssumption
   DEF TypeOK, DocStatuses, Stages, VersionStatuses, JobKinds, JobStatuses, Codes, Before,
       Indexed, After, Failing, Deleting, Steps, IngestSteps, Running, docVars, versionVars,
       dataVars, jobVars, eventVars, contextVars, vars, Fault, Goto, Ack, Raise
<1>1. ASSUME NEW w \in Workers, LoadSkips(w) PROVE TypeOK'
  BY <1>1, IngestJob, EventTypes, Bounds DEF LoadSkips
<1>2. ASSUME NEW w \in Workers, LoadClaims(w) PROVE TypeOK'
  BY <1>2, IngestJob, EventTypes, Bounds DEF LoadClaims
<1>3. ASSUME NEW w \in Workers, UpdateStage(w) PROVE TypeOK'
  BY <1>3, IngestJob, EventTypes, Bounds DEF UpdateStage, AfterStage
<1>4. ASSUME NEW w \in Workers, DeletingRaises(w) PROVE TypeOK'
  BY <1>4, IngestJob, EventTypes, Bounds DEF DeletingRaises
<1>5. ASSUME NEW w \in Workers, ReplaceChunks(w) PROVE TypeOK'
  BY <1>5, IngestJob, EventTypes, Bounds DEF ReplaceChunks
<1>6. ASSUME NEW w \in Workers, ClearIndex(w) PROVE TypeOK'
  BY <1>6, IngestJob, EventTypes, Bounds DEF ClearIndex
<1>7. ASSUME NEW w \in Workers, InsertIndex(w) PROVE TypeOK'
  BY <1>7, IngestJob, EventTypes, Bounds DEF InsertIndex
<1>8. ASSUME NEW w \in Workers, Verify(w) PROVE TypeOK'
  BY <1>8, IngestJob, EventTypes, Bounds DEF Verify
<1>9. ASSUME NEW w \in Workers, RejectUnverified(w) PROVE TypeOK'
  BY <1>9, IngestJob, EventTypes, Bounds DEF RejectUnverified, FailVersion
<1>10. ASSUME NEW w \in Workers, Activate(w) PROVE TypeOK'
  <2>1. VersionOf(w) \in Versions
    BY <1>10, IngestJob DEF Activate
  <2>2. outbox \subseteq outbox' /\ outbox' \subseteq Events
    <3>1. prev[w] \in Versions \cup {None}
      OBVIOUS
    <3> QED
      BY <1>10, <3>1, EventTypes DEF Activate, Superseded
  <2>3. vStatus' \in [Versions -> VersionStatuses]
    BY <1>10 DEF Activate
  <2> QED
    BY <1>10, <2>1, <2>2, <2>3 DEF Activate
<1>11. ASSUME NEW w \in Workers, ActivateRaises(w) PROVE TypeOK'
  BY <1>11, IngestJob, EventTypes, Bounds DEF ActivateRaises
<1>12. ASSUME NEW w \in Workers, StageReady(w) PROVE TypeOK'
  BY <1>12, IngestJob, EventTypes, Bounds DEF StageReady
<1>13. ASSUME NEW w \in Workers, CompleteJob(w) PROVE TypeOK'
  BY <1>13, IngestJob, EventTypes, Bounds DEF CompleteJob
<1>14. ASSUME NEW w \in Workers, UndoIndex(w) PROVE TypeOK'
  BY <1>14, IngestJob, EventTypes, Bounds DEF UndoIndex
<1>15. ASSUME NEW w \in Workers, MarkFailed(w) PROVE TypeOK'
  BY <1>15, IngestJob, EventTypes, Bounds DEF MarkFailed, FailVersion
<1>16. ASSUME NEW w \in Workers, FailJob(w) PROVE TypeOK'
  <2>1. jCode' \in [Jobs -> Codes]
    BY <1>16 DEF FailJob
  <2>2. Ack(w) \/ Goto(w, "schedule")
    BY <1>16 DEF FailJob
  <2> QED
    <3>1. CASE Ack(w)
      BY <1>16, <2>1, <3>1 DEF FailJob
    <3>2. CASE Goto(w, "schedule")
      BY <1>16, <2>1, <3>2 DEF FailJob
    <3> QED
      BY <2>2, <3>1, <3>2
<1>17. ASSUME NEW w \in Workers, ScheduleRetry(w) PROVE TypeOK'
  <2>1. JobOf(w) \in Jobs /\ attempt[JobOf(w)] + 1 \in Nat
    BY <1>17, IngestJob DEF ScheduleRetry
  <2>2. outbox' \subseteq Events /\ outbox \subseteq outbox'
    <3>1. IngestEvent(JobOf(w), attempt[JobOf(w)] + 1) \in Events
      BY <2>1, EventTypes
    <3>2. outbox \subseteq Events
      BY DEF TypeOK
    <3>3. outbox' = outbox \/ outbox' = outbox \cup {IngestEvent(JobOf(w), attempt[JobOf(w)] + 1)}
      BY <1>17 DEF ScheduleRetry
    <3> QED
      BY <3>1, <3>2, <3>3, Zenon
  <2>3. /\ attempt' \in [Jobs -> Nat]
        /\ jStatus' \in [Jobs -> JobStatuses]
        /\ jCode' \in [Jobs -> Codes]
    <3>1. \/ UNCHANGED attempt
          \/ attempt' = [attempt EXCEPT ![JobOf(w)] = attempt[JobOf(w)] + 1]
      BY <1>17 DEF ScheduleRetry
    <3>2. \/ UNCHANGED jStatus
          \/ jStatus' = [jStatus EXCEPT ![JobOf(w)] = "failed"]
          \/ jStatus' = [jStatus EXCEPT ![JobOf(w)] = "retry_wait"]
      BY <1>17 DEF ScheduleRetry
    <3>3. \/ UNCHANGED jCode
          \/ jCode' = [jCode EXCEPT ![JobOf(w)] = "retry_exhausted"]
      BY <1>17 DEF ScheduleRetry
    <3> QED
      BY <2>1, <3>1, <3>2, <3>3
  <2> QED
    BY <1>17, <2>2, <2>3 DEF ScheduleRetry
<1>18. ASSUME NEW w \in Workers, DeleteRead(w) PROVE TypeOK'
  BY <1>18, EventTypes, Bounds DEF DeleteRead, Versions
<1>19. ASSUME NEW w \in Workers, DeleteIndex(w) PROVE TypeOK'
  BY <1>19, EventTypes, Bounds DEF DeleteIndex
<1>20. ASSUME NEW w \in Workers, DeleteFiles(w) PROVE TypeOK'
  BY <1>20, EventTypes, Bounds DEF DeleteFiles
<1>21. ASSUME NEW w \in Workers, DeleteCommit(w) PROVE TypeOK'
  BY <1>21, EventTypes, Bounds DEF DeleteCommit
<1>22. ASSUME NEW w \in Workers, CleanupVersion(w) PROVE TypeOK'
  BY ZenonT(60), <1>22, EventTypes, Bounds DEF CleanupVersion
<1>23. ASSUME NEW w \in Workers, LoadFails(w) PROVE TypeOK'
  BY <1>23, IngestJob, EventTypes, Bounds DEF LoadFails
<1>24. ASSUME NEW w \in Workers, StepFails(w) PROVE TypeOK'
  <2>1. pc' \in [Workers -> Steps] /\ code' \in [Workers -> Codes]
    BY <1>24 DEF StepFails
  <2>2. UNCHANGED <<msg, run, prev, todo, seen>> /\ faults' \in 0..MaxFaults
    BY <1>24 DEF StepFails
  <2> QED
    BY <1>24, <2>1, <2>2 DEF StepFails
<1>25. ASSUME NEW w \in Workers, UndoIndexFails(w) PROVE TypeOK'
  BY <1>25, IngestJob, EventTypes, Bounds DEF UndoIndexFails
<1>26. ASSUME NEW w \in Workers, HandlerFails(w) PROVE TypeOK'
  BY <1>26, IngestJob, EventTypes, Bounds DEF HandlerFails
<1>27. ASSUME NEW w \in Workers, ScheduleFails(w) PROVE TypeOK'
  BY <1>27, IngestJob, EventTypes, Bounds, Holding DEF ScheduleFails
<1>28. ASSUME NEW w \in Workers, DeleteFails(w) PROVE TypeOK'
  BY <1>28, EventTypes, Bounds DEF DeleteFails
<1>29. ASSUME NEW w \in Workers, CleanupFails(w) PROVE TypeOK'
  BY <1>29, EventTypes, Bounds DEF CleanupFails
<1>30. ASSUME NEW w \in Workers, RuntimeFails(w) PROVE TypeOK'
  BY <1>30, EventTypes, Bounds DEF RuntimeFails
<1>31. ASSUME NEW w \in Workers, Crash(w) PROVE TypeOK'
  BY <1>31, EventTypes, Bounds, Holding DEF Crash, CrashKind
<1>32. ASSUME NEW w \in Workers, Receive(w) PROVE TypeOK'
  <2>1. PICK e \in broker : /\ broker' = broker \ {e}
                            /\ msg' = [msg EXCEPT ![w] = e]
                            /\ pc' = [pc EXCEPT ![w] = CASE e[1] = "ingest" -> "load"
                                    [] e[1] = "delete" -> "delete_read"
                                    [] e[1] = "cleanup" -> "cleanup"]
    BY <1>32 DEF Receive
  <2>2. e[1] \in {"ingest", "delete", "cleanup"}
    BY DEF Events
  <2>3. pc' \in [Workers -> Steps]
    BY <2>1, <2>2
  <2> QED
    BY ZenonT(60), <1>32, <2>1, <2>3 DEF Receive
<1>33. ASSUME NEW e \in outbox, Publish(e) PROVE TypeOK'
  BY <1>33, EventTypes, Bounds DEF Publish
<1>34. ASSUME NEW e \in outbox, Duplicate(e) PROVE TypeOK'
  BY <1>34, EventTypes, Bounds DEF Duplicate
<1>35. ASSUME NEW e \in outbox, LoseMessage(e) PROVE TypeOK'
  BY <1>35, EventTypes, Bounds DEF LoseMessage
<1>36. ASSUME NEW j \in Jobs, RecoverActivated(j) PROVE TypeOK'
  BY <1>36, EventTypes, Bounds DEF RecoverActivated
<1>37. ASSUME NEW j \in Jobs, RecoverExhausted(j) PROVE TypeOK'
  <2>1. /\ attempt' \in [Jobs -> Nat]
        /\ jStatus' \in [Jobs -> JobStatuses]
        /\ jCode' \in [Jobs -> Codes]
    BY <1>37 DEF RecoverExhausted
  <2>2. vStatus' \in [Versions -> VersionStatuses] /\ docStatus' \in DocStatuses
    BY <1>37 DEF RecoverExhausted, FailVersion
  <2> QED
    BY <1>37, <2>1, <2>2 DEF RecoverExhausted, FailVersion
<1>38. ASSUME NEW j \in Jobs, RecoverRequeues(j) PROVE TypeOK'
  BY <1>38, EventTypes, Bounds DEF RecoverRequeues
<1>v. ASSUME AddVersion PROVE /\ nVersions' \in 0..MaxVersions
                              /\ vStatus' \in [Versions -> VersionStatuses]
                              /\ files' \subseteq Versions
                              /\ nVersions + 1 \in Versions /\ nJobs + 1 \in Jobs
                              /\ AddJob("ingest", nVersions + 1, IngestEvent(nJobs + 1, 0))
                              /\ docStatus' \in DocStatuses
                              /\ UNCHANGED <<active, deletedAt, readyAt, chunks, index>>
  BY <1>v DEF AddVersion, Versions, AddJob, Jobs
<1>39. ASSUME UploadDocument PROVE TypeOK'
  <2>1. AddVersion
    BY <1>39 DEF UploadDocument
  <2> QED
    BY <1>39, <2>1, <1>v, AddJobTyped, EventTypes DEF UploadDocument
<1>40. ASSUME UploadFindsDuplicate PROVE TypeOK'
  BY <1>40, EventTypes, Bounds DEF UploadFindsDuplicate
<1>41. ASSUME UploadVersion PROVE TypeOK'
  <2>1. AddVersion
    BY <1>41 DEF UploadVersion
  <2> QED
    BY ZenonT(60), <1>41, <2>1, <1>v, AddJobTyped, EventTypes DEF UploadVersion
<1>42. ASSUME RequestRetry PROVE TypeOK'
  <2>1. nVersions \in Versions /\ nJobs + 1 \in Jobs
    BY <1>42 DEF RequestRetry, AddJob, JobsOfVersions, Versions, Jobs
  <2>2. vStatus' \in [Versions -> VersionStatuses]
    BY <1>42 DEF RequestRetry
  <2> QED
    BY <1>42, <2>1, <2>2, AddJobTyped, EventTypes DEF RequestRetry
<1>43. ASSUME RequestReindex PROVE TypeOK'
  BY <1>43, EventTypes, Bounds DEF RequestReindex
<1>44. ASSUME RequestDelete PROVE TypeOK'
  <2>1. nVersions \in Versions /\ nJobs + 1 \in Jobs
    BY <1>44 DEF RequestDelete, AddJob, JobsOfVersions, Versions, Jobs
  <2> QED
    BY <1>44, <2>1, AddJobTyped, EventTypes DEF RequestDelete
<1>u. CASE UNCHANGED vars
  BY <1>u
<1> QED
  BY ZenonT(60), <1>u, <1>1, <1>2, <1>3, <1>4, <1>5, <1>6, <1>7, <1>8, <1>9, <1>10, <1>11, <1>12, <1>13,
       <1>14, <1>15, <1>16, <1>17, <1>18, <1>19, <1>20, <1>21, <1>22, <1>23, <1>24, <1>25,
       <1>26, <1>27, <1>28, <1>29, <1>30, <1>31, <1>32, <1>33, <1>34, <1>35, <1>36, <1>37,
       <1>38, <1>39, <1>40, <1>41, <1>42, <1>43, <1>44
     DEF Next, Client, WorkerStep, WorkerFault, Recover

-----------------------------------------------------------------------------
(* Frames: which actions write the document, the jobs and the outbox.       *)

LEMMA DocumentFrame ==
  ASSUME [Next]_vars
  PROVE  \/ UNCHANGED <<docVars, versionVars>>
         \/ \E w \in Workers :
              \/ UpdateStage(w) \/ Activate(w) \/ StageReady(w) \/ DeleteCommit(w)
              \/ RejectUnverified(w) \/ MarkFailed(w)
         \/ \E j \in Jobs : RecoverExhausted(j)
         \/ UploadDocument \/ UploadVersion \/ RequestRetry \/ RequestDelete
<1> DEFINE Frame ==
             \/ UNCHANGED <<docVars, versionVars>>
             \/ \E w \in Workers :
                  \/ UpdateStage(w) \/ Activate(w) \/ StageReady(w) \/ DeleteCommit(w)
                  \/ RejectUnverified(w) \/ MarkFailed(w)
             \/ \E j \in Jobs : RecoverExhausted(j)
             \/ UploadDocument \/ UploadVersion \/ RequestRetry \/ RequestDelete
<1> SUFFICES Frame
  OBVIOUS
<1>1. ASSUME NEW w \in Workers, WorkerStep(w) PROVE Frame
  BY <1>1
     DEF WorkerStep, docVars, versionVars,
         LoadSkips, LoadClaims, UpdateStage, DeletingRaises, ReplaceChunks, ClearIndex,
         InsertIndex, Verify, RejectUnverified, Activate, ActivateRaises, StageReady,
         CompleteJob, UndoIndex, MarkFailed, FailJob, ScheduleRetry, DeleteRead, DeleteIndex,
         DeleteFiles, DeleteCommit, CleanupVersion
<1>2. ASSUME NEW w \in Workers, WorkerFault(w) PROVE Frame
  BY <1>2
     DEF WorkerFault, docVars, versionVars,
         LoadFails, StepFails, UndoIndexFails, HandlerFails, ScheduleFails, DeleteFails,
         CleanupFails, RuntimeFails, Crash
<1>3. ASSUME NEW w \in Workers, Receive(w) PROVE Frame
  BY <1>3 DEF Receive, docVars, versionVars
<1>4. ASSUME NEW e \in outbox, Publish(e) \/ Duplicate(e) \/ LoseMessage(e) PROVE Frame
  BY <1>4 DEF Publish, Duplicate, LoseMessage, docVars, versionVars
<1>5. ASSUME NEW j \in Jobs, Recover(j) PROVE Frame
  BY <1>5 DEF Recover, RecoverActivated, RecoverExhausted, RecoverRequeues, docVars, versionVars
<1>6. CASE Client
  BY <1>6
     DEF Client, UploadFindsDuplicate, RequestReindex, vars, docVars, versionVars
<1>7. CASE UNCHANGED vars
  BY <1>7 DEF vars, docVars, versionVars
<1> HIDE DEF Frame
<1> QED
  BY <1>1, <1>2, <1>3, <1>4, <1>5, <1>6, <1>7 DEF Next

LEMMA JobFrame ==
  ASSUME [Next]_vars
  PROVE  \/ UNCHANGED jobVars
         \/ \E w \in Workers :
              \/ LoadClaims(w) \/ UpdateStage(w) \/ StageReady(w) \/ CompleteJob(w)
              \/ FailJob(w) \/ ScheduleRetry(w) \/ DeleteCommit(w)
         \/ \E j \in Jobs : Recover(j)
         \/ UploadDocument \/ UploadVersion \/ RequestRetry \/ RequestDelete
<1> DEFINE Frame ==
             \/ UNCHANGED jobVars
             \/ \E w \in Workers :
                  \/ LoadClaims(w) \/ UpdateStage(w) \/ StageReady(w) \/ CompleteJob(w)
                  \/ FailJob(w) \/ ScheduleRetry(w) \/ DeleteCommit(w)
             \/ \E j \in Jobs : Recover(j)
             \/ UploadDocument \/ UploadVersion \/ RequestRetry \/ RequestDelete
<1> SUFFICES Frame
  OBVIOUS
<1>1. ASSUME NEW w \in Workers, WorkerStep(w) PROVE Frame
  BY <1>1
     DEF WorkerStep, jobVars,
         LoadSkips, LoadClaims, UpdateStage, DeletingRaises, ReplaceChunks, ClearIndex,
         InsertIndex, Verify, RejectUnverified, Activate, ActivateRaises, StageReady,
         CompleteJob, UndoIndex, MarkFailed, FailJob, ScheduleRetry, DeleteRead, DeleteIndex,
         DeleteFiles, DeleteCommit, CleanupVersion
<1>2. ASSUME NEW w \in Workers, WorkerFault(w) PROVE Frame
  BY <1>2
     DEF WorkerFault, jobVars,
         LoadFails, StepFails, UndoIndexFails, HandlerFails, ScheduleFails, DeleteFails,
         CleanupFails, RuntimeFails, Crash
<1>3. ASSUME NEW w \in Workers, Receive(w) PROVE Frame
  BY <1>3 DEF Receive, jobVars
<1>4. ASSUME NEW e \in outbox, Publish(e) \/ Duplicate(e) \/ LoseMessage(e) PROVE Frame
  BY <1>4 DEF Publish, Duplicate, LoseMessage, jobVars
<1>5. ASSUME NEW j \in Jobs, Recover(j) PROVE Frame
  BY <1>5 DEF Recover, RecoverActivated, RecoverExhausted, RecoverRequeues, jobVars
<1>6. CASE Client
  BY <1>6
     DEF Client, UploadFindsDuplicate, RequestReindex, vars, jobVars
<1>7. CASE UNCHANGED vars
  BY <1>7 DEF vars, jobVars
<1> HIDE DEF Frame
<1> QED
  BY <1>1, <1>2, <1>3, <1>4, <1>5, <1>6, <1>7 DEF Next

LEMMA OutboxFrame ==
  ASSUME [Next]_vars
  PROVE  \/ UNCHANGED outbox
         \/ \E w \in Workers : Activate(w) \/ UndoIndexFails(w) \/ ScheduleRetry(w)
         \/ \E j \in Jobs : RecoverRequeues(j)
         \/ UploadDocument \/ UploadVersion \/ RequestRetry \/ RequestDelete
<1> DEFINE Frame ==
             \/ UNCHANGED outbox
             \/ \E w \in Workers : Activate(w) \/ UndoIndexFails(w) \/ ScheduleRetry(w)
             \/ \E j \in Jobs : RecoverRequeues(j)
             \/ UploadDocument \/ UploadVersion \/ RequestRetry \/ RequestDelete
<1> SUFFICES Frame
  OBVIOUS
<1>1. ASSUME NEW w \in Workers, WorkerStep(w) PROVE Frame
  BY <1>1
     DEF WorkerStep, eventVars,
         LoadSkips, LoadClaims, UpdateStage, DeletingRaises, ReplaceChunks, ClearIndex,
         InsertIndex, Verify, RejectUnverified, Activate, ActivateRaises, StageReady,
         CompleteJob, UndoIndex, MarkFailed, FailJob, ScheduleRetry, DeleteRead, DeleteIndex,
         DeleteFiles, DeleteCommit, CleanupVersion
<1>2. ASSUME NEW w \in Workers, WorkerFault(w) PROVE Frame
  BY <1>2
     DEF WorkerFault, eventVars,
         LoadFails, StepFails, UndoIndexFails, HandlerFails, ScheduleFails, DeleteFails,
         CleanupFails, RuntimeFails, Crash
<1>3. ASSUME NEW w \in Workers, Receive(w) PROVE Frame
  BY <1>3 DEF Receive, eventVars
<1>4. ASSUME NEW e \in outbox, Publish(e) \/ Duplicate(e) \/ LoseMessage(e) PROVE Frame
  BY <1>4 DEF Publish, Duplicate, LoseMessage, eventVars
<1>5. ASSUME NEW j \in Jobs, Recover(j) PROVE Frame
  BY <1>5 DEF Recover, RecoverActivated, RecoverExhausted, RecoverRequeues, eventVars
<1>6. CASE Client
  BY <1>6
     DEF Client, UploadFindsDuplicate, RequestReindex, vars, eventVars
<1>7. CASE UNCHANGED vars
  BY <1>7 DEF vars, eventVars
<1> HIDE DEF Frame
<1> QED
  BY <1>1, <1>2, <1>3, <1>4, <1>5, <1>6, <1>7 DEF Next

LEMMA DataFrame ==
  ASSUME [Next]_vars
  PROVE  \/ UNCHANGED dataVars
         \/ \E w \in Workers :
              \/ ReplaceChunks(w) \/ ClearIndex(w) \/ InsertIndex(w) \/ UndoIndex(w)
              \/ DeleteIndex(w) \/ DeleteFiles(w) \/ CleanupVersion(w)
         \/ UploadDocument \/ UploadVersion
<1> DEFINE Frame ==
             \/ UNCHANGED dataVars
             \/ \E w \in Workers :
                  \/ ReplaceChunks(w) \/ ClearIndex(w) \/ InsertIndex(w) \/ UndoIndex(w)
                  \/ DeleteIndex(w) \/ DeleteFiles(w) \/ CleanupVersion(w)
             \/ UploadDocument \/ UploadVersion
<1> SUFFICES Frame
  OBVIOUS
<1>1. ASSUME NEW w \in Workers, WorkerStep(w) PROVE Frame
  BY <1>1
     DEF WorkerStep, dataVars,
         LoadSkips, LoadClaims, UpdateStage, DeletingRaises, ReplaceChunks, ClearIndex,
         InsertIndex, Verify, RejectUnverified, Activate, ActivateRaises, StageReady,
         CompleteJob, UndoIndex, MarkFailed, FailJob, ScheduleRetry, DeleteRead, DeleteIndex,
         DeleteFiles, DeleteCommit, CleanupVersion
<1>2. ASSUME NEW w \in Workers, WorkerFault(w) PROVE Frame
  BY <1>2
     DEF WorkerFault, dataVars,
         LoadFails, StepFails, UndoIndexFails, HandlerFails, ScheduleFails, DeleteFails,
         CleanupFails, RuntimeFails, Crash
<1>3. ASSUME NEW w \in Workers, Receive(w) PROVE Frame
  BY <1>3 DEF Receive, dataVars
<1>4. ASSUME NEW e \in outbox, Publish(e) \/ Duplicate(e) \/ LoseMessage(e) PROVE Frame
  BY <1>4 DEF Publish, Duplicate, LoseMessage, dataVars
<1>5. ASSUME NEW j \in Jobs, Recover(j) PROVE Frame
  BY <1>5 DEF Recover, RecoverActivated, RecoverExhausted, RecoverRequeues, dataVars
<1>6. CASE Client
  BY <1>6
     DEF Client, UploadFindsDuplicate, RequestRetry, RequestReindex, RequestDelete, vars, dataVars
<1>7. CASE UNCHANGED vars
  BY <1>7 DEF vars, dataVars
<1> HIDE DEF Frame
<1> QED
  BY <1>1, <1>2, <1>3, <1>4, <1>5, <1>6, <1>7 DEF Next

LEMMA UploadFrame ==
  ASSUME [Next]_vars
  PROVE  UNCHANGED uploading \/ UploadFindsDuplicate \/ UploadVersion
<1> DEFINE Frame == UNCHANGED uploading \/ UploadFindsDuplicate \/ UploadVersion
<1> SUFFICES Frame
  OBVIOUS
<1>1. ASSUME NEW w \in Workers, WorkerStep(w) PROVE Frame
  BY <1>1
     DEF WorkerStep,
         LoadSkips, LoadClaims, UpdateStage, DeletingRaises, ReplaceChunks, ClearIndex,
         InsertIndex, Verify, RejectUnverified, Activate, ActivateRaises, StageReady,
         CompleteJob, UndoIndex, MarkFailed, FailJob, ScheduleRetry, DeleteRead, DeleteIndex,
         DeleteFiles, DeleteCommit, CleanupVersion
<1>2. ASSUME NEW w \in Workers, WorkerFault(w) PROVE Frame
  BY <1>2
     DEF WorkerFault,
         LoadFails, StepFails, UndoIndexFails, HandlerFails, ScheduleFails, DeleteFails,
         CleanupFails, RuntimeFails, Crash
<1>3. ASSUME NEW w \in Workers, Receive(w) PROVE Frame
  BY <1>3 DEF Receive
<1>4. ASSUME NEW e \in outbox, Publish(e) \/ Duplicate(e) \/ LoseMessage(e) PROVE Frame
  BY <1>4 DEF Publish, Duplicate, LoseMessage
<1>5. ASSUME NEW j \in Jobs, Recover(j) PROVE Frame
  BY <1>5 DEF Recover, RecoverActivated, RecoverExhausted, RecoverRequeues
<1>6. CASE Client
  BY <1>6 DEF Client, UploadDocument, RequestRetry, RequestReindex, RequestDelete, vars
<1>7. CASE UNCHANGED vars
  BY <1>7 DEF vars
<1> HIDE DEF Frame
<1> QED
  BY <1>1, <1>2, <1>3, <1>4, <1>5, <1>6, <1>7 DEF Next

\* The client requests that add a job, seen as one.
NewJob ==
  \E kind \in {"ingest", "retry", "delete"}, v \in Versions :
    AddJob(kind, v, IF kind = "delete" THEN DeleteEvent(nJobs + 1)
                                       ELSE IngestEvent(nJobs + 1, 0))

LEMMA NewJobs ==
  ASSUME Basic, UploadDocument \/ UploadVersion \/ RequestRetry \/ RequestDelete
  PROVE  NewJob
<1>1. Basic /\ TypeOK /\ JobsOfVersions
  BY DEF Basic
<1>2. CASE UploadDocument \/ UploadVersion
  <2>1. AddJob("ingest", nVersions + 1, IngestEvent(nJobs + 1, 0)) /\ nVersions + 1 \in Versions
    BY <1>1, <1>2, BoundsAssumption
       DEF UploadDocument, UploadVersion, AddVersion, Versions, TypeOK
  <2> QED
    BY <2>1 DEF NewJob
<1>3. CASE RequestRetry
  <2>1. AddJob("retry", nVersions, IngestEvent(nJobs + 1, 0)) /\ nVersions \in Versions
    BY <1>1, <1>3 DEF RequestRetry, Versions, TypeOK, JobsOfVersions
  <2> QED
    BY <2>1 DEF NewJob
<1>4. CASE RequestDelete
  <2>1. AddJob("delete", nVersions, DeleteEvent(nJobs + 1)) /\ nVersions \in Versions
    BY <1>1, <1>4 DEF RequestDelete, Versions, TypeOK, JobsOfVersions
  <2> QED
    BY <2>1 DEF NewJob
<1> QED
  BY <1>2, <1>3, <1>4

LEMMA JobSteps ==
  ASSUME Basic, [Next]_vars
  PROVE  \/ UNCHANGED jobVars
         \/ \E w \in Workers :
              \/ LoadClaims(w) \/ UpdateStage(w) \/ StageReady(w) \/ CompleteJob(w)
              \/ FailJob(w) \/ ScheduleRetry(w) \/ DeleteCommit(w)
         \/ \E j \in Jobs : RecoverActivated(j) \/ RecoverExhausted(j) \/ RecoverRequeues(j)
         \/ NewJob
<1>1. CASE UploadDocument \/ UploadVersion \/ RequestRetry \/ RequestDelete
  BY <1>1, NewJobs
<1>2. CASE \E j \in Jobs : Recover(j)
  BY ZenonT(60), <1>2 DEF Recover
<1> QED
  BY <1>1, <1>2, JobFrame, ZenonT(60)

-----------------------------------------------------------------------------
(* Workers.                                                                 *)

\* Except for taking a message, a worker ends its task or goes on with it.
Proceeds ==
  /\ outbox \subseteq outbox'
  /\ \A w \in Workers :
       \/ pc'[w] = "idle" /\ run'[w] = 0
       \/ /\ UNCHANGED <<pc[w], msg[w], run[w]>>
       \/ /\ pc[w] \in IngestSteps
          /\ pc'[w] \in IngestSteps
          /\ msg'[w] = msg[w]
          /\ \/ run'[w] = run[w] /\ (pc'[w] \in Running => pc[w] \in Running)
             \/ LoadClaims(w)
          /\ pc'[w] \in After => pc[w] \in After \/ Activate(w)
          /\ pc[w] \in After => pc'[w] \in After \/ StepFails(w) \/ DeletingRaises(w)
          /\ pc'[w] = "schedule" => LoadFails(w) \/ FailJob(w)
          /\ pc'[w] \in Indexing =>
               \/ ReplaceChunks(w) \/ UpdateStage(w) \/ ClearIndex(w) \/ InsertIndex(w)
               \/ Verify(w)
       \/ /\ pc[w] \in DeleteSteps
          /\ pc'[w] \in DeleteSteps
          /\ UNCHANGED <<msg[w], run[w]>>

LEMMA ProceedsStep == TypeOK /\ [Next]_vars => Proceeds \/ \E w \in Workers : Receive(w)
<1> SUFFICES ASSUME TypeOK, [Next]_vars, ~\E w \in Workers : Receive(w) PROVE Proceeds
  OBVIOUS
<1> USE
   DEF TypeOK, Proceeds, Stages, Before, Indexed, After, Failing, Deleting, Running,
       Indexing, IngestSteps, DeleteSteps, eventVars, contextVars, vars, Goto, Ack, Raise
<1>1. ASSUME NEW w \in Workers, LoadSkips(w) PROVE Proceeds
  BY <1>1 DEF LoadSkips
<1>2. ASSUME NEW w \in Workers, LoadClaims(w) PROVE Proceeds
  <2>1. /\ pc[w] \in IngestSteps \ After /\ pc'[w] \in IngestSteps \ After
        /\ pc'[w] \notin Indexing /\ pc'[w] # "schedule"
        /\ UNCHANGED <<outbox, msg>>
    BY <1>2 DEF LoadClaims
  <2>2. \A x \in Workers \ {w} : UNCHANGED <<pc[x], msg[x], run[x]>>
    BY <1>2 DEF LoadClaims
  <2> QED
    BY <1>2, <2>1, <2>2
<1>3. ASSUME NEW w \in Workers, UpdateStage(w) PROVE Proceeds
  <2>1. /\ pc[w] \in Before /\ pc[w] \notin After
        /\ pc'[w] \in IngestSteps \ After /\ pc'[w] # "schedule"
        /\ UNCHANGED <<outbox, msg, run>>
    BY <1>3 DEF UpdateStage, AfterStage
  <2>2. \A x \in Workers \ {w} : UNCHANGED <<pc[x], msg[x], run[x]>>
    BY <1>3 DEF UpdateStage
  <2> QED
    BY <1>3, <2>1, <2>2
<1>4. ASSUME NEW w \in Workers, DeletingRaises(w) PROVE Proceeds
  BY ZenonT(60), <1>4 DEF DeletingRaises
<1>5. ASSUME NEW w \in Workers, ReplaceChunks(w) PROVE Proceeds
  BY <1>5 DEF ReplaceChunks
<1>6. ASSUME NEW w \in Workers, ClearIndex(w) PROVE Proceeds
  BY <1>6 DEF ClearIndex
<1>7. ASSUME NEW w \in Workers, InsertIndex(w) PROVE Proceeds
  BY <1>7 DEF InsertIndex
<1>8. ASSUME NEW w \in Workers, Verify(w) PROVE Proceeds
  BY <1>8 DEF Verify
<1>9. ASSUME NEW w \in Workers, RejectUnverified(w) PROVE Proceeds
  BY <1>9 DEF RejectUnverified, FailVersion
<1>10. ASSUME NEW w \in Workers, Activate(w) PROVE Proceeds
  BY ZenonT(60), <1>10 DEF Activate
<1>11. ASSUME NEW w \in Workers, ActivateRaises(w) PROVE Proceeds
  BY <1>11 DEF ActivateRaises
<1>12. ASSUME NEW w \in Workers, StageReady(w) PROVE Proceeds
  BY <1>12 DEF StageReady
<1>13. ASSUME NEW w \in Workers, CompleteJob(w) PROVE Proceeds
  BY <1>13 DEF CompleteJob
<1>14. ASSUME NEW w \in Workers, UndoIndex(w) PROVE Proceeds
  BY <1>14 DEF UndoIndex
<1>15. ASSUME NEW w \in Workers, MarkFailed(w) PROVE Proceeds
  BY <1>15 DEF MarkFailed, FailVersion
<1>16. ASSUME NEW w \in Workers, FailJob(w) PROVE Proceeds
  <2>1. UNCHANGED outbox /\ pc[w] \in IngestSteps \ After
    BY <1>16 DEF FailJob
  <2>2. CASE Ack(w)
    BY <2>1, <2>2
  <2>3. CASE Goto(w, "schedule")
    BY <1>16, <2>1, <2>3
  <2> QED
    BY <1>16, <2>2, <2>3 DEF FailJob
<1>17. ASSUME NEW w \in Workers, ScheduleRetry(w) PROVE Proceeds
  BY <1>17 DEF ScheduleRetry
<1>18. ASSUME NEW w \in Workers, DeleteRead(w) PROVE Proceeds
  BY <1>18 DEF DeleteRead, Versions
<1>19. ASSUME NEW w \in Workers, DeleteIndex(w) PROVE Proceeds
  BY <1>19 DEF DeleteIndex
<1>20. ASSUME NEW w \in Workers, DeleteFiles(w) PROVE Proceeds
  BY <1>20 DEF DeleteFiles
<1>21. ASSUME NEW w \in Workers, DeleteCommit(w) PROVE Proceeds
  BY <1>21 DEF DeleteCommit
<1>22. ASSUME NEW w \in Workers, CleanupVersion(w) PROVE Proceeds
  BY <1>22 DEF CleanupVersion
<1>23. ASSUME NEW w \in Workers, LoadFails(w) PROVE Proceeds
  BY <1>23 DEF LoadFails
<1>24. ASSUME NEW w \in Workers, StepFails(w) PROVE Proceeds
  BY <1>24 DEF StepFails
<1>25. ASSUME NEW w \in Workers, UndoIndexFails(w) PROVE Proceeds
  BY <1>25 DEF UndoIndexFails
<1>26. ASSUME NEW w \in Workers, HandlerFails(w) PROVE Proceeds
  BY <1>26 DEF HandlerFails
<1>27. ASSUME NEW w \in Workers, ScheduleFails(w) PROVE Proceeds
  BY <1>27 DEF ScheduleFails
<1>28. ASSUME NEW w \in Workers, DeleteFails(w) PROVE Proceeds
  BY <1>28 DEF DeleteFails
<1>29. ASSUME NEW w \in Workers, CleanupFails(w) PROVE Proceeds
  BY <1>29 DEF CleanupFails
<1>30. ASSUME NEW w \in Workers, RuntimeFails(w) PROVE Proceeds
  BY <1>30 DEF RuntimeFails
<1>31. ASSUME NEW w \in Workers, Crash(w) PROVE Proceeds
  BY <1>31 DEF Crash, CrashKind
<1>32. ASSUME NEW e \in outbox, Publish(e) PROVE Proceeds
  BY <1>32 DEF Publish
<1>33. ASSUME NEW e \in outbox, Duplicate(e) PROVE Proceeds
  BY <1>33 DEF Duplicate
<1>34. ASSUME NEW e \in outbox, LoseMessage(e) PROVE Proceeds
  BY <1>34 DEF LoseMessage
<1>35. ASSUME NEW j \in Jobs, RecoverActivated(j) PROVE Proceeds
  BY <1>35 DEF RecoverActivated
<1>36. ASSUME NEW j \in Jobs, RecoverExhausted(j) PROVE Proceeds
  BY <1>36 DEF RecoverExhausted, FailVersion
<1>37. ASSUME NEW j \in Jobs, RecoverRequeues(j) PROVE Proceeds
  BY <1>37 DEF RecoverRequeues
<1>38. ASSUME UploadDocument PROVE Proceeds
  BY <1>38 DEF UploadDocument, AddVersion, AddJob
<1>39. ASSUME UploadFindsDuplicate PROVE Proceeds
  BY <1>39 DEF UploadFindsDuplicate
<1>40. ASSUME UploadVersion PROVE Proceeds
  BY <1>40 DEF UploadVersion, AddVersion, AddJob
<1>41. ASSUME RequestRetry PROVE Proceeds
  BY <1>41 DEF RequestRetry, AddJob
<1>42. ASSUME RequestReindex PROVE Proceeds
  BY <1>42 DEF RequestReindex
<1>43. ASSUME RequestDelete PROVE Proceeds
  BY <1>43 DEF RequestDelete, AddJob
<1>u. CASE UNCHANGED vars
  BY <1>u
<1> QED
  BY <1>u, <1>1, <1>2, <1>3, <1>4, <1>5, <1>6, <1>7, <1>8, <1>9, <1>10, <1>11, <1>12, <1>13,
       <1>14, <1>15, <1>16, <1>17, <1>18, <1>19, <1>20, <1>21, <1>22, <1>23, <1>24, <1>25,
       <1>26, <1>27, <1>28, <1>29, <1>30, <1>31, <1>32, <1>33, <1>34, <1>35, <1>36, <1>37,
       <1>38, <1>39, <1>40, <1>41, <1>42, <1>43
     DEF Next, Client, WorkerStep, WorkerFault, Recover

\* Where a worker that runs the pipeline after a step was before it.
LEMMA RunSteps ==
  ASSUME TypeOK, [Next]_vars, NEW w \in Workers, pc'[w] \in Running
  PROVE  /\ pc[w] \in Running \cup {"load"}
         /\ msg'[w] = msg[w]
         /\ LoadClaims(w) \/ (pc[w] \in Running /\ run'[w] = run[w])
         /\ pc'[w] \in After => pc[w] \in After \/ Activate(w)
<1>1. ASSUME NEW c \in Workers, Receive(c) PROVE UNCHANGED <<pc[w], msg[w], run[w]>>
  <2>1. c # w
    <3>1. PICK e \in Events :
            pc' = [pc EXCEPT ![c] = CASE e[1] = "ingest" -> "load"
                                      [] e[1] = "delete" -> "delete_read"
                                      [] e[1] = "cleanup" -> "cleanup"]
      BY <1>1 DEF Receive, TypeOK
    <3>2. e[1] \in {"ingest", "delete", "cleanup"}
      BY DEF Events
    <3> QED
      BY <3>1, <3>2 DEF TypeOK, Running, Before, Indexed, After, Failing, Stages
  <2> QED
    BY <1>1, <2>1 DEF Receive, TypeOK, contextVars
<1>2. CASE Proceeds
  BY <1>2
     DEF Proceeds, LoadClaims, Running, Before, Indexed, After, Failing, Stages, Deleting,
         DeleteSteps
<1> QED
  BY <1>1, <1>2, ProceedsStep DEF Running

-----------------------------------------------------------------------------
(* The register is inductive.                                               *)

LEMMA EventsKept ==
  ASSUME Basic, [Next]_vars, NEW e \in outbox'
  PROVE  /\ e[1] = "ingest" => e[2] \in IngestJobs'
         /\ e[1] = "delete" => e[2] \in DeleteJobs'
<1>t. TypeOK /\ EventsOfJobs
  BY DEF Basic
<1>1. NewJob \/ UNCHANGED <<nJobs, jKind, jVersion>>
  BY ZenonT(60), JobSteps DEF jobVars, LoadClaims, UpdateStage, StageReady, CompleteJob, FailJob,
       ScheduleRetry, DeleteCommit, RecoverActivated, RecoverExhausted, RecoverRequeues
<1>2. IngestJobs \subseteq IngestJobs' /\ DeleteJobs \subseteq DeleteJobs'
  <2>1. CASE UNCHANGED <<nJobs, jKind, jVersion>>
    BY <2>1 DEF IngestJobs, DeleteJobs
  <2>2. CASE NewJob
    BY <1>t, <2>2, Bounds DEF NewJob, AddJob, IngestJobs, DeleteJobs, TypeOK
  <2> QED
    BY <1>1, <2>1, <2>2
<1>3. CASE e \in outbox
  BY <1>t, <1>2, <1>3 DEF EventsOfJobs
<1>4. ASSUME NEW w \in Workers, e \notin outbox, Activate(w) \/ UndoIndexFails(w)
      PROVE  e[1] = "cleanup"
  BY <1>4 DEF Activate, UndoIndexFails, CleanupEvent, FailedCleanupEvent
<1>5. ASSUME NEW w \in Workers, e \notin outbox, ScheduleRetry(w)
      PROVE  e[1] = "ingest" /\ e[2] \in IngestJobs
  <2>1. JobOf(w) \in IngestJobs
    BY <1>5, IngestJob DEF ScheduleRetry, IngestSteps
  <2> QED
    BY <1>5, <2>1 DEF ScheduleRetry, IngestEvent
<1>6. ASSUME NEW j \in Jobs, e \notin outbox, RecoverRequeues(j)
      PROVE  e[1] = "ingest" /\ e[2] \in IngestJobs
  BY <1>6, <1>t, RecoveredJob DEF RecoverRequeues, IngestEvent
<1>7. ASSUME e \notin outbox, NewJob
      PROVE  /\ e[1] = "ingest" => e[2] \in IngestJobs'
             /\ e[1] = "delete" => e[2] \in DeleteJobs'
  BY <1>7, <1>t, BoundsAssumption
     DEF NewJob, AddJob, IngestEvent, DeleteEvent, IngestJobs, DeleteJobs, TypeOK, Jobs
<1> QED
  BY <1>2, <1>3, <1>4, <1>5, <1>6, <1>7, OutboxFrame, NewJobs

LEMMA BasicStep == Basic /\ [Next]_vars => Basic'
<1> SUFFICES ASSUME Basic, [Next]_vars PROVE Basic'
  OBVIOUS
<1>t. TypeOK /\ TypeOK' /\ WorkersHoldMessages /\ JobsOfVersions /\ DeleteJobsPlain
  BY TypingStep DEF Basic
<1>1. WorkersHoldMessages'
  <2>1. ASSUME NEW c \in Workers, Receive(c) PROVE WorkersHoldMessages'
    <3>1. PICK e \in broker :
            /\ msg' = [msg EXCEPT ![c] = e]
            /\ pc' = [pc EXCEPT ![c] = CASE e[1] = "ingest" -> "load"
                                       [] e[1] = "delete" -> "delete_read"
                                       [] e[1] = "cleanup" -> "cleanup"]
      BY <2>1 DEF Receive
    <3>2. e \in outbox /\ e[1] \in {"ingest", "delete", "cleanup"} /\ UNCHANGED outbox
      BY <1>t, <2>1, <3>1 DEF TypeOK, Events, Receive, eventVars
    <3> QED
      BY <1>t, <3>1, <3>2 DEF TypeOK, WorkersHoldMessages, IngestSteps, DeleteSteps
  <2>2. CASE Proceeds
    BY <1>t, <2>2 DEF Proceeds, WorkersHoldMessages, IngestSteps, DeleteSteps, Running,
         Before, Indexed, After, Failing, Stages, Deleting
  <2> QED
    BY <1>t, <2>1, <2>2, ProceedsStep
<1>2. EventsOfJobs'
  BY EventsKept DEF EventsOfJobs
<1>3. JobsOfVersions'
  <2>1. CASE UploadDocument \/ UploadVersion
    <3>1. AddVersion
      BY <2>1 DEF UploadDocument, UploadVersion
    <3>2. /\ nVersions' = nVersions + 1
          /\ nJobs' = nJobs + 1
          /\ jVersion' = [jVersion EXCEPT ![nJobs + 1] = nVersions + 1]
          /\ nJobs + 1 \in Jobs
      BY <1>t, <3>1, BoundsAssumption DEF AddVersion, AddJob, TypeOK, Jobs
    <3>3. nVersions \in Nat /\ nJobs \in Nat /\ jVersion \in [Jobs -> Versions \cup {None}]
      BY <1>t, BoundsAssumption DEF TypeOK
    <3>4. \A j \in 1..nJobs : jVersion'[j] = jVersion[j] /\ jVersion[j] \in 1..nVersions
      BY <1>t, <3>2, <3>3 DEF JobsOfVersions, Jobs, TypeOK
    <3>5. jVersion'[nJobs + 1] = nVersions + 1
      BY <3>2, <3>3
    <3>6. \A j \in 1..nJobs + 1 : j \in 1..nJobs \/ j = nJobs + 1
      BY <3>3
    <3>7. \A j \in 1..nJobs' : jVersion'[j] \in 1..nVersions'
      BY <3>2, <3>3, <3>4, <3>5, <3>6
    <3> QED
      BY <3>2, <3>3, <3>7 DEF JobsOfVersions
  <2>2. CASE ~(UploadDocument \/ UploadVersion)
    <3>1. nVersions' = nVersions
      <4>1. \A w \in Workers :
              UpdateStage(w) \/ Activate(w) \/ StageReady(w) \/ DeleteCommit(w)
              \/ RejectUnverified(w) \/ MarkFailed(w) => UNCHANGED nVersions
        BY DEF versionVars, UpdateStage, Activate, StageReady, DeleteCommit, RejectUnverified,
               MarkFailed, FailVersion
      <4>2. \A j \in Jobs : RecoverExhausted(j) => UNCHANGED nVersions
        BY DEF versionVars, RecoverExhausted, FailVersion
      <4>3. RequestRetry \/ RequestDelete => UNCHANGED nVersions
        BY DEF versionVars, RequestRetry, RequestDelete
      <4>4. UNCHANGED <<docVars, versionVars>> => UNCHANGED nVersions
        BY DEF versionVars
      <4> QED
        BY <2>2, <4>1, <4>2, <4>3, <4>4, DocumentFrame, ZenonT(60)
    <3>2. ASSUME NEW j \in 1..nJobs' PROVE jVersion'[j] \in 1..nVersions
      <4>1. CASE UNCHANGED <<nJobs, jVersion>>
        BY <1>t, <4>1 DEF JobsOfVersions
      <4>2. ASSUME NEW kind, NEW e, AddJob(kind, nVersions, e), nVersions > 0
            PROVE  jVersion'[j] \in 1..nVersions
        BY <1>t, <4>2, BoundsAssumption DEF AddJob, TypeOK, Jobs, JobsOfVersions
      <4>3. CASE RequestRetry \/ RequestDelete
        BY <1>t, <4>2, <4>3 DEF RequestRetry, RequestDelete, JobsOfVersions
      <4> QED
        BY ZenonT(60), <2>2, <4>1, <4>3, JobFrame
           DEF jobVars, LoadClaims, UpdateStage, StageReady, CompleteJob, FailJob,
               ScheduleRetry, DeleteCommit, Recover, RecoverActivated, RecoverExhausted,
               RecoverRequeues
    <3>3. ASSUME docStatus' # "none" PROVE nVersions > 0
      <4>1. ASSUME NEW w \in Workers, pc[w] \in IngestSteps \cup DeleteSteps
            PROVE  nVersions > 0
        <5>1. JobOf(w) \in 1..nJobs
          BY <4>1, IngestJob, DeleteJob DEF DeleteJobs
        <5> QED
          BY <1>t, <5>1 DEF JobsOfVersions, TypeOK
      <4>2. ASSUME NEW j \in Jobs, RecoverExhausted(j) PROVE nVersions > 0
        BY <1>t, <4>2 DEF RecoverExhausted, Recoverable, JobsOfVersions, TypeOK
      <4>3. ASSUME NEW w \in Workers,
                   \/ UpdateStage(w) \/ Activate(w) \/ StageReady(w) \/ DeleteCommit(w)
                   \/ RejectUnverified(w) \/ MarkFailed(w)
            PROVE  nVersions > 0
        BY <4>1, <4>3
           DEF UpdateStage, Activate, StageReady, DeleteCommit, RejectUnverified, MarkFailed,
               IngestSteps, DeleteSteps, Running, Stages, Before, Indexed, After, Failing,
               Deleting
      <4>4. CASE RequestRetry \/ RequestDelete
        BY <1>t, <4>4 DEF RequestRetry, RequestDelete, JobsOfVersions
      <4>5. CASE UNCHANGED docVars
        BY <1>t, <3>3, <4>5 DEF docVars, JobsOfVersions
      <4> QED
        BY <2>2, <4>2, <4>3, <4>4, <4>5, DocumentFrame
    <3> QED
      BY <3>1, <3>2, <3>3 DEF JobsOfVersions
  <2> QED
    BY <2>1, <2>2
<1>4. DeleteJobsPlain'
  <2>1. CASE UNCHANGED jobVars
    BY <1>t, <2>1 DEF jobVars, DeleteJobsPlain, DeleteJobs
  <2>2. ASSUME NEW i \in IngestJobs, UNCHANGED <<nJobs, jKind>>,
               \A j \in Jobs : j # i => jStatus'[j] = jStatus[j]
        PROVE  DeleteJobsPlain'
    BY <1>t, <2>2, Bounds DEF DeleteJobsPlain, DeleteJobs, IngestJobs
  <2>3. ASSUME NEW w \in Workers,
               \/ LoadClaims(w) \/ UpdateStage(w) \/ StageReady(w) \/ CompleteJob(w)
               \/ FailJob(w) \/ ScheduleRetry(w)
        PROVE  DeleteJobsPlain'
    <3>1. JobOf(w) \in IngestJobs
      BY <2>3, IngestJob
         DEF LoadClaims, UpdateStage, StageReady, CompleteJob, FailJob, ScheduleRetry,
             IngestSteps, Running, Stages, Before, Indexed, After, Failing
    <3>2. UNCHANGED <<nJobs, jKind>>
      BY <2>3 DEF LoadClaims, UpdateStage, StageReady, CompleteJob, FailJob, ScheduleRetry
    <3>3. \A j \in Jobs : j # JobOf(w) => jStatus'[j] = jStatus[j]
      BY <1>t, <2>3
         DEF TypeOK, LoadClaims, UpdateStage, StageReady, CompleteJob, FailJob, ScheduleRetry
    <3> QED
      BY <2>2, <3>1, <3>2, <3>3
  <2>4. ASSUME NEW w \in Workers, DeleteCommit(w) PROVE DeleteJobsPlain'
    BY <1>t, <2>4, Bounds DEF DeleteCommit, DeleteJobsPlain, DeleteJobs, TypeOK
  <2>5. ASSUME NEW i \in Jobs, RecoverActivated(i) \/ RecoverExhausted(i) \/ RecoverRequeues(i)
        PROVE  DeleteJobsPlain'
    <3>1. i \in IngestJobs
      BY <2>5, RecoveredJob DEF RecoverActivated, RecoverExhausted, RecoverRequeues
    <3>2. /\ UNCHANGED <<nJobs, jKind>>
          /\ \A j \in Jobs : j # i => jStatus'[j] = jStatus[j]
      BY <1>t, <2>5 DEF TypeOK, RecoverActivated, RecoverExhausted, RecoverRequeues
    <3> QED
      BY <2>2, <3>1, <3>2
  <2>6. CASE NewJob
    <3>1. /\ nJobs' = nJobs + 1
          /\ jStatus'[nJobs + 1] = "pending"
          /\ \A j \in 1..nJobs : jKind'[j] = jKind[j] /\ jStatus'[j] = jStatus[j]
      BY <1>t, <2>6, Bounds, BoundsAssumption DEF NewJob, AddJob, TypeOK, Jobs
    <3>2. nJobs \in Nat /\ \A j \in 1..nJobs + 1 : j \in 1..nJobs \/ j = nJobs + 1
      BY <1>t DEF TypeOK, Jobs
    <3> SUFFICES ASSUME NEW j \in 1..nJobs + 1, jKind'[j] = "delete"
                 PROVE  jStatus'[j] \in {"pending", "succeeded"}
      BY <3>1 DEF DeleteJobsPlain, DeleteJobs
    <3>3. CASE j \in 1..nJobs
      BY <1>t, <3>1, <3>3 DEF DeleteJobsPlain, DeleteJobs
    <3> QED
      BY <3>1, <3>2, <3>3
  <2> QED
    BY <2>1, <2>3, <2>4, <2>5, <2>6, JobSteps
<1> QED
  BY <1>t, <1>1, <1>2, <1>3, <1>4 DEF Basic

-----------------------------------------------------------------------------
\* A job not inserted yet has not been attempted.
FreshJobs == \A j \in Jobs \ (1..nJobs) : attempt[j] = 0

LEMMA FreshStep == Basic /\ FreshJobs /\ [Next]_vars => FreshJobs'
<1> SUFFICES ASSUME Basic, FreshJobs, [Next]_vars PROVE FreshJobs'
  OBVIOUS
<1>t. TypeOK
  BY DEF Basic
<1> USE <1>t DEF FreshJobs, TypeOK
<1>1. CASE UNCHANGED jobVars
  BY <1>1 DEF jobVars
<1>2. ASSUME NEW w \in Workers, ScheduleRetry(w) PROVE FreshJobs'
  <2>1. JobOf(w) \in 1..nJobs
    BY <1>2, IngestJob DEF ScheduleRetry, IngestSteps
  <2> QED
    BY <1>2, <2>1 DEF ScheduleRetry
<1>3. ASSUME NEW j \in Jobs, RecoverExhausted(j) \/ RecoverRequeues(j) PROVE FreshJobs'
  BY <1>3 DEF RecoverExhausted, RecoverRequeues, Recoverable
<1>4. CASE NewJob
  BY <1>4 DEF NewJob, AddJob
<1>5. UNCHANGED <<attempt, nJobs>> => FreshJobs'
  OBVIOUS
<1> QED
  BY ZenonT(60), <1>1, <1>2, <1>3, <1>4, <1>5, JobSteps
     DEF LoadClaims, UpdateStage, StageReady, CompleteJob, FailJob, DeleteCommit,
         RecoverActivated

LEMMA WaitingStep ==
  Basic /\ FreshJobs /\ WaitingJobHasEvent /\ [Next]_vars => WaitingJobHasEvent'
<1> SUFFICES ASSUME Basic, FreshJobs, WaitingJobHasEvent, [Next]_vars PROVE WaitingJobHasEvent'
  OBVIOUS
<1>t. TypeOK
  BY DEF Basic
<1>o. outbox \subseteq outbox'
  BY <1>t, ProceedsStep DEF Proceeds, Receive, eventVars
<1> DEFINE EventOf(j) == IF jKind[j] = "delete" THEN DeleteEvent(j)
                                               ELSE IngestEvent(j, attempt[j])
<1>s. ASSUME UNCHANGED <<nJobs, jKind, attempt>>,
             \A j \in Jobs : jStatus'[j] \in Waiting => jStatus[j] \in Waiting
      PROVE  WaitingJobHasEvent'
  BY <1>s, <1>o, <1>t, Bounds DEF WaitingJobHasEvent, Waiting, DeleteEvent, IngestEvent
<1>1. CASE UNCHANGED jobVars
  BY <1>1, <1>s DEF jobVars
<1>2. ASSUME NEW w \in Workers,
             \/ LoadClaims(w) \/ UpdateStage(w) \/ StageReady(w) \/ CompleteJob(w)
             \/ FailJob(w) \/ DeleteCommit(w)
      PROVE  WaitingJobHasEvent'
  BY <1>2, <1>s, <1>t
     DEF LoadClaims, UpdateStage, StageReady, CompleteJob, FailJob, DeleteCommit, TypeOK,
         Waiting
<1>3. ASSUME NEW w \in Workers, ScheduleRetry(w) PROVE WaitingJobHasEvent'
  <2>1. JobOf(w) \in IngestJobs /\ JobOf(w) \in Jobs
    BY <1>3, IngestJob DEF ScheduleRetry, IngestSteps
  <2>2. CASE UNCHANGED <<jStatus, attempt>>
    BY <1>3, <1>s, <2>2 DEF ScheduleRetry
  <2>3. CASE /\ jStatus' = [jStatus EXCEPT ![JobOf(w)] = "failed"]
             /\ UNCHANGED attempt
    BY <1>3, <1>s, <1>t, <2>3 DEF ScheduleRetry, TypeOK, Waiting
  <2>4. CASE /\ attempt' = [attempt EXCEPT ![JobOf(w)] = @ + 1]
             /\ jStatus' = [jStatus EXCEPT ![JobOf(w)] = "retry_wait"]
             /\ outbox' = outbox \cup {IngestEvent(JobOf(w), attempt[JobOf(w)] + 1)}
    <3> SUFFICES ASSUME NEW j \in 1..nJobs, jStatus'[j] \in Waiting
                 PROVE  EventOf(j)' \in outbox'
      BY <1>3 DEF ScheduleRetry, WaitingJobHasEvent, Waiting, DeleteEvent, IngestEvent
    <3>1. CASE j = JobOf(w)
      BY <1>3, <1>t, <2>1, <2>4, <3>1 DEF ScheduleRetry, TypeOK, IngestJobs, IngestEvent
    <3>2. CASE j # JobOf(w)
      BY <1>3, <1>t, <2>1, <2>4, <3>2, Bounds
         DEF ScheduleRetry, TypeOK, IngestEvent, DeleteEvent, WaitingJobHasEvent, Waiting
    <3> QED
      BY <3>1, <3>2
  <2> QED
    BY <1>3, <2>2, <2>3, <2>4 DEF ScheduleRetry
<1>4. ASSUME NEW i \in Jobs, RecoverRequeues(i) PROVE WaitingJobHasEvent'
  <2>1. jKind[i] # "delete"
    BY <1>4, <1>t
       DEF RecoverRequeues, Recoverable, Stale, Basic, EventsOfJobs, DeleteJobsPlain,
           IngestJobs, DeleteJobs, TypeOK
  <2> SUFFICES ASSUME NEW j \in 1..nJobs, jStatus'[j] \in Waiting
               PROVE  EventOf(j)' \in outbox'
    BY <1>4 DEF RecoverRequeues, WaitingJobHasEvent, Waiting, DeleteEvent, IngestEvent
  <2>2. CASE j = i
    BY <1>4, <1>t, <2>1, <2>2 DEF RecoverRequeues, TypeOK, IngestEvent
  <2>3. CASE j # i
    BY <1>4, <1>t, <2>3, Bounds
       DEF RecoverRequeues, TypeOK, IngestEvent, DeleteEvent, WaitingJobHasEvent, Waiting
  <2> QED
    BY <2>2, <2>3
<1>5. ASSUME NEW i \in Jobs, RecoverActivated(i) PROVE WaitingJobHasEvent'
  BY <1>5, <1>s, <1>t DEF RecoverActivated, TypeOK, Waiting
<1>6. ASSUME NEW i \in Jobs, RecoverExhausted(i) PROVE WaitingJobHasEvent'
  <2> SUFFICES ASSUME NEW j \in 1..nJobs, jStatus'[j] \in Waiting
               PROVE  EventOf(j)' \in outbox'
    BY <1>6 DEF RecoverExhausted, WaitingJobHasEvent, Waiting, DeleteEvent, IngestEvent
  <2>1. j # i
    BY <1>6, <1>t DEF RecoverExhausted, TypeOK, Waiting
  <2> QED
    BY <1>6, <1>t, <1>o, <2>1, Bounds
       DEF RecoverExhausted, TypeOK, IngestEvent, DeleteEvent, WaitingJobHasEvent, Waiting
<1>7. CASE NewJob
  <2> SUFFICES ASSUME NEW j \in 1..nJobs', jStatus'[j] \in Waiting
               PROVE  EventOf(j)' \in outbox'
    BY DEF WaitingJobHasEvent, Waiting, DeleteEvent, IngestEvent
  <2>1. CASE j = nJobs + 1
    BY <1>7, <1>t, <2>1, BoundsAssumption
       DEF NewJob, AddJob, FreshJobs, Jobs, TypeOK, IngestEvent, DeleteEvent
  <2>2. CASE j # nJobs + 1
    BY <1>7, <1>t, <1>o, <2>2, Bounds
       DEF NewJob, AddJob, Jobs, TypeOK, IngestEvent, DeleteEvent, WaitingJobHasEvent, Waiting
  <2> QED
    BY <2>1, <2>2
<1> QED
  BY <1>1, <1>2, <1>3, <1>4, <1>5, <1>6, <1>7, JobSteps

-----------------------------------------------------------------------------
\* Once a version was activated the document has an active one, an active
\* version was activated, and so was the version of a run past activation.
ServedInv ==
  /\ active # None => active \in readyAt
  /\ readyAt # {} => active # None
  /\ \A w \in Workers : pc[w] \in After => VersionOf(w) \in readyAt

LEMMA ServedStep ==
  Basic /\ ServedInv /\ SucceededWasActivated /\ StatusMatchesActive /\ [Next]_vars =>
    ServedInv' /\ SucceededWasActivated' /\ StatusMatchesActive'
<1> SUFFICES ASSUME Basic, ServedInv, SucceededWasActivated, StatusMatchesActive, [Next]_vars
             PROVE ServedInv' /\ SucceededWasActivated' /\ StatusMatchesActive'
  OBVIOUS
<1>t. TypeOK
  BY DEF Basic
<1>1. /\ active' # None => active' \in readyAt'
      /\ readyAt' # {} => active' # None
      /\ readyAt \subseteq readyAt'
      /\ \A w \in Workers : Activate(w) => VersionOf(w) \in readyAt'
  <2>1. ASSUME NEW w \in Workers, Activate(w)
        PROVE  /\ active' = VersionOf(w)
               /\ active' # None
               /\ readyAt' = readyAt \cup {VersionOf(w)}
    <3>1. VersionOf(w) \in Versions
      BY <2>1, IngestJob DEF Activate, IngestSteps, Running, Indexed
    <3> QED
      BY <2>1, <3>1 DEF Activate, Versions, None
  <2>2. (\A w \in Workers : ~Activate(w)) => UNCHANGED <<active, readyAt>>
    <3>1. \A v : FailVersion(v) => UNCHANGED <<active, readyAt>>
      BY DEF FailVersion
    <3>2. AddVersion => UNCHANGED <<active, readyAt>>
      BY DEF AddVersion
    <3> QED
      BY DocumentFrame, <3>1, <3>2
         DEF docVars, versionVars, UpdateStage, StageReady, DeleteCommit, RejectUnverified,
             MarkFailed, RecoverExhausted, UploadDocument, UploadVersion, RequestRetry,
             RequestDelete
  <2> QED
    BY <2>1, <2>2 DEF ServedInv
<1>2. ASSUME NEW w \in Workers, pc'[w] \in After PROVE VersionOf(w)' \in readyAt'
  <2>1. pc'[w] \in Running
    BY <1>2 DEF Running
  <2>2. msg'[w] = msg[w] /\ pc[w] \in Running \cup {"load"} /\ (pc[w] \in After \/ Activate(w))
    BY <1>2, <1>t, <2>1, RunSteps
  <2>3. JobOf(w) \in 1..nJobs
    BY <2>2, IngestJob DEF IngestSteps
  <2>4. jVersion'[JobOf(w)] = jVersion[JobOf(w)]
    <3>1. NewJob => jVersion'[JobOf(w)] = jVersion[JobOf(w)]
      BY <1>t, <2>3, Bounds DEF NewJob, AddJob, TypeOK
    <3>2. NewJob \/ UNCHANGED jVersion
      BY ZenonT(60), JobSteps
         DEF jobVars, LoadClaims, UpdateStage, StageReady, CompleteJob, FailJob, ScheduleRetry,
           DeleteCommit, RecoverActivated, RecoverExhausted, RecoverRequeues
    <3> QED
      BY <3>1, <3>2
  <2> QED
    BY <1>1, <2>2, <2>4 DEF ServedInv, VersionOf, JobOf
<1>3. ServedInv'
  BY <1>1, <1>2 DEF ServedInv
<1>4. SucceededWasActivated'
  <2> DEFINE Kept ==
        \A j \in 1..nJobs :
          /\ jKind'[j] = jKind[j]
          /\ jVersion'[j] = jVersion[j]
          /\ jStatus'[j] = "succeeded" /\ jKind[j] # "delete" =>
               jStatus[j] = "succeeded" \/ jVersion[j] \in readyAt
  <2>1. CASE UNCHANGED jobVars
    BY <1>1, <2>1 DEF SucceededWasActivated, jobVars
  <2>2. ASSUME NEW w \in Workers, CompleteJob(w) PROVE Kept /\ UNCHANGED nJobs
    <3>1. VersionOf(w) \in readyAt
      BY <2>2 DEF CompleteJob, ServedInv, After
    <3> QED
      BY <1>t, <2>2, <3>1, Bounds DEF CompleteJob, TypeOK, VersionOf, JobOf
  <2>3. ASSUME NEW w \in Workers, DeleteCommit(w) PROVE Kept /\ UNCHANGED nJobs
    <3>1. jKind[JobOf(w)] = "delete"
      BY <2>3, DeleteJob DEF DeleteCommit, DeleteSteps, Deleting, DeleteJobs
    <3> QED
      BY <1>t, <2>3, <3>1, Bounds DEF DeleteCommit, TypeOK
  <2>4. ASSUME NEW i \in Jobs, RecoverActivated(i) PROVE Kept /\ UNCHANGED nJobs
    <3>1. jVersion[i] \in readyAt
      BY <1>t, <2>4, Bounds
         DEF RecoverActivated, Recoverable, Activated, ServedInv, TypeOK, Basic,
             JobsOfVersions, Versions, None
    <3> QED
      BY <1>t, <2>4, <3>1, Bounds DEF RecoverActivated, TypeOK
  <2>5. ASSUME NEW w \in Workers,
               \/ LoadClaims(w) \/ UpdateStage(w) \/ StageReady(w) \/ FailJob(w)
               \/ ScheduleRetry(w)
        PROVE  Kept /\ UNCHANGED nJobs
    BY <1>t, <2>5, Bounds
       DEF LoadClaims, UpdateStage, StageReady, FailJob, ScheduleRetry, TypeOK
  <2>6. ASSUME NEW i \in Jobs, RecoverExhausted(i) \/ RecoverRequeues(i)
        PROVE  Kept /\ UNCHANGED nJobs
    BY <1>t, <2>6, Bounds DEF RecoverExhausted, RecoverRequeues, TypeOK
  <2>7. CASE NewJob
    <3>1. /\ nJobs' = nJobs + 1
          /\ jStatus'[nJobs + 1] = "pending"
          /\ \A j \in 1..nJobs : /\ jKind'[j] = jKind[j]
                                /\ jVersion'[j] = jVersion[j]
                                /\ jStatus'[j] = jStatus[j]
      BY <1>t, <2>7, Bounds, BoundsAssumption DEF NewJob, AddJob, TypeOK, Jobs
    <3> QED
      BY <1>1, <1>t, <3>1 DEF SucceededWasActivated, TypeOK
  <2>8. Kept /\ UNCHANGED nJobs => SucceededWasActivated'
    BY <1>1 DEF SucceededWasActivated
  <2> QED
    BY <2>1, <2>2, <2>3, <2>4, <2>5, <2>6, <2>7, <2>8, JobSteps
<1>5. StatusMatchesActive'
  <2>1. CASE UNCHANGED docVars
    BY <2>1 DEF StatusMatchesActive, docVars
  <2>2. ASSUME NEW w \in Workers, UpdateStage(w) \/ DeleteCommit(w) PROVE StatusMatchesActive'
    BY <2>2 DEF StatusMatchesActive, UpdateStage, DeleteCommit
  <2>3. ASSUME NEW w \in Workers, Activate(w) \/ StageReady(w) PROVE StatusMatchesActive'
    <3>1. active' # None
      BY <1>1, <1>t, <2>3 DEF Activate, StageReady, ServedInv, After
    <3> QED
      BY <2>3, <3>1 DEF StatusMatchesActive, Activate, StageReady
  <2>4. ASSUME NEW v, FailVersion(v) PROVE StatusMatchesActive'
    BY <2>4 DEF FailVersion, StatusMatchesActive
  <2>5. CASE UploadDocument \/ UploadVersion \/ RequestRetry \/ RequestDelete
    BY <2>5
       DEF UploadDocument, UploadVersion, AddVersion, RequestRetry, RequestDelete,
           StatusMatchesActive
  <2> QED
    BY <2>1, <2>2, <2>3, <2>4, <2>5, DocumentFrame
       DEF RejectUnverified, MarkFailed, RecoverExhausted
<1> QED
  BY <1>3, <1>4, <1>5

-----------------------------------------------------------------------------
\* A job that may be claimed has attempts left or is at its last.
AttemptsBounded == \A j \in Jobs : jStatus[j] \in Waiting => attempt[j] <= MaxAttempts

LEMMA AttemptsStep ==
  Basic /\ FreshJobs /\ AttemptsBounded /\ RunsBounded /\ [Next]_vars =>
    AttemptsBounded' /\ RunsBounded'
<1> SUFFICES ASSUME Basic, FreshJobs, AttemptsBounded, RunsBounded, [Next]_vars
             PROVE  AttemptsBounded' /\ RunsBounded'
  OBVIOUS
<1>t. TypeOK
  BY DEF Basic
<1>1. AttemptsBounded'
  <2> USE <1>t, BoundsAssumption DEF AttemptsBounded, TypeOK, Waiting
  <2>1. CASE UNCHANGED jobVars
    BY <2>1 DEF jobVars
  <2>2. ASSUME NEW w \in Workers,
               \/ LoadClaims(w) \/ UpdateStage(w) \/ StageReady(w) \/ CompleteJob(w)
             \/ FailJob(w) \/ DeleteCommit(w)
        PROVE  AttemptsBounded'
    BY <2>2 DEF LoadClaims, UpdateStage, StageReady, CompleteJob, FailJob, DeleteCommit
  <2>3. ASSUME NEW w \in Workers, ScheduleRetry(w) PROVE AttemptsBounded'
    BY <2>3 DEF ScheduleRetry, Exhausted
  <2>4. ASSUME NEW i \in Jobs, RecoverActivated(i) \/ RecoverExhausted(i) \/ RecoverRequeues(i)
        PROVE  AttemptsBounded'
    BY <2>4 DEF RecoverActivated, RecoverExhausted, RecoverRequeues
  <2>5. CASE NewJob
    BY <2>5 DEF NewJob, AddJob, FreshJobs, Jobs
  <2> QED
    BY <2>1, <2>2, <2>3, <2>4, <2>5, JobSteps
<1>2. ASSUME NEW w \in Workers PROVE run'[w] <= MaxAttempts
  <2>1. CASE LoadClaims(w)
    <3>1. JobOf(w) \in Jobs
      BY <2>1, IngestJob DEF LoadClaims, IngestSteps
    <3> QED
      BY <1>t, <2>1, <3>1 DEF LoadClaims, Claimable, AttemptsBounded, Waiting, TypeOK
  <2>2. CASE run'[w] = run[w] \/ run'[w] = 0
    BY <2>2, BoundsAssumption DEF RunsBounded
  <2>3. (\E c \in Workers : Receive(c)) => run'[w] = run[w]
    BY DEF Receive, contextVars
  <2> QED
    BY <1>t, <2>1, <2>2, <2>3, ProceedsStep DEF Proceeds
<1> QED
  BY <1>1, <1>2 DEF RunsBounded

-----------------------------------------------------------------------------
\* A run was claimed at an attempt the job has reached, and while that is its
\* current attempt nobody can claim the job.
ClaimsCurrent ==
  \A w \in Workers :
    pc[w] \in Running => /\ run[w] <= attempt[JobOf(w)]
                         /\ run[w] = attempt[JobOf(w)] => jStatus[JobOf(w)] \notin Waiting

LEMMA ClaimsStep ==
  Basic /\ ClaimsCurrent /\ OneRunPerAttempt /\ [Next]_vars =>
    ClaimsCurrent' /\ OneRunPerAttempt'
<1> SUFFICES ASSUME Basic, ClaimsCurrent, OneRunPerAttempt, [Next]_vars
             PROVE  ClaimsCurrent' /\ OneRunPerAttempt'
  OBVIOUS
<1>t. TypeOK
  BY DEF Basic
<1>r. ASSUME NEW w \in Workers, pc'[w] \in Running
      PROVE  /\ JobOf(w)' = JobOf(w)
             /\ JobOf(w) \in Jobs /\ JobOf(w) \in 1..nJobs
             /\ LoadClaims(w) \/ (pc[w] \in Running /\ run'[w] = run[w])
  BY <1>r, <1>t, RunSteps, IngestJob DEF JobOf, IngestSteps
<1>1. ASSUME NEW j \in 1..nJobs
      PROVE  /\ attempt'[j] >= attempt[j]
             /\ attempt'[j] = attempt[j] /\ jStatus'[j] \in Waiting => jStatus[j] \in Waiting
  <2>t. j \in Jobs
    BY <1>t, Bounds
  <2> USE <1>t, <2>t DEF TypeOK, Waiting
  <2>1. CASE UNCHANGED jobVars
    BY <2>1 DEF jobVars
  <2>2. ASSUME NEW w \in Workers,
               \/ LoadClaims(w) \/ UpdateStage(w) \/ StageReady(w) \/ CompleteJob(w)
             \/ FailJob(w) \/ DeleteCommit(w)
        PROVE  <1>1!2
    BY <2>2 DEF LoadClaims, UpdateStage, StageReady, CompleteJob, FailJob, DeleteCommit
  <2>3. ASSUME NEW w \in Workers, ScheduleRetry(w) PROVE <1>1!2
    BY <2>3 DEF ScheduleRetry
  <2>4. ASSUME NEW i \in Jobs, RecoverActivated(i) \/ RecoverExhausted(i) \/ RecoverRequeues(i)
        PROVE  <1>1!2
    BY <2>4 DEF RecoverActivated, RecoverExhausted, RecoverRequeues
  <2>5. CASE NewJob
    BY <2>5 DEF NewJob, AddJob
  <2> QED
    BY <2>1, <2>2, <2>3, <2>4, <2>5, JobSteps
<1>2. ASSUME NEW w \in Workers, LoadClaims(w)
      PROVE  /\ jStatus[JobOf(w)] \in Waiting
             /\ jStatus'[JobOf(w)] \notin Waiting
             /\ run'[w] = attempt[JobOf(w)]
             /\ attempt' = attempt
             /\ \A c \in Workers : c # w => run'[c] = run[c]
  <2>1. JobOf(w) \in Jobs
    BY <1>2, IngestJob DEF LoadClaims, IngestSteps
  <2> QED
    BY <1>2, <1>t, <2>1 DEF LoadClaims, Claimable, TypeOK, Waiting
<1>3. ClaimsCurrent'
  <2> SUFFICES ASSUME NEW w \in Workers, pc'[w] \in Running
               PROVE  /\ run'[w] <= attempt'[JobOf(w)]
                      /\ run'[w] = attempt'[JobOf(w)] => jStatus'[JobOf(w)] \notin Waiting
    BY <1>r DEF ClaimsCurrent, JobOf
  <2>1. CASE LoadClaims(w)
    BY <1>2, <1>r, <1>t, <2>1 DEF TypeOK
  <2>2. CASE pc[w] \in Running /\ run'[w] = run[w]
    <3>1. /\ attempt[JobOf(w)] \in Nat /\ run[w] \in Nat
      BY <1>r, <1>t DEF TypeOK
    <3>2. attempt'[JobOf(w)] \in Nat
      BY <1>r, <1>t, TypingStep DEF TypeOK
    <3> QED
      BY <1>1, <1>r, <2>2, <3>1, <3>2 DEF ClaimsCurrent
  <2> QED
    BY <1>r, <2>1, <2>2
<1>4. OneRunPerAttempt'
  <2> SUFFICES ASSUME NEW w \in Workers, NEW c \in Workers, w # c,
                      pc'[w] \in Running, pc'[c] \in Running,
                      JobOf(w) = JobOf(c), run'[w] = run'[c]
               PROVE  FALSE
    BY <1>r DEF OneRunPerAttempt, RunOf
  <2>1. ASSUME NEW x \in Workers, NEW y \in Workers, x # y, pc'[y] \in Running,
               JobOf(x) = JobOf(y), run'[x] = run'[y], LoadClaims(x)
        PROVE  FALSE
    <3>1. ~LoadClaims(y)
      BY <1>2, <1>t, <2>1 DEF LoadClaims, TypeOK
    <3> QED
      BY <1>2, <1>r, <2>1, <3>1 DEF ClaimsCurrent
  <2>2. CASE pc[w] \in Running /\ pc[c] \in Running /\ run'[w] = run[w] /\ run'[c] = run[c]
    BY <2>2 DEF OneRunPerAttempt, RunOf
  <2> QED
    BY <1>r, <2>1, <2>2
<1> QED
  BY <1>3, <1>4

-----------------------------------------------------------------------------
(* The inductive invariant and the theorems.                                *)

Inv ==
  /\ Basic
  /\ FreshJobs
  /\ WaitingJobHasEvent
  /\ ServedInv
  /\ SucceededWasActivated
  /\ StatusMatchesActive
  /\ AttemptsBounded
  /\ RunsBounded
  /\ ClaimsCurrent
  /\ OneRunPerAttempt

LEMMA InitInv == Init => Inv
<1> SUFFICES ASSUME Init PROVE Inv
  OBVIOUS
<1>1. TypeOK
  <2>1. /\ docStatus \in DocStatuses
        /\ active \in Versions \cup {None}
        /\ nVersions \in 0..MaxVersions
        /\ vStatus \in [Versions -> VersionStatuses]
    BY BoundsAssumption DEF Init, DocStatuses, VersionStatuses
  <2>2. deletedAt \in BOOLEAN /\ uploading \in BOOLEAN
    BY Zenon DEF Init
  <2>3. /\ readyAt \subseteq Versions
        /\ chunks \in [Versions -> Runs \cup {NoRun}]
        /\ index \in [Versions -> SUBSET Runs]
        /\ files \subseteq Versions
    BY DEF Init
  <2>4. /\ nJobs \in 0..MaxJobs
        /\ jKind \in [Jobs -> JobKinds]
        /\ jVersion \in [Jobs -> Versions \cup {None}]
        /\ jStatus \in [Jobs -> JobStatuses]
        /\ jCode \in [Jobs -> Codes]
        /\ attempt \in [Jobs -> Nat]
    BY BoundsAssumption DEF Init, JobKinds, JobStatuses, Codes
  <2>5. /\ pc \in [Workers -> Steps]
        /\ msg \in [Workers -> Events \cup {NoMsg}]
        /\ run \in [Workers -> Nat]
        /\ prev \in [Workers -> Versions \cup {None}]
        /\ code \in [Workers -> Codes]
        /\ todo \in [Workers -> SUBSET Versions]
        /\ seen \in [Workers -> SUBSET Versions]
        /\ faults \in 0..MaxFaults
    BY BoundsAssumption DEF Init, Steps, Codes
  <2> QED
    BY <2>1, <2>2, <2>3, <2>4, <2>5 DEF Init, TypeOK
<1>2. WorkersHoldMessages /\ EventsOfJobs /\ JobsOfVersions /\ DeleteJobsPlain
  BY DEF Init, WorkersHoldMessages, EventsOfJobs, JobsOfVersions, DeleteJobsPlain, DeleteJobs
<1>3. FreshJobs /\ AttemptsBounded /\ RunsBounded
  BY BoundsAssumption DEF Init, FreshJobs, AttemptsBounded, RunsBounded, Waiting
<1>4. WaitingJobHasEvent /\ SucceededWasActivated /\ StatusMatchesActive
  BY DEF Init, WaitingJobHasEvent, SucceededWasActivated, StatusMatchesActive
<1>5. ServedInv /\ ClaimsCurrent /\ OneRunPerAttempt
  BY DEF Init, ServedInv, ClaimsCurrent, OneRunPerAttempt, Running, Before, Indexed, After,
     Failing
<1> QED
  BY <1>1, <1>2, <1>3, <1>4, <1>5 DEF Inv, Basic

LEMMA Invariance == Spec => []Inv
<1>1. Inv /\ [Next]_vars => Inv'
  BY BasicStep, FreshStep, WaitingStep, ServedStep, AttemptsStep, ClaimsStep DEF Inv
<1> QED
  BY InitInv, <1>1, PTL DEF Spec

\* Every variable keeps its type, whatever crashes, is lost or is repeated.
THEOREM Typing == Spec => []TypeOK
<1>1. Inv => TypeOK
  BY DEF Inv, Basic
<1> QED
  BY <1>1, Invariance, PTL

\* A job that waits to run always has the event of its current attempt in the
\* outbox: uploads, retries, schedule_retry and recovery write both at once.
THEOREM WaitingJobsHaveEvents == Spec => []WaitingJobHasEvent
<1>1. Inv => WaitingJobHasEvent
  BY DEF Inv
<1> QED
  BY <1>1, Invariance, PTL

\* A job reported as succeeded has activated its version, also when recovery
\* records the success of a run that died (complete_job, recover_stale_jobs).
THEOREM SucceededJobsWereActivated == Spec => []SucceededWasActivated
<1>1. Inv => SucceededWasActivated
  BY DEF Inv
<1> QED
  BY <1>1, Invariance, PTL

\* A document shown as ready has an active version and one shown as failed has
\* none, whatever runs fail after which activation (mark_failed, recovery).
THEOREM StatusFollowsActive == Spec => []StatusMatchesActive
<1>1. Inv => StatusMatchesActive
  BY DEF Inv
<1> QED
  BY <1>1, Invariance, PTL

\* schedule_retry and recovery together never start a job beyond max_attempts.
THEOREM RunsAreBounded == Spec => []RunsBounded
<1>1. Inv => RunsBounded
  BY DEF Inv
<1> QED
  BY <1>1, Invariance, PTL

\* One attempt of a job is never executed by two workers, even when recovery
\* takes live jobs for stale and messages are repeated (load_context's claim).
THEOREM OneRunForEachAttempt == Spec => []OneRunPerAttempt
<1>1. Inv => OneRunPerAttempt
  BY DEF Inv
<1> QED
  BY <1>1, Invariance, PTL

-----------------------------------------------------------------------------
(* Deletion.                                                                *)

\* A deleted document has its deleted_at, and no upload is under way.
DeletedInv ==
  /\ docStatus = "deleted" => deletedAt
  /\ ~uploading

\* Without concurrent uploads, a document that is being deleted only moves to
\* deleted and keeps its active version: the deletion checks of update_stage,
\* activate, mark_failed, recovery and the client requests suffice.
THEOREM DeletionStands == ASSUME "upload" \notin Api PROVE Spec => DeletionIsFinal
<1>1. Init => DeletedInv
  BY DEF Init, DeletedInv
<1>2. ASSUME DeletedInv, [Next]_vars PROVE DeletedInv'
  <2>1. ~uploading'
    BY <1>2, UploadFrame DEF DeletedInv, UploadFindsDuplicate, UploadVersion
  <2>2. docStatus' = "deleted" => deletedAt'
    BY ZenonT(60), <1>2, DocumentFrame
       DEF DeletedInv, docVars, UpdateStage, Activate, StageReady, DeleteCommit,
         RejectUnverified, MarkFailed, RecoverExhausted, FailVersion, UploadDocument,
         UploadVersion, AddVersion, RequestRetry, RequestDelete
  <2> QED
    BY <2>1, <2>2 DEF DeletedInv
<1>3. ASSUME DeletedInv, [Next]_vars, BeingDeleted
      PROVE  (docStatus' = docStatus \/ docStatus' = "deleted") /\ active' = active
  BY ZenonT(60), <1>3, DocumentFrame
     DEF DeletedInv, BeingDeleted, docVars, UpdateStage, Activate, StageReady, DeleteCommit,
       RejectUnverified, MarkFailed, RecoverExhausted, Recoverable, FailVersion,
       UploadDocument, UploadVersion, RequestRetry, RequestDelete
<1>4. DeletedInv /\ [Next]_vars =>
        [BeingDeleted => /\ docStatus' = docStatus \/ docStatus' = "deleted"
                         /\ active' = active]_vars
  BY <1>3
<1>5. DeletedInv /\ [Next]_vars => DeletedInv'
  BY <1>2
<1> QED
  BY <1>1, <1>4, <1>5, PTL DEF Spec, DeletionIsFinal

-----------------------------------------------------------------------------
(* What a step does to one job and to the worker that executes it.         *)

\* What a step does to a job in place: its kind and version stay, and its
\* status changes by the worker that executes it, by recovery or not at all.
LEMMA JobsStand ==
  ASSUME Basic, [Next]_vars, NEW j \in 1..nJobs
  PROVE  /\ j \in 1..nJobs'
         /\ jKind'[j] = jKind[j]
         /\ jVersion'[j] = jVersion[j]
         /\ \/ jStatus'[j] = jStatus[j]
            \/ \E w \in Workers :
                 /\ JobOf(w) = j
                 /\ \/ LoadClaims(w) \/ UpdateStage(w) \/ StageReady(w) \/ CompleteJob(w)
                    \/ FailJob(w) \/ ScheduleRetry(w) \/ DeleteCommit(w)
            \/ RecoverActivated(j) \/ RecoverExhausted(j) \/ RecoverRequeues(j)
<1>t. TypeOK /\ nJobs \in Nat
  BY DEF Basic, TypeOK
<1> DEFINE Same == UNCHANGED <<nJobs, jKind, jVersion>>
<1>1. UNCHANGED jobVars => Same /\ jStatus'[j] = jStatus[j]
  BY DEF jobVars
<1>2. ASSUME NEW w \in Workers,
             \/ LoadClaims(w) \/ UpdateStage(w) \/ StageReady(w) \/ CompleteJob(w)
             \/ FailJob(w) \/ ScheduleRetry(w) \/ DeleteCommit(w)
      PROVE  Same /\ (j = JobOf(w) \/ jStatus'[j] = jStatus[j])
  <2>1. Same
    BY <1>2
       DEF LoadClaims, UpdateStage, StageReady, CompleteJob, FailJob, ScheduleRetry,
           DeleteCommit
  <2>2. UNCHANGED jStatus \/ \E s : jStatus' = [jStatus EXCEPT ![JobOf(w)] = s]
    BY <1>2, Zenon
       DEF LoadClaims, UpdateStage, StageReady, CompleteJob, FailJob, ScheduleRetry,
           DeleteCommit
  <2> QED
    BY <1>t, <2>1, <2>2, Bounds DEF TypeOK
<1>3. ASSUME NEW i \in Jobs, RecoverActivated(i) \/ RecoverExhausted(i) \/ RecoverRequeues(i)
      PROVE  Same /\ (j = i \/ jStatus'[j] = jStatus[j])
  <2>1. Same
    BY <1>3 DEF RecoverActivated, RecoverExhausted, RecoverRequeues
  <2>2. \E s : jStatus' = [jStatus EXCEPT ![i] = s]
    BY <1>3, Zenon DEF RecoverActivated, RecoverExhausted, RecoverRequeues
  <2> QED
    BY <1>t, <2>1, <2>2, Bounds DEF TypeOK
<1>4. NewJob => /\ nJobs' = nJobs + 1
                /\ UNCHANGED <<jKind[j], jVersion[j], jStatus[j]>>
  BY <1>t, Bounds DEF NewJob, AddJob, TypeOK
<1>5. /\ Same \/ NewJob
      /\ \/ jStatus'[j] = jStatus[j]
         \/ \E w \in Workers :
              /\ JobOf(w) = j
              /\ \/ LoadClaims(w) \/ UpdateStage(w) \/ StageReady(w) \/ CompleteJob(w)
                 \/ FailJob(w) \/ ScheduleRetry(w) \/ DeleteCommit(w)
         \/ RecoverActivated(j) \/ RecoverExhausted(j) \/ RecoverRequeues(j)
  <2> HIDE DEF Same
  <2> QED
    BY <1>1, <1>2, <1>3, <1>4, JobSteps, ZenonT(60)
<1> QED
  BY <1>t, <1>4, <1>5

\* A worker that executes a job after a step has that job from before it.
LEMMA ExecSteps ==
  ASSUME Basic, [Next]_vars, NEW w \in Workers, pc'[w] \in Executing
  PROVE  /\ JobOf(w)' = JobOf(w)
         /\ VersionOf(w)' = VersionOf(w)
         /\ JobOf(w) \in 1..nJobs
         /\ JobOf(w) \in IngestJobs
         /\ \/ LoadClaims(w) /\ pc'[w] = "parsing"
            \/ LoadFails(w) /\ pc'[w] = "schedule"
            \/ /\ pc[w] \in Running
               /\ run'[w] = run[w]
               /\ pc'[w] = "schedule" => FailJob(w)
            \/ pc[w] = "schedule" /\ pc'[w] = "schedule"
<1>t. TypeOK
  BY DEF Basic
<1>1. /\ msg'[w] = msg[w]
      /\ pc[w] \in IngestSteps
      /\ \/ LoadClaims(w) /\ pc'[w] = "parsing"
         \/ LoadFails(w) /\ pc'[w] = "schedule"
         \/ /\ pc[w] \in Running
            /\ run'[w] = run[w]
            /\ pc'[w] = "schedule" => FailJob(w)
         \/ pc[w] = "schedule" /\ pc'[w] = "schedule"
  <2>1. ASSUME NEW c \in Workers, Receive(c) PROVE UNCHANGED <<pc[w], msg[w], run[w]>>
    <3>1. PICK e \in Events :
            pc' = [pc EXCEPT ![c] = CASE e[1] = "ingest" -> "load"
                                      [] e[1] = "delete" -> "delete_read"
                                      [] e[1] = "cleanup" -> "cleanup"]
      BY <2>1, <1>t DEF Receive, TypeOK
    <3>2. e[1] \in {"ingest", "delete", "cleanup"}
      BY DEF Events
    <3>3. c # w
      BY <3>1, <3>2, <1>t
         DEF TypeOK, Executing, Running, Before, Indexed, After, Failing, Stages
    <3> QED
      BY <2>1, <3>3, <1>t DEF Receive, TypeOK, contextVars
  <2>2. CASE UNCHANGED <<pc[w], msg[w], run[w]>>
    BY <2>2
       DEF Executing, IngestSteps, Running, Before, Indexed, After, Failing, Stages
  <2>3. ASSUME LoadClaims(w) PROVE pc'[w] = "parsing" /\ pc[w] = "load" /\ UNCHANGED msg
    BY <2>3, <1>t DEF LoadClaims, TypeOK
  <2>4. ASSUME LoadFails(w) PROVE pc'[w] = "schedule" /\ pc[w] = "load" /\ UNCHANGED msg
    BY <2>4, <1>t DEF LoadFails, Goto, TypeOK
  <2>5. ASSUME FailJob(w) PROVE pc[w] = "fail_job"
    BY <2>5 DEF FailJob
  <2>6. CASE Proceeds
    <3>1. CASE pc'[w] = "idle"
      BY <3>1 DEF Executing, Running, Before, Indexed, After, Failing, Stages
    <3>2. CASE pc[w] \in DeleteSteps /\ pc'[w] \in DeleteSteps
      BY <3>2 DEF DeleteSteps, Deleting, Executing, Running, Before, Indexed, After, Failing,
           Stages
    <3>3. CASE /\ pc[w] \in IngestSteps
               /\ msg'[w] = msg[w]
               /\ \/ run'[w] = run[w] /\ (pc'[w] \in Running => pc[w] \in Running)
                  \/ LoadClaims(w)
               /\ pc'[w] = "schedule" => LoadFails(w) \/ FailJob(w)
      BY <2>3, <2>4, <2>5, <3>3 DEF Executing, IngestSteps, Running, Failing
    <3> QED
      BY <2>2, <2>6, <3>1, <3>2, <3>3 DEF Proceeds
  <2> QED
    BY <1>t, <2>1, <2>2, <2>6, ProceedsStep
<1>2. JobOf(w) \in 1..nJobs /\ JobOf(w) \in IngestJobs
  BY <1>1, IngestJob
<1>3. jVersion'[JobOf(w)] = jVersion[JobOf(w)]
  BY <1>2, JobsStand
<1> QED
  BY <1>1, <1>2, <1>3 DEF JobOf, VersionOf

\* Files only appear for the version an upload adds.
LEMMA NewFiles ==
  ASSUME Basic, [Next]_vars
  PROVE  files' \subseteq files \cup {nVersions + 1}
<1>1. CASE UploadDocument \/ UploadVersion
  BY <1>1 DEF UploadDocument, UploadVersion, AddVersion
<1>2. ASSUME NEW w \in Workers,
             \/ ReplaceChunks(w) \/ ClearIndex(w) \/ InsertIndex(w) \/ UndoIndex(w)
             \/ DeleteIndex(w) \/ DeleteFiles(w) \/ CleanupVersion(w)
      PROVE  files' \subseteq files \cup {nVersions + 1}
  BY <1>2 DEF ReplaceChunks, ClearIndex, InsertIndex, UndoIndex, DeleteIndex, DeleteFiles,
              CleanupVersion
<1>3. CASE UNCHANGED dataVars
  BY <1>3 DEF dataVars
<1> QED
  BY <1>1, <1>2, <1>3, DataFrame

-----------------------------------------------------------------------------
(* One run per version.                                                     *)

\* Without manual retries, a version has one job that ingests it.
OneJobPerVersion ==
  \A i, j \in IngestJobs : jVersion[i] = jVersion[j] => i = j

\* Two workers have one job only when both found its file gone.
OneWorkerPerJob ==
  \A w, x \in Workers :
    w # x /\ pc[w] \in Executing /\ pc[x] \in Executing /\ JobOf(w) = JobOf(x) =>
      pc[w] = "schedule" /\ pc[x] = "schedule" /\ VersionOf(w) \notin files

\* The status of a job that is executed keeps other workers from claiming it.
JobsHeld ==
  \A w \in Workers :
    /\ pc[w] \in Running => jStatus[JobOf(w)] = "running"
    /\ pc[w] = "schedule" => jStatus[JobOf(w)] = "failed" \/ VersionOf(w) \notin files

LEMMA OneJobStep ==
  ASSUME Basic, OneJobPerVersion, [Next]_vars, "retry" \notin Api
  PROVE  OneJobPerVersion'
<1>t. TypeOK /\ nJobs \in Nat /\ nVersions \in Nat
  BY DEF Basic, TypeOK
<1>1. NewJob \/ UNCHANGED <<nJobs, jKind, jVersion>>
  BY ZenonT(60), JobSteps DEF jobVars, LoadClaims, UpdateStage, StageReady, CompleteJob,
     FailJob, ScheduleRetry, DeleteCommit, RecoverActivated, RecoverExhausted, RecoverRequeues
<1>2. CASE UNCHANGED <<nJobs, jKind, jVersion>>
  BY <1>2 DEF OneJobPerVersion, IngestJobs
<1>3. \A j \in IngestJobs : j \in 1..nJobs /\ jVersion[j] \in 1..nVersions
  BY DEF IngestJobs, Basic, JobsOfVersions
<1>4. CASE RequestDelete
  <2>1. IngestJobs' = IngestJobs
    BY <1>4, <1>t, Bounds, BoundsAssumption DEF RequestDelete, AddJob, IngestJobs, TypeOK, Jobs
  <2>2. \A j \in IngestJobs : jVersion'[j] = jVersion[j]
    BY <1>3, JobsStand
  <2> QED
    BY <2>1, <2>2 DEF OneJobPerVersion
<1>5. CASE UploadDocument \/ UploadVersion
  <2>1. AddJob("ingest", nVersions + 1, IngestEvent(nJobs + 1, 0))
    BY <1>5 DEF UploadDocument, UploadVersion, AddVersion
  <2>2. /\ IngestJobs' = IngestJobs \cup {nJobs + 1}
        /\ jVersion'[nJobs + 1] = nVersions + 1
    BY <1>t, <2>1, Bounds, BoundsAssumption DEF AddJob, IngestJobs, TypeOK, Jobs
  <2>3. \A j \in IngestJobs : jVersion'[j] = jVersion[j] /\ jVersion[j] # nVersions + 1
    BY <1>t, <1>3, JobsStand
  <2> QED
    BY <2>2, <2>3 DEF OneJobPerVersion
<1>6. ~RequestRetry
  BY DEF RequestRetry
<1>7. NewJob => UploadDocument \/ UploadVersion \/ RequestRetry \/ RequestDelete
               \/ UNCHANGED <<nJobs, jKind, jVersion>>
  BY ZenonT(60), JobFrame DEF jobVars, LoadClaims, UpdateStage, StageReady, CompleteJob,
     FailJob, ScheduleRetry, DeleteCommit, RecoverActivated, RecoverExhausted, RecoverRequeues,
     Recover
<1> QED
  BY <1>1, <1>2, <1>4, <1>5, <1>6, <1>7

LEMMA OneWorkerStep ==
  ASSUME Basic, OneWorkerPerJob, JobsHeld, [Next]_vars, "load" \notin Faults
  PROVE  OneWorkerPerJob'
<1>t. TypeOK
  BY DEF Basic
<1> SUFFICES ASSUME NEW w \in Workers, NEW x \in Workers, w # x, pc'[w] \in Executing,
                    pc'[x] \in Executing, JobOf(w)' = JobOf(x)'
             PROVE  /\ pc'[w] = "schedule" /\ pc'[x] = "schedule"
                    /\ VersionOf(w)' \notin files'
  BY DEF OneWorkerPerJob
<1>1. /\ JobOf(x) = JobOf(w) /\ VersionOf(x) = VersionOf(w) /\ VersionOf(w)' = VersionOf(w)
      /\ JobOf(w) \in 1..nJobs
  BY ExecSteps DEF VersionOf, JobOf
<1>2. VersionOf(w) \in 1..nVersions /\ nVersions \in Nat
  BY <1>1 DEF Basic, JobsOfVersions, VersionOf, JobOf, TypeOK
<1>3. VersionOf(w) \notin files => VersionOf(w) \notin files'
  BY <1>2, NewFiles
\* A worker that claims the job, or finds its file gone, is alone with it.
<1>4. ASSUME NEW y \in Workers, NEW z \in Workers, y # z, pc[z] = pc'[z],
             JobOf(y) = JobOf(z), VersionOf(y) = VersionOf(z), pc'[z] \in Executing,
             LoadClaims(y) \/ LoadFails(y)
      PROVE  pc[z] = "schedule" /\ LoadFails(y) /\ VersionOf(y) \notin files
  <2>1. Claimable(JobOf(y)) /\ (VersionOf(y) \notin files \/ LoadClaims(y))
    BY <1>4 DEF LoadClaims, LoadFails, Fault
  <2>2. jStatus[JobOf(z)] \notin {"running", "failed"}
    BY <1>4, <2>1 DEF Claimable
  <2>3. pc[z] = "schedule" /\ VersionOf(z) \notin files
    BY <1>4, <2>2 DEF JobsHeld, Executing
  <2> QED
    BY <1>4, <2>1, <2>3 DEF LoadClaims
<1>5. ASSUME NEW y \in Workers, LoadClaims(y) \/ LoadFails(y)
      PROVE  \A z \in Workers \ {y} : pc'[z] = pc[z]
  BY <1>5, <1>t DEF LoadClaims, LoadFails, Goto, TypeOK
<1>6. ASSUME NEW y \in Workers, LoadFails(y) PROVE pc'[y] = "schedule"
  BY <1>6, <1>t DEF LoadFails, Goto, TypeOK
<1>7. CASE LoadClaims(w) \/ LoadFails(w)
  BY <1>1, <1>3, <1>4, <1>5, <1>6, <1>7
<1>8. CASE LoadClaims(x) \/ LoadFails(x)
  BY <1>1, <1>3, <1>4, <1>5, <1>6, <1>8
<1>9. CASE pc[w] \in Executing /\ pc[x] \in Executing
  <2>1. pc[w] = "schedule" /\ pc[x] = "schedule" /\ VersionOf(w) \notin files
    BY <1>1, <1>9 DEF OneWorkerPerJob
  <2>2. ~LoadClaims(w) /\ ~LoadClaims(x) /\ pc[w] \notin Running /\ pc[x] \notin Running
    BY <2>1 DEF LoadClaims, Running, Before, Indexed, After, Failing, Stages
  <2> QED
    BY <1>1, <1>3, <2>1, <2>2, ExecSteps
<1> QED
  BY <1>7, <1>8, <1>9, ExecSteps DEF Executing

LEMMA JobsHeldStep ==
  ASSUME Basic, OneWorkerPerJob, JobsHeld, [Next]_vars, "load" \notin Faults, ~Zombies
  PROVE  JobsHeld'
<1>t. TypeOK
  BY DEF Basic
<1> SUFFICES ASSUME NEW w \in Workers, pc'[w] \in Executing
             PROVE  /\ pc'[w] \in Running => jStatus'[JobOf(w)'] = "running"
                    /\ pc'[w] = "schedule" =>
                         jStatus'[JobOf(w)'] = "failed" \/ VersionOf(w)' \notin files'
  BY DEF JobsHeld, Executing, JobOf, VersionOf
<1> DEFINE j == JobOf(w)
<1>0. /\ JobOf(w)' = j /\ VersionOf(w)' = VersionOf(w) /\ j \in 1..nJobs /\ j \in IngestJobs
      /\ j \in Jobs
  BY ExecSteps, Bounds, <1>t
<1>f. VersionOf(w) \notin files => VersionOf(w) \notin files'
  <2>1. VersionOf(w) \in 1..nVersions /\ nVersions \in Nat
    BY <1>0 DEF Basic, JobsOfVersions, VersionOf, JobOf, TypeOK
  <2> QED
    BY <2>1, NewFiles
<1>s. "schedule" \notin Running
  BY DEF Running, Before, Indexed, After, Failing, Stages
<1>1. CASE LoadClaims(w)
  BY <1>0, <1>1, <1>s, <1>t DEF LoadClaims, TypeOK, Running, Before, Stages
<1>2. CASE LoadFails(w)
  <2>1. pc'[w] = "schedule" /\ VersionOf(w) \notin files
    BY <1>2, <1>t DEF LoadFails, Goto, TypeOK, Fault
  <2> QED
    BY <1>0, <1>f, <1>s, <2>1
<1>3. CASE FailJob(w)
  <2>1. jStatus'[j] = "failed" /\ pc'[w] \notin Running
    <3>1. pc'[w] \in {"idle", "schedule"}
      BY <1>3, <1>t DEF FailJob, TypeOK, Ack, Goto
    <3> QED
      BY <1>0, <1>3, <1>s, <1>t, <3>1
         DEF FailJob, TypeOK, Running, Before, Indexed, After, Failing, Stages
  <2> QED
    BY <1>0, <2>1
\* Nobody else writes the status of a job that is executed.
<1>4. ASSUME pc[w] \in Running \/ (pc[w] = "schedule" /\ jStatus[j] = "failed"),
             pc[w] \in Running => pc'[w] \in Running,
             pc[w] = "schedule" => pc'[w] = "schedule" /\ VersionOf(w) \in files
      PROVE  jStatus'[j] = jStatus[j]
  <2>1. jStatus[j] \in {"running", "failed"}
    BY <1>4 DEF JobsHeld
  <2>2. ASSUME RecoverActivated(j) \/ RecoverExhausted(j) \/ RecoverRequeues(j) PROVE FALSE
    <3>1. Stale(j)
      BY <2>2 DEF RecoverActivated, RecoverExhausted, RecoverRequeues, Recoverable
    <3>2. ~ExecutedBy(w, j)
      BY <2>1, <3>1 DEF Stale
    <3>3. pc[w] \in IngestSteps
      BY <1>4 DEF IngestSteps
    <3> QED
      BY <1>4, <3>2, <3>3, IngestJob DEF ExecutedBy
  <2>3. ASSUME NEW x \in Workers, JobOf(x) = j, LoadClaims(x) PROVE FALSE
    BY <2>1, <2>3 DEF LoadClaims, Claimable
  <2>4. ASSUME NEW x \in Workers, JobOf(x) = j, DeleteCommit(x) PROVE FALSE
    BY <1>0, <2>4, DeleteJob DEF DeleteCommit, DeleteSteps, Deleting, DeleteJobs, IngestJobs
  <2>5. ASSUME NEW x \in Workers, x # w, JobOf(x) = j, pc[x] \in Executing PROVE FALSE
    BY <1>4, <1>s, <2>5 DEF OneWorkerPerJob, Executing
  <2>6. ASSUME NEW x \in Workers, JobOf(x) = j,
               UpdateStage(x) \/ StageReady(x) \/ CompleteJob(x) \/ FailJob(x) \/ ScheduleRetry(x)
        PROVE  x = w
    BY <2>5, <2>6
       DEF UpdateStage, StageReady, CompleteJob, FailJob, ScheduleRetry, Executing, Running,
           Before, Indexed, After, Failing, Stages
  <2>7. ~CompleteJob(w) /\ ~FailJob(w) /\ ~ScheduleRetry(w)
    <3>1. CompleteJob(w) \/ ScheduleRetry(w) => pc'[w] = "idle"
      BY <1>t DEF CompleteJob, ScheduleRetry, Ack, TypeOK
    <3>2. FailJob(w) => pc'[w] \in {"idle", "schedule"} /\ pc[w] \in Running
      BY <1>t DEF FailJob, Ack, Goto, TypeOK, Running, Failing
    <3>3. "idle" \notin Executing
      BY DEF Executing, Running, Before, Indexed, After, Failing, Stages
    <3> QED
      BY <1>4, <1>s, <3>1, <3>2, <3>3 DEF Executing
  <2>8. UpdateStage(w) \/ StageReady(w) => jStatus'[j] = "running" /\ jStatus[j] = "running"
    <3>1. UpdateStage(w) \/ StageReady(w) => pc[w] \in Running
      BY DEF UpdateStage, StageReady, Running, Before, After, Stages
    <3> QED
      BY <1>0, <1>t, <3>1 DEF UpdateStage, StageReady, TypeOK, JobsHeld
  <2> QED
    BY <1>0, <2>2, <2>3, <2>4, <2>6, <2>7, <2>8, JobsStand
<1>5. CASE pc[w] \in Running /\ pc'[w] \in Running
  BY <1>0, <1>4, <1>5, <1>s DEF JobsHeld
<1>6. CASE pc[w] = "schedule" /\ pc'[w] = "schedule"
  BY <1>0, <1>4, <1>6, <1>f, <1>s DEF JobsHeld
<1> QED
  BY <1>1, <1>2, <1>3, <1>5, <1>6, ExecSteps DEF Executing

\* Without manual retries, faults of load_context and recovery of live jobs,
\* no version is ever processed by two workers at once.
THEOREM OneRunForEachVersion ==
  ASSUME ~Zombies, "load" \notin Faults, "retry" \notin Api
  PROVE  Spec => []OneRunPerVersion
<1> DEFINE IInv == OneJobPerVersion /\ OneWorkerPerJob /\ JobsHeld
<1>1. Init => IInv
  BY BoundsAssumption
     DEF Init, OneJobPerVersion, OneWorkerPerJob, JobsHeld, IngestJobs, Executing, Running,
         Before, Indexed, After, Failing, Stages
<1>2. Inv /\ IInv /\ [Next]_vars => IInv'
  BY OneJobStep, OneWorkerStep, JobsHeldStep DEF Inv
<1>3. Inv /\ IInv => OneRunPerVersion
  <2> SUFFICES ASSUME Inv, IInv, NEW w \in Workers, NEW x \in Workers, w # x,
                      pc[w] \in Running, pc[x] \in Running, VersionOf(w) = VersionOf(x)
               PROVE  FALSE
    BY DEF OneRunPerVersion
  <2>1. JobOf(w) \in IngestJobs /\ JobOf(x) \in IngestJobs
    BY IngestJob DEF Inv, IngestSteps
  <2>2. JobOf(w) = JobOf(x)
    BY <2>1 DEF OneJobPerVersion, VersionOf, JobOf
  <2> QED
    BY <2>2 DEF OneWorkerPerJob, Executing, Running, Before, Indexed, After, Failing, Stages
<1> HIDE DEF IInv
<1> QED
  BY <1>1, <1>2, <1>3, Invariance, PTL DEF Spec

-----------------------------------------------------------------------------
(* The served version.                                                      *)

\* The runs whose children one version's index holds are finitely many.
IndexFinite == \A v \in Versions : IsFiniteSet(index[v])

\* What a step does to the data and the status of a version.
LEMMA VersionsStand ==
  ASSUME Basic, [Next]_vars, NEW v \in 1..nVersions
  PROVE  /\ \/ chunks'[v] = chunks[v]
            \/ \E w \in Workers : VersionOf(w) = v /\ ReplaceChunks(w)
         /\ \/ index'[v] = index[v]
            \/ \E w \in Workers :
                 VersionOf(w) = v /\ (ClearIndex(w) \/ InsertIndex(w) \/ UndoIndex(w))
            \/ Removable(v)
            \/ \E w \in Workers : DeleteIndex(w)
         /\ \/ vStatus'[v] = vStatus[v]
            \/ \E w \in Workers :
                 /\ VersionOf(w) = v
                 /\ \/ UpdateStage(w) \/ Activate(w) \/ StageReady(w) \/ RejectUnverified(w)
                    \/ MarkFailed(w)
            \/ \E j \in Jobs : jVersion[j] = v /\ RecoverExhausted(j)
            \/ RequestRetry
<1>t. TypeOK /\ nVersions \in Nat /\ v \in Versions /\ v # nVersions + 1
  BY Bounds DEF Basic, TypeOK
<1>1. \/ chunks'[v] = chunks[v]
      \/ \E w \in Workers : VersionOf(w) = v /\ ReplaceChunks(w)
  <2> DEFINE Goal == \/ chunks'[v] = chunks[v]
                     \/ \E w \in Workers : VersionOf(w) = v /\ ReplaceChunks(w)
  <2> SUFFICES Goal
    OBVIOUS
  <2>1. ASSUME NEW w \in Workers,
               \/ ReplaceChunks(w) \/ ClearIndex(w) \/ InsertIndex(w) \/ UndoIndex(w)
               \/ DeleteIndex(w) \/ DeleteFiles(w) \/ CleanupVersion(w)
        PROVE  Goal
    BY <1>t, <2>1
       DEF ReplaceChunks, ClearIndex, InsertIndex, UndoIndex, DeleteIndex, DeleteFiles,
           CleanupVersion, TypeOK
  <2>2. CASE UploadDocument \/ UploadVersion
    BY <2>2 DEF UploadDocument, UploadVersion, AddVersion
  <2>3. CASE UNCHANGED dataVars
    BY <2>3 DEF dataVars
  <2> HIDE DEF Goal
  <2> QED
    BY <2>1, <2>2, <2>3, DataFrame
<1>2. \/ index'[v] = index[v]
      \/ \E w \in Workers :
           VersionOf(w) = v /\ (ClearIndex(w) \/ InsertIndex(w) \/ UndoIndex(w))
      \/ Removable(v)
      \/ \E w \in Workers : DeleteIndex(w)
  <2> DEFINE Goal == \/ index'[v] = index[v]
                     \/ \E w \in Workers :
                          VersionOf(w) = v /\ (ClearIndex(w) \/ InsertIndex(w) \/ UndoIndex(w))
                     \/ Removable(v)
                     \/ \E w \in Workers : DeleteIndex(w)
  <2> SUFFICES Goal
    OBVIOUS
  <2>1. ASSUME NEW w \in Workers, ClearIndex(w) \/ InsertIndex(w) \/ UndoIndex(w) PROVE Goal
    <3>1. index'[v] = index[v] \/ VersionOf(w) = v
      BY <1>t, <2>1 DEF ClearIndex, InsertIndex, UndoIndex, TypeOK
    <3> QED
      BY <2>1, <3>1
  <2>2. ASSUME NEW w \in Workers, CleanupVersion(w) PROVE Goal
    <3>1. index'[v] = index[v] \/ Removable(v)
      BY <1>t, <2>2 DEF CleanupVersion, TypeOK
    <3> QED
      BY <3>1
  <2>3. ASSUME NEW w \in Workers, ReplaceChunks(w) \/ DeleteFiles(w) PROVE Goal
    BY <2>3 DEF ReplaceChunks, DeleteFiles
  <2>4. ASSUME NEW w \in Workers, DeleteIndex(w) PROVE Goal
    BY <2>4
  <2>5. CASE UploadDocument \/ UploadVersion
    BY <2>5 DEF UploadDocument, UploadVersion, AddVersion
  <2>6. CASE UNCHANGED dataVars
    BY <2>6 DEF dataVars
  <2> HIDE DEF Goal
  <2> QED
    BY <2>1, <2>2, <2>3, <2>4, <2>5, <2>6, DataFrame
<1>3. \/ vStatus'[v] = vStatus[v]
      \/ \E w \in Workers :
           /\ VersionOf(w) = v
           /\ \/ UpdateStage(w) \/ Activate(w) \/ StageReady(w) \/ RejectUnverified(w)
              \/ MarkFailed(w)
      \/ \E j \in Jobs : jVersion[j] = v /\ RecoverExhausted(j)
      \/ RequestRetry
  <2> DEFINE Goal == \/ vStatus'[v] = vStatus[v]
                     \/ \E w \in Workers :
                          /\ VersionOf(w) = v
                          /\ \/ UpdateStage(w) \/ Activate(w) \/ StageReady(w)
                             \/ RejectUnverified(w) \/ MarkFailed(w)
                     \/ \E j \in Jobs : jVersion[j] = v /\ RecoverExhausted(j)
                     \/ RequestRetry
  <2> SUFFICES Goal
    OBVIOUS
  <2>1. ASSUME NEW w \in Workers,
               \/ UpdateStage(w) \/ Activate(w) \/ StageReady(w) \/ RejectUnverified(w)
               \/ MarkFailed(w)
        PROVE  Goal
    <3>1. vStatus'[v] = vStatus[v] \/ VersionOf(w) = v
      <4>1. \E s : vStatus' = [vStatus EXCEPT ![VersionOf(w)] = s]
        BY <2>1, Zenon
           DEF UpdateStage, Activate, StageReady, RejectUnverified, MarkFailed, FailVersion
      <4> QED
        BY <1>t, <4>1 DEF TypeOK
    <3> QED
      BY <2>1, <3>1
  <2>2. ASSUME NEW w \in Workers, DeleteCommit(w) PROVE Goal
    BY <2>2 DEF DeleteCommit, versionVars
  <2>3. ASSUME NEW j \in Jobs, RecoverExhausted(j) PROVE Goal
    <3>1. vStatus'[v] = vStatus[v] \/ jVersion[j] = v
      BY <1>t, <2>3 DEF RecoverExhausted, FailVersion, TypeOK
    <3> QED
      BY <2>3, <3>1
  <2>4. CASE UploadDocument \/ UploadVersion
    BY <1>t, <2>4 DEF UploadDocument, UploadVersion, AddVersion, TypeOK
  <2>5. CASE RequestRetry
    BY <2>5
  <2>6. CASE RequestDelete
    BY <2>6 DEF RequestDelete, versionVars
  <2>7. CASE UNCHANGED <<docVars, versionVars>>
    BY <2>7 DEF versionVars
  <2> HIDE DEF Goal
  <2> QED
    BY <2>1, <2>2, <2>3, <2>4, <2>5, <2>6, <2>7, DocumentFrame
<1> QED
  BY <1>1, <1>2, <1>3

LEMMA IndexFiniteStep == Basic /\ IndexFinite /\ [Next]_vars => IndexFinite'
<1> SUFFICES ASSUME Basic, IndexFinite, [Next]_vars, NEW v \in Versions
             PROVE  IsFiniteSet(index'[v])
  BY DEF IndexFinite, Versions
<1>t. TypeOK
  BY DEF Basic
<1>1. IsFiniteSet(index[v]) /\ IsFiniteSet({}) /\ \A r : IsFiniteSet(index[v] \cup {r})
  BY FS_EmptySet, FS_AddElement DEF IndexFinite
<1>2. ASSUME NEW w \in Workers,
             \/ ReplaceChunks(w) \/ ClearIndex(w) \/ UndoIndex(w) \/ DeleteIndex(w)
             \/ DeleteFiles(w) \/ CleanupVersion(w)
      PROVE  index'[v] = index[v] \/ index'[v] = {}
  BY <1>t, <1>2 DEF ReplaceChunks, ClearIndex, UndoIndex, DeleteIndex, DeleteFiles,
     CleanupVersion, TypeOK
<1>3. ASSUME NEW w \in Workers, InsertIndex(w)
      PROVE  index'[v] = index[v] \/ index'[v] = index[v] \cup {RunOf(w)}
  BY <1>t, <1>3 DEF InsertIndex, TypeOK
<1>4. CASE UploadDocument \/ UploadVersion
  BY <1>1, <1>4 DEF UploadDocument, UploadVersion, AddVersion
<1>5. CASE UNCHANGED dataVars
  BY <1>1, <1>5 DEF dataVars
<1>6. ASSUME NEW w \in Workers,
             \/ ReplaceChunks(w) \/ ClearIndex(w) \/ InsertIndex(w) \/ UndoIndex(w)
             \/ DeleteIndex(w) \/ DeleteFiles(w) \/ CleanupVersion(w)
      PROVE  IsFiniteSet(index'[v])
  <2>1. CASE InsertIndex(w)
    BY <1>1, <1>3, <2>1
  <2>2. CASE ~InsertIndex(w)
    BY <1>1, <1>2, <1>6, <2>2
  <2> QED
    BY <2>1, <2>2
<1> QED
  BY <1>4, <1>5, <1>6, DataFrame

\* A deletion stands while no upload can bring the document back.
Unrevived ==
  /\ DeleteJobs # {} <=> BeingDeleted
  /\ uploading => "upload" \in Api
  /\ DeleteJobs # {} => "delete" \in Api

LEMMA UnrevivedStep ==
  ASSUME Basic, Unrevived, [Next]_vars, "upload" \notin Api \/ "delete" \notin Api
  PROVE  Unrevived' /\ (BeingDeleted => BeingDeleted')
<1>t. TypeOK /\ nJobs \in Nat
  BY DEF Basic, TypeOK
<1>1. uploading' => "upload" \in Api
  <2>1. uploading' => uploading \/ UploadFindsDuplicate
    BY UploadFrame DEF UploadVersion
  <2> QED
    BY <2>1 DEF Unrevived, UploadFindsDuplicate
<1>2. IF RequestDelete THEN DeleteJobs' # {} ELSE DeleteJobs' = DeleteJobs
  <2>1. CASE RequestDelete
    <3>1. nJobs + 1 \in DeleteJobs'
      BY <1>t, <2>1, BoundsAssumption DEF RequestDelete, AddJob, DeleteJobs, TypeOK, Jobs
    <3> QED
      BY <2>1, <3>1
  <2>2. CASE ~RequestDelete /\ (UploadDocument \/ UploadVersion \/ RequestRetry)
    <3>1. PICK kind \in {"ingest", "retry"} : \E v, e : AddJob(kind, v, e)
      BY <2>2 DEF UploadDocument, UploadVersion, AddVersion, RequestRetry
    <3>2. DeleteJobs' = DeleteJobs
      BY <1>t, <3>1, Bounds, BoundsAssumption DEF AddJob, DeleteJobs, TypeOK, Jobs
    <3> QED
      BY <2>2, <3>2
  <2>3. CASE ~RequestDelete /\ ~(UploadDocument \/ UploadVersion \/ RequestRetry)
    <3>1. UNCHANGED <<nJobs, jKind>>
      BY <2>3, JobFrame, ZenonT(60)
         DEF jobVars, LoadClaims, UpdateStage, StageReady, CompleteJob, FailJob, ScheduleRetry,
           DeleteCommit, Recover, RecoverActivated, RecoverExhausted, RecoverRequeues
    <3> QED
      BY <2>3, <3>1 DEF DeleteJobs
  <2> QED
    BY <2>1, <2>2, <2>3
<1>3. UploadVersion => ~BeingDeleted
  BY DEF UploadVersion, Unrevived
<1>4. \A w \in Workers : DeleteCommit(w) => BeingDeleted
  BY DeleteJob DEF DeleteCommit, DeleteSteps, Deleting, Unrevived
<1>5. RequestDelete \/ BeingDeleted' = BeingDeleted
  <2>1. ASSUME NEW v, FailVersion(v) PROVE BeingDeleted' = BeingDeleted
    BY <2>1 DEF FailVersion, BeingDeleted
  <2>2. ASSUME NEW w \in Workers,
               \/ UpdateStage(w) \/ Activate(w) \/ StageReady(w) \/ DeleteCommit(w)
               \/ RejectUnverified(w) \/ MarkFailed(w)
        PROVE  BeingDeleted' = BeingDeleted
    BY <1>4, <2>1, <2>2
       DEF UpdateStage, Activate, StageReady, DeleteCommit, RejectUnverified, MarkFailed,
           BeingDeleted
  <2>3. ASSUME NEW j \in Jobs, RecoverExhausted(j) PROVE BeingDeleted' = BeingDeleted
    BY <2>1, <2>3 DEF RecoverExhausted
  <2>4. CASE UploadDocument \/ UploadVersion \/ RequestRetry
    BY <1>3, <2>4 DEF UploadDocument, UploadVersion, AddVersion, RequestRetry, BeingDeleted
  <2>5. CASE UNCHANGED <<docVars, versionVars>>
    BY <2>5 DEF docVars, BeingDeleted
  <2> QED
    BY <2>2, <2>3, <2>4, <2>5, DocumentFrame
<1>6. RequestDelete => BeingDeleted' /\ "delete" \in Api
  BY DEF RequestDelete, BeingDeleted
<1>7. CASE RequestDelete
  BY <1>1, <1>2, <1>6, <1>7 DEF Unrevived
<1>8. CASE ~RequestDelete
  BY <1>1, <1>2, <1>5, <1>8 DEF Unrevived
<1> QED
  BY <1>7, <1>8

\* While a run has not activated its version, nobody else writes the version's
\* chunks, status or index.
RunsKept ==
  ~BeingDeleted =>
    \A w \in Workers :
      /\ pc[w] \in Indexing => chunks[VersionOf(w)] = RunOf(w)
      /\ pc[w] \in Indexed => vStatus[VersionOf(w)] = "indexing"
      /\ pc[w] \in {"verify", "activate"} => RunOf(w) \in index[VersionOf(w)]
      /\ pc[w] = "activate" => index[VersionOf(w)] = {RunOf(w)}

\* The active version has no run before its activation and no job that waits.
Undisturbed ==
  active # None /\ ~BeingDeleted =>
    /\ active <= nVersions
    /\ \A w \in Workers : pc[w] \in Executing /\ VersionOf(w) = active => pc[w] \in After
    /\ \A j \in IngestJobs : jVersion[j] = active => jStatus[j] \in {"running", "succeeded"}

\* How a worker comes to the steps between replacing chunks and activation.
LEMMA IndexingSteps ==
  ASSUME Basic, [Next]_vars, NEW w \in Workers, pc'[w] \in Indexing
  PROVE  /\ pc[w] \in Running
         /\ RunOf(w)' = RunOf(w) /\ VersionOf(w)' = VersionOf(w)
         /\ \/ pc'[w] = pc[w]
            \/ ReplaceChunks(w) /\ pc'[w] = "embedding"
            \/ UpdateStage(w) /\ pc[w] = "embedding" /\ pc'[w] = "indexing"
            \/ UpdateStage(w) /\ pc[w] = "indexing" /\ pc'[w] = "clear_index"
            \/ ClearIndex(w) /\ pc'[w] = "insert_index"
            \/ InsertIndex(w) /\ pc'[w] = "verify"
            \/ Verify(w) /\ pc'[w] \in {"activate", "unverified"}
<1>t. TypeOK
  BY DEF Basic
<1>s. /\ Indexing \subseteq Running
      /\ "schedule" \notin Indexing /\ "parsing" \notin Indexing /\ "idle" \notin Indexing
      /\ Indexing \cap DeleteSteps = {} /\ Running \subseteq Executing
  BY DEF Indexing, Executing, Running, Before, Indexed, After, Failing, Stages, DeleteSteps,
         Deleting
<1>1. /\ JobOf(w)' = JobOf(w) /\ VersionOf(w)' = VersionOf(w)
      /\ pc[w] \in Running /\ run'[w] = run[w]
  BY <1>s, ExecSteps
<1>2. /\ pc'[w] = pc[w] \/ ReplaceChunks(w) \/ UpdateStage(w) \/ ClearIndex(w)
         \/ InsertIndex(w) \/ Verify(w)
  <2>1. ASSUME NEW c \in Workers, Receive(c) PROVE pc'[w] = pc[w]
    <3>1. pc[w] # "idle" /\ pc[c] = "idle"
      BY <1>1, <2>1 DEF Receive, Running, Before, Indexed, After, Failing, Stages
    <3> QED
      BY <1>t, <2>1, <3>1 DEF Receive, TypeOK
  <2> QED
    BY <1>s, <1>t, <2>1, ProceedsStep DEF Proceeds
<1>3. /\ ReplaceChunks(w) => pc'[w] = "embedding"
      /\ ClearIndex(w) => pc'[w] = "insert_index"
      /\ InsertIndex(w) => pc'[w] = "verify"
      /\ Verify(w) => pc'[w] \in {"activate", "unverified"}
  BY <1>t DEF ReplaceChunks, ClearIndex, InsertIndex, Verify, Goto, TypeOK
<1>4. ASSUME UpdateStage(w)
      PROVE  \/ pc[w] = "embedding" /\ pc'[w] = "indexing"
             \/ pc[w] = "indexing" /\ pc'[w] = "clear_index"
  <2>1. pc[w] \in Stages /\ pc'[w] = AfterStage(pc[w])
    BY <1>t, <1>4 DEF UpdateStage, Goto, TypeOK
  <2> QED
    BY <2>1 DEF Stages, AfterStage, Indexing, Indexed
<1> QED
  BY <1>1, <1>2, <1>3, <1>4 DEF RunOf

\* While a run holds its version no other worker runs on it, and recovery
\* leaves its job alone.
LEMMA Alone ==
  ASSUME Basic, OneJobPerVersion, OneWorkerPerJob, JobsHeld, ~Zombies,
         NEW w \in Workers, pc[w] \in Running
  PROVE  /\ \A x \in Workers :
              pc[x] \in Executing /\ VersionOf(x) = VersionOf(w) => x = w
         /\ \A j \in Jobs : Recoverable(j) => jVersion[j] # VersionOf(w)
<1>s. Running \subseteq Executing /\ Executing \subseteq IngestSteps /\ "schedule" \notin Running
  BY DEF Executing, IngestSteps, Running, Before, Indexed, After, Failing, Stages
<1>1. ASSUME NEW x \in Workers, pc[x] \in Executing, VersionOf(x) = VersionOf(w) PROVE x = w
  <2>1. JobOf(x) = JobOf(w)
    BY <1>1, <1>s, IngestJob DEF OneJobPerVersion, VersionOf, JobOf
  <2> QED
    BY <1>1, <1>s, <2>1 DEF OneWorkerPerJob
<1>2. ASSUME NEW j \in Jobs, Recoverable(j), jVersion[j] = VersionOf(w) PROVE FALSE
  <2>1. j = JobOf(w)
    BY <1>2, <1>s, IngestJob, RecoveredJob DEF OneJobPerVersion, VersionOf, JobOf
  <2>2. ExecutedBy(w, j)
    BY <1>s, <2>1, IngestJob DEF ExecutedBy
  <2>3. jStatus[j] = "running"
    BY <2>1 DEF JobsHeld
  <2> QED
    BY <1>2, <2>2, <2>3 DEF Recoverable, Stale
<1> QED
  BY <1>1, <1>2

LEMMA RunsKeptStep ==
  ASSUME Basic, OneJobPerVersion, OneWorkerPerJob, JobsHeld, IndexFinite, Unrevived, RunsKept,
         [Next]_vars, ~Zombies, "retry" \notin Api, BeingDeleted => BeingDeleted'
  PROVE  RunsKept'
<1> SUFFICES ASSUME ~BeingDeleted, ~BeingDeleted', NEW w \in Workers, pc'[w] \in Indexing
             PROVE  /\ chunks'[VersionOf(w)'] = RunOf(w)'
                    /\ pc'[w] \in Indexed => vStatus'[VersionOf(w)'] = "indexing"
                    /\ pc'[w] \in {"verify", "activate"} => RunOf(w)' \in index'[VersionOf(w)']
                    /\ pc'[w] = "activate" => index'[VersionOf(w)'] = {RunOf(w)'}
  BY DEF RunsKept, Indexing, Indexed
<1>t. TypeOK
  BY DEF Basic
<1> DEFINE v == VersionOf(w)
           r == RunOf(w)
<1>0. /\ VersionOf(w)' = v /\ RunOf(w)' = r /\ pc[w] \in Running
      /\ v \in 1..nVersions /\ v \in Versions
  <2>1. VersionOf(w)' = v /\ RunOf(w)' = r /\ pc[w] \in Running
    BY IndexingSteps
  <2>2. JobOf(w) \in 1..nJobs
    BY <2>1, IngestJob DEF IngestSteps
  <2> QED
    BY <1>t, <2>1, <2>2, Bounds DEF Basic, JobsOfVersions, VersionOf, JobOf
<1>d. DeleteJobs = {}
  BY DEF Unrevived
<1>1. \A x \in Workers : ~DeleteIndex(x)
  BY <1>d, DeleteJob DEF DeleteIndex, DeleteSteps, Deleting
<1>a. /\ \A x \in Workers : pc[x] \in Executing /\ VersionOf(x) = v => x = w
      /\ \A j \in Jobs : Recoverable(j) => jVersion[j] # v
  BY <1>0, Alone
<1>2. chunks'[v] = chunks[v] \/ ReplaceChunks(w)
  <2>1. \A x \in Workers : ReplaceChunks(x) => pc[x] \in Executing
    BY DEF ReplaceChunks, Executing, Running, Before
  <2> QED
    BY <1>0, <1>a, <2>1, VersionsStand
<1>3. \/ index'[v] = index[v]
      \/ ClearIndex(w) \/ InsertIndex(w) \/ UndoIndex(w)
      \/ Removable(v)
  <2>1. \A x \in Workers : ClearIndex(x) \/ InsertIndex(x) \/ UndoIndex(x) => pc[x] \in Executing
    BY DEF ClearIndex, InsertIndex, UndoIndex, Executing, Running, Indexed, Failing
  <2> QED
    BY <1>0, <1>1, <1>a, <2>1, VersionsStand
<1>4. \/ vStatus'[v] = vStatus[v]
      \/ UpdateStage(w) \/ Activate(w) \/ StageReady(w) \/ RejectUnverified(w) \/ MarkFailed(w)
  <2>1. ASSUME NEW x \in Workers,
               \/ UpdateStage(x) \/ Activate(x) \/ StageReady(x) \/ RejectUnverified(x)
               \/ MarkFailed(x)
        PROVE  pc[x] \in Executing
    BY <2>1 DEF UpdateStage, Activate, StageReady, RejectUnverified, MarkFailed, Executing,
       Running, Before, Indexed, After, Failing, Stages
  <2>2. \A j \in Jobs : RecoverExhausted(j) => jVersion[j] # v
    BY <1>a DEF RecoverExhausted
  <2>3. ~RequestRetry
    BY DEF RequestRetry
  <2> QED
    BY <1>0, <1>a, <2>1, <2>2, <2>3, VersionsStand
\* At each step of the run, what it has just written and what it finds.
<1>5. CASE pc'[w] = pc[w]
  <2>1. pc[w] \in Indexing /\ pc'[w] # "idle"
    BY <1>5 DEF Indexing, Indexed
  <2>2. ~(ReplaceChunks(w) \/ ClearIndex(w) \/ InsertIndex(w) \/ UndoIndex(w))
    BY <1>5, <1>t DEF ReplaceChunks, ClearIndex, InsertIndex, UndoIndex, Goto, TypeOK
  <2>3. ~(UpdateStage(w) \/ Activate(w) \/ StageReady(w) \/ RejectUnverified(w) \/ MarkFailed(w))
    <3>1. ~(Activate(w) \/ StageReady(w) \/ MarkFailed(w))
      BY <1>5, <1>t DEF Activate, StageReady, MarkFailed, Goto, TypeOK
    <3>2. RejectUnverified(w) => pc'[w] = "undo" /\ pc[w] = "unverified"
      <4>1. "unverified" \notin Before /\ "unverified" \in Indexed
        BY DEF Before, Indexed, Stages
      <4>2. RejectUnverified(w) =>
              /\ pc[w] = "unverified"
              /\ pc'[w] = CASE pc[w] \in Before -> "mark_failed"
                            [] pc[w] \in Indexed -> "undo"
                            [] pc[w] \in After -> "fail_job"
        BY <1>t DEF RejectUnverified, Raise, TypeOK
      <4>3. "unverified" \notin After
        BY DEF After
      <4> QED
        BY <4>1, <4>2, <4>3
    <3>3. UpdateStage(w) => pc'[w] = AfterStage(pc[w]) /\ pc[w] \in Stages
      BY <1>t DEF UpdateStage, Goto, TypeOK
    <3> QED
      BY <1>5, <3>1, <3>2, <3>3 DEF AfterStage, Stages
  <2>4. pc[w] \in Indexed => ~Removable(v)
    BY DEF RunsKept, Removable
  <2> QED
    BY <1>0, <1>2, <1>3, <1>4, <1>5, <2>1, <2>2, <2>3, <2>4 DEF RunsKept, Indexed
<1>6. CASE ReplaceChunks(w) /\ pc'[w] = "embedding"
  <2>1. chunks'[v] = r
    BY <1>0, <1>6, <1>t DEF ReplaceChunks, TypeOK
  <2> QED
    BY <1>0, <1>6, <2>1 DEF Indexed
<1>7. CASE UpdateStage(w) /\ pc[w] = "embedding" /\ pc'[w] = "indexing"
  <2>1. chunks[v] = r /\ UNCHANGED chunks
    BY <1>7 DEF RunsKept, Indexing, UpdateStage, dataVars
  <2> QED
    BY <1>0, <1>7, <2>1 DEF Indexed
<1>8. CASE UpdateStage(w) /\ pc[w] = "indexing" /\ pc'[w] = "clear_index"
  <2>1. chunks[v] = r /\ UNCHANGED chunks
    BY <1>8 DEF RunsKept, Indexing, UpdateStage, dataVars
  <2>2. vStatus'[v] = "indexing"
    BY <1>0, <1>8, <1>t DEF UpdateStage, TypeOK
  <2> QED
    BY <1>0, <1>8, <2>1, <2>2
<1>9. CASE ClearIndex(w) /\ pc'[w] = "insert_index"
  <2>1. chunks[v] = r /\ vStatus[v] = "indexing" /\ UNCHANGED <<chunks, vStatus>>
    BY <1>9 DEF RunsKept, Indexing, Indexed, ClearIndex, versionVars
  <2> QED
    BY <1>0, <1>9, <2>1
<1>10. CASE InsertIndex(w) /\ pc'[w] = "verify"
  <2>1. chunks[v] = r /\ vStatus[v] = "indexing" /\ UNCHANGED <<chunks, vStatus>>
    BY <1>10 DEF RunsKept, Indexing, Indexed, InsertIndex, versionVars
  <2>2. r \in index'[v]
    BY <1>0, <1>10, <1>t DEF InsertIndex, TypeOK
  <2> QED
    BY <1>0, <1>10, <2>1, <2>2
<1>11. CASE Verify(w) /\ pc'[w] \in {"activate", "unverified"}
  <2>1. /\ chunks[v] = r /\ vStatus[v] = "indexing" /\ r \in index[v]
        /\ UNCHANGED <<chunks, vStatus, index>>
    BY <1>11 DEF RunsKept, Indexing, Indexed, Verify, versionVars, dataVars
  <2>2. pc'[w] = "activate" => Cardinality(index[v]) = 1
    BY <1>11, <1>t DEF Verify, Goto, TypeOK
  <2>3. Cardinality(index[v]) = 1 => index[v] = {r}
    BY <1>0, <2>1, FS_Singleton DEF IndexFinite
  <2> QED
    BY <1>0, <1>11, <2>1, <2>2, <2>3
<1> QED
  BY <1>5, <1>6, <1>7, <1>8, <1>9, <1>10, <1>11, IndexingSteps

LEMMA UndisturbedStep ==
  ASSUME Basic, OneJobPerVersion, OneWorkerPerJob, JobsHeld, Unrevived, RunsKept, Undisturbed,
         ActiveServable, [Next]_vars, ~Zombies, "load" \notin Faults, "late" \notin Faults,
         "retry" \notin Api, BeingDeleted => BeingDeleted'
  PROVE  Undisturbed' /\ ActiveServable'
<1> SUFFICES ASSUME ~BeingDeleted, ~BeingDeleted', active' # None
             PROVE  Undisturbed' /\ ActiveServable'
  BY DEF Undisturbed, ActiveServable
<1>t. TypeOK /\ nVersions \in Nat /\ nVersions' \in Nat /\ nVersions <= nVersions'
  <2>1. TypeOK /\ TypeOK'
    BY TypingStep DEF Basic
  <2>2. \A x : FailVersion(x) => UNCHANGED nVersions
    BY DEF FailVersion
  <2>3. nVersions' = nVersions \/ nVersions' = nVersions + 1
    BY <2>2, DocumentFrame, ZenonT(60)
       DEF versionVars, UpdateStage, Activate, StageReady, DeleteCommit, RejectUnverified,
         MarkFailed, RecoverExhausted, UploadDocument, UploadVersion, AddVersion, RequestRetry,
         RequestDelete
  <2> QED
    BY <2>1, <2>3 DEF TypeOK
<1>s. /\ Running \subseteq Executing /\ "schedule" \notin Running
      /\ After \subseteq Running /\ "schedule" \in Executing
      /\ Executing \subseteq IngestSteps
  BY DEF Executing, IngestSteps, Running, Before, Indexed, After, Failing, Stages
<1>d. \A x \in Workers : ~DeleteIndex(x) /\ ~DeleteCommit(x)
  BY DeleteJob DEF DeleteIndex, DeleteCommit, DeleteSteps, Deleting, Unrevived
\* An ingestion job after the step is one of before or one of a new version.
<1>j. ASSUME NEW j \in IngestJobs', j \notin IngestJobs
      PROVE  jVersion'[j] = nVersions + 1
  <2>1. RequestDelete => FALSE
    BY DEF RequestDelete, BeingDeleted
  <2>2. CASE UploadDocument \/ UploadVersion
    <3>1. AddJob("ingest", nVersions + 1, IngestEvent(nJobs + 1, 0))
      BY <2>2 DEF UploadDocument, UploadVersion, AddVersion
    <3> QED
      BY <1>t, <1>j, <3>1, BoundsAssumption DEF AddJob, IngestJobs, TypeOK, Jobs
  <2>3. CASE ~(UploadDocument \/ UploadVersion)
    <3>1. ~RequestRetry
      BY DEF RequestRetry
    <3>2. UNCHANGED <<nJobs, jKind>>
      BY <2>1, <2>3, <3>1, JobFrame, ZenonT(60)
         DEF jobVars, LoadClaims, UpdateStage, StageReady, CompleteJob, FailJob, ScheduleRetry,
           DeleteCommit, Recover, RecoverActivated, RecoverExhausted, RecoverRequeues
    <3> QED
      BY <1>j, <3>2 DEF IngestJobs
  <2> QED
    BY <2>2, <2>3
<1>k. \A j \in IngestJobs : j \in 1..nJobs /\ jVersion'[j] = jVersion[j]
  BY JobsStand DEF IngestJobs
\* A run takes the version over: what it has built is what is served.
<1>1. ASSUME NEW w \in Workers, Activate(w) PROVE Undisturbed' /\ ActiveServable'
  <2> DEFINE v == VersionOf(w)
  <2>1. /\ active' = v /\ pc[w] = "activate" /\ pc[w] \in Running /\ UNCHANGED jobVars
        /\ UNCHANGED dataVars /\ UNCHANGED <<msg, nVersions>>
    BY <1>1 DEF Activate, Goto, Running, Indexed
  <2>2. /\ v \in Versions /\ v \in 1..nVersions
        /\ JobOf(w) \in IngestJobs
    BY <1>s, <2>1, IngestJob DEF Basic, JobsOfVersions, VersionOf, JobOf
  <2>3. /\ vStatus'[v] = "ready"
        /\ pc'[w] = "ready"
        /\ \A x \in Workers \ {w} : pc'[x] = pc[x]
    BY <1>1, <1>t, <2>2 DEF Activate, Goto, TypeOK
  <2>4. chunks[v] = RunOf(w) /\ index[v] = {RunOf(w)}
    BY <2>1 DEF RunsKept, Indexing, Indexed
  <2>5. ActiveServable'
    BY <2>1, <2>3, <2>4 DEF ActiveServable, dataVars
  <2>6. ASSUME NEW x \in Workers, pc'[x] \in Executing, VersionOf(x)' = v PROVE pc'[x] \in After
    <3>1. VersionOf(x) = v
      BY <2>1, <2>6 DEF VersionOf, jobVars
    <3>2. x = w
      BY <1>1, <1>s, <2>1, <2>3, <2>6, <3>1, Alone
    <3> QED
      BY <2>3, <3>2 DEF After
  <2>7. ASSUME NEW j \in IngestJobs', jVersion'[j] = v PROVE jStatus'[j] = "running"
    <3>1. j \in IngestJobs /\ jVersion[j] = v
      BY <2>1, <2>7 DEF IngestJobs, jobVars
    <3>2. j = JobOf(w)
      BY <2>2, <3>1 DEF OneJobPerVersion, VersionOf, JobOf
    <3> QED
      BY <2>1, <3>2 DEF JobsHeld, jobVars
  <2>8. active' <= nVersions'
    BY <1>t, <2>1, <2>2
  <2> QED
    BY <2>1, <2>5, <2>6, <2>7, <2>8 DEF Undisturbed
\* Any other step leaves the served version as it is.
<1>2. ASSUME \A w \in Workers : ~Activate(w) PROVE Undisturbed' /\ ActiveServable'
  <2>1. active' = active
    <3>1. \A x : FailVersion(x) => UNCHANGED active
      BY DEF FailVersion
    <3>2. AddVersion => UNCHANGED active
      BY DEF AddVersion
    <3> QED
      BY <1>2, <3>1, <3>2, DocumentFrame
         DEF docVars, UpdateStage, StageReady, DeleteCommit, RejectUnverified,
             MarkFailed, RecoverExhausted, UploadDocument, UploadVersion, RequestRetry,
             RequestDelete
  <2>2. /\ active \in 1..nVersions /\ active \in Versions /\ active' <= nVersions'
        /\ vStatus[active] = "ready" /\ index[active] = {chunks[active]}
    <3>1. active # None /\ active \in Nat
      BY <1>t, <2>1 DEF TypeOK, Versions, None
    <3> QED
      BY <1>t, <2>1, <3>1, Bounds DEF Undisturbed, ActiveServable, None
  <2>3. \A x \in Workers : pc[x] \in Executing /\ VersionOf(x) = active => pc[x] \in After
    BY <2>1 DEF Undisturbed
  <2>4. \A j \in IngestJobs : jVersion[j] = active => jStatus[j] \in {"running", "succeeded"}
    BY <2>1 DEF Undisturbed
  <2>5. \A w \in Workers, j \in IngestJobs :
          JobOf(w) = j /\ jVersion[j] = active => ~LoadClaims(w) /\ ~LoadFails(w)
    BY <2>4 DEF LoadClaims, LoadFails, Claimable, Fault
  <2>6. \A j \in Jobs :
          jVersion[j] = active => ~RecoverExhausted(j) /\ ~RecoverRequeues(j)
    BY <2>2 DEF RecoverExhausted, RecoverRequeues, Activated
  <2>7. ASSUME NEW x \in Workers, pc'[x] \in Executing, VersionOf(x)' = active
        PROVE  pc'[x] \in After
    <3>1. VersionOf(x) = active /\ JobOf(x) \in IngestJobs /\ jVersion[JobOf(x)] = active
      BY <2>7, ExecSteps DEF VersionOf, JobOf
    <3>2. pc[x] \in After
      BY <1>s, <2>3, <2>5, <2>7, <3>1, ExecSteps
    <3>3. ~StepFails(x)
      <4>1. After \cap (Before \cup Indexed) = {} /\ "chunking" \notin After
        BY DEF After, Before, Indexed, Stages
      <4> QED
        BY <3>2, <4>1 DEF StepFails, Fault
    <3>4. ~DeletingRaises(x)
      BY DEF DeletingRaises
    <3>5. ASSUME NEW c \in Workers, Receive(c) PROVE pc'[x] = pc[x]
      <4>1. pc[x] # "idle" /\ pc[c] = "idle"
        BY <3>2, <3>5 DEF Receive, After
      <4> QED
        BY <1>t, <3>5, <4>1 DEF Receive, TypeOK
    <3>6. "idle" \notin Executing /\ After \cap DeleteSteps = {}
      BY DEF Executing, Running, Before, Indexed, After, Failing, Stages, DeleteSteps, Deleting
    <3> QED
      BY <1>t, <2>7, <3>2, <3>3, <3>4, <3>5, <3>6, ProceedsStep DEF Proceeds
  <2>8. ASSUME NEW j \in IngestJobs', jVersion'[j] = active
        PROVE  jStatus'[j] \in {"running", "succeeded"}
    <3>1. j \in IngestJobs /\ j \in 1..nJobs /\ jVersion[j] = active /\ j \in Jobs
      BY <1>j, <1>k, <1>t, <2>2, <2>8, Bounds
    <3>2. jStatus[j] \in {"running", "succeeded"}
      BY <2>4, <3>1
    <3>3. ASSUME NEW w \in Workers, JobOf(w) = j
          PROVE  ~LoadClaims(w) /\ ~FailJob(w) /\ ~ScheduleRetry(w) /\ ~DeleteCommit(w)
      <4>1. VersionOf(w) = active
        BY <3>1, <3>3 DEF VersionOf, JobOf
      <4>2. ~FailJob(w)
        BY <2>3, <4>1 DEF FailJob, Executing, Running, Failing, After
      <4>3. ~ScheduleRetry(w)
        BY <2>3, <4>1 DEF ScheduleRetry, Executing, After
      <4> QED
        BY <1>d, <2>5, <3>1, <3>3, <4>2, <4>3
    <3>4. ASSUME NEW w \in Workers, JobOf(w) = j,
                 UpdateStage(w) \/ StageReady(w) \/ CompleteJob(w)
          PROVE  jStatus'[j] \in {"running", "succeeded"}
      BY <1>t, <3>1, <3>4 DEF UpdateStage, StageReady, CompleteJob, TypeOK
    <3>5. RecoverActivated(j) => jStatus'[j] = "succeeded"
      BY <1>t, <3>1 DEF RecoverActivated, TypeOK
    <3> QED
      BY <2>6, <3>1, <3>2, <3>3, <3>4, <3>5, JobsStand
  <2>9. vStatus'[active] = "ready"
    <3>1. ASSUME NEW w \in Workers, VersionOf(w) = active,
                 UpdateStage(w) \/ Activate(w) \/ StageReady(w) \/ RejectUnverified(w)
                   \/ MarkFailed(w)
          PROVE  vStatus'[active] = "ready"
      <4>1. StageReady(w)
        BY <1>2, <2>3, <3>1
           DEF UpdateStage, RejectUnverified, MarkFailed, Executing, Running, Before, Indexed,
               After, Failing, Stages
      <4> QED
        BY <1>t, <2>2, <3>1, <4>1 DEF StageReady, TypeOK
    <3>2. ~RequestRetry
      BY DEF RequestRetry
    <3> QED
      BY <2>2, <2>6, <3>1, <3>2, VersionsStand
  <2>10. chunks'[active] = chunks[active]
    <3>1. \A w \in Workers : VersionOf(w) = active => ~ReplaceChunks(w)
      BY <2>3 DEF ReplaceChunks, Executing, Running, Before, After
    <3> QED
      BY <2>2, <3>1, VersionsStand
  <2>11. index'[active] = index[active]
    <3>1. \A w \in Workers :
            VersionOf(w) = active => ~ClearIndex(w) /\ ~InsertIndex(w) /\ ~UndoIndex(w)
      BY <2>3 DEF ClearIndex, InsertIndex, UndoIndex, Executing, Running, Indexed, Failing, After
    <3>2. ~Removable(active)
      BY DEF Removable
    <3> QED
      BY <1>d, <2>2, <3>1, <3>2, VersionsStand
  <2> QED
    BY <2>1, <2>2, <2>7, <2>8, <2>9, <2>10, <2>11 DEF Undisturbed, ActiveServable
<1> QED
  BY <1>1, <1>2

\* The version users are served is complete, however its successors fail and
\* however late compensations run: without manual retries, faults of
\* load_context, failures after the activation and recovery of live jobs, and
\* when uploads do not race with the deletion of the document.
THEOREM ActiveIsServable ==
  ASSUME ~Zombies, "load" \notin Faults, "late" \notin Faults, "retry" \notin Api,
         "upload" \notin Api \/ "delete" \notin Api
  PROVE  Spec => []ActiveServable
<1> DEFINE Held == OneJobPerVersion /\ OneWorkerPerJob /\ JobsHeld
           IInv == /\ Held /\ IndexFinite /\ Unrevived
                   /\ RunsKept /\ Undisturbed /\ ActiveServable
<1>1. Init => IInv
  <2> SUFFICES ASSUME Init PROVE IInv
    OBVIOUS
  <2>1. Held
    BY DEF Init, OneJobPerVersion, OneWorkerPerJob, JobsHeld, IngestJobs, Executing, Running,
           Before, Indexed, After, Failing, Stages
  <2>2. IndexFinite
    BY FS_EmptySet DEF Init, IndexFinite
  <2>3. Unrevived
    BY DEF Init, Unrevived, DeleteJobs, BeingDeleted
  <2>4. RunsKept /\ Undisturbed /\ ActiveServable
    BY DEF Init, RunsKept, Undisturbed, ActiveServable, Indexing, Indexed
  <2> QED
    BY <2>1, <2>2, <2>3, <2>4
<1>2. Inv /\ IInv /\ [Next]_vars => IInv'
  <2> SUFFICES ASSUME Inv, IInv, [Next]_vars PROVE IInv'
    OBVIOUS
  <2>1. Basic
    BY DEF Inv
  <2>2. Unrevived' /\ (BeingDeleted => BeingDeleted')
    BY <2>1, UnrevivedStep
  <2>3. Held' /\ IndexFinite'
    BY <2>1, OneJobStep, OneWorkerStep, JobsHeldStep, IndexFiniteStep
  <2>4. RunsKept'
    BY <2>1, <2>2, RunsKeptStep
  <2>5. Undisturbed' /\ ActiveServable'
    BY <2>1, <2>2, UndisturbedStep
  <2> QED
    BY <2>2, <2>3, <2>4, <2>5
<1>3. IInv => ActiveServable
  OBVIOUS
<1> HIDE DEF IInv
<1> QED
  BY <1>1, <1>2, <1>3, Invariance, PTL DEF Spec
=============================================================================
