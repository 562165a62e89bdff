--------------------------- MODULE WikiJobsProofs ---------------------------
(***************************************************************************)
(* Proofs about wiki jobs, for every finite set of versions, any workers,  *)
(* limits, estimates, charges and numbers of attempts and faults.          *)
(***************************************************************************)
EXTENDS WikiJobs, FiniteSetTheorems, TLAPS

\* A worker that is not idle works on a version.
BusyWithVersion == \A w \in Workers : pc[w] # "idle" => ver[w] \in Versions

Basic == TypeOK /\ BusyWithVersion

LEMMA BasicStep ==
  ASSUME Basic, [Next]_vars
  PROVE  Basic'
<1> USE BoundsAssumption DEF Basic, TypeOK, BusyWithVersion, Statuses, Steps, Executing, vars,
         configVars, sourceVars, jobVars, queueVars, workerVars
<1>1. ASSUME NEW e \in BOOLEAN, NEW l \in Limits \cup {limit}, UpdateConfig(e, l) PROVE Basic'
  BY <1>1 DEF UpdateConfig, Resume, OneMore
<1>2. ASSUME NEW w \in Workers, NEW v \in Versions, Receive(w, v) PROVE Basic'
  BY <1>2 DEF Receive
<1>3. ASSUME NEW v \in Versions, ActivateReads(v) PROVE Basic'
  BY <1>3 DEF ActivateReads
<1>4. ASSUME NEW v \in Versions, ActivateCommits(v) PROVE Basic'
  BY <1>4 DEF ActivateCommits, Schedule, OneMore
<1>5. ASSUME NEW v \in Versions, DocumentBusy(v) PROVE Basic'
  BY <1>5 DEF DocumentBusy
<1>6. ASSUME NEW v \in Versions, DocumentReadyAgain(v) PROVE Basic'
  BY <1>6 DEF DocumentReadyAgain, StillUsable
<1>7. ASSUME NEW v \in Versions, RetryDue(v) PROVE Basic'
  BY <1>7 DEF RetryDue, OneMore
<1>8. ASSUME NEW v \in Versions, Duplicate(v) PROVE Basic'
  BY <1>8 DEF Duplicate, OneMore, Fault
<1>9. ASSUME NEW v \in Versions, LoseMessage(v) PROVE Basic'
  BY <1>9 DEF LoseMessage, Fault
<1>10. ASSUME NEW v \in Versions, HeartbeatExpires(v) PROVE Basic'
  BY <1>10 DEF HeartbeatExpires
<1>11. ASSUME NEW v \in Versions, RecoverStale(v) PROVE Basic'
  BY <1>11 DEF RecoverStale, OneMore
<1>12. ASSUME NEW w \in Workers, ClaimSkips(w) PROVE Basic'
  BY <1>12 DEF ClaimSkips, Ack
<1>13. ASSUME NEW w \in Workers, ClaimStops(w) PROVE Basic'
  BY <1>13 DEF ClaimStops, Ack
<1>14. ASSUME NEW w \in Workers, ClaimPublishes(w) PROVE Basic'
  BY <1>14 DEF ClaimPublishes, Goto, Proceeds
<1>15. ASSUME NEW w \in Workers, ClaimGenerates(w) PROVE Basic'
  BY <1>15 DEF ClaimGenerates, Goto, Proceeds, Released
<1>16. ASSUME NEW w \in Workers, ClaimOverBudget(w) PROVE Basic'
  BY <1>16 DEF ClaimOverBudget, Ack, Proceeds, Released
<1>17. ASSUME NEW w \in Workers, Generate(w) PROVE Basic'
  BY <1>17 DEF Generate, Goto
<1>18. ASSUME NEW w \in Workers, Settle(w) PROVE Basic'
  BY <1>18 DEF Settle, Goto, Released
<1>19. ASSUME NEW w \in Workers, Fail(w) PROVE Basic'
  BY <1>19 DEF Fail, Ack, Released
<1>20. ASSUME NEW w \in Workers, Publish(w) PROVE Basic'
  BY <1>20 DEF Publish, Ack
<1>21. ASSUME NEW w \in Workers, GenerateFails(w) PROVE Basic'
  BY <1>21 DEF GenerateFails, Goto, Fault
<1>22. ASSUME NEW w \in Workers, Raise(w) PROVE Basic'
  BY <1>22 DEF Raise, Ack, Fault
<1>23. ASSUME NEW w \in Workers, Crash(w) PROVE Basic'
  BY <1>23 DEF Crash, Ack, Fault, OneMore
<1>24. ASSUME NEW w \in Workers, TimeLimit(w) PROVE Basic'
  BY <1>24 DEF TimeLimit, Ack, Fault
<1>25. CASE UNCHANGED vars
  BY <1>25
<1>26. QED
  BY <1>1, <1>2, <1>3, <1>4, <1>5, <1>6, <1>7, <1>8, <1>9, <1>10, <1>11, <1>12, <1>13, <1>14,
       <1>15, <1>16, <1>17, <1>18, <1>19, <1>20, <1>21, <1>22, <1>23, <1>24, <1>25
     DEF Next, Documents, Queueing, WorkerStep, WorkerFault, Beat

-----------------------------------------------------------------------------
\* Steps between the claim of a job and the end of its reservation.
Generating == {"generate", "settle", "fail"}

\* A job that a worker executes is running under a fresh heartbeat.
Leases ==
  \A w \in Workers :
    pc[w] \in Executing => status[ver[w]] = "running" /\ ver[w] \notin stale

Reserved == \A w \in Workers : pc[w] \in Generating => held[ver[w]] = Estimate

Runs == OneRunPerJob /\ Leases /\ Reserved /\ GeneratedOnce

\* A job that runs under a fresh heartbeat is not claimed, its heartbeat does not
\* expire while it is executed, and only its worker changes its row; so a
\* second worker, and a second generation, never come about.
LEMMA RunsStep ==
  ASSUME Basic, Runs, ~Zombies, [Next]_vars
  PROVE  Runs'
<1> USE BoundsAssumption DEF Basic, TypeOK, BusyWithVersion, Statuses, Steps, Executing, vars,
         configVars, sourceVars, jobVars, queueVars, workerVars,
         Runs, OneRunPerJob, Leases, Reserved, GeneratedOnce, Generating
<1>1. ASSUME NEW e \in BOOLEAN, NEW l \in Limits \cup {limit}, UpdateConfig(e, l) PROVE Runs'
  BY <1>1 DEF UpdateConfig, Resume, Paused
<1>2. ASSUME NEW w \in Workers, NEW v \in Versions, Receive(w, v) PROVE Runs'
  BY <1>2 DEF Receive
<1>3. ASSUME NEW v \in Versions, ActivateReads(v) PROVE Runs'
  BY <1>3 DEF ActivateReads
<1>4. ASSUME NEW v \in Versions, ActivateCommits(v) PROVE Runs'
  BY <1>4 DEF ActivateCommits, Schedule
<1>5. ASSUME NEW v \in Versions, DocumentBusy(v) PROVE Runs'
  BY <1>5 DEF DocumentBusy
<1>6. ASSUME NEW v \in Versions, DocumentReadyAgain(v) PROVE Runs'
  BY <1>6 DEF DocumentReadyAgain
<1>7. ASSUME NEW v \in Versions, RetryDue(v) PROVE Runs'
  BY <1>7 DEF RetryDue
<1>8. ASSUME NEW v \in Versions, Duplicate(v) PROVE Runs'
  BY <1>8 DEF Duplicate
<1>9. ASSUME NEW v \in Versions, LoseMessage(v) PROVE Runs'
  BY <1>9 DEF LoseMessage
<1>10. ASSUME NEW v \in Versions, HeartbeatExpires(v) PROVE Runs'
  BY <1>10 DEF HeartbeatExpires, ExecutedBy
<1>11. ASSUME NEW v \in Versions, RecoverStale(v) PROVE Runs'
  BY <1>11 DEF RecoverStale
<1>12. ASSUME NEW w \in Workers, ClaimSkips(w) PROVE Runs'
  BY <1>12 DEF ClaimSkips, Ack
<1>13. ASSUME NEW w \in Workers, ClaimStops(w) PROVE Runs'
  BY <1>13 DEF ClaimStops, Ack, Claimable
<1>14. ASSUME NEW w \in Workers, ClaimPublishes(w) PROVE Runs'
  BY <1>14 DEF ClaimPublishes, Goto, Proceeds, Claimable
<1>15. ASSUME NEW w \in Workers, ClaimGenerates(w) PROVE Runs'
  BY <1>15 DEF ClaimGenerates, Goto, Proceeds, Claimable, HasCheckpoint
<1>16. ASSUME NEW w \in Workers, ClaimOverBudget(w) PROVE Runs'
  BY <1>16 DEF ClaimOverBudget, Ack, Proceeds, Claimable
<1>17. ASSUME NEW w \in Workers, Generate(w) PROVE Runs'
  BY <1>17 DEF Generate, Goto
<1>18. ASSUME NEW w \in Workers, Settle(w) PROVE Runs'
  BY <1>18 DEF Settle, Goto
<1>19. ASSUME NEW w \in Workers, Fail(w) PROVE Runs'
  BY <1>19 DEF Fail, Ack
<1>20. ASSUME NEW w \in Workers, Publish(w) PROVE Runs'
  BY <1>20 DEF Publish, Ack
<1>21. ASSUME NEW w \in Workers, GenerateFails(w) PROVE Runs'
  BY <1>21 DEF GenerateFails, Goto
<1>22. ASSUME NEW w \in Workers, Raise(w) PROVE Runs'
  BY <1>22 DEF Raise, Ack
<1>23. ASSUME NEW w \in Workers, Crash(w) PROVE Runs'
  BY <1>23 DEF Crash, Ack
<1>24. ASSUME NEW w \in Workers, TimeLimit(w) PROVE Runs'
  BY <1>24 DEF TimeLimit, Ack
<1>25. CASE UNCHANGED vars
  BY <1>25
<1>26. QED
  BY <1>1, <1>2, <1>3, <1>4, <1>5, <1>6, <1>7, <1>8, <1>9, <1>10, <1>11, <1>12, <1>13, <1>14,
       <1>15, <1>16, <1>17, <1>18, <1>19, <1>20, <1>21, <1>22, <1>23, <1>24, <1>25
     DEF Next, Documents, Queueing, WorkerStep, WorkerFault, Beat

-----------------------------------------------------------------------------
\* Whoever takes the last message of a waiting job goes on to claim it.
LEMMA WaitingStep ==
  ASSUME Basic, WaitingHasMessage, [Next]_vars
  PROVE  WaitingHasMessage'
<1> USE BoundsAssumption DEF Basic, TypeOK, BusyWithVersion, Statuses, Steps, Executing, vars,
         configVars, sourceVars, jobVars, queueVars, workerVars,
         WaitingHasMessage, Waiting
<1>1. ASSUME NEW e \in BOOLEAN, NEW l \in Limits \cup {limit}, UpdateConfig(e,
    l) PROVE WaitingHasMessage'
  BY <1>1 DEF UpdateConfig, Resume, OneMore
<1>2. ASSUME NEW w \in Workers, NEW v \in Versions, Receive(w, v) PROVE WaitingHasMessage'
  BY <1>2 DEF Receive
<1>3. ASSUME NEW v \in Versions, ActivateReads(v) PROVE WaitingHasMessage'
  BY <1>3 DEF ActivateReads
<1>4. ASSUME NEW v \in Versions, ActivateCommits(v) PROVE WaitingHasMessage'
  BY <1>4 DEF ActivateCommits, Schedule, OneMore
<1>5. ASSUME NEW v \in Versions, DocumentBusy(v) PROVE WaitingHasMessage'
  BY <1>5 DEF DocumentBusy
<1>6. ASSUME NEW v \in Versions, DocumentReadyAgain(v) PROVE WaitingHasMessage'
  BY <1>6 DEF DocumentReadyAgain
<1>7. ASSUME NEW v \in Versions, RetryDue(v) PROVE WaitingHasMessage'
  BY <1>7 DEF RetryDue, OneMore
<1>8. ASSUME NEW v \in Versions, Duplicate(v) PROVE WaitingHasMessage'
  BY <1>8 DEF Duplicate, OneMore
<1>9. ASSUME NEW v \in Versions, LoseMessage(v) PROVE WaitingHasMessage'
  BY <1>9 DEF LoseMessage
<1>10. ASSUME NEW v \in Versions, HeartbeatExpires(v) PROVE WaitingHasMessage'
  BY <1>10 DEF HeartbeatExpires
<1>11. ASSUME NEW v \in Versions, RecoverStale(v) PROVE WaitingHasMessage'
  BY <1>11 DEF RecoverStale, OneMore
<1>12. ASSUME NEW w \in Workers, ClaimSkips(w) PROVE WaitingHasMessage'
  BY <1>12 DEF ClaimSkips, Ack, Claimable
<1>13. ASSUME NEW w \in Workers, ClaimStops(w) PROVE WaitingHasMessage'
  BY <1>13 DEF ClaimStops, Ack
<1>14. ASSUME NEW w \in Workers, ClaimPublishes(w) PROVE WaitingHasMessage'
  BY <1>14 DEF ClaimPublishes, Goto
<1>15. ASSUME NEW w \in Workers, ClaimGenerates(w) PROVE WaitingHasMessage'
  BY <1>15 DEF ClaimGenerates, Goto
<1>16. ASSUME NEW w \in Workers, ClaimOverBudget(w) PROVE WaitingHasMessage'
  BY <1>16 DEF ClaimOverBudget, Ack
<1>17. ASSUME NEW w \in Workers, Generate(w) PROVE WaitingHasMessage'
  BY <1>17 DEF Generate, Goto
<1>18. ASSUME NEW w \in Workers, Settle(w) PROVE WaitingHasMessage'
  BY <1>18 DEF Settle, Goto
<1>19. ASSUME NEW w \in Workers, Fail(w) PROVE WaitingHasMessage'
  BY <1>19 DEF Fail, Ack
<1>20. ASSUME NEW w \in Workers, Publish(w) PROVE WaitingHasMessage'
  BY <1>20 DEF Publish, Ack
<1>21. ASSUME NEW w \in Workers, GenerateFails(w) PROVE WaitingHasMessage'
  BY <1>21 DEF GenerateFails, Goto
<1>22. ASSUME NEW w \in Workers, Raise(w) PROVE WaitingHasMessage'
  BY <1>22 DEF Raise, Ack
<1>23. ASSUME NEW w \in Workers, Crash(w) PROVE WaitingHasMessage'
  BY <1>23 DEF Crash, Ack, OneMore
<1>24. ASSUME NEW w \in Workers, TimeLimit(w) PROVE WaitingHasMessage'
  BY <1>24 DEF TimeLimit, Ack
<1>25. CASE UNCHANGED vars
  BY <1>25
<1>26. QED
  BY <1>1, <1>2, <1>3, <1>4, <1>5, <1>6, <1>7, <1>8, <1>9, <1>10, <1>11, <1>12, <1>13, <1>14,
       <1>15, <1>16, <1>17, <1>18, <1>19, <1>20, <1>21, <1>22, <1>23, <1>24, <1>25
     DEF Next, Documents, Queueing, WorkerStep, WorkerFault, Beat

-----------------------------------------------------------------------------
\* Reservations: reserved is Estimate times the number of jobs with one.
LEMMA ReservingFinite == IsFiniteSet(Reserving) /\ Cardinality(Reserving) \in Nat
<1>1. IsFiniteSet(Reserving)
  BY FS_Subset, BoundsAssumption DEF Reserving
<1>2. QED
  BY <1>1, FS_CardinalityType

\* The max(0, ...) of a release takes off the reservation of v and nothing more.
LEMMA ReleaseIsExact ==
  ASSUME TypeOK, ReservationsMatch, NEW v \in Versions
  PROVE  /\ Released(v) = Estimate * Cardinality(Reserving \ {v})
         /\ Released(v) + held[v] = reserved
<1> DEFINE n == Cardinality(Reserving)
           m == Cardinality(Reserving \ {v})
<1>1. n \in Nat /\ m = IF v \in Reserving THEN n - 1 ELSE n
  BY ReservingFinite, FS_RemoveElement
<1>2. m \in Nat
  BY ReservingFinite, FS_RemoveElement, FS_CardinalityType
<1>3. reserved = Estimate * n /\ Estimate \in Nat \ {0}
  BY BoundsAssumption DEF ReservationsMatch
<1> HIDE DEF n, m
<1>4. CASE v \in Reserving
  <2>1. n = m + 1 /\ held[v] = Estimate
    BY <1>1, <1>2, <1>4 DEF Reserving, TypeOK
  <2>2. reserved = Estimate * m + Estimate
    BY <1>2, <1>3, <2>1
  <2>3. Estimate * m \in Nat
    BY <1>2, <1>3
  <2>4. Released(v) = Estimate * m /\ Released(v) + held[v] = reserved
    BY <1>3, <2>1, <2>2, <2>3 DEF Released
  <2>5. QED
    BY <2>4 DEF m
<1>5. CASE v \notin Reserving
  <2>1. n = m /\ held[v] = 0
    BY <1>1, <1>5 DEF Reserving
  <2>2. reserved = Estimate * m /\ reserved \in Nat
    BY <1>3, <2>1 DEF TypeOK
  <2>3. Released(v) = Estimate * m /\ Released(v) + held[v] = reserved
    BY <2>1, <2>2 DEF Released
  <2>4. QED
    BY <2>3 DEF m
<1>6. QED
  BY <1>4, <1>5

\* Releasing a reservation, and replacing it by a new one, keep the sum.
LEMMA SumAfterRelease ==
  ASSUME TypeOK, ReservationsMatch, NEW v \in Versions,
         reserved' = Released(v), held' = [held EXCEPT ![v] = 0]
  PROVE  ReservationsMatch'
<1>1. Reserving' = Reserving \ {v}
  BY DEF Reserving, TypeOK
<1>2. QED
  BY <1>1, ReleaseIsExact DEF ReservationsMatch

LEMMA SumAfterClaim ==
  ASSUME TypeOK, ReservationsMatch, NEW v \in Versions,
         reserved' = Released(v) + Estimate, held' = [held EXCEPT ![v] = Estimate]
  PROVE  ReservationsMatch'
<1> DEFINE m == Cardinality(Reserving \ {v})
<1>1. Reserving' = (Reserving \ {v}) \cup {v}
  BY BoundsAssumption DEF Reserving, TypeOK
<1>2. m \in Nat /\ Cardinality(Reserving') = m + 1
  BY <1>1, ReservingFinite, FS_RemoveElement, FS_AddElement, FS_CardinalityType
<1>3. reserved' = Estimate * m + Estimate
  BY ReleaseIsExact
<1> HIDE DEF m
<1>4. Estimate * m + Estimate = Estimate * (m + 1)
  BY <1>2, BoundsAssumption
<1>5. QED
  BY <1>2, <1>3, <1>4 DEF ReservationsMatch

\* Claims, settlements and failures change the sum; nothing else does.
LEMMA SumStep ==
  ASSUME Basic, ReservationsMatch, [Next]_vars
  PROVE  ReservationsMatch'
<1>1. ASSUME NEW e \in BOOLEAN, NEW l \in Limits \cup {limit}, UpdateConfig(e,
    l) PROVE ReservationsMatch'
  BY <1>1 DEF UpdateConfig, ReservationsMatch, Reserving
<1>2. ASSUME NEW w \in Workers, NEW v \in Versions, Receive(w, v) PROVE ReservationsMatch'
  BY <1>2 DEF Receive, ReservationsMatch, Reserving, configVars, jobVars
<1>3. ASSUME NEW v \in Versions, ActivateReads(v) PROVE ReservationsMatch'
  BY <1>3 DEF ActivateReads, ReservationsMatch, Reserving, configVars, jobVars
<1>4. ASSUME NEW v \in Versions, ActivateCommits(v) PROVE ReservationsMatch'
  BY <1>4 DEF ActivateCommits, ReservationsMatch, Reserving, configVars
<1>5. ASSUME NEW v \in Versions, DocumentBusy(v) PROVE ReservationsMatch'
  BY <1>5 DEF DocumentBusy, ReservationsMatch, Reserving, configVars, jobVars
<1>6. ASSUME NEW v \in Versions, DocumentReadyAgain(v) PROVE ReservationsMatch'
  BY <1>6 DEF DocumentReadyAgain, ReservationsMatch, Reserving, configVars, jobVars
<1>7. ASSUME NEW v \in Versions, RetryDue(v) PROVE ReservationsMatch'
  BY <1>7 DEF RetryDue, ReservationsMatch, Reserving, configVars, jobVars
<1>8. ASSUME NEW v \in Versions, Duplicate(v) PROVE ReservationsMatch'
  BY <1>8 DEF Duplicate, ReservationsMatch, Reserving, configVars, jobVars
<1>9. ASSUME NEW v \in Versions, LoseMessage(v) PROVE ReservationsMatch'
  BY <1>9 DEF LoseMessage, ReservationsMatch, Reserving, configVars, jobVars
<1>10. ASSUME NEW v \in Versions, HeartbeatExpires(v) PROVE ReservationsMatch'
  BY <1>10 DEF HeartbeatExpires, ReservationsMatch, Reserving, configVars
<1>11. ASSUME NEW v \in Versions, RecoverStale(v) PROVE ReservationsMatch'
  BY <1>11 DEF RecoverStale, ReservationsMatch, Reserving, configVars, jobVars
<1>12. ASSUME NEW w \in Workers, ClaimSkips(w) PROVE ReservationsMatch'
  BY <1>12 DEF ClaimSkips, ReservationsMatch, Reserving, configVars, jobVars
<1>13. ASSUME NEW w \in Workers, ClaimStops(w) PROVE ReservationsMatch'
  BY <1>13 DEF ClaimStops, ReservationsMatch, Reserving, configVars
<1>14. ASSUME NEW w \in Workers, ClaimPublishes(w) PROVE ReservationsMatch'
  BY <1>14 DEF ClaimPublishes, ReservationsMatch, Reserving, configVars
<1>15. ASSUME NEW w \in Workers, ClaimGenerates(w) PROVE ReservationsMatch'
  <2>1. ver[w] \in Versions
    BY <1>15 DEF Basic, BusyWithVersion, ClaimGenerates, Proceeds
  <2>2. QED
    BY <1>15, <2>1, SumAfterClaim DEF Basic, ClaimGenerates
<1>16. ASSUME NEW w \in Workers, ClaimOverBudget(w) PROVE ReservationsMatch'
  <2>1. ver[w] \in Versions
    BY <1>16 DEF Basic, BusyWithVersion, ClaimOverBudget, Proceeds
  <2>2. QED
    BY <1>16, <2>1, SumAfterRelease DEF Basic, ClaimOverBudget
<1>17. ASSUME NEW w \in Workers, Generate(w) PROVE ReservationsMatch'
  BY <1>17 DEF Generate, ReservationsMatch, Reserving, configVars, jobVars
<1>18. ASSUME NEW w \in Workers, Settle(w) PROVE ReservationsMatch'
  <2>1. ver[w] \in Versions
    BY <1>18 DEF Basic, BusyWithVersion, Settle
  <2>2. QED
    BY <1>18, <2>1, SumAfterRelease DEF Basic, Settle
<1>19. ASSUME NEW w \in Workers, Fail(w) PROVE ReservationsMatch'
  <2>1. ver[w] \in Versions
    BY <1>19 DEF Basic, BusyWithVersion, Fail
  <2>2. CASE RetryKeyTaken(ver[w])
    BY <1>19, <2>2 DEF Fail, ReservationsMatch, Reserving
  <2>3. CASE ~RetryKeyTaken(ver[w])
    BY <1>19, <2>1, <2>3, SumAfterRelease DEF Basic, Fail
  <2>4. QED
    BY <2>2, <2>3
<1>20. ASSUME NEW w \in Workers, Publish(w) PROVE ReservationsMatch'
  BY <1>20 DEF Publish, ReservationsMatch, Reserving, configVars
<1>21. ASSUME NEW w \in Workers, GenerateFails(w) PROVE ReservationsMatch'
  BY <1>21 DEF GenerateFails, ReservationsMatch, Reserving, configVars, jobVars
<1>22. ASSUME NEW w \in Workers, Raise(w) PROVE ReservationsMatch'
  BY <1>22 DEF Raise, ReservationsMatch, Reserving, configVars, jobVars
<1>23. ASSUME NEW w \in Workers, Crash(w) PROVE ReservationsMatch'
  BY <1>23 DEF Crash, ReservationsMatch, Reserving, configVars, jobVars
<1>24. ASSUME NEW w \in Workers, TimeLimit(w) PROVE ReservationsMatch'
  BY <1>24 DEF TimeLimit, ReservationsMatch, Reserving, configVars, jobVars
<1>25. CASE UNCHANGED vars
  BY <1>25 DEF vars, ReservationsMatch, Reserving, configVars, jobVars
<1>26. QED
  BY <1>1, <1>2, <1>3, <1>4, <1>5, <1>6, <1>7, <1>8, <1>9, <1>10, <1>11, <1>12, <1>13, <1>14,
       <1>15, <1>16, <1>17, <1>18, <1>19, <1>20, <1>21, <1>22, <1>23, <1>24, <1>25
     DEF Next, Documents, Queueing, WorkerStep, WorkerFault, Beat

-----------------------------------------------------------------------------
LEMMA BudgetNumbers ==
  ASSUME TypeOK
  PROVE  /\ charged \in Nat /\ limit \in Nat /\ reserved \in Nat
         /\ \A v \in Versions : Released(v) \in Nat /\ Released(v) <= reserved
<1>1. ASSUME NEW v \in Versions PROVE held[v] \in Nat
  BY BoundsAssumption DEF TypeOK
<1>2. QED
  BY <1>1 DEF TypeOK, Released

\* The reservation covers the charge, and a claim, a release and a new limit
\* are tested against what is charged and reserved.
LEMMA BudgetStep ==
  ASSUME Basic, ReservationsMatch, Runs, BudgetKept, ~Zombies,
         \A c \in Charges : c <= Estimate, [Next]_vars
  PROVE  BudgetKept'
<1>1. ASSUME NEW e \in BOOLEAN, NEW l \in Limits \cup {limit}, UpdateConfig(e,
    l) PROVE BudgetKept'
  BY <1>1 DEF UpdateConfig, LimitAdmitted, BudgetKept
<1>2. ASSUME NEW w \in Workers, NEW v \in Versions, Receive(w, v) PROVE BudgetKept'
  BY <1>2 DEF Receive, BudgetKept, configVars
<1>3. ASSUME NEW v \in Versions, ActivateReads(v) PROVE BudgetKept'
  BY <1>3 DEF ActivateReads, BudgetKept, configVars
<1>4. ASSUME NEW v \in Versions, ActivateCommits(v) PROVE BudgetKept'
  BY <1>4 DEF ActivateCommits, BudgetKept, configVars
<1>5. ASSUME NEW v \in Versions, DocumentBusy(v) PROVE BudgetKept'
  BY <1>5 DEF DocumentBusy, BudgetKept, configVars
<1>6. ASSUME NEW v \in Versions, DocumentReadyAgain(v) PROVE BudgetKept'
  BY <1>6 DEF DocumentReadyAgain, BudgetKept, configVars
<1>7. ASSUME NEW v \in Versions, RetryDue(v) PROVE BudgetKept'
  BY <1>7 DEF RetryDue, BudgetKept, configVars
<1>8. ASSUME NEW v \in Versions, Duplicate(v) PROVE BudgetKept'
  BY <1>8 DEF Duplicate, BudgetKept, configVars
<1>9. ASSUME NEW v \in Versions, LoseMessage(v) PROVE BudgetKept'
  BY <1>9 DEF LoseMessage, BudgetKept, configVars
<1>10. ASSUME NEW v \in Versions, HeartbeatExpires(v) PROVE BudgetKept'
  BY <1>10 DEF HeartbeatExpires, BudgetKept, configVars
<1>11. ASSUME NEW v \in Versions, RecoverStale(v) PROVE BudgetKept'
  BY <1>11 DEF RecoverStale, BudgetKept, configVars
<1>12. ASSUME NEW w \in Workers, ClaimSkips(w) PROVE BudgetKept'
  BY <1>12 DEF ClaimSkips, BudgetKept, configVars
<1>13. ASSUME NEW w \in Workers, ClaimStops(w) PROVE BudgetKept'
  BY <1>13 DEF ClaimStops, BudgetKept, configVars
<1>14. ASSUME NEW w \in Workers, ClaimPublishes(w) PROVE BudgetKept'
  BY <1>14 DEF ClaimPublishes, BudgetKept, configVars
<1>15. ASSUME NEW w \in Workers, ClaimGenerates(w) PROVE BudgetKept'
  <2>1. /\ charged + Released(ver[w]) + Estimate <= limit
        /\ reserved' = Released(ver[w]) + Estimate
        /\ charged' = charged /\ limit' = limit
    BY <1>15 DEF ClaimGenerates, Fits
  <2>2. Released(ver[w]) \in Nat
    <3>1. ver[w] \in Versions
      BY <1>15 DEF Basic, BusyWithVersion, ClaimGenerates, Proceeds
    <3>2. QED
      BY <3>1, BudgetNumbers DEF Basic
  <2>3. QED
    BY <2>1, <2>2, BudgetNumbers, BoundsAssumption DEF BudgetKept, Basic
<1>16. ASSUME NEW w \in Workers, ClaimOverBudget(w) PROVE BudgetKept'
  <2>1. ver[w] \in Versions /\ reserved' = Released(ver[w])
    BY <1>16 DEF Basic, BusyWithVersion, ClaimOverBudget, Proceeds
  <2>2. reserved' <= reserved /\ reserved' \in Nat
    BY <2>1, BudgetNumbers DEF Basic
  <2>3. QED
    BY <1>16, <2>2, BudgetNumbers DEF ClaimOverBudget, BudgetKept, Basic
<1>17. ASSUME NEW w \in Workers, Generate(w) PROVE BudgetKept'
  BY <1>17 DEF Generate, BudgetKept, configVars
<1>18. ASSUME NEW w \in Workers, Settle(w) PROVE BudgetKept'
  <2>1. ver[w] \in Versions /\ held[ver[w]] = Estimate
    BY <1>18 DEF Basic, BusyWithVersion, Settle, Runs, Reserved, Generating
  <2>2. reserved' + Estimate = reserved /\ reserved' \in Nat
    BY <1>18, <2>1, BasicStep, ReleaseIsExact DEF Basic, TypeOK, Settle
  <2>3. charged' <= charged + Estimate /\ charged' \in Nat
    BY <1>18, BasicStep, BoundsAssumption DEF Basic, TypeOK, Settle
  <2>4. QED
    BY <1>18, <2>2, <2>3, BudgetNumbers, BoundsAssumption DEF Settle, BudgetKept, Basic
<1>19. ASSUME NEW w \in Workers, Fail(w) PROVE BudgetKept'
  <2>1. ver[w] \in Versions
    BY <1>19 DEF Basic, BusyWithVersion, Fail
  <2>2. reserved' <= reserved /\ reserved' \in Nat
    BY <1>19, <2>1, BudgetNumbers DEF Fail, Basic
  <2>3. QED
    <3>1. charged' = charged /\ limit' = limit
      BY <1>19 DEF Fail
    <3>2. QED
      BY <2>2, <3>1, BudgetNumbers DEF BudgetKept, Basic
<1>20. ASSUME NEW w \in Workers, Publish(w) PROVE BudgetKept'
  BY <1>20 DEF Publish, BudgetKept, configVars
<1>21. ASSUME NEW w \in Workers, GenerateFails(w) PROVE BudgetKept'
  BY <1>21 DEF GenerateFails, BudgetKept, configVars
<1>22. ASSUME NEW w \in Workers, Raise(w) PROVE BudgetKept'
  BY <1>22 DEF Raise, BudgetKept, configVars
<1>23. ASSUME NEW w \in Workers, Crash(w) PROVE BudgetKept'
  BY <1>23 DEF Crash, BudgetKept, configVars
<1>24. ASSUME NEW w \in Workers, TimeLimit(w) PROVE BudgetKept'
  BY <1>24 DEF TimeLimit, BudgetKept, configVars
<1>25. CASE UNCHANGED vars
  BY <1>25 DEF vars, BudgetKept, configVars
<1>26. QED
  BY <1>1, <1>2, <1>3, <1>4, <1>5, <1>6, <1>7, <1>8, <1>9, <1>10, <1>11, <1>12, <1>13, <1>14,
       <1>15, <1>16, <1>17, <1>18, <1>19, <1>20, <1>21, <1>22, <1>23, <1>24, <1>25
     DEF Next, Documents, Queueing, WorkerStep, WorkerFault, Beat

-----------------------------------------------------------------------------
\* The theorems.
LEMMA InitHolds == Init => Basic /\ Runs /\ WaitingHasMessage /\ ReservationsMatch /\ BudgetKept
<1> SUFFICES ASSUME Init PROVE Basic /\ Runs /\ WaitingHasMessage /\ ReservationsMatch /\ BudgetKept
  OBVIOUS
<1>1. Basic
  <2>1. 0 \in {0, Estimate} /\ 0 \in 0..MaxMessages /\ 0 \in 0..MaxFaults
    BY BoundsAssumption
  <2>2. QED
    BY <2>1 DEF Init, Basic, TypeOK, BusyWithVersion, Statuses, Steps
<1>2. Runs
  BY DEF Init, Runs, OneRunPerJob, Leases, Reserved, GeneratedOnce, Generating, Executing
<1>3. WaitingHasMessage
  BY DEF Init, WaitingHasMessage, Waiting
<1>4. ReservationsMatch
  <2>1. Reserving = {}
    BY DEF Init, Reserving
  <2>2. QED
    BY <2>1, FS_EmptySet, BoundsAssumption DEF Init, ReservationsMatch
<1>5. BudgetKept
  BY DEF Init, BudgetKept
<1>6. QED
  BY <1>1, <1>2, <1>3, <1>4, <1>5

LEMMA BasicHolds == Spec => []Basic
<1>1. Basic /\ [Next]_vars => Basic'
  BY BasicStep
<1>2. QED
  BY <1>1, InitHolds, PTL DEF Spec

\* Scheduling, claims, settlement, retries, recovery and switches of the wiki
\* keep rows, queue and workers well-typed (wiki/processor.py, service.py).
THEOREM Typing == Spec => []TypeOK
<1>1. Basic => TypeOK
  BY DEF Basic
<1>2. QED
  BY <1>1, BasicHolds, PTL

\* A pending or retrying job has a message on its way, unless one was lost
\* (_claim, _fail, update_config, schedule_document_wiki).
THEOREM WaitingJobsHaveMessages == Spec => []WaitingHasMessage
<1>1. Basic /\ WaitingHasMessage /\ [Next]_vars => WaitingHasMessage'
  BY WaitingStep
<1>2. QED
  BY <1>1, InitHolds, BasicHolds, PTL DEF Spec

\* tokens_reserved is the sum of the reservations of the jobs, also when live
\* jobs are taken over (_claim, _settle, _fail).
THEOREM ReservationsAreExact == Spec => []ReservationsMatch
<1>1. Basic /\ ReservationsMatch /\ [Next]_vars => ReservationsMatch'
  BY SumStep
<1>2. QED
  BY <1>1, InitHolds, BasicHolds, PTL DEF Spec

LEMMA RunsHold == ASSUME ~Zombies PROVE Spec => []Runs
<1>1. Basic /\ Runs /\ [Next]_vars => Runs'
  BY RunsStep
<1>2. QED
  BY <1>1, InitHolds, BasicHolds, PTL DEF Spec

\* As long as no heartbeat expires under a living worker, two workers never
\* execute one job (_claim, recover_stale).
THEOREM OneWorkerPerJob == ASSUME ~Zombies PROVE Spec => []OneRunPerJob
<1>1. Runs => OneRunPerJob
  BY DEF Runs
<1>2. QED
  BY <1>1, RunsHold, PTL

\* As long as no heartbeat expires under a living worker, a job whose
\* generation is charged does not call the model again (_claim, _settle).
THEOREM ChargedGenerationsStand == ASSUME ~Zombies PROVE Spec => []GeneratedOnce
<1>1. Runs => GeneratedOnce
  BY DEF Runs
<1>2. QED
  BY <1>1, RunsHold, PTL

\* If no generation costs more than its estimate and no heartbeat expires under
\* a living worker, charges and reservations stay within the limit of the user
\* (_claim, _settle, _fail, update_config).
THEOREM BudgetHolds ==
  ASSUME ~Zombies, \A c \in Charges : c <= Estimate
  PROVE  Spec => []BudgetKept
<1>1. Basic /\ ReservationsMatch /\ Runs /\ BudgetKept /\ [Next]_vars => BudgetKept'
  BY BudgetStep
<1>2. QED
  BY <1>1, InitHolds, BasicHolds, ReservationsAreExact, RunsHold, PTL DEF Spec
=============================================================================
