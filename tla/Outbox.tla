------------------------------- MODULE Outbox -------------------------------
(***************************************************************************)
(* The durable outbox (knowledge/infrastructure/jobs/outbox.py): Celery    *)
(* Beat starts dispatch_outbox every two seconds, several runs of it may   *)
(* overlap, and each run claims due rows under a two-minute lease, sends   *)
(* them to the broker one by one and records the outcome of each.          *)
(*                                                                         *)
(* Time is abstracted to one bit per row: due[e] is available_at <= now.   *)
(* A claim and a failure move available_at into the future (due = FALSE);  *)
(* BecomesDue(e) is the moment the clock passes it.                        *)
(***************************************************************************)
EXTENDS Naturals, FiniteSets

CONSTANTS
  Events,         \* the events business transactions may commit
  NoEvent,        \* stands for no event
  Dispatchers,    \* concurrent runs of dispatch_outbox
  Limit,          \* rows one claim may take (100 in the code)
  MaxFaults       \* bound on crashes, broker errors and overrun leases

ASSUME NoEventAssumption == NoEvent \notin Events
ASSUME LimitAssumption == Limit \in Nat \ {0}
ASSUME FaultsAssumption == MaxFaults \in Nat

VARIABLES
  status,   \* status[e]: outbox_events.status, "absent" before the commit
  due,      \* due[e]: available_at <= now
  broker,   \* messages waiting in the queue
  sends,    \* sends[e]: how often the broker accepted e (history)
  pc,       \* pc[d]: where a dispatcher stands in dispatch_once
  batch,    \* batch[d]: claimed events it has not tried to publish yet
  current,  \* current[d]: the event whose outcome it is about to record
  faults,   \* faults so far (bounded by MaxFaults)
  overrun   \* some claim has outlived its lease while its holder ran (history)

vars == <<status, due, broker, sends, pc, batch, current, faults, overrun>>

Statuses == {"absent", "pending", "processing", "published"}
Steps == {"idle", "publish", "mark_published", "mark_failed"}

TypeOK ==
  /\ status \in [Events -> Statuses]
  /\ due \in [Events -> BOOLEAN]
  /\ broker \subseteq Events
  /\ sends \in [Events -> Nat]
  /\ pc \in [Dispatchers -> Steps]
  /\ batch \in [Dispatchers -> SUBSET Events]
  /\ current \in [Dispatchers -> Events \cup {NoEvent}]
  /\ faults \in 0..MaxFaults
  /\ overrun \in BOOLEAN

Init ==
  /\ status = [e \in Events |-> "absent"]
  /\ due = [e \in Events |-> FALSE]
  /\ broker = {}
  /\ sends = [e \in Events |-> 0]
  /\ pc = [d \in Dispatchers |-> "idle"]
  /\ batch = [d \in Dispatchers |-> {}]
  /\ current = [d \in Dispatchers |-> NoEvent]
  /\ faults = 0
  /\ overrun = FALSE

Fault == faults < MaxFaults /\ faults' = faults + 1

\* The claimed events a dispatcher still has to settle.
Holds(d) == batch[d] \cup (IF current[d] = NoEvent THEN {} ELSE {current[d]})

-----------------------------------------------------------------------------
\* A business transaction inserts a pending row; retries and compensations
\* set available_at in the future.
Commit(e) ==
  /\ status[e] = "absent"
  /\ status' = [status EXCEPT ![e] = "pending"]
  /\ due' \in {[due EXCEPT ![e] = b] : b \in BOOLEAN}
  /\ UNCHANGED <<broker, sends, pc, batch, current, faults, overrun>>

\* The clock reaches available_at: a back-off ends or a lease expires, maybe
\* while the run that claimed the row still works on its batch.
BecomesDue(e) ==
  /\ status[e] \in {"pending", "processing"}
  /\ ~due[e]
  /\ due' = [due EXCEPT ![e] = TRUE]
  /\ IF \E d \in Dispatchers : e \in Holds(d)
       THEN Fault /\ overrun' = TRUE
       ELSE UNCHANGED <<faults, overrun>>
  /\ UNCHANGED <<status, broker, sends, pc, batch, current>>

\* Mutants: crashed claims are never taken again; the lease is not looked at.
ClaimablePendingOnly == {e \in Events : status[e] = "pending" /\ due[e]}
ClaimableAnyTime == {e \in Events : status[e] \in {"pending", "processing"}}

\* Rows claim_pending's WHERE clause selects.
Claimable == {e \in Events : status[e] \in {"pending", "processing"} /\ due[e]}

\* At most Limit rows are taken, and all of them when there are fewer.
Claims == {S \in SUBSET Claimable :
             /\ S # {}
             /\ Cardinality(S) <= Limit
             /\ Cardinality(S) < Limit => S = Claimable}

\* Mutant: the claim does not move available_at.
ClaimWithoutLease(d) ==
  /\ pc[d] = "idle"
  /\ \E S \in Claims :
       /\ status' = [e \in Events |-> IF e \in S THEN "processing" ELSE status[e]]
       /\ batch' = [batch EXCEPT ![d] = S]
  /\ pc' = [pc EXCEPT ![d] = "publish"]
  /\ UNCHANGED <<due, broker, sends, current, faults, overrun>>

ClaimPending(d) ==
  /\ pc[d] = "idle"
  /\ \E S \in Claims :
       /\ status' = [e \in Events |-> IF e \in S THEN "processing" ELSE status[e]]
       /\ due' = [e \in Events |-> IF e \in S THEN FALSE ELSE due[e]]
       /\ batch' = [batch EXCEPT ![d] = S]
  /\ pc' = [pc EXCEPT ![d] = "publish"]
  /\ UNCHANGED <<broker, sends, current, faults, overrun>>

\* The next event of the batch leaves it; outcome names what is recorded next.
Take(d, e, outcome) ==
  /\ pc[d] = "publish"
  /\ e \in batch[d]
  /\ batch' = [batch EXCEPT ![d] = @ \ {e}]
  /\ current' = [current EXCEPT ![d] = e]
  /\ pc' = [pc EXCEPT ![d] = outcome]

Send(e) ==
  /\ broker' = broker \cup {e}
  /\ sends' = [sends EXCEPT ![e] = @ + 1]

PublishSucceeds(d, e) ==
  /\ Take(d, e, "mark_published")
  /\ Send(e)
  /\ UNCHANGED <<status, due, faults, overrun>>

\* Mutant: the broker error is swallowed and the row written off.
PublishSwallows(d, e) ==
  /\ Take(d, e, "mark_published")
  /\ Fault
  /\ Send(e) \/ UNCHANGED <<broker, sends>>
  /\ UNCHANGED <<status, due, overrun>>

\* send_task raises; the broker may nevertheless have accepted the message.
PublishRaises(d, e) ==
  /\ Take(d, e, "mark_failed")
  /\ Fault
  /\ Send(e) \/ UNCHANGED <<broker, sends>>
  /\ UNCHANGED <<status, due, overrun>>

\* Back to the for loop, or out of it when the batch is empty.
Continue(d) ==
  /\ pc' = [pc EXCEPT ![d] = IF batch[d] = {} THEN "idle" ELSE "publish"]
  /\ current' = [current EXCEPT ![d] = NoEvent]
  /\ UNCHANGED batch

MarkPublished(d) ==
  /\ pc[d] = "mark_published"
  /\ status' = [status EXCEPT ![current[d]] = "published"]
  /\ Continue(d)
  /\ UNCHANGED <<due, broker, sends, faults, overrun>>

\* Unconditional, whatever became of the row since it was claimed.
MarkFailed(d) ==
  /\ pc[d] = "mark_failed"
  /\ status' = [status EXCEPT ![current[d]] = "pending"]
  /\ due' = [due EXCEPT ![current[d]] = FALSE]
  /\ Continue(d)
  /\ UNCHANGED <<broker, sends, faults, overrun>>

\* The process dies, or recording an outcome raises out of the loop: the rest
\* of the batch stays processing until its lease expires.
Crash(d) ==
  /\ pc[d] # "idle"
  /\ Fault
  /\ pc' = [pc EXCEPT ![d] = "idle"]
  /\ batch' = [batch EXCEPT ![d] = {}]
  /\ current' = [current EXCEPT ![d] = NoEvent]
  /\ UNCHANGED <<status, due, broker, sends, overrun>>

Consume(e) ==
  /\ e \in broker
  /\ broker' = broker \ {e}
  /\ UNCHANGED <<status, due, sends, pc, batch, current, faults, overrun>>

Publish(d) == \E e \in Events : PublishSucceeds(d, e)

Next ==
  \/ \E e \in Events : Commit(e) \/ BecomesDue(e) \/ Consume(e)
  \/ \E d \in Dispatchers :
       \/ ClaimPending(d)
       \/ \E e \in Events : PublishSucceeds(d, e) \/ PublishRaises(d, e)
       \/ MarkPublished(d)
       \/ MarkFailed(d)
       \/ Crash(d)

Spec == Init /\ [][Next]_vars

\* Beat keeps starting dispatch_outbox, a started run keeps running unless it
\* crashes, and the clock advances.
Fairness ==
  /\ \A e \in Events : WF_vars(BecomesDue(e))
  /\ WF_vars(\E d \in Dispatchers : ClaimPending(d))
  /\ \A d \in Dispatchers :
       WF_vars(Publish(d)) /\ WF_vars(MarkPublished(d)) /\ WF_vars(MarkFailed(d))

FairSpec == Spec /\ Fairness
-----------------------------------------------------------------------------
\* No event is written off unsent: a row dispatchers no longer look at has
\* reached the broker, whatever dispatchers crashed or overlapped
\* (publish before mark_published, and only on success, in dispatch_once).
PublishedWasSent ==
  \A e \in Events : status[e] = "published" => sends[e] > 0

\* As long as no run has outlived its lease, a row is in the hands of one
\* dispatcher at most: claim_pending moves available_at past the lease.
ExclusiveClaims ==
  ~overrun =>
    \A d1, d2 \in Dispatchers : d1 # d2 => Holds(d1) \cap Holds(d2) = {}

\* Duplicates are paid for by faults: an event is handed to the broker at
\* most once more than there were crashes, broker errors and overruns.
DuplicatesNeedFaults ==
  \A e \in Events : sends[e] <= 1 + faults

\* Every committed event reaches the broker, also after crashes that leave
\* its row processing (claim_pending takes processing rows again).
EventuallySent ==
  \A e \in Events : status[e] = "pending" ~> sends[e] > 0

\* The promise of the outbox.
Delivery == INSTANCE EventDelivery
  WITH committed <- {e \in Events : status[e] # "absent"},
       handed <- {e \in Events : sends[e] > 0},
       published <- {e \in Events : status[e] = "published"}

\* Every step of the dispatchers is a step of EventDelivery or a stutter.
ImplementsDelivery == Delivery!Spec
=============================================================================
