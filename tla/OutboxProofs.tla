---------------------------- MODULE OutboxProofs ----------------------------
(***************************************************************************)
(* Proofs about the outbox, for every set of events, number of overlapping *)
(* dispatcher runs, claim limit and number of faults.                      *)
(***************************************************************************)
EXTENDS Outbox, FiniteSetTheorems, TLAPS

LEMMA TypingInit == Init => TypeOK
<1> SUFFICES ASSUME Init PROVE TypeOK
  OBVIOUS
<1>1. overrun \in BOOLEAN
  BY DEF Init
<1>2. faults \in 0..MaxFaults
  BY FaultsAssumption DEF Init
<1> QED
  BY <1>1, <1>2 DEF Init, TypeOK, Statuses, Steps

\* Every step preserves the types.
LEMMA TypingStep == TypeOK /\ [Next]_vars => TypeOK'
<1> SUFFICES ASSUME TypeOK, [Next]_vars PROVE TypeOK'
  OBVIOUS
<1> USE DEF TypeOK, Statuses, Steps
<1>1. ASSUME NEW e \in Events, Commit(e) PROVE TypeOK'
  BY <1>1 DEF Commit
<1>2. ASSUME NEW e \in Events, BecomesDue(e) PROVE TypeOK'
  <2>1. overrun' \in BOOLEAN
    BY <1>2 DEF BecomesDue
  <2>2. faults' \in 0..MaxFaults
    BY <1>2, FaultsAssumption DEF BecomesDue, Fault
  <2>3. due' \in [Events -> BOOLEAN]
    BY <1>2 DEF BecomesDue
  <2> QED
    BY <1>2, <2>1, <2>2, <2>3 DEF BecomesDue
<1>3. ASSUME NEW e \in Events, Consume(e) PROVE TypeOK'
  BY <1>3 DEF Consume
<1>4. ASSUME NEW d \in Dispatchers, ClaimPending(d) PROVE TypeOK'
  <2>1. PICK S \in Claims :
          /\ status' = [e \in Events |-> IF e \in S THEN "processing" ELSE status[e]]
          /\ due' = [e \in Events |-> IF e \in S THEN FALSE ELSE due[e]]
          /\ batch' = [batch EXCEPT ![d] = S]
    BY <1>4 DEF ClaimPending
  <2>2. S \subseteq Events
    BY DEF Claims, Claimable
  <2> QED
    BY <1>4, <2>1, <2>2 DEF ClaimPending
<1>5. ASSUME NEW d \in Dispatchers, NEW e \in Events, PublishSucceeds(d, e)
      PROVE  TypeOK'
  BY <1>5 DEF PublishSucceeds, Take, Send
<1>6. ASSUME NEW d \in Dispatchers, NEW e \in Events, PublishRaises(d, e)
      PROVE  TypeOK'
  BY <1>6, FaultsAssumption DEF PublishRaises, Take, Send, Fault
<1>7. ASSUME NEW d \in Dispatchers, MarkPublished(d) PROVE TypeOK'
  BY <1>7 DEF MarkPublished, Continue
<1>8. ASSUME NEW d \in Dispatchers, MarkFailed(d) PROVE TypeOK'
  BY <1>8 DEF MarkFailed, Continue
<1>9. ASSUME NEW d \in Dispatchers, Crash(d) PROVE TypeOK'
  BY <1>9, FaultsAssumption DEF Crash, Fault
<1>10. CASE UNCHANGED vars
  BY <1>10 DEF vars
<1> QED
  BY <1>1, <1>2, <1>3, <1>4, <1>5, <1>6, <1>7, <1>8, <1>9, <1>10 DEF Next

(* The steps keep every variable in its type: statuses, leases and batches  *)
(* of the dispatchers always describe rows that exist (outbox.py).          *)
THEOREM Typing == Spec => []TypeOK
BY TypingInit, TypingStep, PTL DEF Spec

-----------------------------------------------------------------------------
(* The inductive invariant behind the two safety theorems and the           *)
(* refinement.  It ties each dispatcher's program counter to what it holds. *)

\* Nobody holds a row that was never committed, and an idle run holds none.
HoldsCommitted ==
  \A d \in Dispatchers :
    /\ \A e \in Holds(d) : status[e] # "absent"
    /\ pc[d] = "idle" => Holds(d) = {}

\* A run about to record an outcome knows for which row, and records a
\* success only of an event the broker accepted.
OutcomeKnown ==
  \A d \in Dispatchers :
    /\ pc[d] \in {"mark_published", "mark_failed"} => current[d] \in Events
    /\ pc[d] = "mark_published" => sends[current[d]] > 0

\* As long as no run has outlived its lease, a held row is not due.
LeaseKept ==
  ~overrun => \A d \in Dispatchers : \A e \in Holds(d) : ~due[e]

OutboxInv ==
  /\ TypeOK
  /\ HoldsCommitted
  /\ OutcomeKnown
  /\ LeaseKept
  /\ PublishedWasSent
  /\ ExclusiveClaims

\* What a claim does, with the claimed set named.
LEMMA ClaimSet ==
  ASSUME NEW d \in Dispatchers, ClaimPending(d)
  PROVE  \E S \in SUBSET Claimable :
           /\ pc[d] = "idle"
           /\ status' = [e \in Events |-> IF e \in S THEN "processing" ELSE status[e]]
           /\ due' = [e \in Events |-> IF e \in S THEN FALSE ELSE due[e]]
           /\ batch' = [batch EXCEPT ![d] = S]
           /\ pc' = [pc EXCEPT ![d] = "publish"]
           /\ UNCHANGED <<broker, sends, current, faults, overrun>>
BY DEF ClaimPending, Claims

LEMMA OutboxInvInit == Init => OutboxInv
<1> SUFFICES ASSUME Init PROVE OutboxInv
  OBVIOUS
<1>1. TypeOK
  BY TypingInit
<1>2. \A d \in Dispatchers : Holds(d) = {}
  BY DEF Init, Holds
<1> QED
  BY <1>1, <1>2 DEF Init, OutboxInv, HoldsCommitted, OutcomeKnown, LeaseKept,
                    PublishedWasSent, ExclusiveClaims

\* A step in which no row is taken on preserves exclusiveness.
LEMMA FewerHolds ==
  ASSUME ExclusiveClaims,
         overrun => overrun',
         \A d \in Dispatchers : Holds(d)' \subseteq Holds(d)
  PROVE  ExclusiveClaims'
BY DEF ExclusiveClaims

LEMMA OutboxInvStep == OutboxInv /\ [Next]_vars => OutboxInv'
<1> SUFFICES ASSUME OutboxInv, [Next]_vars PROVE OutboxInv'
  OBVIOUS
<1>t. TypeOK /\ TypeOK'
  BY TypingStep DEF OutboxInv
<1> USE NoEventAssumption DEF TypeOK, HoldsCommitted, OutcomeKnown, LeaseKept,
                              PublishedWasSent, Holds
<1>1. ASSUME NEW e \in Events, Commit(e) PROVE OutboxInv'
  <2>1. \A d \in Dispatchers : e \notin Holds(d)
    BY <1>1 DEF OutboxInv, Commit
  <2>2. \A f \in Events : f # e => due'[f] = due[f] /\ status'[f] = status[f]
    BY <1>1, <1>t DEF Commit
  <2>3. \A d \in Dispatchers : Holds(d)' = Holds(d)
    BY <1>1 DEF Commit
  <2>4. HoldsCommitted'
    BY <1>1, <1>t, <2>1, <2>2, <2>3 DEF OutboxInv, Commit
  <2>5. LeaseKept'
    BY <1>1, <1>t, <2>1, <2>2, <2>3 DEF OutboxInv, Commit
  <2> QED
    BY <1>1, <1>t, <2>3, <2>4, <2>5, FewerHolds DEF OutboxInv, Commit
<1>2. ASSUME NEW e \in Events, BecomesDue(e) PROVE OutboxInv'
  <2>1. \A d \in Dispatchers : Holds(d)' = Holds(d)
    BY <1>2 DEF BecomesDue
  <2>2. LeaseKept'
    BY <1>2, <1>t, <2>1 DEF OutboxInv, BecomesDue
  <2> QED
    BY <1>2, <1>t, <2>1, <2>2, FewerHolds DEF OutboxInv, BecomesDue
<1>3. ASSUME NEW e \in Events, Consume(e) PROVE OutboxInv'
  <2>1. \A d \in Dispatchers : Holds(d)' = Holds(d)
    BY <1>3 DEF Consume
  <2> QED
    BY <1>3, <1>t, <2>1, FewerHolds DEF OutboxInv, Consume
<1>4. ASSUME NEW d \in Dispatchers, ClaimPending(d) PROVE OutboxInv'
  <2>1. PICK S \in SUBSET Claimable :
          /\ pc[d] = "idle"
          /\ status' = [e \in Events |-> IF e \in S THEN "processing" ELSE status[e]]
          /\ due' = [e \in Events |-> IF e \in S THEN FALSE ELSE due[e]]
          /\ batch' = [batch EXCEPT ![d] = S]
          /\ pc' = [pc EXCEPT ![d] = "publish"]
          /\ UNCHANGED <<broker, sends, current, faults, overrun>>
    BY <1>4, ClaimSet
  <2>2. /\ Holds(d)' = S
        /\ \A c \in Dispatchers : c # d => Holds(c)' = Holds(c)
    BY <2>1, <1>t DEF OutboxInv
  <2>3. \A e \in S : e \in Events /\ due[e]
    BY DEF Claimable
  <2>4. HoldsCommitted'
    BY <2>1, <2>2, <2>3 DEF OutboxInv
  <2>5. OutcomeKnown'
    BY <2>1, <1>t DEF OutboxInv
  <2>6. LeaseKept'
    BY <2>1, <2>2, <2>3 DEF OutboxInv
  <2>7. PublishedWasSent'
    BY <2>1 DEF OutboxInv
  <2>8. ExclusiveClaims'
    BY <2>1, <2>2, <2>3 DEF OutboxInv, ExclusiveClaims
  <2> QED
    BY <1>t, <2>4, <2>5, <2>6, <2>7, <2>8 DEF OutboxInv
<1>5. ASSUME NEW d \in Dispatchers, NEW e \in Events, PublishSucceeds(d, e)
      PROVE  OutboxInv'
  <2>1. \A c \in Dispatchers : Holds(c)' \subseteq Holds(c)
    BY <1>5, <1>t DEF PublishSucceeds, Take
  <2>2. HoldsCommitted'
    BY <1>5, <1>t, <2>1 DEF OutboxInv, PublishSucceeds, Take
  <2>3. OutcomeKnown'
    BY <1>5, <1>t DEF OutboxInv, PublishSucceeds, Take, Send
  <2>4. LeaseKept'
    BY <1>5, <2>1 DEF OutboxInv, PublishSucceeds
  <2>5. PublishedWasSent'
    BY <1>5, <1>t DEF OutboxInv, PublishSucceeds, Send
  <2> QED
    BY <1>5, <1>t, <2>1, <2>2, <2>3, <2>4, <2>5, FewerHolds
       DEF OutboxInv, PublishSucceeds
<1>6. ASSUME NEW d \in Dispatchers, NEW e \in Events, PublishRaises(d, e)
      PROVE  OutboxInv'
  <2>1. \A c \in Dispatchers : Holds(c)' \subseteq Holds(c)
    BY <1>6, <1>t DEF PublishRaises, Take
  <2>2. HoldsCommitted'
    BY <1>6, <1>t, <2>1 DEF OutboxInv, PublishRaises, Take
  <2>3. OutcomeKnown'
    BY <1>6, <1>t DEF OutboxInv, PublishRaises, Take, Send
  <2>4. LeaseKept'
    BY <1>6, <2>1 DEF OutboxInv, PublishRaises
  <2>5. PublishedWasSent'
    BY <1>6, <1>t DEF OutboxInv, PublishRaises, Send
  <2> QED
    BY <1>6, <1>t, <2>1, <2>2, <2>3, <2>4, <2>5, FewerHolds
       DEF OutboxInv, PublishRaises
<1>7. ASSUME NEW d \in Dispatchers, MarkPublished(d) PROVE OutboxInv'
  <2>1. \A c \in Dispatchers : Holds(c)' \subseteq Holds(c)
    BY <1>7, <1>t DEF MarkPublished, Continue
  <2>2. HoldsCommitted'
    BY <1>7, <1>t, <2>1 DEF OutboxInv, MarkPublished, Continue
  <2>3. OutcomeKnown'
    BY <1>7, <1>t DEF OutboxInv, MarkPublished, Continue
  <2>4. LeaseKept'
    BY <1>7, <2>1 DEF OutboxInv, MarkPublished
  <2>5. PublishedWasSent'
    BY <1>7, <1>t DEF OutboxInv, MarkPublished
  <2> QED
    BY <1>7, <1>t, <2>1, <2>2, <2>3, <2>4, <2>5, FewerHolds
       DEF OutboxInv, MarkPublished
<1>8. ASSUME NEW d \in Dispatchers, MarkFailed(d) PROVE OutboxInv'
  <2>1. \A c \in Dispatchers : Holds(c)' \subseteq Holds(c)
    BY <1>8, <1>t DEF MarkFailed, Continue
  <2>2. HoldsCommitted'
    BY <1>8, <1>t, <2>1 DEF OutboxInv, MarkFailed, Continue
  <2>3. OutcomeKnown'
    BY <1>8, <1>t DEF OutboxInv, MarkFailed, Continue
  <2>4. LeaseKept'
    BY <1>8, <1>t, <2>1 DEF OutboxInv, MarkFailed
  <2>5. PublishedWasSent'
    BY <1>8, <1>t DEF OutboxInv, MarkFailed
  <2> QED
    BY <1>8, <1>t, <2>1, <2>2, <2>3, <2>4, <2>5, FewerHolds
       DEF OutboxInv, MarkFailed
<1>9. ASSUME NEW d \in Dispatchers, Crash(d) PROVE OutboxInv'
  <2>1. \A c \in Dispatchers : Holds(c)' \subseteq Holds(c)
    BY <1>9, <1>t DEF Crash
  <2>2. HoldsCommitted'
    BY <1>9, <1>t, <2>1 DEF OutboxInv, Crash
  <2> QED
    BY <1>9, <1>t, <2>1, <2>2, FewerHolds DEF OutboxInv, Crash
<1>10. CASE UNCHANGED vars
  BY <1>10, <1>t DEF OutboxInv, ExclusiveClaims, vars
<1> QED
  BY <1>1, <1>2, <1>3, <1>4, <1>5, <1>6, <1>7, <1>8, <1>9, <1>10 DEF Next

LEMMA OutboxInvHolds == Spec => []OutboxInv
BY OutboxInvInit, OutboxInvStep, PTL DEF Spec

(* dispatch_once writes a row off only after the broker accepted its event: *)
(* no committed event is ever dropped unsent, whatever dispatchers crash,   *)
(* overlap or lose their leases.                                            *)
THEOREM NothingWrittenOffUnsent == Spec => []PublishedWasSent
<1>1. OutboxInv => PublishedWasSent
  BY DEF OutboxInv
<1> QED
  BY <1>1, OutboxInvHolds, PTL

(* The lease of claim_pending is a lock: as long as no run outlived it, no  *)
(* row is in the hands of two dispatcher runs.                              *)
THEOREM LeaseExcludes == Spec => []ExclusiveClaims
<1>1. OutboxInv => ExclusiveClaims
  BY DEF OutboxInv
<1> QED
  BY <1>1, OutboxInvHolds, PTL

-----------------------------------------------------------------------------
(* Duplicates.  A send that is still to come needs a dispatcher that bears  *)
(* the event, or a row that some dispatcher may claim; sends, bearers and   *)
(* a loose row together grow only with a fault.                             *)

\* Dispatchers that will send e, or give its row back.
Bearers(e) ==
  {d \in Dispatchers : e \in batch[d] \/ (current[d] = e /\ pc[d] = "mark_failed")}

\* The row can be claimed, now or, without a fault, later.
Loose(e) == status[e] # "published" /\ (due[e] \/ \A d \in Dispatchers : e \notin Holds(d))

Paid(e) ==
  /\ IsFiniteSet(Bearers(e))
  /\ sends[e] + (IF Loose(e) THEN 1 ELSE 0) + Cardinality(Bearers(e)) <= 1 + faults

\* Between two rows of its batch a dispatcher has nothing to record.
BetweenRows == \A d \in Dispatchers : pc[d] = "publish" => current[d] = NoEvent

PaidInv == OutboxInv /\ BetweenRows /\ \A e \in Events : Paid(e)

\* A step that sends nothing and adds no bearer of e.
LEMMA NothingOwed ==
  ASSUME TypeOK, TypeOK', NEW e \in Events, Paid(e), sends'[e] = sends[e],
         Bearers(e)' \subseteq Bearers(e), faults <= faults',
         Loose(e)' => Loose(e) \/ faults' = faults + 1 \/ Bearers(e)' # Bearers(e)
  PROVE  Paid(e)'
<1>1. /\ IsFiniteSet(Bearers(e)')
      /\ Cardinality(Bearers(e)') <= Cardinality(Bearers(e))
      /\ Cardinality(Bearers(e)') = Cardinality(Bearers(e)) => Bearers(e)' = Bearers(e)
      /\ Cardinality(Bearers(e)') \in Nat /\ Cardinality(Bearers(e)) \in Nat
  BY FS_Subset, FS_CardinalityType DEF Paid
<1>2. sends[e] \in Nat /\ faults \in Nat /\ faults' \in Nat
  BY FaultsAssumption DEF TypeOK
<1>. HIDE DEF Bearers, Loose
<1>3. sends[e] + (IF Loose(e) THEN 1 ELSE 0) + Cardinality(Bearers(e)) <= 1 + faults
  BY DEF Paid
<1>4. sends'[e] + (IF Loose(e)' THEN 1 ELSE 0) + Cardinality(Bearers(e)') <= 1 + faults'
  BY <1>1, <1>2, <1>3
<1>. QED
  BY <1>1, <1>4 DEF Paid

LEMMA PaidStep == PaidInv /\ [Next]_vars => PaidInv'
<1>. SUFFICES ASSUME PaidInv, [Next]_vars PROVE PaidInv'
  OBVIOUS
<1>t. TypeOK /\ TypeOK' /\ OutboxInv /\ OutboxInv'
  BY OutboxInvStep, TypingStep DEF PaidInv, OutboxInv
<1>b. BetweenRows'
  BY ZenonT(60), <1>t
  DEF PaidInv, BetweenRows, TypeOK, Next, Commit, BecomesDue, Consume, ClaimPending, PublishSucceeds,
     PublishRaises, Take, MarkPublished, MarkFailed, Continue, Crash, vars, OutboxInv, HoldsCommitted, Holds
<1>n. NoEvent \notin Events /\ faults \in Nat /\ faults' \in Nat
  BY <1>t, NoEventAssumption, FaultsAssumption DEF TypeOK
<1>. SUFFICES ASSUME NEW f \in Events, Paid(f) PROVE Paid(f)'
  BY <1>t, <1>b DEF PaidInv
<1>1. ASSUME NEW e \in Events, Commit(e) PROVE Paid(f)'
  <2>1. UNCHANGED <<sends, faults>> /\ Bearers(f)' = Bearers(f) /\ \A d \in Dispatchers : Holds(d)' = Holds(d)
    BY <1>1 DEF Commit, Bearers, Holds
  <2>2. \A d \in Dispatchers : e \notin Holds(d)
    BY <1>1, <1>t DEF OutboxInv, HoldsCommitted, Commit
  <2>3. f # e => status'[f] = status[f] /\ due'[f] = due[f]
    BY <1>1, <1>t DEF Commit, TypeOK
  <2>4. Loose(f)' => Loose(f)
    BY <1>1, <2>1, <2>2, <2>3 DEF Loose, Commit
  <2>. QED
    BY <1>t, <1>n, <2>1, <2>4, NothingOwed
<1>2. ASSUME NEW e \in Events, BecomesDue(e) PROVE Paid(f)'
  <2>1. UNCHANGED <<sends, status>> /\ Bearers(f)' = Bearers(f) /\ \A d \in Dispatchers : Holds(d)' = Holds(d)
    BY <1>2 DEF BecomesDue, Bearers, Holds
  <2>2. f # e => due'[f] = due[f]
    BY <1>2, <1>t DEF BecomesDue, TypeOK
  <2>3. faults' = faults + 1 \/ (faults' = faults /\ \A d \in Dispatchers : e \notin Holds(d))
    BY <1>2 DEF BecomesDue, Fault
  <2>4. Loose(f)' => Loose(f) \/ faults' = faults + 1
    BY <2>1, <2>2, <2>3 DEF Loose
  <2>. QED
    BY <1>t, <1>n, <2>1, <2>3, <2>4, NothingOwed
<1>3. ASSUME NEW e \in Events, Consume(e) PROVE Paid(f)'
  <2>1. UNCHANGED <<sends, faults>> /\ Bearers(f)' = Bearers(f) /\ Loose(f)' = Loose(f)
    BY <1>3 DEF Consume, Bearers, Holds, Loose
  <2>. QED
    BY <1>t, <1>n, <2>1, NothingOwed
<1>4. ASSUME NEW d \in Dispatchers, ClaimPending(d) PROVE Paid(f)'
  <2>1. PICK S \in SUBSET Claimable :
          /\ pc[d] = "idle"
          /\ status' = [e \in Events |-> IF e \in S THEN "processing" ELSE status[e]]
          /\ due' = [e \in Events |-> IF e \in S THEN FALSE ELSE due[e]]
          /\ batch' = [batch EXCEPT ![d] = S]
          /\ pc' = [pc EXCEPT ![d] = "publish"]
          /\ UNCHANGED <<broker, sends, current, faults, overrun>>
    BY <1>4, ClaimSet
  <2>2. Holds(d) = {} /\ Holds(d)' = S /\ \A c \in Dispatchers : c # d => Holds(c)' = Holds(c)
    BY <1>t, <1>n, <2>1 DEF OutboxInv, HoldsCommitted, Holds, TypeOK
  <2>3. batch[d] = {} /\ current[d] = NoEvent
    BY <1>t, <1>n, <2>2 DEF Holds
  <2>4. CASE f \in S
    <3>1. Loose(f) /\ ~Loose(f)'
      BY <2>1, <2>2, <2>4 DEF Loose, Claimable
    <3>2. Bearers(f)' = Bearers(f) \cup {d} /\ d \notin Bearers(f)
      BY <1>t, <2>1, <2>3, <2>4 DEF Bearers, TypeOK
    <3>3. IsFiniteSet(Bearers(f)') /\ Cardinality(Bearers(f)') = Cardinality(Bearers(f)) + 1
      BY <3>2, FS_AddElement DEF Paid
    <3>4. sends'[f] = sends[f] /\ sends[f] \in Nat /\ Cardinality(Bearers(f)) \in Nat /\ faults' = faults
      BY <1>t, <2>1, FS_CardinalityType DEF Paid, TypeOK
    <3>5. sends[f] + 1 + Cardinality(Bearers(f)) <= 1 + faults
      BY <3>1 DEF Paid
    <3>6. sends'[f] + 0 + Cardinality(Bearers(f)') <= 1 + faults'
      BY <1>n, <3>3, <3>4, <3>5
    <3>. QED
      BY <3>1, <3>3, <3>6 DEF Paid
  <2>5. CASE f \notin S
    <3>1. status'[f] = status[f] /\ due'[f] = due[f]
      BY <2>1, <2>5
    <3>2. Bearers(f)' = Bearers(f)
      BY <1>t, <1>n, <2>1, <2>3, <2>5 DEF Bearers, TypeOK
    <3>3. Loose(f)' => Loose(f)
      BY <2>2, <2>5, <3>1 DEF Loose
    <3>. QED
      BY <1>t, <1>n, <2>1, <3>2, <3>3, NothingOwed
  <2>. QED
    BY <2>4, <2>5
<1>5. ASSUME NEW d \in Dispatchers, NEW e \in Events, NEW outcome \in {"mark_published", "mark_failed"},
             Take(d, e, outcome), UNCHANGED <<status, due>>,
             Send(e) \/ UNCHANGED <<broker, sends>>,
             IF outcome = "mark_published" THEN UNCHANGED faults ELSE faults' = faults + 1
      PROVE  Paid(f)'
  <2>1. current[d] = NoEvent
    BY <1>5 DEF PaidInv, BetweenRows, Take
  <2>2. \A c \in Dispatchers : Holds(c)' = Holds(c)
    BY <1>5, <1>t, <1>n, <2>1 DEF Take, Holds, TypeOK
  <2>3. Loose(f)' = Loose(f)
    BY <1>5, <2>2 DEF Loose
  <2>4. CASE f # e
    <3>1. Bearers(f)' = Bearers(f) /\ sends'[f] = sends[f]
      BY <1>5, <1>t, <1>n, <2>1, <2>4 DEF Take, Bearers, Send, TypeOK
    <3>. QED
      BY <1>5, <1>t, <1>n, <2>3, <3>1, NothingOwed
  <2>5. CASE f = e
    <3>1. sends[f] \in Nat /\ sends'[f] \in {sends[f], sends[f] + 1} /\ Cardinality(Bearers(f)) \in Nat
      BY <1>5, <1>t, <2>5, FS_CardinalityType DEF Send, TypeOK, Paid
    <3>2. d \in Bearers(f) /\ IsFiniteSet(Bearers(f))
      BY <1>5, <2>5 DEF Bearers, Take, Paid
    <3>3. sends[f] + (IF Loose(f) THEN 1 ELSE 0) + Cardinality(Bearers(f)) <= 1 + faults
      BY DEF Paid
    <3>4. CASE outcome = "mark_published"
      <4>1. Bearers(f)' = Bearers(f) \ {d}
        BY <1>5, <1>t, <2>5, <3>4 DEF Take, Bearers, TypeOK
      <4>2. IsFiniteSet(Bearers(f)') /\ Cardinality(Bearers(f)') = Cardinality(Bearers(f)) - 1
        BY <3>2, <4>1, FS_RemoveElement
      <4>3. faults' = faults
        BY <1>5, <3>4
      <4>. HIDE DEF Bearers, Loose
      <4>4. sends'[f] + (IF Loose(f)' THEN 1 ELSE 0) + Cardinality(Bearers(f)') <= 1 + faults'
        BY <1>n, <2>3, <3>1, <3>3, <4>2, <4>3
      <4>. QED
        BY <4>2, <4>4 DEF Paid
    <3>5. CASE outcome = "mark_failed"
      <4>1. Bearers(f)' = Bearers(f)
        BY <1>5, <1>t, <1>n, <2>1, <2>5, <3>5 DEF Take, Bearers, TypeOK
      <4>2. faults' = faults + 1
        BY <1>5, <3>5
      <4>. HIDE DEF Bearers, Loose
      <4>3. sends'[f] + (IF Loose(f)' THEN 1 ELSE 0) + Cardinality(Bearers(f)') <= 1 + faults'
        BY <1>n, <2>3, <3>1, <3>3, <4>1, <4>2
      <4>. QED
        BY <3>2, <4>1, <4>3 DEF Paid
    <3>. QED
      BY <3>4, <3>5
  <2>. QED
    BY <2>4, <2>5
<1>6. ASSUME NEW d \in Dispatchers, NEW e \in Events, PublishSucceeds(d, e) PROVE Paid(f)'
  BY <1>5, <1>6 DEF PublishSucceeds
<1>7. ASSUME NEW d \in Dispatchers, NEW e \in Events, PublishRaises(d, e) PROVE Paid(f)'
  BY <1>5, <1>7 DEF PublishRaises, Fault
<1>8. ASSUME NEW d \in Dispatchers, MarkPublished(d) PROVE Paid(f)'
  <2>1. Bearers(f)' \subseteq Bearers(f) /\ sends'[f] = sends[f] /\ faults' = faults /\ due' = due
    BY <1>8, <1>t, <1>n DEF MarkPublished, Continue, Bearers, TypeOK
  <2>2. current[d] \in Events
    BY <1>8, <1>t DEF OutboxInv, OutcomeKnown, MarkPublished
  <2>3. f = current[d] => status'[f] = "published"
    BY <1>8, <1>t, <2>2 DEF MarkPublished, TypeOK
  <2>4. f # current[d] => status'[f] = status[f] /\ \A c \in Dispatchers : f \in Holds(c)' <=> f \in Holds(c)
    BY <1>8, <1>t, <1>n DEF MarkPublished, Continue, Holds, TypeOK
  <2>5. Loose(f)' => Loose(f)
    BY <2>1, <2>3, <2>4 DEF Loose
  <2>. QED
    BY <1>t, <1>n, <2>1, <2>5, NothingOwed
<1>9. ASSUME NEW d \in Dispatchers, MarkFailed(d) PROVE Paid(f)'
  <2>1. Bearers(f)' \subseteq Bearers(f) /\ sends'[f] = sends[f] /\ faults' = faults
    BY <1>9, <1>t, <1>n DEF MarkFailed, Continue, Bearers, TypeOK
  <2>2. CASE f = current[d]
    <3>1. due'[f] = FALSE /\ d \in Bearers(f)
      BY <1>9, <1>t, <2>2 DEF MarkFailed, TypeOK, Bearers
    <3>2. CASE f \in batch[d]
      <4>1. f \in Holds(d)'
        BY <1>9, <3>2 DEF MarkFailed, Continue, Holds
      <4>. QED
        BY <1>t, <1>n, <2>1, <3>1, <4>1, NothingOwed DEF Loose
    <3>3. CASE f \notin batch[d]
      <4>1. d \notin Bearers(f)'
        BY <1>9, <1>t, <1>n, <3>3 DEF MarkFailed, Continue, Bearers, TypeOK
      <4>. QED
        BY <1>t, <1>n, <2>1, <3>1, <4>1, NothingOwed
    <3>. QED
      BY <3>2, <3>3
  <2>3. CASE f # current[d]
    <3>1. status'[f] = status[f] /\ due'[f] = due[f] /\ \A c \in Dispatchers : f \in Holds(c)' <=> f \in Holds(c)
      BY <1>9, <1>t, <1>n, <2>3 DEF MarkFailed, Continue, Holds, TypeOK
    <3>2. Loose(f)' => Loose(f)
      BY <3>1 DEF Loose
    <3>. QED
      BY <1>t, <1>n, <2>1, <3>2, NothingOwed
  <2>. QED
    BY <2>2, <2>3
<1>10. ASSUME NEW d \in Dispatchers, Crash(d) PROVE Paid(f)'
  <2>1. Bearers(f)' \subseteq Bearers(f) /\ sends'[f] = sends[f] /\ faults' = faults + 1
    BY <1>10, <1>t, <1>n DEF Crash, Fault, Bearers, TypeOK
  <2>. QED
    BY <1>t, <1>n, <2>1, NothingOwed
<1>11. CASE UNCHANGED vars
  <2>1. UNCHANGED <<sends, faults>> /\ Bearers(f)' = Bearers(f) /\ Loose(f)' = Loose(f)
    BY <1>11 DEF vars, Bearers, Holds, Loose
  <2>. QED
    BY <1>t, <1>n, <2>1, NothingOwed
<1>. QED
  BY <1>1, <1>2, <1>3, <1>4, <1>6, <1>7, <1>8, <1>9, <1>10, <1>11 DEF Next

LEMMA PaidInit == Init => PaidInv
<1>. SUFFICES ASSUME Init PROVE PaidInv
  OBVIOUS
<1>1. OutboxInv
  BY OutboxInvInit
<1>2. ASSUME NEW e \in Events PROVE Paid(e)
  <2>1. Bearers(e) = {}
    BY NoEventAssumption DEF Init, Bearers
  <2>2. IsFiniteSet(Bearers(e)) /\ Cardinality(Bearers(e)) = 0
    BY <2>1, FS_EmptySet
  <2>3. sends[e] = 0 /\ faults = 0
    BY DEF Init
  <2>. HIDE DEF Bearers, Loose
  <2>4. sends[e] + (IF Loose(e) THEN 1 ELSE 0) + Cardinality(Bearers(e)) <= 1 + faults
    BY <2>2, <2>3
  <2>. QED
    BY <2>2, <2>4 DEF Paid
<1>. QED
  BY <1>1, <1>2 DEF Init, PaidInv, BetweenRows

(* At-least-once delivery repeats a message only for a reason: however many *)
(* dispatcher runs overlap, an event is handed to the broker at most once   *)
(* more than there were crashes, broker errors and overrun leases           *)
(* (claim_pending, dispatch_once).                                          *)
THEOREM DuplicatesArePaidFor == Spec => []DuplicatesNeedFaults
<1>1. PaidInv => DuplicatesNeedFaults
  <2>. SUFFICES ASSUME PaidInv, NEW e \in Events PROVE sends[e] <= 1 + faults
    BY DEF DuplicatesNeedFaults
  <2>1. IsFiniteSet(Bearers(e)) /\ sends[e] + (IF Loose(e) THEN 1 ELSE 0) + Cardinality(Bearers(e)) <= 1 + faults
    BY DEF PaidInv, Paid
  <2>2. Cardinality(Bearers(e)) \in Nat /\ sends[e] \in Nat /\ faults \in Nat
    BY <2>1, FS_CardinalityType, FaultsAssumption DEF PaidInv, OutboxInv, TypeOK
  <2>. HIDE DEF Bearers, Loose
  <2>. QED
    BY <2>1, <2>2
<1>. QED
  BY <1>1, PaidInit, PaidStep, PTL DEF Spec

-----------------------------------------------------------------------------
(* Each step of the detailed protocol, seen through the refinement mapping, *)
(* is one operation of EventDelivery or changes nothing there.              *)
LEMMA DeliveryStep == OutboxInv /\ [Next]_vars => [Delivery!Next]_(Delivery!vars)
<1> SUFFICES ASSUME OutboxInv, [Next]_vars PROVE [Delivery!Next]_(Delivery!vars)
  OBVIOUS
<1> DEFINE committed == {e \in Events : status[e] # "absent"}
           handed == {e \in Events : sends[e] > 0}
           published == {e \in Events : status[e] = "published"}
<1>t. TypeOK
  BY DEF OutboxInv
<1>h. \A d \in Dispatchers : \A e \in Holds(d) : status[e] # "absent"
  BY DEF OutboxInv, HoldsCommitted
<1> USE DEF Delivery!Next, Delivery!vars
<1>1. ASSUME NEW e \in Events, Commit(e) PROVE Delivery!Commit(e)
  BY <1>1, <1>t DEF Commit, TypeOK, Delivery!Commit
<1>2. ASSUME NEW e \in Events, BecomesDue(e) PROVE UNCHANGED Delivery!vars
  BY <1>2 DEF BecomesDue
<1>3. ASSUME NEW e \in Events, Consume(e) PROVE Delivery!Consume(e)
  BY <1>3 DEF Consume, Delivery!Consume
<1>4. ASSUME NEW d \in Dispatchers, ClaimPending(d) PROVE UNCHANGED Delivery!vars
  <2>1. PICK S \in SUBSET Claimable :
          /\ status' = [e \in Events |-> IF e \in S THEN "processing" ELSE status[e]]
          /\ UNCHANGED <<broker, sends>>
    BY <1>4, ClaimSet
  <2>2. committed' = committed /\ published' = published
    BY <2>1, <1>t DEF Claimable, TypeOK
  <2> QED
    BY <2>1, <2>2
<1>5. ASSUME NEW d \in Dispatchers, NEW e \in Events,
             e \in batch[d], Send(e), UNCHANGED status
      PROVE  Delivery!HandOver(e)
  <2>1. e \in committed
    BY <1>5, <1>h DEF Holds
  <2>2. handed' = handed \cup {e}
    BY <1>5, <1>t DEF Send, TypeOK
  <2> QED
    BY <1>5, <2>1, <2>2 DEF Send, Delivery!HandOver
<1>6. ASSUME NEW d \in Dispatchers, NEW e \in Events, PublishSucceeds(d, e)
      PROVE  Delivery!HandOver(e)
  BY <1>6, <1>5 DEF PublishSucceeds, Take
<1>7. ASSUME NEW d \in Dispatchers, NEW e \in Events, PublishRaises(d, e)
      PROVE  Delivery!HandOver(e) \/ UNCHANGED Delivery!vars
  <2>1. CASE Send(e)
    BY <1>7, <1>5, <2>1 DEF PublishRaises, Take
  <2>2. CASE UNCHANGED <<broker, sends>>
    BY <1>7, <2>2 DEF PublishRaises
  <2> QED
    BY <1>7, <2>1, <2>2 DEF PublishRaises
<1>8. ASSUME NEW d \in Dispatchers, NEW e \in Events, e = current[d], MarkPublished(d)
      PROVE  Delivery!WriteOff(e)
  <2>1. e \in handed /\ e \in committed
    BY <1>8, <1>h, NoEventAssumption DEF MarkPublished, OutboxInv, OutcomeKnown, Holds
  <2>2. published' = published \cup {e} /\ committed' = committed
    BY <1>8, <1>t, <2>1 DEF MarkPublished, TypeOK
  <2> QED
    BY <1>8, <2>1, <2>2 DEF MarkPublished, Delivery!WriteOff
<1>9. ASSUME NEW d \in Dispatchers, NEW e \in Events, e = current[d], MarkFailed(d)
      PROVE  Delivery!Revive(e) \/ UNCHANGED Delivery!vars
  <2>1. e \in committed
    BY <1>9, <1>h, NoEventAssumption DEF Holds
  <2>2. published' = published \ {e} /\ committed' = committed
    BY <1>9, <1>t, <2>1 DEF MarkFailed, TypeOK
  <2>3. CASE e \in published
    BY <1>9, <2>2, <2>3 DEF MarkFailed, Delivery!Revive
  <2>4. CASE e \notin published
    BY <1>9, <2>2, <2>4 DEF MarkFailed
  <2> QED
    BY <2>3, <2>4
<1>10. ASSUME NEW d \in Dispatchers, Crash(d) PROVE UNCHANGED Delivery!vars
  BY <1>10 DEF Crash
<1>11. CASE UNCHANGED vars
  BY <1>11 DEF vars
<1>12. \A d \in Dispatchers :
         pc[d] \in {"mark_published", "mark_failed"} => current[d] \in Events
  BY DEF OutboxInv, OutcomeKnown
<1>13. CASE Next
  <2>1. ASSUME NEW e \in Events, Commit(e) \/ BecomesDue(e) \/ Consume(e)
        PROVE  [Delivery!Next]_(Delivery!vars)
    BY <2>1, <1>1, <1>2, <1>3
  <2>2. ASSUME NEW d \in Dispatchers, NEW e \in Events,
               PublishSucceeds(d, e) \/ PublishRaises(d, e)
        PROVE  [Delivery!Next]_(Delivery!vars)
    BY <2>2, <1>6, <1>7
  <2>3. ASSUME NEW d \in Dispatchers, MarkPublished(d)
        PROVE  [Delivery!Next]_(Delivery!vars)
    <3>1. PICK e \in Events : e = current[d]
      BY <2>3, <1>12 DEF MarkPublished
    <3> QED
      BY <2>3, <3>1, <1>8
  <2>4. ASSUME NEW d \in Dispatchers, MarkFailed(d)
        PROVE  [Delivery!Next]_(Delivery!vars)
    <3>1. PICK e \in Events : e = current[d]
      BY <2>4, <1>12 DEF MarkFailed
    <3> QED
      BY <2>4, <3>1, <1>9
  <2> QED
    BY <1>13, <1>4, <1>10, <2>1, <2>2, <2>3, <2>4 DEF Next
<1> QED
  BY <1>11, <1>13

(* The outbox implements at-least-once delivery: what business transactions *)
(* may assume of OutboxDispatcher is exactly EventDelivery.                 *)
THEOREM OutboxImplementsDelivery == Spec => ImplementsDelivery
<1>1. Init => Delivery!Init
  BY DEF Init, Delivery!Init
<1> QED
  BY <1>1, DeliveryStep, OutboxInvHolds, PTL DEF Spec, ImplementsDelivery, Delivery!Spec
=============================================================================
