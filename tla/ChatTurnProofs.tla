--------------------------- MODULE ChatTurnProofs ---------------------------
(***************************************************************************)
(* Proofs about the turns of a conversation, for any set of requests and   *)
(* all bounds on chunks, calls of tools, failures and cancellations.       *)
(***************************************************************************)
EXTENDS ChatTurn, FiniteSetTheorems, FunctionTheorems, SequenceTheorems, TLAPS

-----------------------------------------------------------------------------
(* What Shown counts.                                                      *)

\* A finite number of events is shown.
LEMMA ShownFinite ==
  ASSUME NEW u, NEW s \in Seq(Yields)
  PROVE  /\ IsFiniteSet({i \in DOMAIN s : Visible(u, s[i])})
         /\ Shown(u, s) \in Nat
<1>1. DOMAIN s = 1 .. Len(s) /\ Len(s) \in Nat
  OBVIOUS
<1>2. IsFiniteSet(1 .. Len(s))
  BY <1>1, FS_Interval
<1>3. {i \in DOMAIN s : Visible(u, s[i])} \in SUBSET (1 .. Len(s))
  BY <1>1
<1>4. IsFiniteSet({i \in DOMAIN s : Visible(u, s[i])})
  BY <1>2, <1>3, FS_Subset
<1> QED
  BY <1>4, FS_CardinalityType DEF Shown

\* Nothing is shown of nothing.
LEMMA ShownEmpty == ASSUME NEW u PROVE Shown(u, <<>>) = 0
<1>1. {i \in DOMAIN <<>> : Visible(u, <<>>[i])} = {}
  OBVIOUS
<1> QED
  BY <1>1, FS_EmptySet DEF Shown

\* An event counts for one or not at all.
LEMMA ShownOne ==
  ASSUME NEW u, NEW e
  PROVE  Shown(u, <<e>>) = IF Visible(u, e) THEN 1 ELSE 0
<1>1. CASE Visible(u, e)
  <2>1. {i \in DOMAIN <<e>> : Visible(u, <<e>>[i])} = {1}
    BY <1>1
  <2> QED
    BY <1>1, <2>1, FS_Singleton DEF Shown
<1>2. CASE ~Visible(u, e)
  <2>1. {i \in DOMAIN <<e>> : Visible(u, <<e>>[i])} = {}
    BY <1>2
  <2> QED
    BY <1>2, <2>1, FS_EmptySet DEF Shown
<1> QED
  BY <1>1, <1>2

\* The events that are left are shown later.
LEMMA ShownFirst ==
  ASSUME NEW u, NEW s \in Seq(Yields), s # <<>>
  PROVE  Shown(u, s) = Shown(u, <<Head(s)>>) + Shown(u, Tail(s))
<1> DEFINE T == {i \in DOMAIN Tail(s) : Visible(u, Tail(s)[i])}
           R == {i \in 2 .. Len(s) : Visible(u, s[i])}
           f == [i \in T |-> i + 1]
<1>1. /\ Len(s) \in Nat \ {0} /\ DOMAIN s = 1 .. Len(s)
      /\ Tail(s) \in Seq(Yields) /\ Len(Tail(s)) = Len(s) - 1
      /\ DOMAIN Tail(s) = 1 .. Len(s) - 1
      /\ \A i \in 1 .. Len(s) - 1 : Tail(s)[i] = s[i + 1]
      /\ Head(s) = s[1]
  OBVIOUS
<1>2. IsFiniteSet(T) /\ Cardinality(T) = Shown(u, Tail(s))
  BY <1>1, ShownFinite DEF Shown
<1>3. f \in Bijection(T, R)
  <2>1. f \in [T -> R]
    BY <1>1
  <2>2. \A i, j \in T : f[i] = f[j] => i = j
    BY <1>1
  <2>3. \A k \in R : \E i \in T : f[i] = k
    <3> TAKE k \in R
    <3>1. k - 1 \in T /\ f[k - 1] = k
      BY <1>1
    <3> QED
      BY <3>1
  <2> QED
    BY <2>1, <2>2, <2>3, Fun_IsBij
<1>4. IsFiniteSet(R) /\ Cardinality(R) = Cardinality(T)
  BY ZenonT(60), <1>2, <1>3, FS_Bijection, Fun_ExistsBij
<1>5. 1 \notin R
  BY <1>1
<1> HIDE DEF T, R
<1>6. CASE Visible(u, s[1])
  <2>1. {i \in DOMAIN s : Visible(u, s[i])} = R \cup {1}
    BY <1>1, <1>6 DEF R
  <2>2. Cardinality(R \cup {1}) = Cardinality(R) + 1
    BY <1>4, <1>5, FS_AddElement
  <2>3. Shown(u, s) = Cardinality(R \cup {1})
    BY <2>1 DEF Shown
  <2>4. Shown(u, <<Head(s)>>) = 1
    BY <1>1, <1>6, ShownOne
  <2>5. Shown(u, Tail(s)) \in Nat
    BY <1>1, ShownFinite
  <2> QED
    BY <1>2, <1>4, <2>2, <2>3, <2>4, <2>5
<1>7. CASE ~Visible(u, s[1])
  <2>1. {i \in DOMAIN s : Visible(u, s[i])} = R
    BY <1>1, <1>7 DEF R
  <2>2. Shown(u, s) = Cardinality(R)
    BY <2>1 DEF Shown
  <2>3. Shown(u, <<Head(s)>>) = 0
    BY <1>1, <1>7, ShownOne
  <2>4. Shown(u, Tail(s)) \in Nat
    BY <1>1, ShownFinite
  <2> QED
    BY <1>2, <1>4, <2>2, <2>3, <2>4
<1> QED
  BY <1>6, <1>7

\* What is shown depends on the interface alone.
LEMMA ShownSame ==
  ASSUME NEW u, NEW w, NEW s, u.legacy = w.legacy
  PROVE  Shown(u, s) = Shown(w, s)
<1>1. \A e : Visible(u, e) <=> Visible(w, e)
  BY DEF Visible
<1>2. {i \in DOMAIN s : Visible(u, s[i])} = {i \in DOMAIN s : Visible(w, s[i])}
  BY <1>1
<1> QED
  BY <1>2 DEF Shown
-----------------------------------------------------------------------------
(* Types.                                                                  *)

\* What a step does to one request, if it keeps its type.
LEMMA UpdateTyped ==
  ASSUME TypeOK, NEW r \in Requests, NEW u \in RequestStates, Update(r, u)
  PROVE  /\ req' \in [Requests -> RequestStates]
         /\ req'[r] = u
         /\ \A q \in Requests \ {r} : req'[q] = req[q]
BY DEF TypeOK, Update

\* The events of an item are of their type.
LEMMA ItemsTyped == \A events \in Items : events \in Seq(Yields)
<1>1. "status" \in Yields /\ "message" \in Yields
  BY DEF Yields
<1>2. \A a, b \in Yields :
        <<>> \in Seq(Yields) /\ <<a>> \in Seq(Yields) /\ <<a, b>> \in Seq(Yields)
  OBVIOUS
<1> QED
  BY <1>1, <1>2 DEF Items

\* A request that yields events keeps its type.
LEMMA YieldingTyped ==
  ASSUME NEW u \in RequestStates, NEW events \in Seq(Yields)
  PROVE  /\ Yielding(u, events) \in RequestStates
         /\ Yielding(u, events) = [u EXCEPT !.todo = events,
                                            !.made = u.made + Shown(u, events)]
<1>1. Shown(u, events) \in Nat
  BY ShownFinite
<1>2. Yielding(u, events) = [u EXCEPT !.todo = events,
                                      !.made = u.made + Shown(u, events)]
  BY DEF Yielding, RequestStates
<1>3. u.made + Shown(u, events) \in Nat
  BY <1>1 DEF RequestStates
<1> QED
  BY ZenonT(60), <1>2, <1>3 DEF RequestStates

\* A message of a request is appended.
LEMMA SayTyped ==
  ASSUME TypeOK, NEW r \in Requests, NEW role \in {"human", "ai", "tool"}, Say(r, role)
  PROVE  /\ history' \in Seq(Messages)
         /\ history' = Append(history, [turn |-> r, role |-> role])
BY DEF TypeOK, Say, Messages

LEMMA TailTyped == ASSUME NEW S, NEW s \in Seq(S), s # <<>> PROVE Tail(s) \in Seq(S)
OBVIOUS

\* Taking an element out of a sequence.
LEMMA WithoutTyped ==
  ASSUME NEW S, NEW s \in Seq(S), NEW i \in DOMAIN s
  PROVE  /\ Without(s, i) \in Seq(S)
         /\ Len(Without(s, i)) = Len(s) - 1
         /\ \A j \in 1 .. Len(s) - 1 : Without(s, i)[j] = IF j < i THEN s[j] ELSE s[j + 1]
<1>1. Len(s) \in Nat /\ i \in 1 .. Len(s)
  OBVIOUS
<1>2. /\ SubSeq(s, 1, i - 1) \in Seq(S) /\ Len(SubSeq(s, 1, i - 1)) = i - 1
      /\ \A j \in 1 .. i - 1 : SubSeq(s, 1, i - 1)[j] = s[j]
  BY <1>1
<1>3. /\ SubSeq(s, i + 1, Len(s)) \in Seq(S) /\ Len(SubSeq(s, i + 1, Len(s))) = Len(s) - i
      /\ \A j \in 1 .. Len(s) - i : SubSeq(s, i + 1, Len(s))[j] = s[i + j]
  BY <1>1
<1> DEFINE A == SubSeq(s, 1, i - 1)
           B == SubSeq(s, i + 1, Len(s))
<1>4. Without(s, i) = A \o B
  BY DEF Without
<1>8. A \in Seq(S) /\ B \in Seq(S) /\ Len(A) = i - 1 /\ Len(B) = Len(s) - i
  BY <1>2, <1>3
<1> HIDE DEF A, B
<1>5. /\ A \o B \in Seq(S) /\ Len(A \o B) = Len(s) - 1
      /\ \A j \in 1 .. Len(s) - 1 :
           (A \o B)[j] = IF j < i THEN A[j] ELSE B[j - (i - 1)]
  <2>1. A \o B \in Seq(S) /\ Len(A \o B) = Len(A) + Len(B)
    BY <1>8, ConcatProperties
  <2>2. \A j \in 1 .. Len(A) + Len(B) :
          (A \o B)[j] = IF j \leq Len(A) THEN A[j] ELSE B[j - Len(A)]
    BY <1>8, ConcatProperties
  <2>3. Len(A) + Len(B) = Len(s) - 1
    BY <1>1, <1>8
  <2>4. \A j \in 1 .. Len(s) - 1 : (j \leq Len(A)) = (j < i)
    BY <1>1, <1>8
  <2> QED
    BY <1>8, <2>1, <2>2, <2>3, <2>4
<1>6. \A j \in 1 .. Len(s) - 1 : j < i => A[j] = s[j]
  BY <1>1, <1>2 DEF A
<1>7. ASSUME NEW j \in 1 .. Len(s) - 1, ~(j < i) PROVE B[j - (i - 1)] = s[j + 1]
  <2>1. j - (i - 1) \in 1 .. Len(s) - i /\ i + (j - (i - 1)) = j + 1
    BY <1>1, <1>7
  <2> QED
    BY <1>3, <2>1 DEF B
<1>9. ASSUME NEW j \in 1 .. Len(s) - 1
      PROVE  (A \o B)[j] = IF j < i THEN s[j] ELSE s[j + 1]
  <2>1. CASE j < i
    BY <1>5, <1>6, <2>1
  <2>2. CASE ~(j < i)
    BY <1>5, <1>7, <2>2
  <2> QED
    BY <2>1, <2>2
<1> QED
  BY <1>4, <1>5, <1>9, Zenon
-----------------------------------------------------------------------------
(* The lock.                                                               *)

TurnSteps == {"entered", "model", "tools", "closing", "rollback"}

\* Who is in the queue waits or is in its turn, and who is in its turn heads it.
Locked ==
  /\ \A i, j \in DOMAIN queue : queue[i] = queue[j] => i = j
  /\ \A i \in DOMAIN queue : req[queue[i]].step \in TurnSteps \cup {"waiting"}
  /\ \A r \in Requests : InTurn(r) => HoldsLock(r)
  /\ \A r \in Requests : req[r].todo # <<>> => req[r].step \in {"model", "closing"}

\* A request goes on within its turn, or only its reader does.
Moves(r) ==
  /\ \E u \in RequestStates :
       /\ Update(r, u)
       /\ u.baseline = req[r].baseline
       /\ u.step = req[r].step \/ (InTurn(r) /\ u.step \in TurnSteps)
       /\ u.todo # <<>> => u.step \in {"model", "closing"}
  /\ queue' = queue
  /\ interrupted' = interrupted
  /\ faults' \in 0 .. MaxFaults

\* A turn ends and releases the lock.
Ends(r) ==
  /\ InTurn(r)
  /\ \E u \in RequestStates :
       /\ Update(r, u)
       /\ u.step \in {"returned", "raised"}
       /\ u.todo = <<>>
  /\ queue' = Tail(queue)
  /\ faults' \in 0 .. MaxFaults

\* At most one request is in its turn.
LEMMA OneTurn ==
  ASSUME Locked, NEW r \in Requests, NEW q \in Requests, InTurn(r), InTurn(q)
  PROVE  r = q
BY DEF Locked, HoldsLock

LEMMA FaultTyped == ASSUME TypeOK, Fault PROVE faults' \in 0 .. MaxFaults
BY BoundsAssumption DEF TypeOK, Fault

\* Whoever goes on leaves the lock as it is.
LEMMA MovesLocked ==
  ASSUME TypeOK, Locked, NEW r \in Requests, Moves(r)
  PROVE  Locked' /\ req' \in [Requests -> RequestStates]
<1>1. PICK u \in RequestStates :
        /\ Update(r, u)
        /\ u.step = req[r].step \/ (InTurn(r) /\ u.step \in TurnSteps)
        /\ u.todo # <<>> => u.step \in {"model", "closing"}
  BY DEF Moves
<1>2. /\ req' \in [Requests -> RequestStates]
      /\ req'[r] = u
      /\ \A q \in Requests \ {r} : req'[q] = req[q]
  BY <1>1, UpdateTyped
<1>3. queue' = queue /\ queue \in Seq(Requests)
  BY DEF Moves, TypeOK
<1>4. \A i \in DOMAIN queue : req'[queue[i]].step \in TurnSteps \cup {"waiting"}
  BY <1>1, <1>2, <1>3 DEF Locked
<1>5. \A q \in Requests : InTurn(q)' => InTurn(q)
  BY <1>1, <1>2 DEF InTurn, TurnSteps
<1>6. \A q \in Requests : InTurn(q)' => HoldsLock(q)'
  BY <1>3, <1>5 DEF Locked, HoldsLock
<1>7. \A q \in Requests : req'[q].todo # <<>> => req'[q].step \in {"model", "closing"}
  BY <1>1, <1>2 DEF Locked
<1>8. \A i, j \in DOMAIN queue : queue[i] = queue[j] => i = j
  BY DEF Locked
<1> QED
  BY <1>2, <1>3, <1>4, <1>6, <1>7, <1>8 DEF Locked

\* The next in the queue takes over from a turn that ends.
LEMMA EndsLocked ==
  ASSUME TypeOK, Locked, NEW r \in Requests, Ends(r)
  PROVE  /\ Locked'
         /\ req' \in [Requests -> RequestStates]
         /\ queue' \in Seq(Requests)
         /\ \A q \in Requests : ~InTurn(q)'
<1>1. PICK u \in RequestStates :
        Update(r, u) /\ u.step \in {"returned", "raised"} /\ u.todo = <<>>
  BY DEF Ends
<1>2. /\ req' \in [Requests -> RequestStates]
      /\ req'[r] = u
      /\ \A q \in Requests \ {r} : req'[q] = req[q]
  BY <1>1, UpdateTyped
<1>3. queue \in Seq(Requests) /\ queue # <<>> /\ queue[1] = r
  BY DEF Ends, Locked, HoldsLock, TypeOK
<1>4. /\ queue' \in Seq(Requests)
      /\ DOMAIN queue' = 1 .. Len(queue) - 1
      /\ \A i \in DOMAIN queue' : i + 1 \in DOMAIN queue /\ queue'[i] = queue[i + 1]
  BY <1>3 DEF Ends
<1>5. \A i \in DOMAIN queue' : queue'[i] \in Requests \ {r}
  <2> TAKE i \in DOMAIN queue'
  <2>1. i + 1 \in DOMAIN queue /\ i + 1 # 1 /\ 1 \in DOMAIN queue
    BY <1>3, <1>4
  <2> QED
    BY <1>3, <1>4, <2>1 DEF Locked
<1>6. \A i, j \in DOMAIN queue' : queue'[i] = queue'[j] => i = j
  <2> TAKE i, j \in DOMAIN queue'
  <2>1. queue'[i] = queue'[j] => i + 1 = j + 1
    BY <1>4 DEF Locked
  <2> QED
    BY <1>4, <2>1
<1>7. \A i \in DOMAIN queue' : req'[queue'[i]].step \in TurnSteps \cup {"waiting"}
  BY <1>2, <1>4, <1>5 DEF Locked
<1>8. \A q \in Requests : ~InTurn(q)'
  <2> TAKE q \in Requests
  <2>1. CASE q = r
    BY <1>1, <1>2, <2>1 DEF InTurn
  <2>2. CASE q # r
    <3>1. ~InTurn(q)
      BY <2>2, OneTurn DEF Ends
    <3> QED
      BY <1>2, <2>2, <3>1 DEF InTurn
  <2> QED
    BY <2>1, <2>2
<1>9. \A q \in Requests : req'[q].todo # <<>> => req'[q].step \in {"model", "closing"}
  BY <1>1, <1>2 DEF Locked
<1> QED
  BY <1>2, <1>4, <1>6, <1>7, <1>8, <1>9 DEF Locked
-----------------------------------------------------------------------------
(* What each action does to its request.                                   *)

\* A message may be appended, and the request goes on.
Speaks(r) ==
  /\ Moves(r)
  /\ InTurn(r)
  /\ \E role \in {"human", "ai", "tool"} :
       /\ Say(r, role)
       /\ role = "human" \/ req[r].step \in {"model", "tools"}
       /\ req'[r].step = "closing" => role = "ai"
  /\ req'[r].step \in {"model", "tools", "closing"}

\* The checkpoint stays.
Quiet(r) ==
  /\ Moves(r)
  /\ history' = history
  /\ req'[r].step = req[r].step \/ (InTurn(r) /\ req'[r].step = "rollback")

\* Each event that was made is still to come, to be replayed, or sent; a request
\* is done when all of them are sent.
Counted(u) ==
  /\ u.reader # "none" \/ u.step = "idle" =>
       u.sent + u.buffered + Shown(u, u.todo) = u.made
  /\ u.outcome = "done" =>
       u.reader = "none" /\ u.step = "returned" /\ u.sent = u.made

\* A new state of a request that makes no message.
LEMMA QuietUpdate ==
  ASSUME TypeOK, Locked, NEW r \in Requests, NEW u \in RequestStates, Update(r, u),
         UNCHANGED <<history, queue, interrupted>>, faults' \in 0 .. MaxFaults,
         u.baseline = req[r].baseline,
         u.step = req[r].step \/ (InTurn(r) /\ u.step = "rollback"),
         u.todo # <<>> => u.step \in {"model", "closing"}
  PROVE  Quiet(r) /\ req'[r] = u
<1>1. req'[r] = u
  BY UpdateTyped
<1>2. Moves(r)
  BY DEF Moves, TurnSteps
<1> QED
  BY <1>1, <1>2 DEF Quiet

\* Readers: the route keeps an event.
LEMMA BufferSound ==
  ASSUME TypeOK, Locked, NEW r \in Requests, Counted(req[r]), Buffer(r)
  PROVE  Quiet(r) /\ Counted(req'[r])
<1> DEFINE v == req[r]
           u == [v EXCEPT !.todo = Tail(v.todo),
                          !.buffered = v.buffered + Shown(v, <<Head(v.todo)>>)]
<1>1. v \in RequestStates /\ v.todo \in Seq(Yields) /\ v.todo # <<>> /\ v.reader = "route"
  BY DEF TypeOK, RequestStates, Buffer, Offers
<1>2. /\ Shown(v, v.todo) = Shown(v, <<Head(v.todo)>>) + Shown(v, Tail(v.todo))
      /\ Tail(v.todo) \in Seq(Yields) /\ Shown(v, Tail(v.todo)) \in Nat
      /\ Shown(v, <<Head(v.todo)>>) \in Nat
  <2>1. <<Head(v.todo)>> \in Seq(Yields) /\ Tail(v.todo) \in Seq(Yields)
    BY <1>1
  <2> QED
    BY <1>1, <2>1, ShownFirst, ShownFinite
<1>3. u \in RequestStates
  <2>1. v.buffered + Shown(v, <<Head(v.todo)>>) \in Nat
    <3>1. v.buffered \in Nat
      BY <1>1 DEF RequestStates
    <3> QED
      BY <1>2, <3>1
  <2>2. Tail(v.todo) \in Seq(Yields)
    BY <1>2
  <2> HIDE DEF v
  <2> QED
    BY <1>1, <2>1, <2>2 DEF RequestStates
<1>4. Update(r, u) /\ UNCHANGED <<history, queue, faults, interrupted>>
  BY DEF Buffer, Only
<1>5. /\ u.baseline = v.baseline /\ u.step = v.step /\ u.todo = Tail(v.todo)
      /\ u.legacy = v.legacy /\ u.reader = "route" /\ u.sent = v.sent /\ u.made = v.made
      /\ u.buffered = v.buffered + Shown(v, <<Head(v.todo)>>) /\ u.outcome = v.outcome
  BY <1>1 DEF RequestStates
<1> HIDE DEF u
<1>6. u.step \in {"model", "closing"} /\ faults' \in 0 .. MaxFaults
  BY <1>1, <1>4, <1>5 DEF Locked, TypeOK
<1>7. Quiet(r) /\ req'[r] = u
  BY <1>3, <1>4, <1>5, <1>6, QuietUpdate
<1>8. Shown(u, u.todo) = Shown(v, Tail(v.todo))
  BY <1>5, ShownSame
<1>9. v.sent + v.buffered + Shown(v, v.todo) = v.made /\ v.outcome # "done"
  BY <1>1 DEF Counted
<1>10. v.sent \in Nat /\ v.buffered \in Nat
  BY <1>1 DEF RequestStates
<1>11. u.sent + u.buffered + Shown(u, u.todo) = u.made
  BY <1>2, <1>5, <1>8, <1>9, <1>10
<1> QED
  BY <1>5, <1>7, <1>9, <1>11 DEF Counted

\* The message at which the route stopped is not shown a second time.
LEMMA TakenNotShown ==
  ASSUME NEW u, NEW s \in Seq(Yields)
  PROVE  <<"taken">> \o s \in Seq(Yields) /\ Shown(u, <<"taken">> \o s) = Shown(u, s)
<1> DEFINE t == <<"taken">> \o s
<1>1. "taken" \in Yields
  BY DEF Yields
<1>2. t \in Seq(Yields) /\ t # <<>> /\ Head(t) = "taken" /\ Tail(t) = s
  BY <1>1
<1> HIDE DEF t
<1>3. Shown(u, t) = Shown(u, <<"taken">>) + Shown(u, s)
  BY <1>2, ShownFirst
<1>4. Shown(u, <<"taken">>) = 0
  BY ShownOne DEF Visible
<1>5. Shown(u, s) \in Nat
  BY ShownFinite
<1> QED
  BY <1>2, <1>3, <1>4, <1>5 DEF t

\* Readers: the route answers at the first message.
LEMMA RespondSound ==
  ASSUME TypeOK, Locked, NEW r \in Requests, Counted(req[r]), Respond(r)
  PROVE  Quiet(r) /\ Counted(req'[r])
<1> DEFINE v == req[r]
           todo == <<"taken">> \o Tail(v.todo)
           u == [v EXCEPT !.reader = "response", !.todo = todo,
                          !.buffered = v.buffered + 1]
<1>1. /\ v \in RequestStates /\ v.todo \in Seq(Yields) /\ v.todo # <<>>
      /\ v.reader = "route" /\ Head(v.todo) = "message"
  BY DEF TypeOK, RequestStates, Respond, Offers
<1>2. Tail(v.todo) \in Seq(Yields)
  BY <1>1
<1>3. /\ Shown(v, v.todo) = 1 + Shown(v, Tail(v.todo))
      /\ Shown(v, Tail(v.todo)) \in Nat
  <2>1. Shown(v, <<"message">>) = 1
    BY ShownOne DEF Visible
  <2> QED
    BY <1>1, <1>2, <2>1, ShownFirst, ShownFinite
<1>4. todo \in Seq(Yields) /\ Shown(u, todo) = Shown(u, Tail(v.todo))
  BY <1>2, TakenNotShown
<1>5. Update(r, u) /\ UNCHANGED <<history, queue, faults, interrupted>>
  BY DEF Respond, Only
<1> HIDE DEF todo
<1>6. u \in RequestStates
  <2>1. v.buffered + 1 \in Nat
    BY <1>1 DEF RequestStates
  <2>2. todo \in Seq(Yields)
    BY <1>4
  <2> QED
    BY <1>1, <2>1, <2>2 DEF RequestStates
<1>7. /\ u.baseline = v.baseline /\ u.step = v.step /\ u.todo = todo
      /\ u.legacy = v.legacy /\ u.reader = "response" /\ u.sent = v.sent
      /\ u.made = v.made /\ u.buffered = v.buffered + 1 /\ u.outcome = v.outcome
  BY <1>1 DEF RequestStates
<1> HIDE DEF u
<1>8. u.step \in {"model", "closing"} /\ faults' \in 0 .. MaxFaults
  BY <1>1, <1>5, <1>7 DEF Locked, TypeOK
<1>9. Quiet(r) /\ req'[r] = u
  BY <1>5, <1>6, <1>7, <1>8, QuietUpdate
<1>10. Shown(u, Tail(v.todo)) = Shown(v, Tail(v.todo))
  BY <1>7, ShownSame
<1>11. v.sent + v.buffered + Shown(v, v.todo) = v.made /\ v.outcome # "done"
  BY <1>1 DEF Counted
<1>12. v.sent \in Nat /\ v.buffered \in Nat
  BY <1>1 DEF RequestStates
<1>13. u.sent + u.buffered + Shown(u, u.todo) = u.made
  <2> DEFINE rest == Shown(v, Tail(v.todo))
  <2>1. Shown(u, u.todo) = rest
    BY <1>4, <1>7, <1>10, Zenon
  <2>2. rest \in Nat /\ v.sent + v.buffered + (1 + rest) = v.made
    BY <1>3, <1>11
  <2>3. u.sent = v.sent /\ u.buffered = v.buffered + 1 /\ u.made = v.made
    BY <1>7
  <2> HIDE DEF rest, v
  <2> QED
    BY <2>1, <2>2, <2>3, <1>12
<1> QED
  BY <1>7, <1>9, <1>11, <1>13 DEF Counted

\* Readers: the response sends the next event.
LEMMA DeliverSound ==
  ASSUME TypeOK, Locked, NEW r \in Requests, Counted(req[r]), Deliver(r)
  PROVE  Quiet(r) /\ Counted(req'[r])
<1> DEFINE v == req[r]
           u == [v EXCEPT !.todo = Tail(v.todo),
                          !.sent = v.sent + Shown(v, <<Head(v.todo)>>)]
<1>1. v \in RequestStates /\ v.todo \in Seq(Yields) /\ v.todo # <<>> /\ v.reader = "response"
  BY DEF TypeOK, RequestStates, Deliver, Offers
<1>2. /\ Shown(v, v.todo) = Shown(v, <<Head(v.todo)>>) + Shown(v, Tail(v.todo))
      /\ Tail(v.todo) \in Seq(Yields) /\ Shown(v, Tail(v.todo)) \in Nat
      /\ Shown(v, <<Head(v.todo)>>) \in Nat
  <2>1. <<Head(v.todo)>> \in Seq(Yields) /\ Tail(v.todo) \in Seq(Yields)
    BY <1>1
  <2> QED
    BY <1>1, <2>1, ShownFirst, ShownFinite
<1>3. u \in RequestStates
  <2>1. v.sent + Shown(v, <<Head(v.todo)>>) \in Nat
    <3>1. v.sent \in Nat
      BY <1>1 DEF RequestStates
    <3> QED
      BY <1>2, <3>1
  <2>2. Tail(v.todo) \in Seq(Yields)
    BY <1>2
  <2> HIDE DEF v
  <2> QED
    BY <1>1, <2>1, <2>2 DEF RequestStates
<1>4. Update(r, u) /\ UNCHANGED <<history, queue, faults, interrupted>>
  BY DEF Deliver, Only
<1>5. /\ u.baseline = v.baseline /\ u.step = v.step /\ u.todo = Tail(v.todo)
      /\ u.legacy = v.legacy /\ u.reader = "response" /\ u.made = v.made
      /\ u.sent = v.sent + Shown(v, <<Head(v.todo)>>)
      /\ u.buffered = v.buffered /\ u.outcome = v.outcome
  BY <1>1 DEF RequestStates
<1> HIDE DEF u
<1>6. u.step \in {"model", "closing"} /\ faults' \in 0 .. MaxFaults
  BY <1>1, <1>4, <1>5 DEF Locked, TypeOK
<1>7. Quiet(r) /\ req'[r] = u
  BY <1>3, <1>4, <1>5, <1>6, QuietUpdate
<1>8. Shown(u, u.todo) = Shown(v, Tail(v.todo))
  BY <1>5, ShownSame
<1>9. v.sent + v.buffered + Shown(v, v.todo) = v.made /\ v.outcome # "done"
  BY <1>1 DEF Counted
<1>10. v.sent \in Nat /\ v.buffered \in Nat
  BY <1>1 DEF RequestStates
<1>11. u.sent + u.buffered + Shown(u, u.todo) = u.made
  BY <1>2, <1>5, <1>8, <1>9, <1>10
<1> QED
  BY <1>5, <1>7, <1>9, <1>11 DEF Counted

\* Readers: what remains leaves the sum as it is.
LEMMA ReplaySound ==
  ASSUME TypeOK, Locked, NEW r \in Requests, Counted(req[r]),
         Replay(r) \/ RespondEmpty(r) \/ Done(r)
  PROVE  Quiet(r) /\ Counted(req'[r])
<1> DEFINE v == req[r]
<1>1. v \in RequestStates /\ v.reader \in {"route", "response"}
  BY DEF TypeOK, RequestStates, Replay, RespondEmpty, Done
<1>2. /\ v.sent + v.buffered + Shown(v, v.todo) = v.made /\ v.outcome # "done"
      /\ v.sent \in Nat /\ v.buffered \in Nat
      /\ v.todo # <<>> => v.step \in {"model", "closing"}
  BY <1>1 DEF Counted, Locked, RequestStates
<1>3. UNCHANGED <<history, queue, faults, interrupted>> /\ faults' \in 0 .. MaxFaults
  BY DEF TypeOK, Replay, RespondEmpty, Done, Only
<1>4. ASSUME Replay(r) PROVE Quiet(r) /\ Counted(req'[r])
  <2> DEFINE u == [v EXCEPT !.buffered = v.buffered - 1, !.sent = v.sent + 1]
  <2>1. v.buffered > 0 /\ v.buffered - 1 \in Nat /\ v.sent + 1 \in Nat
    BY <1>2, <1>4 DEF Replay
  <2>2. u \in RequestStates
    BY <1>1, <2>1 DEF RequestStates
  <2>3. /\ u.baseline = v.baseline /\ u.step = v.step /\ u.todo = v.todo
        /\ u.legacy = v.legacy /\ u.reader = v.reader /\ u.made = v.made
        /\ u.sent = v.sent + 1 /\ u.buffered = v.buffered - 1 /\ u.outcome = v.outcome
    BY <1>1 DEF RequestStates
  <2>4. Update(r, u)
    BY <1>4 DEF Replay, Only
  <2> HIDE DEF u
  <2>5. Quiet(r) /\ req'[r] = u
    BY <1>2, <1>3, <2>2, <2>3, <2>4, QuietUpdate
  <2>6. Shown(u, u.todo) = Shown(v, v.todo)
    BY <2>3, ShownSame
  <2>7. Shown(v, v.todo) \in Nat
    BY <1>1, ShownFinite DEF RequestStates
  <2>8. u.sent + u.buffered + Shown(u, u.todo) = u.made
    BY <1>2, <2>1, <2>3, <2>6, <2>7
  <2> QED
    BY <1>2, <2>3, <2>5, <2>8 DEF Counted
<1>5. ASSUME RespondEmpty(r) PROVE Quiet(r) /\ Counted(req'[r])
  <2> DEFINE u == [v EXCEPT !.reader = "response"]
  <2>1. u \in RequestStates
    BY <1>1 DEF RequestStates
  <2>2. /\ u.baseline = v.baseline /\ u.step = v.step /\ u.todo = v.todo
        /\ u.legacy = v.legacy /\ u.made = v.made
        /\ u.sent = v.sent /\ u.buffered = v.buffered /\ u.outcome = v.outcome
    BY <1>1 DEF RequestStates
  <2>3. Update(r, u)
    BY <1>5 DEF RespondEmpty, Only
  <2> HIDE DEF u
  <2>4. Quiet(r) /\ req'[r] = u
    BY <1>2, <1>3, <2>1, <2>2, <2>3, QuietUpdate
  <2>5. Shown(u, u.todo) = Shown(v, v.todo)
    BY <2>2, ShownSame
  <2> QED
    BY <1>2, <2>2, <2>4, <2>5 DEF Counted
<1>6. ASSUME Done(r) PROVE Quiet(r) /\ Counted(req'[r])
  <2> DEFINE u == [v EXCEPT !.reader = "none", !.outcome = "done"]
  <2>1. u \in RequestStates
    BY <1>1 DEF RequestStates
  <2>2. /\ u.baseline = v.baseline /\ u.step = v.step /\ u.todo = v.todo
        /\ u.reader = "none" /\ u.made = v.made /\ u.sent = v.sent
    BY <1>1 DEF RequestStates
  <2>3. Update(r, u) /\ v.buffered = 0 /\ v.step = "returned"
    BY <1>6 DEF Done, Only
  <2> HIDE DEF u
  <2>4. Quiet(r) /\ req'[r] = u
    BY <1>2, <1>3, <2>1, <2>2, <2>3, QuietUpdate
  <2>5. Shown(v, v.todo) = 0
    BY <1>2, <2>3, ShownEmpty
  <2>6. v.sent = v.made
    BY <1>2, <2>3, <2>5
  <2> QED
    BY <2>2, <2>3, <2>4, <2>6 DEF Counted
<1> QED
  BY <1>4, <1>5, <1>6

\* The agent yields events for its readers.
LEMMA YieldingCounted ==
  ASSUME NEW v \in RequestStates, Counted(v), v.todo = <<>>, v.reader # "none",
         NEW events \in Seq(Yields), NEW u,
         u.legacy = v.legacy, u.reader = v.reader, u.todo = events,
         u.made = v.made + Shown(v, events), u.sent = v.sent,
         u.buffered = v.buffered, u.outcome = v.outcome
  PROVE  Counted(u)
<1>1. Shown(v, v.todo) = 0
  BY ShownEmpty
<1>2. Shown(u, u.todo) = Shown(v, events) /\ Shown(v, events) \in Nat
  <2>1. Shown(u, events) = Shown(v, events)
    BY ShownSame
  <2>2. Shown(v, events) \in Nat
    BY ShownFinite
  <2> QED
    BY <2>1, <2>2, Zenon
<1>3. v.sent \in Nat /\ v.buffered \in Nat
  BY DEF RequestStates
<1>4. v.sent + v.buffered + 0 = v.made /\ v.outcome # "done"
  BY <1>1 DEF Counted
<1>5. u.sent + u.buffered + Shown(u, u.todo) = u.made
  BY <1>2, <1>3, <1>4
<1> QED
  BY <1>4, <1>5 DEF Counted

\* A new state of a request whose turn adds a message.
LEMMA SpeaksUpdate ==
  ASSUME TypeOK, Locked, NEW r \in Requests, NEW u \in RequestStates, Update(r, u),
         UNCHANGED <<queue, faults, interrupted>>,
         NEW role \in {"human", "ai", "tool"}, Say(r, role), InTurn(r),
         role = "human" \/ req[r].step \in {"model", "tools"},
         u.step \in {"model", "tools", "closing"},
         u.step = "closing" => role = "ai",
         u.baseline = req[r].baseline,
         u.todo # <<>> => u.step \in {"model", "closing"}
  PROVE  Speaks(r) /\ req'[r] = u
<1>1. req'[r] = u
  BY UpdateTyped
<1>2. Moves(r)
  BY DEF Moves, TurnSteps, TypeOK
<1> QED
  BY <1>1, <1>2 DEF Speaks

\* The agent: a chunk.
LEMMA ModelChunkSound ==
  ASSUME TypeOK, Locked, NEW r \in Requests, Counted(req[r]), ModelChunk(r)
  PROVE  Quiet(r) /\ Counted(req'[r])
<1> DEFINE v == req[r]
<1>1. PICK events \in Items :
        /\ Awaiting(r, "model")
        /\ Only(r, [Yielding(v, events) EXCEPT !.chunks = Yielding(v, events).chunks + 1])
  BY DEF ModelChunk
<1> DEFINE y == Yielding(v, events)
           u == [y EXCEPT !.chunks = y.chunks + 1]
<1>2. v \in RequestStates /\ events \in Seq(Yields)
  BY ItemsTyped DEF TypeOK
<1>3. v.todo = <<>> /\ v.reader # "none" /\ v.step = "model"
  BY <1>1 DEF Awaiting
<1>4. /\ y \in RequestStates
      /\ y = [v EXCEPT !.todo = events, !.made = v.made + Shown(v, events)]
  BY <1>2, YieldingTyped
<1>5. Update(r, u) /\ UNCHANGED <<history, queue, faults, interrupted>>
  BY <1>1 DEF Only
<1>6. /\ y.baseline = v.baseline /\ y.step = v.step /\ y.todo = events
      /\ y.legacy = v.legacy /\ y.reader = v.reader
      /\ y.made = v.made + Shown(v, events) /\ y.sent = v.sent
      /\ y.buffered = v.buffered /\ y.outcome = v.outcome
  BY <1>2, <1>4 DEF RequestStates
<1> HIDE DEF y
<1>7. /\ u.baseline = v.baseline /\ u.step = v.step /\ u.todo = events
      /\ u.legacy = v.legacy /\ u.reader = v.reader
      /\ u.made = v.made + Shown(v, events) /\ u.sent = v.sent
      /\ u.buffered = v.buffered /\ u.outcome = v.outcome
  BY <1>4, <1>6 DEF RequestStates
<1>8. u \in RequestStates
  <2>1. y \in RequestStates
    BY <1>4
  <2>2. y.chunks + 1 \in Nat
    BY <2>1 DEF RequestStates
  <2> QED
    BY <2>1, <2>2 DEF RequestStates
<1> HIDE DEF u
<1>9. Quiet(r) /\ req'[r] = u
  BY <1>3, <1>5, <1>7, <1>8, QuietUpdate DEF TypeOK
<1> QED
  BY <1>2, <1>3, <1>7, <1>9, YieldingCounted

\* The agent: the end of a node.
LEMMA AgentSpeaks ==
  ASSUME TypeOK, Locked, NEW r \in Requests, Counted(req[r]),
         NEW events \in Items, NEW step \in {"model", "tools", "closing"},
         NEW role \in {"ai", "tool"}, step = "closing" => role = "ai",
         Awaiting(r, "model") \/ Awaiting(r, "tools"),
         step = "tools" => events = <<>>,
         Say(r, role), UNCHANGED <<queue, faults, interrupted>>,
         Update(r, [Yielding(req[r], events) EXCEPT !.step = step])
  PROVE  Speaks(r) /\ Counted(req'[r])
<1> DEFINE v == req[r]
           y == Yielding(v, events)
           u == [y EXCEPT !.step = step]
<1>1. v \in RequestStates /\ events \in Seq(Yields)
  BY ItemsTyped DEF TypeOK
<1>2. v.todo = <<>> /\ v.reader # "none" /\ v.step \in {"model", "tools"}
  BY DEF Awaiting
<1>3. /\ y \in RequestStates
      /\ y = [v EXCEPT !.todo = events, !.made = v.made + Shown(v, events)]
  BY <1>1, YieldingTyped
<1>4. /\ y.baseline = v.baseline /\ y.todo = events
      /\ y.legacy = v.legacy /\ y.reader = v.reader
      /\ y.made = v.made + Shown(v, events) /\ y.sent = v.sent
      /\ y.buffered = v.buffered /\ y.outcome = v.outcome
  BY <1>1, <1>3 DEF RequestStates
<1> HIDE DEF y
<1>5. /\ u.baseline = v.baseline /\ u.step = step /\ u.todo = events
      /\ u.legacy = v.legacy /\ u.reader = v.reader
      /\ u.made = v.made + Shown(v, events) /\ u.sent = v.sent
      /\ u.buffered = v.buffered /\ u.outcome = v.outcome
  BY <1>3, <1>4 DEF RequestStates
<1>6. u \in RequestStates
  BY ZenonT(60), <1>3 DEF RequestStates, Steps
<1>7. Update(r, u)
  BY DEF y
<1> HIDE DEF u
<1>8. InTurn(r)
  BY <1>2 DEF InTurn
<1>9. Speaks(r) /\ req'[r] = u
  BY <1>2, <1>5, <1>6, <1>7, <1>8, SpeaksUpdate
<1> QED
  BY <1>1, <1>2, <1>5, <1>9, YieldingCounted

\* The agent: the user's message, or the call of a tool.
LEMMA AgentCalls ==
  ASSUME TypeOK, Locked, NEW r \in Requests, Counted(req[r]),
         Begin(r) \/ ModelCalls(r)
  PROVE  Speaks(r) /\ Counted(req'[r])
<1> DEFINE v == req[r]
<1>1. v \in RequestStates
  BY DEF TypeOK
<1>2. /\ v.todo = <<>> /\ v.reader # "none"
      /\ UNCHANGED <<queue, faults, interrupted>>
  BY DEF Begin, ModelCalls, Awaiting
<1>3. v.outcome # "done"
  BY <1>2 DEF Counted
<1>4. ASSUME Begin(r) PROVE Speaks(r) /\ Counted(req'[r])
  <2> DEFINE u == [v EXCEPT !.step = "model"]
  <2>1. u \in RequestStates
    BY <1>1 DEF RequestStates, Steps
  <2>2. /\ u.baseline = v.baseline /\ u.step = "model" /\ u.todo = v.todo
        /\ u.legacy = v.legacy /\ u.reader = v.reader /\ u.made = v.made
        /\ u.sent = v.sent /\ u.buffered = v.buffered /\ u.outcome = v.outcome
    BY <1>1 DEF RequestStates
  <2>3. Update(r, u) /\ Say(r, "human") /\ InTurn(r)
    BY <1>4 DEF Begin, Awaiting, InTurn
  <2> HIDE DEF u
  <2>4. Speaks(r) /\ req'[r] = u
    BY <1>2, <2>1, <2>2, <2>3, SpeaksUpdate
  <2>5. Shown(u, u.todo) = Shown(v, v.todo)
    BY <2>2, ShownSame
  <2> QED
    BY <1>2, <1>3, <2>2, <2>4, <2>5 DEF Counted
<1>5. ASSUME ModelCalls(r) PROVE Speaks(r) /\ Counted(req'[r])
  <2> DEFINE u == [v EXCEPT !.step = "tools", !.rounds = v.rounds + 1]
  <2>1. u \in RequestStates
    <3>1. v.rounds + 1 \in Nat
      BY <1>1 DEF RequestStates
    <3> QED
      BY <1>1, <3>1 DEF RequestStates, Steps
  <2>2. /\ u.baseline = v.baseline /\ u.step = "tools" /\ u.todo = v.todo
        /\ u.legacy = v.legacy /\ u.reader = v.reader /\ u.made = v.made
        /\ u.sent = v.sent /\ u.buffered = v.buffered /\ u.outcome = v.outcome
    BY <1>1 DEF RequestStates
  <2>3. Update(r, u) /\ Say(r, "ai") /\ InTurn(r) /\ v.step = "model"
    BY <1>5 DEF ModelCalls, Awaiting, InTurn
  <2> HIDE DEF u
  <2>4. Speaks(r) /\ req'[r] = u
    BY <1>2, <2>1, <2>2, <2>3, SpeaksUpdate
  <2>5. Shown(u, u.todo) = Shown(v, v.todo)
    BY <2>2, ShownSame
  <2> QED
    BY <1>2, <1>3, <2>2, <2>4, <2>5 DEF Counted
<1> QED
  BY <1>4, <1>5

\* Failures and disconnections change where a request is, and not the checkpoint.
LEMMA FailuresSound ==
  ASSUME TypeOK, Locked, NEW r \in Requests, Counted(req[r]),
         Fail(r) \/ CancelRunning(r) \/ Disconnect(r) \/ Finalize(r)
  PROVE  Quiet(r) /\ Counted(req'[r])
<1> DEFINE v == req[r]
<1>1. v \in RequestStates
  BY DEF TypeOK
<1>2. UNCHANGED <<history, queue, interrupted>> /\ faults' \in 0 .. MaxFaults
  BY FaultTyped DEF Fail, CancelRunning, Disconnect, Finalize, Only, TypeOK
<1>3. v.todo # <<>> => v.step \in {"model", "closing"} /\ InTurn(r)
  BY DEF Locked, InTurn
<1>4. ASSUME Fail(r) PROVE Quiet(r) /\ Counted(req'[r])
  <2> DEFINE u == [v EXCEPT !.step = "rollback"]
  <2>1. v.todo = <<>> /\ v.reader # "none" /\ InTurn(r)
    BY <1>4 DEF Fail, Awaiting, InTurn
  <2>2. u \in RequestStates
    BY <1>1 DEF RequestStates, Steps
  <2>3. /\ u.baseline = v.baseline /\ u.step = "rollback" /\ u.todo = v.todo
        /\ u.legacy = v.legacy /\ u.reader = v.reader /\ u.made = v.made
        /\ u.sent = v.sent /\ u.buffered = v.buffered /\ u.outcome = v.outcome
    BY <1>1 DEF RequestStates
  <2>4. Update(r, u)
    BY <1>4 DEF Fail
  <2> HIDE DEF u
  <2>5. Quiet(r) /\ req'[r] = u
    BY <1>2, <2>1, <2>2, <2>3, <2>4, QuietUpdate
  <2>6. Shown(u, u.todo) = Shown(v, v.todo)
    BY <2>3, ShownSame
  <2> QED
    BY <2>1, <2>3, <2>5, <2>6 DEF Counted
<1>5. ASSUME CancelRunning(r) PROVE Quiet(r) /\ Counted(req'[r])
  <2> DEFINE u == Left(v, "rollback")
  <2>1. v.todo = <<>> /\ InTurn(r)
    BY <1>5 DEF CancelRunning, Awaiting, InTurn
  <2>2. u \in RequestStates
    BY <1>1 DEF RequestStates, Steps, Left
  <2>3. /\ u.baseline = v.baseline /\ u.step = "rollback" /\ u.todo = v.todo
        /\ u.reader = "none" /\ u.outcome = "gone"
    BY <1>1 DEF RequestStates, Left
  <2>4. Update(r, u)
    BY <1>5 DEF CancelRunning
  <2> HIDE DEF u
  <2>5. Quiet(r) /\ req'[r] = u
    BY <1>2, <2>1, <2>2, <2>3, <2>4, QuietUpdate
  <2> QED
    BY <2>3, <2>5 DEF Counted
<1>6. ASSUME Disconnect(r) PROVE Quiet(r) /\ Counted(req'[r])
  <2> DEFINE u == Left(v, v.step)
  <2>1. u \in RequestStates
    BY <1>1 DEF RequestStates, Left
  <2>2. /\ u.baseline = v.baseline /\ u.step = v.step /\ u.todo = v.todo
        /\ u.reader = "none" /\ u.outcome = "gone"
    BY <1>1 DEF RequestStates, Left
  <2>3. Update(r, u) /\ v.step # "idle"
    BY <1>3, <1>6 DEF Disconnect
  <2> HIDE DEF u
  <2>4. Quiet(r) /\ req'[r] = u
    BY <1>2, <1>3, <2>1, <2>2, <2>3, QuietUpdate
  <2> QED
    BY <2>2, <2>3, <2>4 DEF Counted
<1>7. ASSUME Finalize(r) PROVE Quiet(r) /\ Counted(req'[r])
  <2> DEFINE u == [v EXCEPT !.step = "rollback", !.todo = <<>>]
  <2>1. v.reader = "none" /\ v.step \in {"model", "closing"} /\ InTurn(r)
    BY <1>3, <1>7 DEF Finalize
  <2>2. u \in RequestStates
    <3>1. <<>> \in Seq(Yields)
      OBVIOUS
    <3> QED
      BY <1>1, <3>1 DEF RequestStates, Steps
  <2>3. /\ u.baseline = v.baseline /\ u.step = "rollback" /\ u.todo = <<>>
        /\ u.reader = "none" /\ u.outcome = v.outcome
    BY <1>1, <2>1 DEF RequestStates
  <2>4. Update(r, u)
    BY <1>7 DEF Finalize, Only
  <2> HIDE DEF u
  <2>5. Quiet(r) /\ req'[r] = u
    BY <1>2, <2>1, <2>2, <2>3, <2>4, QuietUpdate
  <2>6. u.outcome # "done"
    BY <2>1, <2>3 DEF Counted
  <2> QED
    BY <2>3, <2>5, <2>6 DEF Counted
<1> QED
  BY <1>4, <1>5, <1>6, <1>7

\* The lock is taken by the request at its head, which reads the checkpoint.
LEMMA EnterSound ==
  ASSUME TypeOK, Locked, NEW r \in Requests, Counted(req[r]), Enter(r)
  PROVE  /\ Locked' /\ Counted(req'[r])
         /\ req' \in [Requests -> RequestStates]
         /\ \A q \in Requests \ {r} : req'[q] = req[q]
         /\ req'[r].step = "entered" /\ req'[r].baseline = history
<1> DEFINE v == req[r]
           u == [v EXCEPT !.step = "entered", !.baseline = history]
<1>1. v \in RequestStates /\ history \in Seq(Messages) /\ queue \in Seq(Requests)
  BY DEF TypeOK
<1>2. u \in RequestStates
  BY <1>1 DEF RequestStates, Steps
<1>3. /\ u.step = "entered" /\ u.baseline = history /\ u.todo = v.todo
      /\ u.legacy = v.legacy /\ u.reader = v.reader /\ u.made = v.made
      /\ u.sent = v.sent /\ u.buffered = v.buffered /\ u.outcome = v.outcome
  BY <1>1 DEF RequestStates
<1>4. Update(r, u) /\ v.step = "waiting" /\ HoldsLock(r) /\ queue' = queue
  BY DEF Enter, Only
<1> HIDE DEF u
<1>5. /\ req' \in [Requests -> RequestStates]
      /\ req'[r] = u
      /\ \A q \in Requests \ {r} : req'[q] = req[q]
  BY <1>2, <1>4, UpdateTyped
<1>6. Counted(u)
  <2>1. Shown(u, u.todo) = Shown(v, v.todo)
    BY <1>3, ShownSame
  <2> QED
    BY <1>3, <1>4, <2>1 DEF Counted
<1>7. \A i \in DOMAIN queue : req'[queue[i]].step \in TurnSteps \cup {"waiting"}
  BY <1>1, <1>3, <1>5 DEF Locked, TurnSteps
<1>8. \A q \in Requests : InTurn(q)' => HoldsLock(q)'
  <2> TAKE q \in Requests
  <2>1. q # r => (InTurn(q)' <=> InTurn(q))
    BY <1>5 DEF InTurn
  <2>2. HoldsLock(q)' <=> HoldsLock(q)
    BY <1>4 DEF HoldsLock
  <2> QED
    BY <1>4, <2>1, <2>2 DEF Locked
<1>9. \A q \in Requests : req'[q].todo # <<>> => req'[q].step \in {"model", "closing"}
  BY <1>3, <1>4, <1>5 DEF Locked
<1>10. \A i, j \in DOMAIN queue : queue[i] = queue[j] => i = j
  BY DEF Locked
<1> QED
  BY <1>3, <1>4, <1>5, <1>6, <1>7, <1>8, <1>9, <1>10 DEF Locked

\* A new request queues up.
LEMMA SendSound ==
  ASSUME TypeOK, Locked, NEW r \in Requests, Counted(req[r]),
         NEW legacy \in BOOLEAN, Send(r, legacy)
  PROVE  /\ Locked' /\ Counted(req'[r])
         /\ req' \in [Requests -> RequestStates] /\ queue' \in Seq(Requests)
         /\ \A q \in Requests \ {r} : req'[q] = req[q]
         /\ req'[r].step = "waiting"
<1> DEFINE v == req[r]
           u == [v EXCEPT !.step = "waiting", !.legacy = legacy, !.reader = "route"]
<1>1. v \in RequestStates /\ queue \in Seq(Requests) /\ v.step = "idle"
  BY DEF TypeOK, Send
<1>2. u \in RequestStates
  BY <1>1 DEF RequestStates, Steps
<1>3. /\ u.step = "waiting" /\ u.todo = v.todo /\ u.made = v.made
      /\ u.sent = v.sent /\ u.buffered = v.buffered /\ u.outcome = v.outcome
  BY <1>1 DEF RequestStates
<1>4. Update(r, u) /\ queue' = Append(queue, r)
  BY DEF Send
<1> HIDE DEF u
<1>5. /\ req' \in [Requests -> RequestStates]
      /\ req'[r] = u
      /\ \A q \in Requests \ {r} : req'[q] = req[q]
  BY <1>2, <1>4, UpdateTyped
<1>6. v.todo = <<>>
  BY <1>1 DEF Locked
<1>7. Counted(u)
  <2>1. Shown(u, u.todo) = 0 /\ Shown(v, v.todo) = 0
    BY <1>3, <1>6, ShownEmpty
  <2> QED
    BY <1>1, <1>3, <2>1 DEF Counted
<1>8. /\ queue' \in Seq(Requests)
      /\ DOMAIN queue' = 1 .. Len(queue) + 1
      /\ queue'[Len(queue) + 1] = r
      /\ \A i \in DOMAIN queue : i \in 1 .. Len(queue) /\ queue'[i] = queue[i]
  BY <1>1, <1>4
<1>9. \A i \in DOMAIN queue : queue[i] \in Requests /\ queue[i] # r
  BY <1>1 DEF Locked, TurnSteps
<1>10. \A i \in DOMAIN queue' : i \notin DOMAIN queue => i = Len(queue) + 1
  BY <1>1, <1>8
<1>11. \A i, j \in DOMAIN queue' : queue'[i] = queue'[j] => i = j
  BY <1>8, <1>9, <1>10 DEF Locked
<1>12. \A i \in DOMAIN queue' : req'[queue'[i]].step \in TurnSteps \cup {"waiting"}
  <2> TAKE i \in DOMAIN queue'
  <2>1. CASE i \in DOMAIN queue
    BY <1>5, <1>8, <1>9, <2>1 DEF Locked
  <2>2. CASE i \notin DOMAIN queue
    BY <1>3, <1>5, <1>8, <1>10, <2>2
  <2> QED
    BY <2>1, <2>2
<1>13. \A q \in Requests : InTurn(q)' => HoldsLock(q)'
  <2> TAKE q \in Requests
  <2>1. InTurn(q)' => InTurn(q)
    BY <1>3, <1>5 DEF InTurn
  <2>2. HoldsLock(q) => HoldsLock(q)'
    BY <1>1, <1>4 DEF HoldsLock
  <2> QED
    BY <2>1, <2>2 DEF Locked
<1>14. \A q \in Requests : req'[q].todo # <<>> => req'[q].step \in {"model", "closing"}
  BY <1>3, <1>5, <1>6 DEF Locked
<1> QED
  BY <1>3, <1>5, <1>7, <1>8, <1>11, <1>12, <1>13, <1>14 DEF Locked

\* A waiter that is cancelled leaves the queue; whoever holds the lock keeps it.
LEMMA CancelWaitingSound ==
  ASSUME TypeOK, Locked, NEW r \in Requests, Counted(req[r]), CancelWaiting(r)
  PROVE  /\ Locked' /\ Counted(req'[r])
         /\ req' \in [Requests -> RequestStates] /\ queue' \in Seq(Requests)
         /\ \A q \in Requests \ {r} : req'[q] = req[q]
         /\ req'[r].step = "raised" /\ req[r].step = "waiting"
<1> DEFINE v == req[r]
           u == Left(v, "raised")
<1>1. v \in RequestStates /\ queue \in Seq(Requests) /\ v.step = "waiting"
  BY DEF TypeOK, CancelWaiting
<1>2. u \in RequestStates
  BY <1>1 DEF RequestStates, Steps, Left
<1>3. u.step = "raised" /\ u.todo = v.todo /\ u.reader = "none" /\ u.outcome = "gone"
  BY <1>1 DEF RequestStates, Left
<1>4. PICK k \in DOMAIN queue : queue[k] = r /\ queue' = Without(queue, k)
  BY DEF CancelWaiting
<1>5. Update(r, u)
  BY DEF CancelWaiting
<1> HIDE DEF u
<1>6. /\ req' \in [Requests -> RequestStates]
      /\ req'[r] = u
      /\ \A q \in Requests \ {r} : req'[q] = req[q]
  BY <1>2, <1>5, UpdateTyped
<1>7. v.todo = <<>>
  BY <1>1 DEF Locked
<1>8. Counted(u)
  BY <1>3 DEF Counted
<1> DEFINE at(j) == IF j < k THEN j ELSE j + 1
<1>9. /\ queue' \in Seq(Requests)
      /\ Len(queue') = Len(queue) - 1
      /\ \A j \in 1 .. Len(queue) - 1 :
           queue'[j] = IF j < k THEN queue[j] ELSE queue[j + 1]
  BY <1>1, <1>4, WithoutTyped
<1>10. Len(queue) \in Nat /\ DOMAIN queue = 1 .. Len(queue)
       /\ DOMAIN queue' = 1 .. Len(queue) - 1
  BY <1>1, <1>9
<1>11. \A j \in DOMAIN queue' : at(j) \in DOMAIN queue \ {k} /\ queue'[j] = queue[at(j)]
  BY <1>4, <1>9, <1>10
<1>12. \A j \in DOMAIN queue' : queue'[j] \in Requests \ {r}
  BY <1>1, <1>4, <1>11 DEF Locked
<1>13. \A i, j \in DOMAIN queue' : queue'[i] = queue'[j] => i = j
  <2> TAKE i, j \in DOMAIN queue'
  <2>1. queue'[i] = queue'[j] => at(i) = at(j)
    BY <1>11 DEF Locked
  <2> QED
    BY <1>10, <2>1
<1>14. \A j \in DOMAIN queue' : req'[queue'[j]].step \in TurnSteps \cup {"waiting"}
  BY <1>6, <1>11, <1>12 DEF Locked
<1>15. \A q \in Requests : InTurn(q)' => HoldsLock(q)'
  <2> SUFFICES ASSUME NEW q \in Requests, InTurn(q)' PROVE HoldsLock(q)'
    OBVIOUS
  <2>1. q # r /\ InTurn(q)
    BY <1>3, <1>6 DEF InTurn
  <2>2. queue # <<>> /\ queue[1] = q
    BY <1>1, <2>1 DEF Locked, HoldsLock
  <2>3. k # 1
    BY <1>4, <2>1, <2>2
  <2>4. 1 \in DOMAIN queue' /\ queue'[1] = q
    BY <1>4, <1>9, <1>10, <2>2, <2>3
  <2> QED
    BY <1>9, <2>4 DEF HoldsLock
<1>16. \A q \in Requests : req'[q].todo # <<>> => req'[q].step \in {"model", "closing"}
  BY <1>3, <1>6, <1>7 DEF Locked
<1> QED
  BY <1>1, <1>3, <1>6, <1>8, <1>9, <1>13, <1>14, <1>15, <1>16 DEF Locked

\* A turn that returns, and one that raises after its roll-back.
LEMMA EndsSound ==
  ASSUME TypeOK, Locked, NEW r \in Requests, Counted(req[r]),
         Finish(r) \/ Rollback(r) \/ CancelRollback(r)
  PROVE  /\ Ends(r) /\ Counted(req'[r])
         /\ \A q \in Requests \ {r} : req'[q] = req[q]
         /\ req'[r].step = IF Finish(r) THEN "returned" ELSE "raised"
<1> DEFINE v == req[r]
<1>1. v \in RequestStates
  BY DEF TypeOK
<1>2. /\ InTurn(r) /\ queue' = Tail(queue) /\ faults' \in 0 .. MaxFaults
      /\ v.step \in {"closing", "rollback"} /\ v.outcome # "done"
  BY FaultTyped DEF Finish, Rollback, CancelRollback, Awaiting, InTurn, TypeOK, Counted
<1>3. CASE Finish(r)
  <2> DEFINE u == [v EXCEPT !.step = "returned"]
  <2>1. u \in RequestStates
    BY <1>1 DEF RequestStates, Steps
  <2>2. /\ u.step = "returned" /\ u.todo = v.todo
        /\ u.legacy = v.legacy /\ u.reader = v.reader /\ u.made = v.made
        /\ u.sent = v.sent /\ u.buffered = v.buffered /\ u.outcome = v.outcome
    BY <1>1 DEF RequestStates
  <2>3. Update(r, u) /\ v.todo = <<>> /\ v.reader # "none"
    BY <1>3 DEF Finish, Awaiting
  <2> HIDE DEF u
  <2>4. req'[r] = u /\ \A q \in Requests \ {r} : req'[q] = req[q]
    BY <2>1, <2>3, UpdateTyped
  <2>5. Ends(r)
    BY <1>2, <2>1, <2>2, <2>3 DEF Ends
  <2>6. Shown(u, u.todo) = Shown(v, v.todo)
    BY <2>2, ShownSame
  <2> QED
    BY <1>2, <1>3, <2>2, <2>3, <2>4, <2>5, <2>6 DEF Counted
<1>4. CASE Rollback(r) \/ CancelRollback(r)
  <2> DEFINE u == Raised(v)
  <2>1. u \in RequestStates
    BY ZenonT(60), <1>1 DEF RequestStates, Steps, Raised
  <2>2. /\ u.step = "raised" /\ u.todo = v.todo /\ u.reader = "none"
        /\ u.outcome \in {v.outcome, "error"}
    BY <1>1 DEF RequestStates, Raised
  <2>3. Update(r, u) /\ v.todo = <<>> /\ ~Finish(r)
    BY <1>4 DEF Rollback, CancelRollback, Finish, Awaiting, Locked
  <2> HIDE DEF u
  <2>4. req'[r] = u /\ \A q \in Requests \ {r} : req'[q] = req[q]
    BY <2>1, <2>3, UpdateTyped
  <2>5. Ends(r)
    BY <1>2, <2>1, <2>2, <2>3 DEF Ends
  <2> QED
    BY <1>2, <2>2, <2>3, <2>4, <2>5 DEF Counted
<1> QED
  BY <1>3, <1>4
-----------------------------------------------------------------------------
(* The checkpoint.                                                         *)

\* Whose messages may be in the checkpoint.
Stands(q) ==
  InTurn(q) \/ req[q].step = "returned" \/ (interrupted /\ req[q].step = "raised")

\* The checkpoint is what the turn found, and its own messages.
OnBaseline(r) ==
  /\ Len(req[r].baseline) <= Len(history)
  /\ \A i \in DOMAIN req[r].baseline :
       history[i] = req[r].baseline[i] /\ history[i].turn # r
  /\ \A i \in DOMAIN history : i > Len(req[r].baseline) => history[i].turn = r

Has(r, role) == \E i \in DOMAIN history : history[i] = [turn |-> r, role |-> role]

\* What a turn has said.
Said(r) ==
  /\ req[r].step \in {"model", "tools", "closing", "returned"} => Has(r, "human")
  /\ req[r].step \in {"closing", "returned"} => Has(r, "ai")

Contents ==
  /\ \A i \in DOMAIN history : Stands(history[i].turn)
  /\ \A r \in Requests : InTurn(r) => OnBaseline(r)
  /\ TurnsAreSerial
  /\ \A r \in Requests : Said(r)

LEMMA MessagesOf ==
  ASSUME TypeOK
  PROVE  /\ Len(history) \in Nat /\ DOMAIN history = 1 .. Len(history)
         /\ \A i \in DOMAIN history : history[i] \in Messages /\ history[i].turn \in Requests
         /\ \A r \in Requests : /\ Len(req[r].baseline) \in Nat
                                /\ DOMAIN req[r].baseline = 1 .. Len(req[r].baseline)
                                /\ req[r].baseline \in Seq(Messages)
<1>1. history \in Seq(Messages) /\ \A x \in Messages : x.turn \in Requests
  BY DEF TypeOK, Messages
<1>2. Len(history) \in Nat /\ DOMAIN history = 1 .. Len(history)
  BY <1>1
<1>3. \A i \in DOMAIN history : history[i] \in Messages /\ history[i].turn \in Requests
  BY <1>1
<1>4. \A r \in Requests : req[r].baseline \in Seq(Messages)
  BY DEF TypeOK, RequestStates
<1> QED
  BY <1>2, <1>3, <1>4

\* Without a message the checkpoint stays as it should be.
LEMMA QuietContents ==
  ASSUME TypeOK, Locked, Contents, NEW r \in Requests, Quiet(r)
  PROVE  Contents'
<1>1. /\ \A q \in Requests \ {r} : req'[q] = req[q]
      /\ req'[r].baseline = req[r].baseline
      /\ req'[r].step = req[r].step \/ (InTurn(r) /\ req'[r].step = "rollback")
      /\ interrupted' = interrupted /\ history' = history
  BY UpdateTyped DEF Quiet, Moves
<1>2. \A q \in Requests : InTurn(q)' <=> InTurn(q)
  BY <1>1 DEF InTurn
<1>3. \A i \in DOMAIN history : Stands(history[i].turn)'
  <2> TAKE i \in DOMAIN history
  <2>1. history[i].turn \in Requests /\ Stands(history[i].turn)
    BY MessagesOf DEF Contents
  <2> QED
    BY <1>1, <1>2, <2>1 DEF Stands, InTurn
<1>4. \A q \in Requests : InTurn(q)' => OnBaseline(q)'
  BY <1>1, <1>2 DEF Contents, OnBaseline
<1>5. TurnsAreSerial'
  BY <1>1 DEF Contents, TurnsAreSerial
<1>6. \A q \in Requests : Said(q)'
  BY <1>1 DEF Contents, Said, Has
<1> QED
  BY <1>1, <1>3, <1>4, <1>5, <1>6 DEF Contents

\* A message of the one turn there is extends its part of the checkpoint.
LEMMA SpeaksContents ==
  ASSUME TypeOK, Locked, Contents, NEW r \in Requests, Speaks(r)
  PROVE  Contents' /\ history' \in Seq(Messages)
<1>1. PICK role \in {"human", "ai", "tool"} :
        /\ Say(r, role)
        /\ role = "human" \/ req[r].step \in {"model", "tools"}
        /\ req'[r].step = "closing" => role = "ai"
  BY DEF Speaks
<1> DEFINE n == Len(history) + 1
<1>2. /\ history' \in Seq(Messages)
      /\ Len(history') = n /\ n \in Nat \ {0} /\ DOMAIN history' = 1 .. n
      /\ history'[n] = [turn |-> r, role |-> role]
      /\ \A i \in DOMAIN history : i \in 1 .. n - 1 /\ history'[i] = history[i]
      /\ \A i \in 1 .. n : i # n => i \in DOMAIN history
  <2>1. history \in Seq(Messages)
    BY DEF TypeOK
  <2>2. /\ history' \in Seq(Messages)
        /\ history' = Append(history, [turn |-> r, role |-> role])
    BY <1>1, SayTyped
  <2> QED
    BY <2>1, <2>2
<1> HIDE DEF n
<1>3. /\ \A q \in Requests \ {r} : req'[q] = req[q]
      /\ req'[r].baseline = req[r].baseline
      /\ req'[r].step \in {"model", "tools", "closing"} /\ InTurn(r)
      /\ interrupted' = interrupted
  BY UpdateTyped DEF Speaks, Moves
<1>4. \A q \in Requests : InTurn(q)' <=> InTurn(q)
  BY <1>3 DEF InTurn
<1>5. \A i \in DOMAIN history' : Stands(history[i].turn)'
  <2> TAKE i \in DOMAIN history'
  <2>1. CASE i = n
    BY <1>2, <1>3, <1>4, <2>1 DEF Stands
  <2>2. CASE i # n
    <3>1. /\ i \in DOMAIN history /\ history'[i] = history[i]
          /\ history[i].turn \in Requests /\ Stands(history[i].turn)
      BY <1>2, <2>2, MessagesOf DEF Contents
    <3> QED
      BY <1>3, <1>4, <3>1 DEF Stands, InTurn
  <2> QED
    BY <2>1, <2>2
<1>6. OnBaseline(r)
  BY <1>3 DEF Contents
<1>7. OnBaseline(r)'
  <2>1. Len(req[r].baseline) <= n - 1 /\ Len(req[r].baseline) \in Nat
    BY <1>6, MessagesOf DEF OnBaseline, n
  <2>2. Len(req'[r].baseline) <= Len(history')
    BY <1>2, <1>3, <2>1
  <2>3. \A i \in DOMAIN req[r].baseline :
          history'[i] = req[r].baseline[i] /\ history'[i].turn # r
    BY <1>2, <1>6, <2>1, MessagesOf DEF OnBaseline, n
  <2>4. \A i \in DOMAIN history' : i > Len(req[r].baseline) => history'[i].turn = r
    BY <1>2, <1>6 DEF OnBaseline
  <2> QED
    BY <1>3, <2>2, <2>3, <2>4 DEF OnBaseline
<1>8. \A q \in Requests : InTurn(q)' => OnBaseline(q)'
  BY <1>3, <1>4, <1>7, OneTurn
<1>9. TurnsAreSerial'
  <2> SUFFICES ASSUME NEW i \in 1 .. n, NEW j \in 1 .. n, NEW k \in 1 .. n,
                      i < j, j < k, history'[i].turn = history'[k].turn
               PROVE  history'[j].turn = history'[i].turn
    BY <1>2 DEF TurnsAreSerial
  <2>1. i \in DOMAIN history /\ j \in DOMAIN history
    BY <1>2
  <2>2. CASE k # n
    BY <1>2, <2>1, <2>2, MessagesOf DEF Contents, TurnsAreSerial
  <2>3. CASE k = n
    <3>1. history[i].turn = r
      BY <1>2, <2>1, <2>3
    <3>2. i > Len(req[r].baseline)
      BY <1>6, <2>1, <3>1, MessagesOf DEF OnBaseline
    <3>3. history[j].turn = r
      BY <1>2, <1>6, <2>1, <3>2, MessagesOf DEF OnBaseline
    <3> QED
      BY <1>2, <2>1, <3>1, <3>3
  <2> QED
    BY <2>2, <2>3
<1>10. \A q \in Requests, x \in {"human", "ai"} : Has(q, x) => Has(q, x)'
  BY <1>2 DEF Has
<1>11. Has(r, role)'
  BY <1>2 DEF Has
<1>12. \A q \in Requests : Said(q)'
  <2> TAKE q \in Requests
  <2>1. CASE q # r
    BY <1>3, <1>10, <2>1 DEF Contents, Said
  <2>2. CASE q = r
    BY <1>1, <1>3, <1>10, <1>11, <2>2 DEF Contents, Said
  <2> QED
    BY <2>1, <2>2
<1> QED
  BY <1>2, <1>5, <1>8, <1>9, <1>12 DEF Contents

\* A request that has said nothing may wait, leave, or begin.
LEMMA FirstStepsContents ==
  ASSUME TypeOK, Locked, Contents, NEW r \in Requests,
         req[r].step \in {"idle", "waiting"},
         req'[r].step \in {"waiting", "raised", "entered"},
         req'[r].step = "entered" => req'[r].baseline = history,
         \A q \in Requests \ {r} : req'[q] = req[q],
         UNCHANGED <<history, interrupted>>
  PROVE  Contents'
<1>1. \A i \in DOMAIN history : history[i].turn \in Requests \ {r}
  BY MessagesOf DEF Contents, Stands, InTurn
<1>2. \A q \in Requests \ {r} : InTurn(q)' <=> InTurn(q)
  BY DEF InTurn
<1>3. \A i \in DOMAIN history : Stands(history[i].turn)'
  <2> TAKE i \in DOMAIN history
  <2>1. Stands(history[i].turn) /\ history[i].turn \in Requests \ {r}
    BY <1>1 DEF Contents
  <2> QED
    BY <1>2, <2>1 DEF Stands
<1>4. \A q \in Requests \ {r} : InTurn(q)' => OnBaseline(q)'
  BY <1>2 DEF Contents, OnBaseline
<1>5. InTurn(r)' => OnBaseline(r)'
  <2> SUFFICES ASSUME InTurn(r)' PROVE OnBaseline(r)'
    OBVIOUS
  <2>1. req'[r].baseline = history
    BY DEF InTurn
  <2> QED
    BY <1>1, <2>1, MessagesOf DEF OnBaseline
<1>6. TurnsAreSerial'
  BY DEF Contents, TurnsAreSerial
<1>7. \A q \in Requests : Said(q)'
  BY DEF Contents, Said, Has
<1> QED
  BY <1>3, <1>4, <1>5, <1>6, <1>7 DEF Contents

\* A turn that ends leaves all it said, or nothing, unless its roll-back is cancelled.
LEMMA EndsContents ==
  ASSUME TypeOK, Locked, Contents, NEW r \in Requests, Counted(req[r]),
         Finish(r) \/ Rollback(r) \/ CancelRollback(r)
  PROVE  Contents' /\ history' \in Seq(Messages)
<1>1. /\ Ends(r) /\ InTurn(r)
      /\ \A q \in Requests \ {r} : req'[q] = req[q]
      /\ req'[r].step = IF Finish(r) THEN "returned" ELSE "raised"
  BY EndsSound DEF Ends
<1>2. \A q \in Requests : ~InTurn(q)'
  BY <1>1, EndsLocked
<1>3. \A q \in Requests \ {r} : ~InTurn(q)
  BY <1>1, OneTurn
<1>4. interrupted => interrupted'
  BY DEF Finish, Rollback, CancelRollback
<1>5. \A q \in Requests \ {r} : Stands(q) => Stands(q)'
  BY <1>1, <1>3, <1>4 DEF Stands
<1>6. OnBaseline(r)
  BY <1>1 DEF Contents
<1>7. CASE Rollback(r)
  <2> DEFINE base == req[r].baseline
  <2>1. history' = base /\ base \in Seq(Messages) /\ DOMAIN base = 1 .. Len(base)
    BY <1>7, MessagesOf DEF Rollback
  <2>2. \A i \in DOMAIN base :
          /\ i \in DOMAIN history /\ history[i] = base[i]
          /\ history[i].turn \in Requests \ {r}
    BY <1>6, <2>1, MessagesOf DEF OnBaseline
  <2>3. \A i \in DOMAIN base, q \in Requests : q = base[i].turn => Stands(q)'
    BY <1>5, <2>2 DEF Contents
  <2>4. (\A i \in DOMAIN history : Stands(history[i].turn))'
    BY <2>1, <2>2, <2>3 DEF Stands, InTurn
  <2>5. TurnsAreSerial'
    <3> SUFFICES ASSUME NEW i \in DOMAIN base, NEW j \in DOMAIN base, NEW k \in DOMAIN base,
                        i < j, j < k, base[i].turn = base[k].turn
                 PROVE  base[j].turn = base[i].turn
      BY <2>1 DEF TurnsAreSerial
    <3> QED
      BY <2>2, MessagesOf DEF Contents, TurnsAreSerial
  <2>6. \A q \in Requests \ {r}, x \in {"human", "ai"} : Has(q, x) => Has(q, x)'
    <3> SUFFICES ASSUME NEW q \in Requests \ {r}, NEW x \in {"human", "ai"}, Has(q, x)
                 PROVE  Has(q, x)'
      OBVIOUS
    <3>1. PICK i \in DOMAIN history : history[i] = [turn |-> q, role |-> x]
      BY DEF Has
    <3>2. ~(i > Len(base))
      BY <1>6, <3>1 DEF OnBaseline
    <3>3. i \in DOMAIN base
      BY <2>1, <3>2, MessagesOf
    <3> QED
      BY <2>1, <2>2, <3>1, <3>3 DEF Has
  <2>7. req'[r].step = "raised"
    BY <1>1, <1>7 DEF Finish, Rollback, Awaiting
  <2>8. \A q \in Requests : Said(q)'
    BY <1>1, <2>6, <2>7 DEF Contents, Said
  <2> QED
    BY <1>2, <2>1, <2>4, <2>5, <2>8 DEF Contents
<1>8. CASE Finish(r) \/ CancelRollback(r)
  <2>1. history' = history /\ history \in Seq(Messages)
    BY <1>8 DEF Finish, CancelRollback, TypeOK
  <2>2. Stands(r)'
    BY <1>1, <1>8 DEF Stands, CancelRollback
  <2>3. \A i \in DOMAIN history : Stands(history[i].turn)'
    <3> TAKE i \in DOMAIN history
    <3>1. Stands(history[i].turn) /\ history[i].turn \in Requests
      BY MessagesOf DEF Contents
    <3> QED
      BY <1>5, <2>1, <2>2, <3>1
  <2>4. TurnsAreSerial'
    BY <2>1 DEF Contents, TurnsAreSerial
  <2>5. \A q \in Requests : Said(q)'
    <3> TAKE q \in Requests
    <3>1. CASE q # r
      BY <1>1, <2>1, <3>1 DEF Contents, Said, Has
    <3>2. CASE q = r
      <4>1. req'[r].step = "returned" => req[r].step = "closing"
        BY <1>1 DEF Finish, Awaiting
      <4> QED
        BY <1>1, <2>1, <3>2, <4>1 DEF Contents, Said, Has
    <3> QED
      BY <3>1, <3>2
  <2>6. (\A i \in DOMAIN history : Stands(history[i].turn))'
    BY <2>1, <2>3
  <2> QED
    BY <1>2, <2>1, <2>4, <2>5, <2>6 DEF Contents
<1> QED
  BY <1>7, <1>8
-----------------------------------------------------------------------------
(* The inductive invariant.                                                *)

AllCounted == \A r \in Requests : Counted(req[r])

Inv == TypeOK /\ Locked /\ AllCounted /\ Contents

LEMMA InvInit == Init => Inv
<1> SUFFICES ASSUME Init PROVE Inv
  OBVIOUS
<1>1. /\ \A r \in Requests : req[r] = New
      /\ history = <<>> /\ queue = <<>> /\ faults = 0 /\ interrupted = FALSE
  BY DEF Init
<1>2. New \in RequestStates
  <2>1. <<>> \in Seq(Yields) /\ <<>> \in Seq(Messages) /\ 0 \in Nat
    OBVIOUS
  <2> QED
    BY <2>1 DEF New, RequestStates, Steps
<1>3. TypeOK
  <2>1. req \in [Requests -> RequestStates]
    BY <1>1, <1>2 DEF Init
  <2>2. history \in Seq(Messages) /\ queue \in Seq(Requests)
    BY <1>1
  <2>3. faults \in 0 .. MaxFaults
    BY <1>1, BoundsAssumption
  <2> QED
    BY <1>1, <2>1, <2>2, <2>3 DEF TypeOK
<1>4. New.step = "idle" /\ New.todo = <<>> /\ New.outcome = "none"
  BY DEF New
<1>5. Locked
  BY <1>1, <1>4 DEF Locked, InTurn
<1>6. AllCounted
  <2>1. New.sent = 0 /\ New.buffered = 0 /\ New.made = 0
    BY DEF New
  <2>2. Shown(New, New.todo) = 0
    BY <1>4, ShownEmpty
  <2>3. Counted(New)
    BY <1>4, <2>1, <2>2 DEF Counted
  <2> QED
    BY <1>1, <2>3 DEF AllCounted
<1>7. Contents
  BY <1>1, <1>4 DEF Contents, InTurn, TurnsAreSerial, Said
<1> QED
  BY <1>3, <1>5, <1>6, <1>7 DEF Inv

\* A step that makes no message.
LEMMA QuietInv ==
  ASSUME Inv, NEW r \in Requests, Quiet(r), Counted(req'[r])
  PROVE  Inv'
<1> USE DEF Inv
<1>1. Locked' /\ req' \in [Requests -> RequestStates]
  BY MovesLocked DEF Quiet
<1>2. /\ \A q \in Requests \ {r} : req'[q] = req[q]
      /\ history' = history /\ queue' = queue /\ interrupted' = interrupted
      /\ faults' \in 0 .. MaxFaults
  BY UpdateTyped DEF Quiet, Moves
<1>3. TypeOK'
  BY <1>1, <1>2 DEF TypeOK
<1>4. AllCounted'
  BY <1>2 DEF AllCounted
<1>5. Contents'
  BY QuietContents
<1> QED
  BY <1>1, <1>3, <1>4, <1>5

\* A step that makes one.
LEMMA SpeaksInv ==
  ASSUME Inv, NEW r \in Requests, Speaks(r), Counted(req'[r])
  PROVE  Inv'
<1> USE DEF Inv
<1>1. Locked' /\ req' \in [Requests -> RequestStates]
  BY MovesLocked DEF Speaks
<1>2. /\ \A q \in Requests \ {r} : req'[q] = req[q]
      /\ queue' = queue /\ interrupted' = interrupted /\ faults' \in 0 .. MaxFaults
  BY UpdateTyped DEF Speaks, Moves
<1>3. Contents' /\ history' \in Seq(Messages)
  BY SpeaksContents
<1>4. TypeOK'
  BY <1>1, <1>2, <1>3 DEF TypeOK
<1>5. AllCounted'
  BY <1>2 DEF AllCounted
<1> QED
  BY <1>1, <1>3, <1>4, <1>5

\* Every step of every actor preserves the invariant.
LEMMA InvNext == Inv /\ [Next]_vars => Inv'
<1> SUFFICES ASSUME Inv, [Next]_vars PROVE Inv'
  OBVIOUS
<1> USE DEF Inv
<1>1. \A r \in Requests : Counted(req[r])
  BY DEF AllCounted
<1>2. ASSUME NEW r \in Requests, Agent(r) PROVE Inv'
  <2>1. CASE ModelChunk(r)
    BY <1>1, <2>1, ModelChunkSound, QuietInv
  <2>2. CASE ModelCalls(r)
    BY <1>1, <2>2, AgentCalls, SpeaksInv
  <2>3. CASE ToolsReturn(r)
    <3>1. PICK events \in {<<>>, <<"status">>} :
            /\ Awaiting(r, "tools")
            /\ Say(r, "tool")
            /\ Update(r, [Yielding(req[r], events) EXCEPT !.step = "model"])
            /\ UNCHANGED <<queue, faults, interrupted>>
      BY <2>3 DEF ToolsReturn
    <3>2. events \in Items
      BY DEF Items
    <3> QED
      BY <1>1, <3>1, <3>2, AgentSpeaks, SpeaksInv
  <2>4. CASE ModelAnswers(r)
    <3>1. PICK events \in Items :
            /\ Awaiting(r, "model")
            /\ Say(r, "ai")
            /\ Update(r, [Yielding(req[r], events) EXCEPT !.step = "closing"])
            /\ UNCHANGED <<queue, faults, interrupted>>
      BY <2>4 DEF ModelAnswers
    <3> QED
      BY <1>1, <3>1, AgentSpeaks, SpeaksInv
  <2> QED
    BY <1>2, <2>1, <2>2, <2>3, <2>4 DEF Agent
<1>3. ASSUME NEW r \in Requests, Reader(r) PROVE Inv'
  <2>1. Quiet(r) /\ Counted(req'[r])
    BY <1>1, <1>3, BufferSound, RespondSound, DeliverSound, ReplaySound DEF Reader
  <2> QED
    BY <2>1, QuietInv
<1>4. ASSUME NEW r \in Requests, Fail(r) \/ CancelRunning(r) \/ Disconnect(r) \/ Finalize(r)
      PROVE  Inv'
  BY <1>1, <1>4, FailuresSound, QuietInv
<1>5. ASSUME NEW r \in Requests, Begin(r) PROVE Inv'
  BY <1>1, <1>5, AgentCalls, SpeaksInv
<1>6. ASSUME NEW r \in Requests, NEW legacy \in BOOLEAN, Send(r, legacy) PROVE Inv'
  <2>1. /\ Locked' /\ Counted(req'[r])
        /\ req' \in [Requests -> RequestStates] /\ queue' \in Seq(Requests)
        /\ \A q \in Requests \ {r} : req'[q] = req[q]
        /\ req'[r].step = "waiting"
    BY <1>1, <1>6, SendSound
  <2>2. req[r].step = "idle" /\ UNCHANGED <<history, faults, interrupted>>
    BY <1>6 DEF Send
  <2>3. Contents'
    BY <2>1, <2>2, FirstStepsContents
  <2>4. TypeOK' /\ AllCounted'
    BY <2>1, <2>2 DEF TypeOK, AllCounted
  <2> QED
    BY <2>1, <2>3, <2>4
<1>7. ASSUME NEW r \in Requests, Enter(r) PROVE Inv'
  <2>1. /\ Locked' /\ Counted(req'[r])
        /\ req' \in [Requests -> RequestStates]
        /\ \A q \in Requests \ {r} : req'[q] = req[q]
        /\ req'[r].step = "entered" /\ req'[r].baseline = history
    BY <1>1, <1>7, EnterSound
  <2>2. req[r].step = "waiting" /\ UNCHANGED <<history, queue, faults, interrupted>>
    BY <1>7 DEF Enter, Only
  <2>3. Contents'
    BY <2>1, <2>2, FirstStepsContents
  <2>4. TypeOK' /\ AllCounted'
    BY <2>1, <2>2 DEF TypeOK, AllCounted
  <2> QED
    BY <2>1, <2>3, <2>4
<1>8. ASSUME NEW r \in Requests, CancelWaiting(r) PROVE Inv'
  <2>1. /\ Locked' /\ Counted(req'[r])
        /\ req' \in [Requests -> RequestStates] /\ queue' \in Seq(Requests)
        /\ \A q \in Requests \ {r} : req'[q] = req[q]
        /\ req'[r].step = "raised" /\ req[r].step = "waiting"
    BY <1>1, <1>8, CancelWaitingSound
  <2>2. UNCHANGED <<history, interrupted>> /\ faults' \in 0 .. MaxFaults
    BY <1>8, FaultTyped DEF CancelWaiting
  <2>3. Contents'
    BY <2>1, <2>2, FirstStepsContents
  <2>4. TypeOK' /\ AllCounted'
    BY <2>1, <2>2 DEF TypeOK, AllCounted
  <2> QED
    BY <2>1, <2>3, <2>4
<1>9. ASSUME NEW r \in Requests, Finish(r) \/ Rollback(r) \/ CancelRollback(r) PROVE Inv'
  <2>1. /\ Ends(r) /\ Counted(req'[r])
        /\ \A q \in Requests \ {r} : req'[q] = req[q]
    BY <1>1, <1>9, EndsSound
  <2>2. Locked' /\ req' \in [Requests -> RequestStates] /\ queue' \in Seq(Requests)
    BY <2>1, EndsLocked
  <2>3. Contents' /\ history' \in Seq(Messages)
    BY <1>1, <1>9, EndsContents
  <2>4. interrupted' \in BOOLEAN /\ faults' \in 0 .. MaxFaults
    BY <1>9, <2>1 DEF Finish, Rollback, CancelRollback, Ends, TypeOK
  <2>5. TypeOK' /\ AllCounted'
    BY <2>1, <2>2, <2>3, <2>4 DEF TypeOK, AllCounted
  <2> QED
    BY <2>2, <2>3, <2>5
<1>10. CASE UNCHANGED vars
  BY <1>10 DEF vars, TypeOK, Locked, AllCounted, Contents, InTurn, HoldsLock, Stands,
     OnBaseline, TurnsAreSerial, Said, Has
<1> QED
  BY <1>2, <1>3, <1>4, <1>5, <1>6, <1>7, <1>8, <1>9, <1>10 DEF Next, Generator, Failure

LEMMA Invariance == Spec => []Inv
BY InvInit, InvNext, PTL DEF Spec

\* Requests, the lock and the checkpoint keep their types; nothing that was not
\* read ahead is replayed.
THEOREM Typing == Spec => []TypeOK
<1>1. Inv => TypeOK
  BY DEF Inv
<1> QED
  BY <1>1, Invariance, PTL

\* A turn that fails or is cancelled, at any step, leaves no message behind.
THEOREM WholeTurns == Spec => []TurnsAreWhole
<1>1. Inv => TurnsAreWhole
  BY MessagesOf DEF Inv, Contents, Stands, TurnsAreWhole
<1> QED
  BY <1>1, Invariance, PTL

\* The turns of any number of concurrent requests are not mixed.
THEOREM SerialTurns == Spec => []TurnsAreSerial
<1>1. Inv => TurnsAreSerial
  BY DEF Inv, Contents
<1> QED
  BY <1>1, Invariance, PTL

\* No roll-back of a later turn removes a turn a user was told is done.
THEOREM DoneStays == Spec => []DoneIsKept
<1>1. Inv => DoneIsKept
  <2> SUFFICES ASSUME Inv, NEW r \in Requests, req[r].outcome = "done"
               PROVE  Has(r, "human") /\ Has(r, "ai")
    BY MessagesOf DEF DoneIsKept, Has, Inv
  <2>1. req[r].step = "returned" /\ Said(r)
    BY DEF Inv, AllCounted, Counted, Contents
  <2> QED
    BY <2>1 DEF Said
<1> QED
  BY <1>1, Invariance, PTL

\* Whatever the route read ahead, a stream that ends with done has carried each
\* event once.
THEOREM DoneCarriesAll == Spec => []DoneIsComplete
<1>1. Inv => DoneIsComplete
  BY DEF Inv, AllCounted, Counted, DoneIsComplete
<1> QED
  BY <1>1, Invariance, PTL
=============================================================================
