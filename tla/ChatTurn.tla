------------------------------ MODULE ChatTurn ------------------------------
(***************************************************************************)
(* The turns of one conversation (llm/agent.py, api/chat.py).              *)
(*                                                                         *)
(* A request is served by an asynchronous generator, stream_events, which  *)
(* takes the lock of the conversation, runs the agent on its checkpoint    *)
(* and yields events.  Its reader is first the route, which reads up to    *)
(* the first message so that an early failure can become a 502, and then   *)
(* the body of the streaming response.  Only a reader that waits for the   *)
(* next event lets the generator run; the lock is held meanwhile.          *)
(*                                                                         *)
(* The agent (LangGraph) is external: it appends messages to the           *)
(* checkpoint node by node.  So is asyncio, which cancels tasks that await *)
(* something, and closes a suspended generator nobody refers to.           *)
(*                                                                         *)
(* Abstractions: a message is its turn and its role.  What is in the       *)
(* events sources and status is left out, and when the citation filter     *)
(* holds a text back; an item of the agent's stream may yield any of them. *)
(* Conversations share nothing, so there is one.  A request refused before *)
(* the agent is called changes nothing and is left out.                    *)
(***************************************************************************)
EXTENDS Naturals, Sequences, FiniteSets

CONSTANTS
  Requests,   \* requests with this conversation_id
  MaxChunks,  \* bound on the chunks of text of a turn
  MaxRounds,  \* bound on the calls of tools in a turn
  MaxFaults   \* bound on failures and cancellations

ASSUME BoundsAssumption ==
  MaxChunks \in Nat /\ MaxRounds \in Nat /\ MaxFaults \in Nat

VARIABLES
  history,     \* the messages of the latest checkpoint
  queue,       \* the asyncio.Lock: its holder, then its waiters
  req,         \* req[r]: request r
  faults,      \* number of failures and cancellations
  interrupted  \* history: some roll-back was cancelled

vars == <<history, queue, req, faults, interrupted>>
-----------------------------------------------------------------------------
Messages == [turn : Requests, role : {"human", "ai", "tool"}]

\* "status": an event that is no message; "taken": the message at which the
\* route stopped reading.
Yields == {"status", "message", "taken"}

\* Where stream_events is, and how it ended.
Steps == {"idle", "waiting", "entered", "model", "tools", "closing", "rollback",
          "returned", "raised"}

RequestStates ==
  [step : Steps,
   legacy : BOOLEAN,                       \* stream(): messages only
   reader : {"none", "route", "response"},
   todo : Seq(Yields),                     \* what it yields; suspended at the first
   baseline : Seq(Messages),
   chunks : Nat, rounds : Nat,
   made : Nat, buffered : Nat, sent : Nat, \* events: in all, to be replayed, sent
   outcome : {"none", "done", "error", "gone"}]

New ==
  [step |-> "idle", legacy |-> FALSE, reader |-> "none", todo |-> <<>>,
   baseline |-> <<>>, chunks |-> 0, rounds |-> 0,
   made |-> 0, buffered |-> 0, sent |-> 0, outcome |-> "none"]

Init ==
  /\ history = <<>>
  /\ queue = <<>>
  /\ req = [r \in Requests |-> New]
  /\ faults = 0
  /\ interrupted = FALSE

Say(r, role) == history' = Append(history, [turn |-> r, role |-> role])

Update(r, u) == req' = [req EXCEPT ![r] = u]

\* The request changes, and nothing else.
Only(r, u) == Update(r, u) /\ UNCHANGED <<history, queue, faults, interrupted>>

\* The generator awaits the agent.
Awaiting(r, step) == req[r].step = step /\ req[r].todo = <<>> /\ req[r].reader # "none"
-----------------------------------------------------------------------------
(* stream_events up to the agent.                                          *)

Send(r, legacy) ==
  /\ req[r].step = "idle"
  /\ queue' = Append(queue, r)
  /\ Update(r, [req[r] EXCEPT !.step = "waiting", !.legacy = legacy, !.reader = "route"])
  /\ UNCHANGED <<history, faults, interrupted>>

\* Mutant: the lock is not taken.
Anyone(r) == TRUE

HoldsLock(r) == queue # <<>> /\ Head(queue) = r

\* Mutant: the messages before the turn are not read.
EnterBlindly(r) ==
  /\ req[r].step = "waiting"
  /\ HoldsLock(r)
  /\ Only(r, [req[r] EXCEPT !.step = "entered"])

Enter(r) ==
  /\ req[r].step = "waiting"
  /\ HoldsLock(r)
  /\ Only(r, [req[r] EXCEPT !.step = "entered", !.baseline = history])

\* Mutant: the snapshot is taken once the agent has the user's message.
BeginThenSnapshot(r) ==
  /\ Awaiting(r, "entered")
  /\ Say(r, "human")
  /\ Update(r, [req[r] EXCEPT !.step = "model", !.baseline = history'])
  /\ UNCHANGED <<queue, faults, interrupted>>

Begin(r) ==
  /\ Awaiting(r, "entered")
  /\ Say(r, "human")
  /\ Update(r, [req[r] EXCEPT !.step = "model"])
  /\ UNCHANGED <<queue, faults, interrupted>>
-----------------------------------------------------------------------------
(* What stream_events yields for an item of the agent's stream.            *)

Items == {<<>>, <<"status">>, <<"message">>, <<"status", "message">>}

\* stream() passes messages only.
Visible(u, event) == event = "message" \/ (event = "status" /\ ~u.legacy)

Shown(u, events) == Cardinality({i \in DOMAIN events : Visible(u, events[i])})

Yielding(u, events) == [u EXCEPT !.todo = events, !.made = @ + Shown(u, events)]

\* A chunk of the model's answer: a call of a tool, a text, or both.
ModelChunk(r) ==
  \E events \in Items :
    /\ Awaiting(r, "model")
    /\ req[r].chunks < MaxChunks
    /\ Only(r, [Yielding(req[r], events) EXCEPT !.chunks = @ + 1])

ModelCalls(r) ==
  /\ Awaiting(r, "model")
  /\ req[r].rounds < MaxRounds
  /\ Say(r, "ai")
  /\ Update(r, [req[r] EXCEPT !.step = "tools", !.rounds = @ + 1])
  /\ UNCHANGED <<queue, faults, interrupted>>

\* The message of the tools is an item as well: it may bring sources.
ToolsReturn(r) ==
  \E events \in {<<>>, <<"status">>} :
    /\ Awaiting(r, "tools")
    /\ Say(r, "tool")
    /\ Update(r, [Yielding(req[r], events) EXCEPT !.step = "model"])
    /\ UNCHANGED <<queue, faults, interrupted>>

\* The stream of the agent ends: what the filter held back follows.
ModelAnswers(r) ==
  \E events \in Items :
    /\ Awaiting(r, "model")
    /\ Say(r, "ai")
    /\ Update(r, [Yielding(req[r], events) EXCEPT !.step = "closing"])
    /\ UNCHANGED <<queue, faults, interrupted>>

\* The generator returns, and the lock is released.
Finish(r) ==
  /\ Awaiting(r, "closing")
  /\ queue' = Tail(queue)
  /\ Update(r, [req[r] EXCEPT !.step = "returned"])
  /\ UNCHANGED <<history, faults, interrupted>>
-----------------------------------------------------------------------------
(* The readers.                                                            *)

\* The generator is suspended at an event for this reader.
Offers(r, reader) == req[r].reader = reader /\ req[r].todo # <<>>

\* The route keeps an event for the response and asks for the next one.
Buffer(r) ==
  /\ Offers(r, "route")
  /\ Head(req[r].todo) # "message"
  /\ Only(r, [req[r] EXCEPT !.todo = Tail(@),
                            !.buffered = @ + Shown(req[r], <<Head(req[r].todo)>>)])

\* Mutant: the message at which the route stopped is not replayed.
RespondFromHere(r) ==
  /\ Offers(r, "route")
  /\ Head(req[r].todo) = "message"
  /\ Only(r, [req[r] EXCEPT !.reader = "response", !.todo = <<"taken">> \o Tail(@)])

\* The first message: the route answers, leaving the generator suspended.
Respond(r) ==
  /\ Offers(r, "route")
  /\ Head(req[r].todo) = "message"
  /\ Only(r, [req[r] EXCEPT !.reader = "response", !.todo = <<"taken">> \o Tail(@),
                            !.buffered = @ + 1])

\* The generator returned without a message.
RespondEmpty(r) ==
  /\ req[r].reader = "route" /\ req[r].step = "returned"
  /\ Only(r, [req[r] EXCEPT !.reader = "response"])

Replay(r) ==
  /\ req[r].reader = "response" /\ req[r].buffered > 0
  /\ Only(r, [req[r] EXCEPT !.buffered = @ - 1, !.sent = @ + 1])

Deliver(r) ==
  /\ Offers(r, "response") /\ req[r].buffered = 0
  /\ Only(r, [req[r] EXCEPT !.todo = Tail(@),
                            !.sent = @ + Shown(req[r], <<Head(req[r].todo)>>)])

Done(r) ==
  /\ req[r].reader = "response" /\ req[r].buffered = 0
  /\ req[r].step = "returned"
  /\ Only(r, [req[r] EXCEPT !.reader = "none", !.outcome = "done"])
-----------------------------------------------------------------------------
(* Failures.                                                               *)

Fault == faults < MaxFaults /\ faults' = faults + 1

\* The agent raises: the provider, a tool, the checkpoint.
Fail(r) ==
  /\ \E step \in {"entered", "model", "tools"} : Awaiting(r, step)
  /\ Fault
  /\ Update(r, [req[r] EXCEPT !.step = "rollback"])
  /\ UNCHANGED <<history, queue, interrupted>>

Left(u, step) ==
  [u EXCEPT !.step = step, !.reader = "none", !.outcome = "gone"]

Without(s, i) == SubSeq(s, 1, i - 1) \o SubSeq(s, i + 1, Len(s))

\* Cancelled while it waits for the lock.
CancelWaiting(r) ==
  /\ req[r].step = "waiting"
  /\ Fault
  /\ \E i \in DOMAIN queue : queue[i] = r /\ queue' = Without(queue, i)
  /\ Update(r, Left(req[r], "raised"))
  /\ UNCHANGED <<history, interrupted>>

\* Cancelled while it awaits the agent.
CancelRunning(r) ==
  /\ \E step \in {"entered", "model", "tools"} : Awaiting(r, step)
  /\ Fault
  /\ Update(r, Left(req[r], "rollback"))
  /\ UNCHANGED <<history, queue, interrupted>>

\* The client disconnects while an event is being sent: the response is
\* cancelled, and the generator, if it has not ended, stays suspended.
Disconnect(r) ==
  /\ req[r].reader = "response"
  /\ req[r].todo # <<>> \/ req[r].step = "returned"
  /\ Fault
  /\ Update(r, Left(req[r], req[r].step))
  /\ UNCHANGED <<history, queue, interrupted>>

\* asyncio closes it: GeneratorExit is raised where it is suspended.
Finalize(r) ==
  /\ req[r].reader = "none"
  /\ req[r].todo # <<>>
  /\ Only(r, [req[r] EXCEPT !.step = "rollback", !.todo = <<>>])

Raised(u) ==
  [u EXCEPT !.step = "raised", !.reader = "none",
            !.outcome = IF u.reader = "none" THEN @ ELSE "error"]

\* Mutant: the lock is not released when the turn fails.
RollbackLocked(r) ==
  /\ req[r].step = "rollback"
  /\ history' = req[r].baseline
  /\ Update(r, Raised(req[r]))
  /\ UNCHANGED <<queue, faults, interrupted>>

\* The messages are replaced, the lock is released and the exception goes on:
\* to the route, which answers 502, or to the response, which sends an error.
Rollback(r) ==
  /\ req[r].step = "rollback"
  /\ history' = req[r].baseline
  /\ queue' = Tail(queue)
  /\ Update(r, Raised(req[r]))
  /\ UNCHANGED <<faults, interrupted>>

\* Cancelled while it rolls back: the cancellation is suppressed, and so is
\* the roll-back.
CancelRollback(r) ==
  /\ req[r].step = "rollback"
  /\ Fault
  /\ queue' = Tail(queue)
  /\ Update(r, Raised(req[r]))
  /\ interrupted' = TRUE
  /\ UNCHANGED history
-----------------------------------------------------------------------------
Agent(r) == ModelChunk(r) \/ ModelCalls(r) \/ ToolsReturn(r) \/ ModelAnswers(r)

Generator(r) == Enter(r) \/ Begin(r) \/ Finish(r) \/ Finalize(r) \/ Rollback(r)

Reader(r) ==
  Buffer(r) \/ Respond(r) \/ RespondEmpty(r) \/ Replay(r) \/ Deliver(r) \/ Done(r)

Failure(r) ==
  \/ Fail(r)
  \/ CancelWaiting(r) \/ CancelRunning(r) \/ CancelRollback(r)
  \/ Disconnect(r)

Next ==
  \E r \in Requests :
    \/ \E legacy \in BOOLEAN : Send(r, legacy)
    \/ Agent(r)
    \/ Generator(r)
    \/ Reader(r)
    \/ Failure(r)

Spec == Init /\ [][Next]_vars

Fairness == \A r \in Requests : WF_vars(Agent(r) \/ Generator(r) \/ Reader(r))

FairSpec == Spec /\ Fairness
-----------------------------------------------------------------------------
\* The checkpoint, the lock and the requests have their types; no more events
\* are replayed than were read ahead.
TypeOK ==
  /\ history \in Seq(Messages)
  /\ queue \in Seq(Requests)
  /\ req \in [Requests -> RequestStates]
  /\ faults \in 0 .. MaxFaults
  /\ interrupted \in BOOLEAN

\* The agent works, or may still roll back.
InTurn(r) == req[r].step \in {"entered", "model", "tools", "closing", "rollback"}

\* A turn that failed or was cancelled, at any step and by whomever, leaves no
\* message behind for later turns: the checkpoint holds turns that ended, and
\* the one that holds the lock.
TurnsAreWhole ==
  interrupted \/
  \A i \in 1 .. Len(history) :
    LET r == history[i].turn IN InTurn(r) \/ req[r].step = "returned"

\* The same if roll-backs are cancelled as well, as the comment in the handler
\* says.  (Does not hold.)
TurnsAreAlwaysWhole ==
  \A i \in 1 .. Len(history) :
    LET r == history[i].turn IN InTurn(r) \/ req[r].step = "returned"

\* Turns of concurrent requests are not mixed: the model always sees them one
\* after another.
TurnsAreSerial ==
  \A i, j, k \in 1 .. Len(history) :
    i < j /\ j < k /\ history[i].turn = history[k].turn
      => history[j].turn = history[i].turn

\* What a user was told is done stays in the conversation, question and answer,
\* although later turns roll the checkpoint back.
DoneIsKept ==
  \A r \in Requests : req[r].outcome = "done" =>
    /\ \E i \in 1 .. Len(history) : history[i] = [turn |-> r, role |-> "human"]
    /\ \E i \in 1 .. Len(history) : history[i] = [turn |-> r, role |-> "ai"]

\* A stream that ends with done has carried each event once, those the route
\* read ahead included.
DoneIsComplete ==
  \A r \in Requests : req[r].outcome = "done" => req[r].sent = req[r].made

\* Each request ends and does not keep the lock, also when its client has gone
\* and nobody reads the generator any more.
RequestsEnd ==
  \A r \in Requests :
    req[r].step = "waiting" ~>
      /\ req[r].step \in {"returned", "raised"}
      /\ req[r].reader = "none"
=============================================================================
