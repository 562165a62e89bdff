--------------------------- MODULE EventDelivery ---------------------------
(***************************************************************************)
(* What the transactional outbox promises to the rest of the knowledge     *)
(* service, without saying how.  A business transaction commits an event   *)
(* with its own rows; from then on the event may reach the broker any      *)
(* number of times, and it may be written off as published only after it   *)
(* has reached the broker at least once.  OutboxDispatcher (outbox.py)     *)
(* calls this "at-least-once delivery from the durable outbox"; Outbox is  *)
(* the detailed protocol and is shown to implement this module.            *)
(***************************************************************************)
CONSTANT Events

VARIABLES committed,  \* rows of outbox_events
          handed,     \* events the broker has accepted at least once
          broker,     \* events waiting in the Celery queue
          published   \* rows the dispatchers no longer look at

vars == <<committed, handed, broker, published>>

TypeOK ==
  /\ committed \subseteq Events
  /\ handed \subseteq committed
  /\ broker \subseteq handed
  /\ published \subseteq handed

Init ==
  /\ committed = {}
  /\ handed = {}
  /\ broker = {}
  /\ published = {}

\* A business transaction writes the event next to its own rows.
Commit(e) ==
  /\ e \notin committed
  /\ committed' = committed \cup {e}
  /\ UNCHANGED <<handed, broker, published>>

\* The broker accepts the message, for the first time or again.
HandOver(e) ==
  /\ e \in committed
  /\ handed' = handed \cup {e}
  /\ broker' = broker \cup {e}
  /\ UNCHANGED <<committed, published>>

\* The row is written off: only ever after a hand-over.
WriteOff(e) ==
  /\ e \in handed
  /\ published' = published \cup {e}
  /\ UNCHANGED <<committed, handed, broker>>

\* A row that was written off comes back (a dispatcher that lost its lease
\* reports a failure): a source of duplicates, never of losses.
Revive(e) ==
  /\ e \in published
  /\ published' = published \ {e}
  /\ UNCHANGED <<committed, handed, broker>>

\* A worker takes the message.
Consume(e) ==
  /\ e \in broker
  /\ broker' = broker \ {e}
  /\ UNCHANGED <<committed, handed, published>>

Next ==
  \E e \in Events :
    \/ Commit(e)
    \/ HandOver(e)
    \/ WriteOff(e)
    \/ Revive(e)
    \/ Consume(e)

Spec == Init /\ [][Next]_vars

\* Nothing that was committed is lost: it reaches the broker.
Delivered == \A e \in Events : e \in committed ~> e \in handed
=============================================================================
