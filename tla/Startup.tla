-------------------------------- MODULE Startup --------------------------------
(***************************************************************************)
(* Start and stop of the API process: the lifespan of core/lifespan.py and *)
(* the checks of KnowledgeStartup (knowledge/infrastructure/startup.py).   *)
(* A check opens its connection when it runs and keeps it until it is      *)
(* closed.  Whatever awaits another service may raise, or be cancelled;    *)
(* what happens between two awaits is one action.                          *)
(***************************************************************************)
EXTENDS Naturals, Sequences

CONSTANT NChecks \* startup checks: database, Redis and Milvus in the code

ASSUME NChecksAssumption == NChecks \in Nat

Checks == 1..NChecks
Resources == {"database", "milvus"}

VARIABLES
  knowledge,   \* settings.knowledge_enabled
  step,        \* where lifespan is
  initialized, \* KnowledgeStartup._initialized
  checks,      \* checks with an open connection
  open,        \* which of knowledge_database and knowledge_milvus are open
  stray,       \* history: those that no variable of lifespan holds
  published,   \* app.state holds the resources
  broken,      \* history: checks that failed or were cancelled
  raised       \* history: closing something raised

vars == <<knowledge, step, initialized, checks, open, stray, published, broken, raised>>

Steps == {"off", "storage", "checks", "undo", "database", "milvus", "agent", "publish", "serving",
          "unpublish", "close_database", "close_milvus", "close_checks", "ended"}

TypeOK ==
  /\ knowledge \in BOOLEAN
  /\ step \in Steps
  /\ initialized \in Seq(Checks)
  /\ checks \subseteq Checks
  /\ open \subseteq Resources
  /\ stray \subseteq Resources
  /\ published \in BOOLEAN
  /\ broken \subseteq Checks
  /\ raised \in BOOLEAN

Init ==
  /\ knowledge \in BOOLEAN
  /\ step = "off"
  /\ initialized = <<>> /\ checks = {} /\ open = {} /\ stray = {}
  /\ published = FALSE
  /\ broken = {} /\ raised = FALSE

\* settings_factory, and knowledge_startup_factory, which connects to nothing.
Begin ==
  /\ step = "off"
  /\ step' = IF knowledge THEN "storage" ELSE "agent"
  /\ UNCHANGED <<knowledge, initialized, checks, open, stray, published, broken, raised>>

\* Mutant: outside the try block.
Escapes(s) ==
  /\ step = s
  /\ step' = "ended"
  /\ UNCHANGED <<knowledge, initialized, checks, open, stray, published, raised>>

\* An exception before yield goes straight to the finally block.
Fails(s) ==
  /\ step = s
  /\ step' = "unpublish"
  /\ UNCHANGED <<knowledge, initialized, checks, open, stray, published, raised>>

EnsureStorage ==
  \/ /\ step = "storage" /\ step' = "checks"
     /\ UNCHANGED <<knowledge, initialized, checks, open, stray, published, broken, raised>>
  \/ Fails("storage") /\ UNCHANGED broken
-------------------------------------------------------------------------------
(* KnowledgeStartup.start                                                  *)

\* The check that is to run.
Current == Len(initialized) + 1

CheckPasses ==
  /\ step = "checks" /\ Current \in Checks
  /\ checks' = checks \cup {Current}
  /\ initialized' = Append(initialized, Current)
  /\ UNCHANGED <<knowledge, step, open, stray, published, broken, raised>>

\* The current check is not closed, only those before it.
CheckFails ==
  /\ step = "checks" /\ Current \in Checks
  /\ checks' = checks \cup {Current}
  /\ broken' = broken \cup {Current}
  /\ step' = "undo"
  /\ UNCHANGED <<knowledge, initialized, open, stray, published, raised>>

\* CancelledError is no Exception: the handler of the loop does not run.
CheckCancelled ==
  /\ step = "checks" /\ Current \in Checks
  /\ checks' = checks \cup {Current}
  /\ broken' = broken \cup {Current}
  /\ step' = "unpublish"
  /\ UNCHANGED <<knowledge, initialized, open, stray, published, raised>>

AllPassed ==
  /\ step = "checks" /\ Current \notin Checks
  /\ step' = "database"
  /\ UNCHANGED <<knowledge, initialized, checks, open, stray, published, broken, raised>>

\* await self._initialized.pop().close()
Pop == /\ initialized' = SubSeq(initialized, 1, Len(initialized) - 1)
       /\ checks' = checks \ {initialized[Len(initialized)]}

CloseChecks(s, next) ==
  /\ step = s
  /\ IF initialized = <<>>
     THEN step' = next /\ UNCHANGED <<initialized, checks>>
     ELSE Pop /\ UNCHANGED step
  /\ UNCHANGED <<knowledge, open, stray, published, broken, raised>>

\* The check has left the list; its connection stays open.
CloseCheckRaises(s, next) ==
  /\ step = s /\ initialized # <<>>
  /\ initialized' = SubSeq(initialized, 1, Len(initialized) - 1)
  /\ step' = next
  /\ raised' = TRUE
  /\ UNCHANGED <<knowledge, checks, open, stray, published, broken>>

Undo == CloseChecks("undo", "unpublish") \/ CloseCheckRaises("undo", "unpublish")
-------------------------------------------------------------------------------
(* The rest of the lifespan.                                               *)

Open(s, resource, next) ==
  /\ step = s
  /\ open' = open \cup {resource}
  /\ step' = next
  /\ UNCHANGED <<knowledge, initialized, checks, stray, published, broken, raised>>

OpenDatabase == Open("database", "database", "milvus")

\* await asyncio.to_thread(MilvusClient, ...) is cancelled: the thread goes on
\* and opens a client, but nothing is assigned to knowledge_milvus.
OpenMilvusCancelled ==
  /\ step = "milvus"
  /\ open' = open \cup {"milvus"}
  /\ stray' = stray \cup {"milvus"}
  /\ step' = "unpublish"
  /\ UNCHANGED <<knowledge, initialized, checks, published, broken, raised>>

OpenMilvus ==
  \/ Open("milvus", "milvus", "agent")
  \/ Fails("milvus") /\ UNCHANGED broken
  \/ OpenMilvusCancelled

\* Adapters and agent: constructors that may raise.
MakeAgent ==
  \/ /\ step = "agent" /\ step' = "publish"
     /\ UNCHANGED <<knowledge, initialized, checks, open, stray, published, broken, raised>>
  \/ Fails("agent") /\ UNCHANGED broken

Publish ==
  /\ step = "publish"
  /\ published' = TRUE
  /\ step' = "serving"
  /\ UNCHANGED <<knowledge, initialized, checks, open, stray, broken, raised>>

Stop ==
  /\ step = "serving"
  /\ step' = "unpublish"
  /\ UNCHANGED <<knowledge, initialized, checks, open, stray, published, broken, raised>>

Unpublish ==
  /\ step = "unpublish"
  /\ published' = FALSE
  /\ step' = "close_database"
  /\ UNCHANGED <<knowledge, initialized, checks, open, stray, broken, raised>>

Held == open \ stray

Close(s, resource, next) ==
  /\ step = s
  /\ open' = open \ (Held \cap {resource})
  /\ step' = next
  /\ UNCHANGED <<knowledge, initialized, checks, stray, published, broken, raised>>

\* What is closed after it is not closed at all.
CloseRaises(s, resource) ==
  /\ step = s /\ resource \in Held
  /\ step' = "ended"
  /\ raised' = TRUE
  /\ UNCHANGED <<knowledge, initialized, checks, open, stray, published, broken>>

CloseDatabase ==
  Close("close_database", "database", "close_milvus") \/ CloseRaises("close_database", "database")

CloseMilvus ==
  Close("close_milvus", "milvus", "close_checks") \/ CloseRaises("close_milvus", "milvus")

CloseStartup == CloseChecks("close_checks", "ended") \/ CloseCheckRaises("close_checks", "ended")

Next ==
  \/ Begin \/ EnsureStorage
  \/ CheckPasses \/ CheckFails \/ CheckCancelled \/ AllPassed \/ Undo
  \/ OpenDatabase \/ OpenMilvus \/ MakeAgent \/ Publish \/ Stop
  \/ Unpublish \/ CloseDatabase \/ CloseMilvus \/ CloseStartup

Spec == Init /\ [][Next]_vars
-------------------------------------------------------------------------------
\* What app.state offers is open: all checks have passed and both connections
\* stand, from the first request to the last (lifespan.py:40, 112).
ServedResourcesAreOpen ==
  published /\ knowledge => checks = Checks /\ open = Resources

\* However far the start came, and whatever failed or was cancelled, the end
\* leaves nothing open that the code still knows of: neither a resource nor a
\* check, except the check that failed, unless closing raises.
EndReleasesAll ==
  step = "ended" /\ ~raised => open \subseteq stray /\ checks \subseteq broken

\* Knowledge resources are checked, published and released, says lifespan.py:37.
\* (Does not hold.)
EndReleasesEveryResource == step = "ended" /\ ~raised => open = {}
=============================================================================
