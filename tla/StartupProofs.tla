---------------------------- MODULE StartupProofs ----------------------------
(* Startup keeps its promises for every number of checks.                    *)
EXTENDS Startup, TLAPS, SequenceTheorems

Ready == {"database", "milvus", "agent", "publish", "serving"}

\* The checks that have passed are the first ones, and have not been closed.
InOrder == \A i \in 1 .. Len(initialized) : initialized[i] = i
Passed == 1 .. Len(initialized) \subseteq checks

\* All of them have, once the resources are made.
AllReady == knowledge /\ (step \in Ready \/ published) => Len(initialized) = NChecks
AllOpen == knowledge /\ (step \in {"agent", "publish", "serving"} \/ published) => open = Resources
HalfOpen == step = "milvus" => "database" \in open
Visible == published => step \in {"serving", "unpublish"}

\* What has to be closed still, while nothing has raised.
Accounted == ~raised => checks \subseteq broken \cup 1 .. Len(initialized)
DatabaseClosed == step = "close_milvus" /\ ~raised => "database" \notin Held
BothClosed == step \in {"close_checks", "ended"} /\ ~raised => open \subseteq stray
ChecksClosed == step = "ended" /\ ~raised => initialized = <<>>

IInv ==
  /\ TypeOK
  /\ InOrder /\ Passed
  /\ AllReady /\ AllOpen /\ HalfOpen /\ Visible
  /\ Accounted /\ DatabaseClosed /\ BothClosed /\ ChecksClosed

-------------------------------------------------------------------------------
LEMMA Initially == Init => IInv
<1> SUFFICES ASSUME Init PROVE IInv
  OBVIOUS
<1>1. initialized \in Seq(Checks) /\ Len(initialized) = 0 BY EmptySeq DEF Init
<1>2. TypeOK BY <1>1 DEF Init, TypeOK, Steps
<1>3. 1 .. Len(initialized) = {} BY <1>1
<1>4. InOrder /\ Passed /\ Accounted BY <1>3 DEF Init, InOrder, Passed, Accounted
<1> QED BY <1>2, <1>4 DEF Init, IInv, AllReady, AllOpen, HalfOpen, Visible, DatabaseClosed,
                           BothClosed, ChecksClosed, Ready

\* The list without its last check.
LEMMA Shorter ==
  ASSUME TypeOK, initialized # <<>>, NEW list, list = SubSeq(initialized, 1, Len(initialized) - 1)
  PROVE  /\ list \in Seq(Checks) /\ Len(list) = Len(initialized) - 1
         /\ Len(initialized) \in Nat \ {0}
         /\ \A i \in 1 .. Len(list) : list[i] = initialized[i]
<1>1. initialized \in Seq(Checks) BY DEF TypeOK
<1>2. Len(initialized) \in Nat \ {0} BY <1>1, EmptySeq
<1>3. \A i \in 1 .. Len(initialized) - 1 : initialized[i] \in Checks BY <1>1, <1>2
<1>4. /\ list \in Seq(Checks)
      /\ Len(list) = IF 1 <= Len(initialized) - 1 THEN Len(initialized) - 1 - 1 + 1 ELSE 0
      /\ \A i \in 1 .. Len(initialized) - 1 - 1 + 1 : list[i] = initialized[1 + i - 1]
  BY <1>2, <1>3, SubSeqProperties
<1>5. Len(list) = Len(initialized) - 1
  <2>1. Len(list) = IF 1 <= Len(initialized) - 1 THEN Len(initialized) - 1 - 1 + 1 ELSE 0 BY <1>4
  <2>2. PICK n \in Nat \ {0} : n = Len(initialized) BY <1>2
  <2>3. Len(list) = IF 1 <= n - 1 THEN n - 1 - 1 + 1 ELSE 0 BY <2>1, <2>2
  <2>4. CASE n = 1 BY <2>2, <2>3, <2>4
  <2>5. CASE n # 1 BY <2>2, <2>3, <2>5
  <2> QED BY <2>4, <2>5
<1>6. ASSUME NEW i \in 1 .. Len(list) PROVE list[i] = initialized[i]
  <2>1. i \in 1 .. Len(initialized) - 1 - 1 + 1 /\ 1 + i - 1 = i BY <1>2, <1>5
  <2> QED BY <1>4, <2>1
<1> QED BY <1>2, <1>4, <1>5, <1>6

\* The list with the check that has just passed.
LEMMA Longer ==
  ASSUME TypeOK, Current \in Checks, NEW list, list = Append(initialized, Current)
  PROVE  /\ list \in Seq(Checks) /\ Len(list) = Len(initialized) + 1
         /\ Len(initialized) \in Nat
         /\ \A i \in 1 .. Len(initialized) : list[i] = initialized[i]
         /\ list[Len(initialized) + 1] = Current
<1>1. initialized \in Seq(Checks) BY DEF TypeOK
<1> QED BY <1>1, AppendProperties, LenProperties

LEMMA Length == TypeOK => Len(initialized) \in Nat
  BY LenProperties DEF TypeOK

\* No check runs and none is closed.
LEMMA KeepsChecks ==
  ASSUME IInv, UNCHANGED <<initialized, checks>>, broken \subseteq broken', raised' = raised
  PROVE  InOrder' /\ Passed' /\ Accounted'
  BY DEF IInv, InOrder, Passed, Accounted

LEMMA Typed == IInv /\ [Next]_vars => TypeOK'
<1> SUFFICES ASSUME IInv, [Next]_vars PROVE TypeOK'
  OBVIOUS
<1>t. TypeOK BY DEF IInv
<1> USE <1>t DEF TypeOK, Steps
<1>1. CASE Begin BY <1>1 DEF Begin
<1>2. CASE EnsureStorage BY <1>2 DEF EnsureStorage, Fails
<1>3. CASE CheckPasses
  <2>1. initialized' \in Seq(Checks) BY <1>3, Longer DEF CheckPasses
  <2> QED BY <1>3, <2>1 DEF CheckPasses
<1>4. CASE CheckFails BY <1>4 DEF CheckFails
<1>5. CASE CheckCancelled BY <1>5 DEF CheckCancelled
<1>6. CASE AllPassed BY <1>6 DEF AllPassed
<1>7. CASE Undo
  <2>1. CASE CloseChecks("undo", "unpublish")
    <3>1. initialized' \in Seq(Checks) BY <2>1, Shorter DEF CloseChecks, Pop
    <3> QED BY <2>1, <3>1 DEF CloseChecks, Pop
  <2>2. CASE CloseCheckRaises("undo", "unpublish")
    <3>1. initialized' \in Seq(Checks) BY <2>2, Shorter DEF CloseCheckRaises
    <3> QED BY <2>2, <3>1 DEF CloseCheckRaises
  <2> QED BY <1>7, <2>1, <2>2 DEF Undo
<1>8. CASE OpenDatabase BY <1>8 DEF OpenDatabase, Open, Resources
<1>9. CASE OpenMilvus BY <1>9 DEF OpenMilvus, Open, OpenMilvusCancelled, Fails, Resources
<1>10. CASE MakeAgent BY <1>10 DEF MakeAgent, Fails
<1>11. CASE Publish BY <1>11 DEF Publish
<1>12. CASE Stop BY <1>12 DEF Stop
<1>13. CASE Unpublish BY <1>13 DEF Unpublish
<1>14. CASE CloseDatabase BY <1>14 DEF CloseDatabase, Close, CloseRaises
<1>15. CASE CloseMilvus BY <1>15 DEF CloseMilvus, Close, CloseRaises
<1>16. CASE CloseStartup
  <2>1. CASE CloseChecks("close_checks", "ended")
    <3>1. initialized' \in Seq(Checks) BY <2>1, Shorter DEF CloseChecks, Pop
    <3> QED BY <2>1, <3>1 DEF CloseChecks, Pop
  <2>2. CASE CloseCheckRaises("close_checks", "ended")
    <3>1. initialized' \in Seq(Checks) BY <2>2, Shorter DEF CloseCheckRaises
    <3> QED BY <2>2, <3>1 DEF CloseCheckRaises
  <2> QED BY <1>16, <2>1, <2>2 DEF CloseStartup
<1>17. CASE UNCHANGED vars BY <1>17 DEF vars
<1> QED BY <1>1, <1>2, <1>3, <1>4, <1>5, <1>6, <1>7, <1>8, <1>9, <1>10, <1>11, <1>12, <1>13,
           <1>14, <1>15, <1>16, <1>17 DEF Next

\* The list of checks and what it says about open connections.
LEMMA ListKept == IInv /\ [Next]_vars => InOrder' /\ Passed' /\ Accounted'
<1> SUFFICES ASSUME IInv, [Next]_vars PROVE InOrder' /\ Passed' /\ Accounted'
  OBVIOUS
<1>t. TypeOK /\ Len(initialized) \in Nat BY Length DEF IInv
<1>1. CASE CheckPasses
  <2>1. /\ Len(initialized') = Len(initialized) + 1
        /\ \A i \in 1 .. Len(initialized) : initialized'[i] = initialized[i]
        /\ initialized'[Len(initialized) + 1] = Len(initialized) + 1
    BY <1>1, <1>t, Longer DEF CheckPasses, Current
  <2>2. checks' = checks \cup {Len(initialized) + 1} /\ UNCHANGED <<broken, raised>>
    BY <1>1 DEF CheckPasses, Current
  <2>3. InOrder' BY <1>t, <2>1 DEF IInv, InOrder
  <2>4. 1 .. Len(initialized') = 1 .. Len(initialized) \cup {Len(initialized) + 1} BY <1>t, <2>1
  <2>5. Passed' BY <2>2, <2>4 DEF IInv, Passed
  <2>6. Accounted' BY <2>2, <2>4 DEF IInv, Accounted
  <2> QED BY <2>3, <2>5, <2>6
<1>2. CASE CheckFails \/ CheckCancelled
  BY <1>2 DEF CheckFails, CheckCancelled, IInv, InOrder, Passed, Accounted
<1>3. ASSUME NEW s, NEW next, CloseChecks(s, next) PROVE InOrder' /\ Passed' /\ Accounted'
  <2>1. CASE initialized = <<>>
    BY <1>3, <2>1, KeepsChecks DEF CloseChecks
  <2>2. CASE initialized # <<>>
    <3>1. /\ Len(initialized') = Len(initialized) - 1 /\ Len(initialized) \in Nat \ {0}
          /\ \A i \in 1 .. Len(initialized') : initialized'[i] = initialized[i]
      BY <1>3, <1>t, <2>2, Shorter DEF CloseChecks, Pop
    <3>2. checks' = checks \ {Len(initialized)} /\ UNCHANGED <<broken, raised>>
      BY <1>3, <2>2, <3>1 DEF CloseChecks, Pop, IInv, InOrder
    <3>3. InOrder' BY <3>1 DEF IInv, InOrder
    <3>4. 1 .. Len(initialized') = 1 .. Len(initialized) \ {Len(initialized)} BY <3>1
    <3>5. Passed' BY <3>2, <3>4 DEF IInv, Passed
    <3>6. Accounted' BY <3>2, <3>4 DEF IInv, Accounted
    <3> QED BY <3>3, <3>5, <3>6
  <2> QED BY <2>1, <2>2
<1>4. ASSUME NEW s, NEW next, CloseCheckRaises(s, next) PROVE InOrder' /\ Passed' /\ Accounted'
  <2>1. /\ Len(initialized') = Len(initialized) - 1 /\ Len(initialized) \in Nat \ {0}
        /\ \A i \in 1 .. Len(initialized') : initialized'[i] = initialized[i]
    BY <1>4, <1>t, Shorter DEF CloseCheckRaises
  <2>2. checks' = checks /\ raised' BY <1>4 DEF CloseCheckRaises
  <2>3. 1 .. Len(initialized') \subseteq 1 .. Len(initialized) BY <2>1
  <2>4. InOrder' BY <2>1 DEF IInv, InOrder
  <2> QED BY <2>2, <2>3, <2>4 DEF IInv, Passed, Accounted
<1>5. CASE CloseRaises("close_database", "database") \/ CloseRaises("close_milvus", "milvus")
  BY <1>5 DEF CloseRaises, IInv, InOrder, Passed, Accounted
<1>6. CASE \/ Begin \/ EnsureStorage \/ AllPassed \/ OpenDatabase \/ OpenMilvus \/ MakeAgent
           \/ Publish \/ Stop \/ Unpublish \/ UNCHANGED vars
           \/ Close("close_database", "database", "close_milvus")
           \/ Close("close_milvus", "milvus", "close_checks")
  <2>1. UNCHANGED <<initialized, checks, broken, raised>>
    BY <1>6 DEF Begin, EnsureStorage, AllPassed, OpenDatabase, OpenMilvus, MakeAgent, Publish, Stop,
                Unpublish, vars, Open, OpenMilvusCancelled, Close, Fails
  <2> QED BY <2>1, KeepsChecks
<1> QED BY <1>1, <1>2, <1>3, <1>4, <1>5, <1>6
        DEF Next, Undo, CloseDatabase, CloseMilvus, CloseStartup

\* Before anything is closed.
LEMMA Rising == IInv /\ [Next]_vars => AllReady' /\ AllOpen' /\ HalfOpen' /\ Visible'
<1> SUFFICES ASSUME IInv, [Next]_vars PROVE AllReady' /\ AllOpen' /\ HalfOpen' /\ Visible'
  OBVIOUS
<1>t. TypeOK /\ Len(initialized) \in Nat BY Length DEF IInv
<1> USE DEF IInv, AllReady, AllOpen, HalfOpen, Visible, Ready
<1>1. CASE Begin BY <1>1 DEF Begin
<1>2. CASE EnsureStorage BY <1>2 DEF EnsureStorage, Fails
<1>3. CASE CheckPasses BY <1>3 DEF CheckPasses
<1>4. CASE CheckFails BY <1>4 DEF CheckFails
<1>5. CASE CheckCancelled BY <1>5 DEF CheckCancelled
<1>6. CASE AllPassed
  <2>1. Len(initialized) <= NChecks
    <3>1. 1 .. Len(initialized) \subseteq Checks BY <1>t DEF TypeOK, Passed
    <3> QED BY <1>t, <3>1, NChecksAssumption DEF Checks
  <2>2. Len(initialized) = NChecks
    BY <1>6, <1>t, <2>1, NChecksAssumption DEF AllPassed, Current, Checks
  <2> QED BY <1>6, <2>2 DEF AllPassed
<1>7. CASE Undo BY <1>7 DEF Undo, CloseChecks, CloseCheckRaises
<1>8. CASE OpenDatabase BY <1>8 DEF OpenDatabase, Open
<1>9. CASE OpenMilvus
  <2>1. CASE Open("milvus", "milvus", "agent")
    <3>1. open' = Resources BY <2>1, <1>t DEF Open, Resources, TypeOK
    <3> QED BY <2>1, <3>1 DEF Open
  <2>2. CASE Fails("milvus") BY <2>2 DEF Fails
  <2>3. CASE OpenMilvusCancelled BY <2>3 DEF OpenMilvusCancelled
  <2> QED BY <1>9, <2>1, <2>2, <2>3 DEF OpenMilvus
<1>10. CASE MakeAgent BY <1>10 DEF MakeAgent, Fails
<1>11. CASE Publish BY <1>11 DEF Publish
<1>12. CASE Stop BY <1>12 DEF Stop
<1>13. CASE Unpublish BY <1>13 DEF Unpublish
<1>14. CASE CloseDatabase BY <1>14 DEF CloseDatabase, Close, CloseRaises
<1>15. CASE CloseMilvus BY <1>15 DEF CloseMilvus, Close, CloseRaises
<1>16. CASE CloseStartup BY <1>16 DEF CloseStartup, CloseChecks, CloseCheckRaises
<1>17. CASE UNCHANGED vars BY <1>17 DEF vars
<1> QED BY <1>1, <1>2, <1>3, <1>4, <1>5, <1>6, <1>7, <1>8, <1>9, <1>10, <1>11, <1>12, <1>13,
           <1>14, <1>15, <1>16, <1>17 DEF Next

\* The way out.
LEMMA Falling == IInv /\ [Next]_vars => DatabaseClosed' /\ BothClosed' /\ ChecksClosed'
<1> SUFFICES ASSUME IInv, [Next]_vars PROVE DatabaseClosed' /\ BothClosed' /\ ChecksClosed'
  OBVIOUS
<1> USE DEF IInv, DatabaseClosed, BothClosed, ChecksClosed, Held
<1>1. CASE CloseDatabase BY <1>1 DEF CloseDatabase, Close, CloseRaises
<1>2. CASE CloseMilvus BY <1>2 DEF CloseMilvus, Close, CloseRaises, TypeOK, Resources
<1>3. CASE CloseStartup BY <1>3 DEF CloseStartup, CloseChecks, CloseCheckRaises
<1>4. CASE UNCHANGED vars BY <1>4 DEF vars
<1>5. CASE \/ Begin \/ EnsureStorage \/ AllPassed \/ OpenDatabase \/ OpenMilvus \/ MakeAgent
           \/ Publish \/ Stop \/ Unpublish \/ CheckPasses \/ CheckFails \/ CheckCancelled \/ Undo
  <2>1. step' \notin {"close_milvus", "close_checks", "ended"}
    BY <1>5 DEF Begin, EnsureStorage, AllPassed, OpenDatabase, OpenMilvus, MakeAgent, Publish, Stop,
                Unpublish, Open, OpenMilvusCancelled, Fails, CheckPasses, CheckFails, CheckCancelled,
                Undo, CloseChecks, CloseCheckRaises
  <2> QED BY <2>1
<1> QED BY <1>1, <1>2, <1>3, <1>4, <1>5 DEF Next

LEMMA Inductive == IInv /\ [Next]_vars => IInv'
  BY Typed, ListKept, Rising, Falling DEF IInv

LEMMA AlwaysIInv == Spec => []IInv
  BY Initially, Inductive, PTL DEF Spec

\* Every variable keeps its type.
THEOREM Typing == Spec => []TypeOK
<1>1. IInv => TypeOK BY DEF IInv
<1> QED BY <1>1, AlwaysIInv, PTL

\* Requests find open connections, however many checks there are.
THEOREM ServedOpen == Spec => []ServedResourcesAreOpen
<1>1. IInv => ServedResourcesAreOpen
  <2> SUFFICES ASSUME IInv, published, knowledge PROVE checks = Checks /\ open = Resources
    BY DEF ServedResourcesAreOpen
  <2>1. Len(initialized) = NChecks /\ open = Resources BY DEF IInv, AllReady, AllOpen
  <2>2. 1 .. Len(initialized) \subseteq checks /\ checks \subseteq Checks
    BY DEF IInv, Passed, TypeOK
  <2> QED BY <2>1, <2>2 DEF Checks
<1> QED BY <1>1, AlwaysIInv, PTL

\* A clean end leaves nothing open that lifespan holds, however far the start
\* came and whatever was cancelled.
THEOREM EndReleases == Spec => []EndReleasesAll
<1>1. IInv => EndReleasesAll
  <2> SUFFICES ASSUME IInv, step = "ended", ~raised
                PROVE  open \subseteq stray /\ checks \subseteq broken
    BY DEF EndReleasesAll
  <2>1. /\ open \subseteq stray /\ initialized = <<>>
        /\ checks \subseteq broken \cup 1 .. Len(initialized)
    BY DEF IInv, BothClosed, ChecksClosed, Accounted
  <2>2. 1 .. Len(initialized) = {} BY <2>1
  <2> QED BY <2>1, <2>2
<1> QED BY <1>1, AlwaysIInv, PTL
=============================================================================
