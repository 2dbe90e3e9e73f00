------------------------ MODULE FeedConnectionProofs ------------------------
(***************************************************************************)
(* Reconnection for every number of tickers, attempts and faults.          *)
(*                                                                         *)
(* SomeoneReconnects is inductive together with the types.  TasksBounded   *)
(* needs that a service that is being stopped does not run: the close of   *)
(* stop() would otherwise count as one that schedules a task.              *)
(* GivesUpOnlyAfterFailures rests on AttemptsPaid: every attempt since the *)
(* last success but the one under way has ended in a fault, and the first  *)
(* was scheduled by one.                                                   *)
(***************************************************************************)
EXTENDS FeedConnection, FiniteSetTheorems, TLAPS

StoppingDoesNotRun == stop_pc # "none" => ~running

Closing(f) == {t \in Ticker : f[t] = "closing"}

(***************************************************************************)
(* The connections that are being closed are finitely many.                *)
(***************************************************************************)
LEMMA ClosingFinite ==
    ASSUME NEW f \in [Ticker -> LinkState]
    PROVE  IsFiniteSet(Closing(f)) /\ Cardinality(Closing(f)) \in Nat
<1>1. Closing(f) \subseteq Ticker
  BY DEF Closing
<1> QED BY <1>1, FeedAssumption, FS_Subset, FS_CardinalityType

(***************************************************************************)
(* A step of one connection that does not begin a close adds none: to     *)
(* dial, open, lose or exhaust a connection.                               *)
(***************************************************************************)
LEMMA NoNewClose ==
    ASSUME NEW f \in [Ticker -> LinkState], NEW t \in Ticker, NEW st \in LinkState, st # "closing"
    PROVE  Cardinality(Closing([f EXCEPT ![t] = st])) <= Cardinality(Closing(f))
<1> DEFINE g == [f EXCEPT ![t] = st]
<1>1. Closing(g) \subseteq Closing(f)
  BY DEF Closing
<1> QED BY <1>1, ClosingFinite, FS_Subset

(***************************************************************************)
(* A close that is reported is no longer pending.                          *)
(***************************************************************************)
LEMMA CloseReported ==
    ASSUME NEW f \in [Ticker -> LinkState], NEW t \in Ticker, f[t] = "closing"
    PROVE  Cardinality(Closing([f EXCEPT ![t] = "closed"])) = Cardinality(Closing(f)) - 1
<1> DEFINE g == [f EXCEPT ![t] = "closed"]
<1>1. Closing(g) = Closing(f) \ {t} /\ t \in Closing(f)
  BY DEF Closing
<1> QED BY <1>1, ClosingFinite, FS_RemoveElement

(***************************************************************************)
(* Closing the current ticker adds at most one pending close.              *)
(***************************************************************************)
LEMMA OneMoreClose ==
    ASSUME link \in [Ticker -> LinkState], NEW t \in Ticker
    PROVE  /\ Close(t) \in [Ticker -> LinkState]
           /\ Cardinality(Closing(Close(t))) <= Cardinality(Closing(link)) + 1
<1>1. CASE link[t] = "open"
  <2> DEFINE g == [link EXCEPT ![t] = "closing"]
  <2>1. Closing(g) = Closing(link) \cup {t} /\ t \notin Closing(link)
    BY <1>1 DEF Closing
  <2>2. Cardinality(Closing(g)) = Cardinality(Closing(link)) + 1
    BY <2>1, ClosingFinite, FS_AddElement
  <2>3. Close(t) = g
    BY <1>1 DEF Close
  <2>4. g \in [Ticker -> LinkState]
    BY DEF LinkState
  <2> QED BY <2>2, <2>3, <2>4, ClosingFinite
<1>2. CASE link[t] # "open"
  BY <1>2, ClosingFinite DEF Close
<1> QED BY <1>1, <1>2

-----------------------------------------------------------------------------

(***************************************************************************)
(* Types; in particular the attempts never exceed max_attempts, and a      *)
(* service whose stop() has begun does not run.                            *)
(***************************************************************************)
LEMMA TypesStep ==
    TypeOK /\ StoppingDoesNotRun /\ [Next]_vars => TypeOK' /\ StoppingDoesNotRun'
<1> SUFFICES ASSUME TypeOK, StoppingDoesNotRun, [Next]_vars
             PROVE  TypeOK' /\ StoppingDoesNotRun'
  OBVIOUS
<1> USE FeedAssumption DEF TypeOK, StoppingDoesNotRun, LinkState
<1>0. CASE UNCHANGED vars
  BY <1>0 DEF vars
<1>1. CASE AbandonAttempt
  <2>1. /\ waiting' \in Nat /\ ~running'
        /\ UNCHANGED <<stop_pc, kws, link, attempts, attempt_pc, faults>>
    BY <1>1 DEF AbandonAttempt
  <2>2. running' \in BOOLEAN
    BY <1>1 DEF AbandonAttempt
  <2> QED BY <2>1, <2>2
<1>2. CASE BeginAttempt
  BY <1>2 DEF BeginAttempt
<1>3. CASE CloseExisting
  BY <1>3 DEF CloseExisting, Close
<1>4. CASE LoginFails
  BY <1>4 DEF LoginFails, Fault, Reschedule
<1>5. ASSUME NEW t \in Ticker, Connect(t) PROVE TypeOK' /\ StoppingDoesNotRun'
  BY <1>5 DEF Connect
<1>6. CASE Reconnected
  BY <1>6 DEF Reconnected
<1>7. CASE ReconnectFails
  BY <1>7 DEF ReconnectFails, Fault, Reschedule
<1>8. ASSUME NEW t \in Ticker, Open(t) PROVE TypeOK' /\ StoppingDoesNotRun'
  BY <1>8 DEF Open
<1>9. ASSUME NEW t \in Ticker, HandshakeFails(t) PROVE TypeOK' /\ StoppingDoesNotRun'
  BY <1>9 DEF HandshakeFails, Fault, OnClose
<1>10. ASSUME NEW t \in Ticker, Lost(t) PROVE TypeOK' /\ StoppingDoesNotRun'
  BY <1>10 DEF Lost, Fault, OnClose
<1>11. ASSUME NEW t \in Ticker, Exhausted(t) PROVE TypeOK' /\ StoppingDoesNotRun'
  BY <1>11 DEF Exhausted, Fault
<1>12. ASSUME NEW t \in Ticker, Closed(t) PROVE TypeOK' /\ StoppingDoesNotRun'
  BY <1>12 DEF Closed, OnClose
<1>13. CASE BeginStop
  BY <1>13 DEF BeginStop
<1>14. CASE EndStop
  BY <1>14 DEF EndStop, Close
<1> QED BY <1>0, <1>1, <1>2, <1>3, <1>4, <1>5, <1>6, <1>7, <1>8, <1>9, <1>10, <1>11, <1>12,
           <1>13, <1>14
        DEF Next, Attempt, Sdk

(***************************************************************************)
(* Type correctness of the feed connection.                                *)
(***************************************************************************)
THEOREM FeedTypeCorrect == Spec => [](TypeOK /\ StoppingDoesNotRun)
<1>1. Init => TypeOK /\ StoppingDoesNotRun
  BY FeedAssumption DEF Init, TypeOK, StoppingDoesNotRun, LinkState
<1> QED BY <1>1, TypesStep, PTL DEF Spec

-----------------------------------------------------------------------------

(***************************************************************************)
(* Whatever closes or fails leaves someone who reconnects.                 *)
(***************************************************************************)
LEMMA ReconnectsStep == TypeOK /\ SomeoneReconnects /\ [Next]_vars => SomeoneReconnects'
<1> SUFFICES ASSUME TypeOK, SomeoneReconnects, [Next]_vars PROVE SomeoneReconnects'
  OBVIOUS
<1> USE DEF TypeOK, SomeoneReconnects, Active
<1>0. CASE UNCHANGED vars
  BY <1>0 DEF vars
<1>1. CASE AbandonAttempt
  BY <1>1 DEF AbandonAttempt
<1>2. CASE BeginAttempt
  BY <1>2 DEF BeginAttempt
<1>3. CASE CloseExisting
  BY <1>3 DEF CloseExisting
<1>4. CASE LoginFails
  BY <1>4 DEF LoginFails, Reschedule
<1>5. ASSUME NEW t \in Ticker, Connect(t) PROVE SomeoneReconnects'
  BY <1>5 DEF Connect
<1>6. CASE Reconnected
  BY <1>6 DEF Reconnected
<1>7. CASE ReconnectFails
  BY <1>7 DEF ReconnectFails, Reschedule
<1>8. ASSUME NEW t \in Ticker, Open(t) PROVE SomeoneReconnects'
  BY <1>8 DEF Open
<1>9. ASSUME NEW t \in Ticker, HandshakeFails(t) PROVE SomeoneReconnects'
  BY <1>9 DEF HandshakeFails, OnClose
<1>10. ASSUME NEW t \in Ticker, Lost(t) PROVE SomeoneReconnects'
  BY <1>10 DEF Lost, OnClose
<1>11. ASSUME NEW t \in Ticker, Exhausted(t) PROVE SomeoneReconnects'
  BY <1>11 DEF Exhausted
<1>12. ASSUME NEW t \in Ticker, Closed(t) PROVE SomeoneReconnects'
  BY <1>12 DEF Closed, OnClose
<1>13. CASE BeginStop
  BY <1>13 DEF BeginStop
<1>14. CASE EndStop
  BY <1>14 DEF EndStop, Close
<1> QED BY <1>0, <1>1, <1>2, <1>3, <1>4, <1>5, <1>6, <1>7, <1>8, <1>9, <1>10, <1>11, <1>12,
           <1>13, <1>14
        DEF Next, Attempt, Sdk

(***************************************************************************)
(* The feed is never given up in silence, for any number of faults.        *)
(***************************************************************************)
THEOREM NeverGivenUpInSilence == Spec => []SomeoneReconnects
<1>1. Init => SomeoneReconnects
  BY FeedAssumption DEF Init, SomeoneReconnects
<1> QED BY <1>1, ReconnectsStep, FeedTypeCorrect, PTL DEF Spec

-----------------------------------------------------------------------------

\* The two other summands of TasksBounded.
Sleeping(at) == IF at = "backoff" THEN 1 ELSE 0
ToBeReported(run, f) == IF run THEN Cardinality(Closing(f)) ELSE 0

(***************************************************************************)
(* TasksBounded in these terms.                                            *)
(***************************************************************************)
LEMMA TasksBoundedIs ==
    TasksBounded <=> waiting + Sleeping(attempt_pc) + ToBeReported(running, link) <= faults
BY DEF TasksBounded, Sleeping, ToBeReported, Closing

(***************************************************************************)
(* Every task a step adds is paid by a fault, by the task that ends or by  *)
(* the close that is reported.                                             *)
(***************************************************************************)
LEMMA TasksStep ==
    TypeOK /\ StoppingDoesNotRun /\ TasksBounded /\ [Next]_vars => TasksBounded'
<1> SUFFICES ASSUME TypeOK, StoppingDoesNotRun, TasksBounded, [Next]_vars
             PROVE  waiting' + Sleeping(attempt_pc') + ToBeReported(running', link') <= faults'
  BY TasksBoundedIs DEF TasksBounded, Sleeping, ToBeReported, Closing
<1> DEFINE n == Cardinality(Closing(link))
           n1 == Cardinality(Closing(link'))
<1>a. waiting + Sleeping(attempt_pc) + ToBeReported(running, link) <= faults
  BY TasksBoundedIs
<1>b. /\ waiting \in Nat /\ faults \in Nat /\ running \in BOOLEAN /\ kws \in Ticker
      /\ link \in [Ticker -> LinkState]
  BY FeedAssumption DEF TypeOK
<1>c. n \in Nat
  BY <1>b, ClosingFinite
<1>d. ToBeReported(running, link) = IF running THEN n ELSE 0
  BY DEF ToBeReported
<1>e. ToBeReported(running', link') = IF running' THEN n1 ELSE 0
  BY DEF ToBeReported
<1>f. link' = link => n1 = n
  OBVIOUS
<1> HIDE DEF n, n1
<1>0. CASE UNCHANGED vars
  BY <1>0, <1>a DEF vars
<1>1. CASE AbandonAttempt
  BY <1>1, <1>a, <1>b, <1>c, <1>d, <1>e DEF AbandonAttempt, Sleeping
<1>2. CASE BeginAttempt
  <2>1. /\ waiting' = waiting - 1 /\ Sleeping(attempt_pc) = 0 /\ Sleeping(attempt_pc') = 1
        /\ UNCHANGED <<running, link, faults>>
    BY <1>2 DEF BeginAttempt, Sleeping
  <2>2. ToBeReported(running', link') = ToBeReported(running, link)
    BY <2>1
  <2>3. ToBeReported(running, link) \in Nat
    BY <1>b, <1>c, <1>d
  <2> QED BY <1>a, <1>b, <2>1, <2>2, <2>3
<1>3. CASE CloseExisting
  <2>1. n1 \in Nat /\ n1 <= n + 1
    BY <1>3, <1>b, OneMoreClose, ClosingFinite DEF CloseExisting, n, n1
  <2> QED BY <1>3, <1>a, <1>b, <1>c, <1>d, <1>e, <2>1 DEF CloseExisting, Sleeping
<1>4. CASE LoginFails
  BY <1>4, <1>a, <1>b, <1>c, <1>d, <1>e, <1>f DEF LoginFails, Fault, Reschedule, Sleeping
<1>5. ASSUME NEW t \in Ticker, Connect(t)
      PROVE  waiting' + Sleeping(attempt_pc') + ToBeReported(running', link') <= faults'
  <2>1. n1 \in Nat /\ n1 <= n
    <3>1. link' = [link EXCEPT ![t] = "connecting"] /\ link' \in [Ticker -> LinkState]
      BY <1>5, <1>b DEF Connect, LinkState
    <3> QED BY <1>b, <3>1, NoNewClose, ClosingFinite DEF LinkState, n, n1
  <2> QED BY <1>5, <1>a, <1>b, <1>c, <1>d, <1>e, <2>1 DEF Connect, Sleeping
<1>6. CASE Reconnected
  BY <1>6, <1>a, <1>b, <1>c, <1>d, <1>e, <1>f DEF Reconnected, Sleeping
<1>7. CASE ReconnectFails
  BY <1>7, <1>a, <1>b, <1>c, <1>d, <1>e, <1>f DEF ReconnectFails, Fault, Reschedule, Sleeping
<1>8. ASSUME NEW t \in Ticker, Open(t)
      PROVE  waiting' + Sleeping(attempt_pc') + ToBeReported(running', link') <= faults'
  <2>1. n1 \in Nat /\ n1 <= n
    <3>1. link' = [link EXCEPT ![t] = "open"] /\ link' \in [Ticker -> LinkState]
      BY <1>8, <1>b DEF Open, LinkState
    <3> QED BY <1>b, <3>1, NoNewClose, ClosingFinite DEF LinkState, n, n1
  <2> QED BY <1>8, <1>a, <1>b, <1>c, <1>d, <1>e, <2>1 DEF Open, Sleeping
<1>9. ASSUME NEW t \in Ticker, HandshakeFails(t)
      PROVE  waiting' + Sleeping(attempt_pc') + ToBeReported(running', link') <= faults'
  BY <1>9, <1>a, <1>b, <1>c, <1>d, <1>e, <1>f DEF HandshakeFails, Fault, OnClose, Sleeping
<1>10. ASSUME NEW t \in Ticker, Lost(t)
       PROVE  waiting' + Sleeping(attempt_pc') + ToBeReported(running', link') <= faults'
  <2>1. n1 \in Nat /\ n1 <= n
    <3>1. link' = [link EXCEPT ![t] = "connecting"] /\ link' \in [Ticker -> LinkState]
      BY <1>10, <1>b DEF Lost, LinkState
    <3> QED BY <1>b, <3>1, NoNewClose, ClosingFinite DEF LinkState, n, n1
  <2> QED BY <1>10, <1>a, <1>b, <1>c, <1>d, <1>e, <2>1 DEF Lost, Fault, OnClose, Sleeping
<1>11. ASSUME NEW t \in Ticker, Exhausted(t)
       PROVE  waiting' + Sleeping(attempt_pc') + ToBeReported(running', link') <= faults'
  <2>1. n1 \in Nat /\ n1 <= n
    <3>1. link' = [link EXCEPT ![t] = "exhausted"] /\ link' \in [Ticker -> LinkState]
      BY <1>11, <1>b DEF Exhausted, LinkState
    <3> QED BY <1>b, <3>1, NoNewClose, ClosingFinite DEF LinkState, n, n1
  <2> QED BY <1>11, <1>a, <1>b, <1>c, <1>d, <1>e, <2>1 DEF Exhausted, Fault, Sleeping
<1>12. ASSUME NEW t \in Ticker, Closed(t)
       PROVE  waiting' + Sleeping(attempt_pc') + ToBeReported(running', link') <= faults'
  <2>1. n1 = n - 1
    BY <1>12, <1>b, CloseReported DEF Closed, n, n1
  <2> QED BY <1>12, <1>a, <1>b, <1>c, <1>d, <1>e, <2>1 DEF Closed, OnClose, Sleeping
<1>13. CASE BeginStop
  BY <1>13, <1>a, <1>b, <1>c, <1>d, <1>e DEF BeginStop, Sleeping
<1>14. CASE EndStop
  <2>1. ~running
    BY <1>14 DEF EndStop, StoppingDoesNotRun
  <2> QED BY <1>14, <1>a, <1>b, <1>c, <1>d, <1>e, <2>1 DEF EndStop, Sleeping
<1> QED BY <1>0, <1>1, <1>2, <1>3, <1>4, <1>5, <1>6, <1>7, <1>8, <1>9, <1>10, <1>11, <1>12,
           <1>13, <1>14
        DEF Next, Attempt, Sdk

(***************************************************************************)
(* Reconnection tasks do not multiply, for any number of faults, tickers   *)
(* and attempts.                                                           *)
(***************************************************************************)
THEOREM TasksDoNotMultiply == Spec => []TasksBounded
<1>1. Init => TasksBounded
  <2> SUFFICES ASSUME Init PROVE TasksBounded
    OBVIOUS
  <2>1. Closing(link) = {}
    BY DEF Init, Closing
  <2>2. ToBeReported(running, link) = 0
    BY <2>1, FS_EmptySet DEF ToBeReported
  <2>3. Sleeping(attempt_pc) = 0 /\ waiting = 0 /\ faults = 0
    BY DEF Init, Sleeping
  <2>4. waiting + Sleeping(attempt_pc) + ToBeReported(running, link) <= faults
    BY <2>2, <2>3
  <2> QED BY <2>4, TasksBoundedIs
<1> QED BY <1>1, TasksStep, FeedTypeCorrect, PTL DEF Spec

-----------------------------------------------------------------------------

AttemptsPaid ==
    stop_pc = "none" /\ attempts > 0 =>
        attempts + (IF attempt_pc = "none" THEN 1 ELSE 0) <= faults

\* A task holds the lock only of a service that runs or is being stopped.
AttemptOfRunning == attempt_pc # "none" => running \/ stop_pc # "none"

(***************************************************************************)
(* A task that is queued was paid by a fault.                              *)
(***************************************************************************)
LEMMA QueuedIsPaid == TypeOK /\ TasksBounded /\ waiting > 0 => faults > 0
<1> SUFFICES ASSUME TypeOK, TasksBounded, waiting > 0 PROVE faults > 0
  OBVIOUS
<1>1. waiting + Sleeping(attempt_pc) + ToBeReported(running, link) <= faults
  BY TasksBoundedIs
<1>2. waiting \in Nat /\ faults \in Nat /\ Sleeping(attempt_pc) \in Nat
  BY FeedAssumption DEF TypeOK, Sleeping
<1>3. ToBeReported(running, link) \in Nat
  BY ClosingFinite DEF TypeOK, ToBeReported
<1> QED BY <1>1, <1>2, <1>3

(***************************************************************************)
(* What each step does to the attempts and what it pays for them.          *)
(***************************************************************************)
LEMMA GivingUpStep ==
    /\ TypeOK /\ StoppingDoesNotRun /\ TasksBounded
    /\ AttemptsPaid /\ AttemptOfRunning /\ GivesUpOnlyAfterFailures
    /\ [Next]_vars
    => AttemptsPaid' /\ AttemptOfRunning' /\ GivesUpOnlyAfterFailures'
<1> DEFINE Kept == AttemptsPaid' /\ AttemptOfRunning' /\ GivesUpOnlyAfterFailures'
<1> SUFFICES ASSUME TypeOK, StoppingDoesNotRun, TasksBounded, AttemptsPaid, AttemptOfRunning,
                    GivesUpOnlyAfterFailures, [Next]_vars
             PROVE  Kept
  OBVIOUS
<1>a. /\ attempts \in Nat /\ faults \in Nat /\ max_attempts \in Nat \ {0}
      /\ waiting > 0 => faults > 0
  BY FeedAssumption, QueuedIsPaid DEF TypeOK
<1> USE <1>a DEF AttemptsPaid, AttemptOfRunning, GivesUpOnlyAfterFailures, StoppingDoesNotRun
<1>0. CASE UNCHANGED vars
  BY <1>0 DEF vars
<1>1. CASE AbandonAttempt
  BY <1>1 DEF AbandonAttempt
<1>2. CASE BeginAttempt
  BY <1>2 DEF BeginAttempt
<1>3. CASE CloseExisting
  BY <1>3 DEF CloseExisting
<1>4. CASE LoginFails
  BY <1>4 DEF LoginFails, Fault
<1>5. ASSUME NEW t \in Ticker, Connect(t) PROVE Kept
  BY <1>5 DEF Connect
<1>6. CASE Reconnected
  BY <1>6 DEF Reconnected
<1>7. CASE ReconnectFails
  BY <1>7 DEF ReconnectFails, Fault
<1>8. ASSUME NEW t \in Ticker, Open(t) PROVE Kept
  BY <1>8 DEF Open
<1>9. ASSUME NEW t \in Ticker, HandshakeFails(t) PROVE Kept
  BY <1>9 DEF HandshakeFails, Fault
<1>10. ASSUME NEW t \in Ticker, Lost(t) PROVE Kept
  BY <1>10 DEF Lost, Fault
<1>11. ASSUME NEW t \in Ticker, Exhausted(t) PROVE Kept
  BY <1>11 DEF Exhausted, Fault
<1>12. ASSUME NEW t \in Ticker, Closed(t) PROVE Kept
  BY <1>12 DEF Closed
<1>13. CASE BeginStop
  BY <1>13 DEF BeginStop
<1>14. CASE EndStop
  BY <1>14 DEF EndStop
<1> QED BY <1>0, <1>1, <1>2, <1>3, <1>4, <1>5, <1>6, <1>7, <1>8, <1>9, <1>10, <1>11, <1>12,
           <1>13, <1>14
        DEF Next, Attempt, Sdk

(***************************************************************************)
(* The service stops by itself only after more faults than max_attempts,   *)
(* for any number of tickers, attempts and faults.                         *)
(***************************************************************************)
THEOREM GivingUpIsEarned == Spec => []GivesUpOnlyAfterFailures
<1>1. Init => AttemptsPaid /\ AttemptOfRunning /\ GivesUpOnlyAfterFailures
  BY DEF Init, AttemptsPaid, AttemptOfRunning, GivesUpOnlyAfterFailures
<1> QED BY <1>1, GivingUpStep, FeedTypeCorrect, TasksDoNotMultiply, PTL DEF Spec

=============================================================================
