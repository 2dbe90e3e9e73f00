--------------------- MODULE ApplicationLifecycleProofs ---------------------
(***************************************************************************)
(* Safety of the application's start and shutdown for every set of         *)
(* services, every order and selection of them, and every number of calls  *)
(* that raise.                                                             *)
(***************************************************************************)
EXTENDS ApplicationLifecycle, TLAPS

-----------------------------------------------------------------------------
(* The inductive invariant.                                                *)

BeforeStart == {"config", "database", "auth", "health", "cleanup"}
BeforeStop == BeforeStart \cup {"starting", "running"}

\* What a passed check has seen of the session stays so: initialize is called a
\* second time only if the first check has failed.
ChecksSpeakTrue ==
    /\ auth_status = "AUTHENTICATED" \/ auth_pc = "save" => profile
    /\ phase \in {"config", "database", "auth"} => checks["zerodha_auth"] = "none"
    /\ checks["zerodha_auth"] = "none" => checks["broker_api"] = "none"
    /\ phase = "health" /\ checks["zerodha_auth"] = "passed" =>
           auth_status = "AUTHENTICATED" /\ checks["broker_api"] # "waiting"

\* Nothing is started before the health checks have passed, and once they have,
\* nothing takes the authentication away: a second initialize that goes on after
\* its check was given up meets no service that was started.
AuthenticatedFirst ==
    /\ phase \in BeforeStart => \A s \in Service : start_pc[s] = "none"
    /\ checks["broker_api"] = "waiting" =>
           phase \notin {"starting", "running"} /\ \A s \in Service : start_pc[s] = "none"
    /\ phase \in {"starting", "running"} => SessionConfirmed
    /\ ServicesNeedAuthentication

\* _started_services is the part of the list that has been gone through, and
\* only the service after it may be starting.
StartedInOrder ==
    /\ Len(started) <= Len(Gated)
    /\ \A n \in 1..Len(started) : started[n] = Gated[n] /\ start_pc[Gated[n]] = "done"
    /\ \A s \in Service : start_pc[s] # "none" =>
           \E n \in 1..Len(Gated) : n <= Len(started) + 1 /\ s = Gated[n]
    /\ phase = "running" => Len(started) = Len(Gated)

\* Before the shutdown no orchestrator stops, one whose loops were created is
\* running, and one that was not started has nothing open.
OpenAsStarted ==
    /\ \A s \in Service : start_pc[s] = "none" => up[s] = {}
    /\ phase \in BeforeStop => \A s \in Service :
           /\ stop_pc[s] = "none"
           /\ start_pc[s] \in {"load", "done"} => running[s]

\* During the shutdown no start is under way, every started service is told to
\* stop, and how far its stop has come says what it may still have open.
OpenAsStopped ==
    phase \notin BeforeStop => \A s \in Service :
        /\ start_pc[s] \in {"none", "done", "raised"}
        /\ start_pc[s] = "done" =>
               /\ stop_pc[s] # "none"
               /\ stop_pc[s] = "consumers" => "loop" \notin up[s]
               /\ stop_pc[s] = "producers" => up[s] \subseteq {"producer"}
               /\ stop_pc[s] = "done" => up[s] = {}

\* The pool is closed after all the stops, or after one of them has raised.
StopsAwaited ==
    phase \in {"closing", "exited"} =>
        \/ \A s \in Service : stop_pc[s] \in {"none", "done"}
        \/ SomeStopRaised

LifecycleInv ==
    /\ TypeOK
    /\ ChecksSpeakTrue
    /\ AuthenticatedFirst
    /\ StartedInOrder
    /\ OpenAsStarted
    /\ OpenAsStopped
    /\ StopsAwaited

-----------------------------------------------------------------------------
(* Type correctness.                                                       *)

\* A failure is counted.
LEMMA FaultType ==
    ASSUME faults \in Nat, Fault
    PROVE  faults' \in Nat
BY DEF Fault

(***************************************************************************)
(* Every await of initialize leaves the authentication's state well typed. *)
(***************************************************************************)
LEMMA AuthTypes ==
    ASSUME AuthTypeOK,
           BeginAuth(credentials) \/ AuthStep \/ SessionEnds
    PROVE  AuthTypeOK'
<1> USE FaultType DEF AuthTypeOK, AuthFails, BeginPrompt
<1>1. CASE BeginAuth(credentials)
  BY <1>1 DEF BeginAuth
<1>2. CASE LoadSession
  BY <1>2 DEF LoadSession
<1>2a. CASE LoadSessionFails
  BY <1>2a DEF LoadSessionFails
<1>3. CASE ValidateSession \/ RefuseSessionFails
  BY <1>3 DEF ValidateSession, RefuseSessionFails
<1>3a. CASE RefuseSession
  BY <1>3a DEF RefuseSession
<1>4. CASE EnterToken \/ NoToken \/ PromptCancelled
  BY <1>4 DEF EnterToken, NoToken, PromptCancelled
<1>5. CASE GenerateSession \/ TokenRefused
  BY <1>5 DEF GenerateSession, TokenRefused
<1>6. CASE SaveSession
  BY <1>6 DEF SaveSession
<1>6a. CASE SaveSessionFails
  BY <1>6a DEF SaveSessionFails
<1>7. CASE SessionEnds
  BY <1>7 DEF SessionEnds
<1> QED
  BY <1>1, <1>2, <1>2a, <1>3, <1>3a, <1>4, <1>5, <1>6, <1>6a, <1>7 DEF AuthStep

(***************************************************************************)
(* Every await of a service's start and stop leaves its orchestrator's     *)
(* state well typed.                                                       *)
(***************************************************************************)
LEMMA OrchestratorTypes ==
    ASSUME OrchestratorTypeOK, faults \in Nat, NEW s \in Service,
           BeginStart(s) \/ StartStep(s) \/ StopStep(s) \/ LoopDies(s)
    PROVE  OrchestratorTypeOK' /\ faults' \in Nat
<1> USE FaultType DEF OrchestratorTypeOK, Part, StartPoint, StopPoint
<1>1. CASE BeginStart(s)
  BY <1>1 DEF BeginStart
<1>2. CASE StartStep(s)
  <2>1. CASE StartProducers(s)
    BY <2>1 DEF StartProducers
  <2>2. CASE StartConsumers(s)
    BY <2>2 DEF StartConsumers
  <2>3. CASE FinishLoading(s)
    BY <2>3 DEF FinishLoading
  <2>4. CASE StartRaises(s)
    BY <2>4 DEF StartRaises
  <2> QED
    BY <1>2, <2>1, <2>2, <2>3, <2>4 DEF StartStep
<1>3. CASE StopStep(s)
  <2>1. CASE StopLoops(s)
    BY <2>1 DEF StopLoops
  <2>2. CASE StopConsumers(s)
    BY <2>2 DEF StopConsumers
  <2>3. CASE StopConsumersRaises(s)
    BY <2>3 DEF StopConsumersRaises
  <2>4. CASE StopProducers(s)
    BY <2>4 DEF StopProducers
  <2> QED
    BY <1>3, <2>1, <2>2, <2>3, <2>4 DEF StopStep
<1>4. CASE LoopDies(s)
  BY <1>4 DEF LoopDies
<1> QED
  BY <1>1, <1>2, <1>3, <1>4

(***************************************************************************)
(* The service whose turn it is is one of the gated ones.                  *)
(***************************************************************************)
LEMMA NextServiceType ==
    ASSUME TypeOK, Len(started) < Len(Gated)
    PROVE  /\ Len(started) \in Nat
           /\ Len(started) + 1 \in 1..Len(Gated)
           /\ NextService(Len(started)) \in Service
BY LifespanAssumption DEF TypeOK, NextService

(***************************************************************************)
(* shutdown() asks each service it stops for the point its stop begins at. *)
(***************************************************************************)
LEMMA BeginShutdownTypes ==
    ASSUME OrchestratorTypeOK, BeginShutdown
    PROVE  OrchestratorTypeOK'
<1>1. \A s \in Service : StopEntry(s) \in StopPoint
  BY DEF StopEntry, StopPoint
<1>2. "none" \in StopPoint
  BY DEF StopPoint
<1> QED
  BY <1>1, <1>2 DEF BeginShutdown, OrchestratorTypeOK

\* A step of a health check that has not raised.
CheckStep ==
    \/ CheckAuthentication
    \/ CheckBrokerApi \/ AuthenticateAgain \/ BrokerApiChecked
    \/ \E ok \in BOOLEAN : CheckOthers(ok)

(***************************************************************************)
(* Health checks change their results and, with the second initialize, the *)
(* authentication's state.                                                 *)
(***************************************************************************)
LEMMA CheckTypes ==
    ASSUME TypeOK, CheckStep
    PROVE  TypeOK'
<1> USE DEF TypeOK, main_vars, check_vars, auth_vars, orchestrator_vars, Conclude, Check
<1>1. CASE CheckAuthentication
  BY <1>1 DEF CheckAuthentication, AuthTypeOK, OrchestratorTypeOK
<1>2. CASE CheckBrokerApi /\ auth_status = "AUTHENTICATED"
  BY <1>2 DEF CheckBrokerApi, AuthTypeOK, OrchestratorTypeOK
<1>3. CASE CheckBrokerApi /\ BeginAuth(credentials)
  <2>1. AuthTypeOK'
    BY <1>3, AuthTypes
  <2> QED
    BY <1>3, <2>1 DEF CheckBrokerApi, OrchestratorTypeOK
<1>4. CASE AuthenticateAgain
  BY <1>4, AuthTypes DEF AuthenticateAgain, OrchestratorTypeOK
<1>5. CASE BrokerApiChecked
  BY <1>5 DEF BrokerApiChecked, AuthTypeOK, OrchestratorTypeOK
<1>6. ASSUME NEW ok \in BOOLEAN, CheckOthers(ok) PROVE TypeOK'
  BY <1>6 DEF CheckOthers, AuthTypeOK, OrchestratorTypeOK
<1> QED
  BY <1>1, <1>2, <1>3, <1>4, <1>5, <1>6 DEF CheckStep, CheckBrokerApi

\* main() starts well typed.
LEMMA InitTypes == Init => TypeOK
<1> SUFFICES ASSUME Init PROVE TypeOK
  OBVIOUS
<1>1. AuthTypeOK
  BY DEF Init, AuthInit, AuthTypeOK
<1>2. OrchestratorTypeOK
  BY DEF Init, OrchestratorInit, OrchestratorTypeOK, StartPoint, StopPoint
<1>3. started \in Seq(Service)
  BY DEF Init
<1> QED
  BY <1>1, <1>2, <1>3 DEF Init, TypeOK

(***************************************************************************)
(* Every step of run(), of a stop and of the environment preserves the     *)
(* types.                                                                  *)
(***************************************************************************)
LEMMA StepTypes == TypeOK /\ [Next]_vars => TypeOK'
<1> SUFFICES ASSUME TypeOK, [Next]_vars PROVE TypeOK'
  OBVIOUS
<1> USE DEF TypeOK, main_vars, check_vars, auth_vars, orchestrator_vars
<1>0. CASE UNCHANGED vars
  BY <1>0 DEF vars, AuthTypeOK, OrchestratorTypeOK
<1>1. ASSUME NEW valid \in BOOLEAN, ValidateConfiguration(valid) PROVE TypeOK'
  BY <1>1 DEF ValidateConfiguration, AuthTypeOK, OrchestratorTypeOK
<1>2. CASE RefuseDefaultSecret
  BY <1>2, BeginShutdownTypes DEF RefuseDefaultSecret, BeginShutdown, AuthTypeOK
<1>3. CASE InitDatabase
  BY <1>3 DEF InitDatabase, AuthTypeOK, OrchestratorTypeOK
<1>4. CASE InitDatabaseRaises
  BY <1>4, BeginShutdownTypes, FaultType DEF InitDatabaseRaises, BeginShutdown, AuthTypeOK
<1>5. CASE StartAuth
  BY <1>5, AuthTypes DEF StartAuth, OrchestratorTypeOK
<1>6. CASE AuthStarted
  BY <1>6 DEF AuthStarted, AuthTypeOK, OrchestratorTypeOK
<1>7. CASE CheckStep
  BY <1>7, CheckTypes
<1>7a. CASE CheckRaises
  BY <1>7a, BeginShutdownTypes, FaultType DEF CheckRaises, BeginShutdown, AuthTypeOK
<1>7b. CASE ChecksGathered
  BY <1>7b DEF ChecksGathered, AuthTypeOK, OrchestratorTypeOK
<1>8. CASE CleanUp
  <2>1. db' \in BOOLEAN /\ faults' \in Nat
    BY <1>8, FaultType DEF CleanUp, AuthTypeOK
  <2> QED
    BY <1>8, <2>1, BeginShutdownTypes DEF CleanUp, BeginShutdown, AuthTypeOK
<1>9. CASE StartServices
  BY <1>9, NextServiceType, OrchestratorTypes DEF StartServices, AuthTypeOK
<1>10. CASE ServiceStarted
  BY <1>10, NextServiceType DEF ServiceStarted, AuthTypeOK, OrchestratorTypeOK
<1>11. CASE StartFailed
  BY <1>11, BeginShutdownTypes DEF StartFailed, BeginShutdown, AuthTypeOK
<1>12. CASE AllStarted
  BY <1>12 DEF AllStarted, AuthTypeOK, OrchestratorTypeOK
<1>13. CASE AwaitSignal
  BY <1>13, BeginShutdownTypes DEF AwaitSignal, BeginShutdown, AuthTypeOK
<1>14. CASE StopsGathered
  BY <1>14 DEF StopsGathered, AuthTypeOK, OrchestratorTypeOK
<1>15. CASE CloseDatabase
  <2>1. db' \in BOOLEAN /\ faults' \in Nat
    BY <1>15, FaultType DEF CloseDatabase, AuthTypeOK
  <2> QED
    BY <1>15, <2>1 DEF CloseDatabase, AuthTypeOK, OrchestratorTypeOK
<1>16. ASSUME NEW s \in Service, StopService(s) PROVE TypeOK'
  BY <1>16, OrchestratorTypes DEF StopService, AuthTypeOK
<1>17. CASE ReceiveSignal
  BY <1>17 DEF ReceiveSignal, AuthTypeOK, OrchestratorTypeOK
<1>18. CASE SessionEnds /\ UNCHANGED <<main_vars, orchestrator_vars>>
  BY <1>18, AuthTypes DEF OrchestratorTypeOK
<1>19. ASSUME NEW s \in Service, LoopDies(s), UNCHANGED <<main_vars, auth_vars, shutdown_event>>
       PROVE  TypeOK'
  BY <1>19, OrchestratorTypes DEF AuthTypeOK
<1> QED
  BY <1>0, <1>1, <1>2, <1>3, <1>4, <1>5, <1>6, <1>7, <1>7a, <1>7b, <1>8, <1>9, <1>10, <1>11,
     <1>12, <1>13, <1>14, <1>15, <1>16, <1>17, <1>18, <1>19
     DEF Next, MainStep, Environment, CheckStep

(***************************************************************************)
(* TypeOK holds of app/main.py whatever services there are.                *)
(***************************************************************************)
THEOREM TypesHold == Spec => []TypeOK
BY InitTypes, StepTypes, PTL DEF Spec

-----------------------------------------------------------------------------
(* What the steps leave alone.                                             *)

\* The steps that begin the shutdown, with what each knows of the start.
ShutdownBegins ==
    /\ BeginShutdown
    /\ \/ phase \in BeforeStart
       \/ /\ phase = "starting"
          /\ Len(started) < Len(Gated)
          /\ start_pc[NextService(Len(started))] = "raised"
       \/ phase = "running"
    /\ UNCHANGED <<check_vars, auth_vars>>

\* A step of run() from one phase to another that touches no service.
PhaseStep ==
    /\ UNCHANGED <<started, check_vars, auth_vars, orchestrator_vars>>
    /\ \/ /\ phase \in BeforeStart /\ phase' \in BeforeStart
          /\ phase' \in {"config", "database", "auth", "health"} =>
                 phase \in {"config", "database", "auth"}
       \/ phase = "health" /\ phase' = "starting" /\ \A c \in Check : checks[c] = "passed"
       \/ phase = "starting" /\ phase' = "running" /\ Len(started) = Len(Gated)
       \/ /\ phase = "stopping" /\ phase' = "closing"
          /\ (\A s \in Service : stop_pc[s] \in {"none", "done"}) \/ SomeStopRaised
       \/ phase = "closing" /\ phase' = "exited"

\* A step of one service's start, stop or loop.
ServiceStep(s) ==
    /\ UNCHANGED <<main_vars, auth_vars>>
    /\ \/ /\ phase = "starting" /\ Len(started) < Len(Gated) /\ s = NextService(Len(started))
          /\ BeginStart(s) \/ StartStep(s)
       \/ phase \in {"stopping", "closing"} /\ StopStep(s)
       \/ phase # "exited" /\ LoopDies(s)

\* A step of initialize, of a health check or of the environment.
Elsewhere ==
    /\ UNCHANGED <<phase, db, started, orchestrator_vars>>
    /\ \/ UNCHANGED <<checks, auth_status, profile, auth_pc>>
       \/ StartAuth
       \/ CheckStep

(***************************************************************************)
(* Every step is of one of these kinds, or adds to _started_services.      *)
(***************************************************************************)
LEMMA StepKinds ==
    ASSUME TypeOK, [Next]_vars
    PROVE  \/ ShutdownBegins
           \/ PhaseStep
           \/ \E s \in Service : ServiceStep(s)
           \/ Elsewhere
           \/ ServiceStarted
<1> USE DEF main_vars, check_vars, auth_vars, orchestrator_vars, BeforeStart
<1>0. CASE UNCHANGED vars
  BY <1>0 DEF vars, Elsewhere
<1>1. ASSUME NEW valid \in BOOLEAN, ValidateConfiguration(valid) PROVE PhaseStep
  BY <1>1 DEF ValidateConfiguration, PhaseStep
<1>2. CASE RefuseDefaultSecret \/ InitDatabaseRaises \/ CleanUp \/ StartFailed \/ AwaitSignal
  BY <1>2 DEF RefuseDefaultSecret, InitDatabaseRaises, CleanUp, StartFailed, AwaitSignal,
              ShutdownBegins
<1>3. CASE InitDatabase \/ AuthStarted \/ AllStarted
  BY <1>3 DEF InitDatabase, AuthStarted, AllStarted, PhaseStep
<1>4. CASE StopsGathered
  BY <1>4 DEF StopsGathered, PhaseStep, SomeStopRaised
<1>5. CASE CloseDatabase
  BY <1>5 DEF CloseDatabase, PhaseStep
<1>6. CASE StartAuth
  BY <1>6 DEF StartAuth, Elsewhere
<1>7. CASE CheckStep
  BY <1>7 DEF CheckStep, CheckAuthentication, CheckBrokerApi, AuthenticateAgain,
              BrokerApiChecked, CheckOthers, Elsewhere
<1>7a. CASE CheckRaises
  BY <1>7a DEF CheckRaises, ShutdownBegins
<1>7b. CASE ChecksGathered
  BY <1>7b DEF ChecksGathered, PhaseStep
<1>8. CASE StartServices
  <2> DEFINE s == NextService(Len(started))
  <2>1. BeginStart(s) \/ StartStep(s)
    BY <1>8 DEF StartServices
  <2>2. ServiceStep(s)
    BY <1>8, <2>1 DEF StartServices, ServiceStep
  <2>3. s \in Service
    BY <1>8, NextServiceType DEF StartServices
  <2> QED
    BY <2>2, <2>3
<1>9. ASSUME NEW s \in Service, StopService(s) PROVE ServiceStep(s)
  BY <1>9 DEF StopService, ServiceStep
<1>10. CASE ReceiveSignal
  BY <1>10 DEF ReceiveSignal, Elsewhere
<1>11. CASE SessionEnds /\ UNCHANGED <<main_vars, orchestrator_vars>>
  BY <1>11 DEF SessionEnds, Elsewhere
<1>12. ASSUME NEW s \in Service, phase # "exited", LoopDies(s),
              UNCHANGED <<main_vars, auth_vars, shutdown_event>>
       PROVE  ServiceStep(s)
  BY <1>12 DEF ServiceStep
<1> QED
  BY <1>0, <1>1, <1>2, <1>3, <1>4, <1>5, <1>6, <1>7, <1>7a, <1>7b, <1>8, <1>9, <1>10, <1>11,
     <1>12 DEF Next, MainStep, Environment, CheckStep

-----------------------------------------------------------------------------
(* The parts of the invariant.                                             *)

(***************************************************************************)
(* Starting a service changes the starting point of that service only, and *)
(* stopping one or losing its loop changes no starting point.              *)
(***************************************************************************)
LEMMA StartPointFrame ==
    ASSUME TypeOK, NEW s \in Service, ServiceStep(s), NEW r \in Service
    PROVE  /\ \/ start_pc' = start_pc
              \/ /\ phase = "starting" /\ Len(started) < Len(Gated)
                 /\ s = NextService(Len(started)) /\ start_pc[s] # "done"
           /\ r # s => start_pc'[r] = start_pc[r]
<1> USE DEF TypeOK, OrchestratorTypeOK
<1>1. CASE BeginStart(s) \/ StartStep(s)
  BY <1>1 DEF ServiceStep, BeginStart, StartStep, StartProducers, StartConsumers,
              FinishLoading, StartRaises, StopStep, StopLoops, StopConsumers,
              StopConsumersRaises, StopProducers, LoopDies
<1>2. CASE StopStep(s)
  BY <1>2 DEF StopStep, StopLoops, StopConsumers, StopConsumersRaises, StopProducers
<1>3. CASE LoopDies(s)
  BY <1>3 DEF LoopDies
<1> QED
  BY <1>1, <1>2, <1>3 DEF ServiceStep

(***************************************************************************)
(* initialize sets the profile before it says AUTHENTICATED, and never     *)
(* takes the profile back.                                                 *)
(***************************************************************************)
LEMMA ProfileFirst ==
    ASSUME AuthTypeOK, auth_status = "AUTHENTICATED" \/ auth_pc = "save" => profile,
           BeginAuth(credentials) \/ AuthStep
    PROVE  (auth_status = "AUTHENTICATED" \/ auth_pc = "save" => profile)'
<1> USE DEF AuthTypeOK, AuthFails, BeginPrompt
<1>1. CASE BeginAuth(credentials)
  BY <1>1 DEF BeginAuth
<1>2. CASE LoadSession \/ LoadSessionFails
  BY <1>2 DEF LoadSession, LoadSessionFails
<1>3. CASE ValidateSession \/ RefuseSession \/ RefuseSessionFails
  BY <1>3 DEF ValidateSession, RefuseSession, RefuseSessionFails
<1>4. CASE EnterToken \/ NoToken \/ PromptCancelled
  BY <1>4 DEF EnterToken, NoToken, PromptCancelled
<1>5. CASE GenerateSession \/ TokenRefused
  BY <1>5 DEF GenerateSession, TokenRefused
<1>6. CASE SaveSession \/ SaveSessionFails
  BY <1>6 DEF SaveSession, SaveSessionFails
<1> QED
  BY <1>1, <1>2, <1>3, <1>4, <1>5, <1>6 DEF AuthStep

(***************************************************************************)
(* A passed check is not belied by the second initialize.                  *)
(***************************************************************************)
LEMMA StepChecksSpeakTrue ==
    ASSUME TypeOK, ChecksSpeakTrue, [Next]_vars
    PROVE  ChecksSpeakTrue'
<1> USE DEF ChecksSpeakTrue, BeforeStart, main_vars, check_vars, auth_vars
<1>1. CASE ShutdownBegins
  BY <1>1 DEF ShutdownBegins, BeginShutdown
<1>2. CASE PhaseStep
  BY <1>2 DEF PhaseStep
<1>3. ASSUME NEW s \in Service, ServiceStep(s) PROVE ChecksSpeakTrue'
  BY <1>3 DEF ServiceStep
<1>4. CASE UNCHANGED <<phase, checks, auth_status, profile, auth_pc>>
  BY <1>4
<1>5. CASE StartAuth
  <2>1. phase = "auth" /\ UNCHANGED <<phase, checks>>
    BY <1>5 DEF StartAuth
  <2>2. (auth_status = "AUTHENTICATED" \/ auth_pc = "save" => profile)'
    BY <1>5, ProfileFirst DEF StartAuth, TypeOK
  <2> QED
    BY <2>1, <2>2
<1>6. CASE CheckStep
  <2> USE DEF TypeOK, Conclude, Check, SessionConfirmed
  <2>1. CASE CheckAuthentication
    <3>1. checks["broker_api"] # "waiting"
      BY <2>1 DEF CheckAuthentication
    <3> QED
      BY <2>1, <3>1 DEF CheckAuthentication
  <2>2. CASE CheckBrokerApi /\ auth_status = "AUTHENTICATED"
    BY <2>2 DEF CheckBrokerApi
  <2>3. CASE CheckBrokerApi /\ auth_status # "AUTHENTICATED"
    <3>1. (auth_status = "AUTHENTICATED" \/ auth_pc = "save" => profile)'
      BY <2>3, ProfileFirst DEF CheckBrokerApi
    <3> QED
      BY <2>3, <3>1 DEF CheckBrokerApi
  <2>4. CASE AuthenticateAgain
    <3>1. (auth_status = "AUTHENTICATED" \/ auth_pc = "save" => profile)'
      BY <2>4, ProfileFirst DEF AuthenticateAgain
    <3> QED
      BY <2>4, <3>1 DEF AuthenticateAgain
  <2>5. CASE BrokerApiChecked
    BY <2>5 DEF BrokerApiChecked
  <2>6. ASSUME NEW ok \in BOOLEAN, CheckOthers(ok) PROVE ChecksSpeakTrue'
    BY <2>6 DEF CheckOthers
  <2> QED
    BY <1>6, <2>1, <2>2, <2>3, <2>4, <2>5, <2>6 DEF CheckStep
<1>7. CASE ServiceStarted
  BY <1>7 DEF ServiceStarted
<1> QED
  BY <1>1, <1>2, <1>3, <1>4, <1>5, <1>6, <1>7, StepKinds DEF Elsewhere

(***************************************************************************)
(* No service begins to start without an authenticated session.            *)
(***************************************************************************)
LEMMA StepAuthenticatedFirst ==
    ASSUME TypeOK, ChecksSpeakTrue, AuthenticatedFirst, [Next]_vars
    PROVE  AuthenticatedFirst'
<1> USE DEF AuthenticatedFirst, ServicesNeedAuthentication, SessionConfirmed, BeforeStart,
            main_vars, check_vars, auth_vars, orchestrator_vars
<1>1. CASE ShutdownBegins
  BY <1>1 DEF ShutdownBegins, BeginShutdown
<1>2. CASE PhaseStep
  BY <1>2 DEF PhaseStep, ChecksSpeakTrue, Check
<1>3. ASSUME NEW s \in Service, ServiceStep(s) PROVE AuthenticatedFirst'
  BY <1>3, StartPointFrame DEF ServiceStep
<1>4. CASE Elsewhere
  <2>1. UNCHANGED <<phase, start_pc>>
    BY <1>4 DEF Elsewhere
  <2>2. CASE UNCHANGED <<checks, auth_status, profile>>
    BY <2>1, <2>2
  <2>3. CASE StartAuth
    BY <2>1, <2>3 DEF StartAuth
  <2>4. CASE CheckStep
    <3> USE <2>1 DEF TypeOK, Conclude, Check
    <3>1. CASE CheckAuthentication \/ CheckBrokerApi
      BY <3>1 DEF CheckAuthentication, CheckBrokerApi
    <3>2. CASE AuthenticateAgain
      BY <3>2 DEF AuthenticateAgain
    <3>3. CASE BrokerApiChecked
      BY <3>3 DEF BrokerApiChecked
    <3>4. ASSUME NEW ok \in BOOLEAN, CheckOthers(ok) PROVE AuthenticatedFirst'
      BY <3>4 DEF CheckOthers
    <3> QED
      BY <2>4, <3>1, <3>2, <3>3, <3>4 DEF CheckStep
  <2> QED
    BY <1>4, <2>2, <2>3, <2>4 DEF Elsewhere
<1>5. CASE ServiceStarted
  BY <1>5 DEF ServiceStarted
<1> QED
  BY <1>1, <1>2, <1>3, <1>4, <1>5, StepKinds

(***************************************************************************)
(* The list of started services grows in the order of the gated ones.      *)
(***************************************************************************)
LEMMA StepStartedInOrder ==
    ASSUME TypeOK, StartedInOrder, [Next]_vars
    PROVE  StartedInOrder'
<1> USE DEF StartedInOrder, BeforeStart, main_vars, check_vars, orchestrator_vars
<1>1. CASE ShutdownBegins
  BY <1>1 DEF ShutdownBegins, BeginShutdown
<1>2. CASE PhaseStep
  BY <1>2 DEF PhaseStep
<1>3. ASSUME NEW s \in Service, ServiceStep(s) PROVE StartedInOrder'
  <2>1. CASE start_pc' = start_pc
    BY <1>3, <2>1 DEF ServiceStep
  <2>2. CASE /\ phase = "starting" /\ Len(started) < Len(Gated)
             /\ s = NextService(Len(started)) /\ start_pc[s] # "done"
    <3>1. UNCHANGED main_vars
      BY <1>3 DEF ServiceStep
    <3>2. Len(started) + 1 \in 1..Len(Gated) /\ s = Gated[Len(started) + 1]
      BY <2>2, NextServiceType DEF NextService
    <3>3. ASSUME NEW n \in 1..Len(started)
          PROVE  started'[n] = Gated[n] /\ start_pc'[Gated[n]] = "done"
      <4>1. Gated[n] \in Service /\ n \in 1..Len(Gated)
        BY LifespanAssumption, <3>2 DEF TypeOK
      <4>2. Gated[n] # s
        BY <2>2, <3>3
      <4> QED
        BY <1>3, <3>1, <4>1, <4>2, StartPointFrame
    <3>4. ASSUME NEW r \in Service, start_pc'[r] # "none"
          PROVE  \E n \in 1..Len(Gated) : n <= Len(started) + 1 /\ r = Gated[n]
      <4>1. CASE r = s
        BY <4>1, <3>2
      <4>2. CASE r # s
        BY <4>2, <1>3, <3>4, StartPointFrame
      <4> QED
        BY <4>1, <4>2
    <3> QED
      BY <2>2, <3>1, <3>3, <3>4
  <2> QED
    BY <1>3, <2>1, <2>2, StartPointFrame
<1>4. CASE Elsewhere
  BY <1>4 DEF Elsewhere
<1>5. CASE ServiceStarted
  <2> DEFINE s == NextService(Len(started))
  <2>1. /\ started' = Append(started, s)
        /\ start_pc' = start_pc /\ start_pc[s] = "done" /\ phase' = "starting"
        /\ Len(started) < Len(Gated)
    BY <1>5 DEF ServiceStarted
  <2>2. /\ Len(started) \in Nat
        /\ Len(started) + 1 \in 1..Len(Gated)
        /\ s = Gated[Len(started) + 1]
    BY <2>1, NextServiceType DEF NextService
  <2>3. /\ Len(started') = Len(started) + 1
        /\ started'[Len(started) + 1] = s
        /\ \A n \in 1..Len(started) : started'[n] = started[n]
    BY <2>1, NextServiceType DEF TypeOK
  <2>4. Len(started') <= Len(Gated)
    BY <2>2, <2>3
  <2>5. ASSUME NEW n \in 1..Len(started')
        PROVE  started'[n] = Gated[n] /\ start_pc'[Gated[n]] = "done"
    <3>1. CASE n = Len(started) + 1
      BY <3>1, <2>1, <2>2, <2>3
    <3>2. CASE n \in 1..Len(started)
      BY <3>2, <2>1, <2>3
    <3> QED
      BY <2>2, <2>3, <3>1, <3>2
  <2>6. ASSUME NEW r \in Service, start_pc'[r] # "none"
        PROVE  \E n \in 1..Len(Gated) : n <= Len(started') + 1 /\ r = Gated[n]
    BY <2>1, <2>2, <2>3, <2>6
  <2> QED
    BY <2>1, <2>4, <2>5, <2>6
<1> QED
  BY <1>1, <1>2, <1>3, <1>4, <1>5, StepKinds

(***************************************************************************)
(* Before the shutdown, what is open follows from how far each start came. *)
(***************************************************************************)
LEMMA StepOpenAsStarted ==
    ASSUME TypeOK, OpenAsStarted, [Next]_vars
    PROVE  OpenAsStarted'
<1> USE DEF OpenAsStarted, BeforeStart, BeforeStop, main_vars, check_vars, orchestrator_vars
<1>1. CASE ShutdownBegins
  BY <1>1 DEF ShutdownBegins, BeginShutdown
<1>2. CASE PhaseStep
  BY <1>2 DEF PhaseStep
<1>3. ASSUME NEW s \in Service, ServiceStep(s) PROVE OpenAsStarted'
  <2> USE DEF TypeOK, OrchestratorTypeOK
  <2>1. CASE phase = "starting" /\ BeginStart(s)
    BY <1>3, <2>1 DEF ServiceStep, BeginStart
  <2>2. CASE phase = "starting" /\ StartStep(s)
    BY <1>3, <2>2 DEF ServiceStep, StartStep, StartProducers, StartConsumers, FinishLoading,
                      StartRaises
  <2>3. CASE phase \in {"stopping", "closing"} /\ StopStep(s)
    BY <1>3, <2>3 DEF ServiceStep, StopStep, StopLoops, StopConsumers, StopConsumersRaises,
                      StopProducers
  <2>4. CASE LoopDies(s)
    BY <1>3, <2>4 DEF ServiceStep, LoopDies
  <2> QED
    BY <1>3, <2>1, <2>2, <2>3, <2>4 DEF ServiceStep
<1>4. CASE Elsewhere
  BY <1>4 DEF Elsewhere
<1>5. CASE ServiceStarted
  BY <1>5 DEF ServiceStarted
<1> QED
  BY <1>1, <1>2, <1>3, <1>4, <1>5, StepKinds

(***************************************************************************)
(* When the shutdown begins, every service whose start came to its end is  *)
(* in _started_services, so it is told to stop, and no start is under way. *)
(***************************************************************************)
LEMMA ShutdownReachesStarted ==
    ASSUME TypeOK, AuthenticatedFirst, StartedInOrder, OpenAsStarted, ShutdownBegins,
           NEW s \in Service
    PROVE  /\ start_pc[s] \in {"none", "done", "raised"}
           /\ start_pc[s] = "done" => stop_pc'[s] = "loops"
<1>1. CASE start_pc[s] = "none"
  BY <1>1
<1>2. CASE start_pc[s] # "none"
  <2>1. PICK n \in 1..Len(Gated) : n <= Len(started) + 1 /\ s = Gated[n]
    BY <1>2 DEF StartedInOrder
  <2>2. phase \in {"starting", "running"}
    BY <1>2 DEF ShutdownBegins, AuthenticatedFirst
  <2>3. Len(started) \in Nat /\ Len(Gated) \in Nat
    BY LifespanAssumption DEF TypeOK
  <2>4. CASE n = Len(started) + 1
    <3>1. phase = "starting"
      BY <2>2, <2>3, <2>4 DEF StartedInOrder
    <3>2. start_pc[s] = "raised"
      BY <2>1, <2>4, <3>1 DEF ShutdownBegins, NextService, BeforeStart
    <3> QED
      BY <3>2
  <2>5. CASE n \in 1..Len(started)
    <3>1. started[n] = s /\ start_pc[s] = "done"
      BY <2>1, <2>5 DEF StartedInOrder
    <3>2. s \in Elements(started) /\ started # <<>>
      BY <3>1, <2>5 DEF Elements, TypeOK
    <3>3. running[s]
      BY <2>2, <3>1 DEF OpenAsStarted, BeforeStop
    <3>4. stop_pc'[s] = StopEntry(s)
      BY <3>2 DEF ShutdownBegins, BeginShutdown
    <3> QED
      BY <3>1, <3>3, <3>4 DEF StopEntry
  <2> QED
    BY <2>1, <2>3, <2>4, <2>5
<1> QED
  BY <1>1, <1>2

(***************************************************************************)
(* During the shutdown, what is open follows from how far each stop came.  *)
(***************************************************************************)
LEMMA StepOpenAsStopped ==
    ASSUME TypeOK, AuthenticatedFirst, StartedInOrder, OpenAsStarted, OpenAsStopped,
           [Next]_vars
    PROVE  OpenAsStopped'
<1> USE DEF OpenAsStopped, BeforeStart, BeforeStop, main_vars, check_vars, orchestrator_vars
<1>1. CASE ShutdownBegins
  <2>1. start_pc' = start_pc /\ up' = up
    BY <1>1 DEF ShutdownBegins, BeginShutdown
  <2> QED
    BY <1>1, <2>1, ShutdownReachesStarted
<1>2. CASE PhaseStep
  BY <1>2 DEF PhaseStep
<1>3. ASSUME NEW s \in Service, ServiceStep(s) PROVE OpenAsStopped'
  <2> USE DEF TypeOK, OrchestratorTypeOK
  <2>1. CASE phase = "starting"
    BY <1>3, <2>1 DEF ServiceStep
  <2>2. CASE phase \in {"stopping", "closing"} /\ StopStep(s)
    <3> USE <1>3, <2>2 DEF ServiceStep
    <3>1. CASE StopLoops(s)
      BY <3>1 DEF StopLoops
    <3>2. CASE StopConsumers(s)
      BY <3>2 DEF StopConsumers, Part
    <3>3. CASE StopConsumersRaises(s)
      BY <3>3 DEF StopConsumersRaises
    <3>4. CASE StopProducers(s)
      BY <3>4 DEF StopProducers
    <3> QED
      BY <3>1, <3>2, <3>3, <3>4 DEF StopStep
  <2>3. CASE LoopDies(s)
    BY <1>3, <2>3 DEF ServiceStep, LoopDies
  <2> QED
    BY <1>3, <2>1, <2>2, <2>3 DEF ServiceStep
<1>4. CASE Elsewhere
  BY <1>4 DEF Elsewhere
<1>5. CASE ServiceStarted
  BY <1>5 DEF ServiceStarted
<1> QED
  BY <1>1, <1>2, <1>3, <1>4, <1>5, StepKinds

(***************************************************************************)
(* A stop that has returned or raised is not taken up again.               *)
(***************************************************************************)
LEMMA StepStopsAwaited ==
    ASSUME TypeOK, StopsAwaited, [Next]_vars
    PROVE  StopsAwaited'
<1> USE DEF StopsAwaited, SomeStopRaised, BeforeStart, main_vars, check_vars, orchestrator_vars
<1>1. CASE ShutdownBegins
  BY <1>1 DEF ShutdownBegins, BeginShutdown
<1>2. CASE PhaseStep
  BY <1>2 DEF PhaseStep
<1>3. ASSUME NEW s \in Service, ServiceStep(s) PROVE StopsAwaited'
  <2> USE DEF TypeOK, OrchestratorTypeOK
  <2>1. CASE phase = "starting"
    BY <1>3, <2>1 DEF ServiceStep
  <2>2. CASE phase \in {"stopping", "closing"} /\ StopStep(s)
    BY <1>3, <2>2 DEF ServiceStep, StopStep, StopLoops, StopConsumers, StopConsumersRaises,
                      StopProducers
  <2>3. CASE LoopDies(s)
    BY <1>3, <2>3 DEF ServiceStep, LoopDies
  <2> QED
    BY <1>3, <2>1, <2>2, <2>3 DEF ServiceStep
<1>4. CASE Elsewhere
  BY <1>4 DEF Elsewhere
<1>5. CASE ServiceStarted
  BY <1>5 DEF ServiceStarted
<1> QED
  BY <1>1, <1>2, <1>3, <1>4, <1>5, StepKinds

-----------------------------------------------------------------------------
(* The theorems.                                                           *)

\* The invariant holds before main() has done anything.
LEMMA InitInv == Init => LifecycleInv
<1> SUFFICES ASSUME Init PROVE LifecycleInv
  OBVIOUS
<1>1. TypeOK
  BY InitTypes
<1>2. /\ phase = "config" /\ started = <<>> /\ Len(started) = 0
      /\ \A s \in Service : start_pc[s] = "none" /\ stop_pc[s] = "none" /\ up[s] = {}
      /\ auth_status = "UNAUTHENTICATED" /\ auth_pc = "off"
      /\ \A c \in Check : checks[c] = "none"
  BY DEF Init, OrchestratorInit, AuthInit
<1> QED
  BY <1>1, <1>2, LifespanAssumption
     DEF LifecycleInv, ChecksSpeakTrue, AuthenticatedFirst, ServicesNeedAuthentication,
         StartedInOrder, OpenAsStarted, OpenAsStopped, StopsAwaited, BeforeStart, BeforeStop, Check

\* Every step keeps it, part by part.
LEMMA StepInv == LifecycleInv /\ [Next]_vars => LifecycleInv'
BY StepTypes, StepChecksSpeakTrue, StepAuthenticatedFirst, StepStartedInOrder,
   StepOpenAsStarted, StepOpenAsStopped, StepStopsAwaited DEF LifecycleInv

\* So it holds throughout.
LEMMA InvHolds == Spec => []LifecycleInv
BY InitInv, StepInv, PTL DEF Spec

(***************************************************************************)
(* No service of app/main.py begins to start before Zerodha has confirmed  *)
(* the session, although startup() ignores what initialize returns and     *)
(* relies on the health checks alone, one of which may run initialize      *)
(* again while the others judge the session.                               *)
(***************************************************************************)
THEOREM StartsAreAuthenticated == Spec => []ServicesNeedAuthentication
<1>1. LifecycleInv => ServicesNeedAuthentication
  BY DEF LifecycleInv, AuthenticatedFirst
<1> QED
  BY <1>1, InvHolds, PTL

(***************************************************************************)
(* The process ends with nothing open of a service that was started, or    *)
(* that never was, unless a stop raised and gather gave up on the others.  *)
(***************************************************************************)
THEOREM ExitIsClean == Spec => []CleanExit
<1>1. LifecycleInv => CleanExit
  <2> SUFFICES ASSUME LifecycleInv, phase = "exited", NEW s \in Service, up[s] # {},
                      start_pc[s] # "raised"
               PROVE  SomeStopRaised
    BY DEF CleanExit
  <2>1. start_pc[s] = "done"
    BY DEF LifecycleInv, OpenAsStarted, OpenAsStopped, BeforeStop, BeforeStart
  <2>2. stop_pc[s] \notin {"none", "done"}
    BY <2>1 DEF LifecycleInv, OpenAsStopped, BeforeStop, BeforeStart
  <2> QED
    BY <2>2 DEF LifecycleInv, StopsAwaited
<1> QED
  BY <1>1, InvHolds, PTL

=============================================================================
