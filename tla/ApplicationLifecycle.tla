------------------------ MODULE ApplicationLifecycle ------------------------
(***************************************************************************)
(* app/main.py: ApplicationOrchestrator.run, the start of the application, *)
(* its wait for a signal and its shutdown, composed of Authentication and  *)
(* one ServiceOrchestrator per streaming service.                          *)
(*                                                                         *)
(* Everything runs in one coroutine except the health checks, which        *)
(* run_checks gathers, and the stops of the services, which shutdown       *)
(* gathers.  A signal only sets the event: a start under way is not        *)
(* interrupted.                                                            *)
(***************************************************************************)
EXTENDS Authentication, ServiceOrchestrator, Sequences

CONSTANTS
    Lifespan,   \* lifespan_services in their order, without the auth service
    Gated       \* those of them whose trading is enabled and broker active

ASSUME LifespanAssumption ==
    /\ Lifespan \in Seq(Service)
    /\ Gated \in Seq(Service)
    /\ \A n \in DOMAIN Gated : \E m \in DOMAIN Lifespan : Lifespan[m] = Gated[n]
    /\ \A m, n \in DOMAIN Gated : Gated[m] = Gated[n] => m = n

VARIABLES
    phase,         \* where run() is
    db,            \* whether the database's connection pool is open
    started,       \* _started_services
    credentials,   \* whether the settings hold usable Zerodha credentials
    checks         \* how far each health check is

\* The two checks that look at the session, and the rest of the list as one.
Check == {"zerodha_auth", "broker_api", "others"}

check_vars == <<credentials, checks>>
main_vars == <<phase, db, started, check_vars>>
vars == <<main_vars, auth_vars, shutdown_event, orchestrator_vars, faults>>

Elements(seq) == {seq[n] : n \in DOMAIN seq}

TypeOK ==
    /\ AuthTypeOK
    /\ OrchestratorTypeOK
    /\ phase \in {"config", "database", "auth", "health", "starting", "running",
                  "cleanup", "stopping", "closing", "exited"}
    /\ db \in BOOLEAN
    /\ started \in Seq(Service)
    /\ credentials \in BOOLEAN
    /\ checks \in [Check -> {"none", "waiting", "passed", "failed"}]

Init ==
    /\ AuthInit
    /\ OrchestratorInit
    /\ phase = "config"
    /\ db = FALSE
    /\ started = <<>>
    /\ credentials \in BOOLEAN
    /\ checks = [c \in Check |-> "none"]

-----------------------------------------------------------------------------
(* startup().                                                              *)

\* The finally clause of run(): the services that were started, or all of them
\* when there is none, are told to stop.
BeginShutdown ==
    /\ phase' = "stopping"
    /\ LET services == IF started # <<>> THEN Elements(started) ELSE Elements(Lifespan) IN
       stop_pc' = [s \in Service |-> IF s \in services THEN StopEntry(s) ELSE "none"]
    /\ UNCHANGED <<started, up, running, start_pc>>

ValidateConfiguration(valid) ==
    /\ phase = "config"
    /\ phase' = IF valid THEN "database" ELSE "cleanup"
    /\ UNCHANGED <<db, started, check_vars, auth_vars, shutdown_event, orchestrator_vars, faults>>

\* sys.exit for the default secret key in production
RefuseDefaultSecret ==
    /\ phase = "config"
    /\ BeginShutdown
    /\ UNCHANGED <<db, check_vars, auth_vars, shutdown_event, faults>>

InitDatabase ==
    /\ phase = "database"
    /\ db' = TRUE
    /\ phase' = "auth"
    /\ UNCHANGED <<started, check_vars, auth_vars, shutdown_event, orchestrator_vars, faults>>

\* init or wait_for_ready raises.
InitDatabaseRaises ==
    /\ phase = "database"
    /\ Fault
    /\ db' = TRUE
    /\ BeginShutdown
    /\ UNCHANGED <<check_vars, auth_vars, shutdown_event>>

\* auth_service.start(): its result is not looked at.
StartAuth ==
    /\ phase = "auth"
    /\ (auth_pc = "off" /\ BeginAuth(credentials)) \/ AuthStep
    /\ UNCHANGED <<main_vars, orchestrator_vars>>

AuthStarted ==
    /\ phase = "auth"
    /\ auth_pc = "done"
    /\ phase' = "health"
    /\ UNCHANGED <<db, started, check_vars, auth_vars, shutdown_event, orchestrator_vars, faults>>

-----------------------------------------------------------------------------
(* run_checks: the gathered health checks.                                 *)

\* is_authenticated and get_current_user_profile, which has to ask Zerodha only
\* if a session were authenticated without its profile having been cached.
SessionConfirmed == auth_status = "AUTHENTICATED" /\ profile

Conclude(check, ok) ==
    checks' = [checks EXCEPT ![check] = IF ok THEN "passed" ELSE "failed"]

\* ZerodhaAuthenticationCheck.check: the first task of gather, without an await
\* that suspends it.
CheckAuthentication ==
    /\ phase = "health"
    /\ checks["zerodha_auth"] = "none"
    /\ Conclude("zerodha_auth", SessionConfirmed)
    /\ UNCHANGED <<phase, db, started, credentials, auth_vars, shutdown_event,
                   orchestrator_vars, faults>>

\* BrokerApiHealthCheck.check, a later task: without an authenticated session it
\* calls initialize again, with its prompt.
CheckBrokerApi ==
    /\ phase = "health"
    /\ checks["zerodha_auth"] # "none"
    /\ checks["broker_api"] = "none"
    /\ \/ /\ auth_status = "AUTHENTICATED"
          /\ Conclude("broker_api", SessionConfirmed)
          /\ UNCHANGED <<auth_vars, shutdown_event, faults>>
       \/ /\ auth_status # "AUTHENTICATED"
          /\ checks' = [checks EXCEPT !["broker_api"] = "waiting"]
          /\ BeginAuth(credentials)
    /\ UNCHANGED <<phase, db, started, credentials, orchestrator_vars>>

\* It goes on by itself when another check has raised.
AuthenticateAgain ==
    /\ phase \in {"health", "stopping", "closing"}
    /\ checks["broker_api"] = "waiting"
    /\ AuthStep
    /\ UNCHANGED <<main_vars, orchestrator_vars>>

BrokerApiChecked ==
    /\ phase \in {"health", "stopping", "closing"}
    /\ checks["broker_api"] = "waiting"
    /\ auth_pc = "done"
    /\ Conclude("broker_api", SessionConfirmed)
    /\ UNCHANGED <<phase, db, started, credentials, auth_vars, shutdown_event,
                   orchestrator_vars, faults>>

\* The checks of infrastructure, topics, strategies, models and market hours.
CheckOthers(ok) ==
    /\ phase = "health"
    /\ checks["others"] = "none"
    /\ Conclude("others", ok)
    /\ UNCHANGED <<phase, db, started, credentials, auth_vars, shutdown_event,
                   orchestrator_vars, faults>>

\* One of them raises at an await, when every check has begun, as when its client
\* cannot be closed: gather passes it on and waits for the other checks no longer.
CheckRaises ==
    /\ phase = "health"
    /\ checks["broker_api"] # "none"
    /\ checks["others"] = "none"
    /\ Fault
    /\ BeginShutdown
    /\ UNCHANGED <<db, check_vars, auth_vars, shutdown_event>>

\* Mutant of ChecksGathered: any result that passed will do.
ChecksGatheredAny ==
    /\ phase = "health"
    /\ \A c \in Check : checks[c] \in {"passed", "failed"}
    /\ phase' = IF \E c \in Check : checks[c] = "passed" THEN "starting" ELSE "cleanup"
    /\ UNCHANGED <<db, started, check_vars, auth_vars, shutdown_event, orchestrator_vars, faults>>

\* is_healthy: all results must have passed.
ChecksGathered ==
    /\ phase = "health"
    /\ \A c \in Check : checks[c] \in {"passed", "failed"}
    /\ phase' = IF \A c \in Check : checks[c] = "passed" THEN "starting" ELSE "cleanup"
    /\ UNCHANGED <<db, started, check_vars, auth_vars, shutdown_event, orchestrator_vars, faults>>

-----------------------------------------------------------------------------
(* startup(), after the checks.                                            *)

\* _cleanup_partial_initialization: no service is running yet, so their stops
\* come to nothing; the pool is closed unless that raises or takes too long.
CleanUp ==
    /\ phase = "cleanup"
    /\ \/ db' = FALSE /\ UNCHANGED faults
       \/ Fault /\ UNCHANGED db
    /\ BeginShutdown
    /\ UNCHANGED <<check_vars, auth_vars, shutdown_event>>

NextService(n) == Gated[n + 1]

\* The loop that starts the services one after another.
StartServices ==
    /\ phase = "starting"
    /\ Len(started) < Len(Gated)
    /\ LET s == NextService(Len(started)) IN BeginStart(s) \/ StartStep(s)
    /\ UNCHANGED <<main_vars, auth_vars, shutdown_event>>

ServiceStarted ==
    /\ phase = "starting"
    /\ Len(started) < Len(Gated)
    /\ start_pc[NextService(Len(started))] = "done"
    /\ started' = Append(started, NextService(Len(started)))
    /\ UNCHANGED <<phase, db, check_vars, auth_vars, shutdown_event, orchestrator_vars, faults>>

StartFailed ==
    /\ phase = "starting"
    /\ Len(started) < Len(Gated)
    /\ start_pc[NextService(Len(started))] = "raised"
    /\ BeginShutdown
    /\ UNCHANGED <<db, check_vars, auth_vars, shutdown_event, faults>>

AllStarted ==
    /\ phase = "starting"
    /\ Len(started) = Len(Gated)
    /\ phase' = "running"
    /\ UNCHANGED <<db, started, check_vars, auth_vars, shutdown_event, orchestrator_vars, faults>>

-----------------------------------------------------------------------------
(* shutdown().                                                             *)

\* _signal_handler
ReceiveSignal ==
    /\ phase # "exited"
    /\ ~shutdown_event
    /\ shutdown_event' = TRUE
    /\ UNCHANGED <<main_vars, auth_vars, orchestrator_vars, faults>>

\* Mutant of AwaitSignal: only a signal that arrives later is seen.
AwaitLaterSignal ==
    /\ phase = "running"
    /\ ~shutdown_event
    /\ shutdown_event' = TRUE
    /\ BeginShutdown
    /\ UNCHANGED <<db, check_vars, auth_vars, faults>>

AwaitSignal ==
    /\ phase = "running"
    /\ shutdown_event
    /\ BeginShutdown
    /\ UNCHANGED <<db, check_vars, auth_vars, shutdown_event, faults>>

\* The gathered stops run until all have returned or one has raised; after that
\* the others go on by themselves until the process exits.
StopService(s) ==
    /\ phase \in {"stopping", "closing"}
    /\ StopStep(s)
    /\ UNCHANGED <<main_vars, auth_vars, shutdown_event>>

StopsGathered ==
    /\ phase = "stopping"
    /\ \/ \A s \in Service : stop_pc[s] \in {"none", "done"}
       \/ \E s \in Service : stop_pc[s] = "raised"
    /\ phase' = "closing"
    /\ UNCHANGED <<db, started, check_vars, auth_vars, shutdown_event, orchestrator_vars, faults>>

\* shutdown_all_streaming_components knows no component, as nothing registers
\* one; the pool is closed and the process ends.
CloseDatabase ==
    /\ phase = "closing"
    /\ \/ db' = FALSE /\ UNCHANGED faults
       \/ Fault /\ UNCHANGED db
    /\ phase' = "exited"
    /\ UNCHANGED <<started, check_vars, auth_vars, shutdown_event, orchestrator_vars>>

-----------------------------------------------------------------------------

MainStep ==
    \/ \E valid \in BOOLEAN : ValidateConfiguration(valid)
    \/ RefuseDefaultSecret
    \/ InitDatabase \/ InitDatabaseRaises
    \/ StartAuth \/ AuthStarted
    \/ CheckAuthentication
    \/ CheckBrokerApi \/ AuthenticateAgain \/ BrokerApiChecked
    \/ \E ok \in BOOLEAN : CheckOthers(ok)
    \/ CheckRaises \/ ChecksGathered
    \/ CleanUp
    \/ StartServices \/ ServiceStarted \/ StartFailed \/ AllStarted
    \/ AwaitSignal
    \/ StopsGathered
    \/ CloseDatabase

Environment ==
    \/ ReceiveSignal
    \/ SessionEnds /\ UNCHANGED <<main_vars, orchestrator_vars>>
    \/ \E s \in Service : /\ phase # "exited"
                          /\ LoopDies(s)
                          /\ UNCHANGED <<main_vars, auth_vars, shutdown_event>>

Next == MainStep \/ (\E s \in Service : StopService(s)) \/ Environment

Spec == Init /\ [][Next]_vars

\* Every await of run() and of a stop ends: Kafka and database calls have
\* timeouts, and the prompt for a token gives up after 300 seconds.  Signals,
\* expiring sessions and dying loops are never due.
FairSpec ==
    /\ Spec
    /\ WF_vars(MainStep)
    /\ \A s \in Service : WF_vars(StopService(s))

-----------------------------------------------------------------------------
(* Correctness.                                                            *)

\* AuthManager.initialize: "system will not start without valid Zerodha
\* credentials".  startup() ignores what it returns, and a health check may call
\* it a second time while the others judge the session; still no service begins
\* to start before Zerodha has confirmed this process's session, and nothing
\* takes it back afterwards.
ServicesNeedAuthentication ==
    \A s \in Service :
        start_pc[s] # "none" => auth_status = "AUTHENTICATED" /\ profile

SomeStopRaised == \E s \in Service : stop_pc[s] = "raised"

\* The process never ends with a client open or a loop running of a service that
\* was started, unless a stop raised and gather gave up on the others, nor of one
\* that was never started: shutdown forgets only what a start that raised left.
CleanExit ==
    phase = "exited" =>
        \A s \in Service : up[s] # {} => start_pc[s] = "raised" \/ SomeStopRaised

\* Whatever has gone wrong before, a signal is followed by the end of the
\* process, and so is a start that failed.
ShutdownCompletes ==
    shutdown_event \/ phase \in {"cleanup", "stopping"} ~> phase = "exited"

=============================================================================
