------------------------- MODULE ServiceOrchestrator -------------------------
(***************************************************************************)
(* core/streaming/orchestration/service_orchestrator.py with the producer  *)
(* and consumer wrappers: how the Kafka clients and the consumption loops  *)
(* of each service come up and go down, one action per await.              *)
(***************************************************************************)
EXTENDS FaultBudget

CONSTANTS
    Service,
    LoadsAfterwards   \* services whose start() awaits more after their
                      \* orchestrator's

ASSUME ServiceAssumption == LoadsAfterwards \subseteq Service

VARIABLES
    up,        \* what each service has open
    running,   \* _running of each orchestrator
    start_pc,  \* the await of start() each service is suspended at
    stop_pc    \* the await of stop() each service is suspended at

orchestrator_vars == <<up, running, start_pc, stop_pc>>

Part == {"producer", "consumer", "loop"}
StartPoint == {"none", "producer", "consumer", "load", "done", "raised"}
StopPoint == {"none", "loops", "consumers", "producers", "done", "raised"}

OrchestratorTypeOK ==
    /\ up \in [Service -> SUBSET Part]
    /\ running \in [Service -> BOOLEAN]
    /\ start_pc \in [Service -> StartPoint]
    /\ stop_pc \in [Service -> StopPoint]

OrchestratorInit ==
    /\ up = [s \in Service |-> {}]
    /\ running = [s \in Service |-> FALSE]
    /\ start_pc = [s \in Service |-> "none"]
    /\ stop_pc = [s \in Service |-> "none"]

-----------------------------------------------------------------------------
(* start().                                                                *)

BeginStart(s) ==
    /\ start_pc[s] = "none"
    /\ start_pc' = [start_pc EXCEPT ![s] = "producer"]
    /\ UNCHANGED <<up, running, stop_pc, faults>>

StartProducers(s) ==
    /\ start_pc[s] = "producer"
    /\ up' = [up EXCEPT ![s] = @ \cup {"producer"}]
    /\ start_pc' = [start_pc EXCEPT ![s] = "consumer"]
    /\ UNCHANGED <<running, stop_pc, faults>>

\* The consumers, then without another await the loops and _running.
StartConsumers(s) ==
    /\ start_pc[s] = "consumer"
    /\ up' = [up EXCEPT ![s] = @ \cup {"consumer", "loop"}]
    /\ running' = [running EXCEPT ![s] = TRUE]
    /\ start_pc' = [start_pc EXCEPT ![s] = IF s \in LoadsAfterwards THEN "load" ELSE "done"]
    /\ UNCHANGED <<stop_pc, faults>>

FinishLoading(s) ==
    /\ start_pc[s] = "load"
    /\ start_pc' = [start_pc EXCEPT ![s] = "done"]
    /\ UNCHANGED <<up, running, stop_pc, faults>>

\* Whatever start() awaits raises; what was opened before stays open.
StartRaises(s) ==
    /\ start_pc[s] \in {"producer", "consumer", "load"}
    /\ Fault
    /\ start_pc' = [start_pc EXCEPT ![s] = "raised"]
    /\ UNCHANGED <<up, running, stop_pc>>

StartStep(s) == StartProducers(s) \/ StartConsumers(s) \/ FinishLoading(s) \/ StartRaises(s)

\* _consumption_loop raises: its task ends and nobody is told.
LoopDies(s) ==
    /\ "loop" \in up[s]
    /\ Fault
    /\ up' = [up EXCEPT ![s] = @ \ {"loop"}]
    /\ UNCHANGED <<running, start_pc, stop_pc>>

-----------------------------------------------------------------------------
(* stop().                                                                 *)

\* What a call of stop() does before its first await: an orchestrator that is
\* not running has nothing to stop.
StopEntry(s) == IF running[s] THEN "loops" ELSE "done"

StopLoops(s) ==
    /\ stop_pc[s] = "loops"
    /\ up' = [up EXCEPT ![s] = @ \ {"loop"}]
    /\ stop_pc' = [stop_pc EXCEPT ![s] = "consumers"]
    /\ UNCHANGED <<running, start_pc, faults>>

StopConsumers(s) ==
    /\ stop_pc[s] = "consumers"
    /\ up' = [up EXCEPT ![s] = @ \ {"consumer"}]
    /\ stop_pc' = [stop_pc EXCEPT ![s] = "producers"]
    /\ UNCHANGED <<running, start_pc, faults>>

\* A consumer that cannot be stopped ends stop().
StopConsumersRaises(s) ==
    /\ stop_pc[s] = "consumers"
    /\ Fault
    /\ stop_pc' = [stop_pc EXCEPT ![s] = "raised"]
    /\ UNCHANGED <<up, running, start_pc>>

\* Mutant of StopProducers: the producers are left to their finalisers.
StopProducersSkipped(s) ==
    /\ stop_pc[s] = "producers"
    /\ running' = [running EXCEPT ![s] = FALSE]
    /\ stop_pc' = [stop_pc EXCEPT ![s] = "done"]
    /\ UNCHANGED <<up, start_pc, faults>>

\* A producer that cannot be flushed or stopped is only logged.
StopProducers(s) ==
    /\ stop_pc[s] = "producers"
    /\ up' = [up EXCEPT ![s] = @ \ {"producer"}]
    /\ running' = [running EXCEPT ![s] = FALSE]
    /\ stop_pc' = [stop_pc EXCEPT ![s] = "done"]
    /\ UNCHANGED <<start_pc, faults>>

StopStep(s) == StopLoops(s) \/ StopConsumers(s) \/ StopConsumersRaises(s) \/ StopProducers(s)

=============================================================================
