------------------------- MODULE PipelineMonitoring -------------------------
(***************************************************************************)
(* core/monitoring: the services record their activity in Redis under keys *)
(* with a time to live (PipelineMetricsCollector); in the API's process    *)
(* PipelineMonitor runs one PipelineValidator per active broker after      *)
(* another and publishes what they find.                                   *)
(*                                                                         *)
(* The validator reads the keys stage by stage, while the services go on   *)
(* recording, time passes and the market opens or closes.  How long the    *)
(* monitor sleeps between cycles and after a failure is left open, and so  *)
(* is its count of consecutive failures, which decides nothing else.       *)
(***************************************************************************)
EXTENDS MarketHours, FaultBudget, Sequences, FiniteSets

CONSTANTS
    ActiveBrokers,    \* settings.active_brokers, in order
    TradingEnabled,   \* those whose trading service is enabled
    StrategyCount,    \* number of strategies that target each of them
    None,
    MetricsTtl,                    \* metrics_ttl
    TickLatency, SignalLatency,    \* thresholds
    GracePeriod,                   \* startup_grace_period_seconds
    FirstMoment, LastMoment, MaxRecords   \* bounds

Broker == {ActiveBrokers[n] : n \in DOMAIN ActiveBrokers}

ASSUME MonitoringAssumption ==
    /\ ActiveBrokers \in Seq(Broker) /\ ActiveBrokers # <<>>
    /\ Cardinality(Broker) = Len(ActiveBrokers)
    /\ TradingEnabled \subseteq Broker
    /\ StrategyCount \in [Broker -> Nat]
    /\ MetricsTtl \in Nat \ {0}
    /\ {TickLatency, SignalLatency, GracePeriod, MaxRecords, FirstMoment, LastMoment} \subseteq Nat
    /\ TickLatency < MetricsTtl /\ SignalLatency < MetricsTtl
    /\ FirstMoment <= LastMoment
    /\ None \notin Nat

Moment == FirstMoment..LastMoment

\* The keys of MetricsRegistry that a validator reads; ticks are shared by the
\* brokers, and of a broker that does not trade only the validated signals are read.
Ticks == <<"market_ticks", "market">>
Key ==
    {Ticks} \cup ({"signals_validated"} \X Broker)
            \cup ({"strategies", "signals", "orders", "portfolio_updates"} \X TradingEnabled)

Stage == {"market_data", "signal_generation", "risk_validation", "order_execution",
          "portfolio_updates"}

Verdict == {"startup", "error", "idle", "healthy", "warning", "degraded", "critical"}
Report == [verdict : Verdict, begun : Moment, at : Moment]

ASSUME NoneIsNoReport == None \notin Report

VARIABLES
    now,
    last,        \* Redis: when each key was last set
    records,     \* bound: activities recorded so far
    start_time,  \* PipelineValidator.start_time
    mon_pc,      \* where _monitoring_loop is suspended
    turn,        \* the broker being validated, as an index of ActiveBrokers
    begun,       \* when its validation began, None when there is none under way
    healthy,     \* stages found healthy
    results,     \* all_results: the verdicts of this cycle
    overall_healthy,
    published,   \* Redis: pipeline:validation:{broker}
    aggregate    \* Redis: pipeline:validation:aggregated

redis_vars == <<published, aggregate>>
cycle_vars == <<turn, begun, healthy, results, overall_healthy>>
vars == <<now, last, records, start_time, mon_pc, cycle_vars, redis_vars, faults>>

\* The API has just started the monitor.
Init ==
    /\ now = FirstMoment
    /\ last = [k \in Key |-> None]
    /\ records = 0
    /\ start_time = FirstMoment
    /\ mon_pc = "validate"
    /\ turn = 1
    /\ begun = None
    /\ healthy = {}
    /\ results = [b \in Broker |-> None]
    /\ overall_healthy = TRUE
    /\ published = [b \in Broker |-> None]
    /\ aggregate = None
    /\ faults = 0

-----------------------------------------------------------------------------
(* The services.                                                           *)

Advance ==
    /\ now < LastMoment
    /\ now' = now + 1
    /\ UNCHANGED <<last, records, start_time, mon_pc, cycle_vars, redis_vars, faults>>

\* record_market_tick, record_signal_generated, record_signal_validated,
\* record_order_processed, record_portfolio_update; when Redis fails, nothing is
\* recorded and nobody notices.
RecordActivity(k) ==
    /\ k[1] # "strategies"
    /\ records < MaxRecords
    /\ records' = records + 1
    /\ last' = [last EXCEPT ![k] = now]
    /\ UNCHANGED <<now, start_time, mon_pc, cycle_vars, redis_vars, faults>>

\* set_strategy_count: only when the strategy runner has loaded its strategies.
RecordStrategies ==
    /\ \A b \in TradingEnabled : last[<<"strategies", b>>] = None
    /\ last' = [k \in Key |-> IF k[1] = "strategies" THEN now ELSE last[k]]
    /\ UNCHANGED <<now, records, start_time, mon_pc, cycle_vars, redis_vars, faults>>

\* What redis.get finds.
Present(k) == last[k] # None /\ now - last[k] < MetricsTtl

Age(k) == now - last[k]

-----------------------------------------------------------------------------
(* PipelineValidator.validate_end_to_end_flow, for the broker whose turn   *)
(* it is.                                                                  *)

broker == ActiveBrokers[turn]
trading_enabled == broker \in TradingEnabled

Fine == {"healthy", "warning", "startup", "idle"}

\* Mutant of Return: the last broker decides.
ReturnLast(v) ==
    /\ healthy' = {}
    /\ results' = [results EXCEPT ![broker] = v]
    /\ overall_healthy' = (v \in Fine)
    /\ mon_pc' = "store"

\* The validator returns; the loop takes note of its verdict and stores it.
Return(v) ==
    /\ healthy' = {}
    /\ results' = [results EXCEPT ![broker] = v]
    /\ overall_healthy' = (overall_healthy /\ v \in Fine)
    /\ mon_pc' = "store"

Validating == <<now, last, records, start_time, turn, redis_vars>>

BeginValidation ==
    /\ mon_pc = "validate"
    /\ begun' = now
    /\ IF now - start_time < GracePeriod
       THEN Return("startup")
       ELSE mon_pc' = "ping" /\ UNCHANGED <<healthy, results, overall_healthy>>
    /\ UNCHANGED <<Validating, faults>>

\* In an idle market the stages are listed, but none of them decides anything.
Ping ==
    /\ mon_pc = "ping"
    /\ IF is_market_open(now)
       THEN mon_pc' = "market_data" /\ UNCHANGED <<healthy, results, overall_healthy>>
       ELSE Return("idle")
    /\ UNCHANGED <<Validating, begun, faults>>

PingRaises ==
    /\ mon_pc = "ping"
    /\ Fault
    /\ Return("error")
    /\ UNCHANGED <<Validating, begun>>

\* A stage has its result, and the validator goes on.
Judge(stage, good, next_pc) ==
    /\ healthy' = IF good THEN healthy \cup {stage} ELSE healthy
    /\ mon_pc' = next_pc
    /\ UNCHANGED <<Validating, begun, results, overall_healthy>>

Await(next_pc) ==
    /\ mon_pc' = next_pc
    /\ UNCHANGED <<Validating, begun, healthy, results, overall_healthy>>

ValidateMarketData ==
    /\ mon_pc = "market_data"
    /\ \/ /\ Judge("market_data",
                   is_market_open(now) => Present(Ticks) /\ Age(Ticks) <= TickLatency,
                   "strategies")
          /\ UNCHANGED faults
       \/ /\ is_market_open(now)
          /\ Fault
          /\ Judge("market_data", FALSE, "strategies")

\* Nobody is expected to send signals when no strategy is counted.
NoneCounted == ~Present(<<"strategies", broker>>) \/ StrategyCount[broker] = 0

(***************************************************************************)
(* The first part of _validate_signal_generation.  The import inside the   *)
(* function makes MetricsRegistry a local name: where the first branch is  *)
(* not taken, its use raises and the stage is unhealthy.  When the count   *)
(* cannot be read, the signals are looked at.                              *)
(***************************************************************************)
ValidateStrategies ==
    /\ mon_pc = "strategies"
    /\ LET expected == is_market_open(now) /\ trading_enabled IN
       \/ /\ ~expected
          /\ Judge("signal_generation", FALSE, "risk")
          /\ UNCHANGED faults
       \/ /\ expected
          /\ IF NoneCounted THEN Judge("signal_generation", TRUE, "risk") ELSE Await("signals")
          /\ UNCHANGED faults
       \/ expected /\ Fault /\ Await("signals")

ValidateSignals ==
    /\ mon_pc = "signals"
    /\ LET signals == <<"signals", broker>> IN
       \/ /\ IF is_market_open(now) /\ ~Present(signals)
             THEN Await("no_signals")
             ELSE Judge("signal_generation",
                        is_market_open(now) => Age(signals) <= SignalLatency, "risk")
          /\ UNCHANGED faults
       \/ Fault /\ Judge("signal_generation", FALSE, "risk")

\* No signal: the strategies are counted once more.
ValidateSilence ==
    /\ mon_pc = "no_signals"
    /\ \/ Judge("signal_generation", NoneCounted, "risk") /\ UNCHANGED faults
       \/ Fault /\ Judge("signal_generation", FALSE, "risk")

\* What the risk, order and portfolio stages have in common: a value that is
\* there is decoded twice, which raises, so that the stage is healthy only when
\* there is none and its latency is never compared.
ValidateDownstream(kind, stage, next_pc) ==
    \/ Judge(stage, ~Present(<<kind, broker>>), next_pc) /\ UNCHANGED faults
    \/ Fault /\ Judge(stage, FALSE, next_pc)

ValidateRisk ==
    mon_pc = "risk" /\ ValidateDownstream("signals_validated", "risk_validation", "orders")

ValidateOrders ==
    /\ mon_pc = "orders"
    /\ IF trading_enabled
       THEN ValidateDownstream("orders", "order_execution", "portfolio")
       ELSE Judge("order_execution", TRUE, "portfolio") /\ UNCHANGED faults

ValidatePortfolio ==
    /\ mon_pc = "portfolio"
    /\ IF trading_enabled
       THEN ValidateDownstream("portfolio_updates", "portfolio_updates", "analyze")
       ELSE Judge("portfolio_updates", TRUE, "analyze") /\ UNCHANGED faults

\* Mutant of analyze_pipeline_health: eighty per cent of the stages are enough.
LenientHealth(count) ==
    CASE 10 * count >= 8 * Cardinality(Stage) -> "healthy"
      [] 10 * count < 8 * Cardinality(Stage) /\ 10 * count >= 6 * Cardinality(Stage) -> "degraded"
      [] OTHER -> "critical"

\* _analyze_pipeline_health, from the number of healthy stages.
analyze_pipeline_health(count) ==
    CASE count = Cardinality(Stage) -> "healthy"
      [] count < Cardinality(Stage) /\ 10 * count >= 8 * Cardinality(Stage) -> "warning"
      [] 10 * count < 8 * Cardinality(Stage) /\ 10 * count >= 6 * Cardinality(Stage) -> "degraded"
      [] OTHER -> "critical"

Analyze ==
    /\ mon_pc = "analyze"
    /\ Return(analyze_pipeline_health(Cardinality(healthy)))
    /\ UNCHANGED <<Validating, begun, faults>>

-----------------------------------------------------------------------------
(* PipelineMonitor.                                                        *)

Looping == <<now, last, records, start_time>>

\* The variables of a cycle get their first values again where it ends, as nothing
\* reads them before the next one sets them.
FreshCycle ==
    /\ turn' = 1
    /\ begun' = None
    /\ healthy' = {}
    /\ results' = [b \in Broker |-> None]
    /\ overall_healthy' = TRUE

\* A new process: new validators, and the loop's task.
Start ==
    /\ mon_pc = "off"
    /\ mon_pc' = "validate"
    /\ start_time' = now
    /\ UNCHANGED <<now, last, records, cycle_vars, redis_vars, faults>>

\* stop() cancels the task at whatever it awaits, or the process crashes.
Stop ==
    /\ mon_pc # "off"
    /\ Fault
    /\ mon_pc' = "off"
    /\ FreshCycle
    /\ UNCHANGED <<Looping, redis_vars>>

\* Mutant of NextBroker: the last broker is left out.
NextBrokerButLast ==
    IF turn < Len(ActiveBrokers) - 1
    THEN turn' = turn + 1 /\ mon_pc' = "validate"
    ELSE mon_pc' = "aggregate" /\ UNCHANGED turn

\* The next broker has its turn.
NextBroker ==
    IF turn < Len(ActiveBrokers)
    THEN turn' = turn + 1 /\ mon_pc' = "validate"
    ELSE mon_pc' = "aggregate" /\ UNCHANGED turn

\* The broker's record is stored; the history for trends that is pushed after it
\* is not modelled, as its failures are swallowed and nothing else reads it.
Store ==
    /\ mon_pc = "store"
    /\ published' = [published EXCEPT ![broker] =
                        [verdict |-> results[broker], begun |-> begun, at |-> now]]
    /\ begun' = None
    /\ NextBroker
    /\ UNCHANGED <<Looping, healthy, results, overall_healthy, aggregate, faults>>

Aggregate ==
    /\ mon_pc = "aggregate"
    /\ aggregate' = [healthy |-> overall_healthy, results |-> results]
    /\ mon_pc' = "sleep"
    /\ FreshCycle
    /\ UNCHANGED <<Looping, published, faults>>

\* A setex raises: the rest of the cycle is skipped.
CycleFails ==
    /\ mon_pc \in {"store", "aggregate"}
    /\ Fault
    /\ mon_pc' = "sleep"
    /\ FreshCycle
    /\ UNCHANGED <<Looping, redis_vars>>

Wake ==
    /\ mon_pc = "sleep"
    /\ mon_pc' = "validate"
    /\ UNCHANGED <<Looping, cycle_vars, redis_vars, faults>>

-----------------------------------------------------------------------------

Validate ==
    \/ BeginValidation \/ Ping \/ PingRaises
    \/ ValidateMarketData \/ ValidateStrategies \/ ValidateSignals \/ ValidateSilence
    \/ ValidateRisk \/ ValidateOrders \/ ValidatePortfolio
    \/ Analyze

MonitorStep ==
    \/ Validate
    \/ Store \/ Aggregate
    \/ CycleFails \/ Wake

Next ==
    \/ Advance
    \/ \E k \in Key : RecordActivity(k)
    \/ RecordStrategies
    \/ Start \/ Stop
    \/ MonitorStep

Spec == Init /\ [][Next]_vars

-----------------------------------------------------------------------------
(* Correctness.                                                            *)

\* Types; a report is begun before it is made, and results are complete when
\* they are aggregated.
TypeOK ==
    /\ now \in Moment
    /\ last \in [Key -> Moment \cup {None}]
    /\ records \in 0..MaxRecords
    /\ start_time \in FirstMoment..now
    /\ mon_pc \in {"off", "validate", "ping", "market_data", "strategies",
                   "signals", "no_signals", "risk", "orders", "portfolio", "analyze",
                   "store", "aggregate", "sleep"}
    /\ turn \in DOMAIN ActiveBrokers
    /\ begun \in (FirstMoment..now) \cup {None}
    /\ healthy \subseteq Stage
    /\ results \in [Broker -> Verdict \cup {None}]
    /\ overall_healthy \in BOOLEAN
    /\ published \in [Broker -> Report \cup {None}]
    /\ aggregate \in [healthy : BOOLEAN, results : [Broker -> Verdict]] \cup {None}
    /\ faults \in 0..MaxFaults

\* The key was set at the moment or later.
Since(k, moment) == last[k] # None /\ last[k] >= moment

\* The broker has strategies, and their count was there during the validation.
CountedThroughout(b, report) ==
    LET k == <<"strategies", b>> IN
    /\ StrategyCount[b] > 0
    /\ last[k] # None
    /\ last[k] < report.begun /\ report.at < last[k] + MetricsTtl

(***************************************************************************)
(* A published "healthy" can be relied on, although it was put together    *)
(* over several reads: unless the market was closed at some moment of the  *)
(* validation, ticks had come within the threshold of its begin, and       *)
(* signals too, or no strategy of the broker was counted in the last       *)
(* MetricsTtl.  A broker that does not trade is never called healthy in an *)
(* open market.                                                            *)
(***************************************************************************)
HealthyMeansLive ==
    \A b \in Broker :
        published[b] # None /\ published[b].verdict = "healthy" =>
            \/ \E m \in published[b].begun..published[b].at : ~is_market_open(m)
            \/ /\ b \in TradingEnabled
               /\ Since(Ticks, published[b].begun - TickLatency)
               /\ \/ Since(<<"signals", b>>, published[b].begun - SignalLatency)
                  \/ ~CountedThroughout(b, published[b])

(***************************************************************************)
(* The aggregate is of one cycle and sums it up, also when earlier cycles  *)
(* ended in the middle: it covers every broker and is healthy exactly when *)
(* none of their verdicts is degraded, critical or an error.  After a      *)
(* cycle without a failure the brokers' own records agree with it.         *)
(***************************************************************************)
AggregateSumsUp ==
    aggregate # None =>
        /\ aggregate.healthy <=>
             \A b \in Broker : aggregate.results[b] \notin {"degraded", "critical", "error"}
        /\ faults = 0 /\ mon_pc = "sleep" =>
             \A b \in Broker : published[b] # None /\ published[b].verdict = aggregate.results[b]

=============================================================================
