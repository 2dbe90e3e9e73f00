# Alpha Panda in TLA+

A specification of the event pipeline of Alpha Panda, model-checked with TLC; its
safety properties are proved with TLAPS. Paths below are relative to the repository's root.

## The system

Prices come from a broker's WebSocket and leave as simulated or placed orders.
Services are processes of one asyncio program; they talk over Kafka topics.

```
KiteTicker thread -> MarketFeed -> market.ticks -> StrategyRunner -> {broker}.signals.raw
   -> RiskManager -> {broker}.signals.validated -> PaperTrading / ZerodhaTrading -> {broker}.orders.*
market.ticks also feeds RiskManager (recent prices) and PaperTrading (brackets, pending stops)
```

Every service but the feed is a set of *consumption loops*: `ServiceOrchestrator`
runs one task per consumer, which takes one message at a time from
`MessageConsumer` and passes it to `ReliabilityLayer.process_message`, which
calls the service's handler.

### Inventory

| Component | State it keeps | Operations | Talks to | What makes it correct |
|---|---|---|---|---|
| Deduplication manager (`core/streaming/reliability/deduplication_manager.py`) | bounded in-process set, Redis keys with TTL | `is_duplicate`, `mark_processed`, eviction | Redis; called by the reliability layer | bounded; answers "duplicate" only for processed events |
| Reliability layer (`reliability_layer.py`), error handling (`core/streaming/error_handling.py`) | retry counters, the message in flight | check, handle, commit, mark, single retry, DLQ | Kafka, Redis, the handler | a committed message has an outcome; a delivery has at most two effects; recorded events are not executed again |
| Consumption loop (`service_orchestrator.py`, `message_consumer.py`) | fetch position, committed offset | start, consume, commit, stop | Kafka | at-least-once over crashes, stops and rebalances |
| Paper trading (`services/paper_trading/service.py`) | idempotence keys, positions, cash, brackets, pending stops | signal handler, tick handler | two loops share the memory; publishes fills | solvent, no overselling, a signal is filled again only after its key was forgotten, every acknowledged signal has an outcome |
| Market feed connection (`services/market_feed/service.py`) | current ticker, attempt counter, reconnection tasks | start, `_on_close`, `_attempt_reconnection`, stop | SDK thread, event loop | the feed comes back; tasks do not multiply |
| Market feed tick queue (same file) | bounded queue, counters | `_on_ticks`, two ways to enqueue, `_tick_processor` | SDK thread to event loop to Kafka | no tick vanishes uncounted; order; no wedge |
| Strategy runner (`services/strategy_runner/`) | strategies by instrument, history | tick handler, signal emission per broker | ticks to raw signals | each strategy loaded for an instrument is offered each of its ticks, whatever the others do |
| Strategies (`strategies/`) | a bounded history per executor, loaded models, the demo's clock marks | `process_tick` of nine processors, validation | called by the strategy runner | signals follow the strategy's own prices, are priced at their tick and keep their cadence |
| Risk manager (`services/risk_manager/`) | daily counters and recent prices in Redis | signal and tick handler, three rules | raw to validated/rejected signals | every acknowledged signal is answered on its own broker's topic and counted; limits reject what exceeds them |
| Zerodha trading (`services/zerodha_trading/`) | none | signal handler | validated signals to order events | a signal is ordered again only after a failure |
| Topics and producer (`core/schemas/topics.py`, `message_producer.py`) | one log per broker and stage | send, start, stop | Kafka | a message reaches the topic of its broker |
| Authentication (`services/auth/`) | status, profile, session row in the database | load, validate, invalidate, prompt, exchange, save | database, Zerodha, terminal | nothing starts without a session Zerodha has confirmed |
| Service orchestrator (`core/streaming/orchestration/`) | producers, consumers, loop tasks, `_running` | start, stop | Kafka; owned by a service | what was started is stopped |
| Application (`app/main.py`) | started services, database pool, shutdown event | startup, clean-up, run, shutdown | all services | a signal or a failed start ends the process, and cleanly |
| Monitoring (`core/monitoring/`) | activity keys with a time to live, records per broker, an aggregate | record, validate stage by stage, monitor cycle | Redis; market hours | "healthy" means live data; the aggregate is of one cycle |
| Market hours (`core/market_hours/`) | none | `get_market_status`, `is_market_open` | strategy runner, monitoring | boundaries of sessions and weekends |
| Others: instruments, portfolio cache, health probes, alerting, logging, configuration, API, dashboard | | | | see `PROJECT.json` for the reason each is left out |

### What is hard

* *Concurrency.* Two loops of paper trading share memory and interleave at every
  `await`. The SDK's thread and the event loop both reconnect the feed, and they
  hand ticks to each other with two independent timeouts.
* *Failure between steps.* Handler, commit and mark are three remote steps; a
  partial fill is a loop of sends; a bracket exit publishes first and applies later.
* *Delivery.* Rebalances and restarts redeliver; replays repeat ids; Redis keys
  expire while the in-process copy does not.
* *Timeouts and retries.* One in-process retry whose answer nobody reads; backoff
  and limits of reconnection attempts; a put that outlives the wait for it; a
  handler retried after its emission has already gone out.
* *Partial starts and stops.* Producers, consumers and loops of five services
  come up one after the other; any of them may raise, and a signal may arrive
  before the start is over.
* *Verdicts put together from several reads.* The validator judges a pipeline
  that goes on while it looks. The health checks of the start judge a session
  that one of them may be authenticating again.

`PROJECT.json` lists each hazard at its line with the properties aimed at it.

## Modules

| Module | Models | Composed with |
|---|---|---|
| `DeduplicationManager` | the two-level memory of processed events | |
| `ReliabilityLayer` | one consumption loop with error handling and its environment | extends `DeduplicationManager` |
| `AccountedDelivery` | abstract: what the streaming layer promises about a partition | refined by `ReliabilityLayer` |
| `PaperTrading` | the simulated broker: signal handler and tick handler | delivery is at-least-once, as `AccountedDelivery` allows |
| `FeedConnection` | reconnection by the SDK and by the service | |
| `TickQueue` | the path of a tick from the SDK's thread to the topic | |
| `SignalTopics` | the topics between the services, routing, sends | extends `FaultBudget` |
| `StrategyRunner`, `RiskManager`, `ZerodhaTrading` | one consumption loop each, from delivery to acknowledgement | extend `SignalTopics` |
| `SignalPipeline` | the composition of the three with the head of paper trading, and crashes of the process they share | extends the three |
| `Strategies` | executor, validator and the nine processors of the factory | details what `StrategyRunner` leaves arbitrary |
| `TradeAuthorization` | abstract: orders only for authorised signals of the right broker | refined by `SignalPipeline` |
| `Authentication` | `AuthManager.initialize` and the stored session | extends `FaultBudget` |
| `ServiceOrchestrator` | clients and loops of every service | extends `FaultBudget` |
| `ApplicationLifecycle` | `run`, `startup`, `shutdown` of the application | extends `Authentication` and `ServiceOrchestrator` |
| `MarketHours` | whether the market is open at a moment | |
| `PipelineMonitoring` | activity keys, validators, the monitor's cycle | extends `MarketHours` and `FaultBudget` |
| `FaultBudget` | the bound on failing calls | |
| `ReliabilityLayerProofs` | theorems about `DeduplicationManager` and `ReliabilityLayer` | extends `ReliabilityLayer` |
| `PaperTradingProofs`, `FeedConnectionProofs`, `TickQueueProofs`, `SignalPipelineProofs`, `StrategiesProofs`, `ApplicationLifecycleProofs`, `PipelineMonitoringProofs` | theorems | extend the module they are about |
| `MC*` | instances for TLC: signals, exceptions, symmetry | extend the module they check |

### DeduplicationManager

`local_cache` is `_local_cache`, `redis_keys` the live Redis keys, `marked` a
history of what was ever written. One action per answer of `is_duplicate`, one
for `mark_processed`, one for a `setex` whose reply is lost, TTL expiry and
restart. `set.pop` removes arbitrary elements, so the eviction picks any subset
of the right size. The code has one loop per consumer but one manager per
service; each action lies between two awaits, so loops interleave at actions.

### ReliabilityLayer

`pc` names the await the loop is suspended at. The path of a message through the
code is the path through `pc`:

```
idle -Consume-> check -SkipDuplicate-> dup_commit -CommitDuplicate-> idle
                check -AcceptNew-> handler -HandlerReturns-> commit -CommitHandled-> mark -Mark-> idle
handler, commit, mark -Raise-> error -BeginRetry-> retry -RetryReturns-> retry_commit -> idle
                               error -GiveUp-> dlq -SendToDlq-> dlq_commit -CommitDlq-> idle
```

Two details carry much of the behaviour. The duplicate check and its commit are
outside the `try`, so a Redis or Kafka error there ends the task (`pc = "dead"`)
while the service goes on as if it ran; so does an error of the iterator or the
deserializer (`ConsumeRaises`). And `process_message` ignores what the
error handler answers, so a failed retry (`RetryRaises`) and a failed DLQ send
(`SendToDlqFails`) leave the message uncommitted and move on; the history
variable `abandoned` records them. `Crash`, `Stop`, `Start`, `Rebalance` and
`ExpireKey` may happen at every await. A call that raises may have been applied
(`CommitFails`, `MarkProcessedUnacknowledged`). An exception is a record of what
`handle_processing_error` looks at: class, retryability, own retry limit.

### PaperTrading

`sig_pc` and `tick_pc` are the awaits of the two handlers. `Admit` remembers the
idempotence key before anything is executed; `AcceptOrder` decides the quantity
once; each `FillPart` is one send and its application to the portfolio. The
histories `total` and `lapses` count, over all admissions, what was filled of a
signal and how often its key was lost, by eviction (`Remember`) or by a restart.
`ScanBrackets` runs the tick handler up to its next await. `pending_stops` is a
set: whether an entry of the list leaves it depends on the entry and the tick
alone, so two entries of one signal leave together. Money is exact:
prices are integers, and percentages make hundredths and ten-thousandths.
Two defects of the code are part of the model because the code behaves so:
`_emit_bracket_exit_fill` calls `_apply_fill_to_portfolio` without `fees`, so the
exit is published and not applied (`ExitBracket`), and executing a triggered stop
refers to `datetime`, which is not imported, so the stop is dropped (`EndTick`).

### FeedConnection

Each ticker has the state of its connection; `waiting` counts the
`_attempt_reconnection` tasks that queue for the lock, `attempt_pc` is the await
of the one that holds it. The SDK's own reconnection is read from the copy of
the SDK in `examples/`. Ticker names are reused after a ticker is closed or
exhausted, so endless reconnection is a cycle and not an infinite path. `stop()`
is two steps, as reconnection tasks go on while it awaits the tasks it cancelled.

### TickQueue

Ticks are numbered as `_on_ticks` formats them. `EnqueueSoon` and `EnqueueNowait`
are the drop-when-full hand-over, `EnqueueBlocking`, `Put`, `PutTimeout` and
`ResultTimeout` the one with a timeout. Thread and coroutine have equal timeouts
and neither cancels the other, so either may fire first. `_running` ends before
the processor does (`StopRunning`, `CancelProcessor`), and also when the last
reconnection attempt fails, which leaves the processor running.

### SignalPipeline and its parts

```
ticks -TakeTick-> runner -OfferAnswered-> raw[b] -EvaluateSignal-> emit -EmitVerdict-> count -CountTrade-> return
                                                                        -> validated[b] / rejected[b]
validated["zerodha"] -PlaceOrder-> submitted      validated["paper"] -PaperAdmit-> fill -PaperFill-> fills
```

A loop is handed any message it has not acknowledged, which is what
`AccountedDelivery` leaves of Kafka's order over several partitions. A handler
that returns is acknowledged (`*Return`); one that raises, or whose commit or
mark fails, is not (`*Raises`, `*Unacknowledged`), and its message may come
again or never. A send that raises may have been stored all the same.
`SignalTopics` keeps a signal as a record; a verdict refers to it by its broker
and place, and its own place stands for the timestamp the risk manager gives it.

`StrategyRunner` starts its loop before `LoadStrategies`, so ticks may be taken
with no strategy loaded; what a strategy answers is arbitrary. `RiskManager` is
one loop over the raw topics of all brokers and the ticks, which is why a price
cannot change between a verdict and its emission (`EmitsWithinBand`). The keys
of the daily counter are modelled as the code builds them, one way in
`increment_key` and another in `rule_key`. The position rule sees position 0:
`update_position` has no caller. `ZerodhaTrading` swallows a failing send
(`PlaceOrderUnsent`) and returns for a payload it cannot use (`DiscardInvalid`);
both are acknowledged without an order event. The paper service's deque evicts as
in `PaperTrading`: `forgotten` is the history of the keys it lost. `Crash` ends all services at once, as they share a process.

### Strategies

One executor for each type the factory knows; `HandleTick` offers a tick to all
of them, as the runner does. `history` is the deque, `Remember` its append,
`ProcessorAnswer` the processor, `ValidateSignal` the validator. The comparisons
of the rules are multiplied out to integers: momentum in percent of the start
price, the index as gain against gain plus loss, the Bollinger bands as squares.
The windows are those of the code: the deque already contains the tick that
`_calculate_rsi` appends once more, so an index of n periods sees n - 1 changes.
`MomentumFeature`, `BreakoutFeature` and `ReversionFeature` are what the models price their signals with, placeholders
included; a prediction is arbitrary. `LoadModels` has no hybrids, since the
factory looks for `load_model` on the processor and a hybrid has none.

### Authentication, ServiceOrchestrator, ApplicationLifecycle

`phase` is the place in `run()`, `auth_pc` the await of `initialize`,
`start_pc[s]` and `stop_pc[s]` those of each service. `startup` is one coroutine,
so services start in order (`StartServices`, `ServiceStarted`); `shutdown` gathers
the stops, which interleave (`StopService`), and goes on as soon as one raises
(`StopsGathered`). `BeginShutdown` is the `finally` clause: the services started
so far, or all of them when none was. A signal only sets `shutdown_event`. The
result of `initialize` is dropped, as in `AuthService.start`; only the health
checks look at status and profile. `run_checks` gathers them: `checks` has the
result of each. The authentication check comes first in the list and reads the
session without suspending (`CheckAuthentication`); the broker check reads it
later (`CheckBrokerApi`) and, when it is not authenticated, calls `initialize` a
second time, with the prompt, one action per await (`AuthenticateAgain`,
`BrokerApiChecked`); the other checks are one with any answer (`CheckOthers`).
`ChecksGathered` waits for all. One that raises (`CheckRaises`) makes `gather`
pass it on at once, and a second `initialize` then goes on beside the shutdown.
What an attempt that failed has cached stays: the profile is set before the
session is saved, so it may be there with the status `ERROR`.

### MarketHours and PipelineMonitoring

A moment is a slot of a week. `last` holds when each Redis key was set; a key
older than `MetricsTtl` is gone (`Present`). A validator is a walk of `mon_pc`
over the stages, one action per read of Redis; `Return` hands its verdict to the
monitor, which stores it (`Store`), goes to the next broker and, after the last,
writes the aggregate. A failing `setex` ends the cycle (`CycleFails`). The model
contains two slips of the validator as the code has them: an import inside
`_validate_signal_generation` makes `MetricsRegistry` a local name, so the stage
raises where its first branch is not taken, and the risk, order and portfolio
stages decode twice, so that they are unhealthy whenever there is data.

## Runs

| Run | Instance | Shows |
|---|---|---|
| `reliability` | 2 messages, 2 ids and none, all faults, 1 disruption, fairness | `CommittedIsAccounted`, `SkippedWasHandled`, `TwoEffectsPerDelivery`, `RecordedNotReexecuted`, the refinement `ImplementsDelivery`, `EventuallyAccounted` |
| `retry_loss` (violation) | one retryable exception | a message whose retry fails is lost |
| `paper` | all order kinds, two strategies, 3 deliveries, 2 ticks, 1 crash, failing sends | `Solvent`, `SeenConsistent`, `SellsAreHeld`, `FillsWithinSignal`, `AcknowledgedHasOutcome` |
| `paper_shorting` (violation) | a bracketed BUY and a SELL | units are sold twice after a bracket exit |
| `feed_connection` | 5 tickers, 2 attempts, 3 faults, fairness | `SomeoneReconnects`, `TasksBounded`, `GivesUpOnlyAfterFailures`, `Recovers` |
| `tick_queue` | queue of 2, 4 ticks, batches of up to 2, both modes, fairness | `TickAccounted`, `LateOnlyIfDropped`, `Drains` |
| `pipeline` | 2 strategies on 2 brokers, 1 tick, a signal of 2 sizes, 2 faults, 1 crash, a memory of 1 key | `AcknowledgedIsAnswered`, `TradesAreCounted`, `OrdersWithinFaults`, `FillsWithinMemory`, `EveryStrategyServed`, `EmitsWithinBand`, the refinement `ImplementsAuthorization` |
| `strategies` | 9 executors, 2 instruments, 6 ticks, histories of up to 4, 2 predictions, 2 days | `SignalsFollowTheMarket`, `PricedAtTick`, `CadenceKept` |
| `duplicate_order` (violation) | 2 ticks, 1 fault | a retry in the risk manager fills one signal twice |
| `daily_limit` (violation) | limit 1, 2 signals, no fault | a strategy trades past its daily limit |
| `lifecycle` | 4 services, 3 enabled, 3 faults, fairness | `ServicesNeedAuthentication`, `CleanExit`, `ShutdownCompletes` |
| `monitoring` | 2 brokers, 1 trading, 3 moments up to the close, 2 records, 1 fault | `HealthyMeansLive`, `AggregateSumsUp` |

The bounds are the smallest at which each interesting case occurs: a message
behind a lost one (2 messages), a redelivery after a crash, stop or rebalance
(1 disruption), a split order interleaved with a bracket exit of
the other strategy (2 ticks), the idempotence deque overflowing (`SeenMax` 2 with
3 deliveries), a ticker being closed beside one dialling and one current, a full
queue with one tick being sent and one waiting. In the pipeline one tick is
offered to both strategies, each of which may answer with a signal for its broker
within the position limit or beyond it, and the tick's price may put it out of the
band; two faults and a crash fall anywhere, so a signal may be emitted again, its
first key evicted by the second (`SeenMax` 2 keeps one key), and a repetition
repeated. Two signals of one strategy at once occur in `duplicate_order` and
`daily_limit`, and in the theorems. Three faults in the life cycle allow a
failing start, a failing stop and a failing close of the database in one
behaviour. Monitoring covers a grace period, an open and a closed slot, keys that
expire (a time to live of 2), and a failure in the middle of a cycle. In the life cycle every path to the second `initialize` and through
it occurs, also beside a shutdown. Six ticks are two
more than the longest history: a tick of the other instrument and an eviction
both come before signals of every rule and hybrid that can signal; every
rule buys and sells, the index strategy meets falls on which it has to buy, the
demo meets its interval across midnight and its cap within a day. An index of two
periods sees one change, so gains against losses within one window are not
compared in the run. The cache of `DeduplicationManager` never fills in the runs: its
eviction is proved, not run. What the
bounds cut off in number the theorems cover.
Deadlock is not checked where the bounds let a behaviour end: no more messages,
ticks, faults or moments, or the exit of the process.

Every property that passes is paired in `PROJECT.json` with a mutant, a
plausible slip in the code under which TLC finds it violated. The mutants are
the definitions marked "Mutant of" in the modules.

### Fairness

* `ReliabilityLayer`: weak fairness of the loop's steps. asyncio runs a ready
  task, and every await of the loop ends with a reply, an error or a timer. No
  fairness of `Start`: nothing restarts a stopped, crashed or dead loop, and
  `EventuallyAccounted` has the exception "the loop is not running".
* `FeedConnection`: weak fairness of the attempt tasks, of a dial that is left
  alone, and of the report of a close. The number of faults is bounded, so they
  end; a network that fails for ever has no recovery to speak of.
* `TickQueue`: weak fairness of the SDK's thread, of the hand-over and of the
  processor. None of ticks arriving or of `stop()`.
* `ApplicationLifecycle`: weak fairness of the main coroutine and of each stop.
  Calls of Kafka and the database have time-outs, and the prompt for a token
  gives up after 300 seconds. No fairness of signals, of sessions ending or of
  loops dying.

## Findings

The four violation runs are disagreements between the code and what its own
documents or comments say; `PROJECT.json` quotes them. In short: the single
retry that loses a message (`error_handling.py:571`), the bracket exit that is
not applied (`paper_trading/service.py:769`), the retry in the risk manager that
gets a signal filled twice, since the idempotence key contains the time of its
validation (`paper_trading/service.py:156`, `risk_manager/service.py:267`), and
the daily counter that is written under one key and read under another
(`rules.py:61`, `state.py:86`).

Behaviours of the code that the models contain and that have no run of their own:

* A failing DLQ send loses a message like a failing retry does
  (`error_handling.py:359`); `abandoned` covers both in `CommittedIsAccounted`.
* `core/streaming/reliability/README.md:20` speaks of "exactly-once message
  processing semantics". The loop gives at-least-once: a crash between commit
  and mark followed by a duplicate publication, or a `setex` that raises, runs
  the handler again. `RecordedNotReexecuted` states how far it goes.
* A FOK order whose second part fails to send stays partly filled, and its retry
  is swallowed as a duplicate (`paper_trading/service.py:436`).
* A pending stop that triggers is dropped, not executed
  (`paper_trading/service.py:716`); `AcknowledgedHasOutcome` names it.
* A ticker that is dialling when `stop()` runs opens afterwards
  (`market_feed/service.py:200`).
* With a blocking timeout, a tick counted as dropped may be published all the
  same, after newer ones (`market_feed/service.py:396`). `LateOnlyIfDropped`
  shows that only such ticks are out of order.
* A ticker that is dialling when an attempt looks at it is not closed and may
  open beside its successor: every tick is then fed twice
  (`market_feed/service.py:302`).
* After one lost connection the feed may never settle: when the SDK has
  reconnected by the time an attempt runs, the attempt closes the healthy
  connection and that close schedules the next attempt (`:461`). `Recovers` says
  that it is connected again and again, `GivesUpOnlyAfterFailures` that this does
  not use up the limit of attempts.
* A bracket set while the tick handler awaits the exit of an older entry is
  removed with the older one (`paper_trading/service.py:695`).
* A service whose consumer cannot start leaves its producer open: `_running` is
  still false, so `stop()` does nothing, and the service is not among the started
  ones (`service_orchestrator.py:63`, `main.py:323`). `CleanExit` names it.
* The model inside a hybrid strategy is never loaded (`strategies/core/factory.py:54`),
  although the policy says "If ML has high confidence (>threshold) -> prefer ML"
  (`hybrid_momentum.py:33`): with a majority vote a hybrid is its rule, and the
  conservative hybrid of `hybrid_mean_reversion.yaml` never signals at all.
* Until its history is full, `ml_breakout` prices its signals with the length of
  the history (`ml_breakout.py:51`); `PricedAtTick` names it.
* An executor that watches several instruments, as that of `ml_mean_reversion.yaml`
  does, mixes their prices in one window (`executor.py:30`);
  `SignalsFollowTheMarket` is about strategies that watch one.
* When the first authentication fails and the one of the broker check succeeds, the
  terminal says "Authentication successful! System will now continue..."
  (`auth_manager.py:217`), but the authentication check has already failed and the
  application exits (`core/health/__init__.py:147`).
* A flat market has no losses, so the index is 100 and the index strategy sells
  (`rsi.py:126`).
* Ticks taken before the strategies are loaded reach nobody
  (`strategy_runner/service.py:89`).
* When not one service has been started, shutdown stops all of them, although
  the comment at `main.py:318` wants to avoid "stopping never-started ones"; it
  does no harm, as their `stop()` returns at once.
* In an open market a busy pipeline is reported degraded or critical and a silent
  one better: the risk, order and portfolio stages are unhealthy exactly when
  there is recent data (`pipeline_validator.py:343-482`). The strategy count is
  written once with a time to live of five minutes, after which missing signals
  are reported as healthy. `HealthyMeansLive` states what "healthy" is still
  worth.

## Theorems

TLAPS checks the following for every value of the constants that satisfies the
named `ASSUME`s: sizes and bounds are naturals, the cache holds at least four,
the paper memory at least two, slippage and commission stay below 100 percent, no two signals share an
idempotence key, every active broker is listed once, a day has a length, and
`NoKey`, `NoError` and `None` are distinct from what they are mixed with. Each
module proves that an inductive invariant holds initially and is kept by every
step, and reads its theorems off it; TLC checked each invariant on the run of its
module before it was proved.

* `ReliabilityLayerProofs`, the manager by itself: `CacheIsBounded`,
  `DuplicatesAreSound`. The inductive invariant is types, bound and soundness
  together; the arithmetic of eviction is the lemma `AddKeepsCache`, which rests
  on the cardinality theorems.
* `ReliabilityLayerProofs`, the loop: `TypeCorrect`, `NothingElseIsLost`
  (`CommittedIsAccounted`), `SkipsAreSafe`, `EffectsAreBounded`
  (`TwoEffectsPerDelivery`), `RecordedIsFinal` and `LoopImplementsDelivery`. `CommittedIsAccounted` is not
  inductive, since a rebalance puts the position back and the message in flight
  then commits its own offset. The invariant `Accounting` adds that everything
  before the fetch position (when the loop is idle) and before the message in
  flight has an outcome, what the program counter tells about the message in
  flight, and that a marked or skipped key was handled. The step lemma classifies each action
  by what it does to `pc`, `cur` and `position` and treats each class once.
  `EffectsAreBounded` counts executions, dead letters and retries without success
  together (`CostInv`): what the message in flight may still cost follows from `pc`,
  and a message behind the fetch position comes back only by a disruption.
  `RecordedIsFinal` needs `Unrecorded`: while the first execution runs, Redis
  does not hold the key. `LoopImplementsDelivery` maps initial states to initial
  states and every step to a step or a stutter of `AccountedDelivery`.
* `PaperTradingProofs`: `TypesHold` (`TypeOK`), `SeenIsConsistent`
  (`SeenConsistent`), `StaysSolvent` (`Solvent`), `SellsStayHeld`
  (`SellsAreHeld`), `FillsStayWithinSignal` (`FillsWithinSignal`) and
  `OutcomesAreKnown` (`AcknowledgedHasOutcome`). `Solvent` is not inductive,
  since the check is made once and the parts are paid later: `BuysArePaid` says
  that the cash covers what the BUY in hand still has to fill, and the steps of
  the tick handler, the only other loop, leave the cash alone. `InHand` says that what is filled and what is left of
  the signal in hand make up what its time in force asks for. A duplicate is
  acknowledged at sight, so `RememberedIsSettled` says that every remembered key
  but the one in hand belongs to a signal with an outcome. `FillsWithinSignal` is
  over the whole life of a signal; `TotalsAccounted` splits what was filled into
  the quantity once for each loss of the key and what the admission it is
  remembered for has filled.
* `FeedConnectionProofs`: `FeedTypeCorrect`, `NeverGivenUpInSilence`
  (`SomeoneReconnects`), `TasksDoNotMultiply` (`TasksBounded`) and
  `GivingUpIsEarned` (`GivesUpOnlyAfterFailures`). The first two are inductive
  with the types; the third counts the connections being closed, and needs that
  a service whose `stop()` has begun does not run, so that the close of `stop()`
  schedules nothing. The last needs `AttemptsPaid`: the attempts counted so far,
  and one more once no attempt is under way, are no more than the faults there
  have been, together with `AttemptOfRunning`, that a task holds the lock only of
  a service that runs or is being stopped; `TasksBounded` supplies (lemma
  `QueuedIsPaid`) the fault a queued task was scheduled by.
* `TickQueueProofs`: `QueueTypeCorrect`, `NoTickVanishes` (`TickAccounted`) and
  `LateTicksWereDropped` (`LateOnlyIfDropped`). The order of what is published
  depends on what is on its way, so `InOrder` relates published ticks, the one
  being sent, the queue and the scheduled callbacks pairwise, and `Waiting`
  says which puts may still enter the queue: the thread's, which is the newest
  tick, and dropped ones.
* `SignalPipelineProofs`: `TypesHold`, `SignalsAreAnswered`
  (`AcknowledgedIsAnswered`), `CountersFollowTrades` (`TradesAreCounted`),
  `RepeatsNeedFaults` (`OrdersWithinFaults`), `RefillsNeedForgetting`
  (`FillsWithinMemory`),
  the action properties `StrategiesAreServed` (`EveryStrategyServed`) and
  `EmissionsAreWithinBand` (`EmitsWithinBand`), and the refinement
  `PipelineRefines` (`ImplementsAuthorization`). Messages are referred to by
  their place, so `References` says that whatever a service holds or has
  published refers to a message that exists on a topic of the right broker, and
  the lemmas about `Grows` say that a topic only grows, which keeps references
  valid. `VerdictCurrent` carries the judgement over the awaits of its emission:
  no tick is handled while a signal is. `CountedSoFar` counts the emitted signal
  that is not counted yet and the counted one that is not acknowledged yet.
  `OrdersSoFar` adds to the order events of a signal its emissions that may still be
  ordered and the one that may still be emitted: only a failing call or a crash
  makes the sum grow. `FilledSoFar` adds the fill about to be made, and allows one
  for each loss of the key and one while it is remembered. The refinement maps
  each step of the four services to a step or a stutter of `TradeAuthorization`.
* `StrategiesProofs`: `PlaceholdersAreRefused` (`PricedAtTick`) and
  `DemoKeepsCadence` (`CadenceKept`). The first follows each processor's answer
  to its price (`Priced`) and shows that the validator refuses the placeholder
  of the momentum model, which is 0. For the second, `CountersCover` says that
  the counters are at least the signals of the day they are of, since they also
  count what the validator refused, and `CountersAreLatest` that no signal is
  of a later day, so that `_maybe_reset_daily` clears them only on a day without
  signals (lemma `ResetCovers`); `EmissionsArePast` ties the signals to
  `last_emit_ts`.
* `ApplicationLifecycleProofs`: `TypesHold`, `StartsAreAuthenticated`
  (`ServicesNeedAuthentication`) and `ExitIsClean` (`CleanExit`). What a passed check
  has seen stays so, as `initialize` is called again only if the first check has
  failed, and the profile is set before the status (`ChecksSpeakTrue`). Nothing is
  started before the health checks have passed and nothing takes the
  authentication away after that (`AuthenticatedFirst`); `started` is a prefix of
  the services in their order (`StartedInOrder`), so the shutdown tells each of
  them to stop; how far a start or a stop has come says what is open
  (`OpenAsStarted`, `OpenAsStopped`), and the pool is closed after the stops or
  after one has raised (`StopsAwaited`).
* `PipelineMonitoringProofs`: `TypesHold`, `HealthyIsLive` (`HealthyMeansLive`)
  and `AggregateIsSum` (`AggregateSumsUp`). A verdict is put together over
  several reads, so `FoundLive` says of each stage found healthy that what it
  stands for is true of the time from the begin of the validation to now, and the
  lemma `LiveStays` that it stays true while time passes and services record: keys are only
  set again, and a longer time has more moments at which the market may be
  closed or a count expired. `Reported` is the same of the published records.
  `CycleSoFar` says that `overall_healthy` sums up the brokers judged so far and
  that their records agree, which needs that each broker has one turn
  (`OneTurnEach`).

Only model-checked:

* the liveness properties (`EventuallyAccounted`, `Recovers`, `Drains`,
  `ShutdownCompletes`), which need fairness and `ENABLED`;
* `SignalsFollowTheMarket`, which compares windows and sums over a history with
  all the ticks there were: both are recursive definitions over sequences, and
  what they compute for every input takes induction over data.

All other properties of the passing runs are stated by a theorem.

## Not modelled

* *Data.* Payloads, formatting, logging, metrics and statistics; realized and
  unrealized PnL and average prices; delays as numbers (a timer may fire at any
  time, which includes the configured one).
* *Scale.* Several partitions (the code's guarantees are per partition) and
  several processes of one consumer group, beyond the rebalance that takes a
  partition away and brings it back; more than one trading day in `RiskManager`.
* *Paths.* The CancelledError branch of `shutdown()`; the DLQ producers, which are
  started at their first use and never stopped; `login_with_token` and `logout`;
  the clean-up task of `SessionManager`, which nobody starts; the health history
  and the sleeps of the monitor.
* *Code that nothing calls.* `update_position` of the risk state,
  `LifecycleCoordinator`, the circuit breaker, the inheritance-based
  `StreamProcessor` of `core/streaming/clients.py`, `next_market_open` and the
  monitor loop of market hours.
* *Two thirds of the repository's lines* are `examples/`: an earlier reference
  implementation and a vendored SDK that the program does not import; only the
  SDK's reconnection is read from there. Of the rest, the API and dashboard,
  configuration, logging, health probes and alerting are input/output without
  state that the pipeline depends on.

`PROJECT.json` gives the reason for each component that has no module.

## Plan

1. Done: streaming core, paper trading, market feed, the signal pipeline with its
   abstract specification, the strategies, the life cycle of the application with
   authentication, monitoring; the runs and theorems above.
2. Next: the momentum part of `SignalsFollowTheMarket` as far as it needs no sums
   (the deque is a suffix of the strategy's own ticks).
3. Then: alerting as a consumer of the monitor's verdicts, and the API's session
   operations beside the life cycle.
