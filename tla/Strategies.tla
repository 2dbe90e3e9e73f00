----------------------------- MODULE Strategies -----------------------------
(***************************************************************************)
(* strategies/: what a strategy answers to a tick.  A StrategyExecutor     *)
(* remembers the last ticks it was given in one deque, asks its processor  *)
(* and lets its validator judge the answer.  There is one executor here    *)
(* for each type the StrategyFactory knows: three rules, three models, two *)
(* hybrids of a rule and a model, and the demo that signals by the clock.  *)
(*                                                                         *)
(* Prices, sums and percentages are integers: every comparison of the code *)
(* is multiplied out.  The confidence of a rule lies between 0 and 1 and   *)
(* decides nothing, so it is left out; what a model predicts, and how sure *)
(* it is, is anybody's guess.                                              *)
(***************************************************************************)
EXTENDS Integers, Sequences, FiniteSets, FiniteSetsExt, Functions

CONSTANTS
    Instrument,
    EvenToken,          \* the instruments whose token is even
    Price,              \* last_price of each instrument's ticks, 0 before it has traded
    instrument_tokens,  \* config.instrument_tokens of each strategy
    policy_type,        \* of each hybrid
    HAS_NUMPY,
    Prediction,         \* what a model may answer
    n_features_in,      \* n_features_in_ of the model, None if it has none
    lookback_periods,
    threshold,          \* percent
    rsi_period, rsi_oversold, rsi_overbought,
    bollinger_std,
    position_size,
    min_interval,       \* min_interval_seconds, in steps of the clock
    max_daily_signals,
    Day,                \* steps of the clock in a day
    StartTime, MaxTime, MaxTicks,   \* the clock's range and the ticks of a behaviour
    None

Rule == {"momentum", "rsi", "mean_reversion"}
Model == {"ml_momentum", "ml_mean_reversion", "ml_breakout"}
Hybrid == {"hybrid_momentum", "hybrid_mean_reversion"}
Demo == "low_frequency_demo"
Strategy == Rule \cup Model \cup Hybrid \cup {Demo}

ASSUME StrategyAssumption ==
    /\ EvenToken \subseteq Instrument
    /\ Price \in [Instrument -> SUBSET Nat]
    /\ instrument_tokens \in [Strategy -> SUBSET Instrument]
    /\ policy_type \in [Hybrid -> {"majority_vote", "conservative"}]
    /\ HAS_NUMPY \in BOOLEAN
    /\ Prediction \subseteq [class : {"BUY", "SELL"}, sure : {"no", "yes", "very"}]
    /\ n_features_in \in Nat \cup {None}
    /\ lookback_periods \in Nat \ {0}
    /\ threshold \in Nat
    /\ rsi_period \in Nat \ {0}
    /\ 0 < rsi_oversold /\ rsi_oversold <= 50
    /\ 50 <= rsi_overbought /\ rsi_overbought < 100
    /\ bollinger_std \in Nat
    /\ position_size \in Nat
    /\ {min_interval, max_daily_signals, Day, StartTime, MaxTime, MaxTicks} \subseteq Nat
    /\ Day > 0
    /\ min_interval <= StartTime /\ StartTime <= MaxTime

VARIABLES
    history,        \* _history of each executor
    loaded_model,   \* the processors whose model is not None
    last_emit_ts,   \* of the demo, by instrument
    daily_counts,   \* of the demo, by instrument
    daily_epoch,    \* of the demo
    now,            \* the clock
    signals,        \* what each executor answered to the last tick
    log,            \* history: all ticks
    emissions       \* history: when the demo signalled for which instrument

demo_vars == <<last_emit_ts, daily_counts, daily_epoch>>
vars == <<history, loaded_model, demo_vars, now, signals, log, emissions>>

Tick == UNION {[instrument : {i}, last_price : Price[i]] : i \in Instrument}

SignalResult(type, price) ==
    [signal_type |-> type, price |-> price, quantity |-> position_size]

\* history[-n:]
Latest(h, n) == IF Len(h) <= n THEN h ELSE SubSeq(h, Len(h) - n + 1, Len(h))

Prices(h) == [k \in DOMAIN h |-> h[k].last_price]

-----------------------------------------------------------------------------
(* The rules.                                                              *)

Momentum(t, h) ==
    LET start == h[Len(h) - lookback_periods + 1].last_price
        change == 100 * (t.last_price - start)
    IN IF Len(h) < lookback_periods THEN None
       ELSE IF start = 0 THEN None
       ELSE IF change > threshold * start THEN SignalResult("BUY", t.last_price)
       ELSE IF change < -threshold * start THEN SignalResult("SELL", t.last_price)
       ELSE None

\* The averages of _calculate_rsi over the same number of changes, as sums.
Changes(t, h) ==
    LET p == Prices(Append(Latest(h, rsi_period + 1), t))
    IN Latest([k \in 1 .. Len(p) - 1 |-> p[k + 1] - p[k]], rsi_period)

Gain(c) == SumFunctionOnSet(c, {k \in DOMAIN c : c[k] > 0})
Loss(c) == -SumFunctionOnSet(c, {k \in DOMAIN c : c[k] < 0})

Oversold(c) == Loss(c) # 0 /\ 100 * Gain(c) < rsi_oversold * (Gain(c) + Loss(c))
Overbought(c) == Loss(c) = 0 \/ 100 * Gain(c) > rsi_overbought * (Gain(c) + Loss(c))

Rsi(t, h) ==
    IF Len(h) < 2 * rsi_period THEN None
    ELSE IF Oversold(Changes(t, h)) THEN SignalResult("BUY", t.last_price)
    ELSE IF Overbought(Changes(t, h)) THEN SignalResult("SELL", t.last_price)
    ELSE None

\* n times the distance of the price from the mean, and whether it is more than
\* bollinger_std sample deviations.
Distance(t, p) == Len(p) * t.last_price - SumFunction(p)

OutsideBands(t, p) ==
    LET n == Len(p)
        squares == SumFunction([k \in DOMAIN p |-> p[k] * p[k]])
    IN (n - 1) * Distance(t, p) * Distance(t, p)
         > bollinger_std * bollinger_std * n * (n * squares - SumFunction(p) * SumFunction(p))

MeanReversion(t, h) ==
    LET p == Prices(Latest(h, lookback_periods))
        c == Changes(t, h)
    IN IF Len(h) < Max({lookback_periods, 2 * rsi_period}) THEN None
       ELSE IF Oversold(c) /\ Distance(t, p) < 0 /\ OutsideBands(t, p)
       THEN SignalResult("BUY", t.last_price)
       ELSE IF Overbought(c) /\ Distance(t, p) > 0 /\ OutsideBands(t, p)
       THEN SignalResult("SELL", t.last_price)
       ELSE None

-----------------------------------------------------------------------------
(* The models.  Of their features only the one the signal is priced with   *)
(* matters; while the history is too short it may be a placeholder.        *)

Short(h) == Len(h) < lookback_periods

MomentumFeature(t, h) == IF HAS_NUMPY /\ Short(h) THEN 0 ELSE t.last_price
BreakoutFeature(t, h) == IF HAS_NUMPY /\ ~Short(h) THEN t.last_price ELSE Len(h)
ReversionFeature(t, h) == t.last_price

\* predict_signal of processor s with so many features.  Their mismatch with the
\* model and every other exception end without a signal.
PredictSignal(s, features, price, prediction) ==
    IF /\ s \in loaded_model
       /\ n_features_in \in {None, features}
       /\ prediction.sure # "no"
    THEN SignalResult(prediction.class, price)
    ELSE None

MlMomentum(s, t, h, prediction) ==
    PredictSignal(s, 5, MomentumFeature(t, h), prediction)

MlBreakout(s, t, h, prediction) ==
    PredictSignal(s, 4, BreakoutFeature(t, h), prediction)

MlMeanReversion(s, t, h, prediction) ==
    PredictSignal(s, 4, ReversionFeature(t, h), prediction)

-----------------------------------------------------------------------------
(* The hybrids.                                                            *)

Agree(rules, ml) == rules # None /\ ml # None /\ rules.signal_type = ml.signal_type

MajorityVote(rules, ml, prediction) ==
    IF Agree(rules, ml)
    THEN [ml EXCEPT !.quantity = Max({rules.quantity, ml.quantity})]
    ELSE IF ml # None /\ prediction.sure = "very" THEN ml
    ELSE IF rules # None THEN rules
    ELSE ml

Conservative(rules, ml) ==
    IF Agree(rules, ml)
    THEN [rules EXCEPT !.quantity = Min({rules.quantity, ml.quantity})]
    ELSE None

Decide(policy, rules, ml, prediction) ==
    IF policy = "conservative"
    THEN Conservative(rules, ml)
    ELSE MajorityVote(rules, ml, prediction)

HybridMomentum(s, t, h, prediction) ==
    Decide(policy_type[s], Momentum(t, h), MlMomentum(s, t, h, prediction), prediction)

HybridMeanReversion(s, t, h, prediction) ==
    Decide(policy_type[s], MeanReversion(t, h), MlMeanReversion(s, t, h, prediction), prediction)

-----------------------------------------------------------------------------
(* The demo.                                                               *)

\* Mutant of DailyCounts: the counters are cleared at every tick.
DailyCountsCleared == [i \in Instrument |-> 0]

\* _maybe_reset_daily
DailyCounts ==
    IF daily_epoch = now \div Day THEN daily_counts ELSE [i \in Instrument |-> 0]

DemoSignals(t) ==
    /\ t.instrument \in instrument_tokens[Demo]
    /\ now - last_emit_ts[t.instrument] >= min_interval
    /\ DailyCounts[t.instrument] < max_daily_signals

DemoAnswer(t) ==
    IF DemoSignals(t)
    THEN SignalResult(IF t.instrument \in EvenToken THEN "BUY" ELSE "SELL", t.last_price)
    ELSE None

\* The demo notes its signal before the validator sees it.
DemoUpdate(t) ==
    LET i == t.instrument
        gated == i \notin instrument_tokens[Demo]
    IN /\ daily_epoch' = IF gated THEN daily_epoch ELSE now \div Day
       /\ daily_counts' = IF gated THEN daily_counts
                          ELSE IF DemoSignals(t) THEN [DailyCounts EXCEPT ![i] = @ + 1]
                          ELSE DailyCounts
       /\ last_emit_ts' = IF DemoSignals(t) THEN [last_emit_ts EXCEPT ![i] = now]
                          ELSE last_emit_ts

-----------------------------------------------------------------------------
(* The executor.                                                           *)

\* get_required_history_length
RequiredHistory(s) ==
    CASE s = "rsi" -> 2 * rsi_period
      [] s \in {"mean_reversion", "hybrid_mean_reversion"} ->
           Max({lookback_periods, 2 * rsi_period})
      [] s = Demo -> 1
      [] OTHER -> lookback_periods

CanProcessTick(s, t) == t.instrument \in instrument_tokens[s]

\* Mutant of ValidateSignal: the price of the signal is not looked at.
ValidateSignalUnpriced(signal, t) ==
    /\ signal.quantity >= 1
    /\ t.last_price > 0

ValidateSignal(signal, t) ==
    /\ signal.quantity >= 1
    /\ t.last_price > 0
    /\ signal.price > 0

\* Mutant of Remember: ticks of every instrument enter the deque.
RememberAll(s, t) == Latest(Append(history[s], t), RequiredHistory(s))

\* The deque after a tick.
Remember(s, t) ==
    IF CanProcessTick(s, t)
    THEN Latest(Append(history[s], t), RequiredHistory(s))
    ELSE history[s]

\* The processors the StrategyFactory knows.
ProcessorAnswer(s, t, h, prediction) ==
    CASE s = "momentum" -> Momentum(t, h)
      [] s = "rsi" -> Rsi(t, h)
      [] s = "mean_reversion" -> MeanReversion(t, h)
      [] s = "ml_momentum" -> MlMomentum(s, t, h, prediction)
      [] s = "ml_breakout" -> MlBreakout(s, t, h, prediction)
      [] s = "ml_mean_reversion" -> MlMeanReversion(s, t, h, prediction)
      [] s = "hybrid_momentum" -> HybridMomentum(s, t, h, prediction)
      [] s = "hybrid_mean_reversion" -> HybridMeanReversion(s, t, h, prediction)
      [] s = Demo -> DemoAnswer(t)

ProcessTick(s, t, prediction) ==
    LET signal == ProcessorAnswer(s, t, Remember(s, t), prediction)
    IN IF CanProcessTick(s, t) /\ signal # None /\ ValidateSignal(signal, t)
       THEN signal
       ELSE None

\* create_executor calls load_model of a processor that has it: the hybrids have
\* none, so the model inside them stays None.
HasLoadModel(s) == s \in Model

\* ModelLoader finds the file or not; a path is loaded once for all.
LoadModels(found) == {s \in Strategy : HasLoadModel(s) /\ found}

Init ==
    /\ history = [s \in Strategy |-> <<>>]
    /\ \E found \in BOOLEAN : loaded_model = LoadModels(found)
    /\ last_emit_ts = [i \in Instrument |-> 0]
    /\ daily_counts = [i \in Instrument |-> 0]
    /\ daily_epoch = None
    /\ now = StartTime
    /\ signals = [s \in Strategy |-> None]
    /\ log = <<>>
    /\ emissions = {}

HandleTick(t, prediction) ==
    /\ Len(log) < MaxTicks
    /\ log' = Append(log, t)
    /\ history' = [s \in Strategy |-> Remember(s, t)]
    /\ signals' = [s \in Strategy |-> ProcessTick(s, t, prediction)]
    /\ DemoUpdate(t)
    /\ emissions' = IF signals'[Demo] = None THEN emissions
                    ELSE emissions \cup {<<t.instrument, Len(log'), now>>}
    /\ UNCHANGED <<loaded_model, now>>

PassTime ==
    /\ now < MaxTime
    /\ now' = now + 1
    /\ signals' = [s \in Strategy |-> None]
    /\ UNCHANGED <<history, loaded_model, demo_vars, log, emissions>>

Next ==
    \/ \E t \in Tick, prediction \in Prediction : HandleTick(t, prediction)
    \/ PassTime

Spec == Init /\ [][Next]_vars

-----------------------------------------------------------------------------
(* Correctness.                                                            *)

\* The prices of the instruments a strategy watches, from all ticks there were.
OwnPrices(s) == Prices(SelectSeq(log, LAMBDA t : CanProcessTick(s, t)))

Signalled(s, type) == signals[s] # None /\ signals[s].signal_type = type

\* How the price went over its last n steps.
Went(p, n) == p[Len(p)] - p[Len(p) - n]
OnlyFell(p, n) == \A k \in Len(p) - n + 1 .. Len(p) : p[k] < p[k - 1]

TrendFollowers == {"momentum", "hybrid_momentum"}
Contrarians == {"rsi", "mean_reversion", "hybrid_mean_reversion"}

\* A momentum signal goes the way the price went over the lookback.  The window of
\* the index holds the current tick twice, so a reversion signal goes against the
\* way the price went over the rsi_period - 1 last steps; and the index strategy
\* buys whenever all of these were falls.
SoundSignal(s) ==
    LET p == OwnPrices(s)
        steps == (IF s \in TrendFollowers THEN lookback_periods ELSE rsi_period) - 1
    IN /\ signals[s] # None => Len(p) >= RequiredHistory(s)
       /\ Signalled(s, "BUY") =>
            IF s \in TrendFollowers THEN Went(p, steps) > 0 ELSE Went(p, steps) < 0
       /\ Signalled(s, "SELL") =>
            IF s \in TrendFollowers THEN Went(p, steps) < 0 ELSE Went(p, steps) >= 0
       /\ /\ s = "rsi" /\ rsi_period > 1
          /\ Len(p) >= RequiredHistory(s) /\ OnlyFell(p, steps)
          /\ p[Len(p)] > 0 /\ position_size > 0
          => Signalled(s, "BUY")

\* The rules answer to the market: what they signal is sound with respect to all the
\* prices of the one instrument they watch, whatever ticks of others came between
\* and however often the deque has dropped its oldest tick; a hybrid is as sound as
\* its rule, whatever its model would say.  Of a rule that watched several
\* instruments, as none of the shipped ones does, nothing is said: their prices
\* would share its window.
SignalsFollowTheMarket ==
    [][log' # log =>
         \A s \in TrendFollowers \cup Contrarians :
             (/\ Cardinality(instrument_tokens[s]) = 1
              /\ CanProcessTick(s, log'[Len(log')])) => SoundSignal(s)']_vars

\* A signal that leaves an executor is priced at its tick: the placeholder features
\* of a history that is too short never reach an order.  The exception is the
\* breakout model, whose placeholder is the length of the history.
PricedAtTick ==
    \A s \in Strategy :
        \/ signals[s] = None
        \/ signals[s].price = log[Len(log)].last_price
        \/ s = "ml_breakout" /\ (Len(history[s]) < lookback_periods \/ ~HAS_NUMPY)

\* services/strategy_runner/README.md: "designed to emit at most one signal per
\* instrument every N seconds", and strategies/configs/low_frequency_demo.yaml:
\* "optional daily cap".
CadenceKept ==
    /\ \A d, e \in emissions :
          d[1] = e[1] /\ d[2] < e[2] => e[3] - d[3] >= min_interval
    /\ \A i \in Instrument, day \in 0 .. MaxTime \div Day :
          Cardinality({e \in emissions : e[1] = i /\ e[3] \div Day = day})
            <= max_daily_signals

=============================================================================
