--------------------------- MODULE StrategiesProofs ---------------------------
(***************************************************************************)
(* Proofs about Strategies, for all instruments, prices, windows, models,  *)
(* intervals and caps: what leaves an executor is priced at its tick, and  *)
(* the demo keeps its interval and its daily cap.                          *)
(***************************************************************************)
EXTENDS Strategies, FiniteSetTheorems, TLAPS

-----------------------------------------------------------------------------
(* The price of a signal.                                                  *)

\* Nothing, or a signal with one of the prices.
Priced(answer, prices) ==
    \/ answer = None
    \/ answer \in [signal_type : {"BUY", "SELL"}, price : prices, quantity : {position_size}]

\* A signal has the price it is made with.
LEMMA ResultPriced ==
    ASSUME NEW type \in {"BUY", "SELL"}, NEW price
    PROVE  Priced(SignalResult(type, price), {price}) /\ Priced(None, {price})
BY DEF Priced, SignalResult

\* The price can be read off the signal.
LEMMA PriceOfPriced ==
    ASSUME NEW answer, NEW prices, Priced(answer, prices), answer # None
    PROVE  answer.price \in prices
BY DEF Priced

\* MomentumProcessor prices its signals at the tick.
LEMMA MomentumPriced ==
    ASSUME NEW t, NEW h
    PROVE  Priced(Momentum(t, h), {t.last_price})
<1>1. Momentum(t, h) \in
        {None, SignalResult("BUY", t.last_price), SignalResult("SELL", t.last_price)}
  BY Zenon DEF Momentum
<1> QED BY <1>1, ResultPriced

\* So does the index strategy,
LEMMA RsiPriced ==
    ASSUME NEW t, NEW h
    PROVE  Priced(Rsi(t, h), {t.last_price})
<1>1. Rsi(t, h) \in
        {None, SignalResult("BUY", t.last_price), SignalResult("SELL", t.last_price)}
  BY Zenon DEF Rsi
<1> QED BY <1>1, ResultPriced

\* the mean reversion,
LEMMA MeanReversionPriced ==
    ASSUME NEW t, NEW h
    PROVE  Priced(MeanReversion(t, h), {t.last_price})
<1>1. MeanReversion(t, h) \in
        {None, SignalResult("BUY", t.last_price), SignalResult("SELL", t.last_price)}
  BY Zenon DEF MeanReversion
<1> QED BY <1>1, ResultPriced

\* and the demo.
LEMMA DemoPriced ==
    ASSUME NEW t
    PROVE  Priced(DemoAnswer(t), {t.last_price})
<1>1. DemoAnswer(t) \in
        {None, SignalResult("BUY", t.last_price), SignalResult("SELL", t.last_price)}
  BY DEF DemoAnswer
<1> QED BY <1>1, ResultPriced

\* The models price theirs with one of their features.
LEMMA PredictionPriced ==
    ASSUME NEW s, NEW features, NEW price, NEW prediction \in Prediction
    PROVE  Priced(PredictSignal(s, features, price, prediction), {price})
<1>1. PredictSignal(s, features, price, prediction)
        \in {None, SignalResult(prediction.class, price)}
  BY DEF PredictSignal
<1>2. prediction.class \in {"BUY", "SELL"}
  BY StrategyAssumption
<1> QED BY <1>1, <1>2, ResultPriced

\* A policy answers with the price of the rule or of the model.
LEMMA DecisionPriced ==
    ASSUME NEW rules, NEW ml, NEW prices, NEW policy, NEW prediction,
           Priced(rules, prices), Priced(ml, prices)
    PROVE  Priced(Decide(policy, rules, ml, prediction), prices)
<1>1. Max({position_size, position_size}) = position_size
      /\ Min({position_size, position_size}) = position_size
  BY StrategyAssumption DEF Max, Min
<1>2. Priced(MajorityVote(rules, ml, prediction), prices)
  <2>1. CASE Agree(rules, ml)
    <3>1. rules.quantity = position_size /\ ml.quantity = position_size /\ ml # None
      BY <2>1 DEF Agree, Priced
    <3>2. Priced([ml EXCEPT !.quantity = position_size], prices)
      BY <3>1 DEF Priced
    <3> QED BY <1>1, <2>1, <3>1, <3>2 DEF MajorityVote
  <2>2. CASE ~Agree(rules, ml)
    BY <2>2 DEF MajorityVote
  <2> QED BY <2>1, <2>2
<1>3. Priced(Conservative(rules, ml), prices)
  <2>1. CASE Agree(rules, ml)
    <3>1. rules.quantity = position_size /\ ml.quantity = position_size /\ rules # None
      BY <2>1 DEF Agree, Priced
    <3>2. Priced([rules EXCEPT !.quantity = position_size], prices)
      BY <3>1 DEF Priced
    <3> QED BY <1>1, <2>1, <3>1, <3>2 DEF Conservative
  <2>2. CASE ~Agree(rules, ml)
    BY <2>2 DEF Conservative, Priced
  <2> QED BY <2>1, <2>2
<1> QED BY <1>2, <1>3 DEF Decide

\* More prices are allowed.
LEMMA PricedIsMonotone ==
    ASSUME NEW answer, NEW few, NEW many, few \subseteq many, Priced(answer, few)
    PROVE  Priced(answer, many)
BY DEF Priced

(***************************************************************************)
(* An answer that passes the validator has the price of its tick: the      *)
(* placeholder of the momentum model is 0, which the validator refuses.    *)
(***************************************************************************)
LEMMA AnswerPriced ==
    ASSUME NEW s \in Strategy, NEW t, NEW h, NEW prediction \in Prediction,
           ProcessorAnswer(s, t, h, prediction) # None,
           ValidateSignal(ProcessorAnswer(s, t, h, prediction), t)
    PROVE  \/ ProcessorAnswer(s, t, h, prediction).price = t.last_price
           \/ s = "ml_breakout" /\ (Short(h) \/ ~HAS_NUMPY)
<1> DEFINE answer == ProcessorAnswer(s, t, h, prediction)
           prices == {0, t.last_price}
<1>1. Priced(Momentum(t, h), prices) /\ Priced(Rsi(t, h), prices)
      /\ Priced(MeanReversion(t, h), prices) /\ Priced(DemoAnswer(t), prices)
  <2>1. {t.last_price} \subseteq prices
    OBVIOUS
  <2> HIDE DEF prices
  <2>2. \A a : Priced(a, {t.last_price}) => Priced(a, prices)
    BY <2>1, PricedIsMonotone
  <2> QED BY <2>2, MomentumPriced, RsiPriced, MeanReversionPriced, DemoPriced
<1>2. Priced(MlMomentum(s, t, h, prediction), prices)
  <2>1. {MomentumFeature(t, h)} \subseteq prices
    BY DEF MomentumFeature
  <2>2. Priced(MlMomentum(s, t, h, prediction), {MomentumFeature(t, h)})
    BY PredictionPriced DEF MlMomentum
  <2> HIDE DEF prices
  <2> QED BY <2>1, <2>2, PricedIsMonotone
<1>3. Priced(MlMeanReversion(s, t, h, prediction), prices)
  <2>1. {ReversionFeature(t, h)} \subseteq prices
    BY DEF ReversionFeature
  <2>2. Priced(MlMeanReversion(s, t, h, prediction), {ReversionFeature(t, h)})
    BY PredictionPriced DEF MlMeanReversion
  <2> HIDE DEF prices
  <2> QED BY <2>1, <2>2, PricedIsMonotone
<1>4. /\ Priced(HybridMomentum(s, t, h, prediction), prices)
      /\ Priced(HybridMeanReversion(s, t, h, prediction), prices)
  BY <1>1, <1>2, <1>3, DecisionPriced DEF HybridMomentum, HybridMeanReversion
<1>5. ASSUME s = "ml_breakout", ~Short(h), HAS_NUMPY
      PROVE  Priced(answer, prices)
  <2>1. {BreakoutFeature(t, h)} \subseteq prices
    BY <1>5 DEF BreakoutFeature
  <2>2. Priced(MlBreakout(s, t, h, prediction), {BreakoutFeature(t, h)})
    BY PredictionPriced DEF MlBreakout
  <2> HIDE DEF prices
  <2>3. Priced(MlBreakout(s, t, h, prediction), prices)
    BY <2>1, <2>2, PricedIsMonotone
  <2> QED BY <1>5, <2>3 DEF ProcessorAnswer, Demo
<1>6. ASSUME s # "ml_breakout"
      PROVE  Priced(answer, prices)
  BY <1>1, <1>2, <1>3, <1>4, <1>6
     DEF ProcessorAnswer, Strategy, Rule, Model, Hybrid, Demo
<1>7. ASSUME Priced(answer, prices)
      PROVE  answer.price = t.last_price
  <2>1. answer.price \in prices
    BY <1>7, PriceOfPriced
  <2>2. answer.price > 0
    BY DEF ValidateSignal
  <2> QED BY <2>1, <2>2
<1> HIDE DEF answer
<1> QED BY <1>5, <1>6, <1>7 DEF answer

-----------------------------------------------------------------------------
(* The inductive invariant.                                                *)

StrategyTypes ==
    /\ now \in Nat
    /\ log \in Seq(Tick)
    /\ last_emit_ts \in [Instrument -> Nat]
    /\ daily_counts \in [Instrument -> Nat]
    /\ emissions \subseteq Instrument \X Nat \X Nat
    /\ IsFiniteSet(emissions)

\* The demo has signalled for an instrument no later than it remembers, and at
\* the ticks there were.
EmissionsArePast ==
    \A e \in emissions :
        e[2] <= Len(log) /\ e[3] <= last_emit_ts[e[1]] /\ e[3] <= now

\* Nothing was signalled after the day the counters are of, which is past or today.
CountersAreLatest ==
    \A e \in emissions :
        daily_epoch \in Nat /\ e[3] \div Day <= daily_epoch /\ daily_epoch <= now \div Day

OnDay(i, day) == {e \in emissions : e[1] = i /\ e[3] \div Day = day}

IntervalKept ==
    \A d, e \in emissions : d[1] = e[1] /\ d[2] < e[2] => e[3] - d[3] >= min_interval

\* The counters cover the signals of their day: they also count what the validator
\* refused.
CountersCover ==
    \A i \in Instrument : Cardinality(OnDay(i, daily_epoch)) <= daily_counts[i]

CapKept ==
    \A i \in Instrument, day \in Nat : Cardinality(OnDay(i, day)) <= max_daily_signals

StrategyInv ==
    /\ StrategyTypes /\ EmissionsArePast /\ CountersAreLatest
    /\ IntervalKept /\ CountersCover /\ CapKept /\ PricedAtTick

-----------------------------------------------------------------------------
(* Days.                                                                   *)

\* Days are numbered in the order of time.
LEMMA DaysInOrder ==
    /\ Day \in Nat \ {0}
    /\ \A m \in Nat : m \div Day \in Nat
    /\ \A m, n \in Nat : m <= n => m \div Day <= n \div Day
<1>1. Day \in Nat /\ Day > 0
  BY StrategyAssumption
<1>2. ASSUME NEW m \in Nat PROVE m \div Day \in Nat
  BY <1>1
<1>3. ASSUME NEW m \in Nat, NEW n \in Nat, m <= n PROVE m \div Day <= n \div Day
  <2> DEFINE p == m \div Day
             q == n \div Day
  <2>1. /\ p \in Nat /\ q \in Nat
        /\ Day * p <= m /\ n < Day * q + Day
    BY <1>1, <1>2
  <2>2. Day * p < Day * (q + 1)
    BY <1>1, <1>3, <2>1
  <2> HIDE DEF p, q
  <2>3. p < q + 1
    BY <1>1, <2>1, <2>2
  <2> QED BY <2>1, <2>3 DEF p, q
<1> QED BY <1>1, <1>2, <1>3

\* One more element makes a set larger by at most one.
LEMMA OneMore ==
    ASSUME NEW S, IsFiniteSet(S), NEW x
    PROVE  /\ IsFiniteSet(S \cup {x})
           /\ Cardinality(S \cup {x}) \in Nat
           /\ Cardinality(S \cup {x}) <= Cardinality(S) + 1
<1>1. Cardinality(S) \in Nat
  BY FS_CardinalityType
<1>2. /\ IsFiniteSet(S \cup {x})
      /\ Cardinality(S \cup {x}) = IF x \in S THEN Cardinality(S) ELSE Cardinality(S) + 1
  BY FS_AddElement
<1> QED BY <1>1, <1>2

\* The signals of a day can be counted.
LEMMA OnDayFinite ==
    ASSUME StrategyTypes, NEW i, NEW day
    PROVE  IsFiniteSet(OnDay(i, day)) /\ Cardinality(OnDay(i, day)) \in Nat
<1>1. OnDay(i, day) \subseteq emissions
  BY DEF OnDay
<1> QED BY <1>1, FS_Subset, FS_CardinalityType DEF StrategyTypes

\* The counters that _maybe_reset_daily leaves cover the signals of today: when it
\* clears them, there were none today.
LEMMA ResetCovers ==
    ASSUME StrategyInv
    PROVE  /\ DailyCounts \in [Instrument -> Nat]
           /\ \A i \in Instrument : Cardinality(OnDay(i, now \div Day)) <= DailyCounts[i]
<1>1. CASE daily_epoch = now \div Day
  BY <1>1 DEF DailyCounts, StrategyInv, StrategyTypes, CountersCover
<1>2. CASE daily_epoch # now \div Day
  <2>1. DailyCounts = [i \in Instrument |-> 0]
    BY <1>2 DEF DailyCounts
  <2>2. \A e \in emissions : e[3] \div Day # now \div Day
    <3> SUFFICES ASSUME NEW e \in emissions
                 PROVE  e[3] \div Day # now \div Day
      OBVIOUS
    <3>1. e[3] \in Nat /\ now \in Nat /\ daily_epoch \in Nat
      BY DEF StrategyInv, StrategyTypes, CountersAreLatest
    <3>2. e[3] \div Day <= daily_epoch /\ daily_epoch <= now \div Day
      BY DEF StrategyInv, CountersAreLatest
    <3>3. e[3] \div Day \in Nat /\ now \div Day \in Nat
      BY <3>1, DaysInOrder
    <3> QED BY <1>2, <3>1, <3>2, <3>3
  <2>3. \A i : OnDay(i, now \div Day) = {}
    BY <2>2 DEF OnDay
  <2> QED BY <2>1, <2>3, FS_EmptySet
<1> QED BY <1>1, <1>2

-----------------------------------------------------------------------------
(* A tick.                                                                 *)

\* The demo's part in a tick: it does not watch the instrument, or it is not due,
\* or it notes a signal, which the validator lets pass or not.
DemoStep(t) ==
    LET i == t.instrument IN
    \/ UNCHANGED <<daily_epoch, daily_counts, last_emit_ts, emissions>>
    \/ /\ daily_epoch' = now \div Day
       /\ daily_counts' = DailyCounts
       /\ UNCHANGED <<last_emit_ts, emissions>>
    \/ /\ DemoSignals(t)
       /\ daily_epoch' = now \div Day
       /\ daily_counts' = [DailyCounts EXCEPT ![i] = @ + 1]
       /\ last_emit_ts' = [last_emit_ts EXCEPT ![i] = now]
       /\ emissions' \in {emissions, emissions \cup {<<i, Len(log) + 1, now>>}}

\* These are all the cases.
LEMMA DemoCases ==
    ASSUME StrategyTypes, NEW t \in Tick, NEW prediction \in Prediction, HandleTick(t, prediction)
    PROVE  /\ DemoStep(t) /\ now' = now /\ log' = Append(log, t)
           /\ Len(log) \in Nat /\ Len(log') = Len(log) + 1 /\ log' \in Seq(Tick)
           /\ log'[Len(log')] = t
           /\ t.instrument \in Instrument
<1>1. /\ log' = Append(log, t) /\ now' = now /\ DemoUpdate(t)
      /\ signals'[Demo] = ProcessTick(Demo, t, prediction)
      /\ emissions' = IF signals'[Demo] = None THEN emissions
                      ELSE emissions \cup {<<t.instrument, Len(log'), now>>}
  BY DEF HandleTick, Strategy
<1>2. /\ Len(log) \in Nat /\ Len(log') = Len(log) + 1 /\ log' \in Seq(Tick)
      /\ log'[Len(log')] = t
  BY <1>1 DEF StrategyTypes
<1>3. t.instrument \in Instrument
  BY DEF Tick
<1>4. ASSUME ~DemoSignals(t)
      PROVE  UNCHANGED emissions
  <2>1. ProcessorAnswer(Demo, t, Remember(Demo, t), prediction) = None
    BY <1>4 DEF ProcessorAnswer, Demo, DemoAnswer
  <2>2. signals'[Demo] = None
    BY <1>1, <2>1 DEF ProcessTick
  <2> QED BY <1>1, <2>2
<1>5. emissions' \in {emissions, emissions \cup {<<t.instrument, Len(log) + 1, now>>}}
  BY <1>1, <1>2
<1>6. DemoStep(t)
  <2>1. CASE t.instrument \notin instrument_tokens[Demo]
    <3>1. ~DemoSignals(t)
      BY <2>1 DEF DemoSignals
    <3> QED BY <1>1, <1>4, <2>1, <3>1 DEF DemoUpdate, DemoStep
  <2>2. CASE t.instrument \in instrument_tokens[Demo] /\ ~DemoSignals(t)
    BY <1>1, <1>4, <2>2 DEF DemoUpdate, DemoStep
  <2>3. CASE t.instrument \in instrument_tokens[Demo] /\ DemoSignals(t)
    BY <1>1, <1>5, <2>3 DEF DemoUpdate, DemoStep
  <2> QED BY <2>1, <2>2, <2>3
<1> QED BY <1>1, <1>2, <1>3, <1>6

\* A tick keeps the invariant.
LEMMA TickInv ==
    ASSUME StrategyInv, NEW t \in Tick, NEW prediction \in Prediction, HandleTick(t, prediction)
    PROVE  StrategyInv'
<1> DEFINE i == t.instrument
           new == <<i, Len(log) + 1, now>>
           today == now \div Day
<1>1. /\ StrategyTypes /\ EmissionsArePast /\ CountersAreLatest
      /\ IntervalKept /\ CountersCover /\ CapKept /\ PricedAtTick
  BY DEF StrategyInv
<1>2. /\ DemoStep(t) /\ now' = now
      /\ Len(log) \in Nat /\ Len(log') = Len(log) + 1 /\ log' \in Seq(Tick)
      /\ log'[Len(log')] = t
      /\ i \in Instrument
  BY <1>1, DemoCases
<1>3. now \in Nat /\ today \in Nat
  BY <1>1, DaysInOrder DEF StrategyTypes
<1>4. \/ emissions' = emissions
      \/ /\ DemoSignals(t) /\ last_emit_ts'[i] = now
         /\ emissions' = emissions \cup {new}
         /\ daily_epoch' = today /\ daily_counts' = [DailyCounts EXCEPT ![i] = @ + 1]
  BY <1>1, <1>2 DEF DemoStep, StrategyTypes
<1>5. /\ last_emit_ts' \in [Instrument -> Nat]
      /\ \A j \in Instrument : last_emit_ts'[j] \in {last_emit_ts[j], now}
  BY <1>1, <1>2, <1>3 DEF DemoStep, StrategyTypes
<1>6. StrategyTypes'
  <2>1. daily_counts' \in [Instrument -> Nat]
    <3>1. DailyCounts \in [Instrument -> Nat]
      BY ResetCovers
    <3>2. daily_counts' \in {daily_counts, DailyCounts, [DailyCounts EXCEPT ![i] = @ + 1]}
      BY <1>2 DEF DemoStep
    <3> QED BY <1>1, <1>2, <3>1, <3>2 DEF StrategyTypes
  <2>2. emissions' \subseteq Instrument \X Nat \X Nat
    BY <1>1, <1>2, <1>3, <1>4 DEF StrategyTypes
  <2>3. IsFiniteSet(emissions')
    <3>1. IsFiniteSet(emissions)
      BY <1>1 DEF StrategyTypes
    <3>2. IsFiniteSet(emissions \cup {new})
      BY <3>1, OneMore
    <3> QED BY <1>4, <3>1, <3>2
  <2> QED BY <1>2, <1>3, <1>5, <2>1, <2>2, <2>3 DEF StrategyTypes
<1>7. \A e \in emissions : /\ e[1] \in Instrument /\ e[2] \in Nat /\ e[3] \in Nat
                           /\ e[2] <= Len(log) /\ e[3] <= now /\ e[3] <= last_emit_ts[e[1]]
                           /\ last_emit_ts[e[1]] \in Nat
  BY <1>1 DEF StrategyTypes, EmissionsArePast
<1>8. new[1] = i /\ new[2] = Len(log) + 1 /\ new[3] = now
  OBVIOUS
<1>9. EmissionsArePast'
  <2>1. ASSUME NEW e \in emissions
        PROVE  e[2] <= Len(log') /\ e[3] <= last_emit_ts'[e[1]] /\ e[3] <= now'
    <3>1. last_emit_ts'[e[1]] \in {last_emit_ts[e[1]], now}
      BY <1>5, <1>7
    <3> QED BY <1>2, <1>3, <1>7, <3>1
  <2>2. ASSUME last_emit_ts'[i] = now
        PROVE  new[2] <= Len(log') /\ new[3] <= last_emit_ts'[new[1]] /\ new[3] <= now'
    BY <1>2, <1>3, <1>8, <2>2
  <2> HIDE DEF new
  <2> QED BY <1>4, <2>1, <2>2 DEF EmissionsArePast
<1>10. CountersAreLatest'
  <2>1. CASE UNCHANGED <<daily_epoch, emissions>>
    BY <1>1, <1>2, <2>1 DEF CountersAreLatest
  <2>2. CASE daily_epoch' = today
    <3>1. \A e \in emissions' : e[3] \in Nat /\ e[3] <= now
      BY <1>3, <1>4, <1>7
    <3>2. \A e \in emissions' : e[3] \div Day <= today
      BY <1>3, <3>1, DaysInOrder
    <3> QED BY <1>2, <1>3, <2>2, <3>2 DEF CountersAreLatest
  <2> QED BY <1>2, <2>1, <2>2 DEF DemoStep
<1>11. IntervalKept'
  <2>1. CASE emissions' = emissions
    BY <1>1, <2>1 DEF IntervalKept
  <2>2. CASE DemoSignals(t) /\ emissions' = emissions \cup {new}
    <3>1. now - last_emit_ts[i] >= min_interval /\ min_interval \in Nat
      BY <2>2, StrategyAssumption DEF DemoSignals
    <3>2. ASSUME NEW d \in emissions, d[1] = new[1]
          PROVE  new[3] - d[3] >= min_interval
      <4>1. d[3] \in Nat /\ last_emit_ts[i] \in Nat /\ d[3] <= last_emit_ts[i]
        BY <1>7, <1>8, <3>2
      <4> QED BY <1>3, <1>8, <3>1, <4>1
    <3>3. ASSUME NEW e \in emissions
          PROVE  ~(new[2] < e[2])
      BY <1>2, <1>7, <1>8
    <3>4. ~(new[2] < new[2])
      BY <1>2, <1>8
    <3> HIDE DEF new
    <3> QED BY <1>1, <2>2, <3>2, <3>3, <3>4 DEF IntervalKept
  <2> QED BY <1>4, <2>1, <2>2
<1>12. \A j \in Instrument, day \in Nat :
          \/ OnDay(j, day)' = OnDay(j, day)
          \/ /\ j = i /\ day = today /\ DemoSignals(t)
             /\ OnDay(j, day)' = OnDay(j, day) \cup {new}
             /\ daily_epoch' = today /\ daily_counts' = [DailyCounts EXCEPT ![i] = @ + 1]
  <2> SUFFICES ASSUME NEW j \in Instrument, NEW day \in Nat,
                      emissions' = emissions \cup {new}
               PROVE  OnDay(j, day)' = IF j = i /\ day = today THEN OnDay(j, day) \cup {new}
                                                               ELSE OnDay(j, day)
    BY <1>4 DEF OnDay
  <2> HIDE DEF new
  <2> QED BY <1>8 DEF OnDay
<1>13. \A j \in Instrument, day \in Nat :
          /\ Cardinality(OnDay(j, day)) \in Nat
          /\ Cardinality(OnDay(j, day) \cup {new}) \in Nat
          /\ Cardinality(OnDay(j, day) \cup {new}) <= Cardinality(OnDay(j, day)) + 1
  <2> SUFFICES ASSUME NEW j \in Instrument, NEW day \in Nat
               PROVE  /\ Cardinality(OnDay(j, day)) \in Nat
                      /\ Cardinality(OnDay(j, day) \cup {new}) \in Nat
                      /\ Cardinality(OnDay(j, day) \cup {new}) <= Cardinality(OnDay(j, day)) + 1
    OBVIOUS
  <2>1. IsFiniteSet(OnDay(j, day)) /\ Cardinality(OnDay(j, day)) \in Nat
    BY <1>1, OnDayFinite
  <2> HIDE DEF new
  <2> QED BY <2>1, OneMore
<1>14. /\ DailyCounts \in [Instrument -> Nat]
       /\ \A j \in Instrument : Cardinality(OnDay(j, today)) <= DailyCounts[j]
  BY ResetCovers
<1>15. CountersCover'
  <2>1. CASE UNCHANGED <<daily_epoch, daily_counts, emissions>>
    BY <1>1, <2>1 DEF CountersCover, OnDay
  <2>2. CASE daily_epoch' = today /\ daily_counts' = DailyCounts /\ emissions' = emissions
    <3>1. \A j : OnDay(j, daily_epoch)' = OnDay(j, today)
      BY <2>2 DEF OnDay
    <3> QED BY <1>14, <2>2, <3>1 DEF CountersCover
  <2>3. CASE daily_epoch' = today /\ daily_counts' = [DailyCounts EXCEPT ![i] = @ + 1]
    <3> SUFFICES ASSUME NEW j \in Instrument
                 PROVE  Cardinality(OnDay(j, daily_epoch)') <= daily_counts'[j]
      BY DEF CountersCover
    <3>1. PICK day \in Nat : day = today
      BY <1>3
    <3>2. OnDay(j, daily_epoch)' = OnDay(j, day)'
      BY <2>3, <3>1 DEF OnDay
    <3>3. OnDay(j, day)' = OnDay(j, day) \/ (j = i /\ OnDay(j, day)' = OnDay(j, day) \cup {new})
      BY <1>12
    <3>4. /\ Cardinality(OnDay(j, day)) \in Nat
          /\ Cardinality(OnDay(j, day) \cup {new}) \in Nat
          /\ Cardinality(OnDay(j, day) \cup {new}) <= Cardinality(OnDay(j, day)) + 1
      BY <1>13
    <3>5. /\ Cardinality(OnDay(j, day)) <= DailyCounts[j] /\ DailyCounts[j] \in Nat
          /\ daily_counts'[j] = IF j = i THEN DailyCounts[j] + 1 ELSE DailyCounts[j]
      BY <1>2, <1>14, <2>3, <3>1
    <3>6. PICK c \in Nat, more \in Nat :
             /\ c = Cardinality(OnDay(j, day)) /\ more = Cardinality(OnDay(j, day) \cup {new})
      BY <3>4
    <3>7. \/ Cardinality(OnDay(j, daily_epoch)') = c
          \/ j = i /\ Cardinality(OnDay(j, daily_epoch)') = more
      BY <3>2, <3>3, <3>6
    <3>8. more <= c + 1 /\ c <= DailyCounts[j]
      BY <3>4, <3>5, <3>6
    <3> HIDE DEF new, i
    <3> QED BY <3>5, <3>7, <3>8
  <2> QED BY <1>2, <2>1, <2>2, <2>3 DEF DemoStep
<1>16. CapKept'
  <2> SUFFICES ASSUME NEW j \in Instrument, NEW day \in Nat
               PROVE  Cardinality(OnDay(j, day)') <= max_daily_signals
    BY DEF CapKept
  <2>1. CASE OnDay(j, day)' = OnDay(j, day)
    BY <1>1, <2>1 DEF CapKept
  <2>2. CASE /\ j = i /\ day = today /\ DemoSignals(t)
             /\ OnDay(j, day)' = OnDay(j, day) \cup {new}
    <3>1. DailyCounts[i] < max_daily_signals /\ max_daily_signals \in Nat
      BY <2>2, StrategyAssumption DEF DemoSignals
    <3>2. /\ Cardinality(OnDay(j, day)) \in Nat
          /\ Cardinality(OnDay(j, day) \cup {new}) \in Nat
          /\ Cardinality(OnDay(j, day) \cup {new}) <= Cardinality(OnDay(j, day)) + 1
      BY <1>13
    <3>3. Cardinality(OnDay(j, day)) <= DailyCounts[i] /\ DailyCounts[i] \in Nat
      BY <1>2, <1>14, <2>2
    <3>4. PICK c \in Nat, more \in Nat :
             /\ c = Cardinality(OnDay(j, day)) /\ more = Cardinality(OnDay(j, day) \cup {new})
      BY <3>2
    <3>5. Cardinality(OnDay(j, day)') = more
      BY <2>2, <3>4
    <3>6. more <= c + 1 /\ c <= DailyCounts[i]
      BY <3>2, <3>3, <3>4
    <3> HIDE DEF new, i
    <3> QED BY <3>1, <3>3, <3>5, <3>6
  <2> QED BY <1>12, <2>1, <2>2
<1>17. PricedAtTick'
  <2> SUFFICES ASSUME NEW s \in Strategy, signals'[s] # None
               PROVE  \/ signals'[s].price = t.last_price
                      \/ s = "ml_breakout" /\ (Len(history'[s]) < lookback_periods \/ ~HAS_NUMPY)
    BY <1>2 DEF PricedAtTick
  <2>1. history'[s] = Remember(s, t) /\ signals'[s] = ProcessTick(s, t, prediction)
    BY DEF HandleTick
  <2>2. PICK h : h = Remember(s, t)
    OBVIOUS
  <2>3. /\ signals'[s] = ProcessorAnswer(s, t, h, prediction)
        /\ ProcessorAnswer(s, t, h, prediction) # None
        /\ ValidateSignal(ProcessorAnswer(s, t, h, prediction), t)
    BY <2>1, <2>2 DEF ProcessTick
  <2>4. \/ ProcessorAnswer(s, t, h, prediction).price = t.last_price
        \/ s = "ml_breakout" /\ (Short(h) \/ ~HAS_NUMPY)
    BY <2>3, AnswerPriced
  <2> QED BY <2>1, <2>2, <2>3, <2>4 DEF Short
<1> QED BY <1>6, <1>9, <1>10, <1>11, <1>15, <1>16, <1>17 DEF StrategyInv

\* So does the passing of time.
LEMMA TimeInv ==
    ASSUME StrategyInv, PassTime
    PROVE  StrategyInv'
<1>1. /\ StrategyTypes /\ EmissionsArePast /\ CountersAreLatest
      /\ IntervalKept /\ CountersCover /\ CapKept
  BY DEF StrategyInv
<1>2. /\ now' = now + 1 /\ signals' = [s \in Strategy |-> None]
      /\ UNCHANGED <<daily_epoch, daily_counts, last_emit_ts, log, emissions>>
  BY DEF PassTime, demo_vars
<1>3. now \in Nat /\ now' \in Nat /\ now <= now'
  BY <1>1, <1>2 DEF StrategyTypes
<1>4. StrategyTypes'
  BY <1>1, <1>2, <1>3 DEF StrategyTypes
<1>5. EmissionsArePast'
  BY <1>1, <1>2, <1>3 DEF EmissionsArePast, StrategyTypes
<1>6. CountersAreLatest'
  <2>1. now \div Day \in Nat /\ now' \div Day \in Nat /\ now \div Day <= now' \div Day
    BY <1>3, DaysInOrder
  <2>2. ASSUME NEW e \in emissions
        PROVE  daily_epoch \in Nat /\ e[3] \div Day <= daily_epoch /\ daily_epoch <= now' \div Day
    BY <1>1, <2>1 DEF CountersAreLatest
  <2> QED BY <1>2, <2>2 DEF CountersAreLatest
<1>7. IntervalKept' /\ CountersCover' /\ CapKept'
  BY <1>1, <1>2 DEF IntervalKept, CountersCover, CapKept, OnDay
<1>8. PricedAtTick'
  BY <1>2 DEF PricedAtTick
<1> QED BY <1>4, <1>5, <1>6, <1>7, <1>8 DEF StrategyInv

-----------------------------------------------------------------------------
(* The theorems.                                                           *)

\* The invariant holds when the executors are created.
LEMMA InitInv == Init => StrategyInv
<1> SUFFICES ASSUME Init PROVE StrategyInv
  OBVIOUS
<1>1. StrategyTypes
  BY StrategyAssumption, FS_EmptySet DEF Init, StrategyTypes
<1>2. EmissionsArePast /\ CountersAreLatest /\ IntervalKept /\ PricedAtTick
  BY DEF Init, EmissionsArePast, CountersAreLatest, IntervalKept, PricedAtTick
<1>3. \A i, day : OnDay(i, day) = {}
  BY DEF Init, OnDay
<1>4. CountersCover /\ CapKept
  <2>1. \A i, day : Cardinality(OnDay(i, day)) = 0
    BY <1>3, FS_EmptySet
  <2>2. max_daily_signals \in Nat /\ \A i \in Instrument : daily_counts[i] = 0
    BY StrategyAssumption DEF Init
  <2> QED BY <2>1, <2>2 DEF CountersCover, CapKept
<1> QED BY <1>1, <1>2, <1>4 DEF StrategyInv

\* Every step keeps it.
LEMMA StepInv == StrategyInv /\ [Next]_vars => StrategyInv'
<1> SUFFICES ASSUME StrategyInv, [Next]_vars PROVE StrategyInv'
  OBVIOUS
<1>1. CASE UNCHANGED vars
  BY <1>1 DEF vars, demo_vars, StrategyInv, StrategyTypes, EmissionsArePast, CountersAreLatest,
              IntervalKept, CountersCover, CapKept, OnDay, PricedAtTick
<1> QED BY <1>1, TickInv, TimeInv DEF Next

\* So it holds throughout.
LEMMA InvHolds == Spec => []StrategyInv
BY InitInv, StepInv, PTL DEF Spec

(***************************************************************************)
(* What leaves StrategyExecutor.process_tick is priced at its tick,        *)
(* whatever the models predict and however short the history is; only      *)
(* ml_breakout may price a signal with its placeholder feature.            *)
(***************************************************************************)
THEOREM PlaceholdersAreRefused == Spec => []PricedAtTick
<1>1. StrategyInv => PricedAtTick
  BY DEF StrategyInv
<1> QED BY <1>1, InvHolds, PTL

(***************************************************************************)
(* LowFrequencyDemoProcessor keeps min_interval_seconds between two        *)
(* signals of an instrument, over midnight too, and max_daily_signals      *)
(* within a day, for every order of ticks and pauses.                      *)
(***************************************************************************)
THEOREM DemoKeepsCadence == Spec => []CadenceKept
<1>1. StrategyInv => CadenceKept
  <2>1. 0 .. MaxTime \div Day \subseteq Nat
    OBVIOUS
  <2> QED BY <2>1 DEF StrategyInv, IntervalKept, CapKept, OnDay, CadenceKept
<1> QED BY <1>1, InvHolds, PTL

===============================================================================
