----------------------- MODULE PipelineMonitoringProofs -----------------------
(***************************************************************************)
(* Proofs about PipelineMonitoring, for all brokers, thresholds, market    *)
(* hours and bounds: a published "healthy" can be relied on, and the       *)
(* aggregate sums up one cycle.                                            *)
(***************************************************************************)
EXTENDS PipelineMonitoring, FiniteSetTheorems, TLAPS

-----------------------------------------------------------------------------
(* The inductive invariant.                                                *)

StagePc == {"market_data", "strategies", "signals", "no_signals", "risk", "orders",
            "portfolio", "analyze"}

\* The market was closed at a moment between the two.
Closed(from, to) == \E m \in from..to : ~is_market_open(m)

\* No strategy of the broker was counted at some moment between the two: the count
\* was not there at the first, came after it, or had expired by the last.
Uncounted(b, from, to) ==
    \/ StrategyCount[b] = 0
    \/ last[<<"strategies", b>>] = None
    \/ last[<<"strategies", b>>] >= from
    \/ to >= last[<<"strategies", b>>] + MetricsTtl

\* What a healthy market_data stage, and a healthy signal_generation stage, of a
\* validation from one moment to another stand for.
TicksLive(from, to) == Closed(from, to) \/ Since(Ticks, from - TickLatency)

SignalsLive(b, from, to) ==
    \/ Closed(from, to)
    \/ /\ b \in TradingEnabled
       /\ Since(<<"signals", b>>, from - SignalLatency) \/ Uncounted(b, from, to)

Live(b, from, to) == TicksLive(from, to) /\ SignalsLive(b, from, to)

\* Where the loop is, and what it holds there.
Underway ==
    /\ mon_pc \in StagePc \cup {"ping", "store"} => begun # None
    /\ mon_pc \notin StagePc => healthy = {}
    /\ mon_pc \in {"signals", "no_signals"} => broker \in TradingEnabled
    /\ mon_pc = "aggregate" => turn = Len(ActiveBrokers)
    /\ mon_pc \in {"off", "sleep"} => turn = 1

\* What the validation under way has found is true by now.
FoundLive ==
    /\ "market_data" \in healthy => TicksLive(begun, now)
    /\ "signal_generation" \in healthy => SignalsLive(broker, begun, now)
    /\ mon_pc = "store" /\ results[broker] = "healthy" => Live(broker, begun, now)

\* The published records are not from the future, and what they say was true.
Reported ==
    \A b \in Broker : published[b] # None =>
        /\ published[b].begun <= now
        /\ published[b].verdict = "healthy" => Live(b, published[b].begun, published[b].at)

\* The brokers that have their verdict in this cycle, and those whose record is stored.
Judged == 1..(IF mon_pc \in {"store", "aggregate"} THEN turn ELSE turn - 1)
Stored == 1..(IF mon_pc = "aggregate" THEN turn ELSE turn - 1)

\* overall_healthy sums up the verdicts of this cycle so far, and the records agree.
CycleSoFar ==
    /\ \A n \in Judged : results[ActiveBrokers[n]] \in Verdict
    /\ overall_healthy = (\A n \in Judged : results[ActiveBrokers[n]] \in Fine)
    /\ \A n \in Stored :
          /\ published[ActiveBrokers[n]] # None
          /\ published[ActiveBrokers[n]].verdict = results[ActiveBrokers[n]]

MonitoringInv ==
    TypeOK /\ Underway /\ FoundLive /\ Reported /\ CycleSoFar /\ AggregateSumsUp

-----------------------------------------------------------------------------
(* Constants and types.                                                    *)

\* Moments are natural numbers.
LEMMA Moments ==
    /\ FirstMoment \in Nat /\ LastMoment \in Nat /\ FirstMoment <= LastMoment
    /\ Moment \subseteq Nat /\ None \notin Moment
    /\ TickLatency \in Nat /\ SignalLatency \in Nat /\ MetricsTtl \in Nat
BY MonitoringAssumption DEF Moment

\* Each broker has one turn.
LEMMA OneTurnEach ==
    /\ Len(ActiveBrokers) \in Nat /\ Len(ActiveBrokers) >= 1
    /\ DOMAIN ActiveBrokers = 1..Len(ActiveBrokers)
    /\ \A n \in 1..Len(ActiveBrokers) : ActiveBrokers[n] \in Broker
    /\ \A b \in Broker : \E n \in 1..Len(ActiveBrokers) : b = ActiveBrokers[n]
    /\ \A m, n \in 1..Len(ActiveBrokers) : ActiveBrokers[m] = ActiveBrokers[n] => m = n
<1> DEFINE N == Len(ActiveBrokers)
<1>1. /\ ActiveBrokers \in Seq(Broker) /\ ActiveBrokers # <<>>
      /\ Cardinality(Broker) = N
  BY MonitoringAssumption
<1>2. N \in Nat /\ N >= 1 /\ DOMAIN ActiveBrokers = 1..N
  BY <1>1
<1>3. /\ \A n \in 1..N : ActiveBrokers[n] \in Broker
      /\ \A b \in Broker : \E n \in 1..N : b = ActiveBrokers[n]
  BY <1>2 DEF Broker
<1>4. ActiveBrokers \in Surjection(1..N, Broker)
  <2>1. ActiveBrokers \in [1..N -> Broker]
    BY <1>1, <1>2, <1>3
  <2> QED BY <1>3, <2>1 DEF Surjection
<1>5. IsFiniteSet(1..N) /\ Cardinality(1..N) = N
  BY <1>2, FS_Interval
<1>6. ActiveBrokers \in Injection(1..N, Broker)
  BY <1>1, <1>4, <1>5, FS_Surjection
<1> QED BY <1>2, <1>3, <1>6 DEF Injection, IsInjective

\* The broker whose turn it is.
LEMMA BrokerType ==
    ASSUME TypeOK
    PROVE  turn \in Nat /\ turn >= 1 /\ turn <= Len(ActiveBrokers) /\ broker \in Broker
BY OneTurnEach DEF TypeOK, broker

\* The keys of the validators.
LEMMA Keys ==
    /\ Ticks \in Key
    /\ \A b \in TradingEnabled : <<"signals", b>> \in Key /\ <<"strategies", b>> \in Key
    /\ Ticks[1] # "strategies"
BY DEF Key, Ticks

\* A failure uses up one of the faults.
LEMMA FaultType ==
    ASSUME faults \in 0..MaxFaults, Fault
    PROVE  faults' \in 0..MaxFaults /\ faults' # 0
BY FaultsAssumption DEF Fault

-----------------------------------------------------------------------------
(* Time passes and the services record.                                    *)

\* A key is left alone or set now; the count of the strategies is set only once.
LastMoves ==
    \A k \in Key :
        \/ last'[k] = last[k]
        \/ last'[k] = now /\ (k[1] = "strategies" => last[k] = None)

\* What was live stays live: keys are only set again, and a longer time has more
\* moments at which the market may have been closed or a count expired.
LEMMA LiveStays ==
    ASSUME TypeOK, LastMoves, NEW b, NEW from \in Nat, from <= now,
           NEW to \in Nat, NEW until \in Nat, to <= until
    PROVE  /\ TicksLive(from, to) => TicksLive(from, until)'
           /\ SignalsLive(b, from, to) => SignalsLive(b, from, until)'
<1>1. now \in Nat /\ now # None
  BY Moments DEF TypeOK
<1>2. \A k \in Key : last[k] = None \/ last[k] \in Nat
  BY Moments DEF TypeOK
<1>3. Closed(from, to) => Closed(from, until)
  <2>1. from..to \subseteq from..until
    OBVIOUS
  <2> QED BY <2>1 DEF Closed
<1>4. ASSUME NEW k \in Key, NEW moment \in Int, moment <= now, Since(k, moment)
      PROVE  Since(k, moment)'
  BY <1>1, <1>2, <1>4 DEF LastMoves, Since
<1>5. from - TickLatency \in Int /\ from - SignalLatency \in Int
      /\ from - TickLatency <= now /\ from - SignalLatency <= now
  BY <1>1, Moments
<1>6. TicksLive(from, to) => TicksLive(from, until)'
  <2>1. Since(Ticks, from - TickLatency) => Since(Ticks, from - TickLatency)'
    BY <1>4, <1>5, Keys
  <2> QED BY <1>3, <2>1 DEF TicksLive, Closed
<1>7. SignalsLive(b, from, to) => SignalsLive(b, from, until)'
  <2>1. ASSUME b \in TradingEnabled, Since(<<"signals", b>>, from - SignalLatency)
        PROVE  Since(<<"signals", b>>, from - SignalLatency)'
    BY <1>4, <1>5, <2>1, Keys
  <2>2. ASSUME b \in TradingEnabled, Uncounted(b, from, to)
        PROVE  Uncounted(b, from, until)'
    <3> DEFINE k == <<"strategies", b>>
    <3>1. k \in Key /\ k[1] = "strategies"
      BY <2>2, Keys
    <3>2. last'[k] = last[k] \/ (last'[k] = now /\ last[k] = None)
      BY <3>1 DEF LastMoves
    <3>3. last[k] = None \/ last[k] \in Nat
      BY <1>2, <3>1
    <3>4. \/ StrategyCount[b] = 0 \/ last[k] = None \/ last[k] >= from
          \/ to >= last[k] + MetricsTtl
      BY <2>2 DEF Uncounted
    <3>5. \/ StrategyCount[b] = 0 \/ last'[k] = None \/ last'[k] >= from
          \/ until >= last'[k] + MetricsTtl
      <4> HIDE DEF k
      <4> QED BY <1>1, <3>2, <3>3, <3>4, Moments
    <3> QED BY <3>5 DEF Uncounted
  <2> QED BY <1>3, <2>1, <2>2 DEF SignalsLive, Closed
<1> QED BY <1>6, <1>7

\* What the validation under way has found stays true while it goes on.
LEMMA FoundStays ==
    ASSUME TypeOK, Underway, FoundLive, LastMoves, now' \in Nat, now <= now',
           UNCHANGED <<begun, turn>>
    PROVE  /\ "market_data" \in healthy => TicksLive(begun, now)'
           /\ "signal_generation" \in healthy => SignalsLive(broker, begun, now)'
           /\ mon_pc = "store" /\ results[broker] = "healthy" => Live(broker, begun, now)'
<1>1. CASE begun = None
  <2>1. healthy = {} /\ mon_pc # "store"
    BY <1>1 DEF Underway
  <2> QED BY <2>1
<1>2. CASE begun # None
  <2>1. PICK from \in Nat, to \in Nat, until \in Nat, b \in Broker :
              from = begun /\ to = now /\ until = now' /\ b = broker
    <3>1. begun \in Nat /\ now \in Nat
      BY <1>2, Moments DEF TypeOK
    <3> QED BY <3>1, BrokerType
  <2>2. from <= now /\ to <= until
    BY <1>2, <2>1, Moments DEF TypeOK
  <2>3. broker' = b /\ begun' = from
    BY <2>1 DEF broker
  <2>4. /\ TicksLive(from, to) => TicksLive(from, until)'
        /\ SignalsLive(b, from, to) => SignalsLive(b, from, until)'
    BY <2>2, LiveStays
  <2>5. /\ "market_data" \in healthy => TicksLive(from, to)
        /\ "signal_generation" \in healthy => SignalsLive(b, from, to)
        /\ mon_pc = "store" /\ results[broker] = "healthy" =>
              TicksLive(from, to) /\ SignalsLive(b, from, to)
    BY <2>1 DEF FoundLive, Live
  <2>6. /\ TicksLive(from, until)' => TicksLive(begun, now)'
        /\ SignalsLive(b, from, until)' => SignalsLive(broker, begun, now)'
    BY <2>1, <2>3 DEF TicksLive, SignalsLive, Closed, Since, Uncounted
  <2> QED BY <2>4, <2>5, <2>6 DEF Live
<1> QED BY <1>1, <1>2

\* What the published records say stays true.
LEMMA ReportedStays ==
    ASSUME TypeOK, Reported, LastMoves, now' \in Nat, now <= now',
           NEW b \in Broker, UNCHANGED published, published[b] # None
    PROVE  /\ published'[b].begun <= now'
           /\ published'[b].verdict = "healthy" => Live(b, published[b].begun, published[b].at)'
<1>1. published[b].begun \in Nat /\ published[b].at \in Nat /\ now \in Nat
  BY Moments DEF TypeOK, Report
<1>2. published[b].begun <= now
  BY DEF Reported
<1>3. PICK from \in Nat, to \in Nat : from = published[b].begun /\ to = published[b].at
  BY <1>1
<1>4. ASSUME published[b].verdict = "healthy"
      PROVE  Live(b, published[b].begun, published[b].at)'
  <2>1. TicksLive(from, to) /\ SignalsLive(b, from, to)
    BY <1>3, <1>4 DEF Reported, Live
  <2>2. TicksLive(from, to)' /\ SignalsLive(b, from, to)'
    BY <1>2, <1>3, <2>1, LiveStays
  <2> QED BY <1>3, <2>2 DEF Live, TicksLive, SignalsLive, Closed, Since, Uncounted
<1> QED BY <1>1, <1>2, <1>4

\* The parts of TypeOK.
ClockType ==
    /\ now \in Moment
    /\ last \in [Key -> Moment \cup {None}]
    /\ records \in 0..MaxRecords
    /\ start_time \in FirstMoment..now

CycleType ==
    /\ mon_pc \in {"off", "validate", "aggregate", "sleep", "ping", "store"} \cup StagePc
    /\ turn \in DOMAIN ActiveBrokers
    /\ begun \in (FirstMoment..now) \cup {None}
    /\ healthy \subseteq Stage
    /\ results \in [Broker -> Verdict \cup {None}]

RedisType ==
    /\ published \in [Broker -> Report \cup {None}]
    /\ aggregate \in [healthy : BOOLEAN, results : [Broker -> Verdict]] \cup {None}

\* Together they are TypeOK, before a step and after it.
LEMMA TypeParts ==
    /\ TypeOK => /\ ClockType /\ CycleType /\ RedisType
                 /\ overall_healthy \in BOOLEAN /\ faults \in 0..MaxFaults
    /\ ClockType' /\ CycleType' /\ RedisType'
         /\ overall_healthy' \in BOOLEAN /\ faults' \in 0..MaxFaults => TypeOK'
BY DEF TypeOK, ClockType, CycleType, RedisType, StagePc

monitor_vars == <<mon_pc, turn, begun, healthy, results, overall_healthy,
                  published, aggregate, faults>>

\* What the monitor knows stays true while it awaits.
LEMMA WorldMoves ==
    ASSUME MonitoringInv, UNCHANGED monitor_vars, ClockType', LastMoves, now <= now'
    PROVE  MonitoringInv'
<1>1. /\ TypeOK /\ Underway /\ FoundLive /\ Reported /\ CycleSoFar /\ AggregateSumsUp
      /\ UNCHANGED <<mon_pc, turn, begun, healthy, results, overall_healthy,
                     published, aggregate, faults>>
  BY DEF MonitoringInv, monitor_vars
<1>2. now \in Nat /\ now' \in Nat
  BY <1>1, Moments DEF TypeOK, ClockType
<1>3. TypeOK'
  <2>1. CycleType'
    BY <1>1, <1>2, Moments, TypeParts DEF CycleType
  <2>2. RedisType'
    BY <1>1, TypeParts DEF RedisType
  <2>3. overall_healthy' \in BOOLEAN /\ faults' \in 0..MaxFaults
    BY <1>1, TypeParts
  <2> QED BY <2>1, <2>2, <2>3, TypeParts
<1>4. broker' = broker
  BY <1>1 DEF broker
<1>5. Underway'
  BY <1>1, <1>4 DEF Underway
<1>6. FoundLive'
  BY <1>1, <1>2, <1>4, FoundStays DEF FoundLive
<1>7. Reported'
  BY <1>1, <1>2, ReportedStays DEF Reported
<1>8. CycleSoFar'
  BY <1>1 DEF CycleSoFar, Judged, Stored
<1>9. AggregateSumsUp'
  BY <1>1 DEF AggregateSumsUp
<1> QED BY <1>3, <1>5, <1>6, <1>7, <1>8, <1>9 DEF MonitoringInv

\* Time, and the records of the services.
LEMMA EnvironmentInv ==
    ASSUME MonitoringInv, Advance \/ (\E k \in Key : RecordActivity(k)) \/ RecordStrategies
    PROVE  MonitoringInv'
<1>1. ClockType /\ now \in Nat /\ now # None
  BY Moments, TypeParts DEF MonitoringInv, ClockType
<1>2. CASE Advance
  <2>1. /\ now < LastMoment /\ now' = now + 1
        /\ UNCHANGED <<last, records, start_time, mon_pc, turn, begun, healthy, results,
                       overall_healthy, published, aggregate, faults>>
    BY <1>2 DEF Advance, cycle_vars, redis_vars
  <2>2. ClockType' /\ now <= now'
    BY <1>1, <2>1, MonitoringAssumption DEF ClockType, Moment
  <2>3. LastMoves
    BY <2>1 DEF LastMoves
  <2> QED BY <2>1, <2>2, <2>3, WorldMoves DEF monitor_vars
<1>3. CASE \E k \in Key : RecordActivity(k)
  <2>1. PICK k \in Key : RecordActivity(k)
    BY <1>3
  <2>2. /\ k[1] # "strategies" /\ records < MaxRecords /\ records' = records + 1
        /\ last' = [last EXCEPT ![k] = now]
        /\ UNCHANGED <<now, start_time, mon_pc, turn, begun, healthy, results,
                       overall_healthy, published, aggregate, faults>>
    BY <2>1 DEF RecordActivity, cycle_vars, redis_vars
  <2>3. ClockType' /\ now <= now'
    BY <1>1, <2>2, MonitoringAssumption DEF ClockType
  <2>4. LastMoves
    BY <1>1, <2>2 DEF LastMoves, ClockType
  <2> QED BY <2>2, <2>3, <2>4, WorldMoves DEF monitor_vars
<1>4. CASE RecordStrategies
  <2>1. /\ \A b \in TradingEnabled : last[<<"strategies", b>>] = None
        /\ last' = [k \in Key |-> IF k[1] = "strategies" THEN now ELSE last[k]]
        /\ UNCHANGED <<now, records, start_time, mon_pc, turn, begun, healthy, results,
                       overall_healthy, published, aggregate, faults>>
    BY <1>4 DEF RecordStrategies, cycle_vars, redis_vars
  <2>2. ClockType' /\ now <= now'
    BY <1>1, <2>1 DEF ClockType
  <2>3. ASSUME NEW k \in Key, k[1] = "strategies" PROVE last[k] = None
    <3>1. \E b \in TradingEnabled : k = <<"strategies", b>>
      BY <2>3 DEF Key, Ticks
    <3> QED BY <2>1, <3>1
  <2>4. LastMoves
    BY <2>1, <2>3 DEF LastMoves
  <2> QED BY <2>1, <2>2, <2>4, WorldMoves DEF monitor_vars
<1> QED BY <1>2, <1>3, <1>4

-----------------------------------------------------------------------------
(* The validator.                                                          *)

\* What a step of the validator leaves alone.
LEMMA NothingMoves ==
    ASSUME TypeOK, UNCHANGED <<now, last>>
    PROVE  LastMoves /\ now' \in Nat /\ now \in Nat /\ now <= now'
BY Moments DEF LastMoves, TypeOK

(***************************************************************************)
(* A stage is judged, or the validator awaits the next read of it: what is *)
(* newly found healthy has to be true now, and the reads of the signals    *)
(* are made for a broker that trades.                                      *)
(***************************************************************************)
LEMMA StageInv ==
    ASSUME MonitoringInv, mon_pc \in StagePc \cup {"ping"}, mon_pc' \in StagePc,
           UNCHANGED <<now, last, records, start_time, turn, begun, results,
                       overall_healthy, published, aggregate>>,
           faults' \in 0..MaxFaults,
           healthy' \subseteq Stage,
           "market_data" \in healthy' => "market_data" \in healthy \/ TicksLive(begun, now),
           "signal_generation" \in healthy' =>
               "signal_generation" \in healthy \/ SignalsLive(broker, begun, now),
           mon_pc' \in {"signals", "no_signals"} => broker \in TradingEnabled
    PROVE  MonitoringInv'
<1>1. TypeOK /\ Underway /\ FoundLive /\ Reported /\ CycleSoFar /\ AggregateSumsUp
  BY DEF MonitoringInv
<1>2. LastMoves /\ now' \in Nat /\ now <= now'
  BY <1>1, NothingMoves
<1>3. TypeOK'
  <2>1. ClockType' /\ RedisType'
    BY <1>1, TypeParts DEF ClockType, RedisType
  <2>2. CycleType'
    BY <1>1, TypeParts DEF CycleType
  <2>3. overall_healthy' \in BOOLEAN
    BY <1>1, TypeParts
  <2> QED BY <2>1, <2>2, <2>3, TypeParts
<1>4. broker' = broker
  BY DEF broker
<1>5. begun # None /\ begun' # None
  BY <1>1 DEF Underway
<1>6. Underway'
  BY <1>4, <1>5 DEF Underway, StagePc
<1>7. FoundLive'
  <2>1. TicksLive(begun, now) => TicksLive(begun, now)'
    BY DEF TicksLive, Closed, Since
  <2>2. SignalsLive(broker, begun, now) => SignalsLive(broker, begun, now)'
    BY <1>4 DEF SignalsLive, Closed, Since, Uncounted
  <2>3. /\ "market_data" \in healthy' => TicksLive(begun, now)
        /\ "signal_generation" \in healthy' => SignalsLive(broker, begun, now)
    BY <1>1 DEF FoundLive
  <2> QED BY <2>1, <2>2, <2>3 DEF FoundLive, StagePc
<1>8. Reported'
  BY <1>1, <1>2, ReportedStays DEF Reported
<1>9. CycleSoFar'
  <2>1. Judged' = Judged /\ Stored' = Stored
    BY DEF Judged, Stored, StagePc
  <2> QED BY <1>1, <2>1 DEF CycleSoFar
<1>10. AggregateSumsUp'
  BY <1>1 DEF AggregateSumsUp, StagePc
<1> QED BY <1>3, <1>6, <1>7, <1>8, <1>9, <1>10 DEF MonitoringInv

(***************************************************************************)
(* The validator returns a verdict: overall_healthy takes it in, and       *)
(* "healthy" has to be true.                                               *)
(***************************************************************************)
LEMMA ReturnInv ==
    ASSUME MonitoringInv, NEW v \in Verdict, Return(v),
           mon_pc \in StagePc \cup {"validate", "ping"},
           UNCHANGED <<now, last, records, start_time, turn, published, aggregate>>,
           faults' \in 0..MaxFaults,
           begun' \in FirstMoment..now,
           v = "healthy" => begun' = begun /\ Live(broker, begun, now)
    PROVE  MonitoringInv'
<1>1. TypeOK /\ Underway /\ FoundLive /\ Reported /\ CycleSoFar /\ AggregateSumsUp
  BY DEF MonitoringInv
<1>2. /\ healthy' = {} /\ mon_pc' = "store"
      /\ results' = [results EXCEPT ![broker] = v]
  BY DEF Return
<1>3. overall_healthy' = (overall_healthy /\ v \in Fine)
  BY DEF Return
<1>4. /\ turn \in Nat /\ turn >= 1 /\ turn <= Len(ActiveBrokers)
      /\ broker \in Broker /\ broker = ActiveBrokers[turn]
  BY <1>1, BrokerType DEF broker
<1>5. results \in [Broker -> Verdict \cup {None}]
  BY <1>1 DEF TypeOK
<1>6. TypeOK'
  <2>1. ClockType' /\ RedisType'
    BY <1>1, TypeParts DEF ClockType, RedisType
  <2>2. CycleType'
    BY <1>1, <1>2, <1>5, TypeParts DEF CycleType
  <2>3. overall_healthy' \in BOOLEAN
    BY <1>3
  <2> QED BY <2>1, <2>2, <2>3, TypeParts
<1>7. broker' = broker
  BY DEF broker
<1>8. begun' # None
  BY <1>1, Moments DEF TypeOK, Moment
<1>9. Underway'
  BY <1>2, <1>8 DEF Underway, StagePc
<1>10. FoundLive'
  <2>1. results'[broker] = v
    BY <1>2, <1>4, <1>5
  <2>2. v = "healthy" => Live(broker, begun, now)'
    BY <1>7 DEF Live, TicksLive, SignalsLive, Closed, Since, Uncounted
  <2> QED BY <1>2, <1>7, <2>1, <2>2 DEF FoundLive
<1>11. Reported'
  <2>1. LastMoves /\ now' \in Nat /\ now <= now'
    BY <1>1, NothingMoves
  <2> QED BY <1>1, <2>1, ReportedStays DEF Reported
<1>12. CycleSoFar'
  <2>1. /\ Judged = 1..(turn - 1) /\ Stored = 1..(turn - 1)
        /\ Judged' = 1..turn /\ Stored' = 1..(turn - 1)
    BY <1>2 DEF Judged, Stored, StagePc
  <2>2. 1..turn = (1..(turn - 1)) \cup {turn}
    BY <1>4
  <2>3. ASSUME NEW n \in 1..(turn - 1)
        PROVE  results'[ActiveBrokers[n]] = results[ActiveBrokers[n]]
    <3>1. n \in 1..Len(ActiveBrokers) /\ turn \in 1..Len(ActiveBrokers) /\ n # turn
      BY <1>4, OneTurnEach
    <3>2. ActiveBrokers[n] # broker /\ ActiveBrokers[n] \in Broker
      BY <1>4, <3>1, OneTurnEach
    <3> QED BY <1>2, <1>5, <3>2
  <2>4. results'[ActiveBrokers[turn]] = v
    BY <1>2, <1>4, <1>5
  <2>5. \A n \in Judged' : results'[ActiveBrokers[n]] \in Verdict
    BY <1>1, <2>1, <2>2, <2>3, <2>4 DEF CycleSoFar
  <2>6. overall_healthy' = (\A n \in Judged' : results'[ActiveBrokers[n]] \in Fine)
    <3>1. overall_healthy = (\A n \in 1..(turn - 1) : results[ActiveBrokers[n]] \in Fine)
      BY <1>1, <2>1 DEF CycleSoFar
    <3>2. (\A n \in 1..turn : results'[ActiveBrokers[n]] \in Fine) <=>
            (\A n \in 1..(turn - 1) : results[ActiveBrokers[n]] \in Fine) /\ v \in Fine
      BY <2>2, <2>3, <2>4
    <3> QED BY <1>3, <2>1, <3>1, <3>2
  <2>7. \A n \in Stored' :
           /\ published'[ActiveBrokers[n]] # None
           /\ published'[ActiveBrokers[n]].verdict = results'[ActiveBrokers[n]]
    BY <1>1, <2>1, <2>3 DEF CycleSoFar
  <2> QED BY <2>5, <2>6, <2>7 DEF CycleSoFar
<1>13. AggregateSumsUp'
  BY <1>1, <1>2 DEF AggregateSumsUp
<1> QED BY <1>6, <1>9, <1>10, <1>11, <1>12, <1>13 DEF MonitoringInv

\* The validation under way began before now.
LEMMA BegunBefore ==
    ASSUME MonitoringInv, mon_pc \in StagePc \cup {"ping", "store"}
    PROVE  /\ begun \in Nat /\ now \in Nat /\ begun <= now /\ begun \in FirstMoment..now
           /\ \A k \in Key : last[k] = None \/ last[k] \in Nat
           /\ ~is_market_open(now) => Closed(begun, now)
<1>1. begun # None
  BY DEF MonitoringInv, Underway
<1>2. /\ begun \in FirstMoment..now /\ now \in Moment
      /\ last \in [Key -> Moment \cup {None}]
  BY <1>1 DEF MonitoringInv, TypeOK
<1>3. begun \in Nat /\ now \in Nat /\ begun <= now
  BY <1>2, Moments
<1>4. now \in begun..now
  BY <1>3
<1> QED BY <1>2, <1>3, <1>4, Moments DEF Closed

\* No strategy of the broker is counted now.
LEMMA NoneCountedNow ==
    ASSUME MonitoringInv, mon_pc \in StagePc, broker \in TradingEnabled, NoneCounted
    PROVE  Uncounted(broker, begun, now)
<1> DEFINE k == <<"strategies", broker>>
<1>1. now \in Nat /\ (last[k] = None \/ last[k] \in Nat)
  BY BegunBefore, Keys
<1>2. StrategyCount[broker] = 0 \/ last[k] = None \/ ~(now - last[k] < MetricsTtl)
  BY DEF NoneCounted, Present
<1>3. StrategyCount[broker] = 0 \/ last[k] = None \/ now >= last[k] + MetricsTtl
  <2> HIDE DEF k
  <2> QED BY <1>1, <1>2, Moments
<1> QED BY <1>3 DEF Uncounted

\* A key that is young now was set since the begin of the validation, less its age.
LEMMA YoungIsSince ==
    ASSUME MonitoringInv, mon_pc \in StagePc, NEW k \in Key, NEW age \in Nat,
           last[k] # None, Age(k) <= age
    PROVE  Since(k, begun - age)
<1>1. now \in Nat /\ begun \in Nat /\ begun <= now /\ last[k] \in Nat
  BY BegunBefore
<1> QED BY <1>1 DEF Age, Since

\* Every stage of the validator keeps the invariant.
LEMMA ValidateStagesInv ==
    ASSUME MonitoringInv,
           \/ ValidateMarketData \/ ValidateStrategies \/ ValidateSignals \/ ValidateSilence
           \/ ValidateRisk \/ ValidateOrders \/ ValidatePortfolio
    PROVE  MonitoringInv'
<1>1. faults \in 0..MaxFaults /\ healthy \subseteq Stage
  BY DEF MonitoringInv, TypeOK
<1>2. ASSUME NEW stage \in Stage, NEW good, NEW next_pc \in StagePc, mon_pc \in StagePc,
             Judge(stage, good, next_pc), faults' \in 0..MaxFaults,
             next_pc \notin {"signals", "no_signals"},
             stage = "market_data" /\ good => TicksLive(begun, now),
             stage = "signal_generation" /\ good => SignalsLive(broker, begun, now)
      PROVE  MonitoringInv'
  <2>1. /\ healthy' = IF good THEN healthy \cup {stage} ELSE healthy
        /\ mon_pc' = next_pc
        /\ UNCHANGED <<now, last, records, start_time, turn, begun, results,
                       overall_healthy, published, aggregate>>
    BY <1>2 DEF Judge, Validating, redis_vars
  <2>2. /\ healthy' \subseteq Stage
        /\ "market_data" \in healthy' => "market_data" \in healthy \/ TicksLive(begun, now)
        /\ "signal_generation" \in healthy' =>
              "signal_generation" \in healthy \/ SignalsLive(broker, begun, now)
    BY <1>1, <1>2, <2>1
  <2> QED BY <1>2, <2>1, <2>2, StageInv
<1>3. ASSUME NEW next_pc \in {"signals", "no_signals"}, mon_pc \in StagePc,
             Await(next_pc), faults' \in 0..MaxFaults, broker \in TradingEnabled
      PROVE  MonitoringInv'
  <2>1. /\ mon_pc' = next_pc /\ next_pc \in StagePc
        /\ UNCHANGED <<now, last, records, start_time, turn, begun, results,
                       overall_healthy, published, aggregate, healthy>>
    BY <1>3 DEF Await, Validating, redis_vars, StagePc
  <2> QED BY <1>1, <1>3, <2>1, StageInv
<1>4. ASSUME Fault \/ UNCHANGED faults PROVE faults' \in 0..MaxFaults
  BY <1>1, <1>4, FaultType
<1>5. CASE ValidateMarketData
  <2> DEFINE good == is_market_open(now) => Present(Ticks) /\ Age(Ticks) <= TickLatency
  <2>1. mon_pc = "market_data" /\ mon_pc \in StagePc /\ (Fault \/ UNCHANGED faults)
    BY <1>5 DEF ValidateMarketData, StagePc
  <2>2. Judge("market_data", good, "strategies") \/ Judge("market_data", FALSE, "strategies")
    BY <1>5 DEF ValidateMarketData
  <2>3. good => TicksLive(begun, now)
    BY <2>1, BegunBefore, YoungIsSince, Keys, Moments DEF TicksLive, Present
  <2>4. "market_data" \in Stage /\ "strategies" \in StagePc
    BY DEF Stage, StagePc
  <2> HIDE DEF good
  <2> QED BY <1>2, <1>4, <2>1, <2>2, <2>3, <2>4
<1>6. CASE ValidateStrategies
  <2>1. mon_pc = "strategies" /\ mon_pc \in StagePc /\ (Fault \/ UNCHANGED faults)
    BY <1>6 DEF ValidateStrategies, StagePc
  <2>2. \/ Judge("signal_generation", FALSE, "risk")
        \/ /\ broker \in TradingEnabled
           /\ NoneCounted /\ Judge("signal_generation", TRUE, "risk")
        \/ broker \in TradingEnabled /\ Await("signals")
    BY <1>6 DEF ValidateStrategies, trading_enabled
  <2>3. broker \in TradingEnabled /\ NoneCounted => SignalsLive(broker, begun, now)
    BY <2>1, NoneCountedNow DEF SignalsLive
  <2>4. "signal_generation" \in Stage /\ "risk" \in StagePc
    BY DEF Stage, StagePc
  <2> QED BY <1>2, <1>3, <1>4, <2>1, <2>2, <2>3, <2>4
<1>7. CASE ValidateSignals
  <2> DEFINE k == <<"signals", broker>>
             good == is_market_open(now) => Age(k) <= SignalLatency
  <2>1. mon_pc = "signals" /\ mon_pc \in StagePc /\ (Fault \/ UNCHANGED faults)
    BY <1>7 DEF ValidateSignals, StagePc
  <2>2. broker \in TradingEnabled
    BY <2>1 DEF MonitoringInv, Underway
  <2>3. \/ Await("no_signals")
        \/ ~(is_market_open(now) /\ ~Present(k)) /\ Judge("signal_generation", good, "risk")
        \/ Judge("signal_generation", FALSE, "risk")
    BY <1>7 DEF ValidateSignals
  <2>4. ~(is_market_open(now) /\ ~Present(k)) /\ good => SignalsLive(broker, begun, now)
    <3>1. CASE ~is_market_open(now)
      BY <2>1, <3>1, BegunBefore DEF SignalsLive
    <3>2. CASE is_market_open(now) /\ Present(k) /\ Age(k) <= SignalLatency
      <4>1. k \in Key /\ last[k] # None
        BY <2>2, <3>2, Keys DEF Present
      <4>2. Since(k, begun - SignalLatency)
        BY <2>1, <3>2, <4>1, YoungIsSince, Moments
      <4> QED BY <2>2, <4>2 DEF SignalsLive
    <3> QED BY <3>1, <3>2
  <2>5. "signal_generation" \in Stage /\ "risk" \in StagePc
    BY DEF Stage, StagePc
  <2> HIDE DEF k, good
  <2> QED BY <1>2, <1>3, <1>4, <2>1, <2>2, <2>3, <2>4, <2>5
<1>8. CASE ValidateSilence
  <2>1. mon_pc = "no_signals" /\ mon_pc \in StagePc /\ (Fault \/ UNCHANGED faults)
    BY <1>8 DEF ValidateSilence, StagePc
  <2>2. broker \in TradingEnabled
    BY <2>1 DEF MonitoringInv, Underway
  <2>3. \/ Judge("signal_generation", NoneCounted, "risk")
        \/ Judge("signal_generation", FALSE, "risk")
    BY <1>8 DEF ValidateSilence
  <2>4. NoneCounted => SignalsLive(broker, begun, now)
    BY <2>1, <2>2, NoneCountedNow DEF SignalsLive
  <2>5. "signal_generation" \in Stage /\ "risk" \in StagePc
    BY DEF Stage, StagePc
  <2> QED BY <1>2, <1>4, <2>1, <2>3, <2>4, <2>5
<1>9. ASSUME NEW stage \in Stage \ {"market_data", "signal_generation"}, NEW good,
             NEW next_pc \in {"orders", "portfolio", "analyze"}, mon_pc \in StagePc,
             Judge(stage, good, next_pc), Fault \/ UNCHANGED faults
      PROVE  MonitoringInv'
  <2>1. next_pc \in StagePc
    BY DEF StagePc
  <2> QED BY <1>2, <1>4, <1>9, <2>1
<1>10. ASSUME NEW kind, NEW stage \in Stage \ {"market_data", "signal_generation"},
             NEW next_pc \in {"orders", "portfolio", "analyze"}, mon_pc \in StagePc,
             ValidateDownstream(kind, stage, next_pc)
      PROVE  MonitoringInv'
  <2>1. /\ \/ Judge(stage, ~Present(<<kind, broker>>), next_pc)
           \/ Judge(stage, FALSE, next_pc)
        /\ Fault \/ UNCHANGED faults
    BY <1>10 DEF ValidateDownstream
  <2> QED BY <1>9, <1>10, <2>1
<1>11. CASE ValidateRisk
  BY <1>10, <1>11 DEF ValidateRisk, Stage, StagePc
<1>12. CASE ValidateOrders
  BY <1>9, <1>10, <1>12 DEF ValidateOrders, Stage, StagePc
<1>13. CASE ValidatePortfolio
  BY <1>9, <1>10, <1>13 DEF ValidatePortfolio, Stage, StagePc
<1> QED BY <1>5, <1>6, <1>7, <1>8, <1>11, <1>12, <1>13

\* Only a validation in which all stages are healthy is called healthy.
LEMMA HealthyIsAll ==
    ASSUME NEW found \in SUBSET Stage
    PROVE  /\ analyze_pipeline_health(Cardinality(found)) \in Verdict
           /\ analyze_pipeline_health(Cardinality(found)) = "healthy" => found = Stage
<1>1. IsFiniteSet(Stage)
  <2>1. \A x : IsFiniteSet({x})
    BY FS_Singleton
  <2>2. \A S, T : IsFiniteSet(S) /\ IsFiniteSet(T) => IsFiniteSet(S \cup T)
    BY FS_Union
  <2>3. Stage = (({"market_data"} \cup {"signal_generation"})
                  \cup ({"risk_validation"} \cup {"order_execution"}))
                 \cup {"portfolio_updates"}
    BY DEF Stage
  <2>4. /\ IsFiniteSet({"market_data"} \cup {"signal_generation"})
        /\ IsFiniteSet({"risk_validation"} \cup {"order_execution"})
    BY <2>1, <2>2
  <2> QED BY <2>1, <2>2, <2>3, <2>4
<1>2. /\ IsFiniteSet(found) /\ Cardinality(found) \in Nat /\ Cardinality(Stage) \in Nat
      /\ Cardinality(found) = Cardinality(Stage) => found = Stage
  BY <1>1, FS_Subset, FS_CardinalityType
<1> DEFINE c == Cardinality(found)
           d == Cardinality(Stage)
           v == CASE c = d -> "healthy"
                  [] c < d /\ 10 * c >= 8 * d -> "warning"
                  [] 10 * c < 8 * d /\ 10 * c >= 6 * d -> "degraded"
                  [] OTHER -> "critical"
<1>3. v \in Verdict /\ (v = "healthy" => c = d)
  <2>1. c \in Nat /\ d \in Nat
    BY <1>2
  <2> HIDE DEF c, d
  <2>2. CASE c = d
    <3>1. ~(c < d) /\ ~(10 * c < 8 * d)
      BY <2>1, <2>2
    <3> QED BY <2>2, <3>1 DEF Verdict
  <2>3. CASE c # d
    BY <2>3 DEF Verdict
  <2> QED BY <2>2, <2>3
<1>4. v = analyze_pipeline_health(Cardinality(found))
  BY DEF analyze_pipeline_health
<1> HIDE DEF v
<1> QED BY <1>2, <1>3, <1>4

\* The steps around the stages.
LEMMA ValidateInv ==
    ASSUME MonitoringInv, Validate
    PROVE  MonitoringInv'
<1>1. TypeOK /\ Underway /\ FoundLive /\ Reported /\ CycleSoFar /\ AggregateSumsUp
  BY DEF MonitoringInv
<1>2. now \in Nat /\ now \in FirstMoment..now /\ faults \in 0..MaxFaults
  BY <1>1, Moments DEF TypeOK, Moment
<1>3. {"startup", "idle", "error"} \subseteq Verdict \ {"healthy"}
  BY DEF Verdict
<1>4. CASE BeginValidation
  <2>1. /\ mon_pc = "validate" /\ begun' = now
        /\ UNCHANGED <<now, last, records, start_time, turn, published, aggregate, faults>>
        /\ \/ Return("startup")
           \/ mon_pc' = "ping" /\ UNCHANGED <<healthy, results, overall_healthy>>
    BY <1>4 DEF BeginValidation, Validating, redis_vars
  <2>2. CASE Return("startup")
    BY <1>2, <1>3, <2>1, <2>2, ReturnInv
  <2>3. CASE mon_pc' = "ping" /\ UNCHANGED <<healthy, results, overall_healthy>>
    <3>1. TypeOK'
      <4>1. ClockType' /\ RedisType'
        BY <1>1, <2>1, TypeParts DEF ClockType, RedisType
      <4>2. CycleType'
        BY <1>1, <1>2, <2>1, <2>3, TypeParts DEF CycleType
      <4>3. overall_healthy' \in BOOLEAN
        BY <1>1, <2>3, TypeParts
      <4> QED BY <1>2, <2>1, <4>1, <4>2, <4>3, TypeParts
    <3>2. healthy' = {} /\ begun' # None
      BY <1>1, <1>2, <2>1, <2>3, MonitoringAssumption DEF Underway, StagePc
    <3>3. Underway'
      BY <2>3, <3>2 DEF Underway, StagePc
    <3>4. FoundLive'
      BY <2>3, <3>2 DEF FoundLive
    <3>5. LastMoves /\ now' \in Nat /\ now <= now'
      BY <1>1, <2>1, NothingMoves
    <3>6. Reported'
      BY <1>1, <2>1, <3>5, ReportedStays DEF Reported
    <3>7. CycleSoFar'
      <4>1. Judged' = Judged /\ Stored' = Stored
        BY <2>1, <2>3 DEF Judged, Stored
      <4> QED BY <1>1, <2>1, <2>3, <4>1 DEF CycleSoFar
    <3>8. AggregateSumsUp'
      BY <1>1, <2>1, <2>3 DEF AggregateSumsUp
    <3> QED BY <3>1, <3>3, <3>4, <3>6, <3>7, <3>8 DEF MonitoringInv
  <2> QED BY <2>1, <2>2, <2>3
<1>5. CASE Ping
  <2>1. /\ mon_pc = "ping"
        /\ UNCHANGED <<now, last, records, start_time, turn, published, aggregate, begun, faults>>
        /\ \/ Return("idle")
           \/ mon_pc' = "market_data" /\ UNCHANGED <<healthy, results, overall_healthy>>
    BY <1>5 DEF Ping, Validating, redis_vars
  <2>2. begun \in FirstMoment..now
    BY <2>1, BegunBefore
  <2>3. CASE Return("idle")
    BY <1>2, <1>3, <2>1, <2>2, <2>3, ReturnInv
  <2>4. CASE mon_pc' = "market_data" /\ UNCHANGED <<healthy, results, overall_healthy>>
    <3>1. /\ mon_pc' \in StagePc /\ mon_pc' \notin {"signals", "no_signals"}
          /\ healthy' = healthy /\ healthy \subseteq Stage
      BY <1>1, <2>4 DEF StagePc, TypeOK
    <3> QED BY <1>2, <2>1, <2>4, <3>1, StageInv
  <2> QED BY <2>1, <2>3, <2>4
<1>6. CASE PingRaises
  <2>1. /\ mon_pc = "ping" /\ Return("error") /\ Fault
        /\ UNCHANGED <<now, last, records, start_time, turn, published, aggregate, begun>>
    BY <1>6 DEF PingRaises, Validating, redis_vars
  <2>2. begun \in FirstMoment..now /\ faults' \in 0..MaxFaults
    BY <1>2, <2>1, BegunBefore, FaultType
  <2> QED BY <1>3, <2>1, <2>2, ReturnInv
<1>7. CASE Analyze
  <2>1. PICK v \in Verdict : v = analyze_pipeline_health(Cardinality(healthy))
    BY <1>1, HealthyIsAll DEF TypeOK
  <2>2. /\ mon_pc = "analyze" /\ mon_pc \in StagePc /\ Return(v)
        /\ UNCHANGED <<now, last, records, start_time, turn, published, aggregate, begun, faults>>
    BY <1>7, <2>1 DEF Analyze, Validating, redis_vars, StagePc
  <2>3. v = "healthy" => Live(broker, begun, now)
    <3>1. v = "healthy" => healthy = Stage
      BY <1>1, <2>1, HealthyIsAll DEF TypeOK
    <3>2. "market_data" \in Stage /\ "signal_generation" \in Stage
      BY DEF Stage
    <3> QED BY <1>1, <3>1, <3>2 DEF FoundLive, Live
  <2>4. begun \in FirstMoment..now
    BY <2>2, BegunBefore
  <2> QED BY <1>2, <2>2, <2>3, <2>4, ReturnInv
<1> QED BY <1>4, <1>5, <1>6, <1>7, ValidateStagesInv DEF Validate

-----------------------------------------------------------------------------
(* The loop of the monitor.                                                *)

\* A cycle ends, in the middle or with its aggregate: nothing of it is kept.
LEMMA FreshCycleInv ==
    ASSUME MonitoringInv, FreshCycle, mon_pc' \in {"off", "sleep"},
           UNCHANGED <<now, last, records, start_time, published>>,
           faults' \in 0..MaxFaults, RedisType', AggregateSumsUp'
    PROVE  MonitoringInv'
<1>1. TypeOK /\ Reported
  BY DEF MonitoringInv
<1>2. /\ turn' = 1 /\ begun' = None /\ healthy' = {}
      /\ results' = [b \in Broker |-> None]
  BY DEF FreshCycle
<1>3. overall_healthy' = TRUE
  BY DEF FreshCycle
<1>4. ClockType'
  BY <1>1, TypeParts DEF ClockType
<1>5. CycleType'
  BY <1>2, OneTurnEach DEF CycleType
<1>6. TypeOK'
  <2>1. overall_healthy' \in BOOLEAN
    BY <1>3
  <2> QED BY <1>4, <1>5, <2>1, TypeParts
<1>7. Underway'
  BY <1>2 DEF Underway, StagePc
<1>8. FoundLive'
  BY <1>2 DEF FoundLive
<1>9. Reported'
  <2>1. LastMoves /\ now' \in Nat /\ now <= now'
    BY <1>1, NothingMoves
  <2> QED BY <1>1, <2>1, ReportedStays DEF Reported
<1>10. CycleSoFar'
  <2>1. Judged' = {} /\ Stored' = {}
    BY <1>2 DEF Judged, Stored
  <2> QED BY <1>3, <2>1 DEF CycleSoFar
<1> QED BY <1>6, <1>7, <1>8, <1>9, <1>10 DEF MonitoringInv

\* A failing store, a stop and a crash end the cycle.
LEMMA CycleEndsInv ==
    ASSUME MonitoringInv, CycleFails \/ Stop
    PROVE  MonitoringInv'
<1>1. /\ FreshCycle /\ mon_pc' \in {"off", "sleep"} /\ Fault
      /\ UNCHANGED <<now, last, records, start_time, published, aggregate>>
  BY DEF CycleFails, Stop, Looping, redis_vars
<1>2. faults' \in 0..MaxFaults /\ faults' # 0
  BY <1>1, FaultType DEF MonitoringInv, TypeOK
<1>3. RedisType'
  BY <1>1, TypeParts DEF MonitoringInv, RedisType
<1>4. AggregateSumsUp'
  BY <1>1, <1>2 DEF MonitoringInv, AggregateSumsUp
<1> QED BY <1>1, <1>2, <1>3, <1>4, FreshCycleInv

\* The loop starts the next cycle, at first or after its sleep.
LEMMA BeginInv ==
    ASSUME MonitoringInv, Start \/ Wake
    PROVE  MonitoringInv'
<1>1. TypeOK /\ Underway /\ FoundLive /\ Reported /\ CycleSoFar /\ AggregateSumsUp
  BY DEF MonitoringInv
<1>2. /\ mon_pc \in {"off", "sleep"} /\ mon_pc' = "validate"
      /\ start_time' \in {start_time, now}
      /\ UNCHANGED <<now, last, records, turn, begun, healthy, results, published, aggregate, faults>>
  BY DEF Start, Wake, Looping, cycle_vars, redis_vars
<1>3. UNCHANGED overall_healthy
  BY DEF Start, Wake, cycle_vars
<1>4. TypeOK'
  <2>1. ClockType'
    BY <1>1, <1>2, Moments, TypeParts DEF ClockType, Moment
  <2>2. CycleType' /\ RedisType'
    BY <1>1, <1>2, TypeParts DEF CycleType, RedisType
  <2>3. overall_healthy' \in BOOLEAN /\ faults' \in 0..MaxFaults
    BY <1>1, <1>2, <1>3, TypeParts
  <2> QED BY <2>1, <2>2, <2>3, TypeParts
<1>5. healthy' = {}
  BY <1>1, <1>2 DEF Underway, StagePc
<1>6. Underway'
  BY <1>2, <1>5 DEF Underway, StagePc
<1>7. FoundLive'
  BY <1>2, <1>5 DEF FoundLive
<1>8. Reported'
  <2>1. LastMoves /\ now' \in Nat /\ now <= now'
    BY <1>1, <1>2, NothingMoves
  <2> QED BY <1>1, <1>2, <2>1, ReportedStays DEF Reported
<1>9. CycleSoFar'
  <2>1. Judged' = Judged /\ Stored' = Stored
    BY <1>2 DEF Judged, Stored
  <2> QED BY <1>1, <1>2, <1>3, <2>1 DEF CycleSoFar
<1>10. AggregateSumsUp'
  BY <1>1, <1>2 DEF AggregateSumsUp
<1> QED BY <1>4, <1>6, <1>7, <1>8, <1>9, <1>10 DEF MonitoringInv

\* The broker's record is stored, with the verdict and the moments of its validation.
LEMMA StoreInv ==
    ASSUME MonitoringInv, Store
    PROVE  MonitoringInv'
<1>1. TypeOK /\ Underway /\ FoundLive /\ Reported /\ CycleSoFar /\ AggregateSumsUp
  BY DEF MonitoringInv
<1>2. /\ mon_pc = "store" /\ begun' = None /\ NextBroker
      /\ published' = [published EXCEPT ![broker] =
                          [verdict |-> results[broker], begun |-> begun, at |-> now]]
      /\ UNCHANGED <<now, last, records, start_time, healthy, results, aggregate, faults>>
  BY DEF Store, Looping
<1>3. UNCHANGED overall_healthy
  BY DEF Store
<1>4. /\ turn \in Nat /\ turn >= 1 /\ turn <= Len(ActiveBrokers) /\ Len(ActiveBrokers) \in Nat
      /\ turn \in 1..Len(ActiveBrokers) /\ broker \in Broker /\ broker = ActiveBrokers[turn]
  BY <1>1, BrokerType, OneTurnEach DEF broker
<1>5. begun \in FirstMoment..now /\ begun \in Moment /\ now \in Moment /\ now \in Nat /\ begun \in Nat
  BY <1>1, <1>2, BegunBefore, Moments DEF TypeOK, Moment
<1>6. /\ Judged = 1..turn /\ Stored = 1..(turn - 1)
  BY <1>2 DEF Judged, Stored
<1>7. results[broker] \in Verdict
  BY <1>1, <1>4, <1>6 DEF CycleSoFar
<1>8. /\ published \in [Broker -> Report \cup {None}]
      /\ published'[broker] = [verdict |-> results[broker], begun |-> begun, at |-> now]
      /\ \A b \in Broker \ {broker} : published'[b] = published[b]
  BY <1>1, <1>2, <1>4 DEF TypeOK
<1>9. published'[broker] \in Report
  BY <1>5, <1>7, <1>8 DEF Report
<1>10. published' \in [Broker -> Report \cup {None}]
  BY <1>2, <1>8, <1>9
<1>11. \/ turn < Len(ActiveBrokers) /\ turn' = turn + 1 /\ mon_pc' = "validate"
       \/ turn' = turn /\ turn = Len(ActiveBrokers) /\ mon_pc' = "aggregate"
  BY <1>2, <1>4 DEF NextBroker
<1>12. TypeOK'
  <2>1. ClockType' /\ RedisType'
    BY <1>1, <1>2, <1>10, TypeParts DEF ClockType, RedisType
  <2>2. turn' \in DOMAIN ActiveBrokers
    <3>1. turn' \in 1..Len(ActiveBrokers)
      BY <1>4, <1>11
    <3> QED BY <3>1, OneTurnEach
  <2>3. CycleType'
    BY <1>1, <1>2, <1>11, <2>2, TypeParts DEF CycleType
  <2>4. overall_healthy' \in BOOLEAN /\ faults' \in 0..MaxFaults
    BY <1>1, <1>2, <1>3, TypeParts
  <2> QED BY <2>1, <2>3, <2>4, TypeParts
<1>13. healthy' = {}
  BY <1>1, <1>2 DEF Underway, StagePc
<1>14. Underway'
  BY <1>11, <1>13 DEF Underway, StagePc
<1>15. FoundLive'
  BY <1>11, <1>13 DEF FoundLive
<1>16. Reported'
  <2> SUFFICES ASSUME NEW b \in Broker, published'[b] # None
               PROVE  /\ published'[b].begun <= now'
                      /\ published'[b].verdict = "healthy" =>
                           Live(b, published[b].begun, published[b].at)'
    BY DEF Reported
  <2>1. PICK from, to : from = published'[b].begun /\ to = published'[b].at
    OBVIOUS
  <2>2. /\ from <= now
        /\ published'[b].verdict = "healthy" => Live(b, from, to)
    <3>1. CASE b = broker
      BY <1>1, <1>2, <1>5, <1>8, <2>1, <3>1 DEF FoundLive
    <3>2. CASE b # broker
      BY <1>1, <1>8, <2>1, <3>2 DEF Reported
    <3> QED BY <3>1, <3>2
  <2>3. Live(b, from, to) => Live(b, published[b].begun, published[b].at)'
    BY <1>2, <2>1 DEF Live, TicksLive, SignalsLive, Closed, Since, Uncounted
  <2> QED BY <1>2, <2>1, <2>2, <2>3
<1>17. CycleSoFar'
  <2>1. Judged' = 1..turn /\ Stored' = 1..turn
    BY <1>4, <1>11 DEF Judged, Stored
  <2>2. /\ \A n \in 1..turn : results'[ActiveBrokers[n]] \in Verdict
        /\ overall_healthy' = (\A n \in 1..turn : results'[ActiveBrokers[n]] \in Fine)
    BY <1>1, <1>2, <1>3, <1>6 DEF CycleSoFar
  <2>3. ASSUME NEW n \in 1..turn
        PROVE  /\ published'[ActiveBrokers[n]] # None
               /\ published'[ActiveBrokers[n]].verdict = results'[ActiveBrokers[n]]
    <3>1. CASE n = turn
      BY <1>2, <1>4, <1>8, <1>9, <3>1, NoneIsNoReport
    <3>2. CASE n # turn
      <4>1. n \in 1..(turn - 1) /\ n \in 1..Len(ActiveBrokers)
        BY <1>4, <3>2
      <4>2. ActiveBrokers[n] \in Broker \ {broker}
        BY <1>4, <3>2, <4>1, OneTurnEach
      <4> QED BY <1>1, <1>2, <1>6, <1>8, <4>1, <4>2 DEF CycleSoFar
    <3> QED BY <3>1, <3>2
  <2> QED BY <2>1, <2>2, <2>3 DEF CycleSoFar
<1>18. AggregateSumsUp'
  BY <1>1, <1>2, <1>11 DEF AggregateSumsUp
<1> QED BY <1>12, <1>14, <1>15, <1>16, <1>17, <1>18 DEF MonitoringInv

\* The aggregate is made when every broker has its verdict and its record.
LEMMA AggregateInv ==
    ASSUME MonitoringInv, Aggregate
    PROVE  MonitoringInv'
<1>1. TypeOK /\ Underway /\ CycleSoFar
  BY DEF MonitoringInv
<1>2. /\ mon_pc = "aggregate" /\ mon_pc' = "sleep" /\ FreshCycle
      /\ aggregate' = [healthy |-> overall_healthy, results |-> results]
      /\ UNCHANGED <<now, last, records, start_time, published, faults>>
  BY DEF Aggregate, Looping
<1>3. Judged = 1..Len(ActiveBrokers) /\ Stored = 1..Len(ActiveBrokers)
  BY <1>1, <1>2 DEF Underway, Judged, Stored
<1>4. /\ \A b \in Broker : results[b] \in Verdict
      /\ \A b \in Broker : published[b] # None /\ published[b].verdict = results[b]
  BY <1>1, <1>3, OneTurnEach DEF CycleSoFar
<1>5. overall_healthy = (\A b \in Broker : results[b] \in Fine)
  <2>1. (\A n \in 1..Len(ActiveBrokers) : results[ActiveBrokers[n]] \in Fine)
          <=> (\A b \in Broker : results[b] \in Fine)
    BY OneTurnEach
  <2>2. overall_healthy = (\A n \in 1..Len(ActiveBrokers) : results[ActiveBrokers[n]] \in Fine)
    BY <1>1, <1>3 DEF CycleSoFar
  <2> QED BY <2>1, <2>2
<1>6. overall_healthy \in BOOLEAN /\ results \in [Broker -> Verdict]
  BY <1>1, <1>4 DEF TypeOK
<1>7. RedisType'
  <2>1. published' \in [Broker -> Report \cup {None}]
    BY <1>1, <1>2 DEF TypeOK
  <2>2. aggregate' \in [healthy : BOOLEAN, results : [Broker -> Verdict]]
    BY <1>2, <1>6, Zenon
  <2> QED BY <2>1, <2>2 DEF RedisType
<1>8. AggregateSumsUp'
  <2>1. aggregate'.results = results
    BY <1>2
  <2>2. aggregate'.healthy = overall_healthy
    BY <1>2, Zenon
  <2>3. \A v \in Verdict : v \in Fine <=> v \notin {"degraded", "critical", "error"}
    BY DEF Verdict, Fine
  <2>4. (\A b \in Broker : results[b] \in Fine)
          <=> (\A b \in Broker : results[b] \notin {"degraded", "critical", "error"})
    BY <1>4, <2>3
  <2>5. aggregate'.healthy <=>
          \A b \in Broker : aggregate'.results[b] \notin {"degraded", "critical", "error"}
    BY <1>5, <2>1, <2>2, <2>4
  <2>6. \A b \in Broker : published'[b] # None /\ published'[b].verdict = aggregate'.results[b]
    BY <1>2, <1>4, <2>1
  <2> QED BY <2>5, <2>6 DEF AggregateSumsUp
<1>9. faults' \in 0..MaxFaults
  BY <1>1, <1>2 DEF TypeOK
<1> QED BY <1>2, <1>7, <1>8, <1>9, FreshCycleInv

-----------------------------------------------------------------------------
(* The theorems.                                                           *)

\* The invariant holds when the API starts the monitor.
LEMMA InitInv ==
    ASSUME Init
    PROVE  MonitoringInv
<1>1. /\ mon_pc = "validate" /\ turn = 1 /\ begun = None /\ healthy = {}
      /\ results = [b \in Broker |-> None] /\ published = [b \in Broker |-> None]
      /\ aggregate = None /\ faults = 0 /\ now = FirstMoment /\ start_time = FirstMoment
      /\ records = 0 /\ last = [k \in Key |-> None]
  BY DEF Init
<1>2. overall_healthy = TRUE
  BY DEF Init
<1>3. TypeOK
  <2>1. /\ now \in Moment /\ records \in 0..MaxRecords /\ start_time \in FirstMoment..now
        /\ faults \in 0..MaxFaults
    BY <1>1, Moments, MonitoringAssumption, FaultsAssumption DEF Moment
  <2>2. /\ last \in [Key -> Moment \cup {None}]
        /\ results \in [Broker -> Verdict \cup {None}]
        /\ published \in [Broker -> Report \cup {None}]
        /\ turn \in DOMAIN ActiveBrokers
    BY <1>1, OneTurnEach
  <2>3. overall_healthy \in BOOLEAN
    BY <1>2
  <2> QED BY <1>1, <2>1, <2>2, <2>3 DEF TypeOK
<1>4. Underway
  BY <1>1 DEF Underway, StagePc
<1>5. FoundLive
  BY <1>1 DEF FoundLive
<1>6. Reported
  BY <1>1 DEF Reported
<1>7. CycleSoFar
  <2>1. Judged = {} /\ Stored = {}
    BY <1>1 DEF Judged, Stored
  <2> QED BY <1>2, <2>1 DEF CycleSoFar
<1>8. AggregateSumsUp
  BY <1>1 DEF AggregateSumsUp
<1> QED BY <1>3, <1>4, <1>5, <1>6, <1>7, <1>8 DEF MonitoringInv

\* Every step keeps it.
LEMMA StepInv == MonitoringInv /\ [Next]_vars => MonitoringInv'
<1> SUFFICES ASSUME MonitoringInv, [Next]_vars
             PROVE  MonitoringInv'
  OBVIOUS
<1>1. CASE Advance \/ (\E k \in Key : RecordActivity(k)) \/ RecordStrategies
  BY <1>1, EnvironmentInv
<1>2. CASE Start \/ Wake
  BY <1>2, BeginInv
<1>3. CASE CycleFails \/ Stop
  BY <1>3, CycleEndsInv
<1>4. CASE Validate
  BY <1>4, ValidateInv
<1>5. CASE Store
  BY <1>5, StoreInv
<1>6. CASE Aggregate
  BY <1>6, AggregateInv
<1>7. CASE UNCHANGED vars
  <2>1. UNCHANGED monitor_vars /\ UNCHANGED <<now, last, records, start_time>>
    BY <1>7 DEF vars, cycle_vars, redis_vars, monitor_vars
  <2>2. ClockType' /\ LastMoves /\ now <= now'
    BY <2>1, TypeParts, NothingMoves DEF MonitoringInv, ClockType
  <2> QED BY <2>1, <2>2, WorldMoves
<1> QED BY <1>1, <1>2, <1>3, <1>4, <1>5, <1>6, <1>7 DEF Next, MonitorStep

\* So it holds throughout.
LEMMA InvHolds == Spec => []MonitoringInv
BY InitInv, StepInv, PTL DEF Spec

\* The monitor's variables and what it keeps in Redis have their types: in
\* particular a report is begun before it is made, and the results that
\* _monitoring_loop aggregates are complete.
THEOREM TypesHold == Spec => []TypeOK
<1>1. MonitoringInv => TypeOK
  BY DEF MonitoringInv
<1> QED BY <1>1, InvHolds, PTL

(***************************************************************************)
(* A "healthy" that validate_end_to_end_flow put together over several     *)
(* reads of Redis, while services recorded and time passed, can be relied  *)
(* on: the market was closed at a moment of the validation, or ticks and   *)
(* signals had come within the thresholds of its begin, or the broker's    *)
(* strategies were not counted all the time.                               *)
(***************************************************************************)
THEOREM HealthyIsLive == Spec => []HealthyMeansLive
<1>1. MonitoringInv => HealthyMeansLive
  <2> SUFFICES ASSUME MonitoringInv, NEW b \in Broker, published[b] # None,
                      published[b].verdict = "healthy"
               PROVE  \/ \E m \in published[b].begun..published[b].at : ~is_market_open(m)
                      \/ /\ b \in TradingEnabled
                         /\ Since(Ticks, published[b].begun - TickLatency)
                         /\ \/ Since(<<"signals", b>>, published[b].begun - SignalLatency)
                            \/ ~CountedThroughout(b, published[b])
    BY DEF HealthyMeansLive
  <2> DEFINE from == published[b].begun
             to == published[b].at
             k == <<"strategies", b>>
  <2>1. TypeOK /\ Live(b, from, to)
    BY DEF MonitoringInv, Reported
  <2>2. from \in Nat /\ to \in Nat
    BY <2>1, Moments DEF TypeOK, Report
  <2>3. StrategyCount[b] \in Nat /\ MetricsTtl \in Nat
    BY MonitoringAssumption
  <2>4. ASSUME b \in TradingEnabled, Uncounted(b, from, to)
        PROVE  ~CountedThroughout(b, published[b])
    <3>1. last[k] = None \/ last[k] \in Nat
      BY <2>1, <2>4, Keys, Moments DEF TypeOK
    <3> HIDE DEF from, to
    <3>2. ~(/\ StrategyCount[b] > 0 /\ last[k] # None
            /\ last[k] < from /\ to < last[k] + MetricsTtl)
      BY <2>2, <2>3, <2>4, <3>1 DEF Uncounted
    <3> QED BY <3>2 DEF CountedThroughout, from, to
  <2> QED BY <2>1, <2>4 DEF Live, TicksLive, SignalsLive, Closed
<1> QED BY <1>1, InvHolds, PTL

(***************************************************************************)
(* The aggregate that _monitoring_loop publishes is of one cycle and sums  *)
(* it up, whatever earlier cycles were cut short by a failing setex, by    *)
(* stop() or by a crash.                                                   *)
(***************************************************************************)
THEOREM AggregateIsSum == Spec => []AggregateSumsUp
<1>1. MonitoringInv => AggregateSumsUp
  BY DEF MonitoringInv
<1> QED BY <1>1, InvHolds, PTL

===============================================================================
