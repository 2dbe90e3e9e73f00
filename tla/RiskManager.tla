----------------------------- MODULE RiskManager -----------------------------
(***************************************************************************)
(* services/risk_manager: one consumption loop over the raw topics of all  *)
(* brokers and the market ticks.  A signal is judged against the state     *)
(* kept in Redis (state.py) by three rules (rules.py) and republished as   *)
(* validated or rejected on its own broker's topic.                        *)
(*                                                                         *)
(* Every step up to an await is one action.  Redis outlives a crash of the *)
(* process.  The position rule sees no position: update_position has no    *)
(* caller, so the Redis collection it reads is always empty.  The model    *)
(* covers one trading day.                                                 *)
(***************************************************************************)
EXTENDS SignalTopics

VARIABLES
    recent_price,   \* Redis: recent_price_<instrument>, None when absent
    counters,       \* Redis: daily_trades_*
    risk_pc,        \* the await the handler is suspended at
    risk_ref,       \* the signal being handled
    passed,         \* validation_result["passed"]
    risk_acked,     \* signals acknowledged
    risk_ticks      \* ticks acknowledged

risk_vars ==
    <<recent_price, counters, risk_pc, risk_ref, passed, risk_acked, risk_ticks>>

\* The keys of the daily counters: state.py writes one per broker and strategy,
\* rules.py reads one per strategy.
CounterKey == (Broker \cup {"any"}) \X Strategy
increment_key(b, s) == <<b, s>>
rule_key(s) == <<"any", s>>

RiskTypeOK ==
    /\ recent_price \in [Instrument -> TickPrice \cup {None}]
    /\ counters \in [CounterKey -> Nat]
    /\ risk_pc \in {"idle", "emit", "count", "return"}
    /\ risk_ref \in SignalRef \cup {None}
    /\ passed \in BOOLEAN
    /\ risk_acked \subseteq SignalRef
    /\ risk_ticks \subseteq Positive

RiskInit ==
    /\ recent_price = [i \in Instrument |-> None]
    /\ counters = [k \in CounterKey |-> 0]
    /\ risk_pc = "idle"
    /\ risk_ref = None
    /\ passed = FALSE
    /\ risk_acked = {}
    /\ risk_ticks = {}

-----------------------------------------------------------------------------
(* The rules.                                                              *)

Abs(n) == IF n < 0 THEN -n ELSE n

\* The current position is 0, so buying and selling come to the same.
MaxPositionSizeRule(s) == s.quantity <= max_position

MaxDailyTradesRule(s) == counters[rule_key(s.strategy)] < max_daily_trades

\* At most 10 percent away from the recent price, when there are both.
WithinBand(price, recent) ==
    \/ price = None
    \/ recent = None
    \/ 10 * Abs(price - recent) <= recent

PriceLimitRule(s) == WithinBand(s.price, recent_price[s.instrument])

evaluate_signal(s) ==
    MaxPositionSizeRule(s) /\ MaxDailyTradesRule(s) /\ PriceLimitRule(s)

-----------------------------------------------------------------------------
(* _handle_trading_signal.                                                 *)

\* get_state and the rules.  A read of Redis that raises leaves nothing behind.
EvaluateSignal(ref) ==
    /\ risk_pc = "idle"
    /\ ref \in RawSignals \ risk_acked
    /\ risk_pc' = "emit"
    /\ risk_ref' = ref
    /\ passed' = evaluate_signal(SignalOf(ref))
    /\ UNCHANGED <<recent_price, counters, risk_acked, risk_ticks>>
    /\ UNCHANGED <<topic_vars, faults, crashes>>

\* Mutant of verdict_topic: the namespace the state manager was last
\* initialised with decides the broker.
last_namespace(ref) == "zerodha"

\* The broker comes from the topic the signal was read from.
verdict_topic(ref) == ref[1]

SendVerdict ==
    /\ ticks' = ticks /\ raw' = raw
    /\ validated' = IF passed THEN Send(validated, verdict_topic(risk_ref), risk_ref)
                              ELSE validated
    /\ rejected' = IF passed THEN rejected
                             ELSE Send(rejected, verdict_topic(risk_ref), risk_ref)

increment == [counters EXCEPT ![increment_key(risk_ref[1], SignalOf(risk_ref).strategy)] = @ + 1]

\* _emit_validated_signal, _emit_rejected_signal; failing metrics are swallowed.
EmitVerdict ==
    /\ risk_pc = "emit"
    /\ SendVerdict
    /\ risk_pc' = IF passed THEN "count" ELSE "return"
    /\ UNCHANGED <<recent_price, counters, risk_ref, passed, risk_acked, risk_ticks>>
    /\ UNCHANGED <<faults, crashes>>

\* _update_risk_state_for_signal
CountTrade ==
    /\ risk_pc = "count"
    /\ counters' = increment
    /\ risk_pc' = "return"
    /\ UNCHANGED <<recent_price, risk_ref, passed, risk_acked, risk_ticks>>
    /\ UNCHANGED <<topic_vars, faults, crashes>>

\* Back to the loop, which no longer holds a signal.
RiskIdle ==
    /\ risk_pc' = "idle"
    /\ risk_ref' = None
    /\ passed' = FALSE

RiskReturn ==
    /\ risk_pc = "return"
    /\ risk_acked' = risk_acked \cup {risk_ref}
    /\ RiskIdle
    /\ UNCHANGED <<recent_price, counters, risk_ticks>>
    /\ UNCHANGED <<topic_vars, faults, crashes>>

\* Mutant of EmitRaises: the failed emission is only logged, as the trading
\* services do it.
EmitSwallowed ==
    /\ risk_pc = "emit"
    /\ Fault
    /\ risk_acked' = risk_acked \cup {risk_ref}
    /\ RiskIdle
    /\ UNCHANGED <<recent_price, counters, risk_ticks, topic_vars, crashes>>

\* The send raises, whether or not the broker has stored the message.
EmitRaises ==
    /\ risk_pc = "emit"
    /\ Fault
    /\ SendVerdict \/ UNCHANGED topic_vars
    /\ RiskIdle
    /\ UNCHANGED <<recent_price, counters, risk_acked, risk_ticks, crashes>>

\* Mutant of CountRaises: a counter that cannot be written is no reason to fail.
CountSwallowed ==
    /\ risk_pc = "count"
    /\ Fault
    /\ risk_pc' = "return"
    /\ UNCHANGED <<recent_price, counters, risk_ref, passed, risk_acked, risk_ticks>>
    /\ UNCHANGED <<topic_vars, crashes>>

\* incr or the expire after it raises.
CountRaises ==
    /\ risk_pc = "count"
    /\ Fault
    /\ counters' \in {counters, increment}
    /\ RiskIdle
    /\ UNCHANGED <<recent_price, risk_acked, risk_ticks, topic_vars, crashes>>

\* The handler returned but marking or committing its message raised.
RiskUnacknowledged ==
    /\ risk_pc = "return"
    /\ Fault
    /\ RiskIdle
    /\ UNCHANGED <<recent_price, counters, risk_acked, risk_ticks, topic_vars, crashes>>

-----------------------------------------------------------------------------
(* _handle_market_tick: update_recent_price.                               *)

\* Mutant of RiskTick: the ticks have a consumption loop of their own.
RiskTickAnyTime(t) ==
    /\ t \in DOMAIN ticks \ risk_ticks
    /\ recent_price' = [recent_price EXCEPT ![ticks[t].instrument] = ticks[t].price]
    /\ risk_ticks' = risk_ticks \cup {t}
    /\ UNCHANGED <<counters, risk_pc, risk_ref, passed, risk_acked>>
    /\ UNCHANGED <<topic_vars, faults, crashes>>

RiskTick(t) ==
    /\ risk_pc = "idle"
    /\ t \in DOMAIN ticks \ risk_ticks
    /\ recent_price' = [recent_price EXCEPT ![ticks[t].instrument] = ticks[t].price]
    /\ risk_ticks' = risk_ticks \cup {t}
    /\ UNCHANGED <<counters, risk_pc, risk_ref, passed, risk_acked>>
    /\ UNCHANGED <<topic_vars, faults, crashes>>

\* set, the expire after it or the bookkeeping raises: the price may be stored,
\* and the tick may be handled again after later ones.
RiskTickRaises(t) ==
    /\ risk_pc = "idle"
    /\ t \in DOMAIN ticks \ risk_ticks
    /\ Fault
    /\ recent_price' = [recent_price EXCEPT ![ticks[t].instrument] = ticks[t].price]
    /\ UNCHANGED <<counters, risk_pc, risk_ref, passed, risk_acked, risk_ticks>>
    /\ UNCHANGED <<topic_vars, crashes>>

\* Mutant of PriceExpires: a missing price counts as zero.
PriceExpiresToZero(i) ==
    /\ recent_price[i] # None
    /\ recent_price' = [recent_price EXCEPT ![i] = 0]
    /\ UNCHANGED <<counters, risk_pc, risk_ref, passed, risk_acked, risk_ticks>>
    /\ UNCHANGED <<topic_vars, faults, crashes>>

\* Redis drops a recent price after an hour without a tick.
PriceExpires(i) ==
    /\ recent_price[i] # None
    /\ recent_price' = [recent_price EXCEPT ![i] = None]
    /\ UNCHANGED <<counters, risk_pc, risk_ref, passed, risk_acked, risk_ticks>>
    /\ UNCHANGED <<topic_vars, faults, crashes>>

RiskRestart ==
    /\ RiskIdle
    /\ UNCHANGED <<recent_price, counters, risk_acked, risk_ticks>>

RiskNext ==
    \/ \E ref \in RawSignals : EvaluateSignal(ref)
    \/ EmitVerdict
    \/ EmitRaises
    \/ CountTrade
    \/ CountRaises
    \/ RiskReturn
    \/ RiskUnacknowledged
    \/ \E t \in DOMAIN ticks : RiskTick(t) \/ RiskTickRaises(t)
    \/ \E i \in Instrument : PriceExpires(i)

=============================================================================
