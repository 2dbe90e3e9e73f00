---------------------------- MODULE SignalTopics ----------------------------
(***************************************************************************)
(* What the services of the signal pipeline share: the topics between them *)
(* (core/schemas/topics.py), as append-only logs, and the budget of faults.*)
(*                                                                         *)
(*    market.ticks -> strategy runner -> <broker>.signals.raw              *)
(*                 -> risk manager    -> <broker>.signals.validated        *)
(*                                    -> <broker>.signals.rejected         *)
(*                 -> paper trading / zerodha trading                      *)
(*                                                                         *)
(* Every service consumes through the reliability layer (see               *)
(* ReliabilityLayer and AccountedDelivery): an idle loop may be handed any *)
(* message it has not acknowledged; a delivery ends either acknowledged,   *)
(* after the handler returned, or unacknowledged, after something raised,  *)
(* and then the message may be handed out again or never.  The topics have *)
(* several partitions, so their order is no promise to a consumer.         *)
(***************************************************************************)
EXTENDS FaultBudget, Integers, Sequences, FiniteSets

CONSTANTS
    Strategy, Instrument,
    ActiveBrokers,             \* settings.active_brokers
    zerodha_trading_enabled,   \* the strategies configured for zerodha
    Watches,                   \* config.instruments of each strategy
    TickPrice,                 \* last_price values of market ticks
    SignalPrice, Quantity,     \* what a strategy may ask for
    None,                      \* Python's None
    max_position,              \* MaxPositionSizeRule, 1000 in the code
    max_daily_trades,          \* MaxDailyTradesRule, 50 in the code
    MaxTicks, MaxSignals, MaxCrashes   \* bounds

Broker == {"paper", "zerodha"}
Positive == Nat \ {0}

ASSUME PipelineAssumption ==
    /\ ActiveBrokers \subseteq Broker
    /\ zerodha_trading_enabled \subseteq Strategy
    /\ Watches \in [Strategy -> SUBSET Instrument]
    /\ TickPrice \subseteq Positive
    /\ SignalPrice \subseteq Positive \cup {None}
    /\ Quantity \subseteq Positive
    /\ None \notin Nat
    /\ max_position \in Nat
    /\ max_daily_trades \in Nat
    /\ MaxTicks \in Nat /\ MaxSignals \in Nat /\ MaxCrashes \in Nat

VARIABLES
    ticks,       \* market.ticks
    raw,         \* <broker>.signals.raw
    validated,   \* <broker>.signals.validated
    rejected,    \* <broker>.signals.rejected
    crashes      \* crashes of the process so far

topic_vars == <<ticks, raw, validated, rejected>>

Tick == [instrument : Instrument, price : TickPrice]

TradingSignal ==
    [strategy : Strategy, instrument : Instrument,
     price : SignalPrice, quantity : Quantity, tick : 1..MaxTicks]

\* A signal is referred to by its topic's broker and its place there.
SignalRef == Broker \X Positive

\* A verdict carries its signal; one that passed gets the time of its emission,
\* which its place in the topic stands for.
TopicsTypeOK ==
    /\ ticks \in Seq(Tick)
    /\ raw \in [Broker -> Seq(TradingSignal)]
    /\ validated \in [Broker -> Seq(SignalRef)]
    /\ rejected \in [Broker -> Seq(SignalRef)]
    /\ faults \in Nat
    /\ crashes \in Nat

TopicsInit ==
    /\ ticks = <<>>
    /\ raw = [b \in Broker |-> <<>>]
    /\ validated = [b \in Broker |-> <<>>]
    /\ rejected = [b \in Broker |-> <<>>]
    /\ faults = 0
    /\ crashes = 0

RawSignals == UNION {{b} \X DOMAIN raw[b] : b \in Broker}
SignalOf(ref) == raw[ref[1]][ref[2]]

\* Strategies with zerodha enabled trade there only, all others on paper.
Route(s) == IF s \in zerodha_trading_enabled THEN "zerodha" ELSE "paper"

\* MessageProducer.send
Send(topic, b, m) == [topic EXCEPT ![b] = Append(@, m)]

\* The market feed publishes a tick.
PublishTick(i, p) ==
    /\ Len(ticks) < MaxTicks
    /\ ticks' = Append(ticks, [instrument |-> i, price |-> p])
    /\ UNCHANGED <<raw, validated, rejected, faults, crashes>>

=============================================================================
