------------------------ MODULE SignalPipelineProofs ------------------------
(***************************************************************************)
(* Safety of the signal pipeline for every set of strategies, instruments, *)
(* prices and quantities, every limit, and every number of ticks, signals, *)
(* faults and crashes; and its refinement of TradeAuthorization.           *)
(***************************************************************************)
EXTENDS SignalPipeline, FiniteSetTheorems, TLAPS

-----------------------------------------------------------------------------
(* The inductive invariant.                                                *)

\* A reference to a signal some strategy has published.
Stored(ref) == ref \in SignalRef /\ ref[2] \in 1..Len(raw[ref[1]])

\* A topic of verdicts holds signals of its own broker.
OwnSignals(topic) ==
    \A b \in Broker : \A n \in 1..Len(topic[b]) : Stored(topic[b][n]) /\ topic[b][n][1] = b

\* Whatever is held or published refers to a message that exists.
References ==
    /\ Len(ticks) <= MaxTicks
    /\ runner_tick # 0 => runner_tick \in 1..Len(ticks)
    /\ risk_pc # "idle" => Stored(risk_ref)
    /\ \A ref \in risk_acked : Stored(ref)
    /\ OwnSignals(validated)
    /\ OwnSignals(rejected)
    /\ zerodha_job # 0 => zerodha_job \in 1..Len(validated["zerodha"])
    /\ \A n \in 1..Len(submitted) : submitted[n] \in 1..Len(validated["zerodha"])
    /\ paper_pc # "idle" => paper_job \in 1..Len(validated["paper"])
    /\ \A n \in 1..Len(fills) : fills[n] \in 1..Len(validated["paper"])

\* A strategy the tick in hand is due to is still pending until it is offered it.
DueIsPending == due \subseteq offered \cup pending

\* The verdict about to be sent still agrees with the rules: the recent price may
\* expire in between, but no tick is handled while a signal is.
VerdictCurrent ==
    risk_pc = "emit" /\ passed =>
        /\ MaxPositionSizeRule(SignalOf(risk_ref))
        /\ PriceLimitRule(SignalOf(risk_ref))

\* The signal in hand is not acknowledged yet and, once its verdict is sent,
\* stored on its broker's topic.
InHandAnswered ==
    /\ risk_pc # "idle" => risk_ref \notin risk_acked
    /\ risk_pc = "count" => passed /\ risk_ref \in SeqRange(validated[risk_ref[1]])
    /\ risk_pc = "return" =>
           IF passed THEN risk_ref \in SeqRange(validated[risk_ref[1]])
                     ELSE risk_ref \in SeqRange(rejected[risk_ref[1]])

\* 1 when the signal in hand is one of this broker and strategy, at this await.
InHand(pc, b, s) ==
    IF risk_pc = pc /\ passed /\ risk_ref[1] = b /\ SignalOf(risk_ref).strategy = s
    THEN 1 ELSE 0

\* The daily counters, with the emitted signal that is not counted yet and the
\* counted one that is not acknowledged yet.
CountedSoFar ==
    /\ IsFiniteSet(risk_acked)
    /\ \A b \in Broker, s \in Strategy :
           /\ counters[increment_key(b, s)] + InHand("count", b, s)
                <= Cardinality(ValidatedFor(b, s))
           /\ Cardinality(AcknowledgedTrades(b, s)) + InHand("return", b, s)
                <= counters[increment_key(b, s)]

\* The validated signals that may still bring an order event of this signal.
Waiting(ref) ==
    {j \in DOMAIN validated["zerodha"] :
        validated["zerodha"][j] = ref /\ j \notin zerodha_acked /\ j # zerodha_job}

\* 1 as long as the risk manager may still emit the signal.
Unemitted(ref) ==
    IF ref \in risk_acked \/ (risk_ref = ref /\ risk_pc \in {"count", "return"})
    THEN 0 ELSE 1

\* The order events of a signal with those that can still come without a fault.
OrdersSoFar ==
    \A ref \in SignalRef :
        Cardinality(OrdersOf(ref)) + Cardinality(Waiting(ref)) + Unemitted(ref)
          <= 1 + faults + crashes

\* The fills of a validated signal with the one about to be made: one for every
\* loss of its key and one for the key in memory.
FilledSoFar ==
    \A j \in 1..Len(validated["paper"]) :
        Times(j, fills) + (IF paper_pc = "fill" /\ paper_job = j THEN 1 ELSE 0)
          <= Times(IdempotenceKey(j), forgotten)
               + (IF IdempotenceKey(j) \in SeqRange(seen_queue) THEN 1 ELSE 0)

PipelineInv ==
    /\ TypeOK
    /\ References
    /\ DueIsPending
    /\ VerdictCurrent
    /\ InHandAnswered /\ AcknowledgedIsAnswered
    /\ CountedSoFar
    /\ OrdersSoFar
    /\ FilledSoFar

-----------------------------------------------------------------------------
(* The topics.                                                             *)

\* paper and zerodha are the brokers there are.
LEMMA Brokers == "paper" \in Broker /\ "zerodha" \in Broker
BY DEF Broker

\* A failure is counted.
LEMMA FaultType ==
    ASSUME faults \in Nat, Fault
    PROVE  faults' \in Nat
BY DEF Fault

\* What is in the log of a topic stays there, at its place.
Grows(old, new) ==
    \A b \in Broker : /\ Len(old[b]) <= Len(new[b])
                      /\ \A n \in 1..Len(old[b]) : new[b][n] = old[b][n]

(***************************************************************************)
(* MessageProducer.send appends one message to the log of one broker.      *)
(***************************************************************************)
LEMMA SendAppends ==
    ASSUME NEW T, NEW topic \in [Broker -> Seq(T)], NEW b \in Broker, NEW m \in T
    PROVE  LET sent == Send(topic, b, m) IN
           /\ sent \in [Broker -> Seq(T)]
           /\ Len(sent[b]) = Len(topic[b]) + 1
           /\ sent[b][Len(topic[b]) + 1] = m
           /\ \A c \in Broker : c # b => sent[c] = topic[c]
           /\ Grows(topic, sent)
<1> DEFINE sent == Send(topic, b, m)
<1>1. topic[b] \in Seq(T) /\ Len(topic[b]) \in Nat
  OBVIOUS
<1>2. sent[b] = Append(topic[b], m) /\ sent \in [Broker -> Seq(T)]
  BY <1>1 DEF Send
<1>3. \A c \in Broker : c # b => sent[c] = topic[c]
  BY DEF Send
<1>4. /\ Len(sent[b]) = Len(topic[b]) + 1
      /\ sent[b][Len(topic[b]) + 1] = m
      /\ \A n \in 1..Len(topic[b]) : sent[b][n] = topic[b][n]
  BY <1>1, <1>2
<1>5. ASSUME NEW c \in Broker
      PROVE  Len(topic[c]) <= Len(sent[c]) /\ \A n \in 1..Len(topic[c]) : sent[c][n] = topic[c][n]
  <2>1. CASE c = b
    BY <2>1, <1>1, <1>4
  <2>2. CASE c # b
    <3>1. sent[c] = topic[c] /\ Len(topic[c]) \in Nat
      BY <2>2, <1>3
    <3> QED
      BY <3>1
  <2> QED
    BY <2>1, <2>2
<1> QED
  BY <1>2, <1>3, <1>4, <1>5 DEF Grows

\* A log that is left alone has grown by nothing.
LEMMA GrowsRefl ==
    ASSUME NEW T, NEW topic \in [Broker -> Seq(T)]
    PROVE  Grows(topic, topic)
BY DEF Grows

\* The fields of a well-typed state that the topics are about.
LEMMA TopicTypes ==
    ASSUME TypeOK
    PROVE  /\ raw \in [Broker -> Seq(TradingSignal)]
           /\ validated \in [Broker -> Seq(SignalRef)]
           /\ rejected \in [Broker -> Seq(SignalRef)]
           /\ ticks \in Seq(Tick)
           /\ faults \in Nat /\ crashes \in Nat
BY DEF TypeOK, TopicsTypeOK

(***************************************************************************)
(* RawSignals are the references to stored signals.                        *)
(***************************************************************************)
LEMMA RawSignalsStored ==
    ASSUME TypeOK, NEW ref
    PROVE  ref \in RawSignals <=> Stored(ref)
<1>1. \A b \in Broker : DOMAIN raw[b] = 1..Len(raw[b]) /\ Len(raw[b]) \in Nat
  BY TopicTypes
<1>2. ASSUME ref \in RawSignals PROVE Stored(ref)
  <2>1. PICK b \in Broker : ref \in {b} \X DOMAIN raw[b]
    BY <1>2 DEF RawSignals
  <2>2. ref[1] = b /\ ref[2] \in 1..Len(raw[b]) /\ ref = <<ref[1], ref[2]>>
    BY <1>1, <2>1
  <2>3. ref[2] \in Positive
    BY <1>1, <2>2 DEF Positive
  <2> QED
    BY <2>2, <2>3 DEF Stored, SignalRef
<1>3. ASSUME Stored(ref) PROVE ref \in RawSignals
  <2>1. ref[1] \in Broker /\ ref = <<ref[1], ref[2]>> /\ ref[2] \in DOMAIN raw[ref[1]]
    BY <1>1, <1>3 DEF Stored, SignalRef
  <2>2. ref \in {ref[1]} \X DOMAIN raw[ref[1]]
    BY <2>1
  <2> QED
    BY <2>1, <2>2 DEF RawSignals
<1> QED
  BY <1>2, <1>3

(***************************************************************************)
(* A stored reference leads to a signal.                                   *)
(***************************************************************************)
LEMMA StoredSignal ==
    ASSUME TypeOK, NEW ref, Stored(ref)
    PROVE  SignalOf(ref) \in TradingSignal /\ ref[1] \in Broker
BY TopicTypes DEF Stored, SignalOf, SignalRef

(***************************************************************************)
(* A stored signal stays what it is while its topic grows.                 *)
(***************************************************************************)
LEMMA StoredStays ==
    ASSUME TypeOK, TopicsTypeOK', Grows(raw, raw'), NEW ref, Stored(ref)
    PROVE  Stored(ref)' /\ SignalOf(ref)' = SignalOf(ref)
<1>1. ref[1] \in Broker /\ ref[2] \in 1..Len(raw[ref[1]])
  BY DEF Stored, SignalRef
<1>2. Len(raw[ref[1]]) \in Nat /\ Len(raw'[ref[1]]) \in Nat
  <2>1. raw[ref[1]] \in Seq(TradingSignal)
    BY <1>1, TopicTypes
  <2>2. raw'[ref[1]] \in Seq(TradingSignal)
    BY <1>1 DEF TopicsTypeOK
  <2> QED
    BY <2>1, <2>2
<1> QED
  <2>1. /\ Len(raw[ref[1]]) <= Len(raw'[ref[1]])
        /\ raw'[ref[1]][ref[2]] = raw[ref[1]][ref[2]]
    BY <1>1 DEF Grows
  <2>2. ref[2] \in 1..Len(raw'[ref[1]])
    BY <1>1, <1>2, <2>1
  <2> QED
    BY <2>1, <2>2 DEF Stored, SignalOf

(***************************************************************************)
(* What the strategy runner publishes is a well-formed signal.             *)
(***************************************************************************)
LEMMA NewSignalType ==
    ASSUME TypeOK, References, runner_tick # 0,
           NEW s \in Strategy, NEW p \in SignalPrice, NEW q \in Quantity
    PROVE  NewSignal(s, p, q) \in TradingSignal
<1>1. runner_tick \in 1..Len(ticks) /\ runner_tick \in 1..MaxTicks
  BY PipelineAssumption, TopicTypes DEF References
<1>2. ticks[runner_tick] \in Tick
  BY <1>1, TopicTypes
<1> QED
  BY <1>1, <1>2 DEF NewSignal, TradingSignal, Tick

\* The steps that touch no topic of signals, publish a signal, or publish a
\* verdict, with what else they leave alone.
Quiet == UNCHANGED <<raw, validated, rejected>>

Published ==
    /\ \E s \in Strategy, p \in SignalPrice, q \in Quantity :
          /\ NewSignal(s, p, q) \in TradingSignal
          /\ raw' = Send(raw, Route(s), NewSignal(s, p, q))
    /\ UNCHANGED <<ticks, validated, rejected, faults, crashes>>
    /\ UNCHANGED <<risk_vars, zerodha_vars, paper_vars>>

Judged ==
    /\ risk_pc = "emit"
    /\ SendVerdict
    /\ UNCHANGED <<crashes, recent_price, counters, risk_acked>>
    /\ UNCHANGED <<runner_vars, zerodha_vars, paper_vars>>
    /\ \/ risk_pc' = (IF passed THEN "count" ELSE "return") /\ UNCHANGED <<risk_ref, passed>>
       \/ RiskIdle

(***************************************************************************)
(* Every step is of one of these kinds.                                    *)
(***************************************************************************)
LEMMA StepKinds ==
    ASSUME TypeOK, References, [Next]_vars
    PROVE  Quiet \/ Published \/ Judged
<1> USE DEF Quiet, topic_vars
<1>0. CASE UNCHANGED vars
  BY <1>0 DEF vars
<1>1. ASSUME NEW i \in Instrument, NEW p \in TickPrice, PublishTick(i, p) PROVE Quiet
  BY <1>1 DEF PublishTick
<1>2. CASE RunnerNext /\ UNCHANGED <<risk_vars, zerodha_vars, paper_vars>>
  <2>1. ASSUME NEW S \in SUBSET Strategy, LoadStrategies(S) PROVE Quiet
    BY <2>1 DEF LoadStrategies
  <2>2. ASSUME NEW k \in DOMAIN ticks, NEW open \in BOOLEAN, TakeTick(k, open) PROVE Quiet
    BY <2>2 DEF TakeTick
  <2>3. ASSUME NEW s \in Strategy, OfferDeclined(s) \/ OfferUnsent(s) PROVE Quiet
    BY <2>3 DEF OfferDeclined, OfferUnsent
  <2>4. ASSUME NEW s \in Strategy, NEW p \in SignalPrice, NEW q \in Quantity,
               OfferAnswered(s, p, q)
        PROVE  Quiet \/ Published
    <3>1. NewSignal(s, p, q) \in TradingSignal
      BY <2>4, NewSignalType DEF OfferAnswered, Offer
    <3>2. CASE Route(s) \in ActiveBrokers
      BY <1>2, <2>4, <3>1, <3>2 DEF OfferAnswered, Published
    <3>3. CASE Route(s) \notin ActiveBrokers
      BY <2>4, <3>3 DEF OfferAnswered
    <3> QED
      BY <3>2, <3>3
  <2>5. CASE RunnerReturn \/ RunnerUnacknowledged
    BY <2>5 DEF RunnerReturn, RunnerUnacknowledged
  <2> QED
    BY <1>2, <2>1, <2>2, <2>3, <2>4, <2>5 DEF RunnerNext
<1>3. CASE RiskNext /\ UNCHANGED <<runner_vars, zerodha_vars, paper_vars>>
  <2>1. CASE EmitVerdict \/ EmitRaises
    BY <1>3, <2>1 DEF EmitVerdict, EmitRaises, Judged
  <2>2. ASSUME NEW ref \in RawSignals, EvaluateSignal(ref) PROVE Quiet
    BY <2>2 DEF EvaluateSignal
  <2>3. CASE CountTrade \/ CountRaises \/ RiskReturn \/ RiskUnacknowledged
    BY <2>3 DEF CountTrade, CountRaises, RiskReturn, RiskUnacknowledged
  <2>4. ASSUME NEW k \in DOMAIN ticks, RiskTick(k) \/ RiskTickRaises(k) PROVE Quiet
    BY <2>4 DEF RiskTick, RiskTickRaises
  <2>5. ASSUME NEW i \in Instrument, PriceExpires(i) PROVE Quiet
    BY <2>5 DEF PriceExpires
  <2> QED
    BY <1>3, <2>1, <2>2, <2>3, <2>4, <2>5 DEF RiskNext
<1>4. CASE ZerodhaNext
  BY <1>4 DEF ZerodhaNext, PlaceOrder, PlaceOrderUnsent, DiscardInvalid, ZerodhaReturn, ZerodhaUnacknowledged
<1>5. CASE PaperNext
  BY <1>5 DEF PaperNext, PaperAdmit, PaperIgnore, PaperFill, PaperReturn, PaperRaises
<1>6. CASE Crash
  BY <1>6 DEF Crash
<1> QED
  BY <1>0, <1>1, <1>2, <1>3, <1>4, <1>5, <1>6 DEF Next

(***************************************************************************)
(* The broker a strategy is routed to is one of the two.                   *)
(***************************************************************************)
LEMMA RouteType == \A s \in Strategy : Route(s) \in Broker
BY Brokers DEF Route

(***************************************************************************)
(* A verdict appends the signal in hand to one topic of its own broker and *)
(* leaves the other alone.                                                 *)
(***************************************************************************)
LEMMA VerdictAppends ==
    ASSUME TypeOK, References, risk_pc = "emit", SendVerdict
    PROVE  LET b == risk_ref[1] IN
           /\ Stored(risk_ref) /\ b \in Broker
           /\ raw' = raw /\ ticks' = ticks
           /\ validated' \in [Broker -> Seq(SignalRef)] /\ rejected' \in [Broker -> Seq(SignalRef)]
           /\ Grows(validated, validated') /\ Grows(rejected, rejected')
           /\ passed => /\ rejected' = rejected
                        /\ Len(validated'[b]) = Len(validated[b]) + 1
                        /\ validated'[b][Len(validated[b]) + 1] = risk_ref
                        /\ \A c \in Broker : c # b => validated'[c] = validated[c]
           /\ ~passed => /\ validated' = validated
                         /\ Len(rejected'[b]) = Len(rejected[b]) + 1
                         /\ rejected'[b][Len(rejected[b]) + 1] = risk_ref
                         /\ \A c \in Broker : c # b => rejected'[c] = rejected[c]
<1>1. Stored(risk_ref) /\ risk_ref \in SignalRef /\ risk_ref[1] \in Broker
  BY DEF References, Stored, SignalRef
<1>2. raw' = raw /\ ticks' = ticks
  BY DEF SendVerdict
<1>3. CASE passed
  <2>1. validated' = Send(validated, risk_ref[1], risk_ref) /\ rejected' = rejected
    BY <1>3 DEF SendVerdict, verdict_topic
  <2>2. validated \in [Broker -> Seq(SignalRef)] /\ rejected \in [Broker -> Seq(SignalRef)]
    BY TopicTypes
  <2>3. /\ validated' \in [Broker -> Seq(SignalRef)]
        /\ Len(validated'[risk_ref[1]]) = Len(validated[risk_ref[1]]) + 1
        /\ validated'[risk_ref[1]][Len(validated[risk_ref[1]]) + 1] = risk_ref
        /\ \A c \in Broker : c # risk_ref[1] => validated'[c] = validated[c]
        /\ Grows(validated, validated')
    <3>1. ASSUME NEW b \in Broker, NEW m \in SignalRef
          PROVE  /\ Send(validated, b, m) \in [Broker -> Seq(SignalRef)]
                 /\ Len(Send(validated, b, m)[b]) = Len(validated[b]) + 1
                 /\ Send(validated, b, m)[b][Len(validated[b]) + 1] = m
                 /\ \A c \in Broker : c # b => Send(validated, b, m)[c] = validated[c]
                 /\ Grows(validated, Send(validated, b, m))
      BY <2>2, SendAppends
    <3> QED
      BY <1>1, <2>1, <3>1
  <2>4. Grows(rejected, rejected)
    BY <2>2, GrowsRefl
  <2> QED
    BY <1>1, <1>2, <1>3, <2>1, <2>2, <2>3, <2>4
<1>4. CASE ~passed
  <2>1. rejected' = Send(rejected, risk_ref[1], risk_ref) /\ validated' = validated
    BY <1>4 DEF SendVerdict, verdict_topic
  <2>2. validated \in [Broker -> Seq(SignalRef)] /\ rejected \in [Broker -> Seq(SignalRef)]
    BY TopicTypes
  <2>3. /\ rejected' \in [Broker -> Seq(SignalRef)]
        /\ Len(rejected'[risk_ref[1]]) = Len(rejected[risk_ref[1]]) + 1
        /\ rejected'[risk_ref[1]][Len(rejected[risk_ref[1]]) + 1] = risk_ref
        /\ \A c \in Broker : c # risk_ref[1] => rejected'[c] = rejected[c]
        /\ Grows(rejected, rejected')
    <3>1. ASSUME NEW b \in Broker, NEW m \in SignalRef
          PROVE  /\ Send(rejected, b, m) \in [Broker -> Seq(SignalRef)]
                 /\ Len(Send(rejected, b, m)[b]) = Len(rejected[b]) + 1
                 /\ Send(rejected, b, m)[b][Len(rejected[b]) + 1] = m
                 /\ \A c \in Broker : c # b => Send(rejected, b, m)[c] = rejected[c]
                 /\ Grows(rejected, Send(rejected, b, m))
      BY <2>2, SendAppends
    <3> QED
      BY <1>1, <2>1, <3>1
  <2>4. Grows(validated, validated)
    BY <2>2, GrowsRefl
  <2> QED
    BY <1>1, <1>2, <1>4, <2>1, <2>2, <2>3, <2>4
<1> QED
  BY <1>3, <1>4

(***************************************************************************)
(* The market ticks only grow, up to their bound.                          *)
(***************************************************************************)
LEMMA TicksGrow ==
    ASSUME TypeOK, References, [Next]_vars
    PROVE  ticks' \in Seq(Tick) /\ Len(ticks) <= Len(ticks') /\ Len(ticks') <= MaxTicks
<1>1. ticks \in Seq(Tick) /\ Len(ticks) \in Nat /\ Len(ticks) <= MaxTicks
  BY TopicTypes DEF References
<1>2. CASE ticks' = ticks
  BY <1>1, <1>2
<1>3. ASSUME NEW i \in Instrument, NEW p \in TickPrice, PublishTick(i, p)
      PROVE  ticks' \in Seq(Tick) /\ Len(ticks) <= Len(ticks') /\ Len(ticks') <= MaxTicks
  <2>1. [instrument |-> i, price |-> p] \in Tick
    BY DEF Tick
  <2> QED
    BY <1>1, <1>3, <2>1, PipelineAssumption DEF PublishTick
<1>4. CASE ~ \E i \in Instrument, p \in TickPrice : PublishTick(i, p)
  <2> USE <1>2 DEF topic_vars
  <2>1. CASE RunnerNext
    BY <2>1 DEF RunnerNext, LoadStrategies, TakeTick, OfferDeclined, OfferUnsent, OfferAnswered,
                RunnerReturn, RunnerUnacknowledged
  <2>2. CASE RiskNext
    BY <2>2 DEF RiskNext, EvaluateSignal, EmitVerdict, EmitRaises, SendVerdict, CountTrade,
                CountRaises, RiskReturn, RiskUnacknowledged, RiskTick, RiskTickRaises,
                PriceExpires
  <2>3. CASE ZerodhaNext
    BY <2>3 DEF ZerodhaNext, PlaceOrder, PlaceOrderUnsent, DiscardInvalid, ZerodhaReturn, ZerodhaUnacknowledged
  <2>4. CASE PaperNext
    BY <2>4 DEF PaperNext, PaperAdmit, PaperIgnore, PaperFill, PaperReturn, PaperRaises
  <2>5. CASE Crash \/ UNCHANGED vars
    BY <2>5 DEF Crash, vars
  <2> QED
    BY <1>4, <2>1, <2>2, <2>3, <2>4, <2>5 DEF Next
<1> QED
  BY <1>3, <1>4

(***************************************************************************)
(* The topics stay well typed and only grow, whatever step is taken.       *)
(***************************************************************************)
LEMMA TopicsGrow ==
    ASSUME TypeOK, References, [Next]_vars
    PROVE  /\ TopicsTypeOK'
           /\ Grows(raw, raw') /\ Grows(validated, validated') /\ Grows(rejected, rejected')
<1>1. faults' \in Nat /\ crashes' \in Nat
  <2> USE FaultType, TopicTypes DEF topic_vars
  <2>1. CASE UNCHANGED vars
    BY <2>1 DEF vars
  <2>2. ASSUME NEW i \in Instrument, NEW p \in TickPrice, PublishTick(i, p)
        PROVE  faults' \in Nat /\ crashes' \in Nat
    BY <2>2 DEF PublishTick
  <2>3. CASE RunnerNext
    BY <2>3 DEF RunnerNext, LoadStrategies, TakeTick, OfferDeclined, OfferUnsent, OfferAnswered,
                RunnerReturn, RunnerUnacknowledged
  <2>4. CASE RiskNext
    BY <2>4 DEF RiskNext, EvaluateSignal, EmitVerdict, EmitRaises, CountTrade, CountRaises,
                RiskReturn, RiskUnacknowledged, RiskTick, RiskTickRaises, PriceExpires
  <2>5. CASE ZerodhaNext
    BY <2>5 DEF ZerodhaNext, PlaceOrder, PlaceOrderUnsent, DiscardInvalid, ZerodhaReturn, ZerodhaUnacknowledged
  <2>6. CASE PaperNext
    BY <2>6 DEF PaperNext, PaperAdmit, PaperIgnore, PaperFill, PaperReturn, PaperRaises
  <2>7. CASE Crash
    BY <2>7 DEF Crash
  <2> QED
    BY <2>1, <2>2, <2>3, <2>4, <2>5, <2>6, <2>7 DEF Next
<1>2. ticks' \in Seq(Tick)
  BY TicksGrow
<1>3. CASE Quiet
  BY <1>1, <1>2, <1>3, TopicTypes, GrowsRefl DEF Quiet, TopicsTypeOK
<1>4. CASE Published
  <2>1. PICK s \in Strategy, sig \in TradingSignal : raw' = Send(raw, Route(s), sig)
    BY <1>4 DEF Published
  <2>2. raw' \in [Broker -> Seq(TradingSignal)] /\ Grows(raw, raw')
    BY <2>1, TopicTypes, SendAppends, RouteType
  <2>3. UNCHANGED <<validated, rejected>>
    BY <1>4 DEF Published
  <2> QED
    BY <1>1, <1>2, <2>2, <2>3, TopicTypes, GrowsRefl DEF TopicsTypeOK
<1>5. CASE Judged
  BY <1>1, <1>2, <1>5, VerdictAppends, TopicTypes, GrowsRefl DEF Judged, TopicsTypeOK
<1> QED
  BY <1>3, <1>4, <1>5, StepKinds

(***************************************************************************)
(* So the topics of validated signals never become shorter.                *)
(***************************************************************************)
LEMMA ValidatedGrows ==
    ASSUME TypeOK, References, [Next]_vars, NEW b \in Broker
    PROVE  /\ Len(validated[b]) \in Nat
           /\ Len(validated'[b]) \in Nat
           /\ Len(validated[b]) <= Len(validated'[b])
<1>1. validated[b] \in Seq(SignalRef)
  BY TopicTypes
<1>2. validated'[b] \in Seq(SignalRef)
  <2>1. TopicsTypeOK'
    BY TopicsGrow
  <2> QED
    BY <2>1 DEF TopicsTypeOK
<1>3. Grows(validated, validated')
  BY TopicsGrow
<1>4. Len(validated[b]) <= Len(validated'[b])
  BY <1>3 DEF Grows
<1> QED
  BY <1>1, <1>2, <1>4

-----------------------------------------------------------------------------
(* The strategy runner.                                                    *)

RunnerInv ==
    /\ RunnerTypeOK
    /\ runner_tick # 0 => runner_tick \in 1..Len(ticks)
    /\ DueIsPending

(***************************************************************************)
(* The loop over the interested strategies forgets none of them: whatever  *)
(* a strategy answers and whatever becomes of its signal, only the one     *)
(* that was offered the tick leaves the pending ones.                      *)
(***************************************************************************)
LEMMA StepRunner ==
    ASSUME TypeOK, References, DueIsPending, [Next]_vars
    PROVE  RunnerInv'
<1>1. RunnerInv
  BY DEF TypeOK, References, RunnerInv
<1>2. Len(ticks) \in Nat /\ Len(ticks') \in Nat /\ Len(ticks) <= Len(ticks')
  BY TicksGrow, TopicTypes
<1>3. DOMAIN ticks = 1..Len(ticks)
  BY TopicTypes
<1> USE <1>2 DEF RunnerInv, RunnerTypeOK, DueIsPending
<1>4. CASE UNCHANGED runner_vars
  BY <1>1, <1>4 DEF runner_vars
<1>5. CASE RunnerNext
  <2>1. ASSUME NEW S \in SUBSET Strategy, LoadStrategies(S) PROVE RunnerInv'
    <3>1. /\ loading' \in BOOLEAN /\ loaded' \subseteq Strategy
          /\ UNCHANGED <<runner_tick, pending, runner_acked, due, offered>>
      BY <2>1 DEF LoadStrategies
    <3> QED
      BY <1>1, <3>1
  <2>2. ASSUME NEW k \in DOMAIN ticks, NEW open \in BOOLEAN, TakeTick(k, open)
        PROVE  RunnerInv'
    <3>1. k \in 1..Len(ticks) /\ k \in Nat
      BY <1>3, <2>2
    <3>2. pending' \subseteq Strategy /\ due' = pending' /\ runner_tick' = k
      BY <1>1, <2>2 DEF TakeTick, Interested
    <3>3. UNCHANGED <<loading, loaded, runner_acked>> /\ offered' = {}
      BY <2>2 DEF TakeTick
    <3> QED
      BY <1>1, <3>1, <3>2, <3>3
  <2>3. ASSUME NEW s \in Strategy, Offer(s) PROVE RunnerInv'
    BY <1>1, <2>3 DEF Offer
  <2>4. CASE RunnerReturn \/ RunnerUnacknowledged
    <3>1. runner_tick \in Positive
      BY <1>1, <2>4 DEF RunnerReturn, RunnerUnacknowledged, Positive
    <3>2. /\ runner_tick' = 0 /\ pending' = {} /\ due' = {} /\ offered' = {}
          /\ UNCHANGED <<loading, loaded>>
          /\ runner_acked' \in {runner_acked, runner_acked \cup {runner_tick}}
      BY <2>4 DEF RunnerReturn, RunnerUnacknowledged, RunnerIdle
    <3>3. runner_acked' \subseteq Positive
      BY <1>1, <3>1, <3>2
    <3> QED
      BY <1>1, <3>2, <3>3
  <2> QED
    BY <1>5, <2>1, <2>2, <2>3, <2>4
       DEF RunnerNext, OfferDeclined, OfferUnsent, OfferAnswered
<1>6. CASE Crash
  BY <1>1, <1>6 DEF Crash, RunnerRestart, RunnerIdle
<1> QED
  BY <1>4, <1>5, <1>6 DEF Next, vars

-----------------------------------------------------------------------------
(* The risk manager.                                                       *)

(***************************************************************************)
(* Every step of the handlers and of Redis leaves the risk manager's state *)
(* well typed.                                                             *)
(***************************************************************************)
LEMMA StepRiskTypes ==
    ASSUME TypeOK, References, [Next]_vars
    PROVE  RiskTypeOK'
<1>1. RiskTypeOK
  BY DEF TypeOK
<1> USE DEF RiskTypeOK
<1>2. CASE UNCHANGED risk_vars
  BY <1>1, <1>2 DEF risk_vars
<1>3. ASSUME risk_pc # "idle"
      PROVE  /\ risk_ref \in SignalRef
             /\ increment \in [CounterKey -> Nat]
  <2>1. risk_ref \in SignalRef /\ risk_ref[1] \in Broker
    BY <1>3 DEF References, Stored, SignalRef
  <2>2. SignalOf(risk_ref).strategy \in Strategy
    BY <1>3, StoredSignal DEF References, TradingSignal
  <2>3. increment_key(risk_ref[1], SignalOf(risk_ref).strategy) \in CounterKey
    BY <2>1, <2>2 DEF increment_key, CounterKey
  <2> QED
    BY <1>1, <2>1, <2>3 DEF increment
<1>4. ASSUME NEW k \in DOMAIN ticks
      PROVE  /\ [recent_price EXCEPT ![ticks[k].instrument] = ticks[k].price]
                  \in [Instrument -> TickPrice \cup {None}]
             /\ k \in Positive
  <2>1. ticks[k] \in Tick /\ k \in Positive
    BY <1>4, TopicTypes DEF Positive
  <2> QED
    BY <1>1, <2>1 DEF Tick
<1>5. CASE RiskNext
  <2>1. ASSUME NEW ref \in RawSignals, EvaluateSignal(ref) PROVE RiskTypeOK'
    <3>1. ref \in SignalRef
      BY RawSignalsStored DEF Stored
    <3>2. passed' \in BOOLEAN
      BY <2>1 DEF EvaluateSignal, evaluate_signal
    <3> QED
      BY <1>1, <2>1, <3>1, <3>2 DEF EvaluateSignal
  <2>2. CASE EmitVerdict
    BY <1>1, <2>2 DEF EmitVerdict
  <2>3. CASE EmitRaises \/ RiskUnacknowledged
    BY <1>1, <2>3 DEF EmitRaises, RiskUnacknowledged, RiskIdle
  <2>4. CASE CountTrade
    BY <1>1, <1>3, <2>4 DEF CountTrade
  <2>5. CASE CountRaises
    BY <1>1, <1>3, <2>5 DEF CountRaises, RiskIdle
  <2>6. CASE RiskReturn
    BY <1>1, <1>3, <2>6 DEF RiskReturn, RiskIdle
  <2>7. ASSUME NEW k \in DOMAIN ticks, RiskTick(k) \/ RiskTickRaises(k) PROVE RiskTypeOK'
    BY <1>1, <1>4, <2>7 DEF RiskTick, RiskTickRaises
  <2>8. ASSUME NEW i \in Instrument, PriceExpires(i) PROVE RiskTypeOK'
    BY <1>1, <2>8 DEF PriceExpires
  <2> QED
    BY <1>5, <2>1, <2>2, <2>3, <2>4, <2>5, <2>6, <2>7, <2>8 DEF RiskNext
<1>6. CASE Crash
  BY <1>1, <1>6 DEF Crash, RiskRestart, RiskIdle
<1> QED
  BY <1>2, <1>5, <1>6 DEF Next, vars

\* The steps that leave the signal in hand and the verdicts alone; a price may
\* expire meanwhile, and change in any way while no signal is in hand.
RiskRests ==
    /\ UNCHANGED <<risk_pc, risk_ref, passed, risk_acked, counters, validated, rejected>>
    /\ \/ risk_pc = "idle"
       \/ UNCHANGED recent_price
       \/ \E i \in Instrument : recent_price' = [recent_price EXCEPT ![i] = None]

\* The steps that give the signal in hand back without acknowledging it.
RiskDrops ==
    /\ RiskIdle
    /\ UNCHANGED <<raw, validated, rejected, risk_acked, recent_price>>
    /\ counters' = counters \/ (risk_pc = "count" /\ counters' = increment)

(***************************************************************************)
(* For the risk manager every step is of one of these kinds.               *)
(***************************************************************************)
LEMMA RiskKinds ==
    ASSUME TypeOK, References, [Next]_vars
    PROVE  \/ RiskRests \/ RiskDrops
           \/ \E ref \in RawSignals : EvaluateSignal(ref)
           \/ Judged \/ CountTrade \/ RiskReturn
<1>1. CASE RiskNext /\ UNCHANGED <<runner_vars, zerodha_vars, paper_vars>>
  <2>1. CASE EmitVerdict
    BY <1>1, <2>1 DEF EmitVerdict, Judged
  <2>2. CASE EmitRaises
    BY <1>1, <2>2 DEF EmitRaises, Judged, RiskDrops, topic_vars
  <2>3. CASE CountRaises \/ RiskUnacknowledged
    BY <2>3 DEF CountRaises, RiskUnacknowledged, RiskDrops, topic_vars
  <2>4. ASSUME NEW k \in DOMAIN ticks, RiskTick(k) \/ RiskTickRaises(k) PROVE RiskRests
    BY <2>4 DEF RiskTick, RiskTickRaises, RiskRests, topic_vars
  <2>5. ASSUME NEW i \in Instrument, PriceExpires(i) PROVE RiskRests
    BY <2>5 DEF PriceExpires, RiskRests, topic_vars
  <2> QED
    BY <1>1, <2>1, <2>2, <2>3, <2>4, <2>5 DEF RiskNext
<1>2. CASE Crash
  BY <1>2 DEF Crash, RiskRestart, RiskDrops, topic_vars
<1>3. CASE UNCHANGED <<risk_vars, validated, rejected>>
  BY <1>3 DEF RiskRests, risk_vars
<1>4. CASE RunnerNext /\ UNCHANGED risk_vars
  <2>1. UNCHANGED <<validated, rejected>>
    BY <1>4 DEF RunnerNext, LoadStrategies, TakeTick, OfferDeclined, OfferUnsent, OfferAnswered,
                RunnerReturn, RunnerUnacknowledged, topic_vars
  <2> QED
    BY <1>3, <1>4, <2>1
<1>5. CASE ZerodhaNext /\ UNCHANGED risk_vars
  <2>1. UNCHANGED <<validated, rejected>>
    BY <1>5 DEF ZerodhaNext, PlaceOrder, PlaceOrderUnsent, DiscardInvalid, ZerodhaReturn,
                ZerodhaUnacknowledged, topic_vars
  <2> QED
    BY <1>3, <1>5, <2>1
<1>6. CASE PaperNext /\ UNCHANGED risk_vars
  <2>1. UNCHANGED <<validated, rejected>>
    BY <1>6 DEF PaperNext, PaperAdmit, PaperIgnore, PaperFill, PaperReturn, PaperRaises,
                topic_vars
  <2> QED
    BY <1>3, <1>6, <2>1
<1> QED
  BY <1>1, <1>2, <1>3, <1>4, <1>5, <1>6 DEF Next, PublishTick, vars, topic_vars

(***************************************************************************)
(* What a topic holds it keeps holding.                                    *)
(***************************************************************************)
LEMMA RangeGrows ==
    ASSUME NEW T, NEW old \in [Broker -> Seq(T)], NEW new \in [Broker -> Seq(T)],
           Grows(old, new), NEW b \in Broker
    PROVE  SeqRange(old[b]) \subseteq SeqRange(new[b])
<1>1. old[b] \in Seq(T) /\ new[b] \in Seq(T) /\ Len(old[b]) \in Nat /\ Len(new[b]) \in Nat
  OBVIOUS
<1>2. DOMAIN old[b] = 1..Len(old[b]) /\ DOMAIN new[b] = 1..Len(new[b])
  BY <1>1
<1> QED
  BY <1>1, <1>2 DEF Grows, SeqRange

\* An element of a sequence is in its range.
LEMMA InRange ==
    ASSUME NEW T, NEW seq \in Seq(T), NEW n \in 1..Len(seq)
    PROVE  seq[n] \in SeqRange(seq)
BY DEF SeqRange

RiskReferences ==
    /\ risk_pc # "idle" => Stored(risk_ref)
    /\ \A ref \in risk_acked : Stored(ref)
    /\ OwnSignals(validated)
    /\ OwnSignals(rejected)

(***************************************************************************)
(* What the risk manager holds, acknowledges and publishes is stored.      *)
(***************************************************************************)
LEMMA StepRiskReferences ==
    ASSUME TypeOK, References, [Next]_vars
    PROVE  RiskReferences'
<1>1. RiskReferences
  BY DEF References, RiskReferences
<1>2. \A ref : Stored(ref) => Stored(ref)'
  BY TopicsGrow, StoredStays
<1>3. risk_pc' # "idle" => Stored(risk_ref)'
  <2>1. CASE UNCHANGED <<risk_pc, risk_ref>>
    BY <1>1, <1>2, <2>1 DEF RiskReferences
  <2>2. ASSUME NEW ref \in RawSignals, EvaluateSignal(ref) PROVE Stored(risk_ref)'
    <3>1. risk_ref' = ref /\ Stored(ref)
      BY <2>2, RawSignalsStored DEF EvaluateSignal
    <3>2. Stored(ref)'
      BY <1>2, <3>1
    <3> QED
      BY <3>1, <3>2 DEF Stored
  <2>3. CASE risk_pc # "idle" /\ risk_ref' = risk_ref
    BY <1>1, <1>2, <2>3 DEF RiskReferences, Stored
  <2> QED
    BY <2>1, <2>2, <2>3, RiskKinds
       DEF RiskRests, RiskDrops, RiskIdle, Judged, CountTrade, RiskReturn
<1>4. ASSUME NEW ref \in risk_acked' PROVE Stored(ref)'
  <2>1. CASE ref \in risk_acked
    BY <1>1, <1>2, <2>1 DEF RiskReferences
  <2>2. CASE RiskReturn /\ ref = risk_ref
    BY <1>1, <1>2, <2>2 DEF RiskReferences, RiskReturn
  <2> QED
    BY <1>4, <2>1, <2>2, RiskKinds
       DEF RiskRests, RiskDrops, EvaluateSignal, Judged, CountTrade, RiskReturn
<1>5. OwnSignals(validated)' /\ OwnSignals(rejected)'
  <2>1. CASE UNCHANGED <<validated, rejected>>
    BY <1>1, <1>2, <2>1 DEF RiskReferences, OwnSignals
  <2>2. CASE Judged
    <3> DEFINE b == risk_ref[1]
    <3>0. b \in Broker /\ Stored(risk_ref)
      BY <2>2, VerdictAppends DEF Judged
    <3>1. \A c \in Broker : Len(validated[c]) \in Nat /\ Len(rejected[c]) \in Nat
      BY TopicTypes
    <3>2. CASE passed
      <4>1. /\ rejected' = rejected
            /\ Len(validated'[b]) = Len(validated[b]) + 1
            /\ validated'[b][Len(validated[b]) + 1] = risk_ref
            /\ \A c \in Broker : c # b => validated'[c] = validated[c]
            /\ Grows(validated, validated')
        BY <2>2, <3>2, VerdictAppends DEF Judged
      <4>2. ASSUME NEW c \in Broker, NEW n \in 1..Len(validated'[c])
            PROVE  Stored(validated'[c][n]) /\ validated'[c][n][1] = c
        <5>1. CASE n \in 1..Len(validated[c])
          BY <1>1, <4>1, <5>1 DEF RiskReferences, OwnSignals, Grows
        <5>2. CASE c = b /\ n = Len(validated[b]) + 1
          BY <3>0, <4>1, <5>2
        <5> QED
          BY <3>0, <3>1, <4>1, <5>1, <5>2
      <4> QED
        BY <1>1, <1>2, <4>1, <4>2 DEF RiskReferences, OwnSignals
    <3>3. CASE ~passed
      <4>1. /\ validated' = validated
            /\ Len(rejected'[b]) = Len(rejected[b]) + 1
            /\ rejected'[b][Len(rejected[b]) + 1] = risk_ref
            /\ \A c \in Broker : c # b => rejected'[c] = rejected[c]
            /\ Grows(rejected, rejected')
        BY <2>2, <3>3, VerdictAppends DEF Judged
      <4>2. ASSUME NEW c \in Broker, NEW n \in 1..Len(rejected'[c])
            PROVE  Stored(rejected'[c][n]) /\ rejected'[c][n][1] = c
        <5>1. CASE n \in 1..Len(rejected[c])
          BY <1>1, <4>1, <5>1 DEF RiskReferences, OwnSignals, Grows
        <5>2. CASE c = b /\ n = Len(rejected[b]) + 1
          BY <3>0, <4>1, <5>2
        <5> QED
          BY <3>0, <3>1, <4>1, <5>1, <5>2
      <4> QED
        BY <1>1, <1>2, <4>1, <4>2 DEF RiskReferences, OwnSignals
    <3> QED
      BY <3>2, <3>3
  <2> QED
    BY <2>1, <2>2, StepKinds DEF Quiet, Published
<1> QED
  BY <1>3, <1>4, <1>5 DEF RiskReferences

(***************************************************************************)
(* The verdict in hand keeps agreeing with the position rule and the price *)
(* rule until it is sent.                                                  *)
(***************************************************************************)
LEMMA StepVerdictCurrent ==
    ASSUME TypeOK, References, VerdictCurrent, [Next]_vars
    PROVE  VerdictCurrent'
<1> DEFINE InRules(s) == MaxPositionSizeRule(s) /\ PriceLimitRule(s)
<1>1. CASE RiskRests
  <2> SUFFICES ASSUME risk_pc' = "emit", passed'
               PROVE  InRules(SignalOf(risk_ref))'
    BY DEF VerdictCurrent
  <2>1. /\ risk_pc = "emit" /\ passed /\ risk_ref' = risk_ref
        /\ InRules(SignalOf(risk_ref)) /\ Stored(risk_ref)
    BY <1>1 DEF RiskRests, VerdictCurrent, References
  <2>2. SignalOf(risk_ref)' = SignalOf(risk_ref)
    BY <1>1, <2>1, TopicsGrow, StoredStays DEF RiskRests, SignalOf
  <2>3. SignalOf(risk_ref).instrument \in Instrument
    BY <2>1, StoredSignal DEF TradingSignal
  <2>4. recent_price'[SignalOf(risk_ref).instrument]
           \in {recent_price[SignalOf(risk_ref).instrument], None}
    BY <1>1, <2>1, <2>3 DEF RiskRests, TypeOK, RiskTypeOK
  <2> QED
    BY <2>1, <2>2, <2>4 DEF MaxPositionSizeRule, PriceLimitRule, WithinBand
<1>2. ASSUME NEW ref \in RawSignals, EvaluateSignal(ref) PROVE VerdictCurrent'
  <2>1. /\ risk_ref' = ref /\ UNCHANGED <<raw, recent_price>>
        /\ passed' = evaluate_signal(SignalOf(ref))
    BY <1>2 DEF EvaluateSignal, topic_vars
  <2>2. SignalOf(risk_ref)' = SignalOf(ref)
    BY <2>1 DEF SignalOf
  <2> QED
    BY <2>1, <2>2 DEF VerdictCurrent, evaluate_signal, MaxPositionSizeRule, PriceLimitRule
<1>3. CASE RiskDrops \/ Judged \/ CountTrade \/ RiskReturn
  <2>1. risk_pc' # "emit"
    BY <1>3 DEF RiskDrops, RiskIdle, Judged, CountTrade, RiskReturn
  <2> QED
    BY <2>1 DEF VerdictCurrent
<1> QED
  BY <1>1, <1>2, <1>3, RiskKinds

(***************************************************************************)
(* The signal in hand has its verdict stored before it can be counted or   *)
(* acknowledged, and stored verdicts stay.                                 *)
(***************************************************************************)
LEMMA StepAnswered ==
    ASSUME TypeOK, References, InHandAnswered, AcknowledgedIsAnswered, [Next]_vars
    PROVE  InHandAnswered' /\ AcknowledgedIsAnswered'
<1>1. \A b \in Broker : /\ SeqRange(validated[b]) \subseteq SeqRange(validated'[b])
                        /\ SeqRange(rejected[b]) \subseteq SeqRange(rejected'[b])
  BY TopicTypes, TopicsGrow, RangeGrows DEF TopicsTypeOK
<1>2. \A ref \in risk_acked : ref[1] \in Broker
  BY DEF References, Stored, SignalRef
<1>3. risk_pc # "idle" => risk_ref[1] \in Broker
  BY DEF References, Stored, SignalRef
<1>4. CASE RiskRests
  <2>1. UNCHANGED <<risk_pc, risk_ref, passed, risk_acked, validated, rejected>>
    BY <1>4 DEF RiskRests
  <2> QED
    BY <2>1 DEF InHandAnswered, AcknowledgedIsAnswered
<1>5. CASE RiskDrops
  <2>1. risk_pc' = "idle" /\ UNCHANGED <<risk_acked, validated, rejected>>
    BY <1>5 DEF RiskDrops, RiskIdle
  <2> QED
    BY <2>1 DEF InHandAnswered, AcknowledgedIsAnswered
<1>6. ASSUME NEW ref \in RawSignals, EvaluateSignal(ref)
      PROVE  InHandAnswered' /\ AcknowledgedIsAnswered'
  <2>1. /\ risk_pc' = "emit" /\ risk_ref' = ref /\ ref \notin risk_acked
        /\ UNCHANGED <<risk_acked, validated, rejected>>
    BY <1>6 DEF EvaluateSignal, topic_vars
  <2> QED
    BY <2>1 DEF InHandAnswered, AcknowledgedIsAnswered
<1>7. CASE Judged
  <2> DEFINE b == risk_ref[1]
  <2>1. risk_pc = "emit" /\ SendVerdict /\ risk_acked' = risk_acked /\ b \in Broker
    BY <1>3, <1>7 DEF Judged
  <2>2. AcknowledgedIsAnswered'
    BY <1>1, <1>2, <2>1 DEF AcknowledgedIsAnswered
  <2>3. validated'[b] \in Seq(SignalRef) /\ rejected'[b] \in Seq(SignalRef)
    BY <2>1, VerdictAppends
  <2>4. Len(validated[b]) \in Nat /\ Len(rejected[b]) \in Nat
    BY <2>1, TopicTypes
  <2>5. passed => risk_ref \in SeqRange(validated'[b])
    <3>1. passed => /\ Len(validated'[b]) = Len(validated[b]) + 1
                    /\ validated'[b][Len(validated[b]) + 1] = risk_ref
      BY <2>1, VerdictAppends
    <3> QED
      BY <2>3, <2>4, <3>1, InRange
  <2>6. ~passed => risk_ref \in SeqRange(rejected'[b])
    <3>1. ~passed => /\ Len(rejected'[b]) = Len(rejected[b]) + 1
                     /\ rejected'[b][Len(rejected[b]) + 1] = risk_ref
      BY <2>1, VerdictAppends
    <3> QED
      BY <2>3, <2>4, <3>1, InRange
  <2>7. CASE RiskIdle
    BY <2>2, <2>7 DEF RiskIdle, InHandAnswered
  <2>8. CASE risk_pc' = (IF passed THEN "count" ELSE "return") /\ UNCHANGED <<risk_ref, passed>>
    <3>1. risk_ref \notin risk_acked
      BY <2>1 DEF InHandAnswered
    <3> QED
      BY <2>1, <2>2, <2>5, <2>6, <2>8, <3>1 DEF InHandAnswered
  <2> QED
    BY <1>7, <2>7, <2>8 DEF Judged
<1>8. CASE CountTrade
  <2>1. /\ risk_pc = "count" /\ risk_pc' = "return"
        /\ UNCHANGED <<risk_ref, passed, risk_acked, validated, rejected>>
    BY <1>8 DEF CountTrade, topic_vars
  <2> QED
    BY <2>1 DEF InHandAnswered, AcknowledgedIsAnswered
<1>9. CASE RiskReturn
  <2>1. /\ risk_pc = "return" /\ risk_pc' = "idle"
        /\ risk_acked' = risk_acked \cup {risk_ref}
        /\ UNCHANGED <<validated, rejected>>
    BY <1>9 DEF RiskReturn, RiskIdle, topic_vars
  <2> QED
    BY <2>1 DEF InHandAnswered, AcknowledgedIsAnswered
<1> QED
  BY <1>4, <1>5, <1>6, <1>7, <1>8, <1>9, RiskKinds

-----------------------------------------------------------------------------
(* The zerodha trading service.                                            *)

(***************************************************************************)
(* An order event is appended to the ones before it.                       *)
(***************************************************************************)
LEMMA AppendEvent ==
    ASSUME NEW seq \in Seq(Positive), NEW j \in Positive
    PROVE  /\ Append(seq, j) \in Seq(Positive)
           /\ Len(seq) \in Nat
           /\ Len(Append(seq, j)) = Len(seq) + 1
           /\ Append(seq, j)[Len(seq) + 1] = j
           /\ \A n \in 1..Len(seq) : Append(seq, j)[n] = seq[n]
           /\ SeqRange(Append(seq, j)) = SeqRange(seq) \cup {j}
<1>1. /\ Append(seq, j) \in Seq(Positive)
      /\ Len(seq) \in Nat
      /\ Len(Append(seq, j)) = Len(seq) + 1
      /\ Append(seq, j)[Len(seq) + 1] = j
      /\ \A n \in 1..Len(seq) : Append(seq, j)[n] = seq[n]
  OBVIOUS
<1>2. DOMAIN Append(seq, j) = 1..(Len(seq) + 1) /\ DOMAIN seq = 1..Len(seq)
  BY <1>1
<1>3. SeqRange(Append(seq, j)) \subseteq SeqRange(seq) \cup {j}
  BY <1>1, <1>2 DEF SeqRange
<1>4. SeqRange(seq) \cup {j} \subseteq SeqRange(Append(seq, j))
  BY <1>1, <1>2 DEF SeqRange
<1> QED
  BY <1>1, <1>3, <1>4

ZerodhaInv ==
    /\ ZerodhaTypeOK
    /\ zerodha_job # 0 => zerodha_job \in 1..Len(validated["zerodha"])
    /\ \A n \in 1..Len(submitted) : submitted[n] \in 1..Len(validated["zerodha"])

(***************************************************************************)
(* The zerodha service handles and orders validated signals of its topic.  *)
(***************************************************************************)
LEMMA StepZerodha ==
    ASSUME TypeOK, References, [Next]_vars
    PROVE  ZerodhaInv'
<1> DEFINE log == validated["zerodha"]
<1>1. ZerodhaInv
  BY DEF TypeOK, References, ZerodhaInv
<1>2. /\ log \in Seq(SignalRef) /\ Len(log) \in Nat /\ Len(log') \in Nat
      /\ Len(log) <= Len(log')
  BY Brokers, TopicTypes, ValidatedGrows
<1> HIDE DEF log
<1>3. ZerodhaTypeOK /\ submitted \in Seq(Positive)
  BY <1>1 DEF ZerodhaInv, ZerodhaTypeOK
<1>4. CASE UNCHANGED zerodha_vars
  BY <1>1, <1>2, <1>4 DEF zerodha_vars, ZerodhaInv, ZerodhaTypeOK, log
<1>5. ASSUME NEW j \in DOMAIN validated["zerodha"],
             PlaceOrder(j) \/ PlaceOrderUnsent(j) \/ DiscardInvalid(j)
      PROVE  ZerodhaInv'
  <2>1. j \in 1..Len(log) /\ j \in Positive /\ j \in Nat
    BY <1>2, <1>5 DEF log, Positive
  <2>2. /\ zerodha_job' = j /\ zerodha_acked' = zerodha_acked
        /\ submitted' \in {submitted, Append(submitted, j)}
    BY <1>5 DEF PlaceOrder, PlaceOrderUnsent, DiscardInvalid, TakeValidated
  <2>3. ZerodhaTypeOK'
    BY <1>3, <2>1, <2>2, AppendEvent DEF ZerodhaTypeOK
  <2>6. \A n \in 1..Len(submitted') : submitted'[n] \in 1..Len(log')
    <3>1. CASE submitted' = submitted
      BY <1>1, <1>2, <3>1 DEF ZerodhaInv, log
    <3>2. CASE submitted' = Append(submitted, j)
      BY <1>1, <1>2, <1>3, <2>1, <3>2, AppendEvent DEF ZerodhaInv, log
    <3> QED
      BY <2>2, <3>1, <3>2
  <2>7. j \in 1..Len(log')
    BY <1>2, <2>1
  <2> QED
    BY <2>2, <2>3, <2>6, <2>7 DEF ZerodhaInv, log
<1>6. CASE ZerodhaReturn
  <2>1. /\ zerodha_job # 0 /\ zerodha_job' = 0
        /\ zerodha_acked' = zerodha_acked \cup {zerodha_job}
        /\ UNCHANGED submitted
    BY <1>6 DEF ZerodhaReturn
  <2>2. zerodha_job \in Positive
    BY <1>3, <2>1 DEF ZerodhaTypeOK, Positive
  <2> QED
    BY <1>1, <1>2, <2>1, <2>2 DEF ZerodhaInv, ZerodhaTypeOK, log
<1>7. CASE ZerodhaUnacknowledged \/ ZerodhaRestart
  <2>1. zerodha_job' = 0 /\ UNCHANGED <<zerodha_acked, submitted>>
    BY <1>7 DEF ZerodhaUnacknowledged, ZerodhaRestart
  <2> QED
    BY <1>1, <1>2, <2>1 DEF ZerodhaInv, ZerodhaTypeOK, log
<1> QED
  BY <1>4, <1>5, <1>6, <1>7 DEF Next, vars, ZerodhaNext, Crash

-----------------------------------------------------------------------------
(* The paper trading service.                                              *)

PaperTypeOK ==
    /\ seen_queue \in Seq(Key)
    /\ forgotten \in Seq(Key)
    /\ paper_pc \in {"idle", "fill", "return"}
    /\ paper_job \in Nat
    /\ paper_acked \subseteq Positive
    /\ fills \in Seq(Positive)

PaperReferences ==
    /\ paper_pc # "idle" => paper_job \in 1..Len(validated["paper"])
    /\ \A n \in 1..Len(fills) : fills[n] \in 1..Len(validated["paper"])

(***************************************************************************)
(* The idempotence key of a validated signal is its own, and the same      *)
(* however far the topics have grown.                                      *)
(***************************************************************************)
LEMMA KeyFacts ==
    ASSUME TypeOK, References, [Next]_vars, NEW j \in 1..Len(validated["paper"])
    PROVE  /\ IdempotenceKey(j) \in Key
           /\ IdempotenceKey(j)' = IdempotenceKey(j)
<1> DEFINE ref == validated["paper"][j]
<1>1. validated["paper"] \in Seq(SignalRef) /\ Len(validated["paper"]) \in Nat
  BY Brokers, TopicTypes
<1>2. Stored(ref) /\ SignalOf(ref) \in TradingSignal
  BY Brokers, StoredSignal DEF References, OwnSignals
<1>3. validated'["paper"][j] = ref
  BY Brokers, TopicsGrow DEF Grows
<1>4. SignalOf(ref)' = SignalOf(ref)
  <2>1. raw'[ref[1]][ref[2]] = raw[ref[1]][ref[2]]
    BY <1>2, TopicsGrow DEF Grows, Stored, SignalRef
  <2> QED
    BY <1>3, <2>1 DEF SignalOf
<1>5. j \in Positive
  BY <1>1 DEF Positive
<1> QED
  BY <1>2, <1>3, <1>4, <1>5 DEF IdempotenceKey, TradingSignal, Key

(***************************************************************************)
(* Two validated signals have different keys: the key holds the time of    *)
(* the validation.                                                         *)
(***************************************************************************)
LEMMA KeysDiffer == \A j, k : IdempotenceKey(j) = IdempotenceKey(k) => j = k
BY DEF IdempotenceKey

(***************************************************************************)
(* The kinds of steps for the paper service: it rests, ends a delivery,    *)
(* takes a validated signal, or fills the one in hand.                     *)
(***************************************************************************)
PaperEnds ==
    /\ paper_pc' = "idle" /\ paper_job' = 0
    /\ paper_acked' \in {paper_acked, paper_acked \cup {paper_job}}
    /\ paper_pc = "idle" => paper_acked' = paper_acked
    /\ UNCHANGED fills
    /\ \/ UNCHANGED <<seen_queue, forgotten>>
       \/ seen_queue' = <<>> /\ forgotten' = forgotten \o seen_queue

PaperTakes(j) ==
    /\ paper_pc = "idle" /\ paper_job' = j
    /\ UNCHANGED <<paper_acked, fills>>
    /\ \/ paper_pc' = "return" /\ UNCHANGED <<seen_queue, forgotten>>
       \/ /\ IdempotenceKey(j) \notin SeqRange(seen_queue)
          /\ Remember(IdempotenceKey(j))
          /\ paper_pc' = "fill"

PaperFills ==
    /\ paper_pc = "fill"
    /\ fills' = Append(fills, paper_job)
    /\ \/ paper_pc' = "return" /\ UNCHANGED paper_job
       \/ paper_pc' = "idle" /\ paper_job' = 0
    /\ UNCHANGED <<seen_queue, forgotten, paper_acked>>

\* What a step does to the paper trader: nothing, or one of the three moves above.
LEMMA PaperKinds ==
    ASSUME TypeOK, References, [Next]_vars
    PROVE  \/ UNCHANGED paper_vars
           \/ PaperEnds
           \/ \E j \in 1..Len(validated["paper"]) : PaperTakes(j)
           \/ PaperFills
<1>1. DOMAIN validated["paper"] = 1..Len(validated["paper"])
  BY Brokers, TopicTypes
<1>4. CASE PaperNext
  <2>1. ASSUME NEW j \in DOMAIN validated["paper"], PaperAdmit(j) \/ PaperIgnore(j)
        PROVE  PaperTakes(j)
    BY <2>1 DEF PaperAdmit, PaperIgnore, PaperTake, PaperTakes
  <2>2. CASE PaperFill
    BY <2>2 DEF PaperFill, PaperFills
  <2>3. CASE PaperReturn
    BY <2>3 DEF PaperReturn, PaperIdle, PaperEnds
  <2>4. CASE PaperRaises
    BY <2>4 DEF PaperRaises, PaperIdle, PaperEnds, PaperFills
  <2> QED
    BY <1>1, <1>4, <2>1, <2>2, <2>3, <2>4 DEF PaperNext
<1>5. CASE Crash
  BY <1>5 DEF Crash, PaperRestart, PaperIdle, PaperEnds
<1> QED
  BY <1>4, <1>5 DEF Next, vars

\* A set of places of a sequence is finite.
LEMMA FiniteIndices ==
    ASSUME NEW n \in Nat, NEW S \in SUBSET (1..n)
    PROVE  IsFiniteSet(S) /\ Cardinality(S) \in Nat
<1>1. IsFiniteSet(1..n)
  BY FS_Interval
<1>2. IsFiniteSet(S)
  BY <1>1, FS_Subset
<1> QED
  BY <1>2, FS_CardinalityType

\* How often something occurs in a sequence is a number.
LEMMA CountType ==
    ASSUME NEW T, NEW seq \in Seq(T), NEW x
    PROVE  Times(x, seq) \in Nat
<1>1. Len(seq) \in Nat /\ DOMAIN seq = 1..Len(seq)
  OBVIOUS
<1> QED
  BY <1>1, FiniteIndices DEF Times

(***************************************************************************)
(* How often an element occurs in a sequence that was appended to.         *)
(***************************************************************************)
LEMMA TimesAppend ==
    ASSUME NEW T, NEW seq \in Seq(T), NEW y \in T, NEW x
    PROVE  /\ Times(x, seq) \in Nat
           /\ Times(x, Append(seq, y)) = Times(x, seq) + (IF y = x THEN 1 ELSE 0)
<1> DEFINE at == {n \in DOMAIN seq : seq[n] = x}
           new == {n \in DOMAIN Append(seq, y) : Append(seq, y)[n] = x}
<1>1. /\ Len(seq) \in Nat /\ DOMAIN seq = 1..Len(seq)
      /\ DOMAIN Append(seq, y) = 1..(Len(seq) + 1)
      /\ Append(seq, y)[Len(seq) + 1] = y
      /\ \A n \in 1..Len(seq) : Append(seq, y)[n] = seq[n]
  OBVIOUS
<1>2. IsFiniteSet(at) /\ Cardinality(at) \in Nat
  BY <1>1, FiniteIndices
<1>3. new = at \cup (IF y = x THEN {Len(seq) + 1} ELSE {})
  BY <1>1
<1>4. Len(seq) + 1 \notin at
  BY <1>1
<1>5. Times(x, seq) = Cardinality(at) /\ Times(x, Append(seq, y)) = Cardinality(new)
  BY DEF Times
<1> HIDE DEF at, new
<1>6. CASE y = x
  BY <1>2, <1>3, <1>4, <1>5, <1>6, FS_AddElement
<1>7. CASE y # x
  BY <1>2, <1>3, <1>5, <1>7
<1> QED
  BY <1>2, <1>5, <1>6, <1>7

(***************************************************************************)
(* And in one that another sequence was added to.                          *)
(***************************************************************************)
LEMMA TimesConcat ==
    ASSUME NEW T, NEW seq \in Seq(T), NEW more \in Seq(T), NEW x
    PROVE  /\ Times(x, seq) \in Nat /\ Times(x, seq \o more) \in Nat
           /\ Times(x, seq) + (IF x \in SeqRange(more) THEN 1 ELSE 0) <= Times(x, seq \o more)
<1> DEFINE at == {n \in DOMAIN seq : seq[n] = x}
           all == seq \o more
           new == {n \in DOMAIN all : all[n] = x}
<1>1. /\ Len(seq) \in Nat /\ DOMAIN seq = 1..Len(seq)
      /\ Len(more) \in Nat /\ DOMAIN more = 1..Len(more)
      /\ Len(all) = Len(seq) + Len(more) /\ DOMAIN all = 1..Len(all)
      /\ \A n \in 1..Len(seq) : all[n] = seq[n]
      /\ \A n \in 1..Len(more) : all[Len(seq) + n] = more[n]
  OBVIOUS
<1>2. IsFiniteSet(at) /\ Cardinality(at) \in Nat
  BY <1>1, FiniteIndices
<1>3. IsFiniteSet(new) /\ Cardinality(new) \in Nat
  <2> HIDE DEF all
  <2>1. Len(all) \in Nat
    BY <1>1
  <2>2. new \subseteq 1..Len(all)
    BY <1>1
  <2> QED
    BY <2>1, <2>2, FiniteIndices
<1>4. at \subseteq new
  BY <1>1
<1>5. Times(x, seq) = Cardinality(at) /\ Times(x, seq \o more) = Cardinality(new)
  BY DEF Times
<1>6. CASE x \in SeqRange(more)
  <2>1. PICK n \in 1..Len(more) : more[n] = x
    BY <1>1, <1>6 DEF SeqRange
  <2>2. Len(seq) + n \in new /\ Len(seq) + n \notin at
    BY <1>1, <2>1
  <2> HIDE DEF at, new
  <2>3. at \cup {Len(seq) + n} \subseteq new
    BY <1>4, <2>2
  <2>4. Cardinality(at \cup {Len(seq) + n}) = Cardinality(at) + 1
    BY <1>2, <2>2, FS_AddElement
  <2>5. Cardinality(at \cup {Len(seq) + n}) <= Cardinality(new)
    BY <1>3, <2>3, FS_Subset
  <2> QED
    BY <1>2, <1>3, <1>5, <1>6, <2>4, <2>5
<1>7. CASE x \notin SeqRange(more)
  <2> HIDE DEF at, new
  <2> QED
    BY <1>2, <1>3, <1>4, <1>5, <1>7, FS_Subset
<1> QED
  BY <1>6, <1>7

(***************************************************************************)
(* A remembered key is in memory, and whatever was in memory still is or   *)
(* is counted as forgotten.                                                *)
(***************************************************************************)
LEMMA RememberMoves ==
    ASSUME seen_queue \in Seq(Key), forgotten \in Seq(Key), NEW key \in Key, Remember(key)
    PROVE  /\ seen_queue' \in Seq(Key) /\ forgotten' \in Seq(Key)
           /\ \A x \in Key :
                /\ Times(x, forgotten) \in Nat /\ Times(x, forgotten') \in Nat
                /\ Times(x, forgotten)
                     + (IF x \in SeqRange(seen_queue) \cup {key} THEN 1 ELSE 0)
                   <= Times(x, forgotten') + (IF x \in SeqRange(seen_queue') THEN 1 ELSE 0)
<1> DEFINE q == Append(seen_queue, key)
<1>1. /\ q \in Seq(Key) /\ Len(seen_queue) \in Nat /\ Len(q) = Len(seen_queue) + 1
      /\ q[Len(q)] = key /\ \A n \in 1..Len(seen_queue) : q[n] = seen_queue[n]
      /\ DOMAIN seen_queue = 1..Len(seen_queue)
  OBVIOUS
<1>2. \/ seen_queue' = Tail(q) /\ forgotten' = Append(forgotten, Head(q))
      \/ seen_queue' = q /\ forgotten' = forgotten
  BY DEF Remember
<1> HIDE DEF q
<1>3. DOMAIN q = 1..Len(q) /\ q # <<>> /\ Len(q) \in Nat
  BY <1>1
<1>4. SeqRange(q) = SeqRange(seen_queue) \cup {key}
  BY <1>1, <1>3 DEF SeqRange
<1>5. \A x : Times(x, forgotten) \in Nat
  BY TimesAppend
<1>6. CASE seen_queue' = q /\ forgotten' = forgotten
  BY <1>1, <1>4, <1>5, <1>6
<1>7. CASE seen_queue' = Tail(q) /\ forgotten' = Append(forgotten, Head(q))
  <2>1. /\ Head(q) = q[1] /\ Head(q) \in Key /\ Tail(q) \in Seq(Key)
        /\ Len(Tail(q)) = Len(q) - 1
        /\ \A n \in 1..(Len(q) - 1) : Tail(q)[n] = q[n + 1]
    BY <1>1, <1>3
  <2>2. DOMAIN Tail(q) = 1..(Len(q) - 1)
    BY <2>1
  <2>3. SeqRange(q) \subseteq {Head(q)} \cup SeqRange(Tail(q))
    <3> SUFFICES ASSUME NEW n \in 1..Len(q), n # 1 PROVE q[n] \in SeqRange(Tail(q))
      BY <1>3, <2>1 DEF SeqRange
    <3>1. n - 1 \in 1..(Len(q) - 1) /\ (n - 1) + 1 = n
      BY <1>3
    <3>2. Tail(q)[n - 1] = q[n]
      BY <2>1, <3>1
    <3> QED
      BY <2>2, <3>1, <3>2 DEF SeqRange
  <2>4. \A x : Times(x, forgotten') = Times(x, forgotten) + (IF Head(q) = x THEN 1 ELSE 0)
    BY <1>7, <2>1, TimesAppend
  <2>5. forgotten' \in Seq(Key)
    BY <1>7, <2>1
  <2>6. ASSUME NEW x \in Key
        PROVE  /\ Times(x, forgotten) \in Nat /\ Times(x, forgotten') \in Nat
               /\ Times(x, forgotten) + (IF x \in SeqRange(q) THEN 1 ELSE 0)
                   <= Times(x, forgotten') + (IF x \in SeqRange(seen_queue') THEN 1 ELSE 0)
    <3>1. x \in SeqRange(q) => x = Head(q) \/ x \in SeqRange(seen_queue')
      BY <1>7, <2>3
    <3> QED
      BY <1>5, <2>4, <3>1
  <2> QED
    BY <1>4, <1>7, <2>1, <2>5, <2>6
<1> QED
  BY <1>2, <1>6, <1>7

(***************************************************************************)
(* The paper service handles, fills and acknowledges validated signals.    *)
(***************************************************************************)
LEMMA StepPaperTypes ==
    ASSUME TypeOK, References, [Next]_vars
    PROVE  PaperTypeOK' /\ PaperReferences'
<1> DEFINE log == validated["paper"]
<1>1. PaperTypeOK /\ PaperReferences
  BY DEF TypeOK, References, PaperTypeOK, PaperReferences
<1>2. Len(log) \in Nat /\ Len(log') \in Nat /\ Len(log) <= Len(log')
  BY Brokers, TopicTypes, ValidatedGrows
<1>3. paper_pc # "idle" => paper_job \in Positive
  BY <1>1, <1>2 DEF PaperReferences, Positive
<1>4. CASE UNCHANGED paper_vars
  BY <1>1, <1>2, <1>4 DEF paper_vars, PaperTypeOK, PaperReferences
<1>5. CASE PaperEnds
  <2>1. (seen_queue \in Seq(Key) /\ forgotten \in Seq(Key))'
    <3>1. seen_queue \in Seq(Key) /\ forgotten \in Seq(Key)
      BY <1>1 DEF PaperTypeOK
    <3>2. <<>> \in Seq(Key) /\ forgotten \o seen_queue \in Seq(Key)
      BY <3>1
    <3> QED
      BY <1>5, <3>1, <3>2 DEF PaperEnds
  <2> QED
    BY <1>1, <1>2, <1>3, <1>5, <2>1 DEF PaperEnds, PaperTypeOK, PaperReferences
<1>6. ASSUME NEW j \in 1..Len(log), PaperTakes(j) PROVE PaperTypeOK' /\ PaperReferences'
  <2>1. IdempotenceKey(j) \in Key
    BY KeyFacts
  <2>2. PaperTypeOK'
    <3>1. (seen_queue \in Seq(Key) /\ forgotten \in Seq(Key))'
      BY <1>1, <1>6, <2>1, RememberMoves DEF PaperTakes, PaperTypeOK
    <3> QED
      BY <1>1, <1>2, <1>6, <3>1 DEF PaperTakes, PaperTypeOK
  <2>3. PaperReferences'
    BY <1>1, <1>2, <1>6 DEF PaperTakes, PaperReferences
  <2> QED
    BY <2>2, <2>3
<1>7. CASE PaperFills
  <2>1. /\ fills \in Seq(Positive) /\ paper_job \in Positive /\ paper_job \in 1..Len(log)
        /\ fills' = Append(fills, paper_job)
    BY <1>1, <1>3, <1>7 DEF PaperFills, PaperTypeOK, PaperReferences
  <2>2. PaperTypeOK'
    BY <1>1, <1>7, <2>1, AppendEvent DEF PaperFills, PaperTypeOK
  <2>3. \A n \in 1..Len(fills') : fills'[n] \in 1..Len(log')
    BY <1>1, <1>2, <2>1, AppendEvent DEF PaperReferences
  <2>4. paper_pc' # "idle" => paper_job' \in 1..Len(log')
    BY <1>2, <1>7, <2>1 DEF PaperFills
  <2> QED
    BY <2>2, <2>3, <2>4 DEF PaperReferences
<1> QED
  BY <1>4, <1>5, <1>6, <1>7, PaperKinds

(***************************************************************************)
(* A validated signal is admitted only when its key is not in memory, and  *)
(* a key leaves the memory only to be counted as forgotten.                *)
(***************************************************************************)
LEMMA StepFilled ==
    ASSUME TypeOK, References, FilledSoFar, [Next]_vars
    PROVE  FilledSoFar'
<1> DEFINE log == validated["paper"]
           K(j) == IdempotenceKey(j)
           F(j) == Times(j, fills)
           h(j) == IF paper_pc = "fill" /\ paper_job = j THEN 1 ELSE 0
           G(x) == Times(x, forgotten)
           m(x) == IF x \in SeqRange(seen_queue) THEN 1 ELSE 0
<1>1. /\ fills \in Seq(Positive) /\ Len(fills) \in Nat /\ DOMAIN fills = 1..Len(fills)
      /\ \A n \in 1..Len(fills) : fills[n] \in 1..Len(log)
      /\ paper_pc # "idle" => paper_job \in 1..Len(log) /\ paper_job \in Positive
      /\ seen_queue \in Seq(Key) /\ forgotten \in Seq(Key)
      /\ Len(log) \in Nat /\ Len(log') \in Nat /\ Len(log) <= Len(log')
  <2>1. Len(log) \in Nat /\ Len(log') \in Nat /\ Len(log) <= Len(log')
    BY Brokers, TopicTypes, ValidatedGrows
  <2>2. /\ fills \in Seq(Positive) /\ seen_queue \in Seq(Key) /\ forgotten \in Seq(Key)
        /\ \A n \in 1..Len(fills) : fills[n] \in 1..Len(log)
        /\ paper_pc # "idle" => paper_job \in 1..Len(log)
    BY DEF TypeOK, References
  <2>3. paper_pc # "idle" => paper_job \in Positive
    BY <2>1, <2>2 DEF Positive
  <2> QED
    BY <2>1, <2>2, <2>3
<1>2. \A j \in 1..Len(log) : K(j) \in Key /\ K(j)' = K(j)
  BY KeyFacts
<1>3. (PaperTypeOK /\ PaperReferences)'
  BY StepPaperTypes
<1>4. \A j : F(j) \in Nat /\ F(j)' \in Nat
  BY <1>1, <1>3, CountType DEF PaperTypeOK
<1>5. \A x : G(x) \in Nat /\ G(x)' \in Nat
  BY <1>1, <1>3, CountType DEF PaperTypeOK
<1>6. \A j \in 1..Len(log) : F(j) + h(j) <= G(K(j)) + m(K(j))
  BY DEF FilledSoFar
<1>7. \A x, j : h(j) \in 0..1 /\ h(j)' \in 0..1 /\ m(x) \in 0..1 /\ m(x)' \in 0..1
  OBVIOUS
<1>8. ASSUME \A j \in 1..Len(log) : F(j)' + h(j)' <= G(K(j))' + m(K(j))'
      PROVE  FilledSoFar'
  <2>1. ASSUME NEW j \in 1..Len(log'), j \notin 1..Len(log)
        PROVE  F(j)' = 0 /\ h(j)' = 0
    <3>1. fills' = fills \/ PaperFills
      BY PaperKinds DEF PaperEnds, PaperTakes, paper_vars
    <3>2. \A n \in DOMAIN fills' : fills'[n] # j
      <4>1. CASE fills' = fills
        BY <1>1, <2>1, <4>1
      <4>2. CASE PaperFills
        <5>1. fills' = Append(fills, paper_job) /\ paper_job \in 1..Len(log) /\ paper_job \in Positive
          BY <1>1, <4>2 DEF PaperFills
        <5>2. /\ DOMAIN fills' = 1..(Len(fills) + 1) /\ fills'[Len(fills) + 1] = paper_job
              /\ \A n \in 1..Len(fills) : fills'[n] = fills[n]
          BY <1>1, <5>1
        <5> QED
          BY <1>1, <2>1, <5>1, <5>2
      <4> QED
        BY <3>1, <4>1, <4>2
    <3>3. F(j)' = 0
      <4>1. {n \in DOMAIN fills' : fills'[n] = j} = {}
        BY <3>2
      <4> QED
        BY <4>1, FS_EmptySet DEF Times
    <3>4. h(j)' = 0
      BY <1>1, <2>1, PaperKinds DEF PaperEnds, PaperTakes, PaperFills, paper_vars
    <3> QED
      BY <3>3, <3>4
  <2> HIDE DEF F, h, G, m, K
  <2>2. \A j \in 1..Len(log') : F(j)' + h(j)' <= G(K(j))' + m(K(j))'
    <3> SUFFICES ASSUME NEW j \in 1..Len(log') PROVE F(j)' + h(j)' <= G(K(j))' + m(K(j))'
      OBVIOUS
    <3>1. CASE j \in 1..Len(log)
      BY <1>8, <3>1
    <3>2. CASE j \notin 1..Len(log)
      <4>1. G(K(j))' \in Nat /\ m(K(j))' \in 0..1
        <5> USE DEF G, m, K
        <5>1. G(K(j))' \in Nat
          BY <1>3, CountType DEF PaperTypeOK
        <5> QED
          BY <5>1
      <4> QED
        BY <2>1, <3>2, <4>1
    <3> QED
      BY <3>1, <3>2
  <2> QED
    BY <2>2 DEF FilledSoFar, F, h, G, m, K
<1>9. ASSUME NEW j \in 1..Len(log) PROVE F(j)' + h(j)' <= G(K(j))' + m(K(j))'
  <2>1. PICK x \in Key : x = K(j) /\ x = K(j)'
    BY <1>2
  <2>2. F(j) + h(j) <= G(x) + m(x)
    BY <1>6, <2>1
  <2>3. G(x) \in Nat /\ G(x)' \in Nat /\ F(j) \in Nat /\ F(j)' \in Nat
    BY <1>4, <1>5
  <2> SUFFICES F(j)' + h(j)' <= G(x)' + m(x)'
    BY <2>1
  <2>4. CASE UNCHANGED paper_vars
    BY <2>2, <2>4 DEF paper_vars
  <2>5. CASE PaperEnds
    <3>1. F(j)' = F(j) /\ h(j)' = 0 /\ h(j) \in 0..1
      BY <2>5 DEF PaperEnds
    <3>2. CASE UNCHANGED <<seen_queue, forgotten>>
      BY <2>2, <2>3, <3>1, <3>2
    <3>3. CASE seen_queue' = <<>> /\ forgotten' = forgotten \o seen_queue
      <4>1. G(x) + m(x) <= G(x)'
        BY <1>1, <3>3, TimesConcat
      <4>2. m(x)' \in 0..1 /\ m(x) \in 0..1
        OBVIOUS
      <4> HIDE DEF F, G, h, m
      <4> QED
        BY <2>2, <2>3, <3>1, <4>1, <4>2
    <3> QED
      BY <2>5, <3>2, <3>3 DEF PaperEnds
  <2>6. ASSUME NEW i \in 1..Len(log), PaperTakes(i) PROVE F(j)' + h(j)' <= G(x)' + m(x)'
    <3>1. F(j)' = F(j) /\ h(j) = 0 /\ paper_job' = i
      BY <2>6 DEF PaperTakes
    <3>2. CASE paper_pc' = "return" /\ UNCHANGED <<seen_queue, forgotten>>
      BY <2>2, <3>1, <3>2
    <3>3. CASE /\ K(i) \notin SeqRange(seen_queue)
               /\ Remember(K(i))
               /\ paper_pc' = "fill"
      <4>1. K(i) \in Key
        BY <1>2
      <4>2. G(x) + (IF x \in SeqRange(seen_queue) \cup {K(i)} THEN 1 ELSE 0) <= G(x)' + m(x)'
        BY <1>1, <3>3, <4>1, RememberMoves
      <4>3. h(j)' = IF i = j THEN 1 ELSE 0
        BY <3>1, <3>3
      <4>4. m(x)' \in 0..1 /\ m(x) \in 0..1
        OBVIOUS
      <4>5. CASE i = j
        <5>1. x = K(i) /\ x \notin SeqRange(seen_queue)
          BY <2>1, <3>3, <4>5
        <5>2. m(x) = 0 /\ G(x) + 1 <= G(x)' + m(x)'
          BY <4>2, <5>1
        <5> HIDE DEF F, G, h, m, K
        <5> QED
          BY <2>2, <2>3, <3>1, <4>3, <4>4, <4>5, <5>2
      <4>6. CASE i # j
        <5>1. G(x) + m(x) <= G(x)' + m(x)'
          BY <2>3, <4>2, <4>4
        <5> HIDE DEF F, G, h, m, K
        <5> QED
          BY <2>2, <2>3, <3>1, <4>3, <4>4, <4>6, <5>1
      <4> QED
        BY <4>5, <4>6
    <3> QED
      BY <2>6, <3>2, <3>3 DEF PaperTakes
  <2>7. CASE PaperFills
    <3>1. /\ UNCHANGED <<seen_queue, forgotten>> /\ paper_pc = "fill" /\ paper_pc' # "fill"
          /\ fills' = Append(fills, paper_job) /\ paper_job \in Positive
      BY <1>1, <2>7 DEF PaperFills
    <3>2. F(j)' = F(j) + h(j)
      BY <1>1, <3>1, TimesAppend
    <3>3. h(j)' = 0 /\ m(x)' = m(x) /\ G(x)' = G(x)
      BY <3>1
    <3> HIDE DEF F, G, h, m
    <3>4. h(j) \in 0..1
      BY DEF h
    <3> QED
      BY <2>2, <2>3, <3>2, <3>3, <3>4
  <2> QED
    BY <2>4, <2>5, <2>6, <2>7, PaperKinds
<1> QED
  BY <1>8, <1>9

-----------------------------------------------------------------------------
(* The daily counters.                                                     *)

\* The trades of a strategy can be counted.
LEMMA FiniteTrades ==
    ASSUME TypeOK, IsFiniteSet(risk_acked), NEW b \in Broker, NEW s \in Strategy
    PROVE  /\ IsFiniteSet(ValidatedFor(b, s)) /\ Cardinality(ValidatedFor(b, s)) \in Nat
           /\ IsFiniteSet(AcknowledgedTrades(b, s))
           /\ Cardinality(AcknowledgedTrades(b, s)) \in Nat
           /\ counters[increment_key(b, s)] \in Nat
<1>1. IsFiniteSet(DOMAIN validated[b])
  <2>1. DOMAIN validated[b] = 1..Len(validated[b]) /\ Len(validated[b]) \in Nat
    BY TopicTypes
  <2> QED
    BY <2>1, FS_Interval
<1>2. ValidatedFor(b, s) \subseteq DOMAIN validated[b]
  BY DEF ValidatedFor
<1>3. AcknowledgedTrades(b, s) \subseteq risk_acked
  BY DEF AcknowledgedTrades
<1>4. increment_key(b, s) \in CounterKey
  BY DEF increment_key, CounterKey
<1>5. counters \in [CounterKey -> Nat]
  BY DEF TypeOK, RiskTypeOK
<1>6. IsFiniteSet(ValidatedFor(b, s)) /\ IsFiniteSet(AcknowledgedTrades(b, s))
  BY <1>1, <1>2, <1>3, FS_Subset
<1> QED
  BY <1>4, <1>5, <1>6, FS_CardinalityType

(***************************************************************************)
(* The trades of a broker and strategy stay what they are as long as no    *)
(* verdict is sent and no signal acknowledged.                             *)
(***************************************************************************)
LEMMA TradesAlone ==
    ASSUME TypeOK, References, [Next]_vars, UNCHANGED <<validated, rejected, risk_acked>>,
           NEW b \in Broker, NEW s \in Strategy
    PROVE  /\ ValidatedFor(b, s)' = ValidatedFor(b, s)
           /\ AcknowledgedTrades(b, s)' = AcknowledgedTrades(b, s)
<1>1. \A ref : Stored(ref) => raw'[ref[1]][ref[2]] = raw[ref[1]][ref[2]]
  BY TopicsGrow DEF Grows, Stored, SignalRef
<1>2. \A j \in DOMAIN validated[b] : Stored(validated[b][j])
  BY TopicTypes DEF References, OwnSignals
<1>3. \A ref \in risk_acked : Stored(ref)
  BY DEF References
<1>4. ValidatedFor(b, s)' = ValidatedFor(b, s)
  BY <1>1, <1>2 DEF ValidatedFor, SignalOf
<1>5. AcknowledgedTrades(b, s)' = AcknowledgedTrades(b, s)
  BY <1>1, <1>3 DEF AcknowledgedTrades, SignalOf
<1> QED
  BY <1>4, <1>5

\* Whether the signal in hand is one of this broker and strategy.
InHandOf(b, s) == risk_ref[1] = b /\ SignalOf(risk_ref).strategy = s

(***************************************************************************)
(* increment adds one to the counter of the signal in hand only.           *)
(***************************************************************************)
LEMMA IncrementAddsOne ==
    ASSUME TypeOK, References, risk_pc # "idle", NEW b \in Broker, NEW s \in Strategy
    PROVE  increment[increment_key(b, s)] =
             counters[increment_key(b, s)] + (IF InHandOf(b, s) THEN 1 ELSE 0)
<1>1. Stored(risk_ref) /\ risk_ref[1] \in Broker
  BY DEF References, Stored, SignalRef
<1>2. SignalOf(risk_ref).strategy \in Strategy
  BY <1>1, StoredSignal DEF TradingSignal
<1>3. counters \in [CounterKey -> Nat]
  BY DEF TypeOK, RiskTypeOK
<1>4. /\ increment_key(b, s) \in CounterKey
      /\ increment_key(risk_ref[1], SignalOf(risk_ref).strategy) \in CounterKey
  BY <1>1, <1>2 DEF increment_key, CounterKey
<1>5. increment_key(b, s) = increment_key(risk_ref[1], SignalOf(risk_ref).strategy)
        <=> InHandOf(b, s)
  BY DEF increment_key, InHandOf
<1>6. counters[increment_key(b, s)] \in Nat
  BY <1>3, <1>4
<1> QED
  BY <1>3, <1>4, <1>5, <1>6 DEF increment

(***************************************************************************)
(* An emitted signal is one validated trade more of its broker and         *)
(* strategy, and changes nothing about the acknowledged ones.              *)
(***************************************************************************)
LEMMA VerdictTrades ==
    ASSUME TypeOK, References, InHandAnswered, IsFiniteSet(risk_acked), Judged,
           NEW b \in Broker, NEW s \in Strategy
    PROVE  /\ Cardinality(ValidatedFor(b, s)') =
                Cardinality(ValidatedFor(b, s)) + (IF passed /\ InHandOf(b, s) THEN 1 ELSE 0)
           /\ AcknowledgedTrades(b, s)' = AcknowledgedTrades(b, s)
<1> DEFINE c == risk_ref[1]
<1>1. /\ risk_pc = "emit" /\ SendVerdict /\ risk_acked' = risk_acked /\ raw' = raw
      /\ c \in Broker /\ risk_ref \notin risk_acked
  BY VerdictAppends DEF Judged, InHandAnswered
<1>2. /\ validated \in [Broker -> Seq(SignalRef)] /\ rejected \in [Broker -> Seq(SignalRef)]
      /\ validated' \in [Broker -> Seq(SignalRef)] /\ rejected' \in [Broker -> Seq(SignalRef)]
  BY <1>1, VerdictAppends, TopicTypes
<1>3. /\ Len(validated[b]) \in Nat /\ DOMAIN validated[b] = 1..Len(validated[b])
      /\ DOMAIN validated'[b] = 1..Len(validated'[b])
      /\ Len(rejected[b]) \in Nat /\ DOMAIN rejected[b] = 1..Len(rejected[b])
      /\ DOMAIN rejected'[b] = 1..Len(rejected'[b])
  BY <1>2
<1>4. Grows(validated, validated') /\ Grows(rejected, rejected')
  BY <1>1, VerdictAppends
<1>5. ASSUME NEW ref \in risk_acked
      PROVE  /\ ref \in SeqRange(validated'[b]) <=> ref \in SeqRange(validated[b])
             /\ ref \in SeqRange(rejected'[b]) <=> ref \in SeqRange(rejected[b])
  <2>1. ref # risk_ref
    BY <1>1
  <2>2. SeqRange(validated[b]) \subseteq SeqRange(validated'[b])
    BY <1>2, <1>4, RangeGrows
  <2>3. SeqRange(rejected[b]) \subseteq SeqRange(rejected'[b])
    BY <1>2, <1>4, RangeGrows
  <2>4. \A n \in DOMAIN validated'[b] : n \in DOMAIN validated[b] \/ validated'[b][n] = risk_ref
    <3>1. \/ validated'[b] = validated[b]
          \/ /\ Len(validated'[b]) = Len(validated[b]) + 1
             /\ validated'[b][Len(validated[b]) + 1] = risk_ref
      BY <1>1, VerdictAppends
    <3> QED
      BY <1>3, <3>1
  <2>5. \A n \in DOMAIN rejected'[b] : n \in DOMAIN rejected[b] \/ rejected'[b][n] = risk_ref
    <3>1. \/ rejected'[b] = rejected[b]
          \/ /\ Len(rejected'[b]) = Len(rejected[b]) + 1
             /\ rejected'[b][Len(rejected[b]) + 1] = risk_ref
      BY <1>1, VerdictAppends
    <3> QED
      BY <1>3, <3>1
  <2>6. ref \in SeqRange(validated'[b]) => ref \in SeqRange(validated[b])
    BY <1>3, <1>4, <2>1, <2>4 DEF SeqRange, Grows
  <2>7. ref \in SeqRange(rejected'[b]) => ref \in SeqRange(rejected[b])
    BY <1>3, <1>4, <2>1, <2>5 DEF SeqRange, Grows
  <2> QED
    BY <2>2, <2>3, <2>6, <2>7
<1>6. AcknowledgedTrades(b, s)' = AcknowledgedTrades(b, s)
  BY <1>1, <1>5 DEF AcknowledgedTrades, SignalOf
<1>7. CASE passed /\ c = b
  <2>1. /\ Len(validated'[b]) = Len(validated[b]) + 1
        /\ validated'[b][Len(validated[b]) + 1] = risk_ref
    BY <1>1, <1>7, VerdictAppends
  <2>a. \A n \in 1..Len(validated[b]) : validated'[b][n] = validated[b][n]
    BY <1>4 DEF Grows
  <2>b. ValidatedFor(b, s)' =
          {j \in DOMAIN validated'[b] : SignalOf(validated'[b][j]).strategy = s}
    BY <1>1 DEF ValidatedFor, SignalOf
  <2>c. 1..(Len(validated[b]) + 1) = 1..Len(validated[b]) \cup {Len(validated[b]) + 1}
    BY <1>3
  <2>2. CASE SignalOf(risk_ref).strategy = s
    <3>1. ValidatedFor(b, s)' = ValidatedFor(b, s) \cup {Len(validated[b]) + 1}
      BY <1>3, <2>1, <2>2, <2>a, <2>b, <2>c DEF ValidatedFor
    <3>2. Len(validated[b]) + 1 \notin ValidatedFor(b, s)
      BY <1>3 DEF ValidatedFor
    <3>3. Cardinality(ValidatedFor(b, s)') = Cardinality(ValidatedFor(b, s)) + 1
      BY <3>1, <3>2, FiniteTrades, FS_AddElement
    <3> QED
      BY <1>6, <1>7, <2>2, <3>3 DEF InHandOf
  <2>3. CASE SignalOf(risk_ref).strategy # s
    <3>1. ValidatedFor(b, s)' = ValidatedFor(b, s)
      BY <1>3, <2>1, <2>3, <2>a, <2>b, <2>c DEF ValidatedFor
    <3> QED
      BY <1>6, <2>3, <3>1, FiniteTrades DEF InHandOf
  <2> QED
    BY <2>2, <2>3
<1>8. CASE ~passed \/ c # b
  <2>1. validated'[b] = validated[b]
    BY <1>1, <1>8, VerdictAppends
  <2>2. ValidatedFor(b, s)' = ValidatedFor(b, s)
    BY <1>1, <2>1 DEF ValidatedFor, SignalOf
  <2> QED
    BY <1>6, <1>8, <2>2, FiniteTrades DEF InHandOf
<1> QED
  BY <1>7, <1>8

(***************************************************************************)
(* The counters follow the validated signals and lead the acknowledged     *)
(* ones, each by at most the signal in hand.                               *)
(***************************************************************************)
LEMMA StepCounted ==
    ASSUME TypeOK, References, InHandAnswered, CountedSoFar, [Next]_vars
    PROVE  CountedSoFar'
<1>0. IsFiniteSet(risk_acked)
  BY DEF CountedSoFar
<1>1. IsFiniteSet(risk_acked')
  <2>1. risk_acked' = risk_acked \/ risk_acked' = risk_acked \cup {risk_ref}
    BY RiskKinds DEF RiskRests, RiskDrops, EvaluateSignal, Judged, CountTrade, RiskReturn
  <2> QED
    BY <1>0, <2>1, FS_AddElement
<1> SUFFICES ASSUME NEW b \in Broker, NEW s \in Strategy
             PROVE  /\ (counters[increment_key(b, s)] + InHand("count", b, s)
                          <= Cardinality(ValidatedFor(b, s)))'
                    /\ (Cardinality(AcknowledgedTrades(b, s)) + InHand("return", b, s)
                          <= counters[increment_key(b, s)])'
  BY <1>1 DEF CountedSoFar
<1> DEFINE n == counters[increment_key(b, s)]
           V == ValidatedFor(b, s)
           A == AcknowledgedTrades(b, s)
<1>2. /\ IsFiniteSet(V) /\ Cardinality(V) \in Nat
      /\ IsFiniteSet(A) /\ Cardinality(A) \in Nat
      /\ n \in Nat
  BY <1>0, FiniteTrades
<1>3. /\ n + InHand("count", b, s) <= Cardinality(V)
      /\ Cardinality(A) + InHand("return", b, s) <= n
  BY DEF CountedSoFar
<1>4. \A pc : InHand(pc, b, s) = IF risk_pc = pc /\ passed /\ InHandOf(b, s) THEN 1 ELSE 0
  BY DEF InHand, InHandOf
<1>5. \A pc : InHand(pc, b, s) \in 0..1
  BY DEF InHand
<1>6. n <= Cardinality(V) /\ Cardinality(A) <= n
  BY <1>2, <1>3, <1>5
<1>7. CASE RiskRests
  <2>1. /\ UNCHANGED <<risk_pc, risk_ref, passed, counters>>
        /\ UNCHANGED <<validated, rejected, risk_acked>>
    BY <1>7 DEF RiskRests
  <2>2. V' = V /\ A' = A
    BY <2>1, TradesAlone
  <2>3. risk_pc # "idle" => SignalOf(risk_ref)' = SignalOf(risk_ref)
    <3>1. ASSUME risk_pc # "idle" PROVE raw'[risk_ref[1]][risk_ref[2]] = raw[risk_ref[1]][risk_ref[2]]
      BY <3>1, TopicsGrow DEF References, Grows, Stored, SignalRef
    <3> QED
      BY <2>1, <3>1 DEF SignalOf
  <2>4. InHand("count", b, s)' = InHand("count", b, s)
    BY <2>1, <2>3 DEF InHand
  <2>5. InHand("return", b, s)' = InHand("return", b, s)
    BY <2>1, <2>3 DEF InHand
  <2>6. n' = n
    BY <2>1 DEF increment_key
  <2> QED
    BY <1>3, <2>2, <2>4, <2>5, <2>6
<1>8. ASSUME risk_pc' \notin {"count", "return"} \/ ~passed',
             V' = V /\ A' = A, n' = n
      PROVE  /\ n' + InHand("count", b, s)' <= Cardinality(V)'
             /\ Cardinality(A)' + InHand("return", b, s)' <= n'
  <2>1. InHand("count", b, s)' = 0 /\ InHand("return", b, s)' = 0
    BY <1>8 DEF InHand
  <2> QED
    BY <1>2, <1>6, <1>8, <2>1
<1>9. CASE RiskDrops
  <2>1. risk_pc' = "idle" /\ UNCHANGED <<validated, rejected, risk_acked>>
    BY <1>9 DEF RiskDrops, RiskIdle
  <2>2. V' = V /\ A' = A
    BY <2>1, TradesAlone
  <2>3. CASE counters' = counters
    BY <1>8, <2>1, <2>2, <2>3 DEF increment_key
  <2>4. CASE risk_pc = "count" /\ counters' = increment
    <3>1. n' = n + (IF InHandOf(b, s) THEN 1 ELSE 0)
      BY <2>4, IncrementAddsOne DEF increment_key
    <3>2. passed
      BY <2>4 DEF InHandAnswered
    <3>3. n' = n + InHand("count", b, s)
      BY <1>4, <2>4, <3>1, <3>2
    <3>4. InHand("count", b, s)' = 0 /\ InHand("return", b, s)' = 0
      BY <2>1 DEF InHand
    <3> QED
      BY <1>2, <1>3, <1>5, <1>6, <2>2, <3>3, <3>4
  <2> QED
    BY <1>9, <2>3, <2>4 DEF RiskDrops
<1>10. ASSUME NEW ref \in RawSignals, EvaluateSignal(ref)
       PROVE  /\ n' + InHand("count", b, s)' <= Cardinality(V)'
              /\ Cardinality(A)' + InHand("return", b, s)' <= n'
  <2>1. risk_pc' = "emit" /\ UNCHANGED <<counters, validated, rejected, risk_acked>>
    BY <1>10 DEF EvaluateSignal, topic_vars
  <2>2. V' = V /\ A' = A
    BY <2>1, TradesAlone
  <2> QED
    BY <1>8, <2>1, <2>2 DEF increment_key
<1>11. CASE Judged
  <2>1. /\ Cardinality(V') = Cardinality(V) + (IF passed /\ InHandOf(b, s) THEN 1 ELSE 0)
        /\ A' = A
    BY <1>0, <1>11, VerdictTrades
  <2>2. n' = n /\ raw' = raw
    BY <1>11 DEF Judged, SendVerdict, increment_key
  <2>3. CASE RiskIdle
    <3>1. InHand("count", b, s)' = 0 /\ InHand("return", b, s)' = 0
      BY <2>3 DEF RiskIdle, InHand
    <3> QED
      BY <1>2, <1>6, <2>1, <2>2, <3>1
  <2>4. CASE risk_pc' = (IF passed THEN "count" ELSE "return") /\ UNCHANGED <<risk_ref, passed>>
    <3>1. InHand("count", b, s)' = IF passed /\ InHandOf(b, s) THEN 1 ELSE 0
      BY <2>2, <2>4 DEF InHand, InHandOf, SignalOf
    <3>2. InHand("return", b, s)' = 0
      BY <2>4 DEF InHand
    <3> QED
      BY <1>2, <1>6, <2>1, <2>2, <3>1, <3>2
  <2> QED
    BY <1>11, <2>3, <2>4 DEF Judged
<1>12. CASE CountTrade
  <2>1. /\ risk_pc = "count" /\ risk_pc' = "return" /\ counters' = increment
        /\ UNCHANGED <<risk_ref, passed, raw>>
        /\ UNCHANGED <<validated, rejected, risk_acked>>
    BY <1>12 DEF CountTrade, topic_vars
  <2>2. V' = V /\ A' = A
    BY <2>1, TradesAlone
  <2>3. passed
    BY <2>1 DEF InHandAnswered
  <2>4. n' = n + (IF InHandOf(b, s) THEN 1 ELSE 0)
    BY <2>1, IncrementAddsOne DEF increment_key
  <2>5. n' = n + InHand("count", b, s)
    BY <1>4, <2>1, <2>3, <2>4
  <2>6. InHand("count", b, s)' = 0
    BY <2>1 DEF InHand
  <2>7. InHand("return", b, s)' = IF InHandOf(b, s) THEN 1 ELSE 0
    BY <2>1, <2>3 DEF InHand, InHandOf, SignalOf
  <2> QED
    BY <1>2, <1>3, <1>6, <2>2, <2>4, <2>5, <2>6, <2>7
<1>13. CASE RiskReturn
  <2>1. /\ risk_pc = "return" /\ risk_pc' = "idle"
        /\ risk_acked' = risk_acked \cup {risk_ref}
        /\ UNCHANGED <<counters, raw, validated, rejected>>
    BY <1>13 DEF RiskReturn, RiskIdle, topic_vars
  <2>2. n' = n /\ V' = V
    BY <2>1 DEF increment_key, ValidatedFor, SignalOf
  <2>3. InHand("count", b, s)' = 0 /\ InHand("return", b, s)' = 0
    BY <2>1 DEF InHand
  <2>4. A \subseteq A' /\ A' \subseteq A \cup {risk_ref}
    BY <2>1 DEF AcknowledgedTrades, SignalOf
  <2>5. Cardinality(A') <= n
    <3>1. CASE passed /\ InHandOf(b, s)
      <4>1. Cardinality(A) + 1 <= n
        BY <1>3, <1>4, <2>1, <3>1
      <4>2. /\ IsFiniteSet(A \cup {risk_ref})
            /\ Cardinality(A \cup {risk_ref}) \in {Cardinality(A), Cardinality(A) + 1}
        BY <1>2, FS_AddElement
      <4>3. Cardinality(A') <= Cardinality(A \cup {risk_ref}) /\ Cardinality(A') \in Nat
        BY <2>4, <4>2, FS_Subset, FS_CardinalityType
      <4> QED
        BY <1>2, <4>1, <4>2, <4>3
    <3>2. CASE ~(passed /\ InHandOf(b, s))
      <4>1. risk_ref \notin A'
        <5>1. CASE ~InHandOf(b, s)
          BY <2>1, <5>1 DEF AcknowledgedTrades, InHandOf, SignalOf
        <5>2. CASE ~passed
          <6>1. risk_ref \in SeqRange(rejected[risk_ref[1]])
            BY <2>1, <5>2 DEF InHandAnswered
          <6> QED
            BY <2>1, <6>1 DEF AcknowledgedTrades
        <5> QED
          BY <3>2, <5>1, <5>2
      <4>2. A' = A
        BY <2>4, <4>1
      <4> QED
        BY <1>6, <4>2
    <3> QED
      BY <3>1, <3>2
  <2>6. Cardinality(A') \in Nat
    BY <1>2, <2>4, FS_Subset, FS_AddElement, FS_CardinalityType
  <2> QED
    BY <1>2, <1>6, <2>2, <2>3, <2>5, <2>6
<1> QED
  BY <1>7, <1>9, <1>10, <1>11, <1>12, <1>13, RiskKinds

-----------------------------------------------------------------------------
(* The order events of a signal.                                           *)

\* What is within a finite set and one element more.
LEMMA OneMore ==
    ASSUME NEW S, IsFiniteSet(S), NEW T, NEW x, T \subseteq S \cup {x}
    PROVE  /\ Cardinality(S) \in Nat /\ Cardinality(T) \in Nat
           /\ Cardinality(T) <= Cardinality(S) + 1
           /\ T \subseteq S => Cardinality(T) <= Cardinality(S)
<1>1. /\ IsFiniteSet(S \cup {x})
      /\ Cardinality(S \cup {x}) \in {Cardinality(S), Cardinality(S) + 1}
  BY FS_AddElement
<1>2. Cardinality(S) \in Nat /\ Cardinality(T) \in Nat
  BY <1>1, FS_Subset, FS_CardinalityType
<1>3. Cardinality(T) <= Cardinality(S \cup {x})
  BY <1>1, FS_Subset
<1>4. T \subseteq S => Cardinality(T) <= Cardinality(S)
  BY FS_Subset
<1> QED
  BY <1>1, <1>2, <1>3, <1>4

\* The orders of a signal can be counted, and so can what may still be ordered.
LEMMA FiniteOrders ==
    ASSUME TypeOK, NEW ref
    PROVE  /\ IsFiniteSet(OrdersOf(ref)) /\ Cardinality(OrdersOf(ref)) \in Nat
           /\ IsFiniteSet(Waiting(ref)) /\ Cardinality(Waiting(ref)) \in Nat
           /\ Unemitted(ref) \in 0..1
<1>1. submitted \in Seq(Positive) /\ validated["zerodha"] \in Seq(SignalRef)
  BY Brokers, TopicTypes DEF TypeOK, ZerodhaTypeOK
<1>2. /\ DOMAIN submitted = 1..Len(submitted) /\ Len(submitted) \in Nat
      /\ DOMAIN validated["zerodha"] = 1..Len(validated["zerodha"])
      /\ Len(validated["zerodha"]) \in Nat
  BY <1>1
<1>3. /\ OrdersOf(ref) \subseteq 1..Len(submitted)
      /\ Waiting(ref) \subseteq 1..Len(validated["zerodha"])
  BY <1>2 DEF OrdersOf, Waiting
<1>4. IsFiniteSet(OrdersOf(ref)) /\ IsFiniteSet(Waiting(ref))
  BY <1>2, <1>3, FiniteIndices
<1> QED
  BY <1>4, FS_CardinalityType DEF Unemitted

(***************************************************************************)
(* Apart from the emission of a verdict that passed, a step of the risk    *)
(* manager leaves the topic alone and makes a signal due again only at the *)
(* price of a fault.                                                       *)
(***************************************************************************)
LEMMA RiskSpends ==
    ASSUME TypeOK, References, InHandAnswered, RiskNext, ~(risk_pc = "emit" /\ passed),
           NEW ref \in SignalRef
    PROVE  /\ UNCHANGED <<validated, crashes>>
           /\ \/ faults' = faults + 1
              \/ faults' = faults /\ Unemitted(ref)' <= Unemitted(ref)
<1> USE DEF topic_vars
<1>1. ASSUME NEW r \in RawSignals, EvaluateSignal(r)
      PROVE  /\ UNCHANGED <<validated, crashes, faults>> /\ Unemitted(ref)' <= Unemitted(ref)
  BY <1>1 DEF EvaluateSignal, Unemitted
<1>2. CASE EmitVerdict
  BY <1>2 DEF EmitVerdict, SendVerdict, Unemitted
<1>3. CASE EmitRaises
  BY <1>3 DEF EmitRaises, SendVerdict, Fault
<1>4. CASE CountTrade
  BY <1>4 DEF CountTrade, Unemitted
<1>5. CASE CountRaises \/ RiskUnacknowledged
  BY <1>5 DEF CountRaises, RiskUnacknowledged, Fault
<1>6. CASE RiskReturn
  <2>1. /\ UNCHANGED <<validated, crashes, faults>> /\ risk_pc = "return" /\ risk_pc' = "idle"
        /\ risk_acked' = risk_acked \cup {risk_ref}
    BY <1>6 DEF RiskReturn, RiskIdle
  <2>2. Unemitted(ref)' <= Unemitted(ref)
    BY <2>1 DEF Unemitted
  <2> QED
    BY <2>1, <2>2
<1>7. ASSUME NEW t \in DOMAIN ticks, RiskTick(t)
      PROVE  /\ UNCHANGED <<validated, crashes, faults>> /\ Unemitted(ref)' <= Unemitted(ref)
  BY <1>7 DEF RiskTick, Unemitted
<1>8. ASSUME NEW t \in DOMAIN ticks, RiskTickRaises(t)
      PROVE  UNCHANGED <<validated, crashes>> /\ faults' = faults + 1
  BY <1>8 DEF RiskTickRaises, Fault
<1>9. ASSUME NEW i \in Instrument, PriceExpires(i)
      PROVE  /\ UNCHANGED <<validated, crashes, faults>> /\ Unemitted(ref)' <= Unemitted(ref)
  BY <1>9 DEF PriceExpires, Unemitted
<1> QED
  BY <1>1, <1>2, <1>3, <1>4, <1>5, <1>6, <1>7, <1>8, <1>9 DEF RiskNext

(***************************************************************************)
(* The steps of the other services and of the feed leave the risk manager  *)
(* and the validated signals alone.                                        *)
(***************************************************************************)
LEMMA OthersSpend ==
    ASSUME \/ \E i \in Instrument, p \in TickPrice : PublishTick(i, p)
           \/ RunnerNext \/ PaperNext,
           TypeOK
    PROVE  UNCHANGED <<validated, crashes>> /\ faults' \in {faults, faults + 1}
<1> USE DEF topic_vars, Fault
<1>1. ASSUME NEW i \in Instrument, NEW p \in TickPrice, PublishTick(i, p)
      PROVE  UNCHANGED <<validated, crashes, faults>>
  BY <1>1 DEF PublishTick
<1>2. CASE RunnerNext
  BY <1>2 DEF RunnerNext, LoadStrategies, TakeTick, OfferDeclined, OfferUnsent, OfferAnswered,
              RunnerReturn, RunnerUnacknowledged
<1>3. CASE PaperNext
  BY <1>3 DEF PaperNext, PaperAdmit, PaperIgnore, PaperFill, PaperReturn, PaperRaises
<1> QED
  BY <1>1, <1>2, <1>3

(***************************************************************************)
(* A verdict that passed makes its signal due at the zerodha service once  *)
(* more and moves no order.                                                *)
(***************************************************************************)
LEMMA VerdictDue ==
    ASSUME TypeOK, References, risk_pc = "emit", passed, SendVerdict, UNCHANGED zerodha_vars,
           NEW ref \in SignalRef
    PROVE  /\ OrdersOf(ref)' = OrdersOf(ref)
           /\ Waiting(ref)' \subseteq Waiting(ref) \cup {Len(validated["zerodha"]) + 1}
           /\ ref # risk_ref => Waiting(ref)' \subseteq Waiting(ref)
<1> DEFINE log == validated["zerodha"]
           b == risk_ref[1]
<1>1. /\ b \in Broker
      /\ validated' \in [Broker -> Seq(SignalRef)]
      /\ Grows(validated, validated')
      /\ Len(validated'[b]) = Len(validated[b]) + 1
      /\ validated'[b][Len(validated[b]) + 1] = risk_ref
      /\ \A c \in Broker : c # b => validated'[c] = validated[c]
  BY VerdictAppends
<1>2. /\ log \in Seq(SignalRef) /\ log' \in Seq(SignalRef)
      /\ Len(log) \in Nat /\ Len(log') \in Nat
      /\ DOMAIN log = 1..Len(log) /\ DOMAIN log' = 1..Len(log')
      /\ \A n \in 1..Len(log) : log'[n] = log[n]
  <2>1. log \in Seq(SignalRef) /\ log' \in Seq(SignalRef)
    BY <1>1, Brokers, TopicTypes
  <2>2. \A n \in 1..Len(log) : log'[n] = log[n]
    BY <1>1, Brokers DEF Grows
  <2> QED
    BY <2>1, <2>2
<1>3. \/ Len(log') = Len(log)
      \/ Len(log') = Len(log) + 1 /\ log'[Len(log) + 1] = risk_ref
  BY <1>1, Brokers
<1>4. /\ submitted' = submitted /\ zerodha_acked' = zerodha_acked /\ zerodha_job' = zerodha_job
      /\ DOMAIN submitted = 1..Len(submitted)
      /\ \A n \in 1..Len(submitted) : submitted[n] \in 1..Len(log)
  BY DEF zerodha_vars, References, TypeOK, ZerodhaTypeOK
<1> HIDE DEF log
<1>5. OrdersOf(ref)' = OrdersOf(ref)
  BY <1>2, <1>4 DEF OrdersOf, log
<1>6. ASSUME NEW j \in Waiting(ref)'
      PROVE  /\ j \in Waiting(ref) \cup {Len(log) + 1}
             /\ ref # risk_ref => j \in Waiting(ref)
  <2>1. j \in 1..Len(log') /\ log'[j] = ref /\ j \notin zerodha_acked /\ j # zerodha_job
    BY <1>2, <1>4, <1>6 DEF Waiting, log
  <2>2. CASE j \in 1..Len(log)
    BY <1>2, <2>1, <2>2 DEF Waiting, log
  <2>3. CASE j \notin 1..Len(log)
    <3>1. Len(log') = Len(log) + 1 /\ j = Len(log) + 1
      BY <1>2, <1>3, <2>1, <2>3 DEF log
    <3>2. log'[Len(log) + 1] = risk_ref
      BY <1>2, <1>3, <3>1 DEF log
    <3> QED
      BY <2>1, <3>1, <3>2
  <2> QED
    BY <2>2, <2>3
<1> QED
  BY <1>5, <1>6 DEF log

(***************************************************************************)
(* A step of the zerodha service orders what was due, and orders or makes  *)
(* due anything else only at the price of a fault.                         *)
(***************************************************************************)
LEMMA ZerodhaSpends ==
    ASSUME TypeOK, References, ZerodhaNext, NEW ref \in SignalRef
    PROVE  LET O == Cardinality(OrdersOf(ref))
               W == Cardinality(Waiting(ref))
           IN  /\ UNCHANGED <<validated, crashes>>
               /\ O' \in Nat /\ W' \in Nat
               /\ \/ faults' = faults /\ O' + W' <= O + W
                  \/ faults' = faults + 1 /\ O' + W' <= O + W + 1
<1> DEFINE log == validated["zerodha"]
           O == Cardinality(OrdersOf(ref))
           W == Cardinality(Waiting(ref))
           last == Len(submitted) + 1
<1> USE DEF topic_vars, Fault
<1>1. /\ submitted \in Seq(Positive) /\ Len(submitted) \in Nat
      /\ DOMAIN submitted = 1..Len(submitted)
      /\ log \in Seq(SignalRef) /\ DOMAIN log = 1..Len(log) /\ Len(log) \in Nat
  BY Brokers, TopicTypes DEF TypeOK, ZerodhaTypeOK
<1>2. UNCHANGED <<validated, crashes>>
  BY DEF ZerodhaNext, PlaceOrder, PlaceOrderUnsent, DiscardInvalid, ZerodhaReturn,
         ZerodhaUnacknowledged
<1>3. /\ IsFiniteSet(OrdersOf(ref)) /\ IsFiniteSet(Waiting(ref)) /\ O \in Nat /\ W \in Nat
  BY FiniteOrders
<1>4. ASSUME NEW j \in DOMAIN log, TakeValidated(j), zerodha_acked' = zerodha_acked
      PROVE  /\ Waiting(ref)' = Waiting(ref) \ {j}
             /\ log[j] = ref => j \in Waiting(ref)
  BY <1>1, <1>2, <1>4 DEF TakeValidated, Waiting
<1>5. ASSUME NEW j \in DOMAIN log, submitted' = Append(submitted, j)
      PROVE  OrdersOf(ref)' = OrdersOf(ref) \cup (IF log[j] = ref THEN {last} ELSE {})
  <2>1. j \in Positive
    BY <1>1, <1>5 DEF Positive
  <2>2. /\ DOMAIN submitted' = 1..last /\ submitted'[last] = j
        /\ \A n \in 1..Len(submitted) : submitted'[n] = submitted[n]
    BY <1>1, <1>5, <2>1
  <2> QED
    BY <1>1, <1>2, <2>2 DEF OrdersOf
<1>6. submitted' = submitted => OrdersOf(ref)' = OrdersOf(ref)
  BY <1>2 DEF OrdersOf
<1>7. ASSUME NEW j \in DOMAIN log, PlaceOrder(j)
      PROVE  faults' = faults /\ O' \in Nat /\ W' \in Nat /\ O' + W' <= O + W
  <2>1. /\ TakeValidated(j) /\ submitted' = Append(submitted, j)
        /\ zerodha_acked' = zerodha_acked /\ faults' = faults
    BY <1>7 DEF PlaceOrder
  <2>2. CASE log[j] = ref
    <3>1. OrdersOf(ref)' = OrdersOf(ref) \cup {last}
      BY <1>5, <2>1, <2>2
    <3>2. Waiting(ref)' = Waiting(ref) \ {j} /\ j \in Waiting(ref)
      BY <1>4, <2>1, <2>2
    <3>3. O' \in Nat /\ O' <= O + 1
      BY <1>3, <3>1, OneMore
    <3>4. W' = W - 1 /\ W' \in Nat
      BY <1>3, <3>2, FS_RemoveElement, FS_CardinalityType
    <3> QED
      BY <1>3, <2>1, <3>3, <3>4
  <2>3. CASE log[j] # ref
    <3>1. OrdersOf(ref)' = OrdersOf(ref)
      BY <1>5, <2>1, <2>3
    <3>2. Waiting(ref)' \subseteq Waiting(ref)
      BY <1>4, <2>1
    <3>3. O' = O /\ W' \in Nat /\ W' <= W
      BY <1>3, <3>1, <3>2, OneMore
    <3> QED
      BY <1>3, <2>1, <3>3
  <2> QED
    BY <2>2, <2>3
<1>8. ASSUME NEW j \in DOMAIN log, PlaceOrderUnsent(j) \/ DiscardInvalid(j)
      PROVE  faults' = faults + 1 /\ O' \in Nat /\ W' \in Nat /\ O' + W' <= O + W + 1
  <2>1. /\ TakeValidated(j) /\ submitted' \in {submitted, Append(submitted, j)}
        /\ zerodha_acked' = zerodha_acked /\ faults' = faults + 1
    BY <1>8 DEF PlaceOrderUnsent, DiscardInvalid
  <2>2. OrdersOf(ref)' \subseteq OrdersOf(ref) \cup {last}
    BY <1>5, <1>6, <2>1
  <2>3. Waiting(ref)' \subseteq Waiting(ref)
    BY <1>4, <2>1
  <2>4. O' \in Nat /\ O' <= O + 1
    BY <1>3, <2>2, OneMore
  <2>5. W' \in Nat /\ W' <= W
    BY <1>3, <2>3, OneMore
  <2> QED
    BY <1>3, <2>1, <2>4, <2>5
<1>9. ASSUME zerodha_job' = 0, submitted' = submitted,
             zerodha_acked' \in {zerodha_acked, zerodha_acked \cup {zerodha_job}}
      PROVE  /\ OrdersOf(ref)' = OrdersOf(ref)
             /\ Waiting(ref)' \subseteq Waiting(ref) \cup {zerodha_job}
             /\ zerodha_acked' # zerodha_acked => Waiting(ref)' \subseteq Waiting(ref)
  BY <1>2, <1>6, <1>9 DEF Waiting
<1>10. CASE ZerodhaReturn
  <2>1. /\ zerodha_job' = 0 /\ submitted' = submitted /\ faults' = faults
        /\ zerodha_acked' = zerodha_acked \cup {zerodha_job}
    BY <1>10 DEF ZerodhaReturn
  <2>2. OrdersOf(ref)' = OrdersOf(ref) /\ Waiting(ref)' \subseteq Waiting(ref)
    BY <1>2, <1>6, <2>1 DEF Waiting
  <2>3. O' = O /\ W' \in Nat /\ W' <= W
    BY <1>3, <2>2, OneMore
  <2> QED
    BY <1>2, <1>3, <2>1, <2>3
<1>11. CASE ZerodhaUnacknowledged
  <2>1. /\ zerodha_job' = 0 /\ submitted' = submitted /\ faults' = faults + 1
        /\ zerodha_acked' = zerodha_acked
    BY <1>11 DEF ZerodhaUnacknowledged
  <2>2. OrdersOf(ref)' = OrdersOf(ref) /\ Waiting(ref)' \subseteq Waiting(ref) \cup {zerodha_job}
    BY <1>9, <2>1
  <2>3. O' = O /\ W' \in Nat /\ W' <= W + 1
    BY <1>3, <2>2, OneMore
  <2> QED
    BY <1>2, <1>3, <2>1, <2>3
<1> QED
  BY <1>2, <1>7, <1>8, <1>10, <1>11 DEF ZerodhaNext, O, W

(***************************************************************************)
(* Every order event of a signal beyond the first has a fault of its own   *)
(* behind it.                                                              *)
(***************************************************************************)
LEMMA StepOrders ==
    ASSUME TypeOK, References, InHandAnswered, OrdersSoFar, [Next]_vars
    PROVE  OrdersSoFar'
<1> SUFFICES ASSUME NEW ref \in SignalRef
             PROVE  (Cardinality(OrdersOf(ref)) + Cardinality(Waiting(ref)) + Unemitted(ref)
                       <= 1 + faults + crashes)'
  BY DEF OrdersSoFar
<1> DEFINE O == Cardinality(OrdersOf(ref))
           W == Cardinality(Waiting(ref))
           u == Unemitted(ref)
           goal == O' + W' + u' <= 1 + faults' + crashes'
<1>1. /\ IsFiniteSet(OrdersOf(ref)) /\ IsFiniteSet(Waiting(ref))
      /\ O \in Nat /\ W \in Nat /\ u \in 0..1 /\ faults \in Nat /\ crashes \in Nat
  BY FiniteOrders, TopicTypes
<1>2. O + W + u <= 1 + faults + crashes
  BY DEF OrdersSoFar
<1>3. u' \in 0..1
  BY DEF Unemitted
<1>4. ASSUME UNCHANGED <<validated, zerodha_vars>>, crashes' = crashes,
             \/ faults' = faults + 1
             \/ faults' = faults /\ u' <= u
      PROVE  goal
  <2>1. O' = O /\ W' = W
    BY <1>4 DEF zerodha_vars, OrdersOf, Waiting
  <2> QED
    BY <1>1, <1>2, <1>3, <1>4, <2>1
<1>5. ASSUME UNCHANGED risk_vars PROVE u' = u
  BY <1>5 DEF risk_vars, Unemitted
<1>6. CASE UNCHANGED vars
  <2>1. u' = u /\ UNCHANGED <<validated, zerodha_vars, crashes, faults>>
    BY <1>5, <1>6 DEF vars, topic_vars
  <2> QED
    BY <1>1, <1>4, <2>1
<1>7. CASE /\ \/ \E i \in Instrument, p \in TickPrice : PublishTick(i, p)
              \/ RunnerNext \/ PaperNext
           /\ UNCHANGED <<risk_vars, zerodha_vars>>
  <2>1. UNCHANGED <<validated, crashes>> /\ faults' \in {faults, faults + 1}
    BY <1>7, OthersSpend
  <2>2. u' = u
    BY <1>5, <1>7
  <2> QED
    BY <1>1, <1>4, <1>7, <2>1, <2>2
<1>8. CASE RiskNext /\ UNCHANGED zerodha_vars
  <2>1. CASE ~(risk_pc = "emit" /\ passed)
    <3>1. /\ UNCHANGED <<validated, crashes>>
          /\ \/ faults' = faults + 1
             \/ faults' = faults /\ u' <= u
      BY <1>8, <2>1, RiskSpends
    <3> QED
      BY <1>4, <1>8, <3>1
  <2>2. CASE risk_pc = "emit" /\ passed
    <3>1. EmitVerdict \/ EmitRaises \/ \E i \in Instrument : PriceExpires(i)
      BY <1>8, <2>2 DEF RiskNext, EvaluateSignal, CountTrade, CountRaises, RiskReturn,
                        RiskUnacknowledged, RiskTick, RiskTickRaises
    <3>2. risk_ref \notin risk_acked
      BY <2>2 DEF InHandAnswered
    <3>3. CASE SendVerdict /\ (EmitVerdict \/ EmitRaises)
      <4>1. /\ OrdersOf(ref)' = OrdersOf(ref)
            /\ Waiting(ref)' \subseteq Waiting(ref) \cup {Len(validated["zerodha"]) + 1}
            /\ ref # risk_ref => Waiting(ref)' \subseteq Waiting(ref)
        BY <1>8, <2>2, <3>3, VerdictDue
      <4>2. O' = O /\ W' \in Nat /\ W' <= W + 1 /\ (ref # risk_ref => W' <= W)
        BY <1>1, <4>1, OneMore
      <4>3. CASE EmitVerdict
        <5>1. faults' = faults /\ crashes' = crashes
          BY <4>3 DEF EmitVerdict
        <5>2. ref = risk_ref => u = 1 /\ u' = 0
          BY <2>2, <3>2, <4>3 DEF EmitVerdict, Unemitted
        <5>3. ref # risk_ref => u' = u
          BY <2>2, <4>3 DEF EmitVerdict, Unemitted
        <5> QED
          BY <1>1, <1>2, <4>2, <5>1, <5>2, <5>3
      <4>4. CASE EmitRaises
        <5>1. faults' = faults + 1 /\ crashes' = crashes
          BY <4>4 DEF EmitRaises, Fault
        <5>2. u' = u
          BY <2>2, <4>4 DEF EmitRaises, RiskIdle, Unemitted
        <5> QED
          BY <1>1, <1>2, <4>2, <5>1, <5>2
      <4> QED
        BY <3>3, <4>3, <4>4
    <3>4. CASE EmitRaises /\ UNCHANGED topic_vars
      <4>1. UNCHANGED <<validated, crashes>> /\ faults' = faults + 1
        BY <3>4 DEF EmitRaises, Fault, topic_vars
      <4> QED
        BY <1>4, <1>8, <4>1
    <3>5. ASSUME NEW i \in Instrument, PriceExpires(i) PROVE goal
      <4>1. UNCHANGED <<validated, crashes, faults>> /\ u' = u
        BY <3>5 DEF PriceExpires, topic_vars, Unemitted
      <4> QED
        BY <1>1, <1>4, <1>8, <4>1
    <3>6. EmitVerdict => SendVerdict
      BY DEF EmitVerdict
    <3>7. EmitRaises => SendVerdict \/ UNCHANGED topic_vars
      BY DEF EmitRaises
    <3> QED
      BY <3>1, <3>3, <3>4, <3>5, <3>6, <3>7
  <2> QED
    BY <2>1, <2>2
<1>9. CASE ZerodhaNext /\ UNCHANGED risk_vars
  <2>1. /\ crashes' = crashes /\ O' \in Nat /\ W' \in Nat
        /\ \/ faults' = faults /\ O' + W' <= O + W
           \/ faults' = faults + 1 /\ O' + W' <= O + W + 1
    BY <1>9, ZerodhaSpends
  <2>2. u' = u
    BY <1>5, <1>9
  <2> QED
    BY <1>1, <1>2, <2>1, <2>2
<1>10. CASE Crash
  <2>1. /\ crashes' = crashes + 1 /\ faults' = faults + 1
        /\ zerodha_job' = 0 /\ UNCHANGED <<validated, submitted, zerodha_acked>>
    BY <1>10 DEF Crash, Fault, ZerodhaRestart, topic_vars
  <2>2. OrdersOf(ref)' = OrdersOf(ref) /\ Waiting(ref)' \subseteq Waiting(ref) \cup {zerodha_job}
    BY <2>1 DEF OrdersOf, Waiting
  <2>3. O' = O /\ W' \in Nat /\ W' <= W + 1
    BY <1>1, <2>2, OneMore
  <2> QED
    BY <1>1, <1>2, <1>3, <2>1, <2>3
<1>11. goal
  BY <1>6, <1>7, <1>8, <1>9, <1>10 DEF Next
<1> QED
  BY <1>11 DEF goal

-----------------------------------------------------------------------------
(* The theorems.                                                           *)

(***************************************************************************)
(* A process starts with empty topics, memory and Redis.                   *)
(***************************************************************************)
LEMMA InitInv == Init => PipelineInv
<1> SUFFICES ASSUME Init PROVE PipelineInv
  OBVIOUS
<1> USE Brokers, PipelineAssumption DEF Init, TopicsInit, RunnerInit, RiskInit, ZerodhaInit
<1>1. TopicsTypeOK
  BY DEF TopicsTypeOK
<1>2. RunnerTypeOK /\ ZerodhaTypeOK
  BY DEF RunnerTypeOK, ZerodhaTypeOK
<1>3. RiskTypeOK
  BY DEF RiskTypeOK
<1>4. TypeOK
  BY <1>1, <1>2, <1>3 DEF TypeOK
<1>5. References
  BY DEF References, OwnSignals
<1>6. DueIsPending /\ VerdictCurrent /\ InHandAnswered /\ AcknowledgedIsAnswered
  BY DEF DueIsPending, VerdictCurrent, InHandAnswered, AcknowledgedIsAnswered
<1>7. OrdersSoFar /\ FilledSoFar
  <2>1. ASSUME NEW ref \in SignalRef
        PROVE  OrdersOf(ref) = {} /\ Waiting(ref) = {} /\ Unemitted(ref) \in 0..1
    BY DEF OrdersOf, Waiting, Unemitted
  <2>2. faults = 0 /\ crashes = 0
    OBVIOUS
  <2>3. OrdersSoFar
    <3> SUFFICES ASSUME NEW ref \in SignalRef
                 PROVE  Cardinality(OrdersOf(ref)) + Cardinality(Waiting(ref)) + Unemitted(ref)
                          <= 1 + faults + crashes
      BY DEF OrdersSoFar
    <3>1. Cardinality(OrdersOf(ref)) = 0 /\ Cardinality(Waiting(ref)) = 0
      BY <2>1, FS_EmptySet
    <3> QED
      BY <2>1, <2>2, <3>1
  <2>4. 1..Len(validated["paper"]) = {}
    OBVIOUS
  <2> QED
    BY <2>3, <2>4 DEF FilledSoFar
<1>8. CountedSoFar
  <2>1. ASSUME NEW b \in Broker, NEW s \in Strategy
        PROVE  /\ ValidatedFor(b, s) = {} /\ AcknowledgedTrades(b, s) = {}
               /\ counters[increment_key(b, s)] = 0
               /\ InHand("count", b, s) = 0 /\ InHand("return", b, s) = 0
    <3>1. ValidatedFor(b, s) = {}
      BY DEF ValidatedFor
    <3>2. AcknowledgedTrades(b, s) = {}
      BY DEF AcknowledgedTrades
    <3>3. counters[increment_key(b, s)] = 0
      BY DEF increment_key, CounterKey
    <3>4. InHand("count", b, s) = 0 /\ InHand("return", b, s) = 0
      BY DEF InHand
    <3> QED
      BY <3>1, <3>2, <3>3, <3>4
  <2>2. ASSUME NEW b \in Broker, NEW s \in Strategy
        PROVE  /\ counters[increment_key(b, s)] + InHand("count", b, s)
                    <= Cardinality(ValidatedFor(b, s))
               /\ Cardinality(AcknowledgedTrades(b, s)) + InHand("return", b, s)
                    <= counters[increment_key(b, s)]
    <3>1. Cardinality(ValidatedFor(b, s)) = 0 /\ Cardinality(AcknowledgedTrades(b, s)) = 0
      BY <2>1, FS_EmptySet
    <3> QED
      BY <2>1, <3>1
  <2>3. IsFiniteSet(risk_acked)
    BY FS_EmptySet
  <2> QED
    BY <2>2, <2>3 DEF CountedSoFar
<1> QED
  BY <1>4, <1>5, <1>6, <1>7, <1>8 DEF PipelineInv

(***************************************************************************)
(* Every step of every service, and a crash of all of them, preserves the  *)
(* invariant.                                                              *)
(***************************************************************************)
LEMMA StepInv == PipelineInv /\ [Next]_vars => PipelineInv'
<1> SUFFICES ASSUME PipelineInv, [Next]_vars PROVE PipelineInv'
  OBVIOUS
<1> USE DEF PipelineInv
<1>1. TypeOK'
  BY TopicsGrow, StepRunner, StepRiskTypes, StepZerodha, StepPaperTypes
     DEF TypeOK, RunnerInv, ZerodhaInv, PaperTypeOK
<1>2. References'
  BY TicksGrow, StepRunner, StepRiskReferences, StepZerodha, StepPaperTypes
     DEF References, RunnerInv, RiskReferences, ZerodhaInv, PaperReferences
<1>3. DueIsPending' /\ VerdictCurrent'
  BY StepRunner, StepVerdictCurrent DEF RunnerInv
<1>4. InHandAnswered' /\ AcknowledgedIsAnswered' /\ CountedSoFar'
  BY StepAnswered, StepCounted
<1>5. OrdersSoFar' /\ FilledSoFar'
  BY StepOrders, StepFilled
<1> QED
  BY <1>1, <1>2, <1>3, <1>4, <1>5

\* So it holds throughout.
LEMMA InvHolds == Spec => []PipelineInv
BY InitInv, StepInv, PTL DEF Spec

(***************************************************************************)
(* TypeOK holds of the composed pipeline.                                  *)
(***************************************************************************)
THEOREM TypesHold == Spec => []TypeOK
<1>1. PipelineInv => TypeOK
  BY DEF PipelineInv
<1> QED
  BY <1>1, InvHolds, PTL

(***************************************************************************)
(* A signal the risk manager acknowledges has been answered on its own     *)
(* broker's topics, through every failing emission, crash and redelivery.  *)
(***************************************************************************)
THEOREM SignalsAreAnswered == Spec => []AcknowledgedIsAnswered
<1>1. PipelineInv => AcknowledgedIsAnswered
  BY DEF PipelineInv
<1> QED
  BY <1>1, InvHolds, PTL

(***************************************************************************)
(* The daily counter of a broker and strategy never runs ahead of the      *)
(* validated signals and misses none that was acknowledged.                *)
(***************************************************************************)
THEOREM CountersFollowTrades == Spec => []TradesAreCounted
<1>1. PipelineInv => TradesAreCounted
  <2> SUFFICES ASSUME PipelineInv, NEW b \in Broker, NEW s \in Strategy
               PROVE  LET n == counters[increment_key(b, s)] IN
                      /\ n <= Cardinality(ValidatedFor(b, s))
                      /\ Cardinality(AcknowledgedTrades(b, s)) <= n
    BY DEF TradesAreCounted
  <2>1. InHand("count", b, s) \in 0..1 /\ InHand("return", b, s) \in 0..1
    BY DEF InHand
  <2> QED
    BY <2>1, FiniteTrades DEF PipelineInv, CountedSoFar
<1> QED
  BY <1>1, InvHolds, PTL

(***************************************************************************)
(* Every order event of a signal beyond the first has a failed call or a   *)
(* crash of its own behind it, although neither the risk manager nor the   *)
(* zerodha service recognises what it has handled before.                  *)
(***************************************************************************)
THEOREM RepeatsNeedFaults == Spec => []OrdersWithinFaults
<1>1. PipelineInv => OrdersWithinFaults
  <2> SUFFICES ASSUME PipelineInv, NEW ref \in RawSignals
               PROVE  Cardinality(OrdersOf(ref)) <= 1 + faults + crashes
    BY DEF OrdersWithinFaults
  <2>1. ref \in SignalRef
    BY RawSignalsStored DEF PipelineInv, Stored
  <2>2. Cardinality(OrdersOf(ref)) + Cardinality(Waiting(ref)) + Unemitted(ref)
          <= 1 + faults + crashes
    BY <2>1 DEF PipelineInv, OrdersSoFar
  <2>3. /\ Cardinality(OrdersOf(ref)) \in Nat /\ Cardinality(Waiting(ref)) \in Nat
        /\ Unemitted(ref) \in 0..1 /\ faults \in Nat /\ crashes \in Nat
    BY FiniteOrders, TopicTypes DEF PipelineInv
  <2> QED
    BY <2>2, <2>3
<1> QED
  BY <1>1, InvHolds, PTL

(***************************************************************************)
(* A validated signal is filled on paper once and, however often it is     *)
(* delivered, again only after its key was evicted or lost in a crash, and *)
(* once for each such loss.                                                *)
(***************************************************************************)
THEOREM RefillsNeedForgetting == Spec => []FillsWithinMemory
<1>1. PipelineInv => FillsWithinMemory
  <2> SUFFICES ASSUME PipelineInv, NEW j \in DOMAIN validated["paper"]
               PROVE  Times(j, fills) <= 1 + Times(IdempotenceKey(j), forgotten)
    BY DEF FillsWithinMemory
  <2> DEFINE F == Times(j, fills)
             G == Times(IdempotenceKey(j), forgotten)
             h == IF paper_pc = "fill" /\ paper_job = j THEN 1 ELSE 0
             m == IF IdempotenceKey(j) \in SeqRange(seen_queue) THEN 1 ELSE 0
  <2>1. j \in 1..Len(validated["paper"])
    BY Brokers, TopicTypes DEF PipelineInv
  <2>2. F + h <= G + m
    BY <2>1 DEF PipelineInv, FilledSoFar
  <2>3. F \in Nat /\ G \in Nat
    BY CountType DEF PipelineInv, TypeOK
  <2>4. h \in 0..1 /\ m \in 0..1
    OBVIOUS
  <2> HIDE DEF F, G, h, m
  <2>5. F <= 1 + G
    BY <2>2, <2>3, <2>4
  <2> QED
    BY <2>5 DEF F, G
<1> QED
  BY <1>1, InvHolds, PTL

(***************************************************************************)
(* A tick is acknowledged only after every strategy it was due to has been *)
(* offered it, although a strategy or its emission may have failed.        *)
(***************************************************************************)
THEOREM StrategiesAreServed == Spec => EveryStrategyServed
<1>1. ASSUME PipelineInv, [Next]_vars
      PROVE  [runner_acked' # runner_acked => due \subseteq offered]_runner_vars
  <2> SUFFICES ASSUME runner_acked' # runner_acked PROVE due \subseteq offered
    OBVIOUS
  <2>1. RunnerReturn
    BY <1>1 DEF Next, vars, runner_vars, RunnerNext, LoadStrategies, TakeTick, OfferDeclined,
                OfferUnsent, OfferAnswered, Offer, RunnerUnacknowledged, Crash, RunnerRestart
  <2> QED
    BY <1>1, <2>1 DEF RunnerReturn, PipelineInv, DueIsPending
<1> QED
  BY <1>1, InvHolds, PTL DEF Spec, EveryStrategyServed

(***************************************************************************)
(* Whenever a validated signal is published its price is within the band   *)
(* around the recent price stored at that moment, although the price was   *)
(* read before the awaits of the emission.                                 *)
(***************************************************************************)
THEOREM EmissionsAreWithinBand == Spec => EmitsWithinBand
<1> DEFINE InBand(b) ==
      Len(validated'[b]) > Len(validated[b]) =>
         LET s == SignalOf(validated'[b][Len(validated'[b])]) IN
         WithinBand(s.price, recent_price[s.instrument])
<1>1. ASSUME PipelineInv, [Next]_vars, NEW b \in Broker PROVE InBand(b)
  <2> SUFFICES ASSUME Len(validated'[b]) > Len(validated[b])
               PROVE  LET s == SignalOf(validated'[b][Len(validated'[b])]) IN
                      WithinBand(s.price, recent_price[s.instrument])
    OBVIOUS
  <2>1. TypeOK /\ References /\ VerdictCurrent
    BY <1>1 DEF PipelineInv
  <2>2. Len(validated[b]) \in Nat
    BY <2>1, TopicTypes
  <2>3. Judged
    BY <1>1, <2>1, <2>2, StepKinds DEF Quiet, Published
  <2>4. risk_pc = "emit" /\ SendVerdict
    BY <2>3 DEF Judged
  <2>5. passed /\ risk_ref[1] = b
    BY <2>1, <2>2, <2>4, VerdictAppends
  <2>6. validated'[b][Len(validated'[b])] = risk_ref
    BY <2>1, <2>4, <2>5, VerdictAppends
  <2>7. PriceLimitRule(SignalOf(risk_ref))
    BY <2>1, <2>4, <2>5 DEF VerdictCurrent
  <2> QED
    BY <2>6, <2>7 DEF PriceLimitRule
<1>2. PipelineInv /\ [Next]_vars => [\A b \in Broker : InBand(b)]_vars
  BY <1>1
<1> QED
  BY <1>2, InvHolds, PTL DEF Spec, EmitsWithinBand

-----------------------------------------------------------------------------
(* The refinement of TradeAuthorization.                                   *)

\* The refinement mapping.
requested == [b \in Broker |-> SeqRange(raw[b])]
authorised == [b \in Broker |-> {SignalOf(ref) : ref \in SeqRange(validated[b])}]
Orders(b) == IF b = "paper" THEN fills ELSE submitted
ordered == [b \in Broker |-> {SignalOf(validated[b][j]) : j \in SeqRange(Orders(b))}]

(***************************************************************************)
(* The abstract actions in terms of the mapping.                           *)
(***************************************************************************)
LEMMA AbstractActions ==
    ASSUME NEW b \in Broker, NEW sig \in TradingSignal
    PROVE  /\ /\ requested' = [requested EXCEPT ![Route(sig.strategy)] = @ \cup {sig}]
              /\ UNCHANGED <<authorised, ordered>>
              => Authorization!Next
           /\ /\ sig \in requested[b] /\ sig.quantity <= max_position
              /\ authorised' = [authorised EXCEPT ![b] = @ \cup {sig}]
              /\ UNCHANGED <<requested, ordered>>
              => Authorization!Next
           /\ /\ sig \in authorised[b]
              /\ ordered' = [ordered EXCEPT ![b] = @ \cup {sig}]
              /\ UNCHANGED <<requested, authorised>>
              => Authorization!Next
           /\ UNCHANGED <<requested, authorised, ordered>> => UNCHANGED Authorization!vars
<1> USE DEF requested, authorised, ordered, Orders
<1>1. ASSUME requested' = [requested EXCEPT ![Route(sig.strategy)] = @ \cup {sig}],
             UNCHANGED <<authorised, ordered>>
      PROVE  Authorization!Next
  <2>1. Authorization!Request(sig)
    BY <1>1 DEF Authorization!Request
  <2> QED
    BY <2>1 DEF Authorization!Next
<1>2. ASSUME sig \in requested[b], sig.quantity <= max_position,
             authorised' = [authorised EXCEPT ![b] = @ \cup {sig}],
             UNCHANGED <<requested, ordered>>
      PROVE  Authorization!Next
  <2>1. Authorization!Authorise(b, sig)
    BY <1>2 DEF Authorization!Authorise
  <2> QED
    BY <2>1 DEF Authorization!Next
<1>3. ASSUME sig \in authorised[b],
             ordered' = [ordered EXCEPT ![b] = @ \cup {sig}],
             UNCHANGED <<requested, authorised>>
      PROVE  Authorization!Next
  <2>1. Authorization!Order(b, sig)
    BY <1>3 DEF Authorization!Order
  <2> QED
    BY <2>1 DEF Authorization!Next
<1>4. UNCHANGED <<requested, authorised, ordered>> => UNCHANGED Authorization!vars
  BY DEF Authorization!vars
<1> QED
  BY <1>1, <1>2, <1>3, <1>4

(***************************************************************************)
(* The steps that place an order leave the topics alone and append one     *)
(* event for a validated signal; no other step changes an order.           *)
(***************************************************************************)
LEMMA OrderKinds ==
    ASSUME TypeOK, References, [Next]_vars
    PROVE  \/ UNCHANGED <<fills, submitted>>
           \/ /\ Quiet /\ UNCHANGED submitted
              /\ paper_job \in 1..Len(validated["paper"])
              /\ fills' = Append(fills, paper_job)
           \/ /\ Quiet /\ UNCHANGED fills
              /\ \E j \in 1..Len(validated["zerodha"]) : submitted' = Append(submitted, j)
<1>1. DOMAIN validated["zerodha"] = 1..Len(validated["zerodha"])
  BY Brokers, TopicTypes
<1>2. CASE PaperNext /\ UNCHANGED zerodha_vars
  <2>1. Quiet
    BY <1>2 DEF PaperNext, PaperAdmit, PaperIgnore, PaperFill, PaperReturn, PaperRaises, Quiet,
                topic_vars
  <2>2. CASE PaperFills
    BY <1>2, <2>1, <2>2 DEF PaperFills, References, zerodha_vars
  <2>3. CASE ~PaperFills
    <3>1. fills' = fills
      BY <2>3, PaperKinds DEF PaperEnds, PaperTakes, paper_vars
    <3> QED
      BY <1>2, <3>1 DEF zerodha_vars
  <2> QED
    BY <2>2, <2>3
<1>3. CASE ZerodhaNext /\ UNCHANGED paper_vars
  <2>1. Quiet
    BY <1>3 DEF ZerodhaNext, PlaceOrder, PlaceOrderUnsent, DiscardInvalid, ZerodhaReturn, ZerodhaUnacknowledged,
                Quiet, topic_vars
  <2>2. \/ UNCHANGED submitted
        \/ \E j \in 1..Len(validated["zerodha"]) : submitted' = Append(submitted, j)
    BY <1>1, <1>3 DEF ZerodhaNext, PlaceOrder, PlaceOrderUnsent, DiscardInvalid, ZerodhaReturn,
                      ZerodhaUnacknowledged
  <2> QED
    BY <1>3, <2>1, <2>2 DEF paper_vars
<1>4. CASE UNCHANGED <<zerodha_vars, paper_vars>>
  BY <1>4 DEF zerodha_vars, paper_vars
<1>5. CASE Crash
  BY <1>5 DEF Crash, ZerodhaRestart, PaperRestart
<1> QED
  BY <1>2, <1>3, <1>4, <1>5 DEF Next, vars

(***************************************************************************)
(* Every order event is for a validated signal of its broker.              *)
(***************************************************************************)
LEMMA OrdersStored ==
    ASSUME TypeOK, References, NEW b \in Broker, NEW j \in SeqRange(Orders(b))
    PROVE  j \in 1..Len(validated[b])
<1>1. fills \in Seq(Positive) /\ submitted \in Seq(Positive)
  BY DEF TypeOK, ZerodhaTypeOK
<1>2. CASE b = "paper"
  BY <1>1, <1>2 DEF References, Orders, SeqRange
<1>3. CASE b = "zerodha"
  BY <1>1, <1>3 DEF References, Orders, SeqRange
<1> QED
  BY <1>2, <1>3 DEF Broker

(***************************************************************************)
(* What is authorised and ordered stays as long as no verdict is sent and  *)
(* no order placed, however many signals are published.                    *)
(***************************************************************************)
LEMMA AuthorisedAlone ==
    ASSUME TypeOK, References, [Next]_vars, UNCHANGED <<validated, fills, submitted>>
    PROVE  UNCHANGED <<authorised, ordered>>
<1>1. \A ref : Stored(ref) => raw'[ref[1]][ref[2]] = raw[ref[1]][ref[2]]
  BY TopicsGrow DEF Grows, Stored, SignalRef
<1>2. ASSUME NEW b \in Broker
      PROVE  {SignalOf(ref) : ref \in SeqRange(validated[b])}'
               = {SignalOf(ref) : ref \in SeqRange(validated[b])}
  <2>1. \A ref \in SeqRange(validated[b]) : Stored(ref)
    <3>1. DOMAIN validated[b] = 1..Len(validated[b])
      BY TopicTypes
    <3> QED
      BY <3>1 DEF SeqRange, References, OwnSignals
  <2> QED
    BY <1>1, <2>1 DEF SignalOf, SeqRange
<1>3. ASSUME NEW b \in Broker
      PROVE  {SignalOf(validated[b][j]) : j \in SeqRange(Orders(b))}'
               = {SignalOf(validated[b][j]) : j \in SeqRange(Orders(b))}
  <2>1. \A j \in SeqRange(Orders(b)) : j \in 1..Len(validated[b])
    BY OrdersStored
  <2>2. \A j \in SeqRange(Orders(b)) : Stored(validated[b][j])
    BY <2>1 DEF References, OwnSignals
  <2> QED
    BY <1>1, <2>2 DEF SignalOf, SeqRange, Orders
<1> QED
  BY <1>2, <1>3 DEF authorised, ordered

(***************************************************************************)
(* A published signal is a request of the broker its strategy trades with. *)
(***************************************************************************)
LEMMA PublishedRequests ==
    ASSUME TypeOK, References, [Next]_vars, Published
    PROVE  Authorization!Next
<1>1. PICK s \in Strategy, p \in SignalPrice, q \in Quantity :
        /\ NewSignal(s, p, q) \in TradingSignal
        /\ raw' = Send(raw, Route(s), NewSignal(s, p, q))
  BY DEF Published
<1> DEFINE sig == NewSignal(s, p, q)
<1>2. sig.strategy = s /\ Route(s) \in Broker
  BY RouteType DEF NewSignal
<1>3. UNCHANGED <<authorised, ordered>>
  BY AuthorisedAlone DEF Published, zerodha_vars, paper_vars
<1>4. ASSUME NEW b \in Broker
      PROVE  SeqRange(raw'[b]) = SeqRange(raw[b]) \cup (IF b = Route(s) THEN {sig} ELSE {})
  <2>1. raw[b] \in Seq(TradingSignal) /\ Len(raw[b]) \in Nat /\ DOMAIN raw[b] = 1..Len(raw[b])
    BY TopicTypes
  <2>2. CASE b = Route(s)
    <3>1. raw'[b] = Append(raw[b], sig)
      BY <1>1, <1>2, <2>2, TopicTypes DEF Send
    <3>2. /\ DOMAIN Append(raw[b], sig) = 1..(Len(raw[b]) + 1)
          /\ Append(raw[b], sig)[Len(raw[b]) + 1] = sig
          /\ \A n \in 1..Len(raw[b]) : Append(raw[b], sig)[n] = raw[b][n]
      BY <1>1, <2>1
    <3>3. 1..(Len(raw[b]) + 1) = 1..Len(raw[b]) \cup {Len(raw[b]) + 1}
      BY <2>1
    <3> HIDE DEF sig
    <3> QED
      BY <2>1, <2>2, <3>1, <3>2, <3>3 DEF SeqRange
  <2>3. CASE b # Route(s)
    BY <1>1, <1>2, <2>3, TopicTypes DEF Send, SeqRange
  <2> QED
    BY <2>2, <2>3
<1>5. requested' = [requested EXCEPT ![Route(sig.strategy)] = @ \cup {sig}]
  BY <1>2, <1>4 DEF requested
<1> QED
  BY <1>1, <1>2, <1>3, <1>5, AbstractActions

(***************************************************************************)
(* A verdict that is sent authorises a requested signal within the         *)
(* position limit, or leaves no trace in the abstract state.               *)
(***************************************************************************)
LEMMA JudgedAuthorises ==
    ASSUME TypeOK, References, VerdictCurrent, [Next]_vars, Judged
    PROVE  Authorization!Next \/ UNCHANGED Authorization!vars
<1> DEFINE c == risk_ref[1]
           sig == SignalOf(risk_ref)
<1>1. /\ risk_pc = "emit" /\ SendVerdict /\ raw' = raw /\ UNCHANGED <<fills, submitted>>
      /\ Stored(risk_ref) /\ c \in Broker
  BY VerdictAppends DEF Judged, zerodha_vars, paper_vars
<1>2. sig \in TradingSignal
  BY <1>1, StoredSignal
<1>3. requested' = requested
  BY <1>1 DEF requested
<1>4. CASE ~passed
  <2>1. validated' = validated
    BY <1>1, <1>4, VerdictAppends
  <2> QED
    BY <1>1, <1>2, <1>3, <2>1, AuthorisedAlone, AbstractActions
<1>5. CASE passed
  <2>1. /\ Len(validated'[c]) = Len(validated[c]) + 1
        /\ validated'[c][Len(validated[c]) + 1] = risk_ref
        /\ \A b \in Broker : b # c => validated'[b] = validated[b]
        /\ Grows(validated, validated')
        /\ validated' \in [Broker -> Seq(SignalRef)]
    BY <1>1, <1>5, VerdictAppends
  <2>2. \A b \in Broker : /\ Len(validated[b]) \in Nat
                          /\ DOMAIN validated[b] = 1..Len(validated[b])
                          /\ DOMAIN validated'[b] = 1..Len(validated'[b])
    BY <2>1, TopicTypes
  <2>3. sig \in requested[c] /\ sig.quantity <= max_position
    <3>1. sig \in requested[c]
      BY <1>1, TopicTypes DEF requested, SignalOf, Stored, SeqRange
    <3>2. sig.quantity <= max_position
      BY <1>1, <1>5 DEF VerdictCurrent, MaxPositionSizeRule
    <3> QED
      BY <3>1, <3>2
  <2>4. SeqRange(validated'[c]) = SeqRange(validated[c]) \cup {risk_ref}
    <3>1. 1..(Len(validated[c]) + 1) = 1..Len(validated[c]) \cup {Len(validated[c]) + 1}
      BY <1>1, <2>2
    <3>2. \A n \in 1..Len(validated[c]) : validated'[c][n] = validated[c][n]
      BY <1>1, <2>1 DEF Grows
    <3>3. /\ DOMAIN validated[c] = 1..Len(validated[c])
          /\ DOMAIN validated'[c] = 1..(Len(validated[c]) + 1)
          /\ Len(validated[c]) \in Nat
      BY <1>1, <2>1, <2>2
    <3> HIDE DEF c
    <3>4. SeqRange(validated'[c]) \subseteq SeqRange(validated[c]) \cup {risk_ref}
      BY <2>1, <3>1, <3>2, <3>3 DEF SeqRange
    <3>5. SeqRange(validated[c]) \cup {risk_ref} \subseteq SeqRange(validated'[c])
      BY <2>1, <3>1, <3>2, <3>3 DEF SeqRange
    <3> QED
      BY <3>4, <3>5
  <2>5. authorised' = [authorised EXCEPT ![c] = @ \cup {sig}]
    <3>1. ASSUME NEW b \in Broker
          PROVE  {SignalOf(ref) : ref \in SeqRange(validated[b])}'
                   = {SignalOf(ref) : ref \in SeqRange(validated[b])}
                       \cup (IF b = c THEN {sig} ELSE {})
      <4>1. CASE b = c
        BY <1>1, <2>4, <4>1 DEF SignalOf
      <4>2. CASE b # c
        BY <1>1, <2>1, <4>2 DEF SignalOf
      <4> QED
        BY <4>1, <4>2
    <3> HIDE DEF sig, c
    <3> QED
      BY <1>1, <3>1 DEF authorised
  <2>6. ordered' = ordered
    <3>1. ASSUME NEW b \in Broker
          PROVE  {SignalOf(validated[b][j]) : j \in SeqRange(Orders(b))}'
                   = {SignalOf(validated[b][j]) : j \in SeqRange(Orders(b))}
      <4>1. \A j \in SeqRange(Orders(b)) : j \in 1..Len(validated[b])
        BY OrdersStored
      <4>2. \A j \in SeqRange(Orders(b)) : validated'[b][j] = validated[b][j]
        BY <2>1, <4>1 DEF Grows
      <4> QED
        BY <1>1, <4>2 DEF SignalOf, Orders
    <3> QED
      BY <3>1 DEF ordered
  <2> QED
    BY <1>1, <1>2, <1>3, <2>3, <2>5, <2>6, AbstractActions
<1> QED
  BY <1>4, <1>5

(***************************************************************************)
(* An order event is an order for a signal authorised for its broker.      *)
(***************************************************************************)
LEMMA EventOrders ==
    ASSUME TypeOK, References, Quiet, NEW b \in Broker, NEW j \in 1..Len(validated[b]),
           Orders(b)' = Append(Orders(b), j),
           \A c \in Broker : c # b => Orders(c)' = Orders(c)
    PROVE  Authorization!Next
<1> DEFINE ref == validated[b][j]
           sig == SignalOf(ref)
<1>1. Stored(ref) /\ sig \in TradingSignal
  BY StoredSignal DEF References, OwnSignals
<1>2. raw' = raw /\ validated' = validated
  BY DEF Quiet
<1>3. UNCHANGED <<requested, authorised>>
  BY <1>2 DEF requested, authorised, SignalOf
<1>4. sig \in authorised[b]
  <2>1. ref \in SeqRange(validated[b])
    BY TopicTypes, InRange
  <2> QED
    BY <2>1 DEF authorised
<1>5. j \in Positive /\ Orders(b) \in Seq(Positive)
  BY TopicTypes DEF Positive, Orders, TypeOK, ZerodhaTypeOK
<1>6. SeqRange(Orders(b))' = SeqRange(Orders(b)) \cup {j}
  BY <1>5, AppendEvent
<1>7. \A c \in Broker : c # b => SeqRange(Orders(c))' = SeqRange(Orders(c))
  BY DEF SeqRange
<1>8. ASSUME NEW c \in Broker
      PROVE  {SignalOf(validated[c][k]) : k \in SeqRange(Orders(c))}'
               = {SignalOf(validated[c][k]) : k \in SeqRange(Orders(c))}
                   \cup (IF c = b THEN {sig} ELSE {})
  <2>1. CASE c = b
    BY <1>2, <1>6, <2>1 DEF SignalOf
  <2>2. CASE c # b
    BY <1>2, <1>7, <2>2 DEF SignalOf
  <2> QED
    BY <2>1, <2>2
<1>9. ordered' = [ordered EXCEPT ![b] = @ \cup {sig}]
  <2> HIDE DEF sig
  <2> QED
    BY <1>8 DEF ordered
<1> QED
  BY <1>1, <1>3, <1>4, <1>9, AbstractActions

(***************************************************************************)
(* The pipeline implements the authorisation it promises: whatever is      *)
(* retried, redelivered or lost, an order reaches a broker only for a      *)
(* signal validated for that broker, and every validated signal was asked  *)
(* for by a strategy of that broker and is within the position limit.      *)
(***************************************************************************)
THEOREM PipelineRefines == Spec => ImplementsAuthorization
<1>1. Init => Authorization!Init
  BY DEF Init, TopicsInit, ZerodhaInit, Authorization!Init, SeqRange
<1>2. PipelineInv /\ [Next]_vars => [Authorization!Next]_(Authorization!vars)
  <2> SUFFICES ASSUME PipelineInv, [Next]_vars
               PROVE  Authorization!Next \/ UNCHANGED Authorization!vars
    OBVIOUS
  <2>0. TypeOK /\ References /\ VerdictCurrent
    BY DEF PipelineInv
  <2>1. CASE Published
    BY <2>0, <2>1, PublishedRequests
  <2>2. CASE Judged
    BY <2>0, <2>2, JudgedAuthorises
  <2>3. CASE Quiet /\ UNCHANGED <<fills, submitted>>
    BY <2>3 DEF Quiet, Authorization!vars, SeqRange, SignalOf
  <2>4. CASE /\ Quiet /\ UNCHANGED submitted
             /\ paper_job \in 1..Len(validated["paper"])
             /\ fills' = Append(fills, paper_job)
    BY <2>0, <2>4, Brokers, EventOrders DEF Orders, Broker
  <2>5. ASSUME Quiet, UNCHANGED fills, NEW j \in 1..Len(validated["zerodha"]),
               submitted' = Append(submitted, j)
        PROVE  Authorization!Next
    BY <2>0, <2>5, Brokers, EventOrders DEF Orders, Broker
  <2> QED
    BY <2>0, <2>1, <2>2, <2>3, <2>4, <2>5, StepKinds, OrderKinds
<1> QED
  BY <1>1, <1>2, InvHolds, PTL DEF Spec, ImplementsAuthorization, Authorization!Spec

=============================================================================
