--------------------------- MODULE SignalPipeline ---------------------------
(***************************************************************************)
(* The strategy runner, the risk manager and the trading services composed *)
(* over their topics.  All of them run in one process (app/main.py): a     *)
(* crash takes every service's memory, never the topics, the committed     *)
(* offsets or Redis.                                                       *)
(*                                                                         *)
(* Of the paper trading service only the idempotence at the head of its    *)
(* handler is kept: whether a validated signal is executed at all and how  *)
(* often.  How it is executed is the subject of PaperTrading.              *)
(***************************************************************************)
EXTENDS StrategyRunner, RiskManager, ZerodhaTrading

CONSTANT
    SeenMax        \* maxlen of _seen_queue, 2000 in the code

ASSUME SeenMaxAssumption == SeenMax \in Nat /\ SeenMax >= 2

VARIABLES
    seen_queue,    \* the keys in _seen_queue of the paper trading service and,
                   \* as PaperTrading shows, in _seen_keys
    forgotten,     \* history: the keys that memory has lost, in order
    paper_pc, paper_job,
    paper_acked,   \* validated signals acknowledged
    fills          \* paper.orders.filled: the validated signal of each

paper_vars == <<seen_queue, forgotten, paper_pc, paper_job, paper_acked, fills>>

vars ==
    <<topic_vars, faults, crashes, runner_vars, risk_vars, zerodha_vars, paper_vars>>

\* Strategy, instrument and time of the validation.
Key == Strategy \X Instrument \X Positive
IdempotenceKey(j) ==
    LET s == SignalOf(validated["paper"][j]) IN <<s.strategy, s.instrument, j>>

TypeOK ==
    /\ TopicsTypeOK
    /\ RunnerTypeOK
    /\ RiskTypeOK
    /\ ZerodhaTypeOK
    /\ seen_queue \in Seq(Key)
    /\ forgotten \in Seq(Key)
    /\ paper_pc \in {"idle", "fill", "return"}
    /\ paper_job \in Nat
    /\ paper_acked \subseteq Positive
    /\ fills \in Seq(Positive)

Init ==
    /\ TopicsInit
    /\ RunnerInit
    /\ RiskInit
    /\ ZerodhaInit
    /\ seen_queue = <<>>
    /\ forgotten = <<>>
    /\ paper_pc = "idle"
    /\ paper_job = 0
    /\ paper_acked = {}
    /\ fills = <<>>

SeqRange(s) == {s[i] : i \in DOMAIN s}

-----------------------------------------------------------------------------
(* paper_trading: _handle_validated_signal.                                *)

\* The key is appended; a deque that is full then loses its oldest.
Remember(key) ==
    LET q == Append(seen_queue, key) IN
    IF Len(q) = SeenMax
    THEN seen_queue' = Tail(q) /\ forgotten' = Append(forgotten, Head(q))
    ELSE seen_queue' = q /\ UNCHANGED forgotten

PaperTake(j) ==
    /\ paper_pc = "idle"
    /\ j \in DOMAIN validated["paper"] \ paper_acked
    /\ paper_job' = j

PaperAdmit(j) ==
    /\ PaperTake(j)
    /\ IdempotenceKey(j) \notin SeqRange(seen_queue)
    /\ Remember(IdempotenceKey(j))
    /\ paper_pc' = "fill"
    /\ UNCHANGED <<paper_acked, fills, topic_vars, faults, crashes>>

PaperIgnore(j) ==
    /\ PaperTake(j)
    /\ IdempotenceKey(j) \in SeqRange(seen_queue)
    /\ paper_pc' = "return"
    /\ UNCHANGED <<seen_queue, forgotten, paper_acked, fills, topic_vars, faults, crashes>>

PaperFill ==
    /\ paper_pc = "fill"
    /\ fills' = Append(fills, paper_job)
    /\ paper_pc' = "return"
    /\ UNCHANGED <<seen_queue, forgotten, paper_job, paper_acked, topic_vars, faults, crashes>>

PaperIdle ==
    /\ paper_pc' = "idle"
    /\ paper_job' = 0

PaperReturn ==
    /\ paper_pc = "return"
    /\ paper_acked' = paper_acked \cup {paper_job}
    /\ PaperIdle
    /\ UNCHANGED <<seen_queue, forgotten, fills, topic_vars, faults, crashes>>

\* Mutant of PaperRaises: a failed delivery forgets its key.
PaperRaisesForgetting ==
    /\ paper_pc # "idle"
    /\ Fault
    /\ fills' \in {fills} \cup
                  (IF paper_pc = "fill" THEN {Append(fills, paper_job)} ELSE {})
    /\ PaperIdle
    /\ seen_queue' = SelectSeq(seen_queue, LAMBDA k : k # IdempotenceKey(paper_job))
    /\ UNCHANGED <<forgotten, paper_acked, topic_vars, crashes>>

\* The order was not executed, the send of its fill or the bookkeeping raised:
\* its key stays among the seen ones.
PaperRaises ==
    /\ paper_pc # "idle"
    /\ Fault
    /\ fills' \in {fills} \cup
                  (IF paper_pc = "fill" THEN {Append(fills, paper_job)} ELSE {})
    /\ PaperIdle
    /\ UNCHANGED <<seen_queue, forgotten, paper_acked, topic_vars, crashes>>

PaperRestart ==
    /\ seen_queue' = <<>>
    /\ forgotten' = forgotten \o seen_queue
    /\ PaperIdle
    /\ UNCHANGED <<paper_acked, fills>>

PaperNext ==
    \/ \E j \in DOMAIN validated["paper"] : PaperAdmit(j) \/ PaperIgnore(j)
    \/ PaperFill
    \/ PaperReturn
    \/ PaperRaises

-----------------------------------------------------------------------------

Crash ==
    /\ Fault
    /\ crashes < MaxCrashes
    /\ crashes' = crashes + 1
    /\ RunnerRestart
    /\ RiskRestart
    /\ ZerodhaRestart
    /\ PaperRestart
    /\ UNCHANGED topic_vars

Next ==
    \/ \E i \in Instrument, p \in TickPrice :
         PublishTick(i, p) /\ UNCHANGED <<runner_vars, risk_vars, zerodha_vars, paper_vars>>
    \/ RunnerNext /\ UNCHANGED <<risk_vars, zerodha_vars, paper_vars>>
    \/ RiskNext /\ UNCHANGED <<runner_vars, zerodha_vars, paper_vars>>
    \/ ZerodhaNext /\ UNCHANGED <<runner_vars, risk_vars, paper_vars>>
    \/ PaperNext /\ UNCHANGED <<runner_vars, risk_vars, zerodha_vars>>
    \/ Crash

Spec == Init /\ [][Next]_vars

-----------------------------------------------------------------------------
(* Correctness.                                                            *)

\* A signal the risk manager acknowledges has been answered on its own broker's
\* topics, validated or rejected: a failing emission is never swallowed, so no
\* signal disappears between the strategy and the trading service.
AcknowledgedIsAnswered ==
    \A ref \in risk_acked :
        \/ ref \in SeqRange(validated[ref[1]])
        \/ ref \in SeqRange(rejected[ref[1]])

ValidatedFor(b, s) ==
    {j \in DOMAIN validated[b] : SignalOf(validated[b][j]).strategy = s}

AcknowledgedTrades(b, s) ==
    {ref \in risk_acked :
        /\ ref[1] = b
        /\ SignalOf(ref).strategy = s
        /\ ref \in SeqRange(validated[b])
        /\ ref \notin SeqRange(rejected[b])}

\* increment_daily_trades follows the emission and can fail on its own: the
\* daily counter of a broker and strategy never runs ahead of the validated
\* signals, and misses none that was acknowledged.
TradesAreCounted ==
    \A b \in Broker, s \in Strategy :
        LET n == counters[increment_key(b, s)] IN
        /\ n <= Cardinality(ValidatedFor(b, s))
        /\ Cardinality(AcknowledgedTrades(b, s)) <= n

\* The price a signal was judged by is read before the awaits of its emission.
\* Still, whenever a validated signal is published its price is within the band
\* around the recent price stored at that moment.
EmitsWithinBand ==
    [][\A b \in Broker :
         Len(validated'[b]) > Len(validated[b]) =>
            LET s == SignalOf(validated'[b][Len(validated'[b])]) IN
            WithinBand(s.price, recent_price[s.instrument])]_vars

Times(x, s) == Cardinality({n \in DOMAIN s : s[n] = x})

\* The order events that go back to one signal of a strategy.
OrdersOf(ref) == {n \in DOMAIN submitted : validated["zerodha"][submitted[n]] = ref}

\* Neither the risk manager nor the zerodha service recognises a signal it has
\* emitted or ordered before.  Still, every order event of a signal beyond the
\* first has a failure of its own behind it, a call that failed or a crash, and
\* a crash, which interrupts both services, accounts for two.
OrdersWithinFaults ==
    \A ref \in RawSignals : Cardinality(OrdersOf(ref)) <= 1 + faults + crashes

\* A validated signal is filled on paper once and, over all redeliveries, retries
\* and failing sends, again only after its key was lost, evicted as the oldest or
\* gone in a crash, and once for each such loss.
FillsWithinMemory ==
    \A j \in DOMAIN validated["paper"] :
        Times(j, fills) <= 1 + Times(IdempotenceKey(j), forgotten)

\* The refinement mapping: a signal is what a strategy asked for, wherever and
\* however often it is stored.
Authorization ==
    INSTANCE TradeAuthorization WITH
        Signal <- TradingSignal,
        RouteOf <- LAMBDA s : Route(s.strategy),
        SizeAllowed <- LAMBDA s : s.quantity <= max_position,
        requested <- [b \in Broker |-> SeqRange(raw[b])],
        authorised <- [b \in Broker |-> {SignalOf(ref) : ref \in SeqRange(validated[b])}],
        ordered <- [b \in Broker |->
                      {SignalOf(validated[b][j]) :
                         j \in SeqRange(IF b = "paper" THEN fills ELSE submitted)}]

\* The pipeline implements the authorisation it promises: every order is for a
\* signal validated on the broker its strategy is routed to.
ImplementsAuthorization == Authorization!Spec

-----------------------------------------------------------------------------
(* Claims the code does not meet.                                          *)

\* services/paper_trading/README.md: "per-signal idempotency to avoid duplicate
\* fills on retries".  A signal of a strategy has at most one fill.
OneFillPerSignal ==
    \A m, n \in DOMAIN fills :
        validated["paper"][fills[m]] = validated["paper"][fills[n]] => m = n

\* MaxDailyTradesRule: "Limit maximum trades per day per strategy".  The signals
\* of a strategy that pass on one day are no more than the limit.
DailyLimitRespected ==
    \A s \in Strategy :
        Cardinality({ref \in RawSignals :
                       /\ SignalOf(ref).strategy = s
                       /\ ref \in SeqRange(validated[ref[1]])}) <= max_daily_trades

=============================================================================
