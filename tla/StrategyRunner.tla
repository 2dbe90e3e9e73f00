--------------------------- MODULE StrategyRunner ---------------------------
(***************************************************************************)
(* services/strategy_runner/service.py: offers every market tick to the    *)
(* strategies that watch its instrument and sends the signals they answer  *)
(* with to the raw topic of each strategy's broker.                        *)
(*                                                                         *)
(* start() starts the consumption loop before it loads the strategies from *)
(* the database, so the two interleave.  What a strategy answers is its    *)
(* own business: any signal, or none.                                      *)
(***************************************************************************)
EXTENDS SignalTopics

VARIABLES
    loading,       \* start() is awaiting the strategies of the database
    loaded,        \* strategy_executors
    runner_tick,   \* the tick being handled, 0 when the loop is idle
    pending,       \* interested_strategy_ids still to be offered it
    runner_acked,  \* ticks acknowledged
    due, offered   \* history: the strategies the tick being handled has to be
                   \* offered to, and those it was offered to

runner_vars ==
    <<loading, loaded, runner_tick, pending, runner_acked, due, offered>>

RunnerTypeOK ==
    /\ loading \in BOOLEAN
    /\ loaded \subseteq Strategy
    /\ runner_tick \in Nat
    /\ pending \subseteq Strategy
    /\ runner_acked \subseteq Positive
    /\ due \subseteq Strategy
    /\ offered \subseteq Strategy

RunnerInit ==
    /\ loading = TRUE
    /\ loaded = {}
    /\ runner_tick = 0
    /\ pending = {}
    /\ runner_acked = {}
    /\ due = {}
    /\ offered = {}

\* _load_strategies: a strategy that cannot be created is skipped, and an error
\* of its configuration ends the loading with the strategies created so far.
LoadStrategies(S) ==
    /\ loading
    /\ loading' = FALSE
    /\ loaded' = S
    /\ UNCHANGED <<runner_tick, pending, runner_acked, due, offered>>
    /\ UNCHANGED <<topic_vars, faults, crashes>>

Interested(t) == {s \in loaded : ticks[t].instrument \in Watches[s]}

\* _handle_market_tick up to its loop: nobody is interested while the market is
\* closed.
TakeTick(t, open) ==
    /\ runner_tick = 0
    /\ t \in DOMAIN ticks \ runner_acked
    /\ runner_tick' = t
    /\ pending' = IF open THEN Interested(t) ELSE {}
    /\ due' = pending'
    /\ offered' = {}
    /\ UNCHANGED <<loading, loaded, runner_acked, topic_vars, faults, crashes>>

\* One round of the loop over the interested strategies.
Offer(s) ==
    /\ runner_tick # 0
    /\ s \in pending
    /\ pending' = pending \ {s}
    /\ offered' = offered \cup {s}
    /\ UNCHANGED <<loading, loaded, runner_tick, runner_acked, due>>

\* No signal, HOLD, or a strategy that raises: the loop goes on.
OfferDeclined(s) ==
    /\ Offer(s)
    /\ UNCHANGED <<topic_vars, faults, crashes>>

NewSignal(s, p, q) ==
    [strategy |-> s, instrument |-> ticks[runner_tick].instrument,
     price |-> p, quantity |-> q, tick |-> runner_tick]

\* _emit_signal to the strategy's broker; a broker that is not active gets
\* nothing.
OfferAnswered(s, p, q) ==
    /\ Offer(s)
    /\ Cardinality(RawSignals) < MaxSignals
    /\ raw' = IF Route(s) \in ActiveBrokers
              THEN Send(raw, Route(s), NewSignal(s, p, q))
              ELSE raw
    /\ UNCHANGED <<ticks, validated, rejected, faults, crashes>>

\* Mutant of OfferUnsent: the exception leaves the loop over the strategies.
OfferUnsentBreaks(s) ==
    /\ runner_tick # 0
    /\ s \in pending
    /\ Fault
    /\ pending' = {}
    /\ offered' = offered \cup {s}
    /\ UNCHANGED <<loading, loaded, runner_tick, runner_acked, due>>
    /\ UNCHANGED <<topic_vars, crashes>>

\* The send raises: logged, the signal is gone and the loop goes on.
OfferUnsent(s) ==
    /\ Offer(s)
    /\ Fault
    /\ UNCHANGED <<topic_vars, crashes>>

RunnerIdle ==
    /\ runner_tick' = 0
    /\ pending' = {}
    /\ due' = {}
    /\ offered' = {}

\* The handler returned and its message is marked and committed.
RunnerReturn ==
    /\ runner_tick # 0
    /\ pending = {}
    /\ runner_acked' = runner_acked \cup {runner_tick}
    /\ RunnerIdle
    /\ UNCHANGED <<loading, loaded>>
    /\ UNCHANGED <<topic_vars, faults, crashes>>

\* The handler returned but marking or committing its message raised.
RunnerUnacknowledged ==
    /\ runner_tick # 0
    /\ pending = {}
    /\ Fault
    /\ RunnerIdle
    /\ UNCHANGED <<loading, loaded, runner_acked>>
    /\ UNCHANGED <<topic_vars, crashes>>

\* A new process starts with no strategies.
RunnerRestart ==
    /\ loading' = TRUE
    /\ loaded' = {}
    /\ RunnerIdle
    /\ UNCHANGED runner_acked

RunnerNext ==
    \/ \E S \in SUBSET Strategy : LoadStrategies(S)
    \/ \E t \in DOMAIN ticks, open \in BOOLEAN : TakeTick(t, open)
    \/ \E s \in Strategy : OfferDeclined(s) \/ OfferUnsent(s)
    \/ \E s \in Strategy, p \in SignalPrice, q \in Quantity : OfferAnswered(s, p, q)
    \/ RunnerReturn
    \/ RunnerUnacknowledged

-----------------------------------------------------------------------------

\* Comment of _handle_market_tick: "Continue processing other strategies -
\* graceful degradation".  A tick is acknowledged only after every strategy that
\* was loaded and watched its instrument when it was delivered has been offered
\* it, whatever the strategies before it and their emissions did.
EveryStrategyServed ==
    [][runner_acked' # runner_acked => due \subseteq offered]_runner_vars

=============================================================================
