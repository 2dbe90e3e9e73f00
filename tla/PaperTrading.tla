---------------------------- MODULE PaperTrading ----------------------------
(***************************************************************************)
(* services/paper_trading/service.py: the simulated broker.  Two           *)
(* consumption loops share the service's memory and interleave at awaits:  *)
(* one runs _handle_validated_signal, the other _handle_market_tick.       *)
(*                                                                         *)
(* The reliability layer underneath is at-least-once: Deliver may hand any *)
(* signal to the handler at any time, first deliveries, retries of a       *)
(* delivery that raised and redeliveries alike.                            *)
(*                                                                         *)
(* Money is exact: prices are whole units, fill prices hundredths of one   *)
(* (slippage is a whole percentage), amounts and bracket levels            *)
(* ten-thousandths (commission and bracket distances are percentages too). *)
(***************************************************************************)
EXTENDS Integers, Sequences

CONSTANTS
    Strategy, Instrument,
    Signals,        \* the validated signals that may be delivered
    TickPrice,      \* last_price values of market ticks
    None,           \* Python's None
    slippage_percent, commission_percent, starting_cash, max_partials,
    max_position_notional,   \* ten-thousandths, 0 when not configured
    SeenMax,        \* _seen_queue.maxlen, 2000 in the code
    SendFails,      \* whether producer.send may raise
    MaxDeliveries, MaxTicks, MaxCrashes   \* bounds

Positive == Nat \ {0}
Account == Strategy \X Instrument

(***************************************************************************)
(* A validated signal.  key is its idempotence key.  allowed sums up the   *)
(* guardrails that depend on nothing but the signal and the settings: the  *)
(* price and quantity limits and the instrument allowlist.                 *)
(***************************************************************************)
SignalType ==
    [key : STRING, strategy : Strategy, instrument : Instrument,
     side : {"BUY", "SELL", "HOLD"},
     order_type : {"market", "limit", "stop", "stop_limit"},
     tif : {"DAY", "IOC", "FOK"},
     quantity : Positive, price : Nat,
     limit_price : Positive \cup {None}, stop_price : Positive \cup {None},
     bracket : BOOLEAN, take_profit_pct : Nat, stop_loss_pct : 0..100,
     allowed : BOOLEAN]

ASSUME PaperAssumption ==
    /\ Signals \subseteq SignalType
    /\ \A s, t \in Signals : s.key = t.key => s = t
    /\ TickPrice \subseteq Positive
    /\ None \notin Nat
    /\ slippage_percent \in 0..99
    /\ commission_percent \in 0..99
    /\ starting_cash \in Nat
    /\ max_position_notional \in Nat
    /\ max_partials \in Positive
    /\ SeenMax \in Nat /\ SeenMax >= 2
    /\ SendFails \in BOOLEAN
    /\ MaxDeliveries \in Nat /\ MaxTicks \in Nat /\ MaxCrashes \in Nat

Bracket == [tp : Nat \cup {None}, sl : Nat \cup {None}]

ASSUME NoneIsNoRecord == None \notin Bracket /\ None \notin Signals

VARIABLES
    seen_keys, seen_queue,   \* _seen_keys, _seen_queue
    lapses,                  \* history: how often that memory lost a signal's key
    positions,               \* _positions[..]["qty"] per (strategy, instrument)
    cash,                    \* _cash
    brackets,                \* _brackets, None where there is no entry
    pending_stops,           \* the signals in _pending_stops (see EndTick)
    sig_pc,                  \* the await the signal handler is suspended at
    order,                   \* the order being executed by the signal handler
    tick_pc,                 \* the await the tick handler is suspended at
    tick,                    \* its local variables
    outcome,                 \* history: what became of each admitted signal
    bought, sold,            \* history: quantities in orders.filled per account
    total,                   \* history: and per signal, over all its admissions
    deliveries, ticks, crashes

memory_vars == <<seen_keys, seen_queue, lapses, positions, cash, brackets, pending_stops>>
bound_vars == <<deliveries, ticks, crashes>>
vars == <<memory_vars, sig_pc, order, tick_pc, tick, outcome, bought, sold, total, bound_vars>>

AccountOf(s) == <<s.strategy, s.instrument>>

NoOrder == [signal |-> None, remaining |-> 0, slots |-> 0, pre_qty |-> 0]

IdleTick ==
    [instrument |-> None, price |-> 0, todo |-> [a \in Account |-> None],
     to_remove |-> {}, exiting |-> None, qty |-> 0]

NoOutcome == [acked |-> FALSE, filled |-> 0, fate |-> {}]

\* The service's memory when the process starts; _cash entries are created lazily
\* with starting_cash.
FreshMemory ==
    /\ seen_keys' = {}
    /\ seen_queue' = <<>>
    /\ positions' = [a \in Account |-> 0]
    /\ cash' = [st \in Strategy |-> starting_cash]
    /\ brackets' = [a \in Account |-> None]
    /\ pending_stops' = {}
    /\ sig_pc' = "idle"
    /\ order' = NoOrder
    /\ tick_pc' = "idle"
    /\ tick' = IdleTick

Init ==
    /\ seen_keys = {}
    /\ seen_queue = <<>>
    /\ positions = [a \in Account |-> 0]
    /\ cash = [st \in Strategy |-> starting_cash]
    /\ brackets = [a \in Account |-> None]
    /\ pending_stops = {}
    /\ sig_pc = "idle"
    /\ order = NoOrder
    /\ tick_pc = "idle"
    /\ tick = IdleTick
    /\ outcome = [s \in Signals |-> NoOutcome]
    /\ bought = [a \in Account |-> 0]
    /\ sold = [a \in Account |-> 0]
    /\ total = [s \in Signals |-> 0]
    /\ lapses = [s \in Signals |-> 0]
    /\ deliveries = 0 /\ ticks = 0 /\ crashes = 0

-----------------------------------------------------------------------------
(* _handle_validated_signal: idempotence.                                  *)

\* deque(maxlen=SeenMax).append
DequeAppend(q, x) == Append(IF Len(q) = SeenMax THEN Tail(q) ELSE q, x)

\* The keys the memory loses are noted for the signals they belong to.
Lapse(keys) ==
    lapses' = [s \in Signals |-> IF s.key \in keys THEN lapses[s] + 1 ELSE lapses[s]]

\* Mutant of Remember: the oldest key is left to the deque to drop.
RememberOnly(key) ==
    /\ seen_queue' = DequeAppend(seen_queue, key)
    /\ seen_keys' = seen_keys \cup {key}
    /\ UNCHANGED lapses

\* The key is added; when the deque has become full its oldest key leaves both.
Remember(key) ==
    LET q == DequeAppend(seen_queue, key)
    IN  IF Len(q) = SeenMax
        THEN /\ seen_queue' = Tail(q)
             /\ seen_keys' = (seen_keys \cup {key}) \ {Head(q)}
             /\ Lapse({Head(q)})
        ELSE /\ seen_queue' = q
             /\ seen_keys' = seen_keys \cup {key}
             /\ UNCHANGED lapses

Deliver == sig_pc = "idle" /\ deliveries < MaxDeliveries /\ deliveries' = deliveries + 1

Acknowledge(s) == [outcome EXCEPT ![s].acked = TRUE]

IgnoreDuplicate(s) ==
    /\ Deliver
    /\ s.key \in seen_keys
    /\ outcome' = Acknowledge(s)
    /\ UNCHANGED <<memory_vars, sig_pc, order, tick_pc, tick, bought, sold, total, ticks, crashes>>

\* Mutant of Admit: the key is not remembered.
AdmitForgetting(s) ==
    /\ Deliver
    /\ s.key \notin seen_keys
    /\ outcome' = [outcome EXCEPT ![s] = NoOutcome]
    /\ sig_pc' = "latency"
    /\ order' = [NoOrder EXCEPT !.signal = s]
    /\ UNCHANGED <<memory_vars, tick_pc, tick, bought, sold, total, ticks, crashes>>

\* The key is remembered before anything is executed; then the simulated latency.
Admit(s) ==
    /\ Deliver
    /\ s.key \notin seen_keys
    /\ Remember(s.key)
    /\ outcome' = [outcome EXCEPT ![s] = NoOutcome]
    /\ sig_pc' = "latency"
    /\ order' = [NoOrder EXCEPT !.signal = s]
    /\ UNCHANGED <<positions, cash, brackets, pending_stops, tick_pc, tick,
                   bought, sold, total, ticks, crashes>>

-----------------------------------------------------------------------------
(* _handle_validated_signal: what the order is executed with.              *)

IsBuy(s) == s.side = "BUY"

\* fill_price_base: a BUY pays up, anything else receives less.
FillPrice(s) == s.price * (100 + (IF IsBuy(s) THEN slippage_percent ELSE -slippage_percent))

UnitCost(s) == FillPrice(s) * (100 + commission_percent)

\* _is_crossing against the signal's own price, which stands in for the market.
IsCrossing(s) ==
    \/ s.limit_price = None
    \/ IF IsBuy(s) THEN s.price <= s.limit_price ELSE s.price >= s.limit_price

StopTriggered(s, price) ==
    IF IsBuy(s) THEN price >= s.stop_price ELSE price <= s.stop_price

IsStop(s) == s.order_type \in {"stop", "stop_limit"}

Unfillable(s) == s.order_type = "limit" /\ ~IsCrossing(s)

\* The branches that emit order_failed before cash and position are looked at.
Refused(s) ==
    \/ ~s.allowed
    \/ IsStop(s) /\ s.stop_price = None
    \/ Unfillable(s) /\ s.tif \in {"FOK", "IOC"}
    \/ IsStop(s) /\ s.stop_price # None
         /\ IF StopTriggered(s, s.price)
            THEN s.order_type = "stop_limit" /\ ~IsCrossing(s)
            ELSE s.tif \in {"IOC", "FOK"}

\* A DAY stop that its own price does not trigger waits for ticks.
Enqueued(s) == ~Refused(s) /\ IsStop(s) /\ ~StopTriggered(s, s.price)

Reject == -1

\* Mutant of WithinLimit: the bound is off by one.
WithinLimitPlusOne(qty, limit, tif) ==
    IF qty <= limit + 1 THEN qty ELSE IF tif = "IOC" /\ limit > 0 THEN limit ELSE Reject

\* How cash, notional cap and holding bound a quantity: an IOC order shrinks to
\* the bound, any other order is rejected.  A rejected quantity stays rejected.
WithinLimit(qty, limit, tif) ==
    IF qty <= limit THEN qty ELSE IF tif = "IOC" /\ limit > 0 THEN limit ELSE Reject

\* int(cash // unit_cost); a signal without a price is not bounded.
Affordable(s, qty) ==
    IF IsBuy(s) /\ UnitCost(s) > 0
    THEN WithinLimit(qty, cash[s.strategy] \div UnitCost(s), s.tif)
    ELSE qty

\* max_position_notional; a cap below one unit rejects even an empty order.
Capped(s, qty) ==
    IF max_position_notional = 0 \/ UnitCost(s) = 0 THEN qty
    ELSE LET cap == max_position_notional \div UnitCost(s)
         IN  IF cap = 0 THEN Reject ELSE WithinLimit(qty, cap, s.tif)

\* No shorting: everything but a BUY is limited to what is held.
Sellable(s, qty) ==
    IF IsBuy(s) THEN qty ELSE WithinLimit(qty, positions[AccountOf(s)], s.tif)

\* actual_qty.  A DAY limit order that does not cross is executed with quantity 0.
ActualQty(s) ==
    Sellable(s, Capped(s, Affordable(s, IF Unfillable(s) THEN 0 ELSE s.quantity)))

\* The number of partial fills the random split may choose.
Splits(qty) == {1} \cup {n \in 2..max_partials : n <= qty}

-----------------------------------------------------------------------------
(* _handle_validated_signal: the steps after the latency sleep.            *)

\* Mutant of EnqueueStop: the order is acknowledged without being queued.
EnqueueNothing ==
    /\ sig_pc = "latency"
    /\ Enqueued(order.signal)
    /\ outcome' = [outcome EXCEPT ![order.signal].acked = TRUE,
                                  ![order.signal].fate = @ \cup {"pending"}]
    /\ sig_pc' = "idle"
    /\ order' = NoOrder
    /\ UNCHANGED <<memory_vars, tick_pc, tick, bought, sold, total, bound_vars>>

EnqueueStop ==
    /\ sig_pc = "latency"
    /\ Enqueued(order.signal)
    /\ pending_stops' = pending_stops \cup {order.signal}
    /\ outcome' = [outcome EXCEPT ![order.signal].acked = TRUE,
                                  ![order.signal].fate = @ \cup {"pending"}]
    /\ sig_pc' = "idle"
    /\ order' = NoOrder
    /\ UNCHANGED <<seen_keys, seen_queue, lapses, positions, cash, brackets, tick_pc, tick,
                   bought, sold, total, bound_vars>>

RejectOrder ==
    /\ sig_pc = "latency"
    /\ \/ Refused(order.signal)
       \/ ~Refused(order.signal) /\ ~Enqueued(order.signal) /\ ActualQty(order.signal) = Reject
    /\ sig_pc' = "fail"
    /\ UNCHANGED <<memory_vars, order, tick_pc, tick, outcome, bought, sold, total, bound_vars>>

AcceptOrder ==
    /\ sig_pc = "latency"
    /\ ~Refused(order.signal) /\ ~Enqueued(order.signal)
    /\ ActualQty(order.signal) # Reject
    /\ \E n \in Splits(ActualQty(order.signal)) :
          order' = [signal |-> order.signal, remaining |-> ActualQty(order.signal),
                    slots |-> n, pre_qty |-> positions[AccountOf(order.signal)]]
    /\ sig_pc' = "fill"
    /\ UNCHANGED <<memory_vars, tick_pc, tick, outcome, bought, sold, total, bound_vars>>

\* _emit_order_failed swallows a failing send.
FailOrder ==
    /\ sig_pc = "fail"
    /\ LET s == order.signal IN
       \/ outcome' = [outcome EXCEPT ![s].acked = TRUE, ![s].fate = @ \cup {"failed"}]
       \/ /\ SendFails
          /\ outcome' = [outcome EXCEPT ![s].acked = TRUE, ![s].fate = @ \cup {"send_error"}]
    /\ sig_pc' = "idle"
    /\ order' = NoOrder
    /\ UNCHANGED <<memory_vars, tick_pc, tick, bought, sold, total, bound_vars>>

\* Mutant of Takes: a partial fill does not leave one unit to each later one.
TakesAll(o) == IF o.slots = 1 THEN {o.remaining} ELSE 1..o.remaining

\* The quantities the next partial fill may have: at least one unit is left to
\* each later one, and the last takes the rest.
Takes(o) == IF o.slots = 1 THEN {o.remaining} ELSE 1..(o.remaining - (o.slots - 1))

Publish(s, take) ==
    /\ IF IsBuy(s)
       THEN bought' = [bought EXCEPT ![AccountOf(s)] = @ + take] /\ UNCHANGED sold
       ELSE sold' = [sold EXCEPT ![AccountOf(s)] = @ + take] /\ UNCHANGED bought
    /\ total' = [total EXCEPT ![s] = @ + take]

PlusClamped(a, b) == IF a + b < 0 THEN 0 ELSE a + b

\* _apply_fill_to_portfolio for a fill of the signal handler: quantity and cash.
ApplyFill(s, take) ==
    /\ positions' = [positions EXCEPT ![AccountOf(s)] =
                        PlusClamped(@, IF IsBuy(s) THEN take ELSE -take)]
    /\ cash' = [cash EXCEPT ![s.strategy] =
                   IF IsBuy(s) THEN @ - take * UnitCost(s)
                   ELSE @ + take * FillPrice(s) * (100 - commission_percent)]

\* _set_bracket_if_configured: levels around the fill price; an entry without
\* bracket metadata leaves whatever bracket the account has.
ConfiguresBracket(s) == s.bracket \/ s.take_profit_pct > 0 \/ s.stop_loss_pct > 0

BracketOf(s) ==
    [tp |-> IF s.take_profit_pct > 0 THEN FillPrice(s) * (100 + s.take_profit_pct) ELSE None,
     sl |-> IF s.stop_loss_pct > 0 THEN FillPrice(s) * (100 - s.stop_loss_pct) ELSE None]

SetsBracket(o) == IsBuy(o.signal) /\ o.pre_qty = 0 /\ ConfiguresBracket(o.signal)

SetBracket(map, o) ==
    IF SetsBracket(o) THEN [map EXCEPT ![AccountOf(o.signal)] = BracketOf(o.signal)] ELSE map

\* A part's send has returned: the fill is published, applied, and after the
\* last part the bracket is set and the PnL snapshot is being sent.
FillPart(take) ==
    /\ sig_pc = "fill"
    /\ take \in Takes(order)
    /\ Publish(order.signal, take)
    /\ ApplyFill(order.signal, take)
    /\ IF order.slots > 1
       THEN /\ order' = [order EXCEPT !.remaining = @ - take, !.slots = @ - 1]
            /\ outcome' = [outcome EXCEPT ![order.signal].filled = @ + take]
            /\ UNCHANGED <<sig_pc, brackets>>
       ELSE /\ order' = [order EXCEPT !.remaining = 0, !.slots = 0]
            /\ outcome' = [outcome EXCEPT ![order.signal].filled = @ + take,
                                          ![order.signal].fate = @ \cup {"executed"}]
            /\ brackets' = SetBracket(brackets, order)
            /\ sig_pc' = "pnl"
    /\ UNCHANGED <<seen_keys, seen_queue, lapses, pending_stops, tick_pc, tick, bound_vars>>

\* A part's send raises, delivered or not, and the exception leaves the handler.
FillRaises(take) ==
    /\ SendFails
    /\ sig_pc = "fill"
    /\ take \in Takes(order)
    /\ \/ /\ Publish(order.signal, take)
          /\ outcome' = [outcome EXCEPT ![order.signal].filled = @ + take,
                                        ![order.signal].fate = @ \cup {"send_error"}]
       \/ /\ UNCHANGED <<bought, sold, total>>
          /\ outcome' = [outcome EXCEPT ![order.signal].fate = @ \cup {"send_error"}]
    /\ sig_pc' = "idle"
    /\ order' = NoOrder
    /\ UNCHANGED <<memory_vars, tick_pc, tick, bound_vars>>

\* The snapshot and the metrics are sent or their failure is swallowed.
FinishSignal ==
    /\ sig_pc = "pnl"
    /\ outcome' = Acknowledge(order.signal)
    /\ sig_pc' = "idle"
    /\ order' = NoOrder
    /\ UNCHANGED <<memory_vars, tick_pc, tick, bought, sold, total, bound_vars>>

-----------------------------------------------------------------------------
(* _handle_market_tick.                                                    *)

\* lp >= tp or lp <= sl; the stop-loss level has priority for the fill price.
Crosses(br, price) ==
    \/ br.tp # None /\ price * 10000 >= br.tp
    \/ br.sl # None /\ price * 10000 <= br.sl

\* A bracket of the snapshot whose account is held, by what the positions are now.
Triggered(a, todo, price) ==
    todo[a] # None /\ positions[a] > 0 /\ Crosses(todo[a], price)

Without(map, accounts) == [a \in Account |-> IF a \in accounts THEN None ELSE map[a]]

Fires(s, inst, price) == s.instrument = inst /\ StopTriggered(s, price)

(***************************************************************************)
(* After the bracket loop: the collected entries are popped and the        *)
(* pending stops examined.  Executing a triggered stop refers to datetime, *)
(* which the module does not import; the NameError is caught, and the stop *)
(* is not kept.  Whether a stop fires depends on nothing but itself and    *)
(* the tick, so the list is the set of its signals: two entries of one     *)
(* signal leave it together.                                               *)
(***************************************************************************)
EndTick(inst, price, removed) ==
    /\ brackets' = Without(brackets, removed)
    /\ pending_stops' = {s \in pending_stops : ~Fires(s, inst, price)}
    /\ outcome' = [s \in Signals |->
          IF s \in pending_stops /\ Fires(s, inst, price)
          THEN [outcome[s] EXCEPT !.fate = @ \cup {"stop_dropped"}]
          ELSE outcome[s]]
    /\ tick_pc' = "idle"
    /\ tick' = IdleTick

(***************************************************************************)
(* The bracket loop runs on to the next bracket that triggers, in the      *)
(* order of the dictionary, which may be any order; the brackets passed on *)
(* the way have been examined.  Those without a position are to be popped. *)
(***************************************************************************)
ScanBrackets(inst, price, todo, removed) ==
    LET hot == {a \in Account : Triggered(a, todo, price)}
        cold == {a \in Account : todo[a] # None} \ hot
        NotHeld(accounts) == {a \in accounts : positions[a] <= 0}
    IN  \/ \E a \in hot, passed \in SUBSET cold :
            /\ tick_pc' = "exit"
            /\ tick' = [instrument |-> inst, price |-> price,
                        todo |-> Without(todo, passed \cup {a}),
                        to_remove |-> removed \cup NotHeld(passed),
                        exiting |-> a, qty |-> positions[a]]
            /\ UNCHANGED <<brackets, pending_stops, outcome>>
        \/ hot = {} /\ EndTick(inst, price, removed \cup NotHeld(cold))

\* list(self._brackets.items()), restricted to the tick's instrument.
Snapshot(inst) == [a \in Account |-> IF a[2] = inst THEN brackets[a] ELSE None]

Tick(inst, price) ==
    /\ tick_pc = "idle"
    /\ ticks < MaxTicks
    /\ ticks' = ticks + 1
    /\ ScanBrackets(inst, price, Snapshot(inst), {})
    /\ UNCHANGED <<seen_keys, seen_queue, lapses, positions, cash, sig_pc, order,
                   bought, sold, total, deliveries, crashes>>

\* Mutant of ExitBracket: the exit is applied to the portfolio when its send returns.
ExitBracketApplied ==
    /\ tick_pc = "exit"
    /\ sold' = [sold EXCEPT ![tick.exiting] = @ + tick.qty]
    /\ positions' = [positions EXCEPT ![tick.exiting] = PlusClamped(@, -tick.qty)]
    /\ EndTick(tick.instrument, tick.price, {tick.exiting})
    /\ UNCHANGED <<seen_keys, seen_queue, lapses, cash, sig_pc, order, bought, total, bound_vars>>

(***************************************************************************)
(* _emit_bracket_exit_fill: the SELL is published or its send fails; the   *)
(* call of _apply_fill_to_portfolio lacks the fees argument, and the       *)
(* TypeError is caught, so the portfolio is not touched either way.        *)
(***************************************************************************)
ExitBracket ==
    /\ tick_pc = "exit"
    /\ \/ sold' = [sold EXCEPT ![tick.exiting] = @ + tick.qty]
       \/ SendFails /\ UNCHANGED sold
    /\ ScanBrackets(tick.instrument, tick.price, tick.todo, tick.to_remove \cup {tick.exiting})
    /\ UNCHANGED <<seen_keys, seen_queue, lapses, positions, cash, sig_pc, order, bought, total, bound_vars>>

\* The process ends and starts anew: everything the service knew is gone.
Crash ==
    /\ crashes < MaxCrashes
    /\ crashes' = crashes + 1
    /\ Lapse(seen_keys)
    /\ FreshMemory
    /\ outcome' = [s \in Signals |->
          IF s \in pending_stops
          THEN [outcome[s] EXCEPT !.fate = @ \cup {"forgotten"}]
          ELSE outcome[s]]
    /\ UNCHANGED <<bought, sold, total, deliveries, ticks>>

SignalStep ==
    \/ EnqueueStop \/ RejectOrder \/ AcceptOrder \/ FailOrder
    \/ \E take \in 0..order.remaining : FillPart(take) \/ FillRaises(take)
    \/ FinishSignal

Next ==
    \/ \E s \in Signals : IgnoreDuplicate(s) \/ Admit(s)
    \/ SignalStep
    \/ \E inst \in Instrument, price \in TickPrice : Tick(inst, price)
    \/ ExitBracket
    \/ Crash

Spec == Init /\ [][Next]_vars

-----------------------------------------------------------------------------

Fate == {"executed", "failed", "pending", "send_error", "stop_dropped", "forgotten"}

OrderType ==
    [signal : Signals \cup {None}, remaining : Nat, slots : Nat, pre_qty : Nat]

TickType ==
    [instrument : Instrument \cup {None}, price : Nat,
     todo : [Account -> Bracket \cup {None}], to_remove : SUBSET Account,
     exiting : Account \cup {None}, qty : Nat]

\* Types, and the split into partial fills: each fill that is still to come has
\* at least one unit, and no fill or bracket exit has a negative quantity.
TypeOK ==
    /\ seen_keys \in SUBSET STRING
    /\ seen_queue \in Seq(STRING)
    /\ lapses \in [Signals -> Nat]
    /\ positions \in [Account -> Nat]
    /\ cash \in [Strategy -> Int]
    /\ brackets \in [Account -> Bracket \cup {None}]
    /\ pending_stops \in SUBSET Signals
    /\ sig_pc \in {"idle", "latency", "fail", "fill", "pnl"}
    /\ order \in OrderType
    /\ sig_pc # "idle" <=> order.signal # None
    /\ sig_pc = "fill" => order.slots >= 1
    /\ order.slots > 1 => order.remaining >= order.slots
    /\ tick_pc \in {"idle", "exit"}
    /\ tick \in TickType
    /\ tick_pc = "exit" => tick.exiting \in Account
    /\ outcome \in [Signals -> [acked : BOOLEAN, filled : Nat, fate : SUBSET Fate]]
    /\ bought \in [Account -> Nat]
    /\ sold \in [Account -> Nat]
    /\ total \in [Signals -> Nat]
    /\ deliveries \in 0..MaxDeliveries /\ ticks \in 0..MaxTicks /\ crashes \in 0..MaxCrashes

(***************************************************************************)
(* The idempotence memory stays consistent and bounded: the set holds      *)
(* exactly the keys of the deque, the deque repeats none and is never full *)
(* between two signals, so its silent drop of the oldest key never runs    *)
(* (lines 156-166).  A key in the set only could never be forgotten; a key *)
(* in the deque only would be executed twice.                              *)
(***************************************************************************)
SeenConsistent ==
    /\ seen_keys = {seen_queue[i] : i \in 1..Len(seen_queue)}
    /\ \A i, j \in 1..Len(seen_queue) : seen_queue[i] = seen_queue[j] => i = j
    /\ Len(seen_queue) < SeenMax

(***************************************************************************)
(* Cash stays non-negative, also while the parts of a BUY are still being  *)
(* sent: the affordability check is made once, before the first await, and *)
(* every part is paid from what it left (lines 338-352 and 586-600).       *)
(***************************************************************************)
Solvent == \A st \in Strategy : cash[st] >= 0

(***************************************************************************)
(* What a SELL still has to fill is held, whatever ran during the awaits   *)
(* since the position was checked: max(0, q - qty) in                      *)
(* _apply_fill_to_portfolio never cuts, so cash is never credited for      *)
(* units that were not there.                                              *)
(***************************************************************************)
SellsAreHeld ==
    sig_pc = "fill" /\ ~IsBuy(order.signal) =>
        order.remaining <= positions[AccountOf(order.signal)]

(***************************************************************************)
(* "Simple in-memory idempotency (bounded)": over its whole life, all its  *)
(* deliveries, retries, redeliveries and admissions together, a signal has *)
(* published fills for at most its quantity, and for its quantity once     *)
(* more for each time the memory lost its key, by the eviction of the      *)
(* oldest key or by a restart.  Partial fills before a send that raised    *)
(* count, and so does a fill whose send raised although it was delivered.  *)
(***************************************************************************)
FillsWithinSignal == \A s \in Signals : total[s] <= s.quantity * (1 + lapses[s])

(***************************************************************************)
(* Every acknowledged signal has an outcome that its fills agree with: an  *)
(* executed order is filled completely, an IOC order at least in part, and *)
(* only a limit order that did not cross is executed with nothing (line    *)
(* 290); a failed order has no fill; a stop still waits.  The exceptions   *)
(* are the ones named: a send raised, a triggered stop was dropped, a      *)
(* crash forgot a pending stop.                                            *)
(***************************************************************************)
AcknowledgedHasOutcome ==
    \A s \in Signals : outcome[s].acked =>
        \/ /\ "executed" \in outcome[s].fate
           /\ outcome[s].filled \in CASE Unfillable(s) -> {0}
                                       [] s.tif = "IOC" -> 1..s.quantity
                                       [] OTHER -> {s.quantity}
        \/ "failed" \in outcome[s].fate /\ outcome[s].filled = 0
        \/ "pending" \in outcome[s].fate /\ s \in pending_stops
        \/ outcome[s].fate \cap {"send_error", "stop_dropped", "forgotten"} # {}

(***************************************************************************)
(* README of the service: "no shorting (SELL limited to held quantity)".   *)
(* The SELL fills published for an account never exceed its BUY fills.     *)
(***************************************************************************)
NoShorting == \A a \in Account : sold[a] <= bought[a]

=============================================================================
