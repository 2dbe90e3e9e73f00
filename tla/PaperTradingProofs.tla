------------------------- MODULE PaperTradingProofs -------------------------
(***************************************************************************)
(* Proofs about PaperTrading, for all signals, prices, percentages and     *)
(* bounds: the idempotence memory, the money and the holdings of the       *)
(* simulated broker, and what becomes of every signal.                     *)
(***************************************************************************)
EXTENDS PaperTrading, SequenceTheorems, TLAPS

-----------------------------------------------------------------------------
(* Arithmetic.                                                             *)

\* More units cost no less.
LEMMA ProductGrows ==
    ASSUME NEW a \in Nat, NEW b \in Nat, NEW u \in Nat, a <= b
    PROVE  a * u \in Nat /\ b * u \in Nat /\ a * u <= b * u
OBVIOUS

\* What is left of a sum pays for what is left of the units.
LEMMA RestIsPaid ==
    ASSUME NEW a \in Int, NEW b \in Int, NEW u \in Int, NEW c \in Int, a * u <= c
    PROVE  (a - b) * u <= c - b * u
OBVIOUS

\* int(cash // unit_cost) units can be paid for.
LEMMA QuotientIsPaid ==
    ASSUME NEW c \in Nat, NEW u \in Nat \ {0}, NEW q \in Nat, q <= c \div u
    PROVE  q * u <= c
<1> DEFINE d == c \div u
<1>1. d \in Nat /\ d * u <= c
  OBVIOUS
<1>2. q * u <= d * u
  <2> HIDE DEF d
  <2> QED BY <1>1, ProductGrows DEF d
<1> QED BY <1>1, <1>2

-----------------------------------------------------------------------------
(* What the operators of the model return.                                 *)

\* The fields of a signal that the proofs compute with.
LEMMA SignalFields ==
    ASSUME NEW s \in Signals
    PROVE  /\ s \in SignalType /\ s # None
           /\ s.strategy \in Strategy /\ s.instrument \in Instrument
           /\ AccountOf(s) \in Account
           /\ s.quantity \in Nat /\ s.quantity >= 1 /\ s.price \in Nat
           /\ s.take_profit_pct \in Nat /\ s.stop_loss_pct \in 0..100
BY PaperAssumption, NoneIsNoRecord DEF SignalType, Positive, AccountOf, Account

\* Prices and costs are not negative: slippage and commission stay below 100 percent.
LEMMA PricesAreNatural ==
    ASSUME NEW s \in Signals
    PROVE  /\ FillPrice(s) \in Nat /\ UnitCost(s) \in Nat
           /\ \A take \in Nat : take * FillPrice(s) * (100 - commission_percent) \in Nat
<1>1. s.price \in Nat
  BY SignalFields
<1>2. slippage_percent \in 0..99 /\ commission_percent \in 0..99
  BY PaperAssumption
<1> DEFINE factor == 100 + (IF IsBuy(s) THEN slippage_percent ELSE -slippage_percent)
<1>3. factor \in Nat
  BY <1>2
<1>4. FillPrice(s) \in Nat
  <2>1. FillPrice(s) = s.price * factor
    BY DEF FillPrice
  <2> HIDE DEF factor
  <2> QED BY <1>1, <1>3, <2>1
<1>5. UnitCost(s) \in Nat
  BY <1>2, <1>4 DEF UnitCost
<1>6. ASSUME NEW take \in Nat
      PROVE  take * FillPrice(s) * (100 - commission_percent) \in Nat
  <2>1. 100 - commission_percent \in Nat
    BY <1>2
  <2>2. take * FillPrice(s) \in Nat
    BY <1>4
  <2> QED BY <2>1, <2>2
<1> QED BY <1>4, <1>5, <1>6

\* The levels of a bracket are prices: a stop loss is at most the whole price.
LEMMA BracketType ==
    ASSUME NEW s \in Signals
    PROVE  BracketOf(s) \in Bracket
<1>1. FillPrice(s) \in Nat
  BY PricesAreNatural
<1>2. /\ 100 + s.take_profit_pct \in Nat
      /\ 100 - s.stop_loss_pct \in Nat
  BY SignalFields
<1>3. /\ FillPrice(s) * (100 + s.take_profit_pct) \in Nat
      /\ FillPrice(s) * (100 - s.stop_loss_pct) \in Nat
  BY <1>1, <1>2
<1> QED BY <1>3 DEF BracketOf, Bracket

\* A quantity within a limit: rejected for good, or at least one unit where one was
\* asked for, no more than was asked for and than the limit, and the whole quantity
\* unless the order is immediate-or-cancel.
LEMMA WithinLimitBounds ==
    ASSUME NEW qty \in Nat \cup {Reject}, NEW limit \in Nat, NEW tif
    PROVE  LET r == WithinLimit(qty, limit, tif)
           IN  \/ r = Reject
               \/ /\ r \in Nat /\ r <= qty /\ r <= limit
                  /\ qty >= 1 => r >= 1
                  /\ r = qty \/ tif = "IOC"
BY DEF WithinLimit, Reject

\* The quantities an accepted order may be executed with.
Due(s) ==
    CASE Unfillable(s) -> {0}
      [] s.tif = "IOC" -> 1..s.quantity
      [] OTHER -> {s.quantity}

\* What a signal is due is at most what it asks for.
LEMMA DueIsWithinSignal ==
    ASSUME NEW s \in Signals, NEW n \in Due(s)
    PROVE  n \in Nat /\ n <= s.quantity
BY SignalFields DEF Due

\* What is asked of the checks.
Asked(s) == IF Unfillable(s) THEN 0 ELSE s.quantity

(***************************************************************************)
(* An accepted order has a quantity that is due; a BUY of it is paid for   *)
(* by the cash, and everything else is covered by the position.            *)
(***************************************************************************)
LEMMA AcceptedQuantity ==
    ASSUME NEW s \in Signals,
           cash \in [Strategy -> Int], cash[s.strategy] >= 0, positions \in [Account -> Nat],
           ~Refused(s), ActualQty(s) # Reject
    PROVE  /\ ActualQty(s) \in Nat
           /\ ActualQty(s) \in Due(s)
           /\ IsBuy(s) => ActualQty(s) * UnitCost(s) <= cash[s.strategy]
           /\ ~IsBuy(s) => ActualQty(s) <= positions[AccountOf(s)]
<1> DEFINE Bounded(r, q) ==
        \/ r = Reject
        \/ /\ r \in Nat /\ r <= q
           /\ q >= 1 => r >= 1
           /\ r = q \/ s.tif = "IOC"
           a == Affordable(s, Asked(s))
           b == Capped(s, a)
           c == Sellable(s, b)
<1>1. /\ s.quantity \in Nat /\ s.quantity >= 1 /\ Asked(s) \in Nat
      /\ UnitCost(s) \in Nat
      /\ cash[s.strategy] \in Nat /\ positions[AccountOf(s)] \in Nat
      /\ max_position_notional \in Nat
  BY SignalFields, PricesAreNatural, PaperAssumption DEF Asked
<1>2. c = ActualQty(s)
  BY DEF ActualQty, Asked
<1>3. /\ Bounded(a, Asked(s))
      /\ a # Reject /\ IsBuy(s) => a * UnitCost(s) <= cash[s.strategy]
  <2>1. CASE IsBuy(s) /\ UnitCost(s) > 0
    <3> DEFINE limit == cash[s.strategy] \div UnitCost(s)
    <3>1. limit \in Nat
      BY <1>1, <2>1
    <3>2. a = WithinLimit(Asked(s), limit, s.tif)
      BY <2>1 DEF Affordable
    <3>3. Bounded(a, Asked(s)) /\ (a # Reject => a <= limit)
      <4> HIDE DEF limit, a
      <4> QED BY <1>1, <3>1, <3>2, WithinLimitBounds
    <3>4. ASSUME a # Reject PROVE a * UnitCost(s) <= cash[s.strategy]
      <4>1. a \in Nat /\ a <= cash[s.strategy] \div UnitCost(s)
        BY <3>3, <3>4
      <4>2. cash[s.strategy] \in Nat /\ UnitCost(s) \in Nat \ {0}
        BY <1>1, <2>1
      <4> HIDE DEF a
      <4> QED BY <4>1, <4>2, QuotientIsPaid
    <3> QED BY <3>3, <3>4
  <2>2. CASE ~(IsBuy(s) /\ UnitCost(s) > 0)
    <3>1. a = Asked(s)
      BY <2>2 DEF Affordable
    <3>2. ASSUME IsBuy(s) PROVE a * UnitCost(s) <= cash[s.strategy]
      <4>1. UnitCost(s) = 0
        BY <1>1, <2>2, <3>2
      <4> QED BY <1>1, <3>1, <4>1
    <3> QED BY <1>1, <3>1, <3>2
  <2> QED BY <2>1, <2>2
<1>4. a \in Nat \cup {Reject}
  BY <1>3
<1>5. b = Reject \/ (a # Reject /\ Bounded(b, a))
  <2>1. CASE max_position_notional = 0 \/ UnitCost(s) = 0
    BY <1>4, <2>1 DEF Capped, Reject
  <2>2. CASE ~(max_position_notional = 0 \/ UnitCost(s) = 0)
    <3> DEFINE cap == max_position_notional \div UnitCost(s)
    <3>1. cap \in Nat
      BY <1>1, <2>2
    <3>2. b = IF cap = 0 THEN Reject ELSE WithinLimit(a, cap, s.tif)
      BY <2>2 DEF Capped
    <3> HIDE DEF cap, a, b
    <3>3. a = Reject => b = Reject
      BY <3>1, <3>2 DEF WithinLimit, Reject
    <3> QED BY <1>4, <3>1, <3>2, <3>3, WithinLimitBounds
  <2> QED BY <2>1, <2>2
<1>6. b \in Nat \cup {Reject}
  BY <1>5
<1>7. /\ c = Reject \/ (b # Reject /\ Bounded(c, b))
      /\ c # Reject /\ ~IsBuy(s) => c <= positions[AccountOf(s)]
  <2> HIDE DEF a, b
  <2>1. CASE IsBuy(s)
    BY <1>6, <2>1 DEF Sellable, Reject
  <2>2. CASE ~IsBuy(s)
    <3>1. c = WithinLimit(b, positions[AccountOf(s)], s.tif)
      BY <2>2 DEF Sellable
    <3> HIDE DEF c
    <3>2. b = Reject => c = Reject
      BY <1>1, <3>1 DEF WithinLimit, Reject
    <3> QED BY <1>1, <1>6, <3>1, <3>2, WithinLimitBounds
  <2> QED BY <2>1, <2>2
<1> HIDE DEF a, b, c
<1>8. /\ a # Reject /\ b # Reject /\ c # Reject
      /\ a \in Nat /\ b \in Nat /\ c \in Nat /\ c <= b /\ b <= a
  BY <1>2, <1>3, <1>5, <1>7
<1>9. IsBuy(s) => c * UnitCost(s) <= cash[s.strategy]
  <2>1. c <= a
    BY <1>8
  <2>2. c * UnitCost(s) <= a * UnitCost(s)
    BY <1>1, <1>8, <2>1, ProductGrows
  <2>3. c * UnitCost(s) \in Int /\ a * UnitCost(s) \in Int
    BY <1>1, <1>8
  <2> QED BY <1>1, <1>3, <1>8, <2>2, <2>3
<1>10. c \in Due(s)
  <2>1. CASE Unfillable(s)
    <3>1. Asked(s) = 0
      BY <2>1 DEF Asked
    <3>2. c = 0
      BY <1>3, <1>8, <3>1
    <3>3. s.tif # "IOC"
      BY <2>1 DEF Refused
    <3> QED BY <2>1, <3>2, <3>3 DEF Due
  <2>2. CASE ~Unfillable(s)
    <3>1. Asked(s) = s.quantity
      BY <2>2 DEF Asked
    <3>2. /\ c >= 1 /\ c <= s.quantity
          /\ c = s.quantity \/ s.tif = "IOC"
      BY <1>1, <1>3, <1>5, <1>7, <1>8, <3>1
    <3> QED BY <1>1, <1>8, <2>2, <3>2 DEF Due
  <2> QED BY <2>1, <2>2
<1> QED BY <1>2, <1>7, <1>8, <1>9, <1>10

-----------------------------------------------------------------------------
(* The inductive invariant.                                                *)

OutcomeType == [acked : BOOLEAN, filled : Nat, fate : SUBSET Fate]

\* What AcknowledgedHasOutcome says of one signal.
Settled(s) ==
    \/ "executed" \in outcome[s].fate /\ outcome[s].filled \in Due(s)
    \/ "failed" \in outcome[s].fate /\ outcome[s].filled = 0
    \/ "pending" \in outcome[s].fate /\ s \in pending_stops
    \/ outcome[s].fate \cap {"send_error", "stop_dropped", "forgotten"} # {}

\* The cash pays for what a BUY still has to fill: the other loop spends nothing
\* during the awaits between its parts.
BuysArePaid ==
    sig_pc = "fill" /\ IsBuy(order.signal) =>
        order.remaining * UnitCost(order.signal) <= cash[order.signal.strategy]

\* How far the signal in hand is: it is not acknowledged, nothing of it is filled
\* before it is accepted, and what is filled and what is not make up what is due.
InHand ==
    sig_pc # "idle" =>
        /\ ~outcome[order.signal].acked
        /\ sig_pc \in {"latency", "fail"} =>
              order.slots = 0 /\ outcome[order.signal].filled = 0
        /\ sig_pc = "fill" =>
              outcome[order.signal].filled + order.remaining \in Due(order.signal)
        /\ sig_pc = "pnl" =>
              /\ "executed" \in outcome[order.signal].fate
              /\ outcome[order.signal].filled \in Due(order.signal)

\* A signal whose key is remembered has an outcome, acknowledged or not, unless it
\* is the one in hand: a duplicate may be acknowledged at sight.
RememberedIsSettled ==
    \A s \in Signals : s.key \in seen_keys /\ s # order.signal => Settled(s)

\* Since its last admission a signal has fills for at most its quantity.
AdmissionFills == \A s \in Signals : outcome[s].filled <= s.quantity

PaperInv ==
    /\ TypeOK
    /\ SeenConsistent
    /\ Solvent /\ BuysArePaid /\ SellsAreHeld
    /\ AdmissionFills /\ InHand
    /\ RememberedIsSettled /\ AcknowledgedHasOutcome

\* AcknowledgedHasOutcome in terms of Settled, before a step and after it.
LEMMA AcknowledgedIsSettled ==
    /\ AcknowledgedHasOutcome => \A s \in Signals : outcome[s].acked => Settled(s)
    /\ (\A s \in Signals : outcome'[s].acked => Settled(s)') => AcknowledgedHasOutcome'
BY DEF AcknowledgedHasOutcome, Settled, Due

-----------------------------------------------------------------------------
(* The steps of the tick handler and of a crash, seen from the signals:    *)
(* they only add to the fate of a signal, and say so when a stop goes.     *)

OutcomeKept(s) ==
    /\ outcome'[s].acked = outcome[s].acked
    /\ outcome'[s].filled = outcome[s].filled
    /\ outcome[s].fate \subseteq outcome'[s].fate
    /\ s \in pending_stops =>
          s \in pending_stops' \/ outcome'[s].fate \cap {"stop_dropped", "forgotten"} # {}

\* A settled signal stays settled when its outcome is kept.
LEMMA SettledStays ==
    ASSUME NEW s \in Signals, Settled(s), OutcomeKept(s)
    PROVE  Settled(s)'
BY DEF Settled, OutcomeKept, Due, Unfillable, IsCrossing, IsBuy

\* The fate of the stops in a set is added to.
LEMMA MarkedOutcomes ==
    ASSUME outcome \in [Signals -> OutcomeType],
           NEW marked, NEW fate \in {"stop_dropped", "forgotten"},
           outcome' = [s \in Signals |->
               IF s \in marked THEN [outcome[s] EXCEPT !.fate = @ \cup {fate}] ELSE outcome[s]],
           \A s \in Signals : s \in pending_stops => s \in pending_stops' \/ s \in marked
    PROVE  outcome' \in [Signals -> OutcomeType] /\ \A s \in Signals : OutcomeKept(s)
<1>1. ASSUME NEW s \in Signals
      PROVE  outcome'[s] \in OutcomeType /\ OutcomeKept(s)
  <2>1. CASE s \in marked
    <3>1. outcome'[s] = [outcome[s] EXCEPT !.fate = @ \cup {fate}]
      BY <2>1
    <3>2. outcome[s] \in OutcomeType
      OBVIOUS
    <3> QED BY <3>1, <3>2 DEF OutcomeType, OutcomeKept, Fate
  <2>2. CASE s \notin marked
    BY <2>2 DEF OutcomeKept
  <2> QED BY <2>1, <2>2
<1> QED BY <1>1

\* The types that the end of a tick, or the way to the next bracket exit, leaves.
LEMMA ScanTypes ==
    ASSUME TypeOK, NEW inst \in Instrument \cup {None}, NEW price \in Nat,
           NEW todo \in [Account -> Bracket \cup {None}], NEW removed \in SUBSET Account,
           ScanBrackets(inst, price, todo, removed)
    PROVE  /\ brackets' \in [Account -> Bracket \cup {None}]
           /\ pending_stops' \in SUBSET Signals
           /\ tick_pc' \in {"idle", "exit"}
           /\ tick' \in TickType
           /\ tick_pc' = "exit" => tick'.exiting \in Account
           /\ outcome' \in [Signals -> OutcomeType]
           /\ \A s \in Signals : OutcomeKept(s)
<1> DEFINE hot == {a \in Account : Triggered(a, todo, price)}
           cold == {a \in Account : todo[a] # None} \ hot
           NotHeld(accounts) == {a \in accounts : positions[a] <= 0}
<1>1. /\ positions \in [Account -> Nat]
      /\ brackets \in [Account -> Bracket \cup {None}]
      /\ pending_stops \in SUBSET Signals
      /\ outcome \in [Signals -> OutcomeType]
  BY DEF TypeOK, OutcomeType
<1>2. CASE \E a \in hot, passed \in SUBSET cold :
              /\ tick_pc' = "exit"
              /\ tick' = [instrument |-> inst, price |-> price,
                          todo |-> Without(todo, passed \cup {a}),
                          to_remove |-> removed \cup NotHeld(passed),
                          exiting |-> a, qty |-> positions[a]]
              /\ UNCHANGED <<brackets, pending_stops, outcome>>
  <2>1. PICK a \in hot, passed \in SUBSET cold :
              /\ tick_pc' = "exit"
              /\ tick' = [instrument |-> inst, price |-> price,
                          todo |-> Without(todo, passed \cup {a}),
                          to_remove |-> removed \cup NotHeld(passed),
                          exiting |-> a, qty |-> positions[a]]
              /\ UNCHANGED <<brackets, pending_stops, outcome>>
    BY <1>2
  <2>2. a \in Account /\ NotHeld(passed) \subseteq Account
    OBVIOUS
  <2>3. Without(todo, passed \cup {a}) \in [Account -> Bracket \cup {None}]
    BY DEF Without
  <2>4. tick' \in TickType /\ tick'.exiting = a
    BY <1>1, <2>1, <2>2, <2>3 DEF TickType
  <2>5. \A s \in Signals : OutcomeKept(s)
    BY <2>1 DEF OutcomeKept
  <2> QED BY <1>1, <2>1, <2>2, <2>4, <2>5
<1>3. CASE EndTick(inst, price, removed \cup NotHeld(cold))
  <2> DEFINE marked == {s \in pending_stops : Fires(s, inst, price)}
  <2>1. /\ brackets' = Without(brackets, removed \cup NotHeld(cold))
        /\ pending_stops' = {s \in pending_stops : ~Fires(s, inst, price)}
        /\ outcome' = [s \in Signals |->
              IF s \in marked
              THEN [outcome[s] EXCEPT !.fate = @ \cup {"stop_dropped"}]
              ELSE outcome[s]]
        /\ tick_pc' = "idle"
        /\ tick' = IdleTick
    BY <1>3 DEF EndTick
  <2>2. brackets' \in [Account -> Bracket \cup {None}]
    BY <1>1, <2>1 DEF Without
  <2>3. tick' \in TickType
    BY <2>1 DEF IdleTick, TickType
  <2>4. outcome' \in [Signals -> OutcomeType] /\ \A s \in Signals : OutcomeKept(s)
    <3>1. \A s \in Signals : s \in pending_stops => s \in pending_stops' \/ s \in marked
      BY <2>1
    <3> HIDE DEF marked
    <3> QED BY <1>1, <2>1, <3>1, MarkedOutcomes
  <2> QED BY <1>1, <2>1, <2>2, <2>3, <2>4
<1> QED BY <1>2, <1>3 DEF ScanBrackets

\* A crash forgets the pending stops, and their fate says so.
LEMMA CrashOutcomes ==
    ASSUME TypeOK, Crash
    PROVE  outcome' \in [Signals -> OutcomeType] /\ \A s \in Signals : OutcomeKept(s)
<1>1. outcome \in [Signals -> OutcomeType]
  BY DEF TypeOK, OutcomeType
<1>2. outcome' = [s \in Signals |->
          IF s \in pending_stops
          THEN [outcome[s] EXCEPT !.fate = @ \cup {"forgotten"}]
          ELSE outcome[s]]
  BY DEF Crash
<1> QED BY <1>1, <1>2, MarkedOutcomes

-----------------------------------------------------------------------------
(* The steps of the signal handler.                                        *)

\* The signal in hand.
LEMMA SignalInHand ==
    ASSUME TypeOK, sig_pc # "idle"
    PROVE  /\ order.signal \in Signals
           /\ order.remaining \in Nat /\ order.slots \in Nat /\ order.pre_qty \in Nat
           /\ order = [signal |-> order.signal, remaining |-> order.remaining,
                       slots |-> order.slots, pre_qty |-> order.pre_qty]
BY DEF TypeOK, OrderType

\* A part takes from what remains, and leaves a unit to each later part.
LEMMA PartTaken ==
    ASSUME TypeOK, sig_pc = "fill", NEW take \in Takes(order)
    PROVE  /\ take \in Nat /\ take <= order.remaining
           /\ order.slots > 1 => order.remaining - take >= order.slots - 1
           /\ order.slots <= 1 => take = order.remaining
<1>1. order.remaining \in Nat /\ order.slots \in Nat /\ order.slots >= 1
  BY SignalInHand DEF TypeOK
<1>2. order.slots > 1 => order.remaining >= order.slots
  BY DEF TypeOK
<1> QED BY <1>1, <1>2 DEF Takes

\* The number of parts an order of some quantity may be split into.
LEMMA SplitBounds ==
    ASSUME NEW qty \in Nat, NEW n \in Splits(qty)
    PROVE  n \in Nat /\ n >= 1 /\ (n > 1 => qty >= n)
BY PaperAssumption DEF Splits, Positive

(***************************************************************************)
(* What a step of the signal handler notes about the signal s: whether it  *)
(* is acknowledged, n more units filled, and what is added to its fate.    *)
(***************************************************************************)
Noted(s, acked, n, fate) ==
    /\ outcome' \in [Signals -> OutcomeType]
    /\ outcome'[s].acked = acked
    /\ outcome'[s].filled = outcome[s].filled + n
    /\ outcome'[s].fate = outcome[s].fate \cup fate
    /\ \A t \in Signals \ {s} : outcome'[t] = outcome[t]

\* The handler acknowledges the signal, and adds to its fate or not.
LEMMA NotedAck ==
    ASSUME TypeOK, NEW s \in Signals, NEW fate \in SUBSET Fate
    PROVE  /\ outcome' = Acknowledge(s) => Noted(s, TRUE, 0, {})
           /\ outcome' = [outcome EXCEPT ![s].acked = TRUE, ![s].fate = @ \cup fate] =>
                 Noted(s, TRUE, 0, fate)
<1>1. outcome \in [Signals -> OutcomeType]
  BY DEF TypeOK, OutcomeType
<1>2. outcome[s].filled = outcome[s].filled + 0 /\ outcome[s].fate = outcome[s].fate \cup {}
  BY <1>1 DEF OutcomeType
<1>3. ASSUME outcome' = Acknowledge(s)
      PROVE  Noted(s, TRUE, 0, {})
  <2>1. outcome' = [outcome EXCEPT ![s].acked = TRUE]
    BY <1>3 DEF Acknowledge
  <2>2. /\ outcome' \in [Signals -> OutcomeType]
        /\ outcome'[s].acked = TRUE
        /\ outcome'[s].filled = outcome[s].filled
        /\ outcome'[s].fate = outcome[s].fate
        /\ \A t \in Signals \ {s} : outcome'[t] = outcome[t]
    BY <1>1, <2>1 DEF OutcomeType
  <2> QED BY <1>2, <2>2 DEF Noted
<1>4. ASSUME outcome' = [outcome EXCEPT ![s].acked = TRUE, ![s].fate = @ \cup fate]
      PROVE  Noted(s, TRUE, 0, fate)
  <2>1. /\ outcome' \in [Signals -> OutcomeType]
        /\ outcome'[s].acked = TRUE
        /\ outcome'[s].filled = outcome[s].filled
        /\ outcome'[s].fate = outcome[s].fate \cup fate
        /\ \A t \in Signals \ {s} : outcome'[t] = outcome[t]
    BY <1>1, <1>4 DEF OutcomeType
  <2> QED BY <1>2, <2>1 DEF Noted
<1> QED BY <1>3, <1>4

\* The handler notes a fill, adds to the signal's fate, or both.
LEMMA NotedFill ==
    ASSUME TypeOK, NEW s \in Signals, NEW n \in Nat, NEW fate \in SUBSET Fate
    PROVE  /\ outcome' = [outcome EXCEPT ![s].filled = @ + n] =>
                 Noted(s, outcome[s].acked, n, {})
           /\ outcome' = [outcome EXCEPT ![s].fate = @ \cup fate] =>
                 Noted(s, outcome[s].acked, 0, fate)
           /\ outcome' = [outcome EXCEPT ![s].filled = @ + n, ![s].fate = @ \cup fate] =>
                 Noted(s, outcome[s].acked, n, fate)
<1>1. outcome \in [Signals -> OutcomeType] /\ outcome[s].filled \in Nat
  BY DEF TypeOK, OutcomeType
<1>2. outcome' = [outcome EXCEPT ![s].filled = @ + n] => Noted(s, outcome[s].acked, n, {})
  BY <1>1 DEF Noted, OutcomeType
<1>3. outcome' = [outcome EXCEPT ![s].fate = @ \cup fate] =>
          Noted(s, outcome[s].acked, 0, fate)
  BY <1>1 DEF Noted, OutcomeType
<1>4. ASSUME outcome' = [outcome EXCEPT ![s].filled = @ + n, ![s].fate = @ \cup fate]
      PROVE  Noted(s, outcome[s].acked, n, fate)
  <2>1. /\ outcome' = [outcome EXCEPT ![s] = outcome'[s]]
        /\ outcome'[s] = [outcome[s] EXCEPT !.filled = @ + n, !.fate = @ \cup fate]
    BY <1>1, <1>4
  <2>2. outcome'[s] = [acked |-> outcome[s].acked, filled |-> outcome[s].filled + n,
                       fate |-> outcome[s].fate \cup fate]
    <3> DEFINE o == outcome[s]
    <3>1. o \in OutcomeType /\ outcome'[s] = [o EXCEPT !.filled = @ + n, !.fate = @ \cup fate]
      BY <1>1, <2>1
    <3> HIDE DEF o
    <3>2. outcome'[s] = [acked |-> o.acked, filled |-> o.filled + n, fate |-> o.fate \cup fate]
      BY <3>1 DEF OutcomeType
    <3> QED BY <3>2 DEF o
  <2>3. /\ outcome[s].acked \in BOOLEAN
        /\ outcome[s].filled + n \in Nat
        /\ outcome[s].fate \cup fate \in SUBSET Fate
    BY <1>1 DEF OutcomeType
  <2>4. outcome'[s] \in OutcomeType
    BY <2>2, <2>3 DEF OutcomeType
  <2>5. /\ outcome' \in [Signals -> OutcomeType]
        /\ \A t \in Signals \ {s} : outcome'[t] = outcome[t]
    BY <1>1, <2>1, <2>4
  <2> QED BY <2>2, <2>5 DEF Noted
<1> QED BY <1>2, <1>3, <1>4

\* What is noted about one signal keeps the outcome of every other.
LEMMA NotedKeepsOthers ==
    ASSUME TypeOK, NEW s, NEW acked, NEW n, NEW fate,
           Noted(s, acked, n, fate), pending_stops \subseteq pending_stops'
    PROVE  \A t \in Signals \ {s} : OutcomeKept(t)
BY DEF Noted, OutcomeKept

-----------------------------------------------------------------------------
(* Types.                                                                  *)

\* The parts of TypeOK that a step of one handler can disturb.
SeenType ==
    seen_keys \in SUBSET STRING /\ seen_queue \in Seq(STRING) /\ lapses \in [Signals -> Nat]

HoldingsType == positions \in [Account -> Nat] /\ cash \in [Strategy -> Int]

OrderOK ==
    /\ sig_pc \in {"idle", "latency", "fail", "fill", "pnl"}
    /\ order \in OrderType
    /\ sig_pc # "idle" <=> order.signal # None
    /\ sig_pc = "fill" => order.slots >= 1
    /\ order.slots > 1 => order.remaining >= order.slots

TickOK ==
    /\ tick_pc \in {"idle", "exit"}
    /\ tick \in TickType
    /\ tick_pc = "exit" => tick.exiting \in Account

StopsType ==
    /\ brackets \in [Account -> Bracket \cup {None}]
    /\ pending_stops \in SUBSET Signals

PublishedType ==
    bought \in [Account -> Nat] /\ sold \in [Account -> Nat] /\ total \in [Signals -> Nat]

CountsType ==
    deliveries \in 0..MaxDeliveries /\ ticks \in 0..MaxTicks /\ crashes \in 0..MaxCrashes

\* Together they are TypeOK, before a step and after it.
LEMMA TypeParts ==
    /\ TypeOK => /\ SeenType /\ HoldingsType /\ OrderOK /\ TickOK /\ StopsType
                 /\ PublishedType /\ CountsType
                 /\ outcome \in [Signals -> OutcomeType]
    /\ /\ SeenType' /\ HoldingsType' /\ OrderOK' /\ TickOK' /\ StopsType'
       /\ PublishedType' /\ CountsType'
       /\ outcome' \in [Signals -> OutcomeType]
       => TypeOK'
BY DEF TypeOK, SeenType, HoldingsType, OrderOK, TickOK, StopsType, PublishedType,
       CountsType, OutcomeType

\* deque.append: the new element is last, and the elements stay in their set.
LEMMA DequeAppendType ==
    ASSUME NEW S, NEW q \in Seq(S), NEW x \in S
    PROVE  /\ DequeAppend(q, x) \in Seq(S) /\ DequeAppend(q, x) # <<>>
           /\ Tail(DequeAppend(q, x)) \in Seq(S)
<1>1. SeenMax \in Nat /\ SeenMax >= 2
  BY PaperAssumption
<1> DEFINE r == IF Len(q) = SeenMax THEN Tail(q) ELSE q
<1>2. r \in Seq(S)
  <2>1. CASE Len(q) = SeenMax
    BY <1>1, <2>1, HeadTailProperties
  <2> QED BY <2>1
<1>3. DequeAppend(q, x) = Append(r, x)
  BY DEF DequeAppend
<1> HIDE DEF r
<1>4. Append(r, x) \in Seq(S) /\ Append(r, x) # <<>>
  BY <1>2, AppendProperties
<1> QED BY <1>3, <1>4, HeadTailProperties

\* A lapse of some keys leaves a natural count for each signal.
LEMMA LapseType ==
    ASSUME lapses \in [Signals -> Nat], NEW keys, \/ Lapse(keys) \/ UNCHANGED lapses
    PROVE  lapses' \in [Signals -> Nat]
BY DEF Lapse

\* The deque and the set keep strings.
LEMMA RememberType ==
    ASSUME SeenType, NEW s \in Signals, Remember(s.key)
    PROVE  SeenType'
<1>1. s.key \in STRING
  BY SignalFields DEF SignalType
<1> DEFINE q == DequeAppend(seen_queue, s.key)
<1>2. q \in Seq(STRING) /\ Tail(q) \in Seq(STRING)
  BY <1>1, DequeAppendType DEF SeenType
<1>3. seen_queue' \in {q, Tail(q)} /\ seen_keys' \subseteq seen_keys \cup {s.key}
  BY DEF Remember
<1>4. lapses' \in [Signals -> Nat]
  BY LapseType DEF Remember, SeenType
<1> HIDE DEF q
<1> QED BY <1>1, <1>2, <1>3, <1>4 DEF SeenType

\* No order in hand.
LEMMA NoOrderOK ==
    ASSUME sig_pc' = "idle", order' = NoOrder
    PROVE  OrderOK'
BY DEF OrderOK, NoOrder, OrderType

\* A published fill leaves natural quantities.
LEMMA PublishType ==
    ASSUME PublishedType, NEW s \in Signals, NEW take \in Nat, Publish(s, take)
    PROVE  PublishedType'
BY SignalFields DEF PublishedType, Publish

\* A fill leaves natural quantities of what is held, and whole cash.
LEMMA ApplyFillType ==
    ASSUME HoldingsType, NEW s \in Signals, NEW take \in Nat, ApplyFill(s, take)
    PROVE  HoldingsType'
<1>1. AccountOf(s) \in Account /\ s.strategy \in Strategy
  BY SignalFields
<1>2. /\ take * UnitCost(s) \in Nat
      /\ take * FillPrice(s) * (100 - commission_percent) \in Nat
  BY PricesAreNatural
<1>3. positions' \in [Account -> Nat]
  BY <1>1 DEF HoldingsType, ApplyFill, PlusClamped
<1>4. cash' \in [Strategy -> Int]
  <2> DEFINE cost == take * UnitCost(s)
             gain == take * FillPrice(s) * (100 - commission_percent)
  <2>1. /\ cost \in Nat /\ gain \in Nat
        /\ cash' = [cash EXCEPT ![s.strategy] = IF IsBuy(s) THEN @ - cost ELSE @ + gain]
    BY <1>2 DEF ApplyFill
  <2> HIDE DEF cost, gain
  <2> QED BY <1>1, <2>1 DEF HoldingsType
<1> QED BY <1>3, <1>4 DEF HoldingsType

\* The variables a step of the tick handler leaves alone, and its effect on the rest.
LEMMA TickTypes ==
    ASSUME TypeOK,
           ExitBracket \/ \E inst \in Instrument, price \in TickPrice : Tick(inst, price)
    PROVE  /\ TypeOK'
           /\ \A s \in Signals : OutcomeKept(s)
           /\ UNCHANGED <<seen_keys, seen_queue, lapses, positions, cash, sig_pc, order>>
<1>1. CASE \E inst \in Instrument, price \in TickPrice : Tick(inst, price)
  <2>1. PICK inst \in Instrument, price \in TickPrice : Tick(inst, price)
    BY <1>1
  <2>2. price \in Nat
    BY PaperAssumption DEF Positive
  <2>3. Snapshot(inst) \in [Account -> Bracket \cup {None}]
    BY DEF Snapshot, TypeOK
  <2>4. ScanBrackets(inst, price, Snapshot(inst), {})
    BY <2>1 DEF Tick
  <2>5. TickOK' /\ StopsType' /\ outcome' \in [Signals -> OutcomeType]
    BY <2>2, <2>3, <2>4, ScanTypes DEF TickOK, StopsType
  <2>6. CountsType' /\ PublishedType'
    BY <2>1, PaperAssumption DEF Tick, TypeOK, CountsType, PublishedType
  <2>7. UNCHANGED <<seen_keys, seen_queue, lapses, positions, cash, sig_pc, order>>
    BY <2>1 DEF Tick
  <2>8. SeenType' /\ HoldingsType' /\ OrderOK'
    BY <2>7, TypeParts DEF SeenType, HoldingsType, OrderOK
  <2>9. \A s \in Signals : OutcomeKept(s)
    BY <2>2, <2>3, <2>4, ScanTypes
  <2>10. TypeOK'
    BY <2>5, <2>6, <2>8, TypeParts
  <2> QED BY <2>7, <2>9, <2>10
<1>2. CASE ExitBracket
  <2>1. /\ tick.exiting \in Account /\ tick.qty \in Nat /\ tick.price \in Nat
        /\ tick.todo \in [Account -> Bracket \cup {None}]
        /\ tick.to_remove \cup {tick.exiting} \in SUBSET Account
        /\ tick.instrument \in Instrument \cup {None}
    BY <1>2 DEF ExitBracket, TypeOK, TickType
  <2>2. ScanBrackets(tick.instrument, tick.price, tick.todo, tick.to_remove \cup {tick.exiting})
    BY <1>2 DEF ExitBracket
  <2>5. TickOK' /\ StopsType' /\ outcome' \in [Signals -> OutcomeType]
    BY <2>1, <2>2, ScanTypes DEF TickOK, StopsType
  <2>6. CountsType' /\ PublishedType'
    <3>1. /\ sold' = [sold EXCEPT ![tick.exiting] = @ + tick.qty] \/ sold' = sold
          /\ UNCHANGED <<bought, total, deliveries, ticks, crashes>>
      BY <1>2 DEF ExitBracket, bound_vars
    <3> QED BY <2>1, <3>1, TypeParts DEF CountsType, PublishedType
  <2>7. UNCHANGED <<seen_keys, seen_queue, lapses, positions, cash, sig_pc, order>>
    BY <1>2 DEF ExitBracket
  <2>8. SeenType' /\ HoldingsType' /\ OrderOK'
    BY <2>7, TypeParts DEF SeenType, HoldingsType, OrderOK
  <2>9. \A s \in Signals : OutcomeKept(s)
    BY <2>1, <2>2, ScanTypes
  <2>10. TypeOK'
    BY <2>5, <2>6, <2>8, TypeParts
  <2> QED BY <2>7, <2>9, <2>10
<1> QED BY <1>1, <1>2

\* Types are kept by the steps of the signal handler.
LEMMA SignalTypes ==
    ASSUME TypeOK, Solvent,
           \/ \E s \in Signals : IgnoreDuplicate(s) \/ Admit(s)
           \/ SignalStep
    PROVE  TypeOK'
<1>1. /\ SeenType /\ HoldingsType /\ OrderOK /\ TickOK /\ StopsType
      /\ PublishedType /\ CountsType
      /\ outcome \in [Signals -> OutcomeType]
  BY TypeParts
<1>2. ASSUME NEW s \in Signals, IgnoreDuplicate(s)
      PROVE  TypeOK'
  <2>1. /\ UNCHANGED <<seen_keys, seen_queue, lapses, positions, cash, brackets, pending_stops,
                       sig_pc, order, tick_pc, tick, bought, sold, total, ticks, crashes>>
        /\ outcome' = Acknowledge(s)
        /\ deliveries < MaxDeliveries /\ deliveries' = deliveries + 1
    BY <1>2 DEF IgnoreDuplicate, Deliver, memory_vars
  <2>2. outcome' \in [Signals -> OutcomeType]
    BY <2>1, NotedAck DEF Noted
  <2>3. CountsType'
    BY <1>1, <2>1, PaperAssumption DEF CountsType
  <2>4. SeenType' /\ HoldingsType' /\ OrderOK' /\ TickOK' /\ StopsType' /\ PublishedType'
    BY <1>1, <2>1 DEF SeenType, HoldingsType, OrderOK, TickOK, StopsType, PublishedType
  <2> QED BY <2>2, <2>3, <2>4, TypeParts
<1>3. ASSUME NEW s \in Signals, Admit(s)
      PROVE  TypeOK'
  <2>1. /\ UNCHANGED <<positions, cash, brackets, pending_stops,
                       tick_pc, tick, bought, sold, total, ticks, crashes>>
        /\ outcome' = [outcome EXCEPT ![s] = NoOutcome]
        /\ Remember(s.key)
        /\ sig_pc' = "latency" /\ order' = [NoOrder EXCEPT !.signal = s]
        /\ deliveries < MaxDeliveries /\ deliveries' = deliveries + 1
    BY <1>3 DEF Admit, Deliver
  <2>2. outcome' \in [Signals -> OutcomeType]
    BY <1>1, <2>1 DEF NoOutcome, OutcomeType
  <2>3. CountsType'
    BY <1>1, <2>1, PaperAssumption DEF CountsType
  <2>4. OrderOK'
    BY <2>1, SignalFields DEF OrderOK, OrderType, NoOrder
  <2>5. SeenType'
    BY <1>1, <2>1, RememberType
  <2>6. HoldingsType' /\ TickOK' /\ StopsType' /\ PublishedType'
    BY <1>1, <2>1 DEF HoldingsType, TickOK, StopsType, PublishedType
  <2> QED BY <2>2, <2>3, <2>4, <2>5, <2>6, TypeParts
<1>4. ASSUME SignalStep
      PROVE  /\ UNCHANGED <<seen_keys, seen_queue, lapses, tick_pc, tick, deliveries, ticks, crashes>>
             /\ SeenType' /\ TickOK' /\ CountsType'
             /\ order.signal \in Signals
  <2>1. /\ UNCHANGED <<seen_keys, seen_queue, lapses, tick_pc, tick, deliveries, ticks, crashes>>
        /\ sig_pc # "idle"
    BY <1>4 DEF SignalStep, EnqueueStop, RejectOrder, AcceptOrder, FailOrder, FillPart,
                FillRaises, FinishSignal, memory_vars, bound_vars
  <2> QED BY <1>1, <2>1, SignalInHand DEF SeenType, TickOK, CountsType
<1>5. ASSUME EnqueueStop PROVE TypeOK'
  <2>1. SignalStep
    BY <1>5 DEF SignalStep
  <2>2. /\ UNCHANGED <<positions, cash, brackets, bought, sold, total>>
        /\ pending_stops' = pending_stops \cup {order.signal}
        /\ outcome' = [outcome EXCEPT ![order.signal].acked = TRUE,
                                      ![order.signal].fate = @ \cup {"pending"}]
        /\ sig_pc' = "idle" /\ order' = NoOrder
    BY <1>5 DEF EnqueueStop
  <2>3. outcome' \in [Signals -> OutcomeType]
    BY <1>4, <2>1, <2>2, NotedAck DEF Noted, Fate
  <2>4. HoldingsType' /\ StopsType' /\ PublishedType'
    BY <1>1, <1>4, <2>1, <2>2 DEF HoldingsType, StopsType, PublishedType
  <2> QED BY <1>4, <2>1, <2>2, <2>3, <2>4, NoOrderOK, TypeParts
<1>6. ASSUME RejectOrder PROVE TypeOK'
  <2>1. SignalStep
    BY <1>6 DEF SignalStep
  <2>2. /\ UNCHANGED <<positions, cash, brackets, pending_stops, bought, sold, total, outcome, order>>
        /\ sig_pc = "latency" /\ sig_pc' = "fail"
    BY <1>6 DEF RejectOrder, memory_vars
  <2>3. HoldingsType' /\ StopsType' /\ PublishedType' /\ outcome' \in [Signals -> OutcomeType]
    BY <1>1, <2>2 DEF HoldingsType, StopsType, PublishedType
  <2>4. OrderOK'
    BY <1>1, <2>2 DEF OrderOK
  <2> QED BY <1>4, <2>1, <2>3, <2>4, TypeParts
<1>7. ASSUME AcceptOrder PROVE TypeOK'
  <2>1. SignalStep
    BY <1>7 DEF SignalStep
  <2> DEFINE s == order.signal
             qty == ActualQty(s)
  <2>2. PICK n \in Splits(qty) :
          order' = [signal |-> s, remaining |-> qty, slots |-> n,
                    pre_qty |-> positions[AccountOf(s)]]
    BY <1>7 DEF AcceptOrder
  <2>3. /\ UNCHANGED <<positions, cash, brackets, pending_stops, bought, sold, total, outcome>>
        /\ sig_pc' = "fill"
        /\ ~Refused(s) /\ qty # Reject
    BY <1>7 DEF AcceptOrder, memory_vars
  <2>4. s \in Signals
    BY <1>4, <2>1
  <2>5. qty \in Nat /\ positions[AccountOf(s)] \in Nat
    <3>1. cash[s.strategy] >= 0
      BY <2>4, SignalFields DEF Solvent
    <3> HIDE DEF s
    <3> QED BY <1>1, <2>3, <2>4, <3>1, SignalFields, AcceptedQuantity DEF HoldingsType
  <2>6. n \in Nat /\ n >= 1 /\ (n > 1 => qty >= n)
    <3> HIDE DEF qty
    <3> QED BY <2>5, SplitBounds
  <2>7. OrderOK'
    <3> HIDE DEF s, qty
    <3> QED BY <2>2, <2>3, <2>4, <2>5, <2>6, SignalFields DEF OrderOK, OrderType
  <2>8. HoldingsType' /\ StopsType' /\ PublishedType' /\ outcome' \in [Signals -> OutcomeType]
    BY <1>1, <2>3 DEF HoldingsType, StopsType, PublishedType
  <2> QED BY <1>4, <2>1, <2>7, <2>8, TypeParts
<1>8. ASSUME FailOrder PROVE TypeOK'
  <2>1. SignalStep
    BY <1>8 DEF SignalStep
  <2>2. /\ UNCHANGED <<positions, cash, brackets, pending_stops, bought, sold, total>>
        /\ \E fate \in {"failed", "send_error"} :
              outcome' = [outcome EXCEPT ![order.signal].acked = TRUE,
                                         ![order.signal].fate = @ \cup {fate}]
        /\ sig_pc' = "idle" /\ order' = NoOrder
    BY <1>8 DEF FailOrder, memory_vars
  <2>3. outcome' \in [Signals -> OutcomeType]
    BY <1>4, <2>1, <2>2, NotedAck DEF Noted, Fate
  <2>4. HoldingsType' /\ StopsType' /\ PublishedType'
    BY <1>1, <2>2 DEF HoldingsType, StopsType, PublishedType
  <2> QED BY <1>4, <2>1, <2>2, <2>3, <2>4, NoOrderOK, TypeParts
<1>9. ASSUME FinishSignal PROVE TypeOK'
  <2>1. SignalStep
    BY <1>9 DEF SignalStep
  <2>2. /\ UNCHANGED <<positions, cash, brackets, pending_stops, bought, sold, total>>
        /\ outcome' = Acknowledge(order.signal)
        /\ sig_pc' = "idle" /\ order' = NoOrder
    BY <1>9 DEF FinishSignal, memory_vars
  <2>3. outcome' \in [Signals -> OutcomeType]
    BY <1>4, <2>1, <2>2, NotedAck DEF Noted
  <2>4. HoldingsType' /\ StopsType' /\ PublishedType'
    BY <1>1, <2>2 DEF HoldingsType, StopsType, PublishedType
  <2> QED BY <1>4, <2>1, <2>2, <2>3, <2>4, NoOrderOK, TypeParts
<1>10. ASSUME NEW take \in 0..order.remaining, FillPart(take) PROVE TypeOK'
  <2>1. SignalStep
    BY <1>10 DEF SignalStep
  <2> DEFINE s == order.signal
  <2>2. s \in Signals
    BY <1>4, <2>1
  <2>3. /\ sig_pc = "fill" /\ take \in Takes(order)
        /\ Publish(s, take) /\ ApplyFill(s, take) /\ UNCHANGED pending_stops
    BY <1>10 DEF FillPart
  <2>4. /\ take \in Nat /\ take <= order.remaining
        /\ order.slots > 1 => order.remaining - take >= order.slots - 1
    BY <2>3, PartTaken
  <2>5. HoldingsType' /\ PublishedType'
    BY <1>1, <2>2, <2>3, <2>4, ApplyFillType, PublishType
  <2>6. CASE order.slots > 1
    <3>1. /\ order' = [order EXCEPT !.remaining = @ - take, !.slots = @ - 1]
          /\ outcome' = [outcome EXCEPT ![s].filled = @ + take]
          /\ UNCHANGED <<sig_pc, brackets>>
      BY <1>10, <2>6 DEF FillPart
    <3>2. outcome' \in [Signals -> OutcomeType]
      BY <2>2, <2>4, <3>1, NotedFill DEF Noted
    <3>3. OrderOK'
      <4>1. order' = [signal |-> s, remaining |-> order.remaining - take,
                      slots |-> order.slots - 1, pre_qty |-> order.pre_qty]
        BY <2>3, <3>1, SignalInHand
      <4>2. /\ s # None /\ order.pre_qty \in Nat /\ sig_pc' = "fill"
            /\ order.remaining - take \in Nat /\ order.slots - 1 \in Nat /\ order.slots - 1 >= 1
            /\ order.slots - 1 > 1 => order.remaining - take >= order.slots - 1
        BY <2>2, <2>3, <2>4, <2>6, <3>1, SignalInHand, SignalFields
      <4> HIDE DEF s
      <4> QED BY <2>2, <4>1, <4>2 DEF OrderOK, OrderType
    <3>4. StopsType'
      BY <1>1, <2>3, <3>1 DEF StopsType
    <3> QED BY <1>4, <2>1, <2>5, <3>2, <3>3, <3>4, TypeParts
  <2>7. CASE ~(order.slots > 1)
    <3>1. /\ order' = [order EXCEPT !.remaining = 0, !.slots = 0]
          /\ outcome' = [outcome EXCEPT ![s].filled = @ + take,
                                        ![s].fate = @ \cup {"executed"}]
          /\ brackets' = SetBracket(brackets, order)
          /\ sig_pc' = "pnl"
      BY <1>10, <2>7 DEF FillPart
    <3>2. outcome' \in [Signals -> OutcomeType]
      BY <2>2, <2>4, <3>1, NotedFill DEF Noted, Fate
    <3>3. OrderOK'
      <4>1. order' = [signal |-> s, remaining |-> 0, slots |-> 0, pre_qty |-> order.pre_qty]
        BY <2>3, <3>1, SignalInHand
      <4>2. s # None /\ order.pre_qty \in Nat /\ sig_pc' = "pnl"
        BY <2>2, <2>3, <3>1, SignalInHand, SignalFields
      <4> HIDE DEF s
      <4> QED BY <2>2, <4>1, <4>2 DEF OrderOK, OrderType
    <3>4. StopsType'
      BY <1>1, <2>2, <2>3, <3>1, BracketType, SignalFields DEF StopsType, SetBracket
    <3> QED BY <1>4, <2>1, <2>5, <3>2, <3>3, <3>4, TypeParts
  <2> QED BY <2>6, <2>7
<1>11. ASSUME NEW take \in 0..order.remaining, FillRaises(take) PROVE TypeOK'
  <2>1. SignalStep
    BY <1>11 DEF SignalStep
  <2> DEFINE s == order.signal
  <2>2. s \in Signals
    BY <1>4, <2>1
  <2>3. /\ sig_pc = "fill" /\ take \in Takes(order)
        /\ sig_pc' = "idle" /\ order' = NoOrder
        /\ UNCHANGED <<positions, cash, brackets, pending_stops>>
        /\ \/ /\ Publish(s, take)
              /\ outcome' = [outcome EXCEPT ![s].filled = @ + take,
                                            ![s].fate = @ \cup {"send_error"}]
           \/ /\ UNCHANGED <<bought, sold, total>>
              /\ outcome' = [outcome EXCEPT ![s].fate = @ \cup {"send_error"}]
    BY <1>11 DEF FillRaises, memory_vars
  <2>4. take \in Nat
    BY <2>3, PartTaken
  <2>5. HoldingsType' /\ StopsType'
    BY <1>1, <2>3 DEF HoldingsType, StopsType
  <2>6. PublishedType'
    BY <1>1, <2>2, <2>3, <2>4, PublishType DEF PublishedType
  <2>7. outcome' \in [Signals -> OutcomeType]
    <3>1. {"send_error"} \in SUBSET Fate
      BY DEF Fate
    <3> QED BY <2>2, <2>3, <2>4, <3>1, NotedFill DEF Noted
  <2> QED BY <1>4, <2>1, <2>3, <2>5, <2>6, <2>7, NoOrderOK, TypeParts
<1> QED BY <1>2, <1>3, <1>5, <1>6, <1>7, <1>8, <1>9, <1>10, <1>11 DEF SignalStep

\* Types are kept by a crash.
LEMMA CrashTypes ==
    ASSUME TypeOK, Crash
    PROVE  TypeOK'
<1>1. /\ FreshMemory
      /\ crashes < MaxCrashes /\ crashes' = crashes + 1
      /\ UNCHANGED <<bought, sold, total, deliveries, ticks>>
  BY DEF Crash
<1>2. SeenType' /\ StopsType'
  <2>1. lapses' \in [Signals -> Nat]
    BY LapseType, TypeParts DEF Crash, SeenType
  <2> QED BY <1>1, <2>1 DEF FreshMemory, SeenType, StopsType
<1>3. HoldingsType'
  BY <1>1, PaperAssumption DEF FreshMemory, HoldingsType
<1>4. OrderOK'
  BY <1>1, NoOrderOK DEF FreshMemory
<1>5. TickOK'
  BY <1>1 DEF FreshMemory, TickOK, IdleTick, TickType
<1>6. PublishedType' /\ CountsType'
  BY <1>1, TypeParts, PaperAssumption DEF PublishedType, CountsType
<1> QED BY <1>2, <1>3, <1>4, <1>5, <1>6, CrashOutcomes, TypeParts

-----------------------------------------------------------------------------
(* The idempotence memory.                                                 *)

KeysIn(q) == {q[i] : i \in 1..Len(q)}

NoRepetition(q) == \A i, j \in 1..Len(q) : q[i] = q[j] => i = j

\* A new key at the end.
LEMMA AppendNewKey ==
    ASSUME NEW S, NEW q \in Seq(S), NEW x \in S, x \notin KeysIn(q), NoRepetition(q)
    PROVE  LET a == Append(q, x)
           IN  /\ a \in Seq(S) /\ a # <<>> /\ Len(a) = Len(q) + 1
               /\ KeysIn(a) = KeysIn(q) \cup {x}
               /\ NoRepetition(a)
<1> DEFINE a == Append(q, x)
<1>1. /\ a \in Seq(S) /\ a # <<>> /\ Len(a) = Len(q) + 1
      /\ \A i \in 1..Len(q) : a[i] = q[i]
      /\ a[Len(q) + 1] = x
  BY AppendProperties
<1>2. Len(q) \in Nat /\ 1..Len(a) = (1..Len(q)) \cup {Len(q) + 1}
  BY <1>1
<1> HIDE DEF a
<1>3. KeysIn(a) = KeysIn(q) \cup {x}
  BY <1>1, <1>2 DEF KeysIn
<1>4. NoRepetition(a)
  <2>1. \A i \in 1..Len(q) : q[i] # x
    BY DEF KeysIn
  <2> QED BY <1>1, <1>2, <2>1 DEF NoRepetition
<1> QED BY <1>1, <1>3, <1>4 DEF a

\* The oldest key leaves.
LEMMA TailForgetsHead ==
    ASSUME NEW S, NEW a \in Seq(S), a # <<>>, NoRepetition(a)
    PROVE  /\ Len(Tail(a)) = Len(a) - 1 /\ Len(a) \in Nat /\ Len(a) >= 1
           /\ KeysIn(Tail(a)) = KeysIn(a) \ {Head(a)}
           /\ NoRepetition(Tail(a))
<1> DEFINE r == Tail(a)
<1>1. /\ Len(r) = Len(a) - 1
      /\ \A i \in 1..Len(r) : r[i] = a[i + 1]
  BY HeadTailProperties
<1>2. Len(a) \in Nat /\ Len(a) >= 1 /\ Head(a) = a[1]
  OBVIOUS
<1> HIDE DEF r
<1>3. NoRepetition(r)
  BY <1>1, <1>2 DEF NoRepetition
<1>4. ASSUME NEW x \in KeysIn(r) PROVE x \in KeysIn(a) \ {Head(a)}
  <2>1. PICK i \in 1..Len(r) : x = a[i + 1]
    BY <1>1, <1>4 DEF KeysIn
  <2>2. i + 1 \in 1..Len(a) /\ 1 \in 1..Len(a) /\ i + 1 # 1
    BY <1>1, <1>2
  <2> QED BY <1>2, <2>1, <2>2 DEF KeysIn, NoRepetition
<1>5. ASSUME NEW x \in KeysIn(a) \ {Head(a)} PROVE x \in KeysIn(r)
  <2>1. PICK i \in 1..Len(a) : x = a[i]
    BY <1>5 DEF KeysIn
  <2>2. i - 1 \in 1..Len(r) /\ r[i - 1] = a[i]
    BY <1>1, <1>2, <1>5, <2>1
  <2> QED BY <2>1, <2>2 DEF KeysIn
<1>6. KeysIn(r) = KeysIn(a) \ {Head(a)}
  BY <1>4, <1>5
<1> QED BY <1>1, <1>2, <1>3, <1>6 DEF r

\* What is in the set and in the deque after a new key.
LEMMA RememberKeepsSeen ==
    ASSUME SeenType, SeenConsistent, NEW s \in Signals, s.key \notin seen_keys, Remember(s.key)
    PROVE  SeenConsistent' /\ seen_keys' \subseteq seen_keys \cup {s.key}
<1> DEFINE a == Append(seen_queue, s.key)
<1>1. /\ seen_queue \in Seq(STRING) /\ s.key \in STRING
      /\ seen_keys = KeysIn(seen_queue) /\ NoRepetition(seen_queue)
      /\ Len(seen_queue) \in Nat /\ Len(seen_queue) < SeenMax
      /\ SeenMax \in Nat /\ SeenMax >= 2
  <2>1. seen_queue \in Seq(STRING) /\ s.key \in STRING
    BY SignalFields DEF SeenType, SignalType
  <2>2. /\ seen_keys = KeysIn(seen_queue) /\ NoRepetition(seen_queue)
        /\ Len(seen_queue) < SeenMax
    BY DEF SeenConsistent, KeysIn, NoRepetition
  <2>3. Len(seen_queue) \in Nat /\ SeenMax \in Nat /\ SeenMax >= 2
    BY <2>1, PaperAssumption
  <2> QED BY <2>1, <2>2, <2>3
<1>2. /\ a \in Seq(STRING) /\ a # <<>> /\ Len(a) = Len(seen_queue) + 1
      /\ KeysIn(a) = seen_keys \cup {s.key}
      /\ NoRepetition(a)
  BY <1>1, AppendNewKey
<1>3. a = DequeAppend(seen_queue, s.key)
  BY <1>1 DEF DequeAppend
<1>4. IF Len(a) = SeenMax
      THEN seen_queue' = Tail(a) /\ seen_keys' = (seen_keys \cup {s.key}) \ {Head(a)}
      ELSE seen_queue' = a /\ seen_keys' = seen_keys \cup {s.key}
  <2> HIDE DEF a
  <2> QED BY <1>3 DEF Remember
<1> HIDE DEF a
<1>5. /\ Len(Tail(a)) = Len(a) - 1
      /\ KeysIn(Tail(a)) = KeysIn(a) \ {Head(a)}
      /\ NoRepetition(Tail(a))
  BY <1>2, TailForgetsHead
<1>6. /\ seen_keys' = KeysIn(seen_queue') /\ NoRepetition(seen_queue')
      /\ Len(seen_queue') < SeenMax
  <2>1. CASE Len(a) = SeenMax
    <3>1. seen_queue' = Tail(a) /\ seen_keys' = KeysIn(a) \ {Head(a)}
      BY <1>2, <1>4, <2>1
    <3>2. Len(Tail(a)) < SeenMax
      BY <1>1, <1>5, <2>1
    <3> QED BY <1>5, <3>1, <3>2
  <2>2. CASE Len(a) # SeenMax
    <3>1. seen_queue' = a /\ seen_keys' = KeysIn(a)
      BY <1>2, <1>4, <2>2
    <3>2. Len(a) < SeenMax
      BY <1>1, <1>2, <2>2
    <3> QED BY <1>2, <3>1, <3>2
  <2> QED BY <2>1, <2>2
<1> QED BY <1>4, <1>6 DEF SeenConsistent, KeysIn, NoRepetition

-----------------------------------------------------------------------------
(* Money and holdings.                                                     *)

Funds == Solvent /\ BuysArePaid /\ SellsAreHeld

\* An accepted order can be paid for, or is held.
LEMMA AcceptFunds ==
    ASSUME TypeOK, Funds, AcceptOrder
    PROVE  Funds'
<1> DEFINE s == order.signal
           qty == ActualQty(s)
<1>1. /\ sig_pc = "latency" /\ sig_pc' = "fill" /\ UNCHANGED <<positions, cash>>
      /\ order'.signal = s /\ order'.remaining = qty
      /\ ~Refused(s) /\ qty # Reject
  BY DEF AcceptOrder, memory_vars
<1>2. s \in Signals /\ s.strategy \in Strategy
  BY <1>1, SignalInHand, SignalFields
<1>3. /\ cash \in [Strategy -> Int] /\ positions \in [Account -> Nat]
      /\ cash[s.strategy] >= 0
  BY <1>2 DEF TypeOK, Funds, Solvent
<1> HIDE DEF s
<1>4. /\ IsBuy(s) => qty * UnitCost(s) <= cash[s.strategy]
      /\ ~IsBuy(s) => qty <= positions[AccountOf(s)]
  BY <1>1, <1>2, <1>3, AcceptedQuantity
<1> HIDE DEF qty
<1>5. Solvent'
  BY <1>1 DEF Funds, Solvent
<1>6. BuysArePaid'
  BY <1>1, <1>4 DEF BuysArePaid, IsBuy, UnitCost, FillPrice
<1>7. SellsAreHeld'
  BY <1>1, <1>4 DEF SellsAreHeld, IsBuy, AccountOf
<1> QED BY <1>5, <1>6, <1>7 DEF Funds

\* A part of a BUY is paid from what was set aside for it, a part of a SELL is taken
\* from what is held; what remains is paid for or held as before.
LEMMA FillFunds ==
    ASSUME TypeOK, Funds, NEW take \in Nat, FillPart(take)
    PROVE  Funds'
<1> DEFINE s == order.signal
           rest == order.remaining
           acc == AccountOf(s)
<1>1. sig_pc = "fill" /\ take \in Takes(order) /\ ApplyFill(s, take)
  BY DEF FillPart
<1>2. s \in Signals /\ s.strategy \in Strategy /\ acc \in Account
  BY <1>1, SignalInHand, SignalFields
<1>3. rest \in Nat /\ take <= rest
  BY <1>1, PartTaken, SignalInHand
<1>4. /\ cash \in [Strategy -> Int] /\ positions \in [Account -> Nat]
      /\ \A st \in Strategy : cash[st] >= 0
  BY DEF TypeOK, Funds, Solvent
<1>5. order'.signal = s /\ (sig_pc' = "fill" => order'.remaining = rest - take)
  <2>1. /\ order = [signal |-> s, remaining |-> rest, slots |-> order.slots,
                    pre_qty |-> order.pre_qty]
    BY <1>1, SignalInHand
  <2>2. \/ order' = [order EXCEPT !.remaining = @ - take, !.slots = @ - 1]
        \/ order' = [order EXCEPT !.remaining = 0, !.slots = 0] /\ sig_pc' = "pnl"
    BY DEF FillPart
  <2> QED BY <2>1, <2>2
<1> DEFINE cost == UnitCost(s)
           gain == take * FillPrice(s) * (100 - commission_percent)
<1>6. cost \in Nat /\ gain \in Nat
  BY <1>2, PricesAreNatural
<1>7. /\ positions' = [positions EXCEPT ![acc] =
                          PlusClamped(@, IF IsBuy(s) THEN take ELSE -take)]
      /\ cash' = [cash EXCEPT ![s.strategy] = IF IsBuy(s) THEN @ - take * cost ELSE @ + gain]
  BY <1>1 DEF ApplyFill
<1>8. CASE IsBuy(s)
  <2> DEFINE money == cash[s.strategy]
  <2>1. /\ rest * cost <= money /\ money \in Int
    BY <1>1, <1>2, <1>4, <1>8 DEF Funds, BuysArePaid
  <2>2. take * cost \in Nat /\ rest * cost \in Nat /\ take * cost <= rest * cost
    <3> HIDE DEF cost, rest
    <3> QED BY <1>3, <1>6, ProductGrows
  <2>3. (rest - take) * cost <= money - take * cost
    <3> HIDE DEF cost, rest, money
    <3> QED BY <1>3, <1>6, <2>1, RestIsPaid
  <2>4. cash' = [cash EXCEPT ![s.strategy] = money - take * cost]
    BY <1>7, <1>8
  <2>5. money - take * cost >= 0
    <3> HIDE DEF cost, rest, money
    <3> QED BY <2>1, <2>2
  <2>6. Solvent'
    <3> HIDE DEF s, cost, rest, money
    <3> QED BY <1>2, <1>4, <2>4, <2>5 DEF Solvent
  <2>7. cash'[s.strategy] = money - take * cost
    <3> HIDE DEF s, cost, rest, money
    <3> QED BY <1>2, <1>4, <2>4
  <2>8. BuysArePaid'
    <3>1. UnitCost(s)' = cost /\ UnitCost(order.signal)' = cost
      BY <1>5 DEF UnitCost, FillPrice, IsBuy
    <3> HIDE DEF s, cost, rest, money
    <3> QED BY <1>5, <2>3, <2>7, <3>1 DEF BuysArePaid
  <2>9. SellsAreHeld'
    BY <1>5, <1>8 DEF SellsAreHeld, IsBuy
  <2> QED BY <2>6, <2>8, <2>9 DEF Funds
<1>9. CASE ~IsBuy(s)
  <2> DEFINE held == positions[acc]
  <2>1. rest <= held /\ held \in Nat
    BY <1>1, <1>2, <1>4, <1>9 DEF Funds, SellsAreHeld
  <2>2. positions'[acc] = held - take
    <3>1. PlusClamped(held, -take) = held - take
      BY <1>3, <2>1 DEF PlusClamped
    <3> QED BY <1>2, <1>4, <1>7, <1>9, <3>1
  <2>3. Solvent'
    <3> HIDE DEF gain, s
    <3> QED BY <1>2, <1>4, <1>6, <1>7, <1>9 DEF Solvent
  <2>4. BuysArePaid'
    BY <1>5, <1>9 DEF BuysArePaid, IsBuy
  <2>5. SellsAreHeld'
    <3>1. AccountOf(order.signal)' = acc
      BY <1>5 DEF AccountOf
    <3> HIDE DEF rest, held, acc
    <3> QED BY <1>3, <1>5, <2>1, <2>2, <3>1 DEF SellsAreHeld
  <2> QED BY <2>3, <2>4, <2>5 DEF Funds
<1> QED BY <1>8, <1>9

\* The other steps neither spend nor sell, and start no fill.
LEMMA OtherFunds ==
    ASSUME Funds, UNCHANGED <<positions, cash>>,
           sig_pc' # "fill" \/ UNCHANGED <<sig_pc, order>>
    PROVE  Funds'
<1>1. Solvent'
  BY DEF Funds, Solvent
<1>2. CASE sig_pc' # "fill"
  BY <1>1, <1>2 DEF Funds, BuysArePaid, SellsAreHeld
<1>3. CASE UNCHANGED <<sig_pc, order>>
  BY <1>1, <1>3 DEF Funds, BuysArePaid, SellsAreHeld, IsBuy, UnitCost, FillPrice, AccountOf
<1> QED BY <1>2, <1>3

-----------------------------------------------------------------------------
(* What becomes of the signals.                                            *)

Outcomes == AdmissionFills /\ InHand /\ RememberedIsSettled /\ AcknowledgedHasOutcome

\* All outcomes are kept and the handler stays where it is, or forgets everything.
LEMMA KeptOutcomes ==
    ASSUME TypeOK, Outcomes, \A s \in Signals : OutcomeKept(s),
           \/ UNCHANGED <<seen_keys, sig_pc, order>>
           \/ sig_pc' = "idle" /\ seen_keys' = {}
    PROVE  Outcomes'
<1>1. AdmissionFills'
  BY DEF Outcomes, AdmissionFills, OutcomeKept
<1>2. AcknowledgedHasOutcome'
  <2>1. ASSUME NEW s \in Signals, outcome'[s].acked PROVE Settled(s)'
    <3>1. Settled(s)
      BY <2>1, AcknowledgedIsSettled DEF Outcomes, OutcomeKept
    <3> QED BY <3>1, SettledStays
  <2> QED BY <2>1, AcknowledgedIsSettled
<1>3. CASE UNCHANGED <<seen_keys, sig_pc, order>>
  <2>1. RememberedIsSettled'
    BY <1>3, SettledStays DEF Outcomes, RememberedIsSettled
  <2>2. InHand'
    <3>1. CASE sig_pc = "idle"
      BY <1>3, <3>1 DEF InHand
    <3>2. CASE sig_pc # "idle"
      <4> DEFINE s == order.signal
      <4>1. s \in Signals /\ OutcomeKept(s)
        BY <3>2, SignalInHand
      <4>2. /\ order' = order /\ sig_pc' = sig_pc
            /\ outcome'[s].acked = outcome[s].acked
            /\ outcome'[s].filled = outcome[s].filled
            /\ outcome[s].fate \subseteq outcome'[s].fate
        BY <1>3, <4>1 DEF OutcomeKept
      <4>3. Due(order.signal)' = Due(s)
        BY <4>2 DEF Due, Unfillable, IsCrossing, IsBuy
      <4> QED BY <4>2, <4>3 DEF Outcomes, InHand
    <3> QED BY <3>1, <3>2
  <2> QED BY <1>1, <1>2, <2>1, <2>2 DEF Outcomes
<1>4. CASE sig_pc' = "idle" /\ seen_keys' = {}
  <2>1. RememberedIsSettled' /\ InHand'
    BY <1>4 DEF RememberedIsSettled, InHand
  <2> QED BY <1>1, <1>2, <2>1 DEF Outcomes
<1> QED BY <1>3, <1>4

(***************************************************************************)
(* A step of the signal handler: it may change the outcome of the signal s *)
(* only, remembers at most its key, and leaves it in hand or settled.      *)
(***************************************************************************)
LEMMA HandledOutcomes ==
    ASSUME Outcomes, NEW s \in Signals,
           \A t \in Signals \ {s} : OutcomeKept(t),
           order.signal \in {s, None},
           seen_keys' \subseteq seen_keys \cup {s.key},
           outcome'[s].filled <= s.quantity,
           \/ order'.signal = s /\ ~outcome'[s].acked
           \/ Settled(s)'
    PROVE  AdmissionFills' /\ RememberedIsSettled' /\ AcknowledgedHasOutcome'
<1>1. AdmissionFills'
  <2>1. ASSUME NEW t \in Signals PROVE outcome'[t].filled <= t.quantity
    <3>1. CASE t = s
      BY <3>1
    <3>2. CASE t # s
      BY <3>2 DEF Outcomes, AdmissionFills, OutcomeKept
    <3> QED BY <3>1, <3>2
  <2> QED BY <2>1 DEF AdmissionFills
<1>2. ASSUME NEW t \in Signals \ {s}, Settled(t) PROVE Settled(t)'
  BY <1>2, SettledStays
<1>3. RememberedIsSettled'
  <2>1. ASSUME NEW t \in Signals, t.key \in seen_keys', t # order'.signal PROVE Settled(t)'
    <3>1. CASE t = s
      BY <2>1, <3>1
    <3>2. CASE t # s
      <4>1. t.key # s.key
        BY <3>2, PaperAssumption
      <4>2. t.key \in seen_keys /\ t # order.signal
        BY <2>1, <3>2, <4>1, SignalFields
      <4> QED BY <1>2, <3>2, <4>2 DEF Outcomes, RememberedIsSettled
    <3> QED BY <3>1, <3>2
  <2> QED BY <2>1 DEF RememberedIsSettled
<1>4. AcknowledgedHasOutcome'
  <2>1. ASSUME NEW t \in Signals, outcome'[t].acked PROVE Settled(t)'
    <3>1. CASE t = s
      BY <2>1, <3>1
    <3>2. CASE t # s
      BY <1>2, <2>1, <3>2, AcknowledgedIsSettled DEF Outcomes, OutcomeKept
    <3> QED BY <3>1, <3>2
  <2> QED BY <2>1, AcknowledgedIsSettled
<1> QED BY <1>1, <1>3, <1>4

\* A duplicate is acknowledged: its key is remembered, so it has an outcome.
LEMMA DuplicateOutcomes ==
    ASSUME TypeOK, Outcomes, NEW s \in Signals, IgnoreDuplicate(s)
    PROVE  Outcomes'
<1>1. /\ sig_pc = "idle" /\ s.key \in seen_keys
      /\ outcome' = Acknowledge(s)
      /\ UNCHANGED <<seen_keys, pending_stops, sig_pc, order>>
  BY DEF IgnoreDuplicate, Deliver, memory_vars
<1>2. order.signal = None /\ s # None
  BY <1>1, SignalFields DEF TypeOK
<1>3. Noted(s, TRUE, 0, {})
  BY <1>1, NotedAck
<1>4. Settled(s)
  BY <1>1, <1>2 DEF Outcomes, RememberedIsSettled
<1>5. outcome[s].filled \in Nat /\ outcome[s].filled <= s.quantity
  BY DEF TypeOK, Outcomes, AdmissionFills
<1>6. outcome'[s].filled = outcome[s].filled /\ outcome'[s].fate = outcome[s].fate
  BY <1>3, <1>5 DEF Noted
<1>7. Settled(s)'
  BY <1>1, <1>4, <1>6 DEF Settled, Due, Unfillable, IsCrossing, IsBuy
<1>8. \A t \in Signals \ {s} : OutcomeKept(t)
  BY <1>1, <1>3, NotedKeepsOthers
<1>9. InHand'
  BY <1>1 DEF InHand
<1> QED BY <1>1, <1>2, <1>5, <1>6, <1>7, <1>8, <1>9, HandledOutcomes DEF Outcomes

\* An admitted signal starts afresh.
LEMMA AdmitOutcomes ==
    ASSUME TypeOK, SeenConsistent, Outcomes, NEW s \in Signals, Admit(s)
    PROVE  Outcomes'
<1>1. /\ sig_pc = "idle" /\ s.key \notin seen_keys
      /\ Remember(s.key)
      /\ outcome' = [outcome EXCEPT ![s] = NoOutcome]
      /\ sig_pc' = "latency" /\ order' = [NoOrder EXCEPT !.signal = s]
      /\ UNCHANGED pending_stops
  BY DEF Admit, Deliver
<1>2. order.signal = None
  BY <1>1 DEF TypeOK
<1>3. order'.signal = s /\ order'.slots = 0
  BY <1>1 DEF NoOrder
<1>4. seen_keys' \subseteq seen_keys \cup {s.key}
  BY <1>1, TypeParts, RememberKeepsSeen
<1>5. ~outcome'[s].acked /\ outcome'[s].filled = 0
  BY <1>1 DEF TypeOK, NoOutcome
<1>6. \A t \in Signals \ {s} : OutcomeKept(t)
  BY <1>1 DEF TypeOK, OutcomeKept
<1>7. outcome'[s].filled <= s.quantity
  BY <1>5, SignalFields
<1>8. InHand'
  BY <1>1, <1>3, <1>5 DEF InHand
<1> QED BY <1>2, <1>3, <1>4, <1>5, <1>6, <1>7, <1>8, HandledOutcomes DEF Outcomes

\* The steps from the latency sleep to the acknowledgement.
LEMMA StepOutcomes ==
    ASSUME TypeOK, Funds, Outcomes, SignalStep
    PROVE  Outcomes'
<1>1. /\ sig_pc # "idle" /\ UNCHANGED seen_keys /\ pending_stops \subseteq pending_stops'
  BY DEF SignalStep, EnqueueStop, RejectOrder, AcceptOrder, FailOrder, FillPart,
         FillRaises, FinishSignal, memory_vars
<1>2. PICK s \in Signals : s = order.signal
  BY <1>1, SignalInHand
<1>3. /\ outcome[s].acked \in BOOLEAN /\ outcome[s].filled \in Nat
      /\ outcome[s].fate \in SUBSET Fate
      /\ outcome[s].filled <= s.quantity /\ s.quantity \in Nat
  BY <1>2, SignalFields DEF TypeOK, Outcomes, AdmissionFills
<1>4. /\ ~outcome[s].acked
      /\ sig_pc \in {"latency", "fail"} => outcome[s].filled = 0
      /\ sig_pc = "fill" => outcome[s].filled + order.remaining \in Due(s)
      /\ sig_pc = "pnl" => "executed" \in outcome[s].fate /\ outcome[s].filled \in Due(s)
  BY <1>1, <1>2 DEF Outcomes, InHand
\* The handler goes on with the signal.
<1>5. ASSUME order'.signal = s, sig_pc' # "idle", ~outcome'[s].acked,
             outcome'[s].filled <= s.quantity,
             \A t \in Signals \ {s} : OutcomeKept(t),
             sig_pc' \in {"latency", "fail"} => order'.slots = 0 /\ outcome'[s].filled = 0,
             sig_pc' = "fill" => outcome'[s].filled + order'.remaining \in Due(s),
             sig_pc' = "pnl" => "executed" \in outcome'[s].fate /\ outcome'[s].filled \in Due(s)
      PROVE  Outcomes'
  <2>1. AdmissionFills' /\ RememberedIsSettled' /\ AcknowledgedHasOutcome'
    BY <1>1, <1>2, <1>5, HandledOutcomes
  <2>2. Due(order.signal)' = Due(s)
    BY <1>5 DEF Due, Unfillable, IsCrossing, IsBuy
  <2>3. InHand'
    <3> QED BY <1>5, <2>2 DEF InHand
  <2> QED BY <2>1, <2>3 DEF Outcomes
\* The handler is done with the signal.
<1>6. ASSUME NEW acked, NEW n, NEW fate, Noted(s, acked, n, fate), sig_pc' = "idle",
             outcome'[s].filled <= s.quantity, Settled(s)'
      PROVE  Outcomes'
  <2>1. \A t \in Signals \ {s} : OutcomeKept(t)
    BY <1>1, <1>6, NotedKeepsOthers
  <2>2. AdmissionFills' /\ RememberedIsSettled' /\ AcknowledgedHasOutcome'
    BY <1>1, <1>2, <1>6, <2>1, HandledOutcomes
  <2>3. InHand'
    BY <1>6 DEF InHand
  <2> QED BY <2>2, <2>3 DEF Outcomes
<1>7. CASE EnqueueStop
  <2>1. /\ s \in pending_stops' /\ sig_pc' = "idle"
        /\ outcome' = [outcome EXCEPT ![s].acked = TRUE, ![s].fate = @ \cup {"pending"}]
    BY <1>2, <1>7 DEF EnqueueStop
  <2>2. Noted(s, TRUE, 0, {"pending"})
    <3>1. {"pending"} \in SUBSET Fate
      BY DEF Fate
    <3> QED BY <1>2, <2>1, <3>1, NotedAck
  <2>3. outcome'[s].filled = outcome[s].filled /\ "pending" \in outcome'[s].fate
    BY <1>3, <2>2 DEF Noted
  <2>4. Settled(s)'
    BY <2>1, <2>3 DEF Settled
  <2> QED BY <1>3, <1>6, <2>1, <2>2, <2>3, <2>4
<1>8. CASE RejectOrder
  <2>1. UNCHANGED <<outcome, order, pending_stops>> /\ sig_pc = "latency" /\ sig_pc' = "fail"
    BY <1>8 DEF RejectOrder, memory_vars
  <2>2. order.slots = 0
    BY <2>1 DEF Outcomes, InHand
  <2>3. \A t \in Signals \ {s} : OutcomeKept(t)
    BY <2>1 DEF OutcomeKept
  <2> QED BY <1>2, <1>3, <1>4, <1>5, <2>1, <2>2, <2>3
<1>9. CASE AcceptOrder
  <2> DEFINE qty == ActualQty(s)
  <2>1. /\ UNCHANGED <<outcome, pending_stops>> /\ sig_pc = "latency" /\ sig_pc' = "fill"
        /\ order'.signal = s /\ order'.remaining = qty
        /\ ~Refused(s) /\ qty # Reject
    BY <1>2, <1>9 DEF AcceptOrder, memory_vars
  <2>2. qty \in Nat /\ qty \in Due(s)
    <3>1. /\ cash \in [Strategy -> Int] /\ positions \in [Account -> Nat]
          /\ cash[s.strategy] >= 0
      BY <1>2, SignalFields DEF TypeOK, Funds, Solvent
    <3> QED BY <1>2, <2>1, <3>1, AcceptedQuantity
  <2>3. \A t \in Signals \ {s} : OutcomeKept(t)
    BY <2>1 DEF OutcomeKept
  <2>4. outcome'[s].filled + order'.remaining = qty
    <3> HIDE DEF qty
    <3> QED BY <1>3, <1>4, <2>1, <2>2
  <2> HIDE DEF qty
  <2> QED BY <1>3, <1>4, <1>5, <2>1, <2>2, <2>3, <2>4
<1>10. CASE FailOrder
  <2>1. PICK fate \in {"failed", "send_error"} :
          outcome' = [outcome EXCEPT ![s].acked = TRUE, ![s].fate = @ \cup {fate}]
    BY <1>2, <1>10 DEF FailOrder
  <2>2. Noted(s, TRUE, 0, {fate})
    <3>1. {fate} \in SUBSET Fate
      BY DEF Fate
    <3> QED BY <1>2, <2>1, <3>1, NotedAck
  <2>3. sig_pc = "fail" /\ sig_pc' = "idle"
    BY <1>10 DEF FailOrder
  <2>4. outcome'[s].filled = 0 /\ fate \in outcome'[s].fate
    BY <1>3, <1>4, <2>2, <2>3 DEF Noted
  <2>5. Settled(s)'
    BY <2>4 DEF Settled
  <2>6. outcome'[s].filled <= s.quantity
    BY <1>3, <2>4
  <2> QED BY <1>6, <2>2, <2>3, <2>5, <2>6
<1>11. CASE FinishSignal
  <2>1. sig_pc = "pnl" /\ sig_pc' = "idle" /\ outcome' = Acknowledge(s)
    BY <1>2, <1>11 DEF FinishSignal
  <2>2. Noted(s, TRUE, 0, {})
    BY <1>2, <2>1, NotedAck
  <2>3. outcome'[s].filled = outcome[s].filled /\ outcome'[s].fate = outcome[s].fate
    BY <1>3, <2>2 DEF Noted
  <2>4. Settled(s)'
    BY <1>4, <2>1, <2>3 DEF Settled, Due, Unfillable, IsCrossing, IsBuy
  <2> QED BY <1>3, <1>6, <2>1, <2>2, <2>3, <2>4
<1>12. ASSUME NEW take \in 0..order.remaining, FillPart(take)
       PROVE  Outcomes'
  <2>1. sig_pc = "fill" /\ take \in Takes(order)
    BY <1>12 DEF FillPart
  <2>2. /\ take \in Nat /\ take <= order.remaining /\ order.remaining \in Nat
        /\ ~(order.slots > 1) => take = order.remaining
    BY <2>1, PartTaken, SignalInHand
  <2>3. order = [signal |-> s, remaining |-> order.remaining, slots |-> order.slots,
                 pre_qty |-> order.pre_qty]
    BY <1>1, <1>2, SignalInHand
  <2>4. /\ outcome[s].filled + order.remaining \in Due(s)
        /\ outcome[s].filled + order.remaining <= s.quantity
    BY <1>2, <1>4, <2>1, DueIsWithinSignal
  <2>5. CASE order.slots > 1
    <3>1. /\ order' = [order EXCEPT !.remaining = @ - take, !.slots = @ - 1]
          /\ outcome' = [outcome EXCEPT ![s].filled = @ + take]
          /\ sig_pc' = "fill"
      BY <1>2, <1>12, <2>1, <2>5 DEF FillPart
    <3>2. Noted(s, outcome[s].acked, take, {})
      BY <1>2, <2>2, <3>1, NotedFill
    <3>3. order'.signal = s /\ order'.remaining = order.remaining - take
      BY <2>3, <3>1
    <3>4. outcome'[s].acked = outcome[s].acked /\ outcome'[s].filled = outcome[s].filled + take
      BY <3>2 DEF Noted
    <3>5. \A t \in Signals \ {s} : OutcomeKept(t)
      BY <1>1, <3>2, NotedKeepsOthers
    <3>6. /\ outcome'[s].filled <= s.quantity
          /\ outcome'[s].filled + order'.remaining = outcome[s].filled + order.remaining
      BY <1>3, <2>2, <2>4, <3>3, <3>4
    <3> QED BY <1>4, <1>5, <2>4, <3>1, <3>3, <3>4, <3>5, <3>6
  <2>6. CASE ~(order.slots > 1)
    <3>1. /\ order' = [order EXCEPT !.remaining = 0, !.slots = 0]
          /\ outcome' = [outcome EXCEPT ![s].filled = @ + take,
                                        ![s].fate = @ \cup {"executed"}]
          /\ sig_pc' = "pnl"
      BY <1>2, <1>12, <2>6 DEF FillPart
    <3>2. Noted(s, outcome[s].acked, take, {"executed"})
      <4>1. {"executed"} \in SUBSET Fate
        BY DEF Fate
      <4> QED BY <1>2, <2>2, <3>1, <4>1, NotedFill
    <3>3. order'.signal = s
      BY <2>3, <3>1
    <3>4. /\ outcome'[s].acked = outcome[s].acked
          /\ outcome'[s].filled = outcome[s].filled + order.remaining
          /\ "executed" \in outcome'[s].fate
      BY <2>2, <2>6, <3>2 DEF Noted
    <3>5. \A t \in Signals \ {s} : OutcomeKept(t)
      BY <1>1, <3>2, NotedKeepsOthers
    <3> QED BY <1>4, <1>5, <2>4, <3>1, <3>3, <3>4, <3>5
  <2> QED BY <2>5, <2>6
<1>13. ASSUME NEW take \in 0..order.remaining, FillRaises(take)
       PROVE  Outcomes'
  <2>1. /\ sig_pc = "fill" /\ take \in Takes(order) /\ sig_pc' = "idle"
        /\ \/ outcome' = [outcome EXCEPT ![s].filled = @ + take,
                                         ![s].fate = @ \cup {"send_error"}]
           \/ outcome' = [outcome EXCEPT ![s].fate = @ \cup {"send_error"}]
    BY <1>2, <1>13 DEF FillRaises
  <2>2. take \in Nat /\ take <= order.remaining /\ order.remaining \in Nat
    BY <2>1, PartTaken, SignalInHand
  <2>3. outcome[s].filled + order.remaining <= s.quantity
    BY <1>2, <1>4, <2>1, DueIsWithinSignal
  <2>4. PICK n \in {0, take} : Noted(s, outcome[s].acked, n, {"send_error"})
    <3>1. {"send_error"} \in SUBSET Fate
      BY DEF Fate
    <3> QED BY <1>2, <2>1, <2>2, <3>1, NotedFill
  <2>5. outcome'[s].filled = outcome[s].filled + n /\ "send_error" \in outcome'[s].fate
    BY <2>4 DEF Noted
  <2>6. outcome'[s].filled <= s.quantity
    BY <1>3, <2>2, <2>3, <2>5
  <2>7. Settled(s)'
    BY <2>5 DEF Settled
  <2> QED BY <1>6, <2>1, <2>4, <2>6, <2>7
<1> QED BY <1>7, <1>8, <1>9, <1>10, <1>11, <1>12, <1>13 DEF SignalStep

-----------------------------------------------------------------------------
(* The theorems.                                                           *)

\* The service starts with an empty memory, and nothing has become of any signal.
LEMMA InitInv == Init => PaperInv
<1> SUFFICES ASSUME Init PROVE PaperInv
  OBVIOUS
<1>1. /\ seen_keys = {} /\ seen_queue = <<>>
      /\ positions = [a \in Account |-> 0]
      /\ cash = [st \in Strategy |-> starting_cash]
      /\ sig_pc = "idle" /\ order = NoOrder /\ tick_pc = "idle" /\ tick = IdleTick
      /\ outcome = [s \in Signals |-> NoOutcome]
  BY DEF Init
<1>2. TypeOK
  <2>1. order \in OrderType /\ order.signal = None /\ order.slots = 0
    BY <1>1 DEF NoOrder, OrderType
  <2>2. tick \in TickType
    BY <1>1 DEF IdleTick, TickType
  <2>3. outcome \in [Signals -> [acked : BOOLEAN, filled : Nat, fate : SUBSET Fate]]
    BY <1>1 DEF NoOutcome
  <2> QED BY <1>1, <2>1, <2>2, <2>3, PaperAssumption DEF Init, TypeOK
<1>3. SeenConsistent
  BY <1>1, PaperAssumption DEF SeenConsistent
<1>4. Solvent
  <2>1. \A st \in Strategy : cash[st] = starting_cash
    BY <1>1
  <2>2. starting_cash >= 0
    BY PaperAssumption
  <2> QED BY <2>1, <2>2 DEF Solvent
<1>5. BuysArePaid /\ SellsAreHeld /\ InHand
  BY <1>1 DEF BuysArePaid, SellsAreHeld, InHand
<1>6. AdmissionFills
  BY <1>1, SignalFields DEF AdmissionFills, NoOutcome
<1>7. RememberedIsSettled
  BY <1>1 DEF RememberedIsSettled
<1>8. AcknowledgedHasOutcome
  <2>1. \A s \in Signals : outcome[s].acked = FALSE
    BY <1>1 DEF NoOutcome
  <2> QED BY <2>1 DEF AcknowledgedHasOutcome
<1> QED BY <1>2, <1>3, <1>4, <1>5, <1>6, <1>7, <1>8 DEF PaperInv

\* Every step of either loop, and a crash, keeps the invariant.
LEMMA StepInv == PaperInv /\ [Next]_vars => PaperInv'
<1> SUFFICES ASSUME PaperInv, [Next]_vars PROVE PaperInv'
  OBVIOUS
<1>1. TypeOK /\ SeenConsistent /\ Funds /\ Outcomes
  BY DEF PaperInv, Funds, Outcomes
<1>2. ASSUME TypeOK', SeenConsistent', Funds', Outcomes' PROVE PaperInv'
  BY <1>2 DEF PaperInv, Funds, Outcomes
<1>3. ASSUME UNCHANGED <<seen_keys, seen_queue, lapses>> PROVE SeenConsistent'
  BY <1>1, <1>3 DEF SeenConsistent
<1>4. ASSUME NEW s \in Signals, IgnoreDuplicate(s) PROVE PaperInv'
  <2>1. UNCHANGED <<seen_keys, seen_queue, lapses, positions, cash, sig_pc, order>>
    BY <1>4 DEF IgnoreDuplicate, memory_vars
  <2>2. TypeOK'
    BY <1>1, <1>4, SignalTypes DEF Funds
  <2>3. Funds'
    BY <1>1, <2>1, OtherFunds
  <2>4. Outcomes'
    BY <1>1, <1>4, DuplicateOutcomes
  <2> QED BY <1>2, <1>3, <2>1, <2>2, <2>3, <2>4
<1>5. ASSUME NEW s \in Signals, Admit(s) PROVE PaperInv'
  <2>1. /\ UNCHANGED <<positions, cash>> /\ sig_pc' = "latency"
        /\ s.key \notin seen_keys /\ Remember(s.key)
    BY <1>5 DEF Admit
  <2>2. TypeOK'
    BY <1>1, <1>5, SignalTypes DEF Funds
  <2>3. SeenConsistent'
    BY <1>1, <2>1, TypeParts, RememberKeepsSeen
  <2>4. Funds'
    BY <1>1, <2>1, OtherFunds
  <2>5. Outcomes'
    BY <1>1, <1>5, AdmitOutcomes
  <2> QED BY <1>2, <2>2, <2>3, <2>4, <2>5
<1>6. ASSUME SignalStep PROVE PaperInv'
  <2>1. UNCHANGED <<seen_keys, seen_queue, lapses>>
    BY <1>6 DEF SignalStep, EnqueueStop, RejectOrder, AcceptOrder, FailOrder, FillPart,
                FillRaises, FinishSignal, memory_vars
  <2>2. TypeOK'
    BY <1>1, <1>6, SignalTypes DEF Funds
  <2>3. Funds'
    <3>1. ASSUME NEW take \in 0..order.remaining, FillPart(take) PROVE Funds'
      <4>1. sig_pc = "fill" /\ take \in Takes(order)
        BY <3>1 DEF FillPart
      <4> QED BY <1>1, <3>1, <4>1, PartTaken, FillFunds
    <3>2. CASE EnqueueStop \/ RejectOrder \/ FailOrder \/ FinishSignal
                 \/ \E take \in 0..order.remaining : FillRaises(take)
      <4>1. UNCHANGED <<positions, cash>> /\ sig_pc' # "fill"
        BY <3>2 DEF EnqueueStop, RejectOrder, FailOrder, FinishSignal, FillRaises, memory_vars
      <4> QED BY <1>1, <4>1, OtherFunds
    <3> QED BY <1>1, <1>6, <3>1, <3>2, AcceptFunds DEF SignalStep
  <2>4. Outcomes'
    BY <1>1, <1>6, StepOutcomes
  <2> QED BY <1>2, <1>3, <2>1, <2>2, <2>3, <2>4
<1>7. ASSUME ExitBracket \/ \E inst \in Instrument, price \in TickPrice : Tick(inst, price)
      PROVE  PaperInv'
  <2>1. /\ TypeOK' /\ \A s \in Signals : OutcomeKept(s)
        /\ UNCHANGED <<seen_keys, seen_queue, lapses, positions, cash, sig_pc, order>>
    BY <1>1, <1>7, TickTypes
  <2>2. Funds' /\ Outcomes'
    BY <1>1, <2>1, OtherFunds, KeptOutcomes
  <2> QED BY <1>2, <1>3, <2>1, <2>2
<1>8. ASSUME Crash PROVE PaperInv'
  <2>1. /\ seen_keys' = {} /\ seen_queue' = <<>> /\ sig_pc' = "idle"
        /\ cash' = [st \in Strategy |-> starting_cash]
    BY <1>8 DEF Crash, FreshMemory
  <2>2. SeenConsistent'
    BY <2>1, PaperAssumption DEF SeenConsistent
  <2>3. Funds'
    BY <2>1, PaperAssumption DEF Funds, Solvent, BuysArePaid, SellsAreHeld
  <2>4. Outcomes'
    BY <1>1, <1>8, <2>1, CrashOutcomes, KeptOutcomes
  <2> QED BY <1>1, <1>2, <1>8, <2>2, <2>3, <2>4, CrashTypes
<1>9. ASSUME UNCHANGED vars PROVE PaperInv'
  <2>1. UNCHANGED <<seen_keys, seen_queue, lapses, positions, cash, brackets, pending_stops, sig_pc,
                    order, tick_pc, tick, outcome, bought, sold, total, deliveries, ticks, crashes>>
    BY <1>9 DEF vars, memory_vars, bound_vars
  <2>2. TypeOK'
    BY <1>1, <2>1 DEF TypeOK
  <2>3. \A s \in Signals : OutcomeKept(s)
    BY <2>1 DEF OutcomeKept
  <2>4. Funds' /\ Outcomes'
    BY <1>1, <2>1, <2>3, OtherFunds, KeptOutcomes
  <2> QED BY <1>2, <1>3, <2>1, <2>2, <2>4
<1> QED BY <1>4, <1>5, <1>6, <1>7, <1>8, <1>9 DEF Next

\* The invariant holds in all reachable states.
LEMMA InvHolds == Spec => []PaperInv
<1> QED BY InitInv, StepInv, PTL DEF Spec

\* Types, and the split of an order into partial fills: every part that is still to
\* come has at least one unit, whatever the quantity and max_partials.
THEOREM TypesHold == Spec => []TypeOK
<1>1. PaperInv => TypeOK
  BY DEF PaperInv
<1> QED BY <1>1, InvHolds, PTL

(***************************************************************************)
(* _seen_keys and _seen_queue hold the same keys, each once, and the deque *)
(* never reaches its maxlen between two signals, for every maxlen from 2.  *)
(***************************************************************************)
THEOREM SeenIsConsistent == Spec => []SeenConsistent
<1>1. PaperInv => SeenConsistent
  BY DEF PaperInv
<1> QED BY <1>1, InvHolds, PTL

(***************************************************************************)
(* Cash never becomes negative, although a BUY is checked once and paid in *)
(* parts between which the service awaits, for all prices, slippages and   *)
(* commissions below 100 percent.                                          *)
(***************************************************************************)
THEOREM StaysSolvent == Spec => []Solvent
<1>1. PaperInv => Solvent
  BY DEF PaperInv
<1> QED BY <1>1, InvHolds, PTL

(***************************************************************************)
(* The rest of a SELL is held at every await: the clamp in                 *)
(* _apply_fill_to_portfolio never cuts.                                    *)
(***************************************************************************)
THEOREM SellsStayHeld == Spec => []SellsAreHeld
<1>1. PaperInv => SellsAreHeld
  BY DEF PaperInv
<1> QED BY <1>1, InvHolds, PTL

(***************************************************************************)
(* An acknowledged signal, a duplicate that is ignored at sight included,  *)
(* was executed with the quantity due, failed without a fill, still waits  *)
(* as a stop, or one of the named losses is recorded for it.               *)
(***************************************************************************)
THEOREM OutcomesAreKnown == Spec => []AcknowledgedHasOutcome
<1>1. PaperInv => AcknowledgedHasOutcome
  BY DEF PaperInv
<1> QED BY <1>1, InvHolds, PTL

-----------------------------------------------------------------------------
(* The fills of a signal over all its admissions.  FillsWithinSignal is    *)
(* not inductive: how much the current admission has published counts as   *)
(* long as its key is remembered, and the signal in hand is remembered.    *)

Current(s) == IF s.key \in seen_keys THEN outcome[s].filled ELSE 0

InHandIsRemembered == sig_pc # "idle" => order.signal.key \in seen_keys

TotalsAccounted == \A s \in Signals : total[s] <= s.quantity * lapses[s] + Current(s)

Lifetime == InHandIsRemembered /\ TotalsAccounted

\* What a lost key lets be published once more.
LEMMA OneMoreLapse ==
    ASSUME NEW q \in Nat, NEW l \in Nat, NEW t \in Nat, NEW f \in Nat, t <= q * l + f, f <= q
    PROVE  q * l \in Nat /\ t <= q * (l + 1) + 0
OBVIOUS

\* The quantities of the account of one signal.
LEMMA AccountedTypes ==
    ASSUME PaperInv, NEW s \in Signals
    PROVE  /\ s.quantity \in Nat /\ lapses[s] \in Nat /\ total[s] \in Nat
           /\ outcome[s].filled \in Nat /\ outcome[s].filled <= s.quantity
           /\ s.quantity * lapses[s] \in Nat /\ Current(s) \in Nat
<1>1. /\ lapses[s] \in Nat /\ total[s] \in Nat
      /\ outcome[s].filled \in Nat /\ outcome[s].filled <= s.quantity
  BY DEF PaperInv, TypeOK, AdmissionFills
<1>2. s.quantity \in Nat
  BY SignalFields
<1> QED BY <1>1, <1>2 DEF Current

\* Nothing is published, and the memory stays.
LEMMA QuietLifetime ==
    ASSUME Lifetime, UNCHANGED <<seen_keys, lapses, total>>,
           \A s \in Signals : outcome'[s].filled = outcome[s].filled,
           sig_pc' # "idle" => sig_pc # "idle" /\ order'.signal = order.signal
    PROVE  Lifetime'
<1>1. InHandIsRemembered'
  BY DEF Lifetime, InHandIsRemembered
<1>2. \A s \in Signals : Current(s)' = Current(s)
  BY DEF Current
<1>3. TotalsAccounted'
  BY <1>2 DEF Lifetime, TotalsAccounted
<1> QED BY <1>1, <1>3 DEF Lifetime

\* A part of the signal in hand is published.
LEMMA FillLifetime ==
    ASSUME PaperInv, PaperInv', Lifetime, NEW s \in Signals, NEW take \in Nat,
           sig_pc # "idle", s = order.signal, Publish(s, take),
           UNCHANGED <<seen_keys, lapses>>,
           outcome'[s].filled = outcome[s].filled + take,
           \A t \in Signals \ {s} : outcome'[t] = outcome[t],
           sig_pc' # "idle" => order'.signal = s
    PROVE  Lifetime'
<1>1. s.key \in seen_keys
  BY DEF Lifetime, InHandIsRemembered
<1>2. InHandIsRemembered'
  BY <1>1 DEF InHandIsRemembered
<1>3. total \in [Signals -> Nat] /\ total' = [total EXCEPT ![s] = @ + take]
  BY DEF PaperInv, TypeOK, Publish
<1>4. ASSUME NEW t \in Signals
      PROVE  total'[t] <= t.quantity * lapses'[t] + Current(t)'
  <2>1. /\ total[t] <= t.quantity * lapses[t] + Current(t)
        /\ t.quantity * lapses[t] \in Nat /\ Current(t) \in Nat /\ total[t] \in Nat
    BY AccountedTypes DEF Lifetime, TotalsAccounted
  <2>2. CASE t = s
    <3>1. total'[t] = total[t] + take
      BY <1>3, <2>2
    <3>2. Current(t)' = Current(t) + take
      BY <1>1, <2>2 DEF Current
    <3>3. t.quantity * lapses'[t] = t.quantity * lapses[t]
      OBVIOUS
    <3> HIDE DEF Current
    <3> QED BY <2>1, <3>1, <3>2, <3>3
  <2>3. CASE t # s
    <3>1. total'[t] = total[t] /\ Current(t)' = Current(t)
      BY <1>3, <2>3 DEF Current
    <3> QED BY <2>1, <3>1
  <2> QED BY <2>2, <2>3
<1> QED BY <1>2, <1>4 DEF Lifetime, TotalsAccounted

\* The keys in lost leave the memory; every other signal's account stays.
LEMMA LapseLifetime ==
    ASSUME PaperInv, TotalsAccounted, NEW lost, Lapse(lost), lost \subseteq seen_keys,
           UNCHANGED total, NEW s \in Signals,
           s.key \in lost => s.key \notin seen_keys',
           s.key \notin lost => Current(s)' = Current(s)
    PROVE  total'[s] <= s.quantity * lapses'[s] + Current(s)'
<1>1. /\ s.quantity \in Nat /\ lapses[s] \in Nat /\ total[s] \in Nat
      /\ outcome[s].filled \in Nat /\ outcome[s].filled <= s.quantity
  BY AccountedTypes
<1>2. total[s] <= s.quantity * lapses[s] + Current(s)
  BY DEF TotalsAccounted
<1>3. CASE s.key \in lost
  <2>1. lapses'[s] = lapses[s] + 1
    BY <1>3 DEF Lapse
  <2>2. Current(s) = outcome[s].filled /\ Current(s)' = 0
    BY <1>3 DEF Current
  <2>3. total[s] <= s.quantity * (lapses[s] + 1) + 0
    <3>1. total[s] <= s.quantity * lapses[s] + outcome[s].filled
      BY <1>2, <2>2
    <3> QED BY <1>1, <3>1, OneMoreLapse
  <2> QED BY <2>1, <2>2, <2>3
<1>4. CASE s.key \notin lost
  <2>1. lapses'[s] = lapses[s] /\ Current(s)' = Current(s)
    BY <1>4 DEF Lapse
  <2> QED BY <1>2, <2>1
<1> QED BY <1>3, <1>4

\* A signal is admitted: its key is new, and the oldest may leave.
LEMMA AdmitLifetime ==
    ASSUME PaperInv, Lifetime, NEW s \in Signals, Admit(s)
    PROVE  Lifetime'
<1>1. /\ s.key \notin seen_keys /\ Remember(s.key)
      /\ outcome' = [outcome EXCEPT ![s] = NoOutcome]
      /\ order' = [NoOrder EXCEPT !.signal = s] /\ total' = total
  BY DEF Admit
<1>2. order'.signal = s
  BY <1>1 DEF NoOrder
<1>3. outcome'[s].filled = 0 /\ \A t \in Signals \ {s} : outcome'[t] = outcome[t]
  BY <1>1 DEF PaperInv, TypeOK, NoOutcome
<1>4. \A t \in Signals : t # s => t.key # s.key
  BY PaperAssumption
<1> DEFINE q == DequeAppend(seen_queue, s.key)
<1>5. CASE Len(q) # SeenMax
  <2>1. seen_keys' = seen_keys \cup {s.key} /\ lapses' = lapses
    BY <1>1, <1>5 DEF Remember
  <2>2. \A t \in Signals : Current(t)' = Current(t)
    BY <1>1, <1>3, <1>4, <2>1 DEF Current
  <2>3. TotalsAccounted'
    BY <1>1, <2>1, <2>2 DEF Lifetime, TotalsAccounted
  <2> QED BY <1>2, <2>1, <2>3 DEF Lifetime, InHandIsRemembered
<1>6. CASE Len(q) = SeenMax
  <2>1. /\ seen_keys' = (seen_keys \cup {s.key}) \ {Head(q)} /\ Lapse({Head(q)})
    BY <1>1, <1>6 DEF Remember
  <2>2. Head(q) \in seen_keys
    <3>1. /\ seen_queue \in Seq(STRING) /\ s.key \in STRING /\ Len(seen_queue) \in Nat
          /\ Len(seen_queue) < SeenMax /\ SeenMax \in Nat /\ SeenMax >= 2
      BY SignalFields, PaperAssumption DEF PaperInv, TypeOK, SeenConsistent, SignalType
    <3>2. q = Append(seen_queue, s.key)
      BY <3>1 DEF DequeAppend
    <3>3. Len(seen_queue) >= 1 /\ Head(q) = q[1] /\ q[1] = seen_queue[1]
      BY <1>6, <3>1, <3>2
    <3> QED BY <3>1, <3>3 DEF PaperInv, SeenConsistent
  <2>3. s.key \in seen_keys'
    BY <1>1, <2>1, <2>2
  <2>4. InHandIsRemembered'
    BY <1>2, <2>3 DEF InHandIsRemembered
  <2> HIDE DEF q
  <2>5. ASSUME NEW t \in Signals
        PROVE  total'[t] <= t.quantity * lapses'[t] + Current(t)'
    <3>1. t.key \in {Head(q)} => t.key \notin seen_keys'
      BY <2>1
    <3>2. t.key \notin {Head(q)} => Current(t)' = Current(t)
      BY <1>1, <1>3, <1>4, <2>1 DEF Current
    <3> QED BY <1>1, <2>1, <2>2, <3>1, <3>2, LapseLifetime DEF Lifetime
  <2> QED BY <2>4, <2>5 DEF Lifetime, TotalsAccounted
<1> QED BY <1>5, <1>6

\* Every step keeps the accounts of the signals.
LEMMA StepLifetime == PaperInv /\ PaperInv' /\ Lifetime /\ [Next]_vars => Lifetime'
<1> SUFFICES ASSUME PaperInv, PaperInv', Lifetime, [Next]_vars PROVE Lifetime'
  OBVIOUS
<1>0. TypeOK
  BY DEF PaperInv
<1>1. ASSUME NEW s \in Signals, IgnoreDuplicate(s) PROVE Lifetime'
  <2>1. /\ UNCHANGED <<seen_keys, lapses, total, sig_pc, order>> /\ outcome' = Acknowledge(s)
    BY <1>1 DEF IgnoreDuplicate, memory_vars
  <2>2. Noted(s, TRUE, 0, {})
    BY <1>0, <2>1, NotedAck
  <2>3. \A t \in Signals : outcome'[t].filled = outcome[t].filled
    BY <1>0, <2>2, AccountedTypes DEF Noted
  <2> QED BY <2>1, <2>3, QuietLifetime
<1>2. ASSUME SignalStep PROVE Lifetime'
  <2>1. sig_pc # "idle" /\ UNCHANGED <<seen_keys, lapses>>
    BY <1>2 DEF SignalStep, EnqueueStop, RejectOrder, AcceptOrder, FailOrder, FillPart,
                FillRaises, FinishSignal, memory_vars
  <2>2. PICK s \in Signals : s = order.signal
    BY <1>0, <2>1, SignalInHand
  <2>3. outcome[s].filled \in Nat
    BY AccountedTypes
  <2>4. ASSUME NEW acked, NEW fate, Noted(s, acked, 0, fate), UNCHANGED total, sig_pc' = "idle"
        PROVE  Lifetime'
    <3>1. \A t \in Signals : outcome'[t].filled = outcome[t].filled
      BY <2>3, <2>4 DEF Noted
    <3> QED BY <2>1, <2>4, <3>1, QuietLifetime
  <2>5. CASE EnqueueStop \/ FailOrder
    <3>1. PICK fate \in {"pending", "failed", "send_error"} :
            outcome' = [outcome EXCEPT ![s].acked = TRUE, ![s].fate = @ \cup {fate}]
      BY <2>2, <2>5 DEF EnqueueStop, FailOrder
    <3>2. {fate} \in SUBSET Fate
      BY DEF Fate
    <3>3. Noted(s, TRUE, 0, {fate})
      BY <1>0, <3>1, <3>2, NotedAck
    <3>4. UNCHANGED total /\ sig_pc' = "idle"
      BY <2>5 DEF EnqueueStop, FailOrder
    <3> QED BY <2>4, <3>3, <3>4
  <2>6. CASE FinishSignal
    <3>1. outcome' = Acknowledge(s) /\ UNCHANGED total /\ sig_pc' = "idle"
      BY <2>2, <2>6 DEF FinishSignal
    <3> QED BY <1>0, <2>4, <3>1, NotedAck
  <2>7. CASE RejectOrder \/ AcceptOrder
    <3>1. /\ UNCHANGED <<outcome, total>> /\ order'.signal = order.signal
      BY <2>7 DEF RejectOrder, AcceptOrder
    <3> QED BY <2>1, <3>1, QuietLifetime
  <2>8. ASSUME NEW take \in 0..order.remaining, FillPart(take) PROVE Lifetime'
    <3>1. sig_pc = "fill" /\ take \in Takes(order) /\ Publish(s, take)
      BY <2>2, <2>8 DEF FillPart
    <3>2. take \in Nat
      BY <1>0, <3>1, PartTaken
    <3>3. PICK fate \in SUBSET Fate : Noted(s, outcome[s].acked, take, fate)
      <4>1. \/ outcome' = [outcome EXCEPT ![s].filled = @ + take]
            \/ outcome' = [outcome EXCEPT ![s].filled = @ + take, ![s].fate = @ \cup {"executed"}]
        BY <2>2, <2>8 DEF FillPart
      <4>2. {"executed"} \in SUBSET Fate /\ {} \in SUBSET Fate
        BY DEF Fate
      <4> QED BY <1>0, <3>2, <4>1, <4>2, NotedFill
    <3>4. order'.signal = s
      <4>1. order \in OrderType
        BY <1>0 DEF TypeOK
      <4>2. \/ order' = [order EXCEPT !.remaining = @ - take, !.slots = @ - 1]
            \/ order' = [order EXCEPT !.remaining = 0, !.slots = 0]
        BY <2>8 DEF FillPart
      <4> QED BY <2>2, <4>1, <4>2 DEF OrderType
    <3> QED BY <2>1, <2>2, <3>1, <3>2, <3>3, <3>4, FillLifetime DEF Noted
  <2>9. ASSUME NEW take \in 0..order.remaining, FillRaises(take) PROVE Lifetime'
    <3>1. /\ sig_pc = "fill" /\ take \in Takes(order) /\ sig_pc' = "idle"
          /\ \/ /\ Publish(s, take)
                /\ outcome' = [outcome EXCEPT ![s].filled = @ + take,
                                              ![s].fate = @ \cup {"send_error"}]
             \/ /\ UNCHANGED total
                /\ outcome' = [outcome EXCEPT ![s].fate = @ \cup {"send_error"}]
      BY <2>2, <2>9 DEF FillRaises
    <3>2. take \in Nat /\ {"send_error"} \in SUBSET Fate
      BY <1>0, <3>1, PartTaken DEF Fate
    <3>3. CASE /\ UNCHANGED total
               /\ outcome' = [outcome EXCEPT ![s].fate = @ \cup {"send_error"}]
      BY <1>0, <2>4, <3>1, <3>2, <3>3, NotedFill
    <3>4. CASE /\ Publish(s, take)
               /\ outcome' = [outcome EXCEPT ![s].filled = @ + take,
                                             ![s].fate = @ \cup {"send_error"}]
      <4>1. Noted(s, outcome[s].acked, take, {"send_error"})
        BY <1>0, <3>2, <3>4, NotedFill
      <4> QED BY <2>1, <2>2, <3>1, <3>2, <3>4, <4>1, FillLifetime DEF Noted
    <3> QED BY <3>1, <3>3, <3>4
  <2> QED BY <1>2, <2>5, <2>6, <2>7, <2>8, <2>9 DEF SignalStep
<1>3. ASSUME ExitBracket \/ \E inst \in Instrument, price \in TickPrice : Tick(inst, price)
      PROVE  Lifetime'
  <2>1. /\ \A s \in Signals : OutcomeKept(s)
        /\ UNCHANGED <<seen_keys, sig_pc, order>>
    BY <1>0, <1>3, TickTypes
  <2>2. UNCHANGED <<lapses, total>>
    BY <1>3 DEF ExitBracket, Tick
  <2> QED BY <2>1, <2>2, QuietLifetime DEF OutcomeKept
<1>4. ASSUME Crash PROVE Lifetime'
  <2>1. /\ Lapse(seen_keys) /\ UNCHANGED total /\ seen_keys' = {} /\ sig_pc' = "idle"
    BY <1>4 DEF Crash, FreshMemory
  <2>2. ASSUME NEW s \in Signals
        PROVE  total'[s] <= s.quantity * lapses'[s] + Current(s)'
    <3>1. s.key \in seen_keys => s.key \notin seen_keys'
      BY <2>1
    <3>2. s.key \notin seen_keys => Current(s)' = Current(s)
      BY <2>1 DEF Current
    <3> QED BY <2>1, <3>1, <3>2, LapseLifetime DEF Lifetime
  <2> QED BY <2>1, <2>2 DEF Lifetime, TotalsAccounted, InHandIsRemembered
<1>5. CASE UNCHANGED vars
  <2>1. UNCHANGED <<seen_keys, lapses, total, outcome, sig_pc, order>>
    BY <1>5 DEF vars, memory_vars
  <2> QED BY <2>1, QuietLifetime
<1> QED BY <1>1, <1>2, <1>3, <1>4, <1>5, AdmitLifetime DEF Next

(***************************************************************************)
(* Over all its admissions a signal publishes fills for at most its        *)
(* quantity, and as much again only for each time its key was evicted or   *)
(* the process restarted.                                                  *)
(***************************************************************************)
THEOREM FillsStayWithinSignal == Spec => []FillsWithinSignal
<1>1. Init => Lifetime
  <2> SUFFICES ASSUME Init PROVE Lifetime
    OBVIOUS
  <2>1. sig_pc = "idle" /\ seen_keys = {}
    BY DEF Init
  <2>2. \A s \in Signals : total[s] = 0 /\ lapses[s] = 0 /\ Current(s) = 0
    BY <2>1 DEF Init, Current
  <2>3. \A s \in Signals : s.quantity \in Nat
    BY SignalFields
  <2> QED BY <2>1, <2>2, <2>3 DEF Lifetime, InHandIsRemembered, TotalsAccounted
<1>2. PaperInv /\ Lifetime => FillsWithinSignal
  <2> SUFFICES ASSUME PaperInv, Lifetime, NEW s \in Signals
               PROVE  total[s] <= s.quantity * (1 + lapses[s])
    BY DEF FillsWithinSignal
  <2>1. /\ s.quantity \in Nat /\ lapses[s] \in Nat /\ total[s] \in Nat
        /\ outcome[s].filled \in Nat /\ outcome[s].filled <= s.quantity
        /\ Current(s) \in Nat
    BY AccountedTypes
  <2>2. Current(s) <= s.quantity
    BY <2>1 DEF Current
  <2>3. total[s] <= s.quantity * lapses[s] + Current(s)
    BY DEF Lifetime, TotalsAccounted
  <2>4. total[s] <= s.quantity * (lapses[s] + 1) + 0
    <3> HIDE DEF Current
    <3> QED BY <2>1, <2>2, <2>3, OneMoreLapse
  <2>5. lapses[s] + 1 = 1 + lapses[s] /\ s.quantity * (lapses[s] + 1) \in Nat
    BY <2>1
  <2> QED BY <2>4, <2>5
<1> QED BY <1>1, <1>2, InvHolds, StepLifetime, PTL DEF Spec

=============================================================================
