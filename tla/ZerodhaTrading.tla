--------------------------- MODULE ZerodhaTrading ---------------------------
(***************************************************************************)
(* services/zerodha_trading/service.py: every validated signal of the      *)
(* zerodha topic becomes an order event and a PnL snapshot.  The service   *)
(* keeps no memory of what it has handled: a delivery whose acknowledgement*)
(* failed is submitted again.  A failing send and a payload that cannot be *)
(* read are only logged, and the signal is acknowledged without an order.  *)
(***************************************************************************)
EXTENDS SignalTopics

VARIABLES
    zerodha_job,     \* the validated signal being handled, 0 when idle
    zerodha_acked,   \* validated signals acknowledged
    submitted        \* zerodha.orders.submitted: the validated signal of each

zerodha_vars == <<zerodha_job, zerodha_acked, submitted>>

ZerodhaTypeOK ==
    /\ zerodha_job \in Nat
    /\ zerodha_acked \subseteq Positive
    /\ submitted \in Seq(Positive)

ZerodhaInit ==
    /\ zerodha_job = 0
    /\ zerodha_acked = {}
    /\ submitted = <<>>

TakeValidated(j) ==
    /\ zerodha_job = 0
    /\ j \in DOMAIN validated["zerodha"] \ zerodha_acked
    /\ zerodha_job' = j

\* _handle_validated_signal up to the snapshot, which nothing here depends on.
PlaceOrder(j) ==
    /\ TakeValidated(j)
    /\ submitted' = Append(submitted, j)
    /\ UNCHANGED <<zerodha_acked, topic_vars, faults, crashes>>

\* The send raises, stored or not, and is logged: the handler goes on.
PlaceOrderUnsent(j) ==
    /\ TakeValidated(j)
    /\ Fault
    /\ submitted' \in {submitted, Append(submitted, j)}
    /\ UNCHANGED <<zerodha_acked, topic_vars, crashes>>

\* The payload makes no ValidatedSignal, as one of another version of the
\* schema would: logged, and the handler returns.
DiscardInvalid(j) ==
    /\ TakeValidated(j)
    /\ Fault
    /\ UNCHANGED <<submitted, zerodha_acked, topic_vars, crashes>>

\* Mutant of ZerodhaReturn: the offset of a handled message is never committed.
ZerodhaReturnUncommitted ==
    /\ zerodha_job # 0
    /\ zerodha_job' = 0
    /\ UNCHANGED <<zerodha_acked, submitted, topic_vars, faults, crashes>>

ZerodhaReturn ==
    /\ zerodha_job # 0
    /\ zerodha_acked' = zerodha_acked \cup {zerodha_job}
    /\ zerodha_job' = 0
    /\ UNCHANGED <<submitted, topic_vars, faults, crashes>>

\* The handler returned but marking or committing its message raised.
ZerodhaUnacknowledged ==
    /\ zerodha_job # 0
    /\ Fault
    /\ zerodha_job' = 0
    /\ UNCHANGED <<zerodha_acked, submitted, topic_vars, crashes>>

ZerodhaRestart ==
    /\ zerodha_job' = 0
    /\ UNCHANGED <<zerodha_acked, submitted>>

ZerodhaNext ==
    \/ \E j \in DOMAIN validated["zerodha"] :
         PlaceOrder(j) \/ PlaceOrderUnsent(j) \/ DiscardInvalid(j)
    \/ ZerodhaReturn
    \/ ZerodhaUnacknowledged

=============================================================================
