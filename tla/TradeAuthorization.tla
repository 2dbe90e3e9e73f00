------------------------- MODULE TradeAuthorization -------------------------
(***************************************************************************)
(* What the signal pipeline promises, whatever is retried, redelivered or  *)
(* lost on the way: an order reaches a broker only for a signal that a     *)
(* strategy of that broker has asked for and that has been authorised for  *)
(* that broker, and no authorised signal exceeds the position limit.       *)
(***************************************************************************)
CONSTANTS
    Broker,
    Signal,
    RouteOf(_),      \* the broker a signal's strategy trades with
    SizeAllowed(_)   \* whether a signal is within the position limit

VARIABLES
    requested,    \* signals asked for, per broker
    authorised,   \* signals that passed the risk rules, per broker
    ordered       \* signals an order was placed for, per broker

vars == <<requested, authorised, ordered>>

Init ==
    /\ requested = [b \in Broker |-> {}]
    /\ authorised = [b \in Broker |-> {}]
    /\ ordered = [b \in Broker |-> {}]

Request(s) ==
    /\ requested' = [requested EXCEPT ![RouteOf(s)] = @ \cup {s}]
    /\ UNCHANGED <<authorised, ordered>>

Authorise(b, s) ==
    /\ s \in requested[b]
    /\ SizeAllowed(s)
    /\ authorised' = [authorised EXCEPT ![b] = @ \cup {s}]
    /\ UNCHANGED <<requested, ordered>>

Order(b, s) ==
    /\ s \in authorised[b]
    /\ ordered' = [ordered EXCEPT ![b] = @ \cup {s}]
    /\ UNCHANGED <<requested, authorised>>

Next ==
    \/ \E s \in Signal : Request(s)
    \/ \E b \in Broker, s \in Signal : Authorise(b, s) \/ Order(b, s)

Spec == Init /\ [][Next]_vars

=============================================================================
