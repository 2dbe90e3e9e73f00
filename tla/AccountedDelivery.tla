-------------------------- MODULE AccountedDelivery --------------------------
(***************************************************************************)
(* What the streaming layer promises a service about one partition: the    *)
(* group's committed offset moves only over messages that have an outcome, *)
(* and outcomes are never taken back.  A message is handled, put in the    *)
(* dead letter topic, skipped as a duplicate, or abandoned by its error    *)
(* handling; the implementation is ReliabilityLayer, whose crashes, stops, *)
(* rebalances and failing remote calls are invisible here.                 *)
(***************************************************************************)
EXTENDS Naturals

CONSTANT Messages   \* the numbers messages of the partition may get

Outcome == {"handled", "dead_letter", "duplicate", "abandoned"}

VARIABLES
    published,   \* how many messages the partition holds
    outcomes,    \* the outcomes each message has had
    offset       \* the committed offset

delivery_vars == <<published, outcomes, offset>>

DeliveryInit ==
    /\ published = 0
    /\ outcomes = [m \in Messages |-> {}]
    /\ offset = 0

Arrive ==
    /\ published' = published + 1
    /\ UNCHANGED <<outcomes, offset>>

Resolve(m, outcome) ==
    /\ m <= published
    /\ outcomes' = [outcomes EXCEPT ![m] = @ \cup {outcome}]
    /\ UNCHANGED <<published, offset>>

\* The offset may also move back: a redelivered message commits its own offset.
MoveOffset(next) ==
    /\ next <= published
    /\ \A m \in Messages : m <= next => outcomes[m] # {}
    /\ offset' = next
    /\ UNCHANGED <<published, outcomes>>

DeliveryNext ==
    \/ Arrive
    \/ \E m \in Messages, outcome \in Outcome : Resolve(m, outcome)
    \/ \E next \in Messages : MoveOffset(next)

DeliverySpec == DeliveryInit /\ [][DeliveryNext]_delivery_vars

=============================================================================
