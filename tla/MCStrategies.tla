---------------------------- MODULE MCStrategies ----------------------------
(***************************************************************************)
(* Strategies with the windows of the shipped configurations scaled down,  *)
(* the policies and the number of instruments as shipped: only             *)
(* ml_mean_reversion watches two.  There are two ticks more than the       *)
(* longest history, four, so that a tick of the other instrument and an    *)
(* eviction come before signals of every rule.                             *)
(***************************************************************************)
EXTENDS Strategies

CONSTANTS i1, i2

ShippedInstruments ==
    [s \in Strategy |-> IF s = "ml_mean_reversion" THEN {i1, i2} ELSE {i1}]

TickPrices == [i \in Instrument |-> IF i = i1 THEN {0, 10, 12} ELSE {11}]

SomePredictions ==
    {[class |-> "BUY", sure |-> "very"], [class |-> "SELL", sure |-> "no"]}

ShippedPolicies ==
    [s \in Hybrid |-> IF s = "hybrid_momentum" THEN "majority_vote" ELSE "conservative"]

=============================================================================
