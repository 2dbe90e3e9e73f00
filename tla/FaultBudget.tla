---------------------------- MODULE FaultBudget ----------------------------
(***************************************************************************)
(* The bound on failures: every call of Kafka, Redis, the database or      *)
(* Zerodha may raise, at most MaxFaults times in a behaviour.              *)
(***************************************************************************)
EXTENDS Naturals

CONSTANT MaxFaults

ASSUME FaultsAssumption == MaxFaults \in Nat

VARIABLE faults

\* Something that is awaited raises.
Fault ==
    /\ faults < MaxFaults
    /\ faults' = faults + 1

=============================================================================
