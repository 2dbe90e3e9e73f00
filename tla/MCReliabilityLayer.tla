------------------------- MODULE MCReliabilityLayer -------------------------
(***************************************************************************)
(* Instances of ReliabilityLayer.  The exceptions cover the branches of    *)
(* handle_processing_error: poison, a structured error that is not         *)
(* retryable, and a retryable one whose own max_retries lowers the limit   *)
(* of its class, so that one redelivery already exhausts it.               *)
(***************************************************************************)
EXTENDS ReliabilityLayer

Poison == [type |-> "POISON", retryable |-> TRUE, max_retries |-> 9]
StrategyFailure == [type |-> "BUSINESS", retryable |-> FALSE, max_retries |-> 9]
BriefOutage == [type |-> "TRANSIENT", retryable |-> TRUE, max_retries |-> 1]
CommitFailed == [type |-> "TRANSIENT", retryable |-> TRUE, max_retries |-> 9]

AnyHandlerError == {Poison, StrategyFailure, BriefOutage}
RetryableHandlerError == {BriefOutage}
AnyClientError == {CommitFailed}

=============================================================================
