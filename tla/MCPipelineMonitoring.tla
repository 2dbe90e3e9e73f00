------------------------ MODULE MCPipelineMonitoring ------------------------
(***************************************************************************)
(* Two brokers, one of which does not trade, from Friday's pre-open        *)
(* session until after the market has closed.                              *)
(***************************************************************************)
EXTENDS PipelineMonitoring

Brokers == <<"paper", "zerodha">>
Counts == [b \in {"paper", "zerodha"} |-> 1]
PreOpen == [start |-> 0, end |-> 0]
Regular == [start |-> 0, end |-> 1]
Lunch == [start |-> 1, end |-> 1]

=============================================================================
