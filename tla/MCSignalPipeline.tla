-------------------------- MODULE MCSignalPipeline --------------------------
(***************************************************************************)
(* Instances of SignalPipeline: one strategy per broker, both watching the *)
(* one instrument; the band of 10 percent separates the two tick prices,   *)
(* and the larger quantity exceeds the position limit.                     *)
(***************************************************************************)
EXTENDS SignalPipeline

WatchAll == [s \in Strategy |-> Instrument]

=============================================================================
