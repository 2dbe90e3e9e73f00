---------------------------- MODULE MCTickQueue ----------------------------
(***************************************************************************)
(* Instances of TickQueue: a queue of two, and ticks enough to fill it     *)
(* while one is being sent and another waits for room.                     *)
(***************************************************************************)
EXTENDS TickQueue

=============================================================================
