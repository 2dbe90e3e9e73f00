-------------------------- MODULE MCFeedConnection --------------------------
(***************************************************************************)
(* Instances of FeedConnection: five tickers are enough for a current      *)
(* one, one still dialling and one being closed.                           *)
(***************************************************************************)
EXTENDS FeedConnection

=============================================================================
