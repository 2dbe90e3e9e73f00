----------------------- MODULE MCApplicationLifecycle -----------------------
(***************************************************************************)
(* Instances of ApplicationLifecycle: the streaming services of a paper    *)
(* setup, with the zerodha service created but not enabled.                *)
(***************************************************************************)
EXTENDS ApplicationLifecycle

Services == {"strategy_runner", "risk_manager", "paper_trading", "zerodha_trading"}
AllServices == <<"strategy_runner", "risk_manager", "paper_trading", "zerodha_trading">>
PaperServices == <<"strategy_runner", "risk_manager", "paper_trading">>

=============================================================================
