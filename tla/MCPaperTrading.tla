--------------------------- MODULE MCPaperTrading ---------------------------
(***************************************************************************)
(* Instances of PaperTrading.  Signals are the base order with a few       *)
(* fields changed; prices are chosen so that the starting cash pays for    *)
(* two units at 10 but not three, and ticks at 9, 10 and 12 cross the stop *)
(* loss, nothing and the take profit of an entry at 10.                    *)
(***************************************************************************)
EXTENDS PaperTrading

CONSTANTS st1, st2, i1

Base ==
    [key |-> "base", strategy |-> st1, instrument |-> i1, side |-> "BUY",
     order_type |-> "market", tif |-> "DAY", quantity |-> 2, price |-> 10,
     limit_price |-> None, stop_price |-> None, bracket |-> FALSE,
     take_profit_pct |-> 0, stop_loss_pct |-> 0, allowed |-> TRUE]

BuyTwo == [Base EXCEPT !.key = "buy", !.bracket = TRUE, !.take_profit_pct = 5, !.stop_loss_pct = 5]
BuyOther == [BuyTwo EXCEPT !.key = "other", !.strategy = st2, !.quantity = 1]
BuyFok == [Base EXCEPT !.key = "fok", !.tif = "FOK", !.quantity = 3, !.price = 5]
BuyIoc == [Base EXCEPT !.key = "ioc", !.tif = "IOC", !.quantity = 4]
BuyBarred == [Base EXCEPT !.key = "barred", !.allowed = FALSE]
SellTwo == [Base EXCEPT !.key = "sell", !.side = "SELL"]
SellIoc == [Base EXCEPT !.key = "sell_ioc", !.side = "SELL", !.tif = "IOC", !.quantity = 3]
LimitLow == [Base EXCEPT !.key = "limit", !.order_type = "limit", !.limit_price = 9]
StopLoss == [Base EXCEPT !.key = "stop", !.side = "SELL", !.order_type = "stop", !.stop_price = 9]
StopLimit == [Base EXCEPT !.key = "stop_limit", !.order_type = "stop_limit",
                          !.stop_price = 10, !.limit_price = 9]

OrderKinds == {BuyTwo, BuyFok, BuyIoc, BuyBarred, SellTwo, SellIoc, LimitLow, StopLoss, StopLimit}
AllOrders == OrderKinds \cup {BuyOther}
BracketedBuyAndSell == {BuyTwo, SellTwo}

=============================================================================
