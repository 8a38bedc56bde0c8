------------------------------- MODULE MCWash --------------------------------
(***************************************************************************)
(* The thresholds are those of config.json; windows are two to four trades *)
(* long and concentrations look at one wallet.  Two wallets trade, one     *)
(* sell has no wallet, one trade has no price.                             *)
(***************************************************************************)
EXTENDS Wash

Trade(side, wallet, usd, price) ==
    [ts |-> 0, side |-> side, wallet |-> wallet, usd |-> usd, price |-> price,
     amount |-> IF price = None THEN 0 ELSE usd \div price]

TradeKinds ==
    {Trade("buy", "a", 2, 1), Trade("buy", "b", 6, 2), Trade("sell", "a", 6, 2),
     Trade("sell", "b", 4, 1), Trade("sell", None, 4, None)}

WashWeights ==
    [roundtrip |-> 35, top |-> 25, uniform |-> 15, count_trap |-> 15, churn |-> 10]
WashLo == [roundtrip |-> 10, top |-> 30, uniform |-> 55, churn |-> 150]
WashHi == [roundtrip |-> 50, top |-> 80, uniform |-> 90, churn |-> 400]
Band == <<90, 110>>
=============================================================================
