------------------------------ MODULE MCDecisions ------------------------------
(***************************************************************************)
(* Weights and limits are those of config.json.  The inputs are tapes of   *)
(* full participation that differ in structure and age: above 75 points,   *)
(* at Solana's bar to the point, and within the margin below it.  The RPC  *)
(* and Birdeye each have a token to pass and one to fail or cap, and what   *)
(* one passes the other does not: a decision is CONFIRMED when the token   *)
(* changes between their answers, or when a failed answer caps nothing.    *)
(* Balances are large enough to show a tax.                                *)
(***************************************************************************)
EXTENDS Decisions

Weights == [participation |-> 30, orderflow |-> 25, efficiency |-> 15, structure |-> 15,
            holder_growth |-> 10, safety |-> 5]
Lows == [buyers |-> 500, ratio |-> 100, new_wallet |-> 15, ofi |-> 0, efficiency |-> 40,
         holder_growth |-> 0]
Fulls == [buyers |-> 1500, ratio |-> 130, new_wallet |-> 40, ofi |-> 50, efficiency |-> 100,
          holder_growth |-> 300]
Bars == [solana |-> 60, robinhood |-> 55]

SolanaLimits == [top10 |-> 35, top10_bonus |-> 20, dev |-> 10, dev_bonus |-> 3, insider |-> 10,
                 bundler |-> 15, bundler_bonus |-> 5, sniper |-> 20, smart |-> 1, holders |-> 30]

Mint == [mint_authority |-> FALSE, freeze_authority |-> FALSE, token2022 |-> TRUE, risky |-> FALSE]
Profile == [top10 |-> 15, holders |-> 100, dev |-> 2, insider |-> None, bundler |-> 2,
            sniper |-> None, smart |-> 2]
Token == [sell |-> 0, buy |-> 0, transfer |-> 0, frozen |-> {}]
Balances == [holder |-> 40000, pool |-> 80000, fresh |-> 0, fresh2 |-> 0]

OnSolana(mint, profile) == [rpc |-> mint, birdeye |-> profile]
OnRobinhood(token, bal, owner, top10) ==
    [rpc |-> [token |-> token, bal |-> bal, owner |-> owner], birdeye |-> top10]

TokenWorlds ==
    [solana |-> {OnSolana(Mint, [Profile EXCEPT !.bundler = 15]),
                 OnSolana([Mint EXCEPT !.mint_authority = TRUE], Profile)},
     robinhood |-> {OnRobinhood(Token, Balances, "none", 36),
                    OnRobinhood([Token EXCEPT !.sell = 6, !.buy = 5],
                                [Balances EXCEPT !.holder = 0], "active", 5)}]

Tape(structs, age) ==
    [as_of |-> 1000, anchor_ts |-> 1000 - age,
     ofi30 |-> [buyers |-> 15, buyer_seller_ratio |-> <<3, 2>>, new_wallet_share |-> <<1, 2>>,
                ofi |-> <<1, 2>>],
     recent |-> [ofi |-> <<1, 5>>],
     above_avwap |-> structs > 0, clv |-> structs > 1, higher_lows |-> structs > 2]

Input(structs, age, pct, vetoes) ==
    [f |-> Tape(structs, age), vetoes |-> vetoes, fallback |-> None,
     s1 |-> [eff_5m_pct |-> <<pct, 100>>, holder_growth_pct |-> None]]

TapeInputs ==
    {Input(3, 360, 100, {}), Input(0, 100, 0, {}), Input(3, 361, 0, {}), Input(1, 30, 0, {"WASH"})}
=============================================================================
