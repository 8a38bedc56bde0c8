-------------------------------- MODULE MCIntake --------------------------------
(***************************************************************************)
(* Two tokens on both chains with the limits of config.json.  On Solana    *)
(* one of them may rise, alone or above a dull one, below the liquidity    *)
(* filter, or under a row without a 1-minute volume; on Robinhood its      *)
(* hourly volume is there from the start or jumps between polls.  The      *)
(* windows lie within a day or over midnight, and the clock is put forward *)
(* or back by more than the quiet sleep.                                   *)
(***************************************************************************)
EXTENDS Intake

CONSTANTS up, dull

ChainSettings ==
    [solana |->
        [scan_interval |-> 2, alive_within |-> 1, filters |-> [liquidity |-> 8000],
         min_age |-> 3, rvol_1m_min |-> <<3, 2>>, rvol_5m_min |-> <<3, 1>>,
         trade_1m_count_min |-> 8, trade_5m_count_min |-> 25, price_change_1m_min |-> -8,
         price_change_5m_min |-> 4, price_change_5m_max |-> 60, price_change_1h_max |-> 150,
         wash_turnover |-> 2, wash_change |-> 3, impact_eff_min_percentile |-> 40,
         holder_growth_min |-> 3],
     robinhood |->
        [scan_interval |-> 3, alive_within |-> 3, filters |-> [liquidity |-> 4000],
         min_age |-> 3, prev_dt |-> <<1, 5>>, rvol_dt_min |-> <<4, 1>>, d_trades_min |-> 8,
         fallback_vol_1h_chg_min |-> 2000, fallback_trade_1h_count_min |-> 50,
         price_change_1h_min |-> 10, price_change_1h_max |-> 150, wash_turnover |-> 2,
         wash_change |-> 3, vol_1h_min |-> 5000, fallback_price_change_1h_max |-> 80]]

Item(address) ==
    [address |-> address, liquidity |-> 10000, listing_ts |-> None, holder |-> 40,
     vol_1m |-> None, vol_5m |-> None, vol_30m |-> None, vol_1h |-> 6000, vol_1h_chg |-> 0,
     tr_1m |-> None, tr_5m |-> None, tr_1h |-> 40, pc_1m |-> None, pc_5m |-> None, pc_1h |-> 12]

Rising == [Item(up) EXCEPT !.vol_1m = 900, !.vol_5m = 3000, !.vol_30m = 6000, !.vol_1h = 8000,
                           !.tr_1m = 10, !.tr_5m = 30, !.pc_1m = 2, !.pc_5m = 10, !.holder = 50]
Dull   == [Item(dull) EXCEPT !.vol_1m = 100, !.vol_5m = 500, !.vol_30m = 3000, !.vol_1h = 6000,
                             !.tr_1m = 2, !.tr_5m = 9, !.pc_1m = 0, !.pc_5m = 1]

Jumped  == [Item(up) EXCEPT !.vol_1h = 9000, !.tr_1h = 60, !.pc_1h = 20]
Entered == [Jumped EXCEPT !.vol_1h_chg = 2500]

TokenPages ==
    [solana    |-> {<<Rising, Dull>>, <<[Dull EXCEPT !.vol_1m = None], Rising>>,
                    <<Rising, [Dull EXCEPT !.liquidity = 7999]>>},
     robinhood |-> {<<Item(up), Item(dull)>>, <<Jumped, Jumped>>, <<Entered>>}]

QuietTimes ==
    {[start |-> 3, end |-> 6, mode |-> "off", slow |-> 0, shift |-> 2],
     [start |-> 8, end |-> 2, mode |-> "off", slow |-> 0, shift |-> -2],
     [start |-> 1, end |-> 6, mode |-> "slow", slow |-> 4, shift |-> 0]}
=============================================================================
