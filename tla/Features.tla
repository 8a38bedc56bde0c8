------------------------------- MODULE Features -------------------------------
(***************************************************************************)
(* The features of a token's tape: window statistics, the ignition anchor  *)
(* and the bars since it, as scanner/features.py computes them.  A tape is *)
(* a sequence of trades in the order compute() sorts them into; as_of is   *)
(* the time of the newest one.  Ratios are pairs <<numerator, denominator>>*)
(* and thresholds on them percentages.                                     *)
(***************************************************************************)
EXTENDS Absent, Integers, Sequences, FiniteSets, FiniteSetsExt

CONSTANTS
    IgnitionWindow,  \* ignition_window_trades
    OfiWindow,       \* ofi_window_trades
    RecentWindow,    \* recent_window_trades
    WashWindow,      \* wash_window_trades, and window_trades of the wash settings
    MaxAge,          \* window_max_age_s
    MinWindow,       \* min_window_trades
    RateMult,        \* anchor_rate_mult
    MinBuyers,       \* anchor_min_buyers
    TrailingS,       \* anchor_trailing_s
    MinTrailing,     \* anchor_min_trailing_s
    Lookback,        \* anchor_lookback_s
    BarTrades,       \* bar_trades
    MaxBars          \* max_bars

ASSUME FeaturesAssumption ==
    /\ {IgnitionWindow, OfiWindow, RecentWindow, WashWindow, BarTrades, MaxBars} \subseteq Nat \ {0}
    /\ {MaxAge, MinWindow, RateMult, MinBuyers, TrailingS, MinTrailing, Lookback} \subseteq Nat

-----------------------------------------------------------------------------
AtLeast(ratio, percent) == ratio # None /\ ratio[1] * 100 >= percent * ratio[2]

Larger(a, b) == IF a >= b THEN a ELSE b

Usd(tape, I) == SumFunction([i \in I |-> tape[i].usd])

Side(tape, I, side) == {i \in I : tape[i].side = side}

Wallets(tape, I) == {tape[i].wallet : i \in I} \ {None}

Prices(tape, I) == {tape[i].price : i \in {j \in I : tape[j].price # None}}

AsOf(tape) == tape[Len(tape)].ts

-----------------------------------------------------------------------------
(* Windows *)

LastN(tape, n, maxAge) ==
    {i \in DOMAIN tape : i > Len(tape) - n /\ tape[i].ts >= AsOf(tape) - maxAge}

WindowStats(tape, I) ==
    LET buys  == Side(tape, I, "buy")
        sells == Side(tape, I, "sell")
        prior == Wallets(tape, {j \in DOMAIN tape : \A i \in I : j < i})
        new   == {i \in buys : tape[i].wallet \notin prior \cup {None}}
        total == Usd(tape, I)
        known == Cardinality(I) >= MinWindow /\ total > 0
        nb    == Cardinality(Wallets(tape, buys))
        ns    == Cardinality(Wallets(tape, sells))
    IN [n |-> Cardinality(I),
        ofi |-> IF known THEN <<Usd(tape, buys) - Usd(tape, sells), total>> ELSE None,
        buyers |-> nb,
        \* Infinity is 99, the most a score looks at.
        buyer_seller_ratio |-> IF ns > 0 THEN <<nb, ns>> ELSE IF nb > 0 THEN <<99, 1>> ELSE None,
        new_wallet_share |-> IF known THEN <<Usd(tape, new), Larger(1, Usd(tape, buys))>> ELSE None]

-----------------------------------------------------------------------------
(* The anchor: index and onset window *)

WindowStart(i) == i - IgnitionWindow + 1

\* Mutated forms of definitions below.
FromTheStart(tape, ws) == 1

\* The trailing window of an onset that starts at ws begins at this index.
TrailingFrom(tape, ws) ==
    Min({j \in 1 .. ws : j = ws \/ tape[j].ts >= tape[ws].ts - TrailingS})

TrailingTrades(tape, i) == TrailingFrom(tape, WindowStart(i)) .. WindowStart(i) - 1

TrailingDur(tape, i) ==
    LET ws == WindowStart(i)
    IN tape[ws].ts - Larger(tape[1].ts, tape[ws].ts - TrailingS)

\* win_rate >= mult * trailing_rate, the divisions multiplied out.
RateJumps(tape, i) ==
    LET ws  == WindowStart(i)
        win == Usd(tape, ws .. i)
        old == Usd(tape, TrailingTrades(tape, i))
        dur == Larger(1, tape[i].ts - tape[ws].ts)
    IN IF old = 0 THEN win > 0
       ELSE win * TrailingDur(tape, i) >= RateMult * old * dur

IsOnset(tape, i) ==
    /\ i >= IgnitionWindow
    /\ TrailingDur(tape, i) >= MinTrailing
    /\ TrailingTrades(tape, i) # {}
    /\ RateJumps(tape, i)
    /\ Cardinality(Wallets(tape, Side(tape, WindowStart(i) .. i, "buy"))) >= MinBuyers

FindAnchor(tape) ==
    LET on == {i \in IgnitionWindow .. Len(tape) :
                  tape[i].ts >= AsOf(tape) - Lookback /\ IsOnset(tape, i)}
    IN IF Len(tape) <= IgnitionWindow \/ on = {} THEN None ELSE Min(on)

-----------------------------------------------------------------------------
(* Structure since the anchor *)

Chunk(tape, from, k) ==
    {i \in DOMAIN tape : /\ from + k * BarTrades <= i
                         /\ i < from + (k + 1) * BarTrades
                         /\ tape[i].price # None}

Thin(tape, from, k) == Cardinality(Chunk(tape, from, k)) < Larger(2, BarTrades \div 2)

\* A chunk that the tape cuts short is a bar if it has prices enough.
BarOf(tape, from, k) ==
    LET I   == Chunk(tape, from, k)
        end == from + (k + 1) * BarTrades - 1
    IN [i_end |-> IF end <= Len(tape) THEN end ELSE Len(tape),
        open |-> tape[Min(I)].price, close |-> tape[Max(I)].price,
        high |-> Max(Prices(tape, I)), low |-> Min(Prices(tape, I)), usd |-> Usd(tape, I)]

\* Mutated form of the definition below.
OldestBars(tape, from) ==
    LET n == Min({k \in 0 .. Len(tape) : Thin(tape, from, k)})
        m == IF n <= MaxBars THEN n ELSE MaxBars
    IN [k \in 1 .. m |-> BarOf(tape, from, k - 1)]

\* The first thin chunk ends the bars, wherever it is; the last MaxBars stay.
MakeBars(tape, from) ==
    LET n == Min({k \in 0 .. Len(tape) : Thin(tape, from, k)})
        m == IF n <= MaxBars THEN n ELSE MaxBars
    IN [k \in 1 .. m |-> BarOf(tape, from, n - m + k - 1)]

StructureFrom(tape) ==
    IF FindAnchor(tape) # None THEN WindowStart(FindAnchor(tape))
    ELSE Larger(1, Len(tape) - BarTrades * MaxBars + 1)

Clv(bar) == IF bar.high > bar.low THEN <<bar.close - bar.low, bar.high - bar.low>> ELSE None

UpperWick(bar) ==
    IF bar.high > bar.low THEN <<bar.high - Larger(bar.open, bar.close), bar.high - bar.low>>
    ELSE None

\* The first of the bars with the most USD.
BiggestBar(bars) ==
    bars[Min({k \in DOMAIN bars : \A j \in DOMAIN bars : bars[j].usd <= bars[k].usd})]

Last3(bars) == {k \in DOMAIN bars : k > Len(bars) - 3}

ClvHolds(bars) ==
    /\ Len(bars) >= 2
    /\ Cardinality({k \in Last3(bars) : AtLeast(Clv(bars[k]), 50)}) >= 2

\* Of three bars two steps up are asked for, of two bars one.
HigherLows(bars) ==
    /\ Len(bars) >= 2
    /\ \A k \in Last3(bars) : k - 1 \in Last3(bars) => bars[k].low >= bars[k - 1].low

\* price >= avwap: sum usd / sum amount since the onset window began, or the
\* mean of the prices weighted by usd where no amount is known.
AboveAvwap(tape) ==
    LET since  == StructureFrom(tape) .. Len(tape)
        amount == SumFunction([i \in since |-> tape[i].amount])
        priced == {i \in DOMAIN tape : tape[i].price # None}
        price  == tape[Max(priced)].price
    IN /\ FindAnchor(tape) # None
       /\ priced # {} /\ Usd(tape, since) > 0
       /\ IF amount > 0 THEN price * amount >= Usd(tape, since)
          ELSE price * Usd(tape, since)
               >= SumFunction([i \in since \cap priced |-> tape[i].price * tape[i].usd])

Compute(tape) ==
    LET bars == MakeBars(tape, StructureFrom(tape))
        ai   == FindAnchor(tape)
    IN [as_of |-> AsOf(tape),
        ofi30 |-> WindowStats(tape, LastN(tape, OfiWindow, MaxAge)),
        recent |-> WindowStats(tape, LastN(tape, RecentWindow, MaxAge)),
        wash |-> WindowStats(tape, LastN(tape, WashWindow, MaxAge)),
        anchor_ts |-> IF ai = None THEN None ELSE tape[ai].ts,
        above_avwap |-> AboveAvwap(tape),
        clv |-> ClvHolds(bars),
        higher_lows |-> HigherLows(bars),
        wick |-> IF bars = <<>> THEN None ELSE UpperWick(BiggestBar(bars))]
=============================================================================
