--------------------------------- MODULE Wash ---------------------------------
(***************************************************************************)
(* The wash score and the vetoes of scanner/wash.py over a tape's window,  *)
(* and the two gates by which scanner/enrichment.py saves calls whose      *)
(* answer could veto nothing.  The variable is one token's ring while      *)
(* trades arrive; scores are in thousandths, rounded down.                 *)
(***************************************************************************)
EXTENDS Features, SequencesExt

CONSTANTS
    RingSize,         \* ring_size of the tape
    TopN,             \* the wallets a concentration looks at, 3 in the code
    MinTrades,        \* min_trades of a wash score
    Weights,          \* weights of the wash components
    Lo, Hi,           \* the _lo and _hi of each component
    TrapBand,         \* count_trap_ratio_band
    TrapTurnover,     \* count_trap_turnover_min
    WashVeto,         \* wash_veto_score
    SellerShareMin,   \* seller_top3_share_min
    SellerSupplyMin,  \* seller_supply_pct_min
    SuspectShareMin,  \* seller_share_suspect_min
    WickMax,          \* rejection_wick_max
    DevMax,           \* dev_insider_sell_share_max
    BundlerMax,       \* bundler_sell_share_max
    GateShare,        \* holdings_min_seller_top3_share
    Liquidity,        \* liquidity of the token's scan row
    Kinds,            \* bound: the trades that occur
    Gaps,             \* bound: seconds between two trades
    MaxTrades         \* bound: trades of a run

Ramps == {"roundtrip", "top", "uniform", "churn"}

ASSUME WashAssumption ==
    /\ {RingSize, TopN, MinTrades} \subseteq Nat \ {0}
    /\ Lo \in [Ramps -> Nat] /\ Hi \in [Ramps -> Nat] /\ \A c \in Ramps : Lo[c] < Hi[c]
    /\ Weights \in [Ramps \cup {"count_trap"} -> Nat]
    /\ WashVeto \in Nat
    /\ GateShare \in Nat /\ SellerShareMin \in Nat /\ GateShare <= SellerShareMin

\* The shares saturate within reach, and carry the score to the veto alone.
ASSUME SaturationAssumption ==
    /\ Hi.roundtrip <= 100 /\ Hi.top <= 100
    /\ SumFunction(Weights) > 0
    /\ (Weights.roundtrip + Weights.top) * 100 >= WashVeto * SumFunction(Weights)

IsTrade(t) ==
    t \in [ts : Nat, side : {"buy", "sell"}, wallet : {t.wallet}, usd : Nat,
            price : {t.price}, amount : Nat]

ASSUME TradesAssumption == (\A kind \in Kinds : IsTrade(kind)) /\ Gaps \subseteq Nat

VARIABLES
    tape,     \* TokenTape.ring, sorted
    arrived   \* bound: trades so far

washVars == <<tape, arrived>>

-----------------------------------------------------------------------------
Norm(ratio, c) ==
    IF ratio = None \/ ratio[1] * 100 <= Lo[c] * ratio[2] THEN 0
    ELSE IF ratio[1] * 100 >= Hi[c] * ratio[2] THEN 1000
    ELSE ((ratio[1] * 100 - Lo[c] * ratio[2]) * 1000) \div (ratio[2] * (Hi[c] - Lo[c]))

Window == {i \in DOMAIN tape : i > Len(tape) - WashWindow}

TradesOf(I, w) == {i \in I : tape[i].wallet = w}

\* The TopN wallets of the trades I by USD, the earlier one first on a tie.
TopWallets(I) ==
    LET before(v, w) == \/ Usd(tape, TradesOf(I, v)) > Usd(tape, TradesOf(I, w))
                        \/ /\ Usd(tape, TradesOf(I, v)) = Usd(tape, TradesOf(I, w))
                           /\ Min(TradesOf(I, v)) < Min(TradesOf(I, w))
    IN {w \in Wallets(tape, I) : Cardinality({v \in Wallets(tape, I) : before(v, w)}) < TopN}

\* What the wallets ws traded.
UsdOf(ws, I) == SumFunction([w \in ws |-> Usd(tape, TradesOf(I, w))])

TopUsd(I) == UsdOf(TopWallets(I), I)

Share(usd, total) == IF total > 0 THEN <<usd, total>> ELSE None

-----------------------------------------------------------------------------
\* Mutated forms of the definitions below.
MoreThanTwice(I) == {w \in Wallets(tape, I) : Cardinality(TradesOf(I, w)) > 2}

WholeTapeShare ==
    Share(TopUsd(Side(tape, DOMAIN tape, "sell")), Usd(tape, Side(tape, DOMAIN tape, "sell")))

-----------------------------------------------------------------------------
(* wash_components *)

RoundTrippers(I) ==
    {w \in Wallets(tape, I) : /\ Side(tape, TradesOf(I, w), "buy") # {}
                              /\ Side(tape, TradesOf(I, w), "sell") # {}}

\* median / mean; the median is the mean of the middle trades by size, one or two.
Uniformity(I) ==
    LET rank(i) == Cardinality({j \in I : \/ tape[j].usd < tape[i].usd
                                          \/ tape[j].usd = tape[i].usd /\ j < i})
        n       == Cardinality(I)
        middle  == {i \in I : rank(i) \in {(n - 1) \div 2, n \div 2}}
    IN IF Usd(tape, I) > 0 THEN <<Usd(tape, middle) * n, Cardinality(middle) * Usd(tape, I)>>
       ELSE None

CountTrap(I) ==
    LET buys  == Cardinality(Side(tape, I, "buy"))
        sells == Cardinality(Side(tape, I, "sell"))
    IN /\ sells > 0
       /\ TrapBand[1] * sells <= buys * 100 /\ buys * 100 <= TrapBand[2] * sells
       /\ Liquidity > 0
       /\ AtLeast(<<Usd(tape, I), Liquidity>>, TrapTurnover)

Churn(I, newShare) ==
    LET ws   == Cardinality(Wallets(tape, I))
        tpw  == Norm(IF ws > 0 THEN <<Cardinality(I), ws>> ELSE None, "churn")
        seen == IF newShare = None THEN 0
                ELSE ((newShare[2] - newShare[1]) * 500) \div newShare[2]
    IN Larger(tpw, seen)

WashComponents(I, newShare) ==
    [roundtrip |-> Norm(Share(UsdOf(RoundTrippers(I), I), Usd(tape, I)), "roundtrip"),
     top |-> Norm(Share(TopUsd(I), Usd(tape, I)), "top"),
     uniform |-> Norm(Uniformity(I), "uniform"),
     count_trap |-> IF CountTrap(I) THEN 1000 ELSE 0,
     churn |-> Churn(I, newShare)]

WashScore(I, newShare) ==
    IF Cardinality(I) < MinTrades THEN None
    ELSE LET part == WashComponents(I, newShare)
         IN SumFunction([c \in DOMAIN Weights |-> Weights[c] * part[c]])
            \div SumFunction(Weights)

-----------------------------------------------------------------------------
(* The vetoes; holdings is None or a function from wallets to percentages. *)

Known == {i \in Side(tape, Window, "sell") : tape[i].wallet # None}

DistributionCheck(holdings) ==
    LET share == Share(TopUsd(Known), Usd(tape, Known))
        holds == IF holdings = None THEN {}
                 ELSE {holdings[w] : w \in TopWallets(Known) \cap DOMAIN holdings}
    IN IF ~AtLeast(share, SellerShareMin) THEN {}
       ELSE IF \E p \in holds : p >= SellerSupplyMin THEN {"DISTRIBUTION"}
       ELSE IF holdings = None /\ AtLeast(share, SuspectShareMin) THEN {"DISTRIBUTION_SUSPECT"}
       ELSE {}

RejectionCheck(f) ==
    IF f.wick # None /\ f.wick[1] * 100 > WickMax * f.wick[2] THEN {"REJECTION"} ELSE {}

WashCheck(f) ==
    LET score == WashScore(Window, f.wash.new_wallet_share)
    IN IF score # None /\ score >= 10 * WashVeto THEN {"WASH"} ELSE {}

SellUsd == Usd(tape, Side(tape, Window, "sell"))

\* flows gives the USD each tagged cohort sold; no tag is missing that sold.
TagVetoes(flows) ==
    IF flows = None \/ SellUsd = 0 THEN {}
    ELSE {v \in {"DEV_INSIDER_SELLING", "BUNDLER_SELLING"} :
            IF v = "DEV_INSIDER_SELLING" THEN AtLeast(<<flows.dev + flows.insider, SellUsd>>, DevMax)
            ELSE AtLeast(<<flows.bundler, SellUsd>>, BundlerMax)}

Evaluate(f, holdings, flows) ==
    WashCheck(f) \cup DistributionCheck(holdings) \cup RejectionCheck(f) \cup TagVetoes(flows)

-----------------------------------------------------------------------------
(* sell_pressure and the gates of Enricher.holdings and Enricher.tag_flows *)

Top3Share == Share(TopUsd(Side(tape, Window, "sell")), SellUsd)

HoldingsAsked == AtLeast(Top3Share, GateShare)

FlowsAsked == Top3Share # None

-----------------------------------------------------------------------------
\* A trade enters the ring; trades of one second may come in any order.
Arrive(kind, gap) ==
    /\ arrived < MaxTrades
    /\ arrived' = arrived + 1
    /\ \E at \in 1 .. Len(tape) + 1 :
        LET ts  == IF tape = <<>> THEN 0 ELSE AsOf(tape) + gap
            new == [kind EXCEPT !.ts = ts]
            all == InsertAt(tape, at, new)
        IN /\ \A i \in DOMAIN tape : i >= at => tape[i].ts = ts
           /\ tape' = IF Len(all) > RingSize THEN Tail(all) ELSE all

WashInit == tape = <<>> /\ arrived = 0

WashNext == \E kind \in Kinds, gap \in Gaps : Arrive(kind, gap)

WashSpec == WashInit /\ [][WashNext]_washVars

-----------------------------------------------------------------------------
\* The gates lose no veto: where holdings or tag flows are not asked for, no
\* answer could have brought a hard veto, unless a sell of the window names no
\* wallet.  sell_pressure counts such a sell in its total and
\* distribution_check does not, so the two shares differ there.
GatesLoseNoVeto ==
    tape # <<>> =>
        /\ ~HoldingsAsked /\ Known = Side(tape, Window, "sell") =>
            \A H \in SUBSET Wallets(tape, DOMAIN tape) :
                DistributionCheck([w \in H |-> 100]) = {}
        /\ ~FlowsAsked => TagVetoes([dev |-> 100, insider |-> 100, bundler |-> 100]) = {}

\* A window that three wallets at most trade among themselves is vetoed,
\* whatever its sizes, its count and its turnover are: the two saturated
\* shares alone carry the score to wash_veto_score.
SelfTradingVetoed ==
    LET I == Window IN
    /\ Cardinality(I) >= MinTrades
    /\ Usd(tape, I) > 0
    /\ \A i \in I : tape[i].wallet # None
                  /\ \E j \in I : tape[j].wallet = tape[i].wallet /\ tape[j].side # tape[i].side
    /\ Cardinality(Wallets(tape, I)) <= TopN
    => "WASH" \in Evaluate(Compute(tape), None, None)

\* The bars reach the newest trades: fewer than BarTrades of them are in no
\* bar, unless a chunk is too thin in prices, which ends the bars wherever it
\* is, though the comment in make_bars speaks of the last one.
BarsReachTheEnd ==
    tape # <<>> =>
        LET from == StructureFrom(tape)
            bars == MakeBars(tape, from)
            thin == \E k \in 0 .. Len(tape) :
                       from + (k + 1) * BarTrades <= Len(tape) + 1 /\ Thin(tape, from, k)
        IN \/ thin
           \/ bars = <<>> /\ Len(tape) - from + 1 < BarTrades
           \/ bars # <<>> /\ Len(tape) - bars[Len(bars)].i_end < BarTrades

\* The tape reaches back beyond the trailing window of an onset at i.
Reaches(t, i) == i >= IgnitionWindow /\ t[1].ts < t[WindowStart(i)].ts - TrailingS

\* A trade comes in order, and a full ring drops its oldest, d trades.  An
\* onset stays one until it is older than the lookback, so that the anchor is
\* no later, and an anchor before the new trade was an onset before, so that it
\* is no earlier - unless the ring has dropped a trade and no longer reaches
\* back beyond the trailing window, whose rate is then another one.
OnsetKept ==
    [][LET d   == Len(tape) + 1 - Len(tape')
           old == FindAnchor(tape)
           new == FindAnchor(tape')
           whole(i) == d = 0 \/ Reaches(tape', i)
       IN d \in {0, 1} /\ tape # <<>> /\ Front(tape') = SubSeq(tape, d + 1, Len(tape)) =>
            /\ old # None /\ tape[old].ts >= AsOf(tape') - Lookback /\ whole(old - d)
               => new # None /\ new <= old - d
            /\ new # None /\ new < Len(tape') /\ whole(new)
               => old # None /\ old <= new + d]_washVars
=============================================================================
