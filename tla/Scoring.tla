-------------------------------- MODULE Scoring --------------------------------
(***************************************************************************)
(* The decision on a token: score, tier, eligibility (scanner/scoring.py)  *)
(* and the near miss it may be (classify of scanner/nearmiss.py).  Ratios  *)
(* are pairs <<numerator, denominator>>, limits on them percentages, and   *)
(* points thousandths, rounded down.                                       *)
(***************************************************************************)
EXTENDS Absent, Integers, FiniteSets

CONSTANTS
    Weight,         \* weights of the components
    From, Full,     \* the lo and hi of each input of a component
    RecentMin,      \* orderflow.recent_min
    RecentPoints,   \* orderflow.recent_points
    StructPoints,   \* avwap_points, clv_points, higher_lows_points, all the same
    IgnitionScore,  \* tier_ignition_score of each chain
    ConfirmedScore, \* tier_confirmed_score
    EligibleFrom,   \* eligible_after_anchor_s
    EligibleTo,
    ScoreMargin     \* score_margin of the near-miss log

Components == {"participation", "orderflow", "efficiency", "structure", "holder_growth",
               "safety"}
Inclines == {"buyers", "ratio", "new_wallet", "ofi", "efficiency", "holder_growth"}

ASSUME ScoringAssumption ==
    /\ Weight \in [Components -> Nat]
    /\ From \in [Inclines -> Int] /\ Full \in [Inclines -> Int]
    /\ \A x \in Inclines : From[x] <= Full[x]
    /\ {RecentMin, EligibleFrom, EligibleTo} \subseteq Int
    /\ {RecentPoints, StructPoints, ConfirmedScore, ScoreMargin} \subseteq Nat
    /\ EligibleFrom <= EligibleTo
    /\ \A chain \in DOMAIN IgnitionScore :
          IgnitionScore[chain] \in Nat /\ IgnitionScore[chain] <= ConfirmedScore

-----------------------------------------------------------------------------
IsRatio(x) == x = None \/ (x[1] \in Int /\ x[2] \in Nat \ {0})

Within(low, x, high) == IF x < low THEN low ELSE IF x > high THEN high ELSE x

\* _lin: 0 at From, 1000 at Full, and no data is 0.
Lin(ratio, x) ==
    IF ratio = None THEN 0
    ELSE IF From[x] = Full[x] THEN (IF ratio[1] * 100 >= Full[x] * ratio[2] THEN 1000 ELSE 0)
    ELSE Within(0, ((ratio[1] * 100 - From[x] * ratio[2]) * 1000)
                   \div (ratio[2] * (Full[x] - From[x])), 1000)

Participation(f) ==
    (Weight.participation * (Lin(<<f.ofi30.buyers, 1>>, "buyers")
                             + Lin(f.ofi30.buyer_seller_ratio, "ratio")
                             + Lin(f.ofi30.new_wallet_share, "new_wallet"))) \div 3

RecentOk(f) == f.recent.ofi # None /\ f.recent.ofi[1] * 100 >= RecentMin * f.recent.ofi[2]

Orderflow(f) ==
    (Weight.orderflow - RecentPoints) * Lin(f.ofi30.ofi, "ofi")
    + IF RecentOk(f) THEN 1000 * RecentPoints ELSE 0

Structure(f) ==
    LET held == {x \in {"above_avwap", "clv", "higher_lows"} : f[x]}
    IN Within(0, 1000 * StructPoints * Cardinality(held), 1000 * Weight.structure)

Score(f, s1, bonus) ==
    Participation(f) + Orderflow(f) + Structure(f)
    + Weight.efficiency * Lin(s1.eff_5m_pct, "efficiency")
    + Weight.holder_growth * Lin(s1.holder_growth_pct, "holder_growth")
    + 1000 * Within(0, bonus, Weight.safety)

-----------------------------------------------------------------------------
CapFlags == {"bundler_holdings", "sniper_holdings", "token2022_extensions"}

\* Mutated form of a definition below.
AboveTheBar(d, chain) ==
    /\ d.eligible /\ Cardinality(d.hard_vetoes) = 1
    /\ d.score > 1000 * IgnitionScore[chain]

-----------------------------------------------------------------------------
(* decide *)

Capped(sr) == sr.verdict = "UNKNOWN" \/ sr.flags \cap CapFlags # {}

\* The tape's onset, or the time of the nomination.
Since(f, fallback) ==
    IF f.anchor_ts # None THEN f.as_of - f.anchor_ts
    ELSE IF fallback # None THEN f.as_of - fallback
    ELSE None

Tier(hard, score, cap, chain) ==
    IF hard # {} THEN "VETO"
    ELSE IF score >= 1000 * ConfirmedScore /\ ~cap THEN "CONFIRMED"
    ELSE IF score >= 1000 * IgnitionScore[chain] THEN "IGNITION"
    ELSE "WATCH"

\* sr is the safety result; an UNSAFE one is one more hard veto.
Decide(chain, f, vetoes, s1, fallback, sr) ==
    LET hard  == vetoes \cup (IF sr.verdict = "UNSAFE" THEN {"SAFETY"} ELSE {})
        score == Score(f, s1, sr.bonus)
        since == Since(f, fallback)
        tier  == Tier(hard, score, Capped(sr), chain)
        elig  == since # None /\ since \in EligibleFrom .. EligibleTo
    IN [score |-> score, since |-> since, eligible |-> elig, tier |-> tier,
        alertable |-> elig /\ tier \in {"IGNITION", "CONFIRMED"}, hard_vetoes |-> hard]

-----------------------------------------------------------------------------
(* classify *)

PolicyMiss(d, outcome) == d.alertable /\ outcome \in {"cooldown", "hourly_cap"}

ScoreMiss(d, chain) ==
    /\ d.eligible /\ d.hard_vetoes = {}
    /\ d.score \in 1000 * (IgnitionScore[chain] - ScoreMargin) .. 1000 * IgnitionScore[chain] - 1

VetoMiss(d, chain) ==
    /\ d.eligible /\ Cardinality(d.hard_vetoes) = 1
    /\ d.score >= 1000 * IgnitionScore[chain]

LateMiss(d, chain) ==
    /\ ~d.eligible /\ d.hard_vetoes = {}
    /\ d.score >= 1000 * IgnitionScore[chain]
    /\ d.since # None /\ d.since > EligibleTo

\* Kind and reason.
Classify(d, chain, outcome) ==
    IF PolicyMiss(d, outcome) THEN <<"policy", outcome>>
    ELSE IF d.alertable THEN None
    ELSE IF ScoreMiss(d, chain) THEN <<"score", "score">>
    ELSE IF VetoMiss(d, chain) THEN <<"veto", CHOOSE v \in d.hard_vetoes : TRUE>>
    ELSE IF LateMiss(d, chain) THEN <<"late", "late">>
    ELSE None
=============================================================================
