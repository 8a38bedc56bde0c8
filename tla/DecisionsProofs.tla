---------------------------- MODULE DecisionsProofs ----------------------------
(***************************************************************************)
(* What a decision rests on and what becomes of it, for every weight,      *)
(* limit, input, cache time and cap.  The first section is about scoring   *)
(* alone, the second about the verdict on a check's answers; the invariant *)
(* follows the answers into the row and into the decision.  The last part  *)
(* is about the tape a decision reads: the anchor, the bars, the wash score*)
(* and the gates of the vetoes, for every window, threshold and trade.     *)
(***************************************************************************)
EXTENDS Decisions, Wash, FiniteSetTheorems, SequenceTheorems, TLAPS

-----------------------------------------------------------------------------
(* Scores and tiers *)

LEMMA WithinType ==
  ASSUME NEW a \in Int, NEW x \in Int, NEW b \in Int
  PROVE  Within(a, x, b) \in Int
  BY DEF Within

\* A component's input counts between nothing and 1000 whatever it is.
LEMMA LinType ==
  ASSUME NEW ratio, IsRatio(ratio), NEW x \in Inclines
  PROVE  Lin(ratio, x) \in Int
<1>1. From[x] \in Int /\ Full[x] \in Int /\ From[x] <= Full[x]
  BY ScoringAssumption
<1>2. CASE ratio = None
  BY <1>2 DEF Lin
<1>3. CASE ratio # None /\ From[x] = Full[x]
  BY <1>3 DEF Lin
<1>4. CASE ratio # None /\ From[x] # Full[x]
  <2> DEFINE num == (ratio[1] * 100 - From[x] * ratio[2]) * 1000
             den == ratio[2] * (Full[x] - From[x])
  <2>1. ratio[1] \in Int /\ ratio[2] \in Nat \ {0}
    BY <1>4 DEF IsRatio
  <2>2. num \in Int
    BY <1>1, <2>1
  <2>3. Full[x] - From[x] \in Nat \ {0}
    BY <1>1, <1>4
  <2>4. den \in Nat \ {0}
    <3>1. \A p \in Nat \ {0}, q \in Nat \ {0} : p * q \in Nat \ {0}
      OBVIOUS
    <3> QED
      BY <2>1, <2>3, <3>1
  <2> HIDE DEF num, den
  <2>5. num \div den \in Int
    BY <2>2, <2>4
  <2>6. Within(0, num \div den, 1000) \in Int
    BY <2>5, WithinType
  <2> QED
    BY <1>4, <2>6 DEF Lin, num, den
<1> QED
  BY <1>2, <1>3, <1>4

\* A score is a whole number of thousandths.
LEMMA ScoreType ==
  ASSUME NEW in \in Inputs, NEW bonus \in Int
  PROVE  Score(in.f, in.s1, bonus) \in Int
<1> DEFINE f == in.f
           s1 == in.s1
<1>0. \A c \in Components : Weight[c] \in Nat
  BY ScoringAssumption
<1>1. Participation(f) \in Int
  <2> DEFINE a == Lin(<<f.ofi30.buyers, 1>>, "buyers")
             b == Lin(f.ofi30.buyer_seller_ratio, "ratio")
             c == Lin(f.ofi30.new_wallet_share, "new_wallet")
             w == Weight.participation
  <2>1. IsRatio(<<f.ofi30.buyers, 1>>)
    BY InputsAssumption DEF IsRatio
  <2>2. IsRatio(f.ofi30.buyer_seller_ratio) /\ IsRatio(f.ofi30.new_wallet_share)
    BY InputsAssumption
  <2>3. a \in Int /\ b \in Int /\ c \in Int /\ w \in Nat
    BY <1>0, <2>1, <2>2, LinType DEF Inclines, Components
  <2> HIDE DEF a, b, c, w
  <2>4. w * (a + b + c) \in Int
    BY <2>3
  <2>5. (w * (a + b + c)) \div 3 \in Int
    BY <2>4
  <2> QED
    BY <2>5 DEF Participation, a, b, c, w
<1>2. Orderflow(f) \in Int
  <2> DEFINE a == Lin(f.ofi30.ofi, "ofi")
             w == Weight.orderflow
             r == IF RecentOk(f) THEN 1000 * RecentPoints ELSE 0
  <2>0. IsRatio(f.ofi30.ofi)
    BY InputsAssumption
  <2>1. a \in Int /\ w \in Nat
    BY <1>0, <2>0, LinType DEF Inclines, Components
  <2>2. RecentPoints \in Nat /\ r \in Int
    BY ScoringAssumption
  <2> HIDE DEF a, w, r
  <2>3. (w - RecentPoints) * a + r \in Int
    BY <2>1, <2>2
  <2> QED
    BY <2>3 DEF Orderflow, a, w, r
<1>3. Structure(f) \in Int
  <2> DEFINE held == {x \in {"above_avwap", "clv", "higher_lows"} : f[x]}
             n == Cardinality(held)
  <2>1. n \in Nat
    <3>1. IsFiniteSet({"above_avwap", "clv", "higher_lows"})
      <4>1. IsFiniteSet({"above_avwap"})
        BY FS_Singleton
      <4>2. IsFiniteSet({"above_avwap"} \cup {"clv"})
        BY <4>1, FS_AddElement
      <4>3. IsFiniteSet(({"above_avwap"} \cup {"clv"}) \cup {"higher_lows"})
        BY <4>2, FS_AddElement
      <4>4. {"above_avwap", "clv", "higher_lows"} = ({"above_avwap"} \cup {"clv"}) \cup {"higher_lows"}
        OBVIOUS
      <4> QED
        BY <4>3, <4>4
    <3>2. held \in SUBSET {"above_avwap", "clv", "higher_lows"}
      OBVIOUS
    <3> HIDE DEF held
    <3> QED
      BY <3>1, <3>2, FS_Subset, FS_CardinalityType
  <2>2. StructPoints \in Nat /\ Weight.structure \in Nat
    BY <1>0, ScoringAssumption DEF Components
  <2> HIDE DEF n
  <2>3. 1000 * StructPoints * n \in Int /\ 1000 * Weight.structure \in Int
    BY <2>1, <2>2
  <2> DEFINE points == 1000 * StructPoints * n
             most == 1000 * Weight.structure
  <2> HIDE DEF points, most
  <2>4. Within(0, points, most) \in Int
    <3>1. points \in Int /\ most \in Int
      BY <2>3 DEF points, most
    <3> QED
      BY <3>1, WithinType
  <2> QED
    BY <2>4 DEF Structure, n, points, most
<1>4. /\ Weight.efficiency * Lin(s1.eff_5m_pct, "efficiency") \in Int
      /\ Weight.holder_growth * Lin(s1.holder_growth_pct, "holder_growth") \in Int
  <2> DEFINE a == Lin(s1.eff_5m_pct, "efficiency")
             b == Lin(s1.holder_growth_pct, "holder_growth")
  <2>0. IsRatio(s1.eff_5m_pct) /\ IsRatio(s1.holder_growth_pct)
    BY InputsAssumption
  <2>1. a \in Int /\ b \in Int
    BY <2>0, LinType DEF Inclines
  <2>2. Weight.efficiency \in Nat /\ Weight.holder_growth \in Nat
    BY <1>0 DEF Components
  <2> HIDE DEF a, b
  <2>3. Weight.efficiency * a \in Int /\ Weight.holder_growth * b \in Int
    BY <2>1, <2>2
  <2> QED
    BY <2>3 DEF a, b
<1>5. 1000 * Within(0, bonus, Weight.safety) \in Int
  <2>1. Weight.safety \in Int
    BY <1>0 DEF Components
  <2> DEFINE w == Within(0, bonus, Weight.safety)
  <2>2. w \in Int
    <3>1. 0 \in Int
      OBVIOUS
    <3> HIDE DEF w
    <3>2. \A x \in Int, b \in Int : Within(0, x, b) \in Int
      BY <3>1, WithinType
    <3> QED
      BY <2>1, <3>2 DEF w
  <2> HIDE DEF w
  <2>3. 1000 * w \in Int
    BY <2>2
  <2> QED
    BY <2>3 DEF w
<1> HIDE DEF f, s1
<1>6. Score(f, s1, bonus) \in Int
  BY <1>1, <1>2, <1>3, <1>4, <1>5 DEF Score
<1> QED
  BY <1>6 DEF f, s1

Given(ch, in, vetoes, sr) == Decide(ch, in.f, vetoes, in.s1, in.fallback, sr)

\* Without a veto a token in the window is alertable exactly at its chain's bar
\* or above, with one never; a cap keeps it from CONFIRMED.
Fits(ch, in, vetoes, sr, d) ==
    /\ d.alertable <=> (d.eligible /\ d.hard_vetoes = {} /\ d.score >= 1000 * IgnitionScore[ch])
    /\ d.tier = "VETO" <=> d.hard_vetoes # {}
    /\ d.tier = "CONFIRMED" => (d.hard_vetoes = {} /\ ~Capped(sr))
    /\ d.score \in Int /\ d.score = Score(in.f, in.s1, sr.bonus)
    /\ d.hard_vetoes = vetoes \cup (IF sr.verdict = "UNSAFE" THEN {"SAFETY"} ELSE {})
    /\ d.eligible = (/\ Since(in.f, in.fallback) # None
                     /\ Since(in.f, in.fallback) \in EligibleFrom .. EligibleTo)

LEMMA AlertableAtBar ==
  ASSUME NEW ch \in DOMAIN IgnitionScore, NEW in \in Inputs, NEW vetoes, NEW sr,
         sr.bonus \in Int
  PROVE  Fits(ch, in, vetoes, sr, Given(ch, in, vetoes, sr))
<1> DEFINE score == Score(in.f, in.s1, sr.bonus)
           hard == vetoes \cup (IF sr.verdict = "UNSAFE" THEN {"SAFETY"} ELSE {})
           bar == 1000 * IgnitionScore[ch]
           top == 1000 * ConfirmedScore
           elig == Since(in.f, in.fallback) # None /\ Since(in.f, in.fallback) \in EligibleFrom .. EligibleTo
           tier == Tier(hard, score, Capped(sr), ch)
           d == Given(ch, in, vetoes, sr)
<1>1. score \in Int
  BY ScoreType
<1>2. bar \in Int /\ top \in Int /\ bar <= top
  BY ScoringAssumption
<1>3. /\ d.score = score /\ d.hard_vetoes = hard /\ d.eligible = elig /\ d.tier = tier
      /\ d.alertable = (elig /\ tier \in {"IGNITION", "CONFIRMED"})
  BY DEF Given, Decide
<1>4. /\ tier = "VETO" <=> hard # {}
      /\ tier = "CONFIRMED" => hard = {} /\ ~Capped(sr)
      /\ tier \in {"IGNITION", "CONFIRMED"} <=> hard = {} /\ score >= bar
  <2> HIDE DEF score, hard
  <2> QED
    BY <1>1, <1>2 DEF Tier
<1> HIDE DEF score, hard, bar, tier, d, elig
<1>5. d.alertable <=> elig /\ hard = {} /\ score >= bar
  BY <1>3, <1>4
<1>6. /\ d.alertable <=> d.eligible /\ d.hard_vetoes = {} /\ d.score >= bar
      /\ d.tier = "VETO" <=> d.hard_vetoes # {}
      /\ d.tier = "CONFIRMED" => d.hard_vetoes = {} /\ ~Capped(sr)
      /\ d.score \in Int
  BY <1>1, <1>3, <1>4, <1>5
<1>7. Fits(ch, in, vetoes, sr, d)
  BY <1>3, <1>6 DEF Fits, score, hard, bar, elig
<1> QED
  BY <1>7 DEF d

-----------------------------------------------------------------------------
(* The verdict on a check's answers *)

IsResult(r) ==
    /\ r = [checked_ts |-> r.checked_ts, verdict |-> r.verdict, flags |-> r.flags,
            bonus |-> r.bonus]
    /\ r.bonus \in Int
    /\ r.verdict \in {"SAFE", "UNSAFE", "UNKNOWN"}

\* A result is a record of a verdict and a whole bonus.
LEMMA ResultShape ==
  ASSUME NEW checks, NEW bonus \in Int, NEW ts
  PROVE  IsResult(Rules!Result(checks, bonus, ts)) /\ Rules!Result(checks, bonus, ts).checked_ts = ts
<1> DEFINE b == IF Rules!VerdictOf(checks) = "SAFE" THEN bonus ELSE 0
           r == Rules!Result(checks, bonus, ts)
<1>1. b \in Int
  OBVIOUS
<1>2. Rules!VerdictOf(checks) \in {"SAFE", "UNSAFE", "UNKNOWN"}
  BY DEF Rules!VerdictOf
<1> HIDE DEF b
<1>3. r = [checked_ts |-> ts, verdict |-> Rules!VerdictOf(checks),
           flags |-> Rules!Failed(checks, FALSE), bonus |-> b]
  BY DEF Rules!Result, b
<1> HIDE DEF r
<1>4. IsResult(r) /\ r.checked_ts = ts
  BY <1>1, <1>2, <1>3 DEF IsResult
<1> QED
  BY <1>4 DEF r

\* A check that is hard and failed, or without data, keeps a result from SAFE.
LEMMA SafeChecks ==
  ASSUME NEW checks, Rules!VerdictOf(checks) = "SAFE", NEW name, NEW passed,
         Rules!Hard(name, passed) \in checks
  PROVE  passed # FALSE /\ passed # None
<1> DEFINE c == Rules!Hard(name, passed)
<1>1. c.name = name /\ c.hard = TRUE /\ c.passed = passed
  BY DEF Rules!Hard
<1>2. Rules!Failed(checks, TRUE) = {} /\ ~(\E x \in checks : x.hard /\ x.passed = None)
  BY DEF Rules!VerdictOf
<1> HIDE DEF c
<1>3. c \in checks
  BY DEF c
<1> QED
  BY <1>1, <1>2, <1>3 DEF Rules!Failed

\* A soft check that failed is among the flags.
LEMMA SoftFlags ==
  ASSUME NEW checks, NEW name, NEW passed, Rules!Soft(name, passed) \in checks,
         name \notin Rules!Failed(checks, FALSE)
  PROVE  passed # FALSE
<1> DEFINE c == Rules!Soft(name, passed)
<1>1. c.name = name /\ c.hard = FALSE /\ c.passed = passed
  BY DEF Rules!Soft
<1> HIDE DEF c
<1>2. c \in checks
  BY DEF c
<1> QED
  BY <1>1, <1>2 DEF Rules!Failed

LEMMA BonusType ==
  ASSUME NEW a, NEW b, NEW c
  PROVE  Rules!SolanaBonus(c) \in Int /\ Rules!EvmBonus(a, b, c) \in Int
<1>1. \A x : Rules!Points(x) \in Int
  BY DEF Rules!Points
<1>2. Rules!EvmBonus(a, b, c) \in Int
  BY <1>1 DEF Rules!EvmBonus
<1>3. Rules!SolanaBonus(c) \in Int
  BY <1>1 DEF Rules!SolanaBonus
<1> QED
  BY <1>2, <1>3

\* On Solana a SAFE result nothing caps says that both sources answered and
\* that every hard check and cap is met.
LEMMA SolanaVerdict ==
  ASSUME NEW mint, NEW p, NEW ts, NEW r, r = Rules!SolanaResult(mint, p, ts),
         r.verdict = "SAFE", ~Capped(r),
         p # None => \A x \in {"top10", "dev", "insider", "bundler", "sniper"} :
                        p[x] = None \/ p[x] \in Int
  PROVE  mint # None /\ SoundMint(mint) /\ p # None /\ SoundHolders(p)
<1> DEFINE checks == Rules!MintChecks(mint) \cup Rules!ProfileChecks(p)
<1>1. Rules!VerdictOf(checks) = "SAFE" /\ r.flags = Rules!Failed(checks, FALSE)
  <2>1. r = Rules!Result(checks, Rules!SolanaBonus(p), ts)
    BY DEF Rules!SolanaResult
  <2> HIDE DEF checks
  <2>2. r.verdict = Rules!VerdictOf(checks) /\ r.flags = Rules!Failed(checks, FALSE)
    BY <2>1 DEF Rules!Result
  <2> QED
    BY <2>2
<1>2. \A x \in CapFlags : x \notin Rules!Failed(checks, FALSE)
  BY <1>1 DEF Capped
<1> HIDE DEF checks
<1>3. mint # None
  <2>1. SUFFICES ASSUME mint = None PROVE FALSE
    OBVIOUS
  <2>2. Rules!Hard("mint_authority", None) \in checks
    BY <2>1 DEF checks, Rules!MintChecks
  <2> QED
    BY <1>1, <2>2, SafeChecks
<1>4. p # None
  <2>1. SUFFICES ASSUME p = None PROVE FALSE
    OBVIOUS
  <2>2. Rules!Hard("top10", None) \in checks
    BY <2>1 DEF checks, Rules!ProfileChecks
  <2> QED
    BY <1>1, <2>2, SafeChecks
<1>5. SoundMint(mint)
  <2>1. /\ Rules!Hard("mint_authority", ~mint.mint_authority) \in checks
        /\ Rules!Hard("freeze_authority", ~mint.freeze_authority) \in checks
        /\ mint.token2022 => Rules!Soft("token2022_extensions", ~mint.risky) \in checks
    BY <1>3 DEF checks, Rules!MintChecks
  <2>2. (~mint.mint_authority) # FALSE /\ (~mint.freeze_authority) # FALSE
    BY <1>1, <2>1, SafeChecks
  <2>3. mint.token2022 => (~mint.risky) # FALSE
    BY <1>2, <2>1, SoftFlags DEF CapFlags
  <2> QED
    BY <2>2, <2>3 DEF SoundMint
<1>6. SoundHolders(p)
  <2>1. /\ Rules!Hard("top10", IF p.top10 = None THEN None ELSE p.top10 <= Limits.top10) \in checks
        /\ Rules!Hard("dev_holdings", Rules!Below(p.dev, Limits.dev + 1)) \in checks
        /\ Rules!Hard("insider_holdings", Rules!Below(p.insider, Limits.insider + 1)) \in checks
        /\ Rules!Soft("bundler_holdings", Rules!Below(p.bundler, Limits.bundler)) \in checks
        /\ Rules!Soft("sniper_holdings", Rules!Below(p.sniper, Limits.sniper)) \in checks
    BY <1>4 DEF checks, Rules!ProfileChecks
  <2>2. \A x \in {"top10", "dev", "insider", "bundler", "sniper"} :
           (p[x] = None \/ p[x] \in Int) /\ Limits[x] \in Int
    BY <1>4, DecisionsAssumption
  <2>3. p.top10 # None /\ p.top10 <= Limits.top10
    <3> DEFINE ok == IF p.top10 = None THEN None ELSE p.top10 <= Limits.top10
    <3>1. ok # FALSE /\ ok # None
      <4> HIDE DEF ok
      <4>1. Rules!Hard("top10", ok) \in checks
        BY <2>1 DEF ok
      <4> QED
        BY <1>1, <4>1, SafeChecks
    <3>2. p.top10 # None
      BY <3>1
    <3>3. p.top10 \in Int /\ Limits.top10 \in Int
      BY <2>2, <3>2
    <3>4. ok = (p.top10 <= Limits.top10)
      BY <3>2
    <3>5. (p.top10 <= Limits.top10) \in BOOLEAN
      OBVIOUS
    <3> HIDE DEF ok
    <3>6. ok = TRUE
      BY <3>1, <3>4, <3>5
    <3> QED
      BY <3>2, <3>4, <3>6
  <2>4. \A c \in {"dev", "insider"} : p[c] = None \/ p[c] <= Limits[c]
    <3>1. Rules!Below(p.dev, Limits.dev + 1) # FALSE
      BY <1>1, <2>1, SafeChecks
    <3>2. Rules!Below(p.insider, Limits.insider + 1) # FALSE
      BY <1>1, <2>1, SafeChecks
    <3>3. p.dev = None \/ p.dev < Limits.dev + 1
      BY <3>1 DEF Rules!Below
    <3>4. p.insider = None \/ p.insider < Limits.insider + 1
      BY <3>2 DEF Rules!Below
    <3>5. \A m, n \in Int : m < n + 1 => m <= n
      OBVIOUS
    <3> DEFINE d == p.dev
               i == p.insider
               dl == Limits.dev
               il == Limits.insider
    <3>8. (d = None \/ d \in Int) /\ (i = None \/ i \in Int) /\ dl \in Int /\ il \in Int
      BY <2>2
    <3> HIDE DEF d, i, dl, il
    <3>6. d = None \/ d <= dl
      BY <3>3, <3>5, <3>8 DEF d, dl
    <3>7. i = None \/ i <= il
      BY <3>4, <3>5, <3>8 DEF i, il
    <3> QED
      BY <3>6, <3>7 DEF d, i, dl, il
  <2>5. \A c \in {"bundler", "sniper"} : p[c] = None \/ p[c] < Limits[c]
    <3>1. Rules!Below(p.bundler, Limits.bundler) # FALSE
      BY <1>2, <2>1, SoftFlags DEF CapFlags
    <3>2. Rules!Below(p.sniper, Limits.sniper) # FALSE
      BY <1>2, <2>1, SoftFlags DEF CapFlags
    <3> QED
      BY <2>2, <3>1, <3>2 DEF Rules!Below
  <2> QED
    BY <2>3, <2>4, <2>5 DEF SoundHolders
<1> QED
  BY <1>3, <1>4, <1>5, <1>6

\* On an EVM chain it says that the simulation answered and passed, and that
\* the holders pass or the result carries the flag of unknown ones.
LEMMA EvmVerdict ==
  ASSUME NEW paths, NEW owner, NEW top10, NEW ts, NEW r,
         r = Rules!EvmResult(paths, owner, top10, ts), r.verdict = "SAFE",
         top10 = None \/ top10 \in Int
  PROVE  /\ paths # None /\ Rules!Failed(Rules!PathChecks(paths), TRUE) = {}
         /\ SoundTop(top10) \/ "top10_unknown" \in r.flags
<1> DEFINE checks == Rules!PathChecks(paths) \cup Rules!OwnerChecks(owner) \cup Rules!TopChecks(top10)
<1>1. Rules!VerdictOf(checks) = "SAFE" /\ r.flags = Rules!Failed(checks, FALSE)
  BY DEF Rules!EvmResult, Rules!Result
<1>5. ASSUME top10 = None
      PROVE  "top10_unknown" \in r.flags
  <2>1. Rules!Soft("top10_unknown", FALSE) \in checks
    BY <1>5 DEF Rules!TopChecks
  <2> HIDE DEF checks
  <2>2. "top10_unknown" \in Rules!Failed(checks, FALSE)
    BY <2>1, SoftFlags
  <2> QED
    BY <1>1, <2>2
<1>6. ASSUME top10 # None
      PROVE  SoundTop(top10)
  <2>1. Rules!Hard("top10_proxy", top10 <= TopMax) \in checks
    BY <1>6 DEF Rules!TopChecks
  <2> HIDE DEF checks
  <2>2. (top10 <= TopMax) # FALSE
    BY <1>1, <2>1, SafeChecks
  <2>3. (top10 <= TopMax) \in BOOLEAN
    OBVIOUS
  <2> QED
    BY <1>6, <2>2, <2>3 DEF SoundTop
<1> HIDE DEF checks
<1>2. Rules!Failed(checks, TRUE) = {}
  BY <1>1 DEF Rules!VerdictOf
<1>3. Rules!Failed(Rules!PathChecks(paths), TRUE) \subseteq Rules!Failed(checks, TRUE)
  BY DEF checks, Rules!Failed
<1>4. paths # None
  <2>1. SUFFICES ASSUME paths = None PROVE FALSE
    OBVIOUS
  <2>2. Rules!Hard("honeypot_sim", None) \in checks
    BY <2>1 DEF checks, Rules!PathChecks
  <2> QED
    BY <1>1, <2>2, SafeChecks
<1> QED
  BY <1>2, <1>3, <1>4, <1>5, <1>6

LEMMA HardFailed ==
  ASSUME NEW checks, Rules!Failed(checks, TRUE) = {}, NEW name, NEW passed,
         Rules!Hard(name, passed) \in checks
  PROVE  passed # FALSE
<1> DEFINE c == Rules!Hard(name, passed)
<1>1. c.name = name /\ c.hard = TRUE /\ c.passed = passed
  BY DEF Rules!Hard
<1> HIDE DEF c
<1>2. c \in checks
  BY DEF c
<1> QED
  BY <1>1, <1>2 DEF Rules!Failed

-----------------------------------------------------------------------------
(* The simulated transfers *)

IsBlock(x) ==
    /\ x.from \in Accounts /\ x.to \in Accounts /\ x.from # x.to
    /\ x.amt \in Int /\ Rules!PathOf(x) \in Paths

\* A simulation has three blocks, or the pool is empty; between them they take
\* every path.
LEMMA PlanShape ==
  ASSUME NEW bal \in [Accounts -> Nat], NEW p, p = Rules!Plan(bal), p # <<>>
  PROVE  /\ DOMAIN p = 1 .. 3 /\ Len(p) = 3
         /\ \A k \in 1 .. 3 : IsBlock(p[k])
         /\ \A path \in Paths : \E k \in 1 .. 3 : Rules!PathOf(p[k]) = path
<1> DEFINE sellAmt == bal.holder \div AmountFrac
           buyAmt == bal.pool \div AmountFrac
           backAmt == Rules!Larger1(buyAmt \div 4)
           moveAmt == Rules!Larger1(buyAmt \div 2)
           sell == [name |-> "sell", from |-> "holder", to |-> "pool", amt |-> sellAmt]
           back == [name |-> "sell", from |-> "fresh", to |-> "pool", amt |-> backAmt]
           buy == [name |-> "buy", from |-> "pool", to |-> "fresh", amt |-> buyAmt]
           move == [name |-> "transfer", from |-> "fresh", to |-> "fresh2", amt |-> moveAmt]
<1>1. sellAmt \in Int /\ buyAmt \in Int
  <2>1. bal.holder \in Nat /\ bal.pool \in Nat
    BY DEF Accounts
  <2>2. AmountFrac \in Nat \ {0}
    BY DecisionsAssumption
  <2>3. \A n \in Nat : n \div AmountFrac \in Int
    BY <2>2
  <2> QED
    BY <2>1, <2>3
<1>2. backAmt \in Int /\ moveAmt \in Int
  <2> HIDE DEF buyAmt
  <2> QED
    BY <1>1 DEF Rules!Larger1
<1>3. p = IF sellAmt > 0 THEN <<sell, buy, move>> ELSE <<buy, move, back>>
  BY DEF Rules!Plan
<1> HIDE DEF sellAmt, buyAmt, backAmt, moveAmt
<1>4. /\ IsBlock(sell) /\ Rules!PathOf(sell) = "sell"
      /\ IsBlock(back) /\ Rules!PathOf(back) = "sell"
      /\ IsBlock(buy) /\ Rules!PathOf(buy) = "buy"
      /\ IsBlock(move) /\ Rules!PathOf(move) = "transfer"
  BY <1>1, <1>2 DEF IsBlock, Accounts, Paths, Rules!PathOf
<1> HIDE DEF sell, back, buy, move
<1>5. p = <<sell, buy, move>> \/ p = <<buy, move, back>>
  BY <1>3
<1>6. CASE p = <<sell, buy, move>>
  <2>1. DOMAIN p = 1 .. 3 /\ Len(p) = 3 /\ p[1] = sell /\ p[2] = buy /\ p[3] = move
    BY <1>6
  <2> QED
    BY <1>4, <2>1 DEF Paths
<1>7. CASE p = <<buy, move, back>>
  <2>1. DOMAIN p = 1 .. 3 /\ Len(p) = 3 /\ p[1] = buy /\ p[2] = move /\ p[3] = back
    BY <1>7
  <2> QED
    BY <1>4, <2>1 DEF Paths
<1> QED
  BY <1>5, <1>6, <1>7

\* What the balances show of a transfer that went through is what came of it.
LEMMA MovedShows ==
  ASSUME NEW token, \A path \in Paths : token[path] \in Nat,
         NEW bal \in [Accounts -> Int], NEW x, IsBlock(x)
  PROVE  /\ Rules!Moved(token, bal, x) \in [Accounts -> Int]
         /\ ~Rules!Reverts(token, bal, x) =>
               Rules!Moved(token, bal, x)[x.to] - bal[x.to] = Rules!Received(token, x)
<1> DEFINE tax == token[Rules!PathOf(x)]
           amt == x.amt
           got == Rules!Received(token, x)
           moved == [bal EXCEPT ![x.from] = @ - amt, ![x.to] = @ + got]
<1>1. tax \in Nat /\ amt \in Int /\ x.from \in Accounts /\ x.to \in Accounts /\ x.from # x.to
  BY DEF IsBlock
<1>2. got \in Int
  <2>1. amt * tax \in Int
    BY <1>1
  <2>2. (amt * tax) \div 100 \in Int
    BY <2>1
  <2>3. amt - ((amt * tax) \div 100) \in Int
    BY <1>1, <2>2
  <2> QED
    BY <2>3 DEF Rules!Received
<1>3. Rules!Moved(token, bal, x) = IF Rules!Reverts(token, bal, x) THEN bal ELSE moved
  BY DEF Rules!Moved
<1> HIDE DEF amt, got
<1>4. moved \in [Accounts -> Int] /\ moved[x.to] = bal[x.to] + got
  BY <1>1, <1>2 DEF amt
<1>5. bal[x.to] \in Int
  BY <1>1
<1>6. moved[x.to] - bal[x.to] = got
  <2> HIDE DEF moved
  <2> QED
    BY <1>2, <1>4, <1>5
<1> QED
  BY <1>3, <1>4, <1>6 DEF got

\* A tax above the limit shows in a transfer of 100 units or more.
LEMMA TaxShows ==
  ASSUME NEW amt \in Int, amt >= 100, NEW tax \in Nat, NEW most \in Int,
         (amt - (amt - ((amt * tax) \div 100))) * 100 <= most * amt
  PROVE  tax <= most
<1> DEFINE full == amt * tax
           cut100 == full \div 100
<1>1. full \in Int
  OBVIOUS
<1> HIDE DEF full
<1>2. cut100 \in Int /\ full <= 100 * cut100 + 99
  BY <1>1
<1> HIDE DEF cut100
<1>3. (amt - (amt - cut100)) * 100 = 100 * cut100
  BY <1>2
<1>4. 100 * cut100 <= most * amt
  BY <1>3 DEF cut100, full
<1>5. SUFFICES ASSUME tax >= most + 1 PROVE FALSE
  OBVIOUS
<1>6. amt * tax >= amt * (most + 1)
  <2>1. tax - (most + 1) \in Nat
    BY <1>5
  <2>2. PICK k \in Nat : k = tax - (most + 1)
    BY <2>1
  <2>3. tax = (most + 1) + k
    BY <2>2
  <2>4. amt * tax = amt * (most + 1) + amt * k
    BY <2>3
  <2>5. amt * k >= 0
    BY <2>2
  <2>6. amt * k \in Int /\ amt * (most + 1) \in Int
    BY <2>2
  <2> QED
    BY <2>4, <2>5, <2>6
<1>7. amt * (most + 1) = most * amt + amt
  OBVIOUS
<1>8. PICK y \in Int : y = most * amt
  OBVIOUS
<1>9. full >= y + amt /\ 100 * cut100 <= y
  BY <1>4, <1>6, <1>7, <1>8 DEF full
<1> QED
  BY <1>1, <1>2, <1>8, <1>9

\* A simulation that passes every check is of a token that takes no more than
\* the limit and lets every path through.
LEMMA PassedIsSound ==
  ASSUME NEW t, t.frozen \subseteq Paths, \A path \in Paths : t[path] \in Nat,
         NEW bal \in [Accounts -> Nat],
         \A k \in DOMAIN Rules!Plan(bal) : Rules!Plan(bal)[k].amt >= 100,
         NEW n, NEW shown, shown = Rules!Simulated(t, bal, n),
         shown # None, Rules!Failed(Rules!PathChecks(shown), TRUE) = {}
  PROVE  SoundToken(t)
<1> DEFINE p == Rules!Plan(bal)
           second == Rules!Moved(t, bal, p[1])
           third == Rules!Moved(t, second, p[2])
           before == <<bal, second, third>>
           got(k) == Rules!Moved(t, before[k], p[k])[p[k].to] - before[k][p[k].to]
           of(k) == [name |-> p[k].name,
                     ok |-> k <= n /\ ~Rules!Reverts(t, before[k], p[k]),
                     taxOk |-> (p[k].amt - got(k)) * 100 <= MaxTax * p[k].amt,
                     untaxed |-> got(k) >= p[k].amt]
<1>1. p # <<>> /\ shown = {of(k) : k \in DOMAIN p}
  BY DEF Rules!Simulated
<1> HIDE DEF p
<1>2. /\ DOMAIN p = 1 .. 3
      /\ \A k \in 1 .. 3 : IsBlock(p[k])
      /\ \A path \in Paths : \E k \in 1 .. 3 : Rules!PathOf(p[k]) = path
  BY <1>1, PlanShape DEF p
<1>3. bal \in [Accounts -> Int] /\ second \in [Accounts -> Int] /\ third \in [Accounts -> Int]
  <2>1. bal \in [Accounts -> Int]
    OBVIOUS
  <2>2. IsBlock(p[1]) /\ IsBlock(p[2])
    BY <1>2
  <2>3. second \in [Accounts -> Int]
    BY <2>1, <2>2, MovedShows
  <2> HIDE DEF second
  <2>4. third \in [Accounts -> Int]
    BY <2>2, <2>3, MovedShows
  <2> QED
    BY <2>1, <2>3, <2>4
<1> HIDE DEF second, third
<1>4. \A k \in 1 .. 3 : before[k] \in [Accounts -> Int]
  BY <1>3
<1> HIDE DEF before
<1>5. \A k \in 1 .. 3 : Rules!PathOf(p[k]) \notin t.frozen /\ t[Rules!PathOf(p[k])] <= MaxTax
  <2> SUFFICES ASSUME NEW k \in 1 .. 3
               PROVE  Rules!PathOf(p[k]) \notin t.frozen /\ t[Rules!PathOf(p[k])] <= MaxTax
    OBVIOUS
  <2> DEFINE e == of(k)
  <2>1. e \in shown
    BY <1>1, <1>2
  <2>2. /\ e.ok = (k <= n /\ ~Rules!Reverts(t, before[k], p[k]))
        /\ e.taxOk = ((p[k].amt - got(k)) * 100 <= MaxTax * p[k].amt)
    OBVIOUS
  <2> HIDE DEF e
  <2>3. e.ok
    <3>1. Rules!Hard(Rules!PathCheck[e.name], e.ok) \in Rules!PathChecks(shown)
      BY <2>1 DEF Rules!PathChecks
    <3>2. e.ok # FALSE
      BY <3>1, HardFailed
    <3> QED
      BY <2>2, <3>2
  <2>4. e.taxOk
    <3>1. Rules!Hard(Rules!TaxCheck[e.name], e.taxOk) \in Rules!PathChecks(shown)
      BY <2>1, <2>3 DEF Rules!PathChecks
    <3>2. e.taxOk # FALSE
      BY <3>1, HardFailed
    <3>3. ((p[k].amt - got(k)) * 100 <= MaxTax * p[k].amt) \in BOOLEAN
      OBVIOUS
    <3> QED
      BY <2>2, <3>2, <3>3
  <2>5. ~Rules!Reverts(t, before[k], p[k])
    BY <2>2, <2>3
  <2>6. Rules!PathOf(p[k]) \notin t.frozen
    BY <2>5 DEF Rules!Reverts
  <2>7. got(k) = Rules!Received(t, p[k])
    BY <1>2, <1>4, <2>5, MovedShows
  <2> DEFINE tax == t[Rules!PathOf(p[k])]
             amt == p[k].amt
  <2>8. tax \in Nat /\ amt \in Int /\ MaxTax \in Int
    BY <1>2, DecisionsAssumption DEF IsBlock
  <2>9. amt >= 100
    BY <1>2 DEF p
  <2>10. got(k) = amt - ((amt * tax) \div 100)
    BY <2>7 DEF Rules!Received
  <2>11. (amt - got(k)) * 100 <= MaxTax * amt
    BY <2>2, <2>4
  <2> HIDE DEF tax, amt, got
  <2>12. tax <= MaxTax
    BY <2>8, <2>9, <2>10, <2>11, TaxShows
  <2> QED
    BY <2>6, <2>12 DEF tax
<1> QED
  BY <1>2, <1>5 DEF SoundToken

-----------------------------------------------------------------------------
(* The inductive invariant *)

\* The token has met what the source is asked for at or after the result's
\* time, or the result says that the holders are unknown.
Meets(since, s, r) ==
    since[s] >= r.checked_ts \/ (s = "birdeye" /\ "top10_unknown" \in r.flags)

\* What a result must show to carry a CONFIRMED decision.
Measured(since, r) ==
    /\ IsResult(r) /\ r.checked_ts \in Nat
    /\ r.verdict = "SAFE" /\ ~Capped(r) => \A s \in Sources : Meets(since, s, r)

\* The RPC's answer fails no hard check and caps nothing.
Clean(ch, a) ==
    IF ch = "solana" THEN a # None /\ SoundMint(a)
    ELSE a.paths # None /\ Rules!Failed(Rules!PathChecks(a.paths), TRUE) = {}

Asked(since, ch, a, ts) == Clean(ch, a) => since["rpc"] >= ts

TokenHeld ==
    /\ now \in Nat /\ chain \in DOMAIN Worlds /\ world \in Worlds[chain]
    /\ sound \in [Sources -> Int]
    /\ \A s \in Sources : sound[s] <= now /\ (IsSound(world, s) => sound[s] = now)
    /\ active \in BOOLEAN

RowHeld == row # None => Measured(sound, row)

RugHeld ==
    rug # None =>
        /\ rug = [x \in {"ts", "rpc", "asked"} |-> rug[x]]
        /\ rug.ts \in Nat /\ rug.ts <= now
        /\ rug.asked = "birdeye" => Asked(sound, chain, rug.rpc, rug.ts)

JobFields == {"stage", "eval_ts", "in", "ts", "rpc", "sr", "d", "fresh"}

CheckHeld ==
    job # None /\ job.stage \in {"check", "rpc", "birdeye"} =>
        /\ job.d = None /\ job.sr = None
        /\ job.ts \in Nat /\ job.ts <= now
        /\ job.stage = "birdeye" => Asked(sound, chain, job.rpc, job.ts)

On(ch, in, sr) == Given(ch, in, in.vetoes, sr)

DecisionHeld ==
    job # None /\ job.stage = "decided" =>
        /\ job.in \in Inputs
        /\ job.d = On(chain, job.in, job.sr)
        /\ Measured(sound, job.sr)
        /\ job.fresh \/ now - job.sr.checked_ts <= CacheS

JobHeld ==
    job # None =>
        /\ job = [x \in JobFields |-> job[x]]
        /\ job.stage \in {"check", "rpc", "birdeye", "decided", "alert"}
        /\ job.eval_ts \in Nat
        /\ job.stage = "alert" => job.sr = None /\ job.d.alertable /\ job.d.tier # "VETO"

LogHeld ==
    /\ \E S : misses \in Seq(S)
    /\ \A k \in DOMAIN misses : misses[k].ts \in Nat
    /\ NearMissesSpaced

IInv == TokenHeld /\ RowHeld /\ RugHeld /\ CheckHeld /\ DecisionHeld /\ JobHeld /\ LogHeld

-----------------------------------------------------------------------------
(* What the token and the clock do to what was shown *)

\* What a source met since a time it has met since that time for good.
LEMMA MeasuredKept ==
  ASSUME NEW since \in [Sources -> Int], NEW later \in [Sources -> Int],
         \A s \in Sources : since[s] <= later[s],
         NEW r, Measured(since, r)
  PROVE  Measured(later, r)
<1>1. r.checked_ts \in Nat
  BY DEF Measured
<1>2. \A s \in Sources : Meets(since, s, r) => Meets(later, s, r)
  BY <1>1 DEF Meets
<1> QED
  BY <1>2 DEF Measured

LEMMA AskedKept ==
  ASSUME NEW since \in [Sources -> Int], NEW later \in [Sources -> Int],
         \A s \in Sources : since[s] <= later[s],
         NEW ch, NEW a, NEW ts \in Nat, Asked(since, ch, a, ts)
  PROVE  Asked(later, ch, a, ts)
<1>1. since["rpc"] >= ts => later["rpc"] >= ts
  BY DEF Sources
<1> QED
  BY <1>1 DEF Asked

LEMMA SoundMoves ==
  ASSUME TokenHeld, NEW w, NEW t \in Nat, now <= t, NEW later, later = SoundAt(w, t)
  PROVE  /\ later \in [Sources -> Int]
         /\ \A s \in Sources : /\ sound[s] <= later[s] /\ later[s] <= t
                               /\ IsSound(w, s) => later[s] = t
<1>1. \A s \in Sources : later[s] = IF IsSound(w, s) THEN t ELSE sound[s]
  BY DEF SoundAt
<1>2. now \in Nat /\ \A s \in Sources : sound[s] \in Int /\ sound[s] <= now
  BY DEF TokenHeld
<1>3. \A s \in Sources : later[s] \in Int
  BY <1>1, <1>2
<1>4. later \in [Sources -> Int]
  BY <1>1, <1>3 DEF SoundAt
<1> QED
  BY <1>1, <1>2, <1>4

\* An RPC answer is true when it comes: a clean one shows that the token meets
\* the RPC's checks now, and so since the check began.
LEMMA AnswerAsked ==
  ASSUME TokenHeld, NEW a \in RpcAnswers, NEW ts \in Nat, ts <= now
  PROVE  Asked(sound, chain, a, ts)
<1>1. SUFFICES ASSUME Clean(chain, a) PROVE sound["rpc"] >= ts
  BY DEF Asked
<1>2. IsSound(world, "rpc")
  <2>1. CASE chain = "solana"
    BY <1>1, <2>1 DEF RpcAnswers, Clean, IsSound
  <2>2. CASE chain # "solana"
    <3>a. a.paths \in Simulations /\ a.paths # None
      BY <1>1, <2>2 DEF RpcAnswers, Clean
    <3>0. PICK n \in {0, Len(Rules!Plan(world.rpc.bal))} :
             a.paths = Rules!Simulated(world.rpc.token, world.rpc.bal, n)
      BY <3>a DEF Simulations
    <3>1. PICK t, bal, shown : /\ t = world.rpc.token /\ bal = world.rpc.bal
                               /\ shown = Rules!Simulated(t, bal, n)
      OBVIOUS
    <3>2. shown # None /\ Rules!Failed(Rules!PathChecks(shown), TRUE) = {}
      BY <1>1, <2>2, <3>0, <3>1 DEF Clean
    <3>3. SoundToken(world.rpc.token)
      <4>1. /\ bal \in [Accounts -> Nat] /\ t.frozen \subseteq Paths
            /\ \A path \in Paths : t[path] \in Nat
            /\ \A k \in DOMAIN Rules!Plan(bal) : Rules!Plan(bal)[k].amt >= 100
        BY <2>2, <3>1, WorldsAssumption DEF TokenHeld
      <4>2. SoundToken(t)
        BY <3>1, <3>2, <4>1, PassedIsSound
      <4> QED
        BY <3>1, <4>2
    <3> QED
      BY <2>2, <3>3 DEF IsSound
  <2> QED
    BY <2>1, <2>2
<1>3. sound["rpc"] = now
  BY <1>2 DEF TokenHeld, Sources
<1> QED
  BY <1>3 DEF TokenHeld

\* A stored result is measured from the time the check began.
LEMMA StoredMeasured ==
  ASSUME TokenHeld, NEW ts \in Nat, ts <= now, NEW a, Asked(sound, chain, a, ts),
         NEW b \in BirdeyeAnswers, NEW r, r = ResultOf(a, b, ts)
  PROVE  Measured(sound, r)
<1>1. CASE chain = "solana"
  <2>1. r = Rules!SolanaResult(a, b, ts)
    BY <1>1 DEF ResultOf
  <2>2. IsResult(r) /\ r.checked_ts = ts
    <3> DEFINE checks == Rules!MintChecks(a) \cup Rules!ProfileChecks(b)
    <3>0. PICK bonus \in Int : bonus = Rules!SolanaBonus(b)
      BY BonusType
    <3>1. r = Rules!Result(checks, bonus, ts)
      BY <2>1, <3>0 DEF Rules!SolanaResult
    <3> HIDE DEF checks
    <3> QED
      BY <3>0, <3>1, ResultShape
  <2>3. ASSUME r.verdict = "SAFE", ~Capped(r)
        PROVE  \A s \in Sources : Meets(sound, s, r)
    <3>1. b # None => b = world.birdeye
      BY DEF BirdeyeAnswers
    <3>2. b # None => \A x \in {"top10", "dev", "insider", "bundler", "sniper"} :
                         b[x] = None \/ b[x] \in Int
      BY <1>1, <3>1, WorldsAssumption DEF TokenHeld
    <3>3. a # None /\ SoundMint(a) /\ b # None /\ SoundHolders(b)
      BY <2>1, <2>3, <3>2, SolanaVerdict
    <3>4. sound["rpc"] >= ts
      BY <1>1, <3>3 DEF Asked, Clean
    <3>5. IsSound(world, "birdeye")
      BY <1>1, <3>1, <3>3 DEF IsSound
    <3>6. sound["birdeye"] = now
      BY <3>5 DEF TokenHeld, Sources
    <3>7. sound["birdeye"] >= ts
      BY <3>6 DEF TokenHeld
    <3> QED
      BY <2>2, <3>4, <3>7 DEF Sources, Meets
  <2> QED
    BY <2>2, <2>3 DEF Measured
<1>2. CASE chain # "solana"
  <2>0. PICK paths, owner : paths = a.paths /\ owner = a.owner
    OBVIOUS
  <2>1. r = Rules!EvmResult(paths, owner, b, ts)
    BY <1>2, <2>0 DEF ResultOf
  <2>2. IsResult(r) /\ r.checked_ts = ts
    <3> DEFINE checks == Rules!PathChecks(paths) \cup Rules!OwnerChecks(owner) \cup Rules!TopChecks(b)
    <3>0. PICK bonus \in Int : bonus = Rules!EvmBonus(paths, owner, b)
      BY BonusType
    <3>1. r = Rules!Result(checks, bonus, ts)
      BY <2>1, <3>0 DEF Rules!EvmResult
    <3> HIDE DEF checks
    <3> QED
      BY <3>0, <3>1, ResultShape
  <2>3. ASSUME r.verdict = "SAFE"
        PROVE  \A s \in Sources : Meets(sound, s, r)
    <3>0. b = None \/ b = world.birdeye
      BY DEF BirdeyeAnswers
    <3>1. b = None \/ b \in Int
      BY <1>2, <3>0, WorldsAssumption DEF TokenHeld
    <3>2. /\ paths # None /\ Rules!Failed(Rules!PathChecks(paths), TRUE) = {}
          /\ SoundTop(b) \/ "top10_unknown" \in r.flags
      BY <2>1, <2>3, <3>1, EvmVerdict
    <3>3. Clean(chain, a)
      BY <1>2, <2>0, <3>2 DEF Clean
    <3>4. sound["rpc"] >= ts
      BY <3>3 DEF Asked
    <3>5. SoundTop(b) => sound["birdeye"] >= ts
      <4>1. SoundTop(b) => IsSound(world, "birdeye")
        BY <1>2, <3>0 DEF SoundTop, IsSound
      <4> QED
        BY <4>1 DEF TokenHeld, Sources
    <3> QED
      BY <2>2, <3>2, <3>4, <3>5 DEF Sources, Meets
  <2> QED
    BY <2>2, <2>3 DEF Measured
<1> QED
  BY <1>1, <1>2

\* No step takes back a time, and none moves the clock under a decision.
LEMMA Onward ==
  ASSUME TokenHeld, [Next]_vars
  PROVE  /\ TokenHeld'
         /\ chain' = chain /\ now <= now'
         /\ \A s \in Sources : sound[s] <= sound'[s]
         /\ job # None /\ job.stage = "decided" => now' = now
<1>1. now \in Nat /\ \A s \in Sources : sound[s] \in Int
  BY DEF TokenHeld
<1>2. CASE Tick
  <2>1. now' = now + 1 /\ sound' = SoundAt(world, now + 1) /\ chain' = chain /\ world' = world
        /\ active' = active /\ Free
    BY <1>2 DEF Tick
  <2>0. PICK later : later = SoundAt(world, now + 1)
    OBVIOUS
  <2>2. now + 1 \in Nat /\ now <= now + 1
    BY <1>1
  <2>3. /\ later \in [Sources -> Int]
        /\ \A s \in Sources : /\ sound[s] <= later[s] /\ later[s] <= now + 1
                              /\ IsSound(world, s) => later[s] = now + 1
    BY <2>0, <2>2, SoundMoves
  <2>4. sound' = later
    BY <2>0, <2>1
  <2>5. \A s \in Sources : IsSound(world, s)' <=> IsSound(world, s)
    BY <2>1 DEF IsSound
  <2>6. TokenHeld'
    BY <2>1, <2>2, <2>3, <2>4, <2>5 DEF TokenHeld, IsSound
  <2> QED
    BY <2>1, <2>2, <2>3, <2>4, <2>6 DEF Free
<1>3. CASE Change
  <2>0. PICK w \in Worlds[chain] : world' = w /\ sound' = SoundAt(w, now)
    BY <1>3 DEF Change
  <2>1. now' = now /\ chain' = chain /\ active' = active
    BY <1>3 DEF Change
  <2>2. PICK later : later = SoundAt(w, now)
    OBVIOUS
  <2>3. /\ later \in [Sources -> Int]
        /\ \A s \in Sources : /\ sound[s] <= later[s] /\ later[s] <= now
                              /\ IsSound(w, s) => later[s] = now
    BY <1>1, <2>2, SoundMoves
  <2>4. sound' = later
    BY <2>0, <2>2
  <2>5. TokenHeld'
    BY <2>0, <2>1, <2>3, <2>4 DEF TokenHeld, IsSound
  <2> QED
    BY <1>1, <2>1, <2>3, <2>4, <2>5
<1>4. CASE UNCHANGED <<now, chain, world, sound>> /\ active' \in BOOLEAN
  BY <1>1, <1>4 DEF TokenHeld, IsSound
<1>5. Tick \/ Change \/ (UNCHANGED <<now, chain, world, sound>> /\ active' \in BOOLEAN)
  BY DEF Next, vars, TokenHeld, Nominate, RugCheck, RugRpc, RugDone, Begin, UseCached, StartCheck,
         RpcAnswered, CheckDone, PersistFails, NotAlertable, Alert, Alerted, RecordFails, Crash,
         Finish, StaysActive
<1> QED
  BY <1>2, <1>3, <1>4, <1>5

-----------------------------------------------------------------------------
(* The invariant is inductive *)

LEMMA RowStep ==
  ASSUME TokenHeld, RowHeld, RugHeld, CheckHeld, [Next]_vars
  PROVE  RowHeld'
<1>1. /\ chain' = chain /\ \A s \in Sources : sound[s] <= sound'[s]
      /\ sound \in [Sources -> Int] /\ sound' \in [Sources -> Int]
  BY Onward DEF TokenHeld
<1>2. CASE row' = row
  BY <1>1, <1>2, MeasuredKept DEF RowHeld
<1>3. ASSUME NEW a, NEW ts \in Nat, ts <= now, Asked(sound, chain, a, ts),
             NEW b \in BirdeyeAnswers, row' = ResultOf(a, b, ts), sound' = sound
      PROVE  RowHeld'
  <2>0. PICK r : r = ResultOf(a, b, ts)
    OBVIOUS
  <2>1. Measured(sound, r)
    BY <1>3, <2>0, StoredMeasured
  <2> QED
    BY <1>1, <1>3, <2>0, <2>1 DEF RowHeld
<1>4. CASE RugDone
  <2>1. rug # None /\ rug.asked = "birdeye" /\ sound' = sound
    BY <1>4 DEF RugDone
  <2>2. rug.ts \in Nat /\ rug.ts <= now /\ Asked(sound, chain, rug.rpc, rug.ts)
    BY <2>1 DEF RugHeld
  <2>0. PICK b \in BirdeyeAnswers : row' = ResultOf(rug.rpc, b, rug.ts)
    BY <1>4 DEF RugDone, Store, Stamp
  <2> QED
    BY <1>3, <2>0, <2>1, <2>2
<1>5. CASE CheckDone \/ PersistFails
  <2>1. job # None /\ job.stage = "birdeye" /\ sound' = sound
    BY <1>5 DEF CheckDone, PersistFails
  <2>2. job.ts \in Nat /\ job.ts <= now /\ Asked(sound, chain, job.rpc, job.ts)
    BY <2>1 DEF CheckHeld
  <2>0. PICK b \in BirdeyeAnswers : row' = ResultOf(job.rpc, b, job.ts)
    BY <1>5 DEF CheckDone, PersistFails, Store, Stamp
  <2> QED
    BY <1>3, <2>0, <2>1, <2>2
<1>6. row' = row \/ RugDone \/ CheckDone \/ PersistFails
  BY DEF Next, vars, Tick, Change, Nominate, RugCheck, RugRpc, Begin, UseCached, StartCheck,
         RpcAnswered, NotAlertable, Alert, Alerted, RecordFails, Crash, Finish
<1> QED
  BY <1>2, <1>4, <1>5, <1>6

LEMMA RugStep ==
  ASSUME TokenHeld, RugHeld, [Next]_vars
  PROVE  RugHeld'
<1>1. /\ chain' = chain /\ now <= now' /\ now \in Nat /\ now' \in Nat
      /\ \A s \in Sources : sound[s] <= sound'[s]
      /\ sound \in [Sources -> Int] /\ sound' \in [Sources -> Int]
  BY Onward DEF TokenHeld
<1>2. CASE rug' = rug
  <2>1. SUFFICES ASSUME rug # None PROVE RugHeld'
    BY <1>2 DEF RugHeld
  <2>2. /\ rug = [x \in {"ts", "rpc", "asked"} |-> rug[x]] /\ rug.ts \in Nat /\ rug.ts <= now
        /\ rug.asked = "birdeye" => Asked(sound, chain, rug.rpc, rug.ts)
    BY <2>1 DEF RugHeld
  <2>3. rug.asked = "birdeye" => Asked(sound', chain, rug.rpc, rug.ts)
    BY <1>1, <2>2, AskedKept
  <2>4. rug.ts <= now'
    BY <1>1, <2>2
  <2> QED
    BY <1>1, <1>2, <2>2, <2>3, <2>4 DEF RugHeld
<1>3. CASE RugCheck
  <2>1. rug' = [ts |-> now, rpc |-> None, asked |-> "rpc"] /\ now' = now
    BY <1>3 DEF RugCheck
  <2>0. PICK r : r = [ts |-> now, rpc |-> None, asked |-> "rpc"]
    OBVIOUS
  <2>2. r = [x \in {"ts", "rpc", "asked"} |-> r[x]] /\ r.ts = now /\ r.rpc = None /\ r.asked = "rpc"
    BY <2>0
  <2>3. rug' = r
    BY <2>0, <2>1
  <2> QED
    BY <1>1, <2>1, <2>2, <2>3 DEF RugHeld, Asked
<1>4. CASE RugRpc
  <2>1. rug # None /\ now' = now /\ sound' = sound
    BY <1>4 DEF RugRpc
  <2>2. rug = [x \in {"ts", "rpc", "asked"} |-> rug[x]] /\ rug.ts \in Nat /\ rug.ts <= now
    BY <2>1 DEF RugHeld
  <2>0. PICK a \in RpcAnswers : rug' = [rug EXCEPT !.rpc = a, !.asked = "birdeye"]
    BY <1>4 DEF RugRpc
  <2>3. PICK r : r = [rug EXCEPT !.rpc = a, !.asked = "birdeye"]
    OBVIOUS
  <2>4. r = [x \in {"ts", "rpc", "asked"} |-> r[x]] /\ r.ts = rug.ts /\ r.rpc = a /\ r.asked = "birdeye"
    BY <2>2, <2>3
  <2>5. Asked(sound, chain, a, rug.ts)
    BY <2>0, <2>2, AnswerAsked
  <2>6. rug' = r
    BY <2>0, <2>3
  <2>7. Asked(sound', chain', r.rpc, r.ts)
    BY <1>1, <2>1, <2>4, <2>5
  <2> QED
    BY <2>1, <2>2, <2>4, <2>6, <2>7 DEF RugHeld
<1>5. CASE rug' = None
  BY <1>5 DEF RugHeld
<1>6. rug' = rug \/ RugCheck \/ RugRpc \/ rug' = None
  BY DEF Next, vars, Tick, Change, Nominate, RugDone, Begin, UseCached, StartCheck, CheckDone,
         PersistFails, RpcAnswered, NotAlertable, Alert, Alerted, RecordFails, Crash, Finish
<1> QED
  BY <1>2, <1>3, <1>4, <1>5, <1>6

\* A decision taken on a measured result, stored or just made.
LEMMA DecidedHeld ==
  ASSUME JobHeld, job # None, NEW sr, NEW fresh, Measured(sound, sr),
         fresh \/ now - sr.checked_ts <= CacheS,
         UNCHANGED <<now, chain, sound>>, Decided(sr, fresh)
  PROVE  CheckHeld' /\ DecisionHeld' /\ JobHeld'
<1>0. PICK in \in Inputs :
        job' = [job EXCEPT !.stage = "decided", !.in = in, !.sr = sr, !.fresh = fresh,
                           !.d = On(chain, in, sr), !.ts = 0, !.rpc = None]
  BY DEF Decided, DecisionOn, On, Given
<1>1. PICK d : d = On(chain, in, sr)
  OBVIOUS
<1>2. PICK j : j = [job EXCEPT !.stage = "decided", !.in = in, !.sr = sr, !.fresh = fresh,
                               !.d = d, !.ts = 0, !.rpc = None]
  OBVIOUS
<1>3. job = [x \in JobFields |-> job[x]] /\ job.eval_ts \in Nat
  BY DEF JobHeld
<1>4. /\ j = [x \in JobFields |-> j[x]] /\ j.eval_ts = job.eval_ts
      /\ j.stage = "decided" /\ j.in = in /\ j.sr = sr /\ j.fresh = fresh /\ j.d = d
  BY <1>2, <1>3 DEF JobFields
<1>5. job' = j
  BY <1>0, <1>1, <1>2
<1>6. CheckHeld'
  BY <1>4, <1>5 DEF CheckHeld
<1>7. DecisionHeld'
  BY <1>0, <1>1, <1>4, <1>5 DEF DecisionHeld
<1>8. JobHeld'
  BY <1>3, <1>4, <1>5 DEF JobHeld
<1> QED
  BY <1>6, <1>7, <1>8

LEMMA JobStep ==
  ASSUME TokenHeld, RowHeld, CheckHeld, DecisionHeld, JobHeld, [Next]_vars
  PROVE  CheckHeld' /\ DecisionHeld' /\ JobHeld'
<1>1. /\ chain' = chain /\ now <= now' /\ now \in Nat /\ now' \in Nat
      /\ \A s \in Sources : sound[s] <= sound'[s]
      /\ sound \in [Sources -> Int] /\ sound' \in [Sources -> Int]
      /\ job # None /\ job.stage = "decided" => now' = now
  BY Onward DEF TokenHeld
<1>2. CASE job' = job
  <2>1. CheckHeld'
    <3>1. SUFFICES ASSUME job # None, job.stage \in {"check", "rpc", "birdeye"} PROVE CheckHeld'
      BY <1>2 DEF CheckHeld
    <3>2. /\ job.d = None /\ job.sr = None /\ job.ts \in Nat /\ job.ts <= now
          /\ job.stage = "birdeye" => Asked(sound, chain, job.rpc, job.ts)
      BY <3>1 DEF CheckHeld
    <3>3. job.stage = "birdeye" => Asked(sound', chain, job.rpc, job.ts)
      BY <1>1, <3>2, AskedKept
    <3>4. job.ts <= now'
      BY <1>1, <3>2
    <3> QED
      BY <1>1, <1>2, <3>2, <3>3, <3>4 DEF CheckHeld
  <2>2. DecisionHeld'
    <3>1. SUFFICES ASSUME job # None, job.stage = "decided" PROVE DecisionHeld'
      BY <1>2 DEF DecisionHeld
    <3>2. /\ job.in \in Inputs /\ job.d = On(chain, job.in, job.sr)
          /\ Measured(sound, job.sr)
          /\ job.fresh \/ now - job.sr.checked_ts <= CacheS
      BY <3>1 DEF DecisionHeld
    <3>3. Measured(sound', job.sr)
      BY <1>1, <3>2, MeasuredKept
    <3> QED
      BY <1>1, <1>2, <3>1, <3>2, <3>3 DEF DecisionHeld
  <2>3. JobHeld'
    BY <1>2 DEF JobHeld
  <2> QED
    BY <2>1, <2>2, <2>3
<1>3. CASE Begin
  <2>0. PICK j : j = [stage |-> "check", eval_ts |-> now, in |-> None, ts |-> 0, rpc |-> None,
                      sr |-> None, d |-> None, fresh |-> FALSE]
    OBVIOUS
  <2>1. job' = j /\ now' = now
    BY <1>3, <2>0 DEF Begin
  <2>2. /\ j = [x \in JobFields |-> j[x]] /\ j.stage = "check" /\ j.eval_ts = now /\ j.ts = 0
        /\ j.rpc = None /\ j.sr = None /\ j.d = None
    BY <2>0 DEF JobFields
  <2>3. CheckHeld'
    BY <1>1, <2>1, <2>2 DEF CheckHeld, Asked
  <2>4. DecisionHeld'
    BY <2>1, <2>2 DEF DecisionHeld
  <2>5. JobHeld'
    BY <1>1, <2>1, <2>2 DEF JobHeld
  <2> QED
    BY <2>3, <2>4, <2>5
<1>4. CASE UseCached
  <2>1. job # None /\ row # None /\ now - row.checked_ts <= CacheS /\ UNCHANGED <<now, chain, sound>>
        /\ Decided(row, FALSE)
    BY <1>4 DEF UseCached, CacheHit
  <2>2. Measured(sound, row)
    BY <2>1 DEF RowHeld
  <2>3. PICK r : r = row
    OBVIOUS
  <2>4. Decided(r, FALSE) /\ Measured(sound, r) /\ now - r.checked_ts <= CacheS
    BY <2>1, <2>2, <2>3
  <2> QED
    BY <2>1, <2>4, DecidedHeld
<1>5. CASE CheckDone
  <2>1. job # None /\ job.stage = "birdeye" /\ UNCHANGED <<now, chain, sound>>
    BY <1>5 DEF CheckDone
  <2>2. job.ts \in Nat /\ job.ts <= now /\ Asked(sound, chain, job.rpc, job.ts)
    BY <2>1 DEF CheckHeld
  <2>0. PICK b \in BirdeyeAnswers : row' = ResultOf(job.rpc, b, job.ts) /\ Decided(row', TRUE)
    BY <1>5 DEF CheckDone, Store, Stamp
  <2>3. PICK r : r = ResultOf(job.rpc, b, job.ts)
    OBVIOUS
  <2>4. Measured(sound, r)
    BY <2>0, <2>2, <2>3, StoredMeasured
  <2>5. row' = r
    BY <2>0, <2>3
  <2>6. Decided(r, TRUE)
    BY <2>0, <2>5
  <2> QED
    BY <2>1, <2>4, <2>6, DecidedHeld
<1>6. CASE StartCheck
  <2>1. job # None /\ job.stage = "check" /\ UNCHANGED <<now, chain, sound>>
        /\ job' = [job EXCEPT !.stage = "rpc", !.ts = now]
    BY <1>6 DEF StartCheck
  <2>2. job = [x \in JobFields |-> job[x]] /\ job.eval_ts \in Nat
        /\ job.sr = None /\ job.d = None
    BY <2>1 DEF JobHeld, CheckHeld
  <2>0. PICK j : j = [job EXCEPT !.stage = "rpc", !.ts = now]
    OBVIOUS
  <2>3. /\ j = [x \in JobFields |-> j[x]] /\ j.stage = "rpc" /\ j.eval_ts = job.eval_ts /\ j.ts = now
        /\ j.sr = None /\ j.d = None
    BY <2>0, <2>2 DEF JobFields
  <2>4. job' = j
    BY <2>0, <2>1
  <2>5. CheckHeld'
    BY <1>1, <2>1, <2>3, <2>4 DEF CheckHeld, Asked
  <2>6. DecisionHeld' /\ JobHeld'
    BY <2>2, <2>3, <2>4 DEF DecisionHeld, JobHeld
  <2> QED
    BY <2>5, <2>6
<1>7. CASE RpcAnswered
  <2>1. job # None /\ job.stage = "rpc" /\ UNCHANGED <<now, chain, sound>>
    BY <1>7 DEF RpcAnswered
  <2>2. job = [x \in JobFields |-> job[x]] /\ job.eval_ts \in Nat
        /\ job.sr = None /\ job.d = None /\ job.ts \in Nat /\ job.ts <= now
    BY <2>1 DEF JobHeld, CheckHeld
  <2>0. PICK a \in RpcAnswers : job' = [job EXCEPT !.stage = "birdeye", !.rpc = a]
    BY <1>7 DEF RpcAnswered
  <2>3. PICK j : j = [job EXCEPT !.stage = "birdeye", !.rpc = a]
    OBVIOUS
  <2>4. /\ j = [x \in JobFields |-> j[x]] /\ j.stage = "birdeye" /\ j.eval_ts = job.eval_ts
        /\ j.ts = job.ts /\ j.rpc = a /\ j.sr = None /\ j.d = None
    BY <2>2, <2>3 DEF JobFields
  <2>5. job' = j
    BY <2>0, <2>3
  <2>6. Asked(sound, chain, a, job.ts)
    BY <2>0, <2>2, AnswerAsked
  <2>7. CheckHeld'
    BY <2>1, <2>2, <2>4, <2>5, <2>6 DEF CheckHeld
  <2>8. DecisionHeld' /\ JobHeld'
    BY <2>2, <2>4, <2>5 DEF DecisionHeld, JobHeld
  <2> QED
    BY <2>7, <2>8
<1>8. CASE Alert
  <2>1. job # None /\ job.stage = "decided" /\ job.d.alertable
        /\ job' = [job EXCEPT !.stage = "alert", !.in = None, !.sr = None, !.fresh = FALSE]
    BY <1>8 DEF Alert
  <2>2. job = [x \in JobFields |-> job[x]] /\ job.eval_ts \in Nat
    BY <2>1 DEF JobHeld
  <2>3. job.in \in Inputs /\ job.d = On(chain, job.in, job.sr) /\ job.sr.bonus \in Int
    BY <2>1 DEF DecisionHeld, Measured, IsResult
  <2>4. job.d.tier # "VETO"
    <3>1. chain \in DOMAIN IgnitionScore
      BY DecisionsAssumption DEF TokenHeld
    <3>2. Fits(chain, job.in, job.in.vetoes, job.sr, job.d)
      BY <2>3, <3>1, AlertableAtBar DEF On
    <3> QED
      BY <2>1, <3>2 DEF Fits
  <2>0. PICK j : j = [job EXCEPT !.stage = "alert", !.in = None, !.sr = None, !.fresh = FALSE]
    OBVIOUS
  <2>5. /\ j = [x \in JobFields |-> j[x]] /\ j.stage = "alert" /\ j.eval_ts = job.eval_ts
        /\ j.sr = None /\ j.d = job.d
    BY <2>0, <2>2 DEF JobFields
  <2>6. job' = j
    BY <2>0, <2>1
  <2>7. CheckHeld' /\ DecisionHeld'
    BY <2>5, <2>6 DEF CheckHeld, DecisionHeld
  <2>8. JobHeld'
    BY <2>1, <2>2, <2>4, <2>5, <2>6 DEF JobHeld
  <2> QED
    BY <2>7, <2>8
<1>9. CASE job' = None
  BY <1>9 DEF CheckHeld, DecisionHeld, JobHeld
<1>10. job' = job \/ Begin \/ UseCached \/ CheckDone \/ StartCheck \/ RpcAnswered \/ Alert \/ job' = None
  BY DEF Next, vars, Tick, Change, Nominate, RugCheck, RugRpc, RugDone, PersistFails, NotAlertable,
         Alerted, RecordFails, Crash, Finish
<1> QED
  BY <1>2, <1>3, <1>4, <1>5, <1>6, <1>7, <1>8, <1>9, <1>10

LEMMA SameDay ==
  ASSUME NEW x \in Nat, NEW t \in Nat, x \div DayS = t \div DayS
  PROVE  x >= t - (t % DayS)
<1>1. DayS \in Nat \ {0}
  BY DecisionsAssumption
<1>2. \A a \in Nat : /\ a \div DayS \in Int /\ a % DayS \in Nat
                     /\ a = DayS * (a \div DayS) + (a % DayS)
  BY <1>1
<1> DEFINE q == t \div DayS
           p == DayS * q
           r == t % DayS
           s == x % DayS
<1>3. q \in Int /\ r \in Nat /\ s \in Nat
  BY <1>2
<1>4. t = p + r /\ x = p + s
  BY <1>2
<1> HIDE DEF q
<1>5. p \in Int
  BY <1>1, <1>3
<1> HIDE DEF p, r, s
<1>6. x >= t - r
  BY <1>3, <1>4, <1>5
<1> QED
  BY <1>6 DEF r

\* A new row is far enough from the rows of its kind, and there is room for it
\* on its day; its day may be one that is over.
LEMMA Logged ==
  ASSUME LogHeld, NEW ts \in Nat, NEW key, Records(ts, key),
         misses' = Append(misses, [ts |-> ts, key |-> key])
  PROVE  LogHeld'
<1> DEFINE n == Len(misses)
           day(x) == misses[x].ts \div DayS
<1>0. PICK S : misses \in Seq(S)
  BY DEF LogHeld
<1>1. n \in Nat /\ DOMAIN misses = 1 .. n
  BY <1>0
<1>2. PICK e : e = [ts |-> ts, key |-> key]
  OBVIOUS
<1>3. e.ts = ts /\ e.key = key
  BY <1>2
<1>4. PICK m : m = Append(misses, e)
  OBVIOUS
<1>5. misses \in Seq(S \cup {e})
  BY <1>0, SeqMonotonic
<1>6. /\ m \in Seq(S \cup {e}) /\ Len(m) = n + 1 /\ DOMAIN m = 1 .. n + 1
      /\ \A k \in 1 .. n : m[k] = misses[k]
      /\ m[n + 1] = e
  BY <1>4, <1>5
<1>7. misses' = m
  BY <1>2, <1>4
<1> HIDE DEF n
<1>8. \A k \in 1 .. n + 1 : m[k].ts \in Nat
  BY <1>1, <1>3, <1>6 DEF LogHeld
<1>9. \A j, k \in 1 .. n + 1 : j < k /\ m[j].key = m[k].key => m[k].ts - m[j].ts >= CooldownS
  <2> SUFFICES ASSUME NEW j \in 1 .. n + 1, NEW k \in 1 .. n + 1, j < k, m[j].key = m[k].key
               PROVE  m[k].ts - m[j].ts >= CooldownS
    OBVIOUS
  <2>1. j \in 1 .. n
    BY <1>1
  <2>2. CASE k \in 1 .. n
    BY <1>1, <1>6, <2>1, <2>2 DEF LogHeld, NearMissesSpaced
  <2>3. CASE k = n + 1
    <3>1. misses[j].key = key /\ m[j] = misses[j] /\ m[k] = e
      BY <1>3, <1>6, <2>1, <2>3
    <3>2. ~(misses[j].ts > ts - CooldownS)
      BY <1>1, <2>1, <3>1 DEF Records, Recent
    <3>3. misses[j].ts \in Nat /\ CooldownS \in Nat
      BY <1>1, <2>1, DecisionsAssumption DEF LogHeld
    <3> QED
      BY <1>3, <3>1, <3>2, <3>3
  <2> QED
    BY <1>1, <2>2, <2>3
<1>10. \A d \in Int : Cardinality({j \in 1 .. n + 1 : m[j].ts \div DayS = d}) <= DailyMax
  <2> SUFFICES ASSUME NEW d \in Int
               PROVE  Cardinality({j \in 1 .. n + 1 : m[j].ts \div DayS = d}) <= DailyMax
    OBVIOUS
  <2> DEFINE Of == {j \in 1 .. n : misses[j].ts \div DayS = d}
             OfNew == {j \in 1 .. n + 1 : m[j].ts \div DayS = d}
             Today == {k \in 1 .. n : misses[k].ts >= ts - (ts % DayS)}
  <2>1. IsFiniteSet(1 .. n)
    BY <1>1, FS_Interval
  <2>2. /\ IsFiniteSet(Of) /\ IsFiniteSet(Today)
        /\ Cardinality(Of) \in Nat /\ Cardinality(Today) \in Nat
    <3>1. Of \in SUBSET (1 .. n) /\ Today \in SUBSET (1 .. n)
      OBVIOUS
    <3> HIDE DEF Of, Today
    <3> QED
      BY <2>1, <3>1, FS_Subset, FS_CardinalityType
  <2>3. DailyMax \in Nat
    BY DecisionsAssumption
  <2>4. CASE ts \div DayS # d
    <3>1. OfNew = Of
      BY <1>1, <1>3, <1>6, <2>4
    <3>2. CASE Of = {}
      <4> HIDE DEF Of, OfNew
      <4>1. Cardinality(OfNew) = 0
        BY <3>1, <3>2, FS_EmptySet
      <4> QED
        BY <2>3, <4>1 DEF OfNew
    <3>3. CASE Of # {}
      <4>0. PICK k \in 1 .. n : misses[k].ts \div DayS = d
        BY <3>3
      <4>1. {j \in DOMAIN misses : misses[j].ts \div DayS = misses[k].ts \div DayS} = Of
        BY <1>1, <4>0
      <4> QED
        BY <1>1, <3>1, <4>0, <4>1 DEF LogHeld, NearMissesSpaced
    <3> QED
      BY <3>2, <3>3
  <2>5. CASE ts \div DayS = d
    <3>1. OfNew = Of \cup {n + 1}
      BY <1>1, <1>3, <1>6, <2>5
    <3>2. Of \in SUBSET Today
      <4> SUFFICES ASSUME NEW j \in 1 .. n, misses[j].ts \div DayS = d PROVE j \in Today
        OBVIOUS
      <4>0. PICK x \in Nat : x = misses[j].ts
        BY <1>1 DEF LogHeld
      <4>1. x \div DayS = ts \div DayS
        BY <2>5, <4>0
      <4>2. x >= ts - (ts % DayS)
        BY <4>0, <4>1, SameDay
      <4> QED
        BY <4>0, <4>2
    <3>3. Cardinality(Today) < DailyMax
      BY <1>1 DEF Records, TodayCount
    <3>4. n + 1 \notin Of
      BY <1>1
    <3> HIDE DEF Of, Today, OfNew
    <3>5. Cardinality(Of) <= Cardinality(Today)
      BY <2>2, <3>2, FS_Subset
    <3>6. Cardinality(OfNew) = Cardinality(Of) + 1
      BY <2>2, <3>1, <3>4, FS_AddElement
    <3>7. Cardinality(OfNew) <= DailyMax
      BY <2>2, <2>3, <3>3, <3>5, <3>6
    <3> QED
      BY <3>7 DEF OfNew
  <2> QED
    BY <2>4, <2>5
<1>11. \A k \in 1 .. n + 1 :
          Cardinality({j \in 1 .. n + 1 : m[j].ts \div DayS = m[k].ts \div DayS}) <= DailyMax
  <2> SUFFICES ASSUME NEW k \in 1 .. n + 1
               PROVE  Cardinality({j \in 1 .. n + 1 : m[j].ts \div DayS = m[k].ts \div DayS}) <= DailyMax
    OBVIOUS
  <2>0. PICK d : d = m[k].ts \div DayS
    OBVIOUS
  <2>1. d \in Int
    BY <1>8, <2>0, DecisionsAssumption
  <2> QED
    BY <1>10, <2>0, <2>1
<1> QED
  BY <1>6, <1>7, <1>8, <1>9, <1>11 DEF LogHeld, NearMissesSpaced

LEMMA LogStep ==
  ASSUME LogHeld, JobHeld, [Next]_vars
  PROVE  LogHeld'
<1>1. CASE misses' = misses
  BY <1>1 DEF LogHeld, NearMissesSpaced
<1>2. ASSUME job # None, NEW outcome, Finish(outcome)
      PROVE  LogHeld'
  <2>0. PICK key : key = Classify(job.d, chain, outcome)
    OBVIOUS
  <2>1. PICK ts \in Nat : ts = job.eval_ts
    BY <1>2 DEF JobHeld
  <2>2. misses' = IF Records(ts, key) THEN Append(misses, [ts |-> ts, key |-> key]) ELSE misses
    BY <1>2, <2>0, <2>1 DEF Finish
  <2> QED
    BY <1>1, <2>1, <2>2, Logged
<1>3. CASE NotAlertable
  BY <1>2, <1>3 DEF NotAlertable
<1>4. CASE Alerted
  BY <1>2, <1>4 DEF Alerted
<1>6. CASE RecordFails
  <2>0. PICK key : key = Classify(job.d, chain, None)
    OBVIOUS
  <2>1. PICK ts \in Nat : ts = job.eval_ts
    BY <1>6 DEF JobHeld, RecordFails
  <2>2. misses' = misses \/ misses' = Append(misses, [ts |-> ts, key |-> key])
    BY <1>6, <2>0, <2>1 DEF RecordFails
  <2>3. Records(ts, key)
    BY <1>6, <2>0, <2>1 DEF RecordFails
  <2> QED
    BY <1>1, <2>1, <2>2, <2>3, Logged
<1>5. misses' = misses \/ NotAlertable \/ Alerted \/ RecordFails
  BY DEF Next, vars, Tick, Change, Nominate, RugCheck, RugRpc, RugDone, Begin, UseCached, StartCheck,
         RpcAnswered, CheckDone, PersistFails, Alert, Crash
<1> QED
  BY <1>1, <1>3, <1>4, <1>5, <1>6

-----------------------------------------------------------------------------
(* The theorems *)

LEMMA Initially == Init => IInv
<1> SUFFICES ASSUME Init PROVE IInv
  OBVIOUS
<1>1. TokenHeld
  <2>1. now = 0 /\ chain \in DOMAIN Worlds /\ world \in Worlds[chain] /\ active = TRUE
        /\ sound = [s \in Sources |-> IF IsSound(world, s) THEN 0 ELSE -1]
    BY DEF Init
  <2>2. \A s \in Sources : sound[s] = IF IsSound(world, s) THEN 0 ELSE -1
    BY <2>1
  <2>3. sound \in [Sources -> Int]
    BY <2>1
  <2> QED
    BY <2>1, <2>2, <2>3 DEF TokenHeld
<1>2. RowHeld /\ RugHeld /\ CheckHeld /\ DecisionHeld /\ JobHeld
  BY DEF Init, RowHeld, RugHeld, CheckHeld, DecisionHeld, JobHeld
<1>3. LogHeld
  <2>1. misses = <<>>
    BY DEF Init
  <2>2. DOMAIN misses = {} /\ misses \in Seq({})
    BY <2>1, EmptySeq
  <2> QED
    BY <2>2 DEF LogHeld, NearMissesSpaced
<1> QED
  BY <1>1, <1>2, <1>3 DEF IInv

LEMMA Invariance == Spec => []IInv
<1>1. IInv /\ [Next]_vars => IInv'
  BY Onward, RowStep, RugStep, JobStep, LogStep DEF IInv
<1> QED
  BY <1>1, Initially, PTL DEF Spec

\* evaluate_candidates with SafetyChecker.check: whatever happens to the token
\* between the answers of the two sources, whichever of two overlapping checks
\* is stored last and for whichever cache time, a CONFIRMED decision rests on a
\* token that has met every hard check and cap at or after the time its result
\* carries; only Robinhood's holders may be unknown, and the result says so.
THEOREM ConfirmedRestsOnChecksHolds == Spec => []ConfirmedRestsOnChecks
<1>1. IInv => ConfirmedRestsOnChecks
  <2> SUFFICES ASSUME IInv, job # None, job.sr # None, job.d.tier = "CONFIRMED"
               PROVE  /\ \A s \in Sources : \/ sound[s] >= job.sr.checked_ts
                                            \/ s = "birdeye" /\ "top10_unknown" \in job.sr.flags
                      /\ job.fresh \/ now - job.sr.checked_ts <= CacheS
    BY DEF ConfirmedRestsOnChecks
  <2>1. job.stage = "decided"
    BY DEF IInv, JobHeld, CheckHeld
  <2>2. /\ job.in \in Inputs /\ job.d = On(chain, job.in, job.sr)
        /\ Measured(sound, job.sr)
        /\ job.fresh \/ now - job.sr.checked_ts <= CacheS
    BY <2>1 DEF IInv, DecisionHeld
  <2>3. chain \in DOMAIN IgnitionScore
    BY DecisionsAssumption DEF IInv, TokenHeld
  <2>4. IsResult(job.sr)
    BY <2>2 DEF Measured
  <2>5. job.sr.bonus \in Int /\ job.sr.verdict \in {"SAFE", "UNSAFE", "UNKNOWN"}
    BY <2>4 DEF IsResult
  <2>6. Fits(chain, job.in, job.in.vetoes, job.sr, job.d)
    BY <2>2, <2>3, <2>5, AlertableAtBar DEF On
  <2>7. job.d.hard_vetoes = {} /\ ~Capped(job.sr)
        /\ job.d.hard_vetoes = job.in.vetoes \cup (IF job.sr.verdict = "UNSAFE" THEN {"SAFETY"} ELSE {})
    BY <2>6 DEF Fits
  <2>8. job.sr.verdict = "SAFE"
    BY <2>5, <2>7 DEF Capped
  <2> QED
    BY <2>2, <2>7, <2>8 DEF Measured, Meets
<1> QED
  BY <1>1, Invariance, PTL

\* NearMissLog.record: over every interleaving of batches, restarts and
\* midnights the log keeps its cooldown and its daily cap.
THEOREM NearMissesSpacedHolds == Spec => []NearMissesSpaced
<1>1. IInv => NearMissesSpaced
  BY DEF IInv, LogHeld
<1> QED
  BY <1>1, Invariance, PTL

\* on_tape of the evaluation: a vetoed token goes with its evaluation.
THEOREM VetoedIsRemovedHolds == Spec => VetoedIsRemoved
<1>1. IInv /\ [Next]_vars =>
        [job # None /\ job.d # None /\ job.d.tier = "VETO" /\ job' = None => ~active' \/ cut']_vars
  <2> SUFFICES ASSUME IInv, Next, job # None, job.d # None, job.d.tier = "VETO", job' = None
               PROVE  ~active' \/ cut'
    BY DEF vars
  <2>1. job.stage = "decided"
    BY DEF IInv, JobHeld, CheckHeld
  <2>2. job.in \in Inputs /\ job.d = On(chain, job.in, job.sr) /\ IsResult(job.sr)
    BY <2>1 DEF IInv, DecisionHeld, Measured
  <2>3. chain \in DOMAIN IgnitionScore
    BY DecisionsAssumption DEF IInv, TokenHeld
  <2>4. Fits(chain, job.in, job.in.vetoes, job.sr, job.d)
    BY <2>2, <2>3, AlertableAtBar DEF On, IsResult
  <2>5. job.d.hard_vetoes # {} /\ ~job.d.alertable
    BY <2>4 DEF Fits
  <2>6. CASE NotAlertable
    BY <2>5, <2>6 DEF NotAlertable, Finish, StaysActive
  <2>7. CASE RecordFails \/ Crash
    BY <2>1, <2>7 DEF RecordFails, Crash
  <2>8. NotAlertable \/ RecordFails \/ Crash
    BY <2>1, <2>5 DEF Next, Tick, Change, Nominate, RugCheck, RugRpc, RugDone, Begin, UseCached,
         StartCheck, RpcAnswered, CheckDone, PersistFails, Alert, Alerted
  <2> QED
    BY <2>6, <2>7, <2>8
<1> QED
  BY <1>1, Invariance, PTL DEF Spec, VetoedIsRemoved

\* classify of nearmiss.py against decide of scoring.py: a veto is named exactly when it alone kept the
\* alert from being, whatever the inputs.
THEOREM NearMissNamesTheCauseHolds == Spec => []NearMissNamesTheCause
<1>1. IInv => NearMissNamesTheCause
  <2> SUFFICES ASSUME IInv, job # None, job.sr # None
               PROVE  NearMissNamesTheCause
    BY DEF NearMissNamesTheCause
  <2>0. PICK in, sr, d : in = job.in /\ sr = job.sr /\ d = job.d
    OBVIOUS
  <2>1. in \in Inputs /\ d = On(chain, in, sr) /\ IsResult(sr)
    <3>1. job.stage = "decided"
      BY DEF IInv, JobHeld, CheckHeld
    <3> QED
      BY <2>0, <3>1 DEF IInv, DecisionHeld, Measured
  <2> DEFINE calm == IF sr.verdict = "UNSAFE" THEN [sr EXCEPT !.verdict = "SAFE"] ELSE sr
             seen(v) == IF v = "SAFETY" THEN calm ELSE sr
             without(v) == Given(chain, in, in.vetoes \ {v}, seen(v))
             frees == {v \in d.hard_vetoes : without(v).alertable}
             key == Classify(d, chain, None)
             hard == d.hard_vetoes
             bar == 1000 * IgnitionScore[chain]
  <2>2. chain \in DOMAIN IgnitionScore
    BY DecisionsAssumption DEF IInv, TokenHeld
  <2>3. Fits(chain, in, in.vetoes, sr, d)
    BY <2>1, <2>2, AlertableAtBar DEF On, IsResult
  <2>4. /\ d.alertable <=> d.eligible /\ hard = {} /\ d.score >= bar
        /\ d.score = Score(in.f, in.s1, sr.bonus)
        /\ hard = in.vetoes \cup (IF sr.verdict = "UNSAFE" THEN {"SAFETY"} ELSE {})
    BY <2>3 DEF Fits
  <2>5. \A v : /\ seen(v).bonus = sr.bonus
               /\ v = "SAFETY" => seen(v).verdict # "UNSAFE"
               /\ v # "SAFETY" => seen(v).verdict = sr.verdict
    <3>1. sr = [checked_ts |-> sr.checked_ts, verdict |-> sr.verdict, flags |-> sr.flags,
                bonus |-> sr.bonus]
      BY <2>1 DEF IsResult
    <3>2. [sr EXCEPT !.verdict = "SAFE"].bonus = sr.bonus /\ [sr EXCEPT !.verdict = "SAFE"].verdict = "SAFE"
      BY <3>1
    <3> QED
      BY <3>2
  <2>6. \A v \in hard : without(v).alertable <=> d.eligible /\ hard = {v} /\ d.score >= bar
    <3> SUFFICES ASSUME NEW v \in hard
                 PROVE  without(v).alertable <=> d.eligible /\ hard = {v} /\ d.score >= bar
      OBVIOUS
    <3>0. PICK s, w : s = seen(v) /\ w = without(v)
      OBVIOUS
    <3>1. /\ s.bonus = sr.bonus
          /\ v = "SAFETY" => s.verdict # "UNSAFE"
          /\ v # "SAFETY" => s.verdict = sr.verdict
      BY <2>5, <3>0
    <3>2. Fits(chain, in, in.vetoes \ {v}, s, w)
      <4>1. s.bonus \in Int
        BY <2>1, <3>1 DEF IsResult
      <4>2. w = Given(chain, in, in.vetoes \ {v}, s)
        BY <3>0
      <4> QED
        BY <2>1, <2>2, <4>1, <4>2, AlertableAtBar
    <3>3. /\ w.alertable <=> w.eligible /\ w.hard_vetoes = {} /\ w.score >= bar
          /\ w.score = d.score /\ w.eligible = d.eligible
          /\ w.hard_vetoes = (in.vetoes \ {v}) \cup (IF s.verdict = "UNSAFE" THEN {"SAFETY"} ELSE {})
      BY <2>3, <3>1, <3>2 DEF Fits
    <3>4. w.hard_vetoes = hard \ {v}
      BY <2>4, <3>1, <3>3
    <3>5. w.hard_vetoes = {} <=> hard = {v}
      BY <3>4
    <3>6. w.alertable <=> d.eligible /\ hard = {v} /\ d.score >= bar
      BY <3>3, <3>5
    <3> QED
      BY <3>0, <3>6
  <2>7. IsFiniteSet(hard)
    <3>1. IsFiniteSet(in.vetoes) /\ IsFiniteSet(in.vetoes \cup {"SAFETY"})
      BY <2>1, InputsAssumption, FS_AddElement
    <3>2. hard = in.vetoes \/ hard = in.vetoes \cup {"SAFETY"}
      BY <2>4
    <3> QED
      BY <3>1, <3>2
  <2>8. Cardinality(hard) = 1 <=> \E v : hard = {v}
    BY <2>7, FS_Singleton
  <2> HIDE DEF without, bar, hard
  <2>9. CASE VetoMiss(d, chain)
    <3>1. d.eligible /\ Cardinality(hard) = 1 /\ d.score >= bar
      BY <2>9 DEF VetoMiss, hard, bar
    <3>2. PICK v : hard = {v}
      BY <2>8, <3>1
    <3>3. hard # {} /\ ~d.alertable
      BY <2>4, <3>2
    <3>4. key = <<"veto", v>>
      <4>1. ~PolicyMiss(d, None) /\ ~ScoreMiss(d, chain)
        BY <3>3 DEF PolicyMiss, ScoreMiss, hard
      <4>2. (CHOOSE x \in hard : TRUE) = v
        BY <3>2
      <4> QED
        BY <2>9, <3>3, <4>1, <4>2 DEF Classify, hard
    <3>5. v \in in.vetoes \cup {"SAFETY"}
      BY <2>4, <3>2
    <3>6. key # None /\ key[1] = "veto" /\ key[2] = v
      BY <2>1, <3>4, <3>5, NoneAssumption
    <3>7. frees = {v}
      BY <2>6, <3>1, <3>2 DEF hard
    <3>8. frees = {key[2]}
      BY <3>6, <3>7
    <3> QED
      BY <2>0, <3>6, <3>8 DEF NearMissNamesTheCause, without, Given
  <2>10. CASE ~VetoMiss(d, chain)
    <3>1. frees = {}
      <4>1. ASSUME NEW v \in hard, without(v).alertable PROVE FALSE
        <5>1. d.eligible /\ hard = {v} /\ d.score >= bar
          BY <2>6, <4>1
        <5>2. Cardinality(hard) = 1
          BY <2>8, <5>1
        <5> QED
          BY <2>10, <5>1, <5>2 DEF VetoMiss, hard, bar
      <4> QED
        BY <4>1 DEF hard
    <3>2. key \in {<<"policy", None>>, <<"score", "score">>, <<"late", "late">>, None}
      BY <2>10 DEF Classify
    <3>3. ~(key # None /\ key[1] = "veto")
      BY <3>2
    <3> QED
      BY <2>0, <3>1, <3>3 DEF NearMissNamesTheCause, without, Given
  <2> QED
    BY <2>9, <2>10
<1> QED
  BY <1>1, Invariance, PTL

-----------------------------------------------------------------------------
(* Sums of natural numbers, for the wash score.  What folds compute is an  *)
(* induction over finite sets; here a minimal counterexample stands for it.*)

\* Among some subsets of a finite set one has no other of them as its part.
LEMMA MinimalSubset ==
  ASSUME NEW S, IsFiniteSet(S), NEW T \in SUBSET SUBSET S, T # {}
  PROVE  \E s \in T : \A t \in T : t \subseteq s => t = s
<1>1. IsWellFoundedOn(StrictSubsetOrdering(S), SUBSET S)
  BY FS_StrictSubsetOrderingWellFounded, FS_FiniteSubsetsOfFinite, Zenon
<1>2. PICK s \in T : \A t \in T : ~(<<t, s>> \in StrictSubsetOrdering(S))
  BY <1>1, WFMin
<1> QED
  BY <1>2 DEF StrictSubsetOrdering

Some(s) == CHOOSE x \in s : TRUE

\* g is the recursive function by which the community modules sum f over the subsets of S.
Sums(f, g, S) ==
    g = [s \in SUBSET S |-> IF s = {} THEN 0 ELSE f[Some(s)] + g[s \ {Some(s)}]]

LEMMA SomeIn ==
  ASSUME NEW s, s # {}
  PROVE  Some(s) \in s
BY DEF Some

\* Functions that agree on a set have the same sums over its subsets.
LEMMA SumsAgree ==
  ASSUME NEW f, NEW e, NEW g, NEW h, NEW R, NEW S, IsFiniteSet(S), R \subseteq S,
         \A i \in R : e[i] = f[i], Sums(e, g, R), Sums(f, h, S)
  PROVE  \A s \in SUBSET R : g[s] = h[s]
<1> SUFFICES ASSUME NEW u \in SUBSET R, g[u] # h[u] PROVE FALSE
  OBVIOUS
<1> DEFINE T == {s \in SUBSET R : g[s] # h[s]}
<1>1. PICK s \in T : \A t \in T : t \subseteq s => t = s
  <2>1. IsFiniteSet(R) /\ T \in SUBSET SUBSET R /\ T # {}
    BY FS_Subset
  <2> HIDE DEF T
  <2> QED BY <2>1, MinimalSubset
<1>2. s # {}
  BY DEF Sums
<1>3. Some(s) \in s /\ s \ {Some(s)} \notin T
  BY <1>1, <1>2, SomeIn
<1>4. g[s] = e[Some(s)] + g[s \ {Some(s)}] /\ h[s] = f[Some(s)] + h[s \ {Some(s)}]
  BY <1>2 DEF Sums
<1> QED
  BY <1>3, <1>4

LEMMA SumsExist ==
  ASSUME NEW f, NEW S, IsFiniteSet(S)
  PROVE  \E g : Sums(f, g, S)
<1> SUFFICES ASSUME ~ \E g : Sums(f, g, S) PROVE FALSE
  OBVIOUS
<1> DEFINE T == {s \in SUBSET S : ~ \E g : Sums(f, g, s)}
<1>1. PICK s \in T : \A t \in T : t \subseteq s => t = s
  <2>1. T \in SUBSET SUBSET S /\ S \in T
    OBVIOUS
  <2> HIDE DEF T
  <2> QED BY <2>1, MinimalSubset
<1> DEFINE sum(t) == (CHOOSE g : Sums(f, g, t))[t]
           value(t) == IF t = {} THEN 0 ELSE f[Some(t)] + sum(t \ {Some(t)})
           g == [t \in SUBSET s |-> value(t)]
<1>2. ASSUME NEW t \in SUBSET s, t # s
      PROVE  sum(t) = value(t)
  <2>1. \E h : Sums(f, h, t)
    BY <1>1, <1>2
  <2>2. PICK h : h = CHOOSE k : Sums(f, k, t)
    OBVIOUS
  <2>3. Sums(f, h, t)
    BY <2>1, <2>2
  <2>4. h[t] = IF t = {} THEN 0 ELSE f[Some(t)] + h[t \ {Some(t)}]
    BY <2>3 DEF Sums
  <2>5. CASE t # {}
    <3>1. t \ {Some(t)} \in SUBSET s /\ t \ {Some(t)} # s /\ t \ {Some(t)} \subseteq t
      BY <1>2, <2>5, SomeIn
    <3>2. \E k : Sums(f, k, t \ {Some(t)})
      BY <1>1, <3>1
    <3>3. PICK k : k = CHOOSE j : Sums(f, j, t \ {Some(t)})
      OBVIOUS
    <3>4. Sums(f, k, t \ {Some(t)})
      BY <3>2, <3>3
    <3>5. IsFiniteSet(t)
      BY FS_Subset
    <3>6. k[t \ {Some(t)}] = h[t \ {Some(t)}]
      BY <2>3, <3>1, <3>4, <3>5, SumsAgree
    <3> QED BY <2>2, <2>4, <2>5, <3>3, <3>6
  <2> QED BY <2>2, <2>4, <2>5
<1>3. \A t \in SUBSET s : t # {} => g[t \ {Some(t)}] = sum(t \ {Some(t)})
  <2> TAKE t \in SUBSET s
  <2> HAVE t # {}
  <2>1. t \ {Some(t)} \in SUBSET s /\ t \ {Some(t)} # s
    BY SomeIn
  <2> QED BY <1>2, <2>1
<1>4. Sums(f, g, s)
  <2>1. \A t \in SUBSET s : g[t] = IF t = {} THEN 0 ELSE f[Some(t)] + g[t \ {Some(t)}]
    <3> SUFFICES ASSUME NEW t \in SUBSET s
                 PROVE  g[t] = IF t = {} THEN 0 ELSE f[Some(t)] + g[t \ {Some(t)}]
      OBVIOUS
    <3>1. g[t] = value(t)
      OBVIOUS
    <3> HIDE DEF g, sum
    <3> QED BY <1>3, <3>1
  <2> HIDE DEF sum
  <2> QED BY <2>1 DEF Sums
<1> QED
  BY <1>1, <1>4

LEMMA SumUnfolds ==
  ASSUME NEW f
  PROVE  SumFunction(f) = (CHOOSE g : Sums(f, g, DOMAIN f))[DOMAIN f]
BY DEF SumFunction, SumFunctionOnSet, FoldFunctionOnSet, MapThenFoldSet, Sums, Some

LEMMA SumSolves ==
  ASSUME NEW f, IsFiniteSet(DOMAIN f)
  PROVE  \E g : Sums(f, g, DOMAIN f) /\ SumFunction(f) = g[DOMAIN f]
BY SumsExist, SumUnfolds

\* What there is to know of the sums of natural numbers over the subsets of S.
SumLaw(f, g, S) ==
    /\ g \in [SUBSET S -> Nat]
    /\ g[{}] = 0
    /\ \A s \in SUBSET S, x \in S : x \in s => g[s] = f[x] + g[s \ {x}]
    /\ \A s \in SUBSET S : SumFunction(Restrict(f, s)) = g[s]

LEMMA SumOfSubsets ==
  ASSUME NEW S, IsFiniteSet(S), NEW f \in [S -> Nat]
  PROVE  \E g : SumLaw(f, g, S)
<1>1. PICK g : Sums(f, g, S)
  BY SumsExist
<1>2. g[{}] = 0 /\ \A s \in SUBSET S : s # {} => g[s] = f[Some(s)] + g[s \ {Some(s)}]
  BY <1>1 DEF Sums
<1>3. \A s \in SUBSET S : g[s] \in Nat
  <2> SUFFICES ASSUME NEW u \in SUBSET S, g[u] \notin Nat PROVE FALSE
    OBVIOUS
  <2> DEFINE T == {s \in SUBSET S : g[s] \notin Nat}
  <2>1. PICK s \in T : \A t \in T : t \subseteq s => t = s
    <3>1. T \in SUBSET SUBSET S /\ u \in T
      OBVIOUS
    <3> HIDE DEF T
    <3> QED BY <3>1, MinimalSubset
  <2>2. s # {} /\ Some(s) \in s
    <3>1. s \in SUBSET S /\ g[s] \notin Nat
      OBVIOUS
    <3>2. s # {}
      BY <1>2, <3>1
    <3> QED BY <3>2, SomeIn
  <2>3. g[s \ {Some(s)}] \in Nat
    BY <2>1, <2>2
  <2>4. f[Some(s)] \in Nat
    BY <2>2
  <2> QED BY <1>2, <2>2, <2>3, <2>4
<1>4. \A s \in SUBSET S, x \in S : x \in s => g[s] = f[x] + g[s \ {x}]
  <2> SUFFICES ASSUME NEW u \in SUBSET S, NEW v \in u, g[u] # f[v] + g[u \ {v}] PROVE FALSE
    OBVIOUS
  <2> DEFINE T == {s \in SUBSET S : \E x \in s : g[s] # f[x] + g[s \ {x}]}
  <2>1. PICK s \in T : \A t \in T : t \subseteq s => t = s
    <3>1. T \in SUBSET SUBSET S /\ u \in T
      OBVIOUS
    <3> HIDE DEF T
    <3> QED BY <3>1, MinimalSubset
  <2>2. PICK x \in s : g[s] # f[x] + g[s \ {x}]
    OBVIOUS
  <2>3. PICK y \in s : g[s] = f[y] + g[s \ {y}]
    BY <1>2, SomeIn
  <2>4. x # y
    BY <2>2, <2>3
  <2>5. /\ g[s \ {y}] = f[x] + g[(s \ {y}) \ {x}]
        /\ g[s \ {x}] = f[y] + g[(s \ {x}) \ {y}]
    <3>1. s \ {y} \notin T /\ s \ {x} \notin T
      BY <2>1
    <3>2. s \ {y} \in SUBSET S /\ s \ {x} \in SUBSET S /\ x \in s \ {y} /\ y \in s \ {x}
      BY <2>4
    <3> QED BY <3>1, <3>2
  <2>6. (s \ {y}) \ {x} = (s \ {x}) \ {y}
    OBVIOUS
  <2>7. f[x] \in Nat /\ f[y] \in Nat /\ g[(s \ {x}) \ {y}] \in Nat
    BY <1>3
  <2>8. g[s] = f[y] + (f[x] + g[(s \ {x}) \ {y}])
    BY <2>3, <2>5, <2>6
  <2>9. g[s] = f[x] + g[s \ {x}]
    BY <2>5, <2>7, <2>8
  <2> QED BY <2>2, <2>9
<1>5. \A s \in SUBSET S : SumFunction(Restrict(f, s)) = g[s]
  <2> TAKE s \in SUBSET S
  <2> DEFINE e == Restrict(f, s)
  <2>1. IsFiniteSet(s) /\ DOMAIN e = s
    BY FS_Subset DEF Restrict
  <2>2. PICK h : Sums(e, h, s) /\ SumFunction(e) = h[s]
    BY <2>1, SumSolves
  <2>3. \A i \in s : e[i] = f[i]
    BY DEF Restrict
  <2>4. \A t \in SUBSET s : h[t] = g[t]
    <3> HIDE DEF e
    <3> QED BY <1>1, <2>2, <2>3, SumsAgree
  <2> QED BY <2>2, <2>4
<1>6. g \in [SUBSET S -> Nat]
  BY <1>1, <1>3 DEF Sums
<1> QED
  BY <1>2, <1>4, <1>5, <1>6 DEF SumLaw

\* The sum of a disjoint union is the sum of the sums.
LEMMA SumAdds ==
  ASSUME NEW S, IsFiniteSet(S), NEW f \in [S -> Nat], NEW g, SumLaw(f, g, S),
         NEW s \in SUBSET S, NEW t \in SUBSET S, s \cap t = {}
  PROVE  g[s \cup t] = g[s] + g[t]
<1> SUFFICES ASSUME g[s \cup t] # g[s] + g[t] PROVE FALSE
  OBVIOUS
<1>0. /\ g \in [SUBSET S -> Nat] /\ g[{}] = 0
      /\ \A u \in SUBSET S, x \in S : x \in u => g[u] = f[x] + g[u \ {x}]
  BY DEF SumLaw
<1> DEFINE T == {u \in SUBSET S : u \cap t = {} /\ g[u \cup t] # g[u] + g[t]}
<1>1. PICK u \in T : \A v \in T : v \subseteq u => v = u
  <2>1. T \in SUBSET SUBSET S /\ s \in T
    OBVIOUS
  <2> HIDE DEF T
  <2> QED BY <2>1, MinimalSubset
<1>2. u \in SUBSET S /\ u \cap t = {} /\ g[u \cup t] # g[u] + g[t]
  OBVIOUS
<1>3. u # {}
  <2>1. g[t] \in Nat
    BY <1>0
  <2>2. {} \cup t = t
    OBVIOUS
  <2>3. u = {} => g[u \cup t] = g[u] + g[t]
    <3> HIDE DEF T
    <3> QED BY <1>0, <1>2, <2>1, <2>2
  <2> QED BY <1>2, <2>3
<1>4. PICK x \in u : TRUE
  BY <1>3
<1>5. g[(u \ {x}) \cup t] = g[u \ {x}] + g[t]
  <2>1. u \ {x} \notin T
    BY <1>1
  <2> QED BY <1>2, <2>1
<1>6. g[u] = f[x] + g[u \ {x}]
  BY <1>0, <1>2
<1>7. g[u \cup t] = f[x] + g[(u \ {x}) \cup t]
  <2>1. (u \cup t) \ {x} = (u \ {x}) \cup t
    BY <1>2
  <2>2. u \cup t \in SUBSET S /\ x \in u \cup t /\ x \in S
    BY <1>2
  <2> QED BY <1>0, <2>1, <2>2
<1>8. f[x] \in Nat /\ g[u \ {x}] \in Nat /\ g[t] \in Nat
  BY <1>0, <1>2
<1> QED
  <2> HIDE DEF T
  <2>1. g[u \cup t] = f[x] + (g[u \ {x}] + g[t])
    BY <1>5, <1>7
  <2>2. g[u \cup t] = g[u] + g[t]
    BY <1>6, <1>8, <2>1
  <2> QED BY <1>2, <2>2

LEMMA SumType ==
  ASSUME NEW S, IsFiniteSet(S), NEW f \in [S -> Nat]
  PROVE  SumFunction(f) \in Nat
<1>1. f = Restrict(f, S)
  BY DEF Restrict
<1>2. PICK g : SumLaw(f, g, S)
  BY SumOfSubsets
<1>3. g[S] \in Nat /\ SumFunction(Restrict(f, S)) = g[S]
  BY <1>2 DEF SumLaw
<1> QED
  BY <1>1, <1>3

\* A sum is no less than what two of its members add.
LEMMA SumOfTwo ==
  ASSUME NEW S, IsFiniteSet(S), NEW f \in [S -> Nat], NEW x \in S, NEW y \in S, x # y
  PROVE  SumFunction(f) >= f[x] + f[y]
<1>1. f = Restrict(f, S)
  BY DEF Restrict
<1>2. PICK g : SumLaw(f, g, S)
  BY SumOfSubsets
<1>3. SumFunction(f) = g[S]
  BY <1>1, <1>2 DEF SumLaw
<1>4. g[S] = f[x] + g[S \ {x}] /\ g[S \ {x}] = f[y] + g[(S \ {x}) \ {y}]
  BY <1>2 DEF SumLaw
<1>5. f[x] \in Nat /\ f[y] \in Nat /\ g[(S \ {x}) \ {y}] \in Nat
  BY <1>2 DEF SumLaw
<1> QED
  BY <1>3, <1>4, <1>5

\* Summed part by part, a partition gives the sum of the whole.
LEMMA SumOfParts ==
  ASSUME NEW S, IsFiniteSet(S), NEW f \in [S -> Nat],
         NEW W, IsFiniteSet(W), NEW part \in [W -> SUBSET S],
         \A v \in W, w \in W : v # w => part[v] \cap part[w] = {},
         UNION {part[w] : w \in W} = S
  PROVE  SumFunction([w \in W |-> SumFunction(Restrict(f, part[w]))]) = SumFunction(f)
<1>1. PICK g : SumLaw(f, g, S)
  BY SumOfSubsets
<1>2. PICK e \in [W -> Nat] : e = [w \in W |-> g[part[w]]]
  BY <1>1 DEF SumLaw
<1>3. PICK h : SumLaw(e, h, W)
  BY SumOfSubsets
<1>a. /\ g[{}] = 0 /\ h[{}] = 0
      /\ \A V \in SUBSET W, w \in W : w \in V => h[V] = e[w] + h[V \ {w}]
      /\ \A s \in SUBSET S : SumFunction(Restrict(f, s)) = g[s]
  BY <1>1, <1>3 DEF SumLaw
<1> DEFINE all(V) == UNION {part[w] : w \in V}
<1>4. \A V \in SUBSET W : h[V] = g[all(V)]
  <2> SUFFICES ASSUME NEW U \in SUBSET W, h[U] # g[all(U)] PROVE FALSE
    OBVIOUS
  <2> DEFINE T == {V \in SUBSET W : h[V] # g[all(V)]}
  <2>1. PICK V \in T : \A X \in T : X \subseteq V => X = V
    <3>1. T \in SUBSET SUBSET W /\ U \in T
      OBVIOUS
    <3> HIDE DEF T
    <3> QED BY <3>1, MinimalSubset
  <2>2. V \in SUBSET W /\ h[V] # g[all(V)]
    OBVIOUS
  <2>3. V # {}
    <3>1. all({}) = {}
      OBVIOUS
    <3> QED BY <1>a, <2>2, <3>1
  <2>4. PICK w \in V : TRUE
    BY <2>3
  <2>5. h[V \ {w}] = g[all(V \ {w})]
    <3>1. V \ {w} \subseteq V /\ V \ {w} # V /\ V \ {w} \in SUBSET W
      BY <2>2, <2>4
    <3>2. V \ {w} \notin T
      <4> HIDE DEF T
      <4> QED BY <2>1, <3>1
    <3> QED BY <3>1, <3>2
  <2>6. h[V] = g[part[w]] + h[V \ {w}]
    BY <1>2, <1>a, <2>2
  <2>7. /\ all(V) = part[w] \cup all(V \ {w})
        /\ part[w] \cap all(V \ {w}) = {}
        /\ part[w] \in SUBSET S /\ all(V \ {w}) \in SUBSET S
    BY <2>2
  <2>8. g[all(V)] = g[part[w]] + g[all(V \ {w})]
    <3>1. PICK s, t : s = part[w] /\ t = all(V \ {w})
      OBVIOUS
    <3> HIDE DEF all, T
    <3>2. s \in SUBSET S /\ t \in SUBSET S /\ s \cap t = {}
      BY <2>7, <3>1
    <3>3. g[s \cup t] = g[s] + g[t]
      BY <1>1, <3>2, SumAdds
    <3> QED BY <2>7, <3>1, <3>3
  <2> QED BY <2>2, <2>5, <2>6, <2>8
<1>5. [w \in W |-> SumFunction(Restrict(f, part[w]))] = Restrict(e, W)
  BY <1>a, <1>2 DEF Restrict
<1>6. SumFunction(Restrict(e, W)) = h[W]
  BY <1>3 DEF SumLaw
<1>7. h[W] = g[S]
  BY <1>4
<1>8. f = Restrict(f, S)
  BY DEF Restrict
<1> QED
  BY <1>a, <1>5, <1>6, <1>7, <1>8

\* A set of natural numbers has a least element.
LEMMA MinOf ==
  ASSUME NEW S \in SUBSET Nat, S # {}
  PROVE  Min(S) \in S /\ \A x \in S : Min(S) <= x
<1>1. PICK n \in S : TRUE
  OBVIOUS
<1> DEFINE T == {0 .. k : k \in {j \in S : j <= n}}
<1>2. PICK m \in S : m <= n /\ \A k \in S : k <= n /\ (0 .. k) \subseteq (0 .. m) => 0 .. k = 0 .. m
  <2>0. PICK N : N = 0 .. n
    OBVIOUS
  <2>1. T \in SUBSET SUBSET N /\ T # {} /\ IsFiniteSet(N)
    <3>1. (0 .. n) \in T
      OBVIOUS
    <3>2. \A k \in S : k <= n => (0 .. k) \subseteq (0 .. n)
      OBVIOUS
    <3>3. IsFiniteSet(0 .. n)
      BY FS_Interval
    <3> QED BY <2>0, <3>1, <3>2, <3>3
  <2>2. PICK s \in T : \A t \in T : t \subseteq s => t = s
    <3> HIDE DEF T
    <3> QED BY <2>1, MinimalSubset
  <2>3. PICK m \in S : m <= n /\ s = 0 .. m
    OBVIOUS
  <2>4. ASSUME NEW k \in S, k <= n, (0 .. k) \subseteq (0 .. m) PROVE 0 .. k = 0 .. m
    <3>1. (0 .. k) \in T
      BY <2>4
    <3> HIDE DEF T
    <3> QED BY <2>2, <2>3, <2>4, <3>1
  <2> QED BY <2>3, <2>4
<1>3. \A k \in S : m <= k
  <2> SUFFICES ASSUME NEW k \in S, k < m PROVE FALSE
    OBVIOUS
  <2>1. (0 .. k) \subseteq (0 .. m) /\ k <= n /\ m \in 0 .. m /\ m \notin 0 .. k
    BY <1>2
  <2> QED BY <1>2, <2>1
<1> QED
  BY <1>3 DEF Min

\* A trade of the runs, at the time it came.
Trades == {[kind EXCEPT !.ts = ts] : kind \in Kinds, ts \in Nat}

TapeHeld ==
    /\ tape \in Seq(Trades)
    /\ \A i, j \in DOMAIN tape : i <= j => tape[i].ts <= tape[j].ts

LEMMA TradeType ==
  ASSUME NEW t \in Trades
  PROVE  t.ts \in Nat /\ t.usd \in Nat
<1>1. PICK kind \in Kinds, ts \in Nat : t = [kind EXCEPT !.ts = ts]
  BY DEF Trades
<1>2. kind \in [ts : Nat, side : {"buy", "sell"}, wallet : {kind.wallet}, usd : Nat,
                price : {kind.price}, amount : Nat]
  BY TradesAssumption DEF IsTrade
<1> QED
  BY <1>1, <1>2

LEMMA InsertAtIs ==
  ASSUME NEW S, NEW s \in Seq(S), NEW at \in 1 .. Len(s) + 1, NEW e \in S
  PROVE  /\ InsertAt(s, at, e) \in Seq(S)
         /\ Len(InsertAt(s, at, e)) = Len(s) + 1
         /\ \A i \in 1 .. Len(s) + 1 :
               InsertAt(s, at, e)[i] = IF i < at THEN s[i] ELSE IF i = at THEN e ELSE s[i - 1]
<1> DEFINE a == SubSeq(s, 1, at - 1)
           b == SubSeq(s, at, Len(s))
<1>0. Len(s) \in Nat /\ at \in Int
  OBVIOUS
<1>1. a \in Seq(S) /\ Len(a) = at - 1 /\ \A i \in 1 .. at - 1 : a[i] = s[i]
  BY <1>0
<1>2. b \in Seq(S) /\ Len(b) = Len(s) - at + 1 /\ \A i \in 1 .. Len(s) - at + 1 : b[i] = s[at + i - 1]
  BY <1>0
<1>3. InsertAt(s, at, e) = (a \o <<e>>) \o b
  BY DEF InsertAt
<1> HIDE DEF a, b
<1>4. PICK c : c = a \o <<e>>
  OBVIOUS
<1>5. c \in Seq(S) /\ Len(c) = at /\ \A i \in 1 .. at : c[i] = IF i < at THEN s[i] ELSE e
  <2>1. <<e>> \in Seq(S) /\ Len(<<e>>) = 1 /\ <<e>>[1] = e
    OBVIOUS
  <2>2. /\ a \o <<e>> \in Seq(S) /\ Len(a \o <<e>>) = Len(a) + Len(<<e>>)
        /\ \A i \in 1 .. Len(a) + Len(<<e>>) :
              (a \o <<e>>)[i] = IF i <= Len(a) THEN a[i] ELSE <<e>>[i - Len(a)]
    BY <1>1, <2>1, ConcatProperties
  <2>3. \A i \in 1 .. at : (i <= at - 1 <=> i < at) /\ (~(i < at) => i - (at - 1) = 1)
    BY <1>0
  <2> QED BY <1>0, <1>1, <1>4, <2>1, <2>2, <2>3
<1>6. /\ c \o b \in Seq(S) /\ Len(c \o b) = Len(c) + Len(b)
      /\ \A i \in 1 .. Len(c) + Len(b) :
            (c \o b)[i] = IF i <= Len(c) THEN c[i] ELSE b[i - Len(c)]
  BY <1>2, <1>5, ConcatProperties
<1>7. InsertAt(s, at, e) = c \o b /\ Len(c) + Len(b) = Len(s) + 1
  <2>1. Len(c) = at /\ Len(b) = Len(s) - at + 1
    BY <1>2, <1>5
  <2>2. InsertAt(s, at, e) = c \o b
    BY <1>3, <1>4
  <2> QED BY <1>0, <2>1, <2>2
<1>8. ASSUME NEW i \in 1 .. Len(s) + 1
      PROVE  (c \o b)[i] = IF i < at THEN s[i] ELSE IF i = at THEN e ELSE s[i - 1]
  <2>1. CASE i <= at
    <3>1. i \in 1 .. at /\ i <= Len(c) /\ (~(i < at) => i = at)
      BY <1>0, <1>5, <2>1
    <3>2. (c \o b)[i] = c[i]
      BY <1>6, <1>7, <3>1
    <3> QED BY <1>5, <3>1, <3>2
  <2>2. CASE i > at
    <3>1. i - at \in 1 .. Len(s) - at + 1 /\ at + (i - at) - 1 = i - 1
      BY <1>0, <2>2
    <3>2. ~(i <= Len(c)) /\ i - Len(c) = i - at /\ ~(i < at) /\ i # at
      BY <1>0, <1>5, <2>2
    <3>3. (c \o b)[i] = b[i - at]
      BY <1>6, <1>7, <3>2
    <3> QED BY <1>2, <3>1, <3>2, <3>3
  <2>3. i <= at \/ i > at
    BY <1>0
  <2> QED BY <2>1, <2>2, <2>3
<1> QED
  BY <1>6, <1>7, <1>8

\* The ring keeps the trades in the order of their times, although those of one
\* second come in any order and the oldest drops out (TokenTape.add).
THEOREM TapeIsHeld == WashSpec => []TapeHeld
<1>1. WashInit => TapeHeld
  BY DEF WashInit, TapeHeld
<1>2. TapeHeld /\ [WashNext]_washVars => TapeHeld'
  <2> SUFFICES ASSUME TapeHeld, [WashNext]_washVars PROVE TapeHeld'
    OBVIOUS
  <2>1. CASE UNCHANGED washVars
    BY <2>1 DEF TapeHeld, washVars
  <2>2. ASSUME NEW kind \in Kinds, NEW gap \in Gaps, Arrive(kind, gap) PROVE TapeHeld'
    <3>0. PICK at \in 1 .. Len(tape) + 1 : \E ts, new, all :
            /\ ts = IF tape = <<>> THEN 0 ELSE AsOf(tape) + gap
            /\ new = [kind EXCEPT !.ts = ts]
            /\ all = InsertAt(tape, at, new)
            /\ \A i \in DOMAIN tape : i >= at => tape[i].ts = ts
            /\ tape' = IF Len(all) > RingSize THEN Tail(all) ELSE all
      BY <2>2 DEF Arrive
    <3>1. PICK ts, new, all :
            /\ ts = IF tape = <<>> THEN 0 ELSE AsOf(tape) + gap
            /\ new = [kind EXCEPT !.ts = ts]
            /\ all = InsertAt(tape, at, new)
            /\ \A i \in DOMAIN tape : i >= at => tape[i].ts = ts
            /\ tape' = IF Len(all) > RingSize THEN Tail(all) ELSE all
      BY <3>0
    <3>2. \A i \in DOMAIN tape : tape[i] \in Trades /\ tape[i].ts \in Nat
      BY TradeType DEF TapeHeld
    <3>3. ts \in Nat /\ \A i \in DOMAIN tape : tape[i].ts <= ts
      <4>1. CASE tape = <<>>
        BY <3>1, <4>1
      <4>2. CASE tape # <<>>
        <5>1. Len(tape) \in DOMAIN tape /\ \A i \in DOMAIN tape : i <= Len(tape)
          BY <4>2 DEF TapeHeld
        <5>2. gap \in Nat
          BY TradesAssumption
        <5>3. ts = tape[Len(tape)].ts + gap
          BY <3>1, <4>2 DEF AsOf
        <5> QED BY <3>2, <5>1, <5>2, <5>3 DEF TapeHeld
      <4> QED BY <4>1, <4>2
    <3>4. new \in Trades /\ new.ts = ts
      <4>1. kind \in [ts : Nat, side : {"buy", "sell"}, wallet : {kind.wallet}, usd : Nat,
                      price : {kind.price}, amount : Nat]
        BY TradesAssumption DEF IsTrade
      <4>2. new.ts = ts
        BY <3>1, <4>1
      <4>3. \E k \in Kinds, n \in Nat : new = [k EXCEPT !.ts = n]
        BY <3>1, <3>3
      <4> QED BY <4>2, <4>3 DEF Trades
    <3>5. /\ all \in Seq(Trades) /\ Len(all) = Len(tape) + 1
          /\ \A i \in 1 .. Len(tape) + 1 :
                all[i] = IF i < at THEN tape[i] ELSE IF i = at THEN new ELSE tape[i - 1]
      <4>1. /\ InsertAt(tape, at, new) \in Seq(Trades)
            /\ Len(InsertAt(tape, at, new)) = Len(tape) + 1
            /\ \A i \in 1 .. Len(tape) + 1 :
                  InsertAt(tape, at, new)[i]
                      = IF i < at THEN tape[i] ELSE IF i = at THEN new ELSE tape[i - 1]
        BY <3>4, InsertAtIs DEF TapeHeld
      <4> QED BY <3>1, <4>1
    <3>6. tape \in Seq(Trades) /\ DOMAIN tape = 1 .. Len(tape) /\ Len(tape) \in Nat
      BY DEF TapeHeld
    <3>b. ASSUME NEW i \in 1 .. Len(tape) + 1
          PROVE  /\ i < at => i \in DOMAIN tape /\ all[i] = tape[i]
                 /\ i = at => all[i] = new
                 /\ i > at => i - 1 \in DOMAIN tape /\ i - 1 >= at /\ all[i] = tape[i - 1]
      BY <3>5, <3>6
    <3>7. ASSUME NEW i \in 1 .. Len(tape) + 1, NEW j \in 1 .. Len(tape) + 1, i <= j
          PROVE  all[i].ts <= all[j].ts
      <4>0. i \in Int /\ j \in Int /\ at \in Int
        BY <3>6
      <4>1. CASE j < at
        <5>1. i < at
          BY <3>7, <4>0, <4>1
        <5> QED BY <3>7, <3>b, <4>1, <5>1 DEF TapeHeld
      <4>2. CASE j >= at
        <5>1. all[j].ts = ts
          <6>1. CASE j = at
            BY <3>b, <3>4, <6>1
          <6>2. CASE j > at
            <7>1. PICK k \in DOMAIN tape : k = j - 1 /\ k >= at /\ all[j] = tape[k]
              BY <3>b, <6>2
            <7> QED BY <3>1, <7>1
          <6> QED BY <4>0, <4>2, <6>1, <6>2
        <5>2. all[i].ts <= ts
          <6>1. CASE i = at
            BY <3>b, <3>3, <3>4, <6>1
          <6>2. CASE i # at
            <7>1. PICK k \in DOMAIN tape : all[i] = tape[k]
              BY <3>b, <4>0, <6>2
            <7> QED BY <3>3, <7>1
          <6> QED BY <6>1, <6>2
        <5> QED BY <5>1, <5>2
      <4> QED BY <4>0, <4>1, <4>2
    <3>8. CASE Len(all) > RingSize
      <4>1. tape' = Tail(all) /\ Len(all) >= 1
        BY <3>1, <3>5, <3>6, <3>8
      <4>2. /\ tape' \in Seq(Trades) /\ DOMAIN tape' = 1 .. Len(tape)
            /\ \A i \in 1 .. Len(tape) : tape'[i] = all[i + 1]
        BY <3>5, <3>6, <4>1
      <4>3. ASSUME NEW i \in DOMAIN tape', NEW j \in DOMAIN tape', i <= j
            PROVE  tape'[i].ts <= tape'[j].ts
        <5>1. i + 1 \in 1 .. Len(tape) + 1 /\ j + 1 \in 1 .. Len(tape) + 1 /\ i + 1 <= j + 1
          BY <3>6, <4>2, <4>3
        <5> QED BY <3>7, <4>2, <5>1
      <4> QED BY <4>2, <4>3 DEF TapeHeld
    <3>9. CASE ~(Len(all) > RingSize)
      <4>1. tape' = all /\ DOMAIN tape' = 1 .. Len(tape) + 1
        BY <3>1, <3>5, <3>9
      <4> QED BY <3>5, <3>7, <4>1 DEF TapeHeld
    <3> QED BY <3>8, <3>9
  <2> QED BY <2>1, <2>2 DEF WashNext
<1> QED
  BY <1>1, <1>2, PTL DEF WashSpec

-----------------------------------------------------------------------------
(* What the features read off a tape that is held. *)

LEMMA TapeShape ==
  ASSUME TapeHeld
  PROVE  /\ Len(tape) \in Nat /\ DOMAIN tape = 1 .. Len(tape)
         /\ IsFiniteSet(DOMAIN tape)
         /\ \A i \in DOMAIN tape : tape[i].ts \in Nat /\ tape[i].usd \in Nat
<1>1. Len(tape) \in Nat /\ DOMAIN tape = 1 .. Len(tape)
  BY DEF TapeHeld
<1>2. IsFiniteSet(1 .. Len(tape))
  BY <1>1, FS_Interval
<1>3. \A i \in DOMAIN tape : tape[i] \in Trades
  BY DEF TapeHeld
<1> QED
  BY <1>1, <1>2, <1>3, TradeType

LEMMA UsdType ==
  ASSUME TapeHeld, NEW I \in SUBSET DOMAIN tape
  PROVE  Usd(tape, I) \in Nat
<1>1. IsFiniteSet(I)
  BY TapeShape, FS_Subset
<1>2. [i \in I |-> tape[i].usd] \in [I -> Nat]
  BY TapeShape
<1> QED
  BY <1>1, <1>2, SumType DEF Usd

LEMMA WalletsFinite ==
  ASSUME TapeHeld, NEW I \in SUBSET DOMAIN tape
  PROVE  IsFiniteSet(Wallets(tape, I)) /\ IsFiniteSet(I)
<1>1. IsFiniteSet(I)
  BY TapeShape, FS_Subset
<1>2. IsFiniteSet({tape[i].wallet : i \in I})
  <2>1. PICK T : T = {tape[i].wallet : i \in I}
    OBVIOUS
  <2>2. [i \in I |-> tape[i].wallet] \in Surjection(I, T)
    BY <2>1 DEF Surjection
  <2> QED BY <1>1, <2>1, <2>2, FS_Surjection
<1> QED
  BY <1>1, <1>2, FS_Difference DEF Wallets

LEMMA UsdOfType ==
  ASSUME TapeHeld, NEW I \in SUBSET DOMAIN tape, NEW ws \in SUBSET Wallets(tape, I)
  PROVE  UsdOf(ws, I) \in Nat
<1>1. IsFiniteSet(ws)
  BY WalletsFinite, FS_Subset
<1>2. \A w \in ws : Usd(tape, TradesOf(I, w)) \in Nat
  BY UsdType DEF TradesOf
<1>3. PICK f \in [ws -> Nat] : f = [w \in ws |-> Usd(tape, TradesOf(I, w))]
  BY <1>2
<1> QED
  BY <1>1, <1>3, SumType DEF UsdOf

LEMMA TopUsdType ==
  ASSUME TapeHeld, NEW I \in SUBSET DOMAIN tape
  PROVE  TopUsd(I) \in Nat
<1>1. TopWallets(I) \in SUBSET Wallets(tape, I)
  BY DEF TopWallets
<1> QED
  BY <1>1, UsdOfType DEF TopUsd

-----------------------------------------------------------------------------
(* The gates *)

\* What reaches the larger share reaches the smaller one.
LEMMA ScaledLess ==
  ASSUME NEW a \in Nat, NEW b \in Nat, NEW c \in Nat, a <= b
  PROVE  a * c <= b * c
OBVIOUS

LEMMA ShareAtLeast ==
  ASSUME NEW usd \in Nat, NEW total \in Nat, NEW percent \in Nat
  PROVE  AtLeast(Share(usd, total), percent) <=> total > 0 /\ usd * 100 >= percent * total
<1>1. <<usd, total>> # None
  BY NoneIsNoValue
<1> QED
  BY <1>1 DEF AtLeast, Share

LEMMA ShareKnown ==
  ASSUME NEW usd \in Nat, NEW total \in Nat
  PROVE  Share(usd, total) # None <=> total > 0
<1>1. <<usd, total>> # None
  BY NoneIsNoValue
<1> QED
  BY <1>1 DEF Share

\* The gates of Enricher.holdings and Enricher.tag_flows lose no veto, whatever
\* the windows, the thresholds and the trades are, as long as the gate's
\* threshold is no more than the veto's.
THEOREM GatesLoseNoVetoHolds == WashSpec => []GatesLoseNoVeto
<1>1. TapeHeld => GatesLoseNoVeto
  <2> SUFFICES ASSUME TapeHeld PROVE GatesLoseNoVeto
    OBVIOUS
  <2>1. Side(tape, Window, "sell") \in SUBSET DOMAIN tape
    BY DEF Side, Window
  <2>2. SellUsd \in Nat /\ TopUsd(Side(tape, Window, "sell")) \in Nat
    BY <2>1, UsdType, TopUsdType DEF SellUsd
  <2>3. ASSUME ~HoldingsAsked, Known = Side(tape, Window, "sell"),
               NEW H \in SUBSET Wallets(tape, DOMAIN tape)
        PROVE  DistributionCheck([w \in H |-> 100]) = {}
    <3>1. ~AtLeast(Top3Share, SellerShareMin)
      <4>1. ~(SellUsd > 0 /\ TopUsd(Side(tape, Window, "sell")) * 100 >= GateShare * SellUsd)
        BY <2>2, <2>3, ShareAtLeast, WashAssumption DEF HoldingsAsked, Top3Share
      <4>2. GateShare * SellUsd <= SellerShareMin * SellUsd
        BY <2>2, ScaledLess, WashAssumption
      <4>3. SellerShareMin \in Nat /\ GateShare \in Nat
        BY WashAssumption
      <4>4. GateShare * SellUsd \in Nat /\ SellerShareMin * SellUsd \in Nat
        BY <2>2, <4>3
      <4>5. ~(SellUsd > 0
              /\ TopUsd(Side(tape, Window, "sell")) * 100 >= SellerShareMin * SellUsd)
        BY <2>2, <4>1, <4>2, <4>4
      <4> QED BY <2>2, <4>3, <4>5, ShareAtLeast DEF Top3Share
    <3>2. Share(TopUsd(Known), Usd(tape, Known)) = Top3Share
      BY <2>3 DEF Top3Share, SellUsd
    <3> QED BY <3>1, <3>2 DEF DistributionCheck
  <2>4. ASSUME ~FlowsAsked
        PROVE  TagVetoes([dev |-> 100, insider |-> 100, bundler |-> 100]) = {}
    <3>1. SellUsd = 0
      BY <2>2, <2>4, ShareKnown DEF FlowsAsked, Top3Share
    <3> QED BY <3>1 DEF TagVetoes
  <2> QED BY <2>3, <2>4 DEF GatesLoseNoVeto
<1> QED
  BY <1>1, TapeIsHeld, PTL

-----------------------------------------------------------------------------
(* The bars *)

LEMMA StructureFromType ==
  ASSUME TapeHeld, tape # <<>>
  PROVE  StructureFrom(tape) \in 1 .. Len(tape)
<1>1. Len(tape) \in Nat /\ Len(tape) >= 1
  BY TapeShape DEF TapeHeld
<1>2. CASE FindAnchor(tape) # None
  <2>1. PICK on : on = {i \in IgnitionWindow .. Len(tape) :
                          tape[i].ts >= AsOf(tape) - Lookback /\ IsOnset(tape, i)}
    OBVIOUS
  <2>2. on # {} /\ FindAnchor(tape) = Min(on)
    BY <1>2, <2>1 DEF FindAnchor
  <2>3. IgnitionWindow \in Nat /\ IgnitionWindow >= 1
    BY FeaturesAssumption
  <2>4. on \in SUBSET Nat /\ on \subseteq IgnitionWindow .. Len(tape)
    BY <1>1, <2>1, <2>3
  <2>5. FindAnchor(tape) \in IgnitionWindow .. Len(tape)
    BY <2>2, <2>4, MinOf
  <2> QED BY <1>1, <1>2, <2>3, <2>5 DEF StructureFrom, WindowStart
<1>3. CASE FindAnchor(tape) = None
  <2>1. BarTrades \in Nat \ {0} /\ MaxBars \in Nat \ {0}
    BY FeaturesAssumption
  <2>2. BarTrades * MaxBars \in Nat /\ BarTrades * MaxBars >= 1
    BY <2>1
  <2> QED BY <1>1, <1>3, <2>2 DEF StructureFrom, Larger
<1> QED
  BY <1>2, <1>3

\* The chunks end: one that begins beyond the tape holds nothing.
LEMMA SomeChunkIsThin ==
  ASSUME TapeHeld, NEW from \in 1 .. Len(tape)
  PROVE  \E k \in 0 .. Len(tape) : Thin(tape, from, k)
<1>1. Len(tape) \in Nat /\ DOMAIN tape = 1 .. Len(tape)
  BY TapeShape
<1>2. BarTrades \in Nat \ {0}
  BY FeaturesAssumption
<1>3. Len(tape) * BarTrades >= Len(tape)
  BY <1>1, <1>2
<1>4. Chunk(tape, from, Len(tape)) = {}
  BY <1>1, <1>2, <1>3 DEF Chunk
<1>5. Cardinality(Chunk(tape, from, Len(tape))) = 0
  BY <1>4, FS_EmptySet
<1>6. 0 < Larger(2, BarTrades \div 2)
  BY <1>2 DEF Larger
<1> QED
  BY <1>1, <1>5, <1>6 DEF Thin

\* Whatever the bars are long, fewer than BarTrades of the newest trades are in
\* none of them, unless a full chunk is thin (make_bars).
THEOREM BarsReachTheEndHolds == WashSpec => []BarsReachTheEnd
<1>1. TapeHeld => BarsReachTheEnd
  <2> SUFFICES ASSUME TapeHeld, tape # <<>> PROVE BarsReachTheEnd
    BY DEF BarsReachTheEnd
  <2>1. PICK from \in 1 .. Len(tape) : from = StructureFrom(tape)
    BY StructureFromType
  <2>2. PICK thin : thin = {k \in 0 .. Len(tape) : Thin(tape, from, k)}
    OBVIOUS
  <2>3. PICK n \in 0 .. Len(tape) : n = Min(thin) /\ Thin(tape, from, n)
    <3>1. thin \in SUBSET Nat /\ thin # {}
      BY <2>2, SomeChunkIsThin, TapeShape
    <3> QED BY <2>2, <3>1, MinOf
  <2>4. Len(tape) \in Nat /\ BarTrades \in Nat \ {0} /\ MaxBars \in Nat \ {0}
    BY TapeShape, FeaturesAssumption
  <2>5. PICK m \in Nat : m = IF n <= MaxBars THEN n ELSE MaxBars
    BY <2>4
  <2>6. PICK bars : bars = MakeBars(tape, from)
    OBVIOUS
  <2>7. bars = [k \in 1 .. m |-> BarOf(tape, from, n - m + k - 1)]
    BY <2>2, <2>3, <2>5, <2>6 DEF MakeBars
  <2>8. Len(bars) = m /\ (bars = <<>> <=> m = 0)
    BY <2>7
  <2>9. SUFFICES ASSUME ~(from + (n + 1) * BarTrades <= Len(tape) + 1)
                 PROVE  \/ bars = <<>> /\ Len(tape) - from + 1 < BarTrades
                        \/ bars # <<>> /\ Len(tape) - bars[Len(bars)].i_end < BarTrades
    BY <2>1, <2>3, <2>6 DEF BarsReachTheEnd
  <2>10. CASE n = 0
    BY <2>4, <2>5, <2>8, <2>9, <2>10
  <2>11. CASE n # 0
    <3>1. m >= 1 /\ m \in 1 .. m /\ n - m + m - 1 = n - 1
      BY <2>4, <2>5, <2>11
    <3>2. bars[m].i_end = BarOf(tape, from, n - 1).i_end
      BY <2>7, <3>1
    <3>3. PICK last \in Int : last = from + ((n - 1) + 1) * BarTrades - 1
      BY <2>4
    <3>4. bars[m].i_end = IF last <= Len(tape) THEN last ELSE Len(tape)
      BY <3>2, <3>3 DEF BarOf
    <3>5. Len(tape) - last < BarTrades
      <4>1. n * BarTrades \in Nat /\ (n + 1) * BarTrades = n * BarTrades + BarTrades
        BY <2>4
      <4> QED BY <2>4, <2>9, <3>3, <4>1
    <3> QED BY <2>4, <2>8, <3>1, <3>4, <3>5
  <2> QED BY <2>10, <2>11
<1> QED
  BY <1>1, TapeIsHeld, PTL

-----------------------------------------------------------------------------
(* The anchor *)

\* The set s moved by d places.
Plus(s, d) == {x + d : x \in s}

\* Sums do not look at the places their numbers stand at.
LEMMA SumMoved ==
  ASSUME NEW S \in SUBSET Int, IsFiniteSet(S), NEW d \in Int, IsFiniteSet(Plus(S, d)),
         NEW e \in [S -> Nat], NEW f \in [Plus(S, d) -> Nat], \A x \in S : e[x] = f[x + d]
  PROVE  SumFunction(e) = SumFunction(f)
<1>0. PICK R : R = Plus(S, d)
  OBVIOUS
<1>1. PICK g : SumLaw(e, g, S)
  BY SumOfSubsets
<1>2. PICK h : SumLaw(f, h, R)
  BY <1>0, SumOfSubsets
<1>3. /\ g[{}] = 0 /\ h[{}] = 0
      /\ \A s \in SUBSET S, x \in S : x \in s => g[s] = e[x] + g[s \ {x}]
      /\ \A s \in SUBSET R, x \in R : x \in s => h[s] = f[x] + h[s \ {x}]
  BY <1>1, <1>2 DEF SumLaw
<1>4. \A s \in SUBSET S : g[s] = h[Plus(s, d)]
  <2> SUFFICES ASSUME NEW v \in SUBSET S, g[v] # h[Plus(v, d)] PROVE FALSE
    OBVIOUS
  <2> DEFINE T == {s \in SUBSET S : g[s] # h[Plus(s, d)]}
  <2>1. PICK s \in T : \A t \in T : t \subseteq s => t = s
    <3>1. PICK some, base : some = T /\ base = S
      OBVIOUS
    <3>2. some \in SUBSET SUBSET base /\ some # {} /\ IsFiniteSet(base)
      BY <3>1
    <3>3. \E s \in some : \A t \in some : t \subseteq s => t = s
      BY <3>2, MinimalSubset
    <3> QED BY <3>1, <3>3
  <2>2. s \in SUBSET S /\ g[s] # h[Plus(s, d)]
    OBVIOUS
  <2>3. s # {}
    <3>1. Plus({}, d) = {}
      BY DEF Plus
    <3> HIDE DEF T
    <3> QED BY <1>3, <2>2, <3>1
  <2>4. PICK x \in s : x \in S
    BY <2>2, <2>3
  <2>5. g[s \ {x}] = h[Plus(s \ {x}, d)]
    <3>1. s \ {x} \notin T
      BY <2>1, <2>4
    <3> QED BY <2>2, <3>1
  <2>6. PICK moved : moved = Plus(s, d)
    OBVIOUS
  <2>7. moved \in SUBSET R /\ x + d \in moved /\ x + d \in R
    BY <1>0, <2>2, <2>4, <2>6 DEF Plus
  <2>8. moved \ {x + d} = Plus(s \ {x}, d)
    <3>1. \A y \in s : y \in Int /\ (y + d = x + d => y = x)
      BY <2>2, <2>4
    <3> QED BY <2>6, <3>1 DEF Plus
  <2>9. h[moved] = f[x + d] + h[Plus(s \ {x}, d)]
    <3>1. PICK y \in R : y = x + d /\ y \in moved
      BY <2>7
    <3>2. h[moved] = f[y] + h[moved \ {y}]
      BY <1>3, <2>7, <3>1
    <3> QED BY <2>8, <3>1, <3>2
  <2>10. g[s] = e[x] + g[s \ {x}]
    BY <1>3, <2>2, <2>4
  <2> QED BY <2>2, <2>4, <2>5, <2>6, <2>9, <2>10
<1>5. e = Restrict(e, S) /\ f = Restrict(f, R)
  BY <1>0 DEF Restrict
<1>6. SumFunction(Restrict(e, S)) = g[S] /\ SumFunction(Restrict(f, R)) = h[R]
  BY <1>1, <1>2 DEF SumLaw
<1> QED
  BY <1>0, <1>4, <1>5, <1>6

\* A tape in order.
Ordered(t) ==
    /\ Len(t) \in Nat \ {0} /\ DOMAIN t = 1 .. Len(t)
    /\ \A i \in 1 .. Len(t) : t[i].ts \in Nat /\ t[i].usd \in Nat
    /\ \A i, j \in 1 .. Len(t) : i <= j => t[i].ts <= t[j].ts

\* u is the tape t without its first d trades and with one trade more.
Moves(t, u, d) ==
    /\ Ordered(t) /\ Ordered(u)
    /\ d \in {0, 1} /\ Len(u) = Len(t) + 1 - d
    /\ \A i \in 1 .. Len(t) - d : u[i] = t[i + d]

\* What a set of places shows does not depend on where the tape begins.
LEMMA MovedShowsSame ==
  ASSUME NEW t, NEW u, NEW d, Moves(t, u, d), NEW I \in SUBSET (1 .. Len(t) - d)
  PROVE  /\ Usd(u, I) = Usd(t, Plus(I, d))
         /\ Plus(Side(u, I, "buy"), d) = Side(t, Plus(I, d), "buy")
         /\ Wallets(u, I) = Wallets(t, Plus(I, d))
<1>1. d \in {0, 1} /\ Len(t) \in Nat /\ \A i \in I : i \in Int /\ i + d \in 1 .. Len(t) /\ u[i] = t[i + d]
  BY DEF Moves, Ordered
<1>2. Usd(u, I) = Usd(t, Plus(I, d))
  <2>0. PICK J : J = Plus(I, d)
    OBVIOUS
  <2>1. J \subseteq 1 .. Len(t) /\ \A i \in I : i + d \in J
    BY <1>1, <2>0 DEF Plus
  <2>2. IsFiniteSet(I) /\ IsFiniteSet(J)
    <3>1. IsFiniteSet(1 .. Len(t) - d) /\ IsFiniteSet(1 .. Len(t))
      BY <1>1, FS_Interval
    <3> QED BY <2>1, <3>1, FS_Subset
  <2>3. PICK e : e = [i \in I |-> u[i].usd]
    OBVIOUS
  <2>4. PICK f : f = [j \in J |-> t[j].usd]
    OBVIOUS
  <2>5. f \in [J -> Nat]
    BY <2>1, <2>4 DEF Moves, Ordered
  <2>6. e \in [I -> Nat] /\ \A i \in I : e[i] = f[i + d]
    <3>1. \A i \in I : e[i] = f[i + d]
      BY <1>1, <2>1, <2>3, <2>4
    <3>2. \A i \in I : f[i + d] \in Nat
      BY <2>1, <2>5
    <3> QED BY <2>3, <3>1, <3>2
  <2>7. I \in SUBSET Int /\ d \in Int
    BY <1>1
  <2>8. SumFunction(e) = SumFunction(f)
    BY <2>0, <2>2, <2>5, <2>6, <2>7, SumMoved
  <2> QED BY <2>0, <2>3, <2>4, <2>8 DEF Usd
<1>3. Plus(Side(u, I, "buy"), d) = Side(t, Plus(I, d), "buy")
  BY <1>1 DEF Plus, Side
<1>4. Wallets(u, I) = Wallets(t, Plus(I, d))
  BY <1>1 DEF Plus, Wallets
<1> QED
  BY <1>2, <1>3, <1>4

\* Where the trailing window begins moves with the trades, if the tape reaches
\* back beyond it.
LEMMA TrailingMoves ==
  ASSUME NEW t, NEW u, NEW d, Moves(t, u, d), NEW ws \in 1 .. Len(t) - d,
         d = 0 \/ u[1].ts < u[ws].ts - TrailingS
  PROVE  /\ TrailingFrom(u, ws) \in 1 .. ws
         /\ TrailingFrom(t, ws + d) = TrailingFrom(u, ws) + d
<1>1. /\ d \in {0, 1} /\ Len(t) \in Nat /\ TrailingS \in Nat
      /\ \A i \in 1 .. Len(t) - d : u[i] = t[i + d] /\ i + d \in 1 .. Len(t)
      /\ \A i \in 1 .. Len(t) : t[i].ts \in Nat
  <2>1. d \in {0, 1} /\ Len(t) \in Nat /\ TrailingS \in Nat
    BY FeaturesAssumption DEF Moves, Ordered
  <2>2. \A i \in 1 .. Len(t) - d : i + d \in 1 .. Len(t)
    BY <2>1
  <2> QED BY <2>1, <2>2 DEF Moves, Ordered
<1>2. PICK limit \in Int : limit = u[ws].ts - TrailingS /\ limit = t[ws + d].ts - TrailingS
  <2>1. u[ws] = t[ws + d] /\ t[ws + d].ts \in Nat
    BY <1>1
  <2> QED BY <1>1, <2>1
<1>3. PICK A : A = {j \in 1 .. ws : j = ws \/ u[j].ts >= limit}
  OBVIOUS
<1>4. PICK B : B = {j \in 1 .. ws + d : j = ws + d \/ t[j].ts >= limit}
  OBVIOUS
<1>5. \A j \in 1 .. ws : u[j] = t[j + d]
  BY <1>1
<1>6. \A j \in A : j + d \in B
  BY <1>1, <1>3, <1>4, <1>5
<1>7. \A j \in B : j - d \in A
  <2> TAKE j \in B
  <2>1. CASE d = 0
    BY <1>1, <1>3, <1>4, <1>5, <2>1
  <2>2. CASE d = 1
    <3>1. 1 \notin B
      <4>1. t[1].ts <= t[2].ts /\ t[1].ts \in Nat /\ t[2].ts \in Nat /\ u[1] = t[2]
        <5>1. 1 \in 1 .. Len(t) /\ 2 \in 1 .. Len(t) /\ 1 \in 1 .. Len(t) - d /\ 1 + d = 2
          BY <1>1, <2>2
        <5> QED BY <1>1, <5>1 DEF Moves, Ordered
      <4>2. u[1].ts < limit
        BY <1>2, <2>2
      <4>3. t[1].ts < limit
        BY <1>2, <4>1, <4>2
      <4>4. ws + d # 1
        BY <2>2
      <4> QED BY <1>2, <1>4, <4>1, <4>3, <4>4
    <3>2. j # 1 /\ j - 1 \in 1 .. ws /\ (j - 1) + d = j
      BY <1>4, <2>2, <3>1
    <3>3. u[j - 1] = t[j]
      BY <1>5, <3>2
    <3> QED BY <1>3, <1>4, <2>2, <3>2, <3>3
  <2> QED BY <1>1, <2>1, <2>2
<1>8. ws \in A /\ A \in SUBSET Nat /\ A \subseteq 1 .. ws /\ B \in SUBSET Nat /\ ws + d \in B
  BY <1>1, <1>3, <1>4
<1>9. /\ Min(A) \in A /\ \A j \in A : Min(A) <= j
      /\ Min(B) \in B /\ \A j \in B : Min(B) <= j
  BY <1>8, MinOf
<1>10. PICK a, b : a = Min(A) /\ b = Min(B)
  OBVIOUS
<1>11. b = a + d
  <2>1. a \in Nat /\ b \in Nat
    BY <1>8, <1>9, <1>10
  <2>2. b <= a + d
    BY <1>6, <1>9, <1>10
  <2>3. a <= b - d
    BY <1>7, <1>9, <1>10
  <2> QED BY <1>1, <2>1, <2>2, <2>3
<1>12. TrailingFrom(u, ws) = a /\ TrailingFrom(t, ws + d) = b
  BY <1>2, <1>3, <1>4, <1>10 DEF TrailingFrom
<1> QED
  BY <1>8, <1>9, <1>10, <1>11, <1>12

\* An onset reads nothing newer than itself, and nothing older than the
\* trailing window: it is one wherever the tape begins.
LEMMA OnsetIsPast ==
  ASSUME NEW t, NEW u, NEW d, Moves(t, u, d), NEW i \in IgnitionWindow .. Len(t) - d,
         d = 0 \/ Reaches(u, i)
  PROVE  IsOnset(u, i) = IsOnset(t, i + d)
<1>1. PICK ws : ws = WindowStart(i)
  OBVIOUS
<1>2. IgnitionWindow \in Nat \ {0} /\ Len(t) \in Nat /\ d \in {0, 1} /\ TrailingS \in Nat
  BY FeaturesAssumption DEF Moves, Ordered
<1>3. /\ ws \in 1 .. i /\ ws \in 1 .. Len(t) - d /\ i \in 1 .. Len(t) - d
      /\ WindowStart(i + d) = ws + d /\ i + d >= IgnitionWindow
  BY <1>1, <1>2 DEF WindowStart
<1>4. /\ u[ws] = t[ws + d] /\ u[i] = t[i + d]
      /\ u[ws].ts \in Nat /\ u[1].ts \in Nat /\ t[1].ts \in Nat
      /\ t[1].ts <= u[1].ts
  <2>1. u[ws] = t[ws + d] /\ u[i] = t[i + d] /\ u[1] = t[1 + d]
    BY <1>2, <1>3 DEF Moves
  <2>2. ws + d \in 1 .. Len(t) /\ 1 + d \in 1 .. Len(t) /\ 1 \in 1 .. Len(t) /\ 1 <= 1 + d
    BY <1>2, <1>3
  <2> QED BY <2>1, <2>2 DEF Moves, Ordered
<1>5. d = 0 \/ u[1].ts < u[ws].ts - TrailingS
  BY <1>1 DEF Reaches
<1>6. PICK from : /\ from = TrailingFrom(u, ws) /\ from \in 1 .. ws
                  /\ TrailingFrom(t, ws + d) = from + d
  BY <1>3, <1>5, TrailingMoves
<1>7. PICK W, O, V, P : /\ W = ws .. i /\ V = (ws + d) .. (i + d)
                        /\ O = TrailingTrades(u, i) /\ P = TrailingTrades(t, i + d)
  OBVIOUS
<1>8. V = Plus(W, d) /\ W \in SUBSET (1 .. Len(t) - d)
  <2>1. W \in SUBSET (1 .. Len(t) - d)
    BY <1>2, <1>3, <1>7
  <2>2. \A x \in V : x - d \in W /\ (x - d) + d = x
    BY <1>2, <1>3, <1>7
  <2>3. \A x \in W : x + d \in V
    BY <1>2, <1>3, <1>7
  <2> QED BY <2>1, <2>2, <2>3 DEF Plus
<1>9. P = Plus(O, d) /\ O \in SUBSET (1 .. Len(t) - d)
  <2>1. O = from .. ws - 1 /\ P = (from + d) .. (ws + d) - 1
    BY <1>1, <1>3, <1>6, <1>7 DEF TrailingTrades
  <2>2. O \in SUBSET (1 .. Len(t) - d)
    BY <1>2, <1>3, <1>6, <2>1
  <2>3. \A x \in P : x - d \in O /\ (x - d) + d = x
    BY <1>2, <1>3, <1>6, <2>1
  <2>4. \A x \in O : x + d \in P
    BY <1>2, <1>3, <1>6, <2>1
  <2> QED BY <2>2, <2>3, <2>4 DEF Plus
<1>10. O = {} <=> P = {}
  BY <1>9 DEF Plus
<1>11. TrailingDur(u, i) = TrailingDur(t, i + d)
  <2>1. Larger(u[1].ts, u[ws].ts - TrailingS) = Larger(t[1].ts, u[ws].ts - TrailingS)
    <3>1. CASE d = 0
      <4>1. u[1] = t[1]
        BY <1>2, <1>3, <3>1 DEF Moves
      <4> QED BY <4>1
    <3>2. CASE d = 1
      BY <1>2, <1>4, <1>5, <3>2 DEF Larger
    <3> QED BY <1>2, <3>1, <3>2
  <2>2. TrailingDur(u, i) = u[ws].ts - Larger(u[1].ts, u[ws].ts - TrailingS)
    BY <1>1 DEF TrailingDur
  <2>3. TrailingDur(t, i + d) = u[ws].ts - Larger(t[1].ts, u[ws].ts - TrailingS)
    BY <1>3, <1>4 DEF TrailingDur
  <2> QED BY <2>1, <2>2, <2>3
<1>12. Usd(u, W) = Usd(t, V) /\ Usd(u, O) = Usd(t, P)
  BY <1>8, <1>9, MovedShowsSame
<1>13. RateJumps(u, i) = RateJumps(t, i + d)
  BY <1>1, <1>3, <1>4, <1>7, <1>11, <1>12, Zenon DEF RateJumps
<1>14. Wallets(u, Side(u, W, "buy")) = Wallets(t, Side(t, V, "buy"))
  <2>1. PICK buys : buys = Side(u, W, "buy")
    OBVIOUS
  <2>2. buys \in SUBSET (1 .. Len(t) - d)
    BY <1>8, <2>1 DEF Side
  <2>3. Plus(buys, d) = Side(t, V, "buy")
    BY <1>8, <2>1, MovedShowsSame
  <2>4. Wallets(u, buys) = Wallets(t, Plus(buys, d))
    BY <2>2, MovedShowsSame
  <2> QED BY <2>1, <2>3, <2>4
<1>15. i >= IgnitionWindow
  BY <1>2
<1> QED
  BY <1>1, <1>3, <1>7, <1>10, <1>11, <1>13, <1>14, <1>15, Zenon DEF IsOnset

\* The first trade of a tape is no onset: nothing trails it.
LEMMA FirstIsNoOnset ==
  ASSUME NEW t
  PROVE  ~IsOnset(t, IgnitionWindow)
<1>1. IgnitionWindow \in Nat \ {0}
  BY FeaturesAssumption
<1>2. WindowStart(IgnitionWindow) = 1
  BY <1>1 DEF WindowStart
<1>3. PICK S : S = {j \in 1 .. 1 : j = 1 \/ t[j].ts >= t[1].ts - TrailingS}
  OBVIOUS
<1>4. S = {1}
  BY <1>3
<1>5. TrailingFrom(t, 1) = 1
  BY <1>3, <1>4, MinOf DEF TrailingFrom
<1>6. TrailingTrades(t, IgnitionWindow) = {}
  BY <1>2, <1>5 DEF TrailingTrades
<1> QED
  BY <1>6 DEF IsOnset

Onsets(t) ==
    {i \in IgnitionWindow .. Len(t) : t[i].ts >= AsOf(t) - Lookback /\ IsOnset(t, i)}

LEMMA AnchorIs ==
  ASSUME NEW t, Len(t) \in Nat
  PROVE  /\ FindAnchor(t) = None <=> Len(t) <= IgnitionWindow \/ Onsets(t) = {}
         /\ FindAnchor(t) # None =>
              /\ FindAnchor(t) \in Onsets(t) /\ \A i \in Onsets(t) : FindAnchor(t) <= i
<1>1. PICK on : on = Onsets(t)
  OBVIOUS
<1>2. on \in SUBSET Nat
  BY <1>1, FeaturesAssumption DEF Onsets
<1>3. on # {} => Min(on) \in on /\ Min(on) # None /\ \A i \in on : Min(on) <= i
  BY <1>2, MinOf, NoneIsNoValue
<1>4. FindAnchor(t) = IF Len(t) <= IgnitionWindow \/ on = {} THEN None ELSE Min(on)
  BY <1>1 DEF FindAnchor, Onsets
<1> QED
  BY <1>1, <1>3, <1>4

\* Trades come in order, into a ring that may be full and drop its oldest one:
\* the anchor stays an onset until it is older than the lookback, and is no
\* earlier than before, wherever the ring still reaches back beyond the trailing
\* window it is measured against (_find_anchor, TokenTape).
THEOREM OnsetKeptHolds == WashSpec => OnsetKept
<1>1. ASSUME TapeHeld, TapeHeld', tape # <<>>, NEW d \in {0, 1}, d = Len(tape) + 1 - Len(tape'),
             Front(tape') = SubSeq(tape, d + 1, Len(tape)),
             NEW old, old = FindAnchor(tape), NEW new, new = FindAnchor(tape')
      PROVE  /\ old # None /\ tape[old].ts >= AsOf(tape') - Lookback
                  /\ (d = 0 \/ Reaches(tape', old - d))
                => new # None /\ new <= old - d
             /\ new # None /\ new < Len(tape') /\ (d = 0 \/ Reaches(tape', new))
                => old # None /\ old <= new + d
  <2>1. PICK t, u : t = tape /\ u = tape'
    OBVIOUS
  <2>2. t \in Seq(Trades) /\ u \in Seq(Trades) /\ t # <<>>
    BY <1>1, <2>1 DEF TapeHeld
  <2>3. Moves(t, u, d)
    <3>1. Ordered(t) /\ Len(u) = Len(t) + 1 - d
      BY <1>1, <2>1, <2>2, TradeType DEF TapeHeld, Ordered
    <3>2. Ordered(u)
      <4>1. Len(u) \in Nat \ {0} /\ DOMAIN u = 1 .. Len(u)
        BY <2>2, <3>1 DEF Ordered
      <4>2. \A i \in 1 .. Len(u) : u[i].ts \in Nat /\ u[i].usd \in Nat
        BY <2>2, <4>1, TradeType
      <4>3. \A i, j \in 1 .. Len(u) : i <= j => u[i].ts <= u[j].ts
        BY <1>1, <2>1, <4>1 DEF TapeHeld
      <4> QED BY <4>1, <4>2, <4>3 DEF Ordered
    <3>3. ASSUME NEW i \in 1 .. Len(t) - d
          PROVE  u[i] = t[i + d]
      <4>1. Len(t) \in Nat /\ i \in 1 .. Len(u) - 1 /\ i \in 1 .. Len(t) - (d + 1) + 1
            /\ d + 1 + i - 1 = i + d
        BY <2>2, <3>1
      <4>2. Front(u)[i] = u[i]
        BY <2>2, <4>1 DEF Front
      <4>3. SubSeq(t, d + 1, Len(t))[i] = t[i + d]
        BY <2>2, <4>1
      <4> QED BY <1>1, <2>1, <4>2, <4>3
    <3> QED BY <3>1, <3>2, <3>3 DEF Moves
  <2>4. PICK L \in Nat \ {0} : L = Len(t) /\ Len(u) = L + 1 - d
    BY <2>3 DEF Moves, Ordered
  <2>5. /\ IgnitionWindow \in Nat \ {0} /\ Lookback \in Nat
        /\ \A i \in 1 .. L : t[i].ts \in Nat
        /\ \A i \in 1 .. L - d : u[i] = t[i + d]
    BY <2>3, <2>4, FeaturesAssumption DEF Moves, Ordered
  <2>6. PICK a, b \in Nat : a = AsOf(t) /\ b = AsOf(u) /\ (L - d >= 1 => a <= b)
    <3>1. L \in 1 .. Len(t) /\ L + 1 - d \in 1 .. Len(u) /\ Len(t) \in Nat /\ Len(u) \in Nat
      BY <2>4
    <3>2. t[L].ts \in Nat /\ u[L + 1 - d].ts \in Nat
      BY <2>3, <3>1 DEF Moves, Ordered
    <3>3. ASSUME L - d >= 1 PROVE t[L].ts <= u[L + 1 - d].ts
      <4>1. L - d \in 1 .. L - d /\ L - d \in 1 .. Len(u) /\ L - d <= L + 1 - d /\ (L - d) + d = L
        BY <2>4, <3>3
      <4>2. u[L - d] = t[L]
        BY <2>5, <4>1
      <4>3. u[L - d].ts <= u[L + 1 - d].ts
        BY <2>3, <3>1, <4>1 DEF Moves, Ordered
      <4> QED BY <4>2, <4>3
    <3> QED BY <2>4, <3>2, <3>3 DEF AsOf
  <2>7. /\ old = None <=> L <= IgnitionWindow \/ Onsets(t) = {}
        /\ old # None => old \in Onsets(t) /\ \A i \in Onsets(t) : old <= i
        /\ new = None <=> L + 1 - d <= IgnitionWindow \/ Onsets(u) = {}
        /\ new # None => new \in Onsets(u) /\ \A i \in Onsets(u) : new <= i
    <3>1. Len(t) \in Nat /\ Len(u) \in Nat
      BY <2>4
    <3> QED BY <1>1, <2>1, <2>4, <3>1, AnchorIs
  <2>8. ASSUME NEW i \in IgnitionWindow .. L - d, d = 0 \/ Reaches(u, i)
        PROVE  /\ i + d \in Onsets(t) <=> t[i + d].ts >= a - Lookback /\ IsOnset(t, i + d)
               /\ i \in Onsets(u) <=> t[i + d].ts >= b - Lookback /\ IsOnset(t, i + d)
    <3>1. i + d \in IgnitionWindow .. Len(t) /\ i \in IgnitionWindow .. Len(u) /\ u[i] = t[i + d]
      BY <2>4, <2>5
    <3>2. IsOnset(u, i) = IsOnset(t, i + d)
      <4>1. i \in IgnitionWindow .. Len(t) - d
        BY <2>4
      <4> QED BY <2>3, <2>8, <4>1, OnsetIsPast
    <3> QED BY <2>6, <3>1, <3>2 DEF Onsets
  <2>9. /\ Onsets(t) \subseteq IgnitionWindow .. L
        /\ Onsets(u) \subseteq IgnitionWindow .. L + 1 - d
    BY <2>4 DEF Onsets
  <2>10. ASSUME old # None, t[old].ts >= b - Lookback, d = 0 \/ Reaches(u, old - d)
         PROVE  new # None /\ new <= old - d
    <3>1. /\ old \in Onsets(t) /\ old \in IgnitionWindow .. L /\ L > IgnitionWindow
      BY <2>5, <2>7, <2>9, <2>10
    <3>2. PICK i : i = old - d
      OBVIOUS
    <3>3. /\ i \in IgnitionWindow .. L - d /\ i + d = old
          /\ d = 0 \/ Reaches(u, i)
      BY <2>5, <2>10, <3>1, <3>2 DEF Reaches
    <3>4. i \in Onsets(u)
      BY <2>8, <2>10, <3>1, <3>3
    <3>5. L + 1 - d > IgnitionWindow
      BY <2>5, <3>1
    <3> QED BY <2>5, <2>7, <3>2, <3>4, <3>5
  <2>11. ASSUME new # None, new < L + 1 - d, d = 0 \/ Reaches(u, new)
         PROVE  old # None /\ old <= new + d
    <3>1. /\ new \in Onsets(u) /\ new \in IgnitionWindow .. L - d /\ L + 1 - d > IgnitionWindow
      BY <2>5, <2>7, <2>9, <2>11
    <3>2. a <= b
      BY <2>5, <2>6, <3>1
    <3>3. new + d \in 1 .. L
      BY <2>5, <3>1
    <3>4. t[new + d].ts \in Nat /\ t[new + d].ts >= b - Lookback /\ IsOnset(t, new + d)
      BY <2>5, <2>8, <2>11, <3>1, <3>3
    <3>5. new + d \in Onsets(t)
      BY <2>5, <2>6, <2>8, <2>11, <3>1, <3>2, <3>4
    <3>6. L > IgnitionWindow
      <4>1. CASE d = 1
        BY <3>1, <4>1
      <4>2. CASE d = 0
        <5>1. ASSUME L <= IgnitionWindow PROVE FALSE
          <6>1. new = IgnitionWindow
            BY <2>5, <3>1, <4>2, <5>1
          <6> QED BY <2>5, <3>4, <4>2, <6>1, FirstIsNoOnset
        <5> QED BY <2>5, <5>1
      <4> QED BY <4>1, <4>2
    <3> QED BY <2>5, <2>7, <3>5, <3>6
  <2>12. /\ AsOf(tape') = b /\ Len(tape') = L + 1 - d
         /\ Reaches(tape', old - d) = Reaches(u, old - d)
         /\ Reaches(tape', new) = Reaches(u, new)
    BY <2>1, <2>4, <2>6
  <2> QED BY <2>1, <2>10, <2>11, <2>12
<1>2. TapeHeld /\ TapeHeld' /\ [WashNext]_washVars =>
        [LET d   == Len(tape) + 1 - Len(tape')
             old == FindAnchor(tape)
             new == FindAnchor(tape')
             whole(i) == d = 0 \/ Reaches(tape', i)
         IN d \in {0, 1} /\ tape # <<>> /\ Front(tape') = SubSeq(tape, d + 1, Len(tape)) =>
              /\ old # None /\ tape[old].ts >= AsOf(tape') - Lookback /\ whole(old - d)
                 => new # None /\ new <= old - d
              /\ new # None /\ new < Len(tape') /\ whole(new)
                 => old # None /\ old <= new + d]_washVars
  BY <1>1
<1> QED
  BY <1>2, TapeIsHeld, PTL DEF WashSpec, OnsetKept

-----------------------------------------------------------------------------
(* The wash score *)

LEMMA QuotientType ==
  ASSUME NEW a \in Int, NEW b \in Nat, b > 0
  PROVE  a \div b \in Int /\ (a >= 0 => a \div b \in Nat)
OBVIOUS

LEMMA QuotientAtLeast ==
  ASSUME NEW a \in Nat, NEW b \in Nat, NEW k \in Nat, b > 0, a >= k * b
  PROVE  a \div b >= k
<1>1. PICK q \in Int, r \in Int : q = a \div b /\ r = a % b /\ a = b * q + r /\ 0 <= r /\ r < b
  OBVIOUS
<1>2. ASSUME q < k PROVE FALSE
  <2>1. (k - (q + 1)) * b >= 0
    BY <1>2
  <2>2. (k - (q + 1)) * b = k * b - b * q - b
    OBVIOUS
  <2> QED BY <1>1, <2>1, <2>2
<1> QED
  BY <1>1, <1>2

IsNatRatio(r) == r \in Nat \X Nat

LEMMA NormType ==
  ASSUME NEW c \in Ramps, NEW r, r = None \/ IsNatRatio(r)
  PROVE  Norm(r, c) \in Nat
<1>1. CASE r = None
  BY <1>1 DEF Norm
<1>2. CASE r # None
  <2>1. PICK x \in Nat, y \in Nat : x = r[1] /\ y = r[2]
    BY <1>2 DEF IsNatRatio
  <2>2. PICK l \in Nat, h \in Nat : l = Lo[c] /\ h = Hi[c] /\ l < h
    BY WashAssumption
  <2>3. Norm(r, c) = IF x * 100 <= l * y THEN 0 ELSE IF x * 100 >= h * y THEN 1000
                     ELSE ((x * 100 - l * y) * 1000) \div (y * (h - l))
    BY <1>2, <2>1, <2>2 DEF Norm
  <2>4. ASSUME ~(x * 100 <= l * y), ~(x * 100 >= h * y)
        PROVE  ((x * 100 - l * y) * 1000) \div (y * (h - l)) \in Nat
    <3>1. l * y \in Nat /\ h * y \in Nat
      BY <2>2
    <3>2. y # 0
      BY <2>4
    <3>3. y * (h - l) \in Nat /\ y * (h - l) > 0
      BY <2>2, <3>2
    <3>4. (x * 100 - l * y) * 1000 \in Int /\ (x * 100 - l * y) * 1000 >= 0
      BY <2>4, <3>1
    <3> QED BY <3>3, <3>4, QuotientType
  <2> QED BY <2>3, <2>4
<1> QED
  BY <1>1, <1>2

\* A share of everything is saturated.
LEMMA FullShareSaturates ==
  ASSUME NEW c \in {"roundtrip", "top"}, NEW usd \in Nat, usd > 0
  PROVE  Norm(Share(usd, usd), c) = 1000
<1>1. c \in Ramps /\ Hi[c] <= 100
  BY SaturationAssumption DEF Ramps
<1>2. PICK l \in Nat, h \in Nat : l = Lo[c] /\ h = Hi[c] /\ l < h /\ h <= 100
  BY <1>1, WashAssumption
<1>3. <<usd, usd>> # None
  BY NoneIsNoValue
<1>4. ~(usd * 100 <= l * usd)
  BY <1>2
<1>5. usd * 100 >= h * usd
  BY <1>2
<1> QED
  BY <1>2, <1>3, <1>4, <1>5 DEF Norm, Share

\* The wallets of a window hold all of its USD, if every trade names one.
LEMMA WalletsHoldAll ==
  ASSUME TapeHeld, NEW I \in SUBSET DOMAIN tape, \A i \in I : tape[i].wallet # None
  PROVE  UsdOf(Wallets(tape, I), I) = Usd(tape, I)
<1>1. PICK W : W = Wallets(tape, I)
  OBVIOUS
<1>2. PICK f \in [I -> Nat] : f = [i \in I |-> tape[i].usd]
  BY TapeShape
<1>3. IsFiniteSet(I) /\ IsFiniteSet(W)
  BY <1>1, WalletsFinite
<1>4. PICK part \in [W -> SUBSET I] : part = [w \in W |-> TradesOf(I, w)]
  BY DEF TradesOf
<1>5. \A v \in W, w \in W : v # w => part[v] \cap part[w] = {}
  BY <1>4 DEF TradesOf
<1>6. UNION {part[w] : w \in W} = I
  <2>1. \A i \in I : tape[i].wallet \in W /\ i \in part[tape[i].wallet]
    BY <1>1, <1>4 DEF Wallets, TradesOf
  <2> QED BY <1>4, <2>1
<1>7. SumFunction([w \in W |-> SumFunction(Restrict(f, part[w]))]) = SumFunction(f)
  BY <1>3, <1>5, <1>6, SumOfParts
<1>8. \A w \in W : Usd(tape, TradesOf(I, w)) = SumFunction(Restrict(f, part[w]))
  <2> TAKE w \in W
  <2>1. [i \in part[w] |-> tape[i].usd] = Restrict(f, part[w])
    BY <1>2, <1>4 DEF Restrict
  <2> QED BY <1>4, <2>1 DEF Usd
<1>9. [w \in W |-> Usd(tape, TradesOf(I, w))] = [w \in W |-> SumFunction(Restrict(f, part[w]))]
  BY <1>8
<1> QED
  BY <1>1, <1>2, <1>7, <1>9 DEF UsdOf, Usd

\* Few wallets are all among the top.
LEMMA FewAreTop ==
  ASSUME TapeHeld, NEW I \in SUBSET DOMAIN tape, Cardinality(Wallets(tape, I)) <= TopN
  PROVE  TopWallets(I) = Wallets(tape, I)
<1>1. PICK W : W = Wallets(tape, I) /\ IsFiniteSet(W)
  BY WalletsFinite
<1>2. ASSUME NEW w \in W PROVE w \in TopWallets(I)
  <2> DEFINE before(v) == \/ Usd(tape, TradesOf(I, v)) > Usd(tape, TradesOf(I, w))
                          \/ /\ Usd(tape, TradesOf(I, v)) = Usd(tape, TradesOf(I, w))
                             /\ Min(TradesOf(I, v)) < Min(TradesOf(I, w))
  <2>1. ~before(w)
    <3>1. TradesOf(I, w) \in SUBSET DOMAIN tape /\ TradesOf(I, w) # {}
      BY <1>1, <1>2 DEF TradesOf, Wallets
    <3>2. TradesOf(I, w) \in SUBSET Nat
      BY <3>1, TapeShape
    <3>3. Usd(tape, TradesOf(I, w)) \in Nat /\ Min(TradesOf(I, w)) \in Nat
      BY <3>1, <3>2, UsdType, MinOf
    <3> QED BY <3>3
  <2>2. PICK B : B = {v \in W : before(v)}
    OBVIOUS
  <2>3. B \subseteq W \ {w}
    BY <2>1, <2>2
  <2>4. Cardinality(B) < TopN
    <3>1. Cardinality(W \ {w}) = Cardinality(W) - 1 /\ IsFiniteSet(W \ {w})
      BY <1>1, <1>2, FS_RemoveElement
    <3>2. Cardinality(B) <= Cardinality(W \ {w}) /\ IsFiniteSet(B)
      BY <2>3, <3>1, FS_Subset
    <3>3. Cardinality(B) \in Nat /\ Cardinality(W) \in Nat /\ TopN \in Nat
      BY <1>1, <3>2, FS_CardinalityType, WashAssumption
    <3> QED BY <1>1, <3>1, <3>2, <3>3
  <2> HIDE DEF before
  <2>5. Cardinality({v \in Wallets(tape, I) : before(v)}) < TopN
    BY <1>1, <2>2, <2>4
  <2> USE DEF before
  <2> QED BY <1>1, <1>2, <2>5 DEF TopWallets
<1>3. TopWallets(I) \subseteq W
  BY <1>1 DEF TopWallets
<1> QED
  BY <1>1, <1>2, <1>3

LEMMA SideType ==
  ASSUME TapeHeld, NEW i \in DOMAIN tape
  PROVE  tape[i].side \in {"buy", "sell"}
<1>1. PICK kind \in Kinds, ts \in Nat : tape[i] = [kind EXCEPT !.ts = ts]
  BY DEF TapeHeld, Trades
<1>2. kind \in [ts : Nat, side : {"buy", "sell"}, wallet : {kind.wallet}, usd : Nat,
                price : {kind.price}, amount : Nat]
  BY TradesAssumption DEF IsTrade
<1> QED
  BY <1>1, <1>2

\* The parts of a wash score weigh nothing negative.
LEMMA PartsType ==
  ASSUME TapeHeld, NEW I \in SUBSET DOMAIN tape,
         NEW share, share = None \/ (share \in Nat \X Nat /\ share[2] > 0)
  PROVE  WashComponents(I, share) \in [Ramps \cup {"count_trap"} -> Nat]
<1>1. \A J \in SUBSET DOMAIN tape : Usd(tape, J) \in Nat /\ IsFiniteSet(J) /\ Cardinality(J) \in Nat
  BY UsdType, WalletsFinite, FS_CardinalityType
<1>2. \A usd \in Nat, total \in Nat : Share(usd, total) = None \/ IsNatRatio(Share(usd, total))
  BY DEF Share, IsNatRatio
<1>3. Norm(Share(UsdOf(RoundTrippers(I), I), Usd(tape, I)), "roundtrip") \in Nat
  <2>1. RoundTrippers(I) \in SUBSET Wallets(tape, I)
    BY DEF RoundTrippers
  <2>2. UsdOf(RoundTrippers(I), I) \in Nat /\ Usd(tape, I) \in Nat
    BY <2>1, <1>1, UsdOfType
  <2> QED BY <1>2, <2>2, NormType DEF Ramps
<1>4. Norm(Share(TopUsd(I), Usd(tape, I)), "top") \in Nat
  BY <1>1, <1>2, TopUsdType, NormType DEF Ramps
<1>5. Norm(Uniformity(I), "uniform") \in Nat
  <2>1. Uniformity(I) = None \/ IsNatRatio(Uniformity(I))
    <3> DEFINE rank(i) == Cardinality({j \in I : \/ tape[j].usd < tape[i].usd
                                                 \/ tape[j].usd = tape[i].usd /\ j < i})
    <3>1. PICK n \in Nat : n = Cardinality(I)
      BY <1>1
    <3>2. PICK middle : middle = {i \in I : rank(i) \in {(n - 1) \div 2, n \div 2}}
      OBVIOUS
    <3>3. Usd(tape, middle) \in Nat /\ Cardinality(middle) \in Nat /\ Usd(tape, I) \in Nat
      BY <1>1, <3>2
    <3>4. Uniformity(I) = IF Usd(tape, I) > 0
                          THEN <<Usd(tape, middle) * n, Cardinality(middle) * Usd(tape, I)>>
                          ELSE None
      BY <3>1, <3>2 DEF Uniformity
    <3> HIDE DEF rank
    <3>5. Usd(tape, middle) * n \in Nat /\ Cardinality(middle) * Usd(tape, I) \in Nat
      BY <3>3
    <3> QED BY <3>4, <3>5 DEF IsNatRatio
  <2> QED BY <2>1, NormType DEF Ramps
<1>6. Churn(I, share) \in Nat
  <2>1. PICK ws \in Nat : ws = Cardinality(Wallets(tape, I))
    BY WalletsFinite, FS_CardinalityType
  <2>2. PICK tpw \in Nat : tpw = Norm(IF ws > 0 THEN <<Cardinality(I), ws>> ELSE None, "churn")
    <3>1. <<Cardinality(I), ws>> \in Nat \X Nat
      BY <1>1
    <3> QED BY <3>1, NormType DEF Ramps, IsNatRatio
  <2>3. PICK seen \in Int : seen = IF share = None THEN 0
                                   ELSE ((share[2] - share[1]) * 500) \div share[2]
    <3>1. CASE share = None
      BY <3>1
    <3>2. CASE share # None
      <4>1. PICK x \in Nat, y \in Nat : x = share[1] /\ y = share[2] /\ y > 0
        BY <3>2
      <4>2. ((y - x) * 500) \div y \in Int
        BY <4>1, QuotientType
      <4> QED BY <3>2, <4>1, <4>2
    <3> QED BY <3>1, <3>2
  <2> QED BY <2>1, <2>2, <2>3 DEF Churn, Larger
<1> QED
  BY <1>3, <1>4, <1>5, <1>6 DEF WashComponents, Ramps

LEMMA NewShareType ==
  ASSUME TapeHeld, NEW share, share = Compute(tape).wash.new_wallet_share
  PROVE  share = None \/ (share \in Nat \X Nat /\ share[2] > 0)
<1>1. PICK I : I = LastN(tape, WashWindow, MaxAge)
  OBVIOUS
<1>2. share = WindowStats(tape, I).new_wallet_share
  BY <1>1 DEF Compute
<1>3. PICK buys : buys = Side(tape, I, "buy")
  OBVIOUS
<1>4. PICK prior : prior = Wallets(tape, {j \in DOMAIN tape : \A i \in I : j < i})
  OBVIOUS
<1>5. PICK new : new = {i \in buys : tape[i].wallet \notin prior \cup {None}}
  OBVIOUS
<1>6. share = None \/ share = <<Usd(tape, new), Larger(1, Usd(tape, buys))>>
  BY <1>2, <1>3, <1>4, <1>5 DEF WindowStats
<1>7. buys \in SUBSET DOMAIN tape /\ new \in SUBSET DOMAIN tape
  BY <1>1, <1>3, <1>5 DEF Side, LastN
<1>8. Usd(tape, new) \in Nat /\ Usd(tape, buys) \in Nat
  BY <1>7, UsdType
<1>9. Larger(1, Usd(tape, buys)) \in Nat /\ Larger(1, Usd(tape, buys)) > 0
  BY <1>8 DEF Larger
<1> QED
  BY <1>6, <1>8, <1>9

\* A window few wallets trade among themselves is vetoed, for every weight of
\* the other components and every size and count of trades: the two shares
\* saturate, and carry the score to wash_veto_score alone (wash_score).
THEOREM SelfTradingVetoedHolds == WashSpec => []SelfTradingVetoed
<1>1. TapeHeld => SelfTradingVetoed
  <2>1. PICK I : I = Window
    OBVIOUS
  <2> SUFFICES ASSUME TapeHeld,
                      Cardinality(I) >= MinTrades,
                      Usd(tape, I) > 0,
                      \A i \in I : /\ tape[i].wallet # None
                                   /\ \E j \in I : /\ tape[j].wallet = tape[i].wallet
                                                   /\ tape[j].side # tape[i].side,
                      Cardinality(Wallets(tape, I)) <= TopN
               PROVE  "WASH" \in Evaluate(Compute(tape), None, None)
    BY <2>1 DEF SelfTradingVetoed
  <2>2. I \in SUBSET DOMAIN tape
    BY <2>1 DEF Window
  <2>3. PICK share : share = Compute(tape).wash.new_wallet_share
    OBVIOUS
  <2>4. PICK part \in [Ramps \cup {"count_trap"} -> Nat] : part = WashComponents(I, share)
    BY <2>2, <2>3, NewShareType, PartsType
  <2>5. Usd(tape, I) \in Nat
    BY <2>2, UsdType
  <2>6. UsdOf(Wallets(tape, I), I) = Usd(tape, I)
    BY <2>2, WalletsHoldAll
  <2>7. RoundTrippers(I) = Wallets(tape, I)
    <3>1. ASSUME NEW w \in Wallets(tape, I) PROVE w \in RoundTrippers(I)
      <4>1. PICK i \in I : tape[i].wallet = w
        BY <3>1 DEF Wallets
      <4>2. PICK j \in I : tape[j].wallet = w /\ tape[j].side # tape[i].side
        BY <4>1
      <4>3. tape[i].side \in {"buy", "sell"} /\ tape[j].side \in {"buy", "sell"}
        BY <2>2, SideType
      <4>4. i \in TradesOf(I, w) /\ j \in TradesOf(I, w)
        BY <4>1, <4>2 DEF TradesOf
      <4> QED BY <3>1, <4>2, <4>3, <4>4 DEF RoundTrippers, Side
    <3> QED BY <3>1 DEF RoundTrippers
  <2>8. part.roundtrip = 1000 /\ part.top = 1000
    <3>1. part.roundtrip = Norm(Share(Usd(tape, I), Usd(tape, I)), "roundtrip")
      BY <2>4, <2>6, <2>7 DEF WashComponents
    <3>2. part.top = Norm(Share(Usd(tape, I), Usd(tape, I)), "top")
      BY <2>2, <2>4, <2>6, FewAreTop DEF WashComponents, TopUsd
    <3> QED BY <2>5, <3>1, <3>2, FullShareSaturates
  <2>9. PICK C : C = Ramps \cup {"count_trap"}
    OBVIOUS
  <2>10. IsFiniteSet(C) /\ Weights \in [C -> Nat] /\ part \in [C -> Nat]
         /\ "roundtrip" \in C /\ "top" \in C
    <3>1. C = {"roundtrip"} \cup ({"top"} \cup ({"uniform"} \cup ({"churn"} \cup {"count_trap"})))
      BY <2>9 DEF Ramps
    <3>2. IsFiniteSet(C)
      BY <3>1, FS_Singleton, FS_Union
    <3> QED BY <2>9, <3>1, <3>2, WashAssumption
  <2>11. PICK weighed \in [C -> Nat] : weighed = [c \in DOMAIN Weights |-> Weights[c] * part[c]]
    <3>1. DOMAIN Weights = C /\ \A c \in C : Weights[c] * part[c] \in Nat
      BY <2>10
    <3> QED BY <3>1
  <2>12. PICK total \in Nat : total = SumFunction(Weights) /\ total > 0
    BY <2>10, SumType, SaturationAssumption
  <2>13. PICK sum \in Nat : sum = SumFunction(weighed)
    BY <2>10, SumType
  <2>14. sum >= weighed["roundtrip"] + weighed["top"]
    BY <2>10, <2>13, SumOfTwo
  <2>15. sum >= (10 * WashVeto) * total
    <3>1. PICK a \in Nat, b \in Nat : a = Weights.roundtrip /\ b = Weights.top
      BY <2>10
    <3>2. weighed["roundtrip"] = a * 1000 /\ weighed["top"] = b * 1000
      BY <2>8, <2>10, <2>11, <3>1
    <3>3. WashVeto \in Nat /\ (a + b) * 100 >= WashVeto * total
      BY <2>12, <3>1, SaturationAssumption, WashAssumption
    <3>4. PICK v \in Nat : v = WashVeto * total /\ (10 * WashVeto) * total = 10 * v
      BY <3>3
    <3>5. (a + b) * 100 >= v
      BY <3>3, <3>4
    <3> QED BY <2>14, <3>2, <3>4, <3>5
  <2>16. sum \div total >= 10 * WashVeto /\ sum \div total \in Int
    <3>1. 10 * WashVeto \in Nat
      BY WashAssumption
    <3> QED BY <2>12, <2>13, <2>15, <3>1, QuotientAtLeast, QuotientType
  <2>17. WashScore(I, share) = sum \div total
    <3>1. ~(Cardinality(I) < MinTrades)
      <4>1. Cardinality(I) \in Nat
        BY <2>2, WalletsFinite, FS_CardinalityType
      <4>2. MinTrades \in Nat
        BY WashAssumption
      <4> QED BY <4>1, <4>2
    <3> QED BY <2>4, <2>11, <2>12, <2>13, <3>1 DEF WashScore
  <2>18. WashScore(Window, Compute(tape).wash.new_wallet_share) # None
    BY <2>1, <2>3, <2>16, <2>17, NoneIsNoValue
  <2> QED BY <2>1, <2>3, <2>16, <2>17, <2>18 DEF Evaluate, WashCheck
<1> QED
  BY <1>1, TapeIsHeld, PTL
=============================================================================
