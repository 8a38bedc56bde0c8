------------------------------ MODULE SafetyRules ------------------------------
(***************************************************************************)
(* The safety verdict on a token: the Solana checks of scanner/safety.py   *)
(* and, for Robinhood, the simulated transfers and the checks of           *)
(* scanner/evm_safety.py.  A check is [name, passed, hard], passed None    *)
(* when there is no data.  Percentages are whole numbers.                  *)
(***************************************************************************)
EXTENDS Integers

CONSTANTS
    Limits,      \* the percentages of the solana settings, and min_holders
    MaxTax,      \* max_tax_pct
    AmountFrac,  \* sim_amount_frac: one in so many
    TopMax,      \* top10_max_pct of the evm settings
    TopBonus,    \* the 10 % of evaluate_evm's bonus
    NoData       \* None of the sources' answers

-----------------------------------------------------------------------------
Hard(name, passed) == [name |-> name, passed |-> passed, hard |-> TRUE]
Soft(name, passed) == [name |-> name, passed |-> passed, hard |-> FALSE]

Points(cond) == IF cond THEN 1 ELSE 0

\* A cohort the profile does not list passes.
Below(pct, limit) == pct = NoData \/ pct < limit
AtMost(pct, limit) == pct # NoData /\ pct <= limit

\* mint: what the RPC says of the mint account, or NoData.
MintChecks(mint) ==
    IF mint = NoData THEN {Hard("mint_authority", NoData), Hard("freeze_authority", NoData)}
    ELSE {Hard("mint_authority", ~mint.mint_authority),
          Hard("freeze_authority", ~mint.freeze_authority)}
         \cup (IF mint.token2022 THEN {Soft("token2022_extensions", ~mint.risky)} ELSE {})

\* profile: Birdeye's holder profile, or NoData.
ProfileChecks(p) ==
    IF p = NoData
    THEN {Hard("top10", NoData), Hard("dev_holdings", NoData), Hard("insider_holdings", NoData)}
    ELSE {Hard("top10", IF p.top10 = NoData THEN NoData ELSE p.top10 <= Limits.top10),
          Soft("min_holders", IF p.holders = NoData THEN NoData ELSE p.holders >= Limits.holders),
          Hard("dev_holdings", Below(p.dev, Limits.dev + 1)),
          Hard("insider_holdings", Below(p.insider, Limits.insider + 1)),
          Soft("bundler_holdings", Below(p.bundler, Limits.bundler)),
          Soft("sniper_holdings", Below(p.sniper, Limits.sniper)),
          Soft("smart_trader_present", p.smart # NoData /\ p.smart >= Limits.smart)}

SolanaBonus(p) ==
    IF p = NoData THEN 0
    ELSE 2 * Points(AtMost(p.top10, Limits.top10_bonus)) + Points(AtMost(p.dev, Limits.dev_bonus))
         + Points(AtMost(p.bundler, Limits.bundler_bonus))
         + Points(p.smart # NoData /\ p.smart >= Limits.smart)

-----------------------------------------------------------------------------
(* eth_simulateV1: transfers in blocks that see each other's balances.     *)
(* token: [sell, buy, transfer: tax in %, frozen: the paths that revert].  *)
(* bal: balances of "holder", "pool", "fresh" and "fresh2".                *)

PathOf(x) ==
    IF x.to = "pool" THEN "sell" ELSE IF x.from = "pool" THEN "buy" ELSE "transfer"

Reverts(token, bal, x) == PathOf(x) \in token.frozen \/ bal[x.from] < x.amt

Received(token, x) == x.amt - (x.amt * token[PathOf(x)]) \div 100

Moved(token, bal, x) ==
    IF Reverts(token, bal, x) THEN bal
    ELSE [bal EXCEPT ![x.from] = @ - x.amt, ![x.to] = @ + Received(token, x)]

Larger1(n) == IF n < 1 THEN 1 ELSE n

\* The three blocks of simulate_paths: a sell of the holder if there is one, a
\* buy, a transfer, and without a holder a sell of what the buy brought.
Plan(bal) ==
    LET sellAmt == bal.holder \div AmountFrac
        buyAmt  == bal.pool \div AmountFrac
        sell == [name |-> "sell", from |-> "holder", to |-> "pool", amt |-> sellAmt]
        back == [name |-> "sell", from |-> "fresh", to |-> "pool", amt |-> Larger1(buyAmt \div 4)]
        buy  == [name |-> "buy", from |-> "pool", to |-> "fresh", amt |-> buyAmt]
        move == [name |-> "transfer", from |-> "fresh", to |-> "fresh2",
                 amt |-> Larger1(buyAmt \div 2)]
    IN IF buyAmt = 0 THEN <<>>
       ELSE IF sellAmt > 0 THEN <<sell, buy, move>> ELSE <<buy, move, back>>

\* What each path shows; the tax is measured from the balances.  A block the
\* answer lacks counts as a transfer that failed.
Simulated(token, bal, blocks) ==
    LET p == Plan(bal)
        second == Moved(token, bal, p[1])
        before == <<bal, second, Moved(token, second, p[2])>>
        got(k) == Moved(token, before[k], p[k])[p[k].to] - before[k][p[k].to]
    IN IF p = <<>> THEN NoData
       ELSE {[name |-> p[k].name,
              ok |-> k <= blocks /\ ~Reverts(token, before[k], p[k]),
              taxOk |-> (p[k].amt - got(k)) * 100 <= MaxTax * p[k].amt,
              untaxed |-> got(k) >= p[k].amt] : k \in DOMAIN p}

PathCheck == [sell |-> "sell_path", buy |-> "buy_path", transfer |-> "transfer_path"]
TaxCheck == [sell |-> "sell_tax", buy |-> "buy_tax", transfer |-> "transfer_tax"]

\* paths: the simulation's answer, or NoData when the RPC failed or the pool
\* is empty.
PathChecks(paths) ==
    IF paths = NoData THEN {Hard("honeypot_sim", NoData)}
    ELSE {Hard(PathCheck[p.name], p.ok) : p \in paths}
         \cup {Hard(TaxCheck[p.name], p.taxOk) : p \in {q \in paths : q.ok}}

OwnerChecks(owner) == {Soft("owner", owner # "active")}

TopChecks(top10) ==
    IF top10 = NoData THEN {Soft("top10_unknown", FALSE)}
    ELSE {Hard("top10_proxy", top10 <= TopMax), Soft("top10_unverified", FALSE)}

EvmBonus(paths, owner, top10) ==
    2 * Points(paths # NoData /\ (\E p \in paths : p.ok) /\ \A p \in paths : p.ok => p.untaxed)
    + Points(owner # "active") + Points(AtMost(top10, TopBonus))

-----------------------------------------------------------------------------
Failed(checks, hard) == {c.name : c \in {d \in checks : d.hard = hard /\ d.passed = FALSE}}

VerdictOf(checks) ==
    IF Failed(checks, TRUE) # {} THEN "UNSAFE"
    ELSE IF \E c \in checks : c.hard /\ c.passed = NoData THEN "UNKNOWN"
    ELSE "SAFE"

\* The result a check stores; the bonus is a SAFE token's only.
Result(checks, bonus, ts) ==
    [checked_ts |-> ts, verdict |-> VerdictOf(checks), flags |-> Failed(checks, FALSE),
     bonus |-> IF VerdictOf(checks) = "SAFE" THEN bonus ELSE 0]

SolanaResult(mint, profile, ts) ==
    Result(MintChecks(mint) \cup ProfileChecks(profile), SolanaBonus(profile), ts)

EvmResult(paths, owner, top10, ts) ==
    Result(PathChecks(paths) \cup OwnerChecks(owner) \cup TopChecks(top10),
           EvmBonus(paths, owner, top10), ts)
=============================================================================
