-------------------------------- MODULE Ignition --------------------------------
(***************************************************************************)
(* From a page of the token list to the tokens that pass: the rows Stage 0 *)
(* keeps (scanner/stage0.py), and the features and gates of Stage 1        *)
(* (scanner/stage1.py).  Times are in minutes, amounts whole numbers,      *)
(* ratios pairs <<numerator, denominator>>.  The argument c holds the      *)
(* stage0 and stage1 settings of a chain; an optional setting is a field   *)
(* it may lack.  The cohort z-score, which no gate reads, is left out.     *)
(***************************************************************************)
EXTENDS Integers, Sequences, FiniteSets, SequencesExt

CONSTANT None

-----------------------------------------------------------------------------
(* Stage 0.  A row is [address, cycle, ts, rank] and the listed item's     *)
(* fields.                                                                 *)

RowOf(item, cycle, ts, rank) ==
    LET own == [cycle |-> cycle, ts |-> ts, rank |-> rank]
    IN [field \in DOMAIN own \cup DOMAIN item |->
           IF field \in DOMAIN own THEN own[field] ELSE item[field]]

AtLeast(x, limit) == x # None /\ x >= limit
AtMost(x, limit) == x # None /\ x <= limit

\* build_params adds min_last_trade_unix_time to the filters.
Limits(c, now) == [last_trade_ts |-> now - c.alive_within] @@ c.filters

MeetsFilters(row, c, now) ==
    \A field \in DOMAIN Limits(c, now) : AtLeast(row[field], Limits(c, now)[field])

\* The rows that are kept of a page: the first good one of each address.
Kept(page, c, cycle, now) ==
    LET row(k)   == RowOf(page[k], cycle, now, k)
        good     == {k \in DOMAIN page : page[k].address # None /\ MeetsFilters(row(k), c, now)}
        first(k) == \A j \in good : j < k => page[j].address # page[k].address
    IN {row(k) : k \in {j \in good : first(j)}}

\* Rows as a sequence, ordered by rank.
InOrder(rows) == SetToSortSeq(rows, LAMBDA a, b : a.rank < b.rank)

-----------------------------------------------------------------------------
(* Features *)

Larger(a, b)  == IF a >= b THEN a ELSE b
Smaller(a, b) == IF a <= b THEN a ELSE b

Age(r) == IF r.listing_ts = None THEN None ELSE Larger(0, r.ts - r.listing_ts)

Div(a, b) == IF a = None \/ b = None THEN None ELSE IF b <= 0 THEN None ELSE <<a, b>>

\* What one unit brought on average in the window before the current one; a
\* young token has a shorter window.
BaseRate(total, current, window, unit, age) ==
    LET trailing == (IF age = None THEN window ELSE Smaller(window, age)) - unit
    IN IF total = None \/ current = None \/ trailing < unit THEN None
       ELSE <<Larger(0, total - current) * unit, trailing>>

RVOL_CAP == 99

RVol(current, base) ==
    IF current = None \/ base = None THEN None
    ELSE IF base[1] <= 0 THEN IF current > 0 THEN <<RVOL_CAP, 1>> ELSE None
    ELSE IF current * base[2] >= RVOL_CAP * base[1] THEN <<RVOL_CAP, 1>>
    ELSE <<current * base[2], base[1]>>

Less(x, y) == x[1] * y[2] < y[1] * x[2]

\* The rank of each value among those that are there.
PctRank(values, k) ==
    LET there == {j \in DOMAIN values : values[j] # None}
    IN IF values[k] = None \/ Cardinality(there) < 2 THEN None
       ELSE <<100 * Cardinality({j \in there : Less(values[j], values[k])}), Cardinality(there) - 1>>

\* _rows_between, at whole minutes.
RowsBetween(table, from, to) == {r \in table : r.ts \in from .. to}

Distance(r, target) == IF r.ts < target THEN target - r.ts ELSE r.ts - target

\* Of two rows as close the earlier one stays.
ClosestPrev(rows, address, target) ==
    LET own == {r \in rows : r.address = address}
    IN IF own = {} THEN None
       ELSE CHOOSE r \in own : \A q \in own :
               \/ Distance(r, target) < Distance(q, target)
               \/ Distance(r, target) = Distance(q, target) /\ r.ts <= q.ts

\* The page's mode is that of its first row.
ModeFor(r) == IF r.vol_5m # None /\ r.vol_1m # None THEN "short" ELSE "hourly"

ShortFeatures(r, table, now) ==
    LET prev   == ClosestPrev(RowsBetween(table, now - 7, now - 3), r.address, now - 5)
        traded == Div(r.vol_5m, r.liquidity)
    IN [mode |-> "short", age |-> Age(r),
        rvol_1m |-> RVol(r.vol_1m, BaseRate(r.vol_30m, r.vol_1m, 30, 1, Age(r))),
        rvol_5m |-> RVol(r.vol_5m, BaseRate(r.vol_1h, r.vol_5m, 60, 5, Age(r))),
        turnover |-> traded, tr_5m |-> Div(r.tr_5m, 1),
        eff_5m |-> IF traded = None \/ r.pc_5m = None \/ r.vol_5m <= 0 THEN None
                   ELSE <<r.pc_5m * r.liquidity, r.vol_5m>>,
        holder_growth |-> IF prev = None \/ r.holder = None THEN None
                          ELSE IF prev.holder \in {None, 0} THEN None
                          ELSE <<100 * (r.holder - prev.holder), prev.holder>>]

\* c.prev_dt is prev_dt_range_s.
HourlyFeatures(r, table, c, now) ==
    LET prev == ClosestPrev(RowsBetween(table, now - c.prev_dt[2], now - c.prev_dt[1]), r.address, now - 2)
        have == prev # None /\ r.vol_1h # None /\ prev.vol_1h # None
        dt   == now - prev.ts
    IN [mode |-> "hourly", age |-> Age(r), turnover |-> Div(r.vol_1h, r.liquidity),
        prev_ts |-> IF have THEN prev.ts ELSE None,
        d_tr_1h |-> IF have /\ prev.tr_1h # None /\ r.tr_1h # None THEN r.tr_1h - prev.tr_1h ELSE None,
        rvol_dt |-> IF have THEN RVol(Larger(0, r.vol_1h - prev.vol_1h), <<prev.vol_1h * Larger(1, dt), 60>>)
                    ELSE None]

Features(rows, k, table, c, now) ==
    IF ModeFor(rows[1]) = "short" THEN ShortFeatures(rows[k], table, now)
    ELSE HourlyFeatures(rows[k], table, c, now)

-----------------------------------------------------------------------------
(* Gates *)

Gate(name, passed) == [name |-> name, passed |-> passed, soft |-> FALSE]

\* A gate whose setting the chain may lack; g is not evaluated then.
Optional(c, setting, g) == IF setting \in DOMAIN c THEN {g} ELSE {}

Meets(ratio, limit) == ratio # None /\ ~Less(ratio, limit)

Abs(x) == IF x < 0 THEN -x ELSE x

\* Much volume that does not move the price.
Washed(turnover, change, c) ==
    /\ turnover # None /\ change # None
    /\ Less(<<c.wash_turnover, 1>>, turnover)
    /\ Abs(change) < c.wash_change

MinAge(c, f) == Optional(c, "min_age", Gate("min_age", f.age = None \/ f.age >= c.min_age))

\* Being in the top so many percent of the page.
Top(values, k, percent) == Meets(PctRank(values, k), <<100 - percent, 1>>)

\* feats: the features of the page's rows.
ShortGates(c, r, feats, k) ==
    LET f == feats[k]
    IN MinAge(c, f) \cup
       {Gate("rvol_1m", Meets(f.rvol_1m, c.rvol_1m_min)),
        Gate("rvol_5m", Meets(f.rvol_5m, c.rvol_5m_min)),
        Gate("trade_1m_count", AtLeast(r.tr_1m, c.trade_1m_count_min)),
        Gate("trade_5m_count", AtLeast(r.tr_5m, c.trade_5m_count_min)),
        Gate("price_change_5m_min", AtLeast(r.pc_5m, c.price_change_5m_min)),
        Gate("price_change_5m_max", AtMost(r.pc_5m, c.price_change_5m_max)),
        Gate("price_change_1h_max", AtMost(r.pc_1h, c.price_change_1h_max)),
        Gate("price_change_1m_min", AtLeast(r.pc_1m, c.price_change_1m_min)),
        Gate("wash_turnover", ~Washed(f.turnover, r.pc_5m, c)),
        Gate("impact_eff_sign", ~(f.eff_5m # None /\ f.eff_5m[1] < 0 /\ Meets(f.rvol_5m, c.rvol_5m_min)))}
       \cup Optional(c, "impact_eff_min_percentile",
                Gate("impact_eff_pct", Meets(PctRank([j \in DOMAIN feats |-> feats[j].eff_5m], k),
                                             <<c.impact_eff_min_percentile, 1>>)))
       \cup Optional(c, "rvol_1m_top", Gate("rvol_1m_top_pct",
                Top([j \in DOMAIN feats |-> feats[j].rvol_1m], k, c.rvol_1m_top)))
       \cup Optional(c, "trade_5m_count_top", Gate("trade_5m_count_top_pct",
                Top([j \in DOMAIN feats |-> feats[j].tr_5m], k, c.trade_5m_count_top)))
       \cup Optional(c, "holder_growth_min",
                [name |-> "holder_growth_5m", soft |-> TRUE,
                 passed |-> f.holder_growth = None \/ Meets(f.holder_growth, <<c.holder_growth_min, 1>>)])

HourlyGates(c, r, feats, k) ==
    LET f == feats[k]
    IN MinAge(c, f) \cup
    (IF f.rvol_dt # None
     THEN {Gate("rvol_dt", Meets(f.rvol_dt, c.rvol_dt_min)),
           Gate("d_trades", AtLeast(f.d_tr_1h, c.d_trades_min))}
     ELSE {Gate("fallback_vol_1h_chg", AtLeast(r.vol_1h_chg, c.fallback_vol_1h_chg_min)),
           Gate("fallback_trade_1h_count", AtLeast(r.tr_1h, c.fallback_trade_1h_count_min))}
          \cup Optional(c, "fallback_price_change_1h_max",
                   Gate("fallback_price_change_1h_max", AtMost(r.pc_1h, c.fallback_price_change_1h_max))))
    \cup Optional(c, "vol_1h_min", Gate("vol_1h_min", AtLeast(r.vol_1h, c.vol_1h_min)))
    \cup {Gate("price_change_1h_min", AtLeast(r.pc_1h, c.price_change_1h_min)),
          Gate("price_change_1h_max", AtMost(r.pc_1h, c.price_change_1h_max)),
          Gate("wash_turnover", ~Washed(f.turnover, r.pc_1h, c))}
    \cup (IF f.rvol_dt = None THEN {}
          ELSE Optional(c, "rvol_dt_top", Gate("rvol_dt_top_pct",
                   Top([j \in DOMAIN feats |-> feats[j].rvol_dt], k, c.rvol_dt_top))))

\* The settings of a chain are those of one mode; the gates of the other
\* raise a KeyError.
Raises(rows, c) ==
    ModeFor(rows[1]) # IF "rvol_dt_min" \in DOMAIN c THEN "hourly" ELSE "short"

\* For each row the features and the gates that fail it.
Evaluate(rows, table, c, now) ==
    LET feats == [k \in DOMAIN rows |-> Features(rows, k, table, c, now)]
        gates(k) == IF feats[k].mode = "short" THEN ShortGates(c, rows[k], feats, k)
                    ELSE HourlyGates(c, rows[k], feats, k)
    IN [k \in DOMAIN rows |->
           [address |-> rows[k].address, features |-> feats[k],
            fails |-> {g.name : g \in {h \in gates(k) : ~h.passed /\ ~h.soft}}]]
=============================================================================
