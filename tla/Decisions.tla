------------------------------- MODULE Decisions -------------------------------
(***************************************************************************)
(* The evaluation of one candidate, from the batch's eval_ts to            *)
(* manager.on_tape (evaluate_candidates of scanner/runner.py), with the    *)
(* safety checker and its cached row (scanner/safety.py), the forced check *)
(* of the rug watch beside it, and the near-miss log (scanner/nearmiss.py).*)
(* The token changes under them: the RPC and Birdeye are asked one after   *)
(* the other, each answers what is then true or not at all, and the        *)
(* process may die.                                                        *)
(***************************************************************************)
EXTENDS Scoring, Sequences

CONSTANTS
    Limits, MaxTax, AmountFrac, TopMax, TopBonus,
    Worlds,      \* what may be true of a token of each chain: [rpc, birdeye]
    Inputs,      \* bound: features, Stage-1 features, vetoes and nomination times
    Outcomes,    \* bound: what Alerter.consider answers; None when it raised
    CacheS,      \* cache_s
    CooldownS,   \* cooldown_min, in seconds
    DailyMax,    \* daily_max
    DayS,        \* seconds of a day
    MaxNow,      \* bound: the clock
    MaxEvents    \* bound: changes of the token and rug-watch checks

ASSUME DecisionsAssumption ==
    /\ {CacheS, CooldownS, DailyMax, MaxNow, MaxEvents} \subseteq Nat
    /\ {DayS, AmountFrac} \subseteq Nat \ {0}
    /\ {MaxTax, TopMax} \subseteq Int
    /\ \A x \in {"top10", "dev", "insider", "bundler", "sniper"} : Limits[x] \in Int
    /\ DOMAIN Worlds = DOMAIN IgnitionScore

ASSUME InputsAssumption ==
    \A in \in Inputs :
        /\ IsFiniteSet(in.vetoes)
        /\ in.f.ofi30.buyers \in Int
        /\ \A x \in {"buyer_seller_ratio", "new_wallet_share", "ofi"} : IsRatio(in.f.ofi30[x])
        /\ IsRatio(in.s1.eff_5m_pct) /\ IsRatio(in.s1.holder_growth_pct)

ASSUME NoneAssumption == \A in \in Inputs : \A v \in in.vetoes \cup {"SAFETY"} : None # <<"veto", v>>

Rules == INSTANCE SafetyRules WITH NoData <- None

VARIABLES
    now,       \* the clock
    chain,     \* the token's chain
    world,     \* what is true of the token
    events,    \* bound: its changes, and the rug watch's checks of it
    sound,     \* history: when each source's facts last met the hard checks and caps
    row,       \* the token's row of the table safety, or None
    rug,       \* the forced check of the rug watch, or None
    job,       \* the evaluation, or None
    active,    \* the token is in the manager's active set
    misses,    \* the table near_misses
    cut        \* history: an evaluation ended between its decision and on_tape

vars == <<now, chain, world, events, sound, row, rug, job, active, misses, cut>>

-----------------------------------------------------------------------------
Sources == {"rpc", "birdeye"}

\* Robinhood's RPC is asked call by call: a simulation may fail and owner() come
\* back, or the other way round, and an owner() that fails counts as absent.
\* bound: a simulation answers with all of its blocks or with none.
Simulations ==
    {None} \cup {Rules!Simulated(world.rpc.token, world.rpc.bal, n) :
                    n \in {0, Len(Rules!Plan(world.rpc.bal))}}

RpcAnswers ==
    IF chain = "solana" THEN {None, world.rpc}
    ELSE [paths : Simulations, owner : {"none", world.rpc.owner}]

BirdeyeAnswers == {None, world.birdeye}

\* On Robinhood top10 is a share of the RPC's supply: without the supply it is
\* unknown, as it is when Birdeye fails.
ResultOf(rpc, birdeye, ts) ==
    IF chain = "solana" THEN Rules!SolanaResult(rpc, birdeye, ts)
    ELSE Rules!EvmResult(rpc.paths, rpc.owner, birdeye, ts)

Accounts == {"holder", "pool", "fresh", "fresh2"}
Paths == {"sell", "buy", "transfer"}

\* The facts as they are, not as they are measured.
SoundMint(m) == ~m.mint_authority /\ ~m.freeze_authority /\ ~(m.token2022 /\ m.risky)
SoundToken(t) == t.frozen = {} /\ \A p \in Paths : t[p] <= MaxTax
SoundHolders(p) ==
    /\ p.top10 # None /\ p.top10 <= Limits.top10
    /\ \A c \in {"dev", "insider"} : p[c] = None \/ p[c] <= Limits[c]
    /\ \A c \in {"bundler", "sniper"} : p[c] = None \/ p[c] < Limits[c]

\* Robinhood's holders: the ten largest of the top traders.
SoundTop(top10) == top10 # None /\ top10 <= TopMax

\* bound: a simulation moves amounts large enough to show a tax of 1 %.
ASSUME WorldsAssumption ==
    \A ch \in DOMAIN Worlds : \A w \in Worlds[ch] :
        IF ch = "solana"
        THEN \A x \in {"top10", "dev", "insider", "bundler", "sniper"} :
                w.birdeye[x] = None \/ w.birdeye[x] \in Int
        ELSE LET t == w.rpc.token
                 plan == Rules!Plan(w.rpc.bal)
             IN /\ w.birdeye = None \/ w.birdeye \in Int
                /\ w.rpc.bal \in [Accounts -> Nat]
                /\ t.frozen \subseteq Paths /\ \A p \in Paths : t[p] \in Nat
                /\ \A k \in DOMAIN plan : plan[k].amt >= 100

IsSound(w, source) ==
    IF chain = "solana"
    THEN IF source = "rpc" THEN SoundMint(w.rpc) ELSE SoundHolders(w.birdeye)
    ELSE IF source = "rpc" THEN SoundToken(w.rpc.token) ELSE SoundTop(w.birdeye)

SoundAt(w, t) == [s \in Sources |-> IF IsSound(w, s) THEN t ELSE sound[s]]

\* No await separates the decision from on_tape but the alert's.
Free == job # None => job.stage # "decided"

-----------------------------------------------------------------------------
Init ==
    /\ now = 0
    /\ chain \in DOMAIN Worlds
    /\ world \in Worlds[chain]
    /\ events = 0
    /\ sound = [s \in Sources |-> IF IsSound(world, s) THEN 0 ELSE -1]
    /\ row = None /\ rug = None /\ job = None
    /\ active = TRUE
    /\ misses = <<>>
    /\ cut = FALSE

Tick ==
    /\ Free /\ now < MaxNow
    /\ now' = now + 1
    /\ sound' = SoundAt(world, now')
    /\ UNCHANGED <<chain, world, events, row, rug, job, active, misses, cut>>

Change ==
    /\ Free /\ events < MaxEvents
    /\ \E w \in Worlds[chain] \ {world} :
          world' = w /\ sound' = SoundAt(w, now)
    /\ events' = events + 1
    /\ UNCHANGED <<now, chain, row, rug, job, active, misses, cut>>

\* The token, vetoed and removed, is nominated again.
Nominate ==
    /\ Free /\ ~active /\ events < MaxEvents
    /\ active' = TRUE
    /\ events' = events + 1
    /\ UNCHANGED <<now, chain, world, sound, row, rug, job, misses, cut>>

-----------------------------------------------------------------------------
\* Mutated forms of the definitions below.
StampedWhenDone(c) == now

OfToday(ts) == Cardinality({k \in DOMAIN misses : misses[k].ts >= now - (now % DayS)})

SkipsLogged(d, logged) == active /\ (d.tier # "VETO" \/ logged)

-----------------------------------------------------------------------------
(* SafetyChecker.check *)

CacheHit == row # None /\ now - row.checked_ts <= CacheS

\* checked_ts is taken before the sources are asked.
Stamp(c) == c.ts

Store(c, birdeye) == ResultOf(c.rpc, birdeye, Stamp(c))

RugCheck ==
    /\ Free /\ rug = None /\ events < MaxEvents
    /\ rug' = [ts |-> now, rpc |-> None, asked |-> "rpc"]
    /\ events' = events + 1
    /\ UNCHANGED <<now, chain, world, sound, row, job, active, misses, cut>>

RugRpc ==
    /\ Free /\ rug # None /\ rug.asked = "rpc"
    /\ \E a \in RpcAnswers : rug' = [rug EXCEPT !.rpc = a, !.asked = "birdeye"]
    /\ UNCHANGED <<now, chain, world, events, sound, row, job, active, misses, cut>>

RugDone ==
    /\ Free /\ rug # None /\ rug.asked = "birdeye"
    /\ \E a \in BirdeyeAnswers : row' = Store(rug, a)
    /\ rug' = None
    /\ UNCHANGED <<now, chain, world, events, sound, job, active, misses, cut>>

-----------------------------------------------------------------------------
(* evaluate_candidates *)

\* The batch takes its eval_ts; the waits for other tokens and for the
\* enrichments lie between it and the safety check.
Begin ==
    /\ job = None /\ active
    /\ job' = [stage |-> "check", eval_ts |-> now, in |-> None, ts |-> 0, rpc |-> None,
               sr |-> None, d |-> None, fresh |-> FALSE]
    /\ cut' = FALSE
    /\ UNCHANGED <<now, chain, world, events, sound, row, rug, active, misses>>

DecisionOn(in, sr) == Decide(chain, in.f, in.vetoes, in.s1, in.fallback, sr)

\* decide and persist.
Decided(sr, fresh) ==
    \E in \in Inputs :
        job' = [job EXCEPT !.stage = "decided", !.in = in, !.sr = sr, !.fresh = fresh,
                           !.d = DecisionOn(in, sr), !.ts = 0, !.rpc = None]

UseCached ==
    /\ job # None /\ job.stage = "check" /\ CacheHit
    /\ Decided(row, FALSE)
    /\ UNCHANGED <<now, chain, world, events, sound, row, rug, active, misses, cut>>

StartCheck ==
    /\ job # None /\ job.stage = "check" /\ ~CacheHit
    /\ job' = [job EXCEPT !.stage = "rpc", !.ts = now]
    /\ UNCHANGED <<now, chain, world, events, sound, row, rug, active, misses, cut>>

RpcAnswered ==
    /\ job # None /\ job.stage = "rpc"
    /\ \E a \in RpcAnswers : job' = [job EXCEPT !.stage = "birdeye", !.rpc = a]
    /\ UNCHANGED <<now, chain, world, events, sound, row, rug, active, misses, cut>>

CheckDone ==
    /\ job # None /\ job.stage = "birdeye"
    /\ \E a \in BirdeyeAnswers : row' = Store(job, a) /\ Decided(row', TRUE)
    /\ UNCHANGED <<now, chain, world, events, sound, rug, active, misses, cut>>

\* The transaction of the decision fails and ends the batch.
PersistFails ==
    /\ job # None /\ job.stage = "birdeye"
    /\ \E a \in BirdeyeAnswers : row' = Store(job, a)
    /\ job' = None
    /\ UNCHANGED <<now, chain, world, events, sound, rug, active, misses, cut>>

\* NearMissLog.record, with the batch's eval_ts for the time.
Recent(ts, key) == \E k \in DOMAIN misses : misses[k].key = key /\ misses[k].ts > ts - CooldownS

TodayCount(ts) == Cardinality({k \in DOMAIN misses : misses[k].ts >= ts - (ts % DayS)})

Records(ts, key) == key # None /\ ~Recent(ts, key) /\ TodayCount(ts) < DailyMax

\* manager.on_tape comes last, whatever became of the near miss.
StaysActive(d, logged) == active /\ d.hard_vetoes = {}

Finish(outcome) ==
    LET key    == Classify(job.d, chain, outcome)
        logged == Records(job.eval_ts, key)
    IN /\ misses' = IF logged THEN Append(misses, [ts |-> job.eval_ts, key |-> key]) ELSE misses
       /\ active' = StaysActive(job.d, logged)
       /\ job' = None
       /\ UNCHANGED <<now, chain, world, events, sound, row, rug, cut>>

NotAlertable ==
    /\ job # None /\ job.stage = "decided" /\ ~job.d.alertable
    /\ Finish(None)

Alert ==
    /\ job # None /\ job.stage = "decided" /\ job.d.alertable
    /\ job' = [job EXCEPT !.stage = "alert", !.in = None, !.sr = None, !.fresh = FALSE]
    /\ UNCHANGED <<now, chain, world, events, sound, row, rug, active, misses, cut>>

\* An exception of the alerter is caught.
Alerted ==
    /\ job # None /\ job.stage = "alert"
    /\ \E outcome \in Outcomes : Finish(outcome)

\* The insert of the near miss raises, or the enqueuing of its labels after the
\* insert has committed, and on_tape is not called.
RecordFails ==
    /\ job # None /\ job.stage = "decided" /\ ~job.d.alertable
    /\ LET key == Classify(job.d, chain, None)
       IN /\ Records(job.eval_ts, key)
          /\ misses' \in {misses, Append(misses, [ts |-> job.eval_ts, key |-> key])}
    /\ job' = None
    /\ cut' = TRUE
    /\ UNCHANGED <<now, chain, world, events, sound, row, rug, active>>

Crash ==
    /\ job # None \/ rug # None
    /\ cut' = (cut \/ (job # None /\ job.stage = "decided"))
    /\ job' = None /\ rug' = None
    /\ UNCHANGED <<now, chain, world, events, sound, row, active, misses>>

Next ==
    \/ Tick \/ Change \/ Nominate
    \/ RugCheck \/ RugRpc \/ RugDone
    \/ Begin \/ UseCached \/ StartCheck \/ RpcAnswered \/ CheckDone \/ PersistFails
    \/ NotAlertable \/ Alert \/ Alerted \/ RecordFails \/ Crash

Spec == Init /\ [][Next]_vars

-----------------------------------------------------------------------------
\* A CONFIRMED decision rests on facts: at or after the time its safety result
\* carries, the token has met every hard check and cap of each source, and a
\* result from the cache is no older than cache_s.  Holds while the token
\* changes between the two answers, while two checks overlap and the older
\* one is stored last, and over failed sources, which cap the tier - but for
\* Robinhood's holders: without an answer their hard check top10_proxy is not
\* made, the result only carries the soft flag top10_unknown, and the decision
\* may be CONFIRMED whoever holds the token (evaluate_evm).
ConfirmedRestsOnChecks ==
    job # None /\ job.sr # None /\ job.d.tier = "CONFIRMED" =>
        /\ \A s \in Sources :
              \/ sound[s] >= job.sr.checked_ts
              \/ s = "birdeye" /\ "top10_unknown" \in job.sr.flags
        /\ job.fresh \/ now - job.sr.checked_ts <= CacheS

\* A near miss names the one cause that kept the alert from being: with the
\* veto taken away the same inputs are alertable, and no veto is named where
\* that is not so (classify).
NearMissNamesTheCause ==
    job # None /\ job.sr # None =>
        LET key == Classify(job.d, chain, None)
            calm == IF job.sr.verdict = "UNSAFE" THEN [job.sr EXCEPT !.verdict = "SAFE"] ELSE job.sr
            without(v) == Decide(chain, job.in.f, job.in.vetoes \ {v}, job.in.s1, job.in.fallback,
                                 IF v = "SAFETY" THEN calm ELSE job.sr)
            frees == {v \in job.d.hard_vetoes : without(v).alertable}
        IN IF key # None /\ key[1] = "veto" THEN frees = {key[2]} ELSE frees = {}

\* The log has no two rows of one kind and reason within the cooldown and no
\* more than daily_max a day, though a batch records under an eval_ts taken
\* before its awaits, past midnight and after restarts.
NearMissesSpaced ==
    /\ \A j, k \in DOMAIN misses :
          j < k /\ misses[j].key = misses[k].key => misses[k].ts - misses[j].ts >= CooldownS
    /\ \A k \in DOMAIN misses :
          Cardinality({j \in DOMAIN misses : misses[j].ts \div DayS = misses[k].ts \div DayS}) <= DailyMax

\* A vetoed token leaves the active set with the evaluation that vetoed it; it
\* stays only when the process dies or the near-miss insert raises between
\* the committed decision and on_tape.
VetoedIsRemoved ==
    [][job # None /\ job.d # None /\ job.d.tier = "VETO" /\ job' = None => ~active' \/ cut']_vars
=============================================================================
