---------------------------- MODULE AlertDelivery ----------------------------
(***************************************************************************)
(* Alerter.consider of scanner/alerts.py: the policy decides, the card is  *)
(* posted to Discord, and only then are the alert and its follow-ups       *)
(* written in one transaction.  The evaluation loop holds eval_lock, so    *)
(* one alert is on its way at a time.                                      *)
(***************************************************************************)
EXTENDS Integers, Sequences, FiniteSets

CONSTANTS
    Tokens,
    Chains,
    ChainOf,      \* the chain of each token
    Tiers,        \* the alertable tiers
    Rank,         \* TIER_RANK
    Uncapped,     \* the tiers the hourly cap lets through
    Cooldown,     \* alerts.cooldown_min
    Hour,         \* the rolling hour of the cap
    MaxPerHour,   \* alerts.max_per_hour
    MaxAttempts,  \* posts tried while Discord answers 429
    None,
    MaxTime,      \* bound: the clock stops here
    MaxPosts      \* bound: cards that reach Discord

ASSUME AlertAssumption ==
    /\ ChainOf \in [Tokens -> Chains]
    /\ Rank \in [Tiers -> Nat]
    /\ Uncapped \subseteq Tiers
    /\ {Cooldown, Hour, MaxPerHour, MaxTime, MaxPosts} \subseteq Nat
    /\ MaxAttempts \in Nat \ {0}

VARIABLES
    now,
    up,
    last,     \* AlertPolicy.last: time and tier of the token's last alert
    sent,     \* AlertPolicy.sent_ts: the entries of each chain's list
    sending,  \* the alert awaiting webhook.send, or None
    log,      \* the alerts table
    posts     \* history: the cards that reached Discord

vars == <<now, up, last, sent, sending, log, posts>>

-----------------------------------------------------------------------------
Alerts == [token : Tokens, tier : Tiers, ts : Nat]
Sending == [alert : Alerts, attempt : 1 .. MaxAttempts, delivered : BOOLEAN]
Memory == [ts : Nat, tier : Tiers]

ASSUME NoneAssumption == None \notin Sending \cup Memory

\* Equal times are told apart by the row they were recorded with.
Entry == [id : Nat \ {0}, ts : Nat]
Row(i) == [id |-> i, ts |-> log[i].ts]

Longest == IF Cooldown >= Hour THEN Cooldown ELSE Hour

Window(ch, t) == {e \in sent[ch] : t - e.ts < Hour}

InCooldown(k, t) == last[k] # None /\ t - last[k].ts < Cooldown

-----------------------------------------------------------------------------
\* Mutated forms of the definitions below.
LoadsCooldownOnly(i) == now - log[i].ts <= Cooldown

AtLeastAsHigh(k, tier) == Rank[tier] >= Rank[last[k].tier]

FailureRemembered ==
    /\ sending # None
    /\ sending' = None
    /\ last' = [last EXCEPT ![sending.alert.token] =
                   [ts |-> sending.alert.ts, tier |-> sending.alert.tier]]
    /\ UNCHANGED <<now, up, sent, log, posts>>

-----------------------------------------------------------------------------
\* AlertPolicy.decide
Upgrades(k, tier) == Rank[tier] > Rank[last[k].tier]

PassesCooldown(k, tier, t) == InCooldown(k, t) => Upgrades(k, tier)

HitsCap(k, tier, t) ==
    Cardinality(Window(ChainOf[k], t)) >= MaxPerHour /\ tier \notin Uncapped

Prune(k, t) == sent' = [sent EXCEPT ![ChainOf[k]] = Window(ChainOf[k], t)]

\* An alertable decision for token k reaches consider.
SkippedInCooldown(k, tier) ==
    /\ up /\ sending = None
    /\ ~PassesCooldown(k, tier, now)
    /\ UNCHANGED vars

SkippedByCap(k, tier) ==
    /\ up /\ sending = None
    /\ PassesCooldown(k, tier, now)
    /\ HitsCap(k, tier, now)
    /\ Prune(k, now)
    /\ UNCHANGED <<now, up, last, sending, log, posts>>

StartSend(k, tier) ==
    /\ up /\ sending = None
    /\ PassesCooldown(k, tier, now)
    /\ ~HitsCap(k, tier, now)
    /\ Prune(k, now)
    /\ sending' = [alert |-> [token |-> k, tier |-> tier, ts |-> now],
                   attempt |-> 1, delivered |-> FALSE]
    /\ UNCHANGED <<now, up, last, log, posts>>

\* Discord, which is outside the process, takes the card.
Deliver ==
    /\ sending # None /\ ~sending.delivered
    /\ Len(posts) < MaxPosts
    /\ posts' = Append(posts, sending.alert)
    /\ sending' = [sending EXCEPT !.delivered = TRUE]
    /\ UNCHANGED <<now, up, last, sent, log>>

\* The 200 arrives: transaction, then the policy's memory.
Recorded ==
    /\ sending # None /\ sending.delivered
    /\ LET a == sending.alert IN
       /\ log' = Append(log, a)
       /\ last' = [last EXCEPT ![a.token] = [ts |-> a.ts, tier |-> a.tier]]
       /\ sent' = [sent EXCEPT ![ChainOf[a.token]] =
                      @ \cup {[id |-> Len(log) + 1, ts |-> a.ts]}]
    /\ sending' = None
    /\ UNCHANGED <<now, up, posts>>

\* The transaction rolls back; the caller logs the exception and goes on.
RolledBack ==
    /\ sending # None /\ sending.delivered
    /\ sending' = None
    /\ UNCHANGED <<now, up, last, sent, log, posts>>

\* 429: sleep and post again, up to the last attempt.
RateLimited ==
    /\ sending # None /\ ~sending.delivered
    /\ sending.attempt < MaxAttempts
    /\ sending' = [sending EXCEPT !.attempt = @ + 1]
    /\ UNCHANGED <<now, up, last, sent, log, posts>>

\* send gives up: an error, a timeout (the card may have got through all the
\* same), or the last 429.  Nothing is remembered.
SendFails ==
    /\ sending # None
    /\ sending' = None
    /\ UNCHANGED <<now, up, last, sent, log, posts>>

Crash ==
    /\ up
    /\ up' = FALSE
    /\ sending' = None
    /\ last' = [k \in Tokens |-> None]
    /\ sent' = [ch \in Chains |-> {}]
    /\ UNCHANGED <<now, log, posts>>

-----------------------------------------------------------------------------
\* AlertPolicy.load
Loaded(i) == now - log[i].ts <= Longest

LoadedOf(k) == {i \in 1 .. Len(log) : Loaded(i) /\ log[i].token = k}

LoadedOn(ch) == {i \in 1 .. Len(log) : Loaded(i) /\ ChainOf[log[i].token] = ch}

\* Rows are read in the order of their times, so the last one stays.
LastLoaded(k) ==
    IF LoadedOf(k) = {} THEN None
    ELSE LET i == CHOOSE i \in LoadedOf(k) : \A j \in LoadedOf(k) : j <= i
         IN  [ts |-> log[i].ts, tier |-> log[i].tier]

Restart ==
    /\ ~up
    /\ up' = TRUE
    /\ last' = [k \in Tokens |-> LastLoaded(k)]
    /\ sent' = [ch \in Chains |-> {Row(i) : i \in LoadedOn(ch)}]
    /\ UNCHANGED <<now, sending, log, posts>>

Tick ==
    /\ now < MaxTime
    /\ now' = now + 1
    /\ UNCHANGED <<up, last, sent, sending, log, posts>>

Init ==
    /\ now = 0
    /\ up = TRUE
    /\ last = [k \in Tokens |-> None]
    /\ sent = [ch \in Chains |-> {}]
    /\ sending = None
    /\ log = <<>>
    /\ posts = <<>>

Next ==
    \/ Tick \/ Deliver \/ Recorded \/ RolledBack \/ RateLimited \/ SendFails
    \/ Crash \/ Restart
    \/ \E k \in Tokens, tier \in Tiers :
          SkippedInCooldown(k, tier) \/ SkippedByCap(k, tier) \/ StartSend(k, tier)

Spec == Init /\ [][Next]_vars

-----------------------------------------------------------------------------
TypeOK ==
    /\ now \in Nat /\ up \in BOOLEAN
    /\ last \in [Tokens -> Memory \cup {None}]
    /\ sent \in [Chains -> SUBSET Entry]
    /\ sending \in Sending \cup {None}
    /\ log \in Seq(Alerts)
    /\ posts \in Seq(Alerts)

\* The policy's memory, pruned at every decision and rebuilt at every start,
\* decides exactly as the whole table would: the alerts ever recorded obey the
\* cooldown, the upgrade rule and the hourly cap, restarts or not.
Log == INSTANCE AlertLog
ImplementsLog == Log!Spec

\* A token is held back by the cooldown only for an alert that was recorded:
\* no failed, lost or rolled-back send silences it.
SilencedOnlyByRecord ==
    \A k \in Tokens : InCooldown(k, now) =>
        \E i \in 1 .. Len(log) :
            log[i].token = k /\ log[i].ts = last[k].ts /\ log[i].tier = last[k].tier

\* Discord shows a token twice within the cooldown, without a tier upgrade,
\* only when the first card's alert was never recorded: its answer was lost,
\* its transaction rolled back, or the process died in between.  No restart,
\* no pruning and no other token's alert makes the policy repeat itself.
PingsExplained ==
    \A i, j \in 1 .. Len(posts) :
        ( /\ posts[i].token = posts[j].token
          /\ posts[i].ts < posts[j].ts
          /\ posts[j].ts - posts[i].ts < Cooldown
          /\ Rank[posts[j].tier] <= Rank[posts[i].tier] )
        => \A l \in 1 .. Len(log) : log[l] # posts[i]
=============================================================================
