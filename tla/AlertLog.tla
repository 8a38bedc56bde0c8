------------------------------- MODULE AlertLog -------------------------------
(***************************************************************************)
(* What the alert policy promises, told by the alerts table alone: which   *)
(* alert may follow which.  There is no memory to rebuild here, so a       *)
(* policy that implements this module decides after a restart as if the    *)
(* process had never stopped.                                              *)
(***************************************************************************)
EXTENDS Integers, Sequences, FiniteSets

CONSTANTS Tokens, ChainOf, Tiers, Rank, Uncapped, Cooldown, Hour, MaxPerHour

VARIABLES now, log

vars == <<now, log>>

\* Inside the cooldown of its last alert a token alerts again only on a
\* higher tier.
OutOfCooldown(k, tier, t) ==
    \A i \in 1 .. Len(log) :
        log[i].token = k /\ t - log[i].ts < Cooldown => Rank[tier] > Rank[log[i].tier]

RecentOn(ch, t) ==
    {i \in 1 .. Len(log) : ChainOf[log[i].token] = ch /\ t - log[i].ts < Hour}

BelowHourlyCap(k, tier, t) ==
    tier \in Uncapped \/ Cardinality(RecentOn(ChainOf[k], t)) < MaxPerHour

Init == now = 0 /\ log = <<>>

Tick ==
    /\ now' = now + 1
    /\ UNCHANGED log

\* The alert carries the time at which it was decided on.
Alert(k, tier, t) ==
    /\ OutOfCooldown(k, tier, t)
    /\ BelowHourlyCap(k, tier, t)
    /\ log' = Append(log, [token |-> k, tier |-> tier, ts |-> t])
    /\ UNCHANGED now

Next ==
    \/ Tick
    \/ \E k \in Tokens, tier \in Tiers, t \in 0 .. now : Alert(k, tier, t)

Spec == Init /\ [][Next]_vars
=============================================================================
