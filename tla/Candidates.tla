------------------------------ MODULE Candidates ------------------------------
(***************************************************************************)
(* The candidate manager of scanner/candidates.py: the set of tokens that  *)
(* stage 2 spends API credits on, held in memory by CandidateManager and   *)
(* written through, one row per token, to the `candidates` table.          *)
(*                                                                         *)
(* Time is counted in abstract units.  The timestamp t a handler receives  *)
(* was read by its caller before the caller's last network await, so t may *)
(* lie up to MaxLag before now.                                            *)
(***************************************************************************)
EXTENDS Integers, FiniteSets

CONSTANTS
    Tokens,        \* (chain, address) pairs the scanner ever sees
    Chains,
    ChainOf,       \* the chain of each token
    MaxPerChain,   \* candidates.max_per_chain
    MaxStay,       \* candidates.max_stay_min
    VetoCooldown,  \* candidates.veto_cooldown_min
    RVols,         \* stage-1 relative volumes, whole multiples
    OFIs,          \* 30-trade order-flow imbalances, in tenths
    StayRVol,      \* candidates.stay_rvol_5m_min
    StayOFI,       \* candidates.stay_ofi_min, in tenths
    None,          \* Python's None
    MaxLag,        \* bound: age of a handler's timestamp
    MaxTime        \* bound: the clock stops here

ASSUME CandidatesAssumption ==
    /\ IsFiniteSet(Tokens)
    /\ ChainOf \in [Tokens -> Chains]
    /\ MaxPerChain \in Nat \ {0}
    /\ {MaxStay, VetoCooldown, MaxLag, MaxTime} \subseteq Nat
    /\ RVols \subseteq Nat
    /\ OFIs \subseteq -10 .. 10
    /\ StayRVol \in Int /\ StayOFI \in Int

VARIABLES
    now,    \* wall clock
    up,     \* the process is running
    mem,    \* active_set: the candidate held for each token, or None
    veto,   \* veto_until, 0 where the dict has no entry
    rows    \* the candidates table: row of each token, or None

vars == <<now, up, mem, veto, rows>>

-----------------------------------------------------------------------------
Status == {"active", "evicted", "expired", "vetoed"}

\* The fields of the dataclass that a later step reads; of the poll count
\* only whether it is zero.
Candidate == [first : Nat, last : Nat, rvol : RVols \cup {None},
              ofi : OFIs \cup {None}, strength : Int, polls : {0, 1}]

\* An active row carries the whole candidate; of a retired one only the
\* status and last_seen_ts are ever read back.
ActiveRow(c) == [status |-> "active", cand |-> c]
RetiredRow(status, t) == [status |-> status, last |-> t]

Row == [status : {"active"}, cand : Candidate]
       \cup [status : Status \ {"active"}, last : Nat]

ASSUME NoneAssumption == None \notin RVols \cup OFIs \cup Candidate \cup Row

\* Relative volume weighted by the order flow, which can cost at most 90 %.
StrengthOf(rvol, ofi) ==
    (IF rvol = None THEN 1 ELSE rvol) *
    (10 + (IF ofi = None THEN 0 ELSE IF ofi < -9 THEN -9 ELSE ofi))

Stays(value, bar) == value # None /\ value >= bar

Active == {k \in Tokens : mem[k] # None}
ActiveOn(ch) == {k \in Active : ChainOf[k] = ch}

HasStatus(k, s) == rows[k] # None /\ rows[k].status = s
DurablyActive(ch) == {k \in Tokens : HasStatus(k, "active") /\ ChainOf[k] = ch}

-----------------------------------------------------------------------------
\* Mutated forms of the definitions below.
NoSave(k, c) ==
    /\ mem' = [mem EXCEPT ![k] = c]
    /\ rows' = rows

FullOverByOne(ch) == Cardinality(ActiveOn(ch)) > MaxPerChain

StrongestOn(ch, k) ==
    \A j \in ActiveOn(ch) : mem[j].strength <= mem[k].strength

VetoForgotten(k) == 0

NoVetoEntry(k) ==
    IF HasStatus(k, "vetoed") /\ rows[k].last >= now - VetoCooldown
    THEN rows[k].last + VetoCooldown
    ELSE None

LoadsEveryRow(k) == HasStatus(k, "active")

SilentTooSoon(k, t) == mem[k] # None /\ t - mem[k].last >= MaxStay

-----------------------------------------------------------------------------
\* _save: the candidate and its row change together.
Save(k, c) ==
    /\ mem' = [mem EXCEPT ![k] = c]
    /\ rows' = [rows EXCEPT ![k] = ActiveRow(c)]

NewCandidate(rvol, t) ==
    [first |-> t, last |-> t, rvol |-> rvol, ofi |-> None,
     strength |-> StrengthOf(rvol, None), polls |-> 0]

Full(ch) == Cardinality(ActiveOn(ch)) >= MaxPerChain

\* The minimum by (strength, first_seen_ts); equal pairs are broken by the
\* order of the dict, which is left open.
Weakest(ch, k) ==
    \A j \in ActiveOn(ch) :
        \/ mem[k].strength < mem[j].strength
        \/ mem[k].strength = mem[j].strength /\ mem[k].first <= mem[j].first

Beats(rvol, k) == mem[k].strength < StrengthOf(rvol, None)

Blocked(k, t) == veto[k] > t

\* The four outcomes of on_nomination; a full chain has two.
BlockedCooldown(k, t) ==
    /\ Blocked(k, t)
    /\ UNCHANGED <<mem, veto, rows>>

Refreshed(k, rvol, t) ==
    /\ ~Blocked(k, t)
    /\ mem[k] # None
    /\ LET c == mem[k]
           s == StrengthOf(rvol, c.ofi)
       IN  Save(k, [c EXCEPT !.last = t, !.rvol = rvol,
                             !.strength = IF c.strength >= s THEN c.strength ELSE s])
    /\ UNCHANGED veto

RejectedCap(k, rvol, t) ==
    /\ ~Blocked(k, t)
    /\ mem[k] = None
    /\ Full(ChainOf[k])
    /\ \E w \in ActiveOn(ChainOf[k]) : Weakest(ChainOf[k], w) /\ ~Beats(rvol, w)
    /\ UNCHANGED <<mem, veto, rows>>

Entered(k, rvol, t) ==
    /\ ~Blocked(k, t)
    /\ mem[k] = None
    /\ ~Full(ChainOf[k])
    /\ Save(k, NewCandidate(rvol, t))
    /\ UNCHANGED veto

\* The incumbent a stronger newcomer k displaces.
Displaces(k, rvol, t, w) ==
    /\ ~Blocked(k, t)
    /\ mem[k] = None
    /\ Full(ChainOf[k])
    /\ w \in ActiveOn(ChainOf[k])
    /\ Weakest(ChainOf[k], w)
    /\ Beats(rvol, w)

EnteredEvicting(k, rvol, t) ==
    \E w \in Tokens :
        /\ Displaces(k, rvol, t, w)
        /\ LET c == NewCandidate(rvol, t) IN
           /\ mem' = [mem EXCEPT ![w] = None, ![k] = c]
           /\ rows' = [rows EXCEPT ![w] = RetiredRow("evicted", t),
                                   ![k] = ActiveRow(c)]
        /\ UNCHANGED veto

OnNomination(k, rvol, t) ==
    \/ BlockedCooldown(k, t)
    \/ Refreshed(k, rvol, t)
    \/ RejectedCap(k, rvol, t)
    \/ Entered(k, rvol, t)
    \/ EnteredEvicting(k, rvol, t)

\* STAY check of an active token from its row on a stage-1 page.
OnStage1Row(k, rvol, t) ==
    /\ mem[k] # None
    /\ Save(k, IF Stays(rvol, StayRVol) THEN [mem[k] EXCEPT !.last = t] ELSE mem[k])
    /\ UNCHANGED veto

\* Stage-2 result for a token that is no longer active: nothing happens.
OnTapeInactive(k) ==
    /\ mem[k] = None
    /\ UNCHANGED <<mem, veto, rows>>

\* on_tape copies the new order flow into the candidate before it looks at
\* the vetoes.
Polled(c, ofi) == [c EXCEPT !.ofi = ofi, !.strength = StrengthOf(c.rvol, ofi),
                            !.polls = 1]

OnTapeVetoed(k, ofi, t) ==
    /\ mem[k] # None
    /\ mem' = [mem EXCEPT ![k] = None]
    /\ rows' = [rows EXCEPT ![k] = RetiredRow("vetoed", t)]
    /\ veto' = [veto EXCEPT ![k] = t + VetoCooldown]

OnTapeStays(k, ofi, t) ==
    /\ mem[k] # None
    /\ LET c == Polled(mem[k], ofi)
       IN  Save(k, IF Stays(ofi, StayOFI) THEN [c EXCEPT !.last = t] ELSE c)
    /\ UNCHANGED veto

Silent(k, t) == mem[k] # None /\ t - mem[k].last > MaxStay

Expire(t) ==
    /\ mem' = [k \in Tokens |-> IF Silent(k, t) THEN None ELSE mem[k]]
    /\ rows' = [k \in Tokens |-> IF Silent(k, t)
                                 THEN RetiredRow("expired", t) ELSE rows[k]]
    /\ UNCHANGED veto

-----------------------------------------------------------------------------
\* A crash loses both dicts.  Every statement commits by itself.
LoseMemory ==
    /\ up' = FALSE
    /\ mem' = [k \in Tokens |-> None]
    /\ veto' = [k \in Tokens |-> 0]

Crash ==
    /\ LoseMemory
    /\ UNCHANGED rows

\* The process dies between the eviction's row and the newcomer's.
CrashAfterEviction(k, rvol, t) ==
    \E w \in Tokens :
        /\ Displaces(k, rvol, t, w)
        /\ rows' = [rows EXCEPT ![w] = RetiredRow("evicted", t)]
        /\ LoseMemory

\* _load
Stale(k) == HasStatus(k, "active") /\ now - rows[k].cand.last > MaxStay

Resumed(k) == HasStatus(k, "active") /\ ~Stale(k)

RearmedVeto(k) ==
    IF HasStatus(k, "vetoed") /\ rows[k].last >= now - VetoCooldown
    THEN rows[k].last + VetoCooldown
    ELSE 0

Restart ==
    /\ up' = TRUE
    /\ mem' = [k \in Tokens |-> IF Resumed(k) THEN rows[k].cand ELSE None]
    /\ rows' = [k \in Tokens |-> IF Stale(k) THEN RetiredRow("expired", rows[k].cand.last)
                                 ELSE rows[k]]
    /\ veto' = [k \in Tokens |-> RearmedVeto(k)]

-----------------------------------------------------------------------------
Stamps == (IF now > MaxLag THEN now - MaxLag ELSE 0) .. now

Init ==
    /\ now = 0
    /\ up = TRUE
    /\ mem = [k \in Tokens |-> None]
    /\ veto = [k \in Tokens |-> 0]
    /\ rows = [k \in Tokens |-> None]

Handle(k, t) ==
    \/ \E rvol \in RVols \cup {None} : OnNomination(k, rvol, t) \/ OnStage1Row(k, rvol, t)
    \/ OnTapeInactive(k)
    \/ \E ofi \in OFIs \cup {None} : OnTapeVetoed(k, ofi, t) \/ OnTapeStays(k, ofi, t)

Tick ==
    /\ now < MaxTime
    /\ now' = now + 1
    /\ UNCHANGED <<up, mem, veto, rows>>

Step ==
    /\ up
    /\ UNCHANGED <<now, up>>
    /\ \/ \E k \in Tokens, t \in Stamps : Handle(k, t)
       \/ Expire(now)

Fail ==
    /\ up
    /\ UNCHANGED now
    /\ \/ Crash
       \/ \E k \in Tokens, t \in Stamps, rvol \in RVols \cup {None} :
              CrashAfterEviction(k, rvol, t)

Recover ==
    /\ ~up
    /\ UNCHANGED now
    /\ Restart

Next == Tick \/ Step \/ Fail \/ Recover

Spec == Init /\ [][Next]_vars

-----------------------------------------------------------------------------
TypeOK ==
    /\ now \in Nat
    /\ up \in BOOLEAN
    /\ mem \in [Tokens -> Candidate \cup {None}]
    /\ veto \in [Tokens -> Nat]
    /\ rows \in [Tokens -> Row \cup {None}]

\* CAP: whatever mix of entries, evictions, crashes and restarts went before,
\* no chain has more than max_per_chain active candidates, in memory or in
\* the rows the next start will load (on_nomination).
CapRespected ==
    \A ch \in Chains :
        /\ Cardinality(ActiveOn(ch)) <= MaxPerChain
        /\ Cardinality(DurablyActive(ch)) <= MaxPerChain

\* While the process runs, the active rows are exactly the active set, field
\* by field, so a crash at any await or between any two statements loses no
\* candidate and revives none ("persisted so a restart resumes the same set").
RowsMirrorMemory ==
    up => /\ \A k \in Active : rows[k] = ActiveRow(mem[k])
          /\ \A k \in Tokens \ Active : ~HasStatus(k, "active")

\* While the process runs, every veto row still in its cooldown is armed in
\* veto_until with the same deadline, also after a restart has rebuilt the dict.
VetoesArmed ==
    up => \A k \in Tokens :
             HasStatus(k, "vetoed") /\ rows[k].last + VetoCooldown > now
                 => veto[k] = rows[k].last + VetoCooldown

\* VETO: the row of a vetoed token becomes active again only once its cooldown
\* is over, across any number of crashes and restarts, and no other handler
\* overwrites the veto (on_nomination, _load).
VetoOutlastsCooldown ==
    [][\A k \in Tokens :
          HasStatus(k, "vetoed") /\ rows'[k] # rows[k]
              => /\ rows'[k].status = "active"
                 /\ rows[k].last + VetoCooldown <= now]_vars

\* CAP: a token is evicted only from a full chain, and it ranks lowest there by
\* strength, then age.  Unless the process dies inside the eviction, a strictly
\* stronger newcomer takes the place.
EvictedK(k) == HasStatus(k, "active") /\ HasStatus(k, "evicted")'
EvictionKeepsTheStrong ==
    [][\A k \in Tokens : EvictedK(k) =>
          LET ch == ChainOf[k] IN
          /\ Cardinality(ActiveOn(ch)) = MaxPerChain
          /\ \A j \in ActiveOn(ch) \ {k} :
                \/ mem[k].strength < mem[j].strength
                \/ mem[k].strength = mem[j].strength /\ mem[k].first <= mem[j].first
          /\ up' => \E n \in ActiveOn(ch)' \ ActiveOn(ch) :
                        mem'[n].strength > mem[k].strength]_vars

Members == {k \in Tokens : HasStatus(k, "active")}
Bars == [k \in Tokens |-> IF HasStatus(k, "vetoed") THEN rows[k].last + VetoCooldown
                          ELSE 0]

\* The manager implements its contract: its members are the rows marked active
\* and its bars are the rows marked vetoed.
Contract == INSTANCE CandidateSet WITH members <- Members, barred <- Bars
KeepsContract == Contract!Spec
=============================================================================
