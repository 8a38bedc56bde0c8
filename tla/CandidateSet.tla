----------------------------- MODULE CandidateSet -----------------------------
(***************************************************************************)
(* What the candidate manager promises its callers: a set of members, at   *)
(* most MaxPerChain of each chain, and for every token a time until which  *)
(* a hard veto bars it.  The docstring of scanner/candidates.py is the     *)
(* text of this contract; nothing here says how it is stored, so a crash   *)
(* is invisible and a restart may at most lose members.                    *)
(***************************************************************************)
EXTENDS Integers, FiniteSets

CONSTANTS Tokens, Chains, ChainOf, MaxPerChain, VetoCooldown, MaxLag

VARIABLES
    now,
    members,   \* the active set
    barred     \* the time until which a veto bars each token, 0 if none

vars == <<now, members, barred>>

On(ch, S) == {k \in S : ChainOf[k] = ch}

MayEnter(k) == k \notin members /\ barred[k] <= now

Init ==
    /\ now = 0
    /\ members = {}
    /\ barred = [k \in Tokens |-> 0]

Tick ==
    /\ now' = now + 1
    /\ UNCHANGED <<members, barred>>

\* A token enters; a full chain gives up exactly one member for it.
Enter(k) ==
    /\ MayEnter(k)
    /\ Cardinality(On(ChainOf[k], members)) < MaxPerChain
    /\ members' = members \cup {k}
    /\ barred' = [barred EXCEPT ![k] = 0]
    /\ UNCHANGED now

Replace(old, new) ==
    /\ MayEnter(new)
    /\ old \in members /\ ChainOf[old] = ChainOf[new]
    /\ members' = (members \ {old}) \cup {new}
    /\ barred' = [barred EXCEPT ![new] = 0]
    /\ UNCHANGED now

\* Members leave without a veto: silence, or an interrupted replacement.
Leave(S) ==
    /\ S # {}
    /\ members' = members \ S
    /\ UNCHANGED <<now, barred>>

\* A hard veto judged at time t.
Veto(k) ==
    /\ k \in members
    /\ members' = members \ {k}
    /\ \E t \in 0 .. now :
          /\ now - t <= MaxLag
          /\ barred' = [barred EXCEPT ![k] = t + VetoCooldown]
    /\ UNCHANGED now

Next ==
    \/ Tick
    \/ \E k \in Tokens : Enter(k) \/ Veto(k)
    \/ \E old, new \in Tokens : Replace(old, new)
    \/ \E S \in SUBSET members : Leave(S)

Spec == Init /\ [][Next]_vars
=============================================================================
