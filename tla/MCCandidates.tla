----------------------------- MODULE MCCandidates -----------------------------
(***************************************************************************)
(* Three tokens compete for two places: the choice of the one to evict     *)
(* matters, and a veto, a stay and a cooldown can all run out.             *)
(***************************************************************************)
EXTENDS Candidates, TLC

CONSTANTS tokenA, tokenB, tokenC, sol

OneChain == [k \in Tokens |-> sol]
OFITenths == {-5, 5}

Interchangeable == Permutations({tokenA, tokenB, tokenC})
=============================================================================
