--------------------------- MODULE MCAlertDelivery ---------------------------
(***************************************************************************)
(* Two tokens of one chain, one capped alert an hour, and an hour longer   *)
(* than the cooldown, so that both rules and their overlap come up.        *)
(***************************************************************************)
EXTENDS AlertDelivery, TLC

CONSTANTS tokenA, tokenB, sol

OneChain == [k \in Tokens |-> sol]
TierRank == [IGNITION |-> 1, CONFIRMED |-> 2]
Interchangeable == Permutations({tokenA, tokenB})
=============================================================================
