------------------------------ MODULE MCPipeline ------------------------------
(***************************************************************************)
(* Two tokens of one chain and one place: a nomination can evict the token *)
(* that a job is evaluating.                                               *)
(***************************************************************************)
EXTENDS Pipeline, TLC

CONSTANTS tokenA, tokenB, sol

OneChain == [k \in Tokens |-> sol]
OFITenths == {5}
Interchangeable == Permutations({tokenA, tokenB})
=============================================================================
