------------------------------- MODULE MCTape -------------------------------
EXTENDS Tape

\* Two pairs of swaps share a block, and signatures run against the order the
\* API lists them in.
BlockTimes == <<1, 2, 2, 3, 3, 4>>
Signatures == <<6, 5, 4, 3, 2, 1>>
=============================================================================
