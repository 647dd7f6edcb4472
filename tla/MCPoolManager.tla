--------------------------- MODULE MCPoolManager ---------------------------
\* PoolManager on small instances; requests are interchangeable.
EXTENDS PoolManager, TLC

RequestSymmetry == Permutations(Requests)
=============================================================================
