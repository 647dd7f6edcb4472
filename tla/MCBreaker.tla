----------------------------- MODULE MCBreaker -----------------------------
\* Breaker on a small instance; callers are interchangeable.
EXTENDS Breaker, TLC

CallerSymmetry == Permutations(Callers)
=============================================================================
