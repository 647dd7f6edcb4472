----------------------------- MODULE MCAcquire -----------------------------
\* Acquire on small instances; requests are interchangeable.
EXTENDS Acquire, TLC

RequestSymmetry == Permutations(Requests)
=============================================================================
