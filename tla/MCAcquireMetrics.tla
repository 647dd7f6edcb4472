-------------------------- MODULE MCAcquireMetrics --------------------------
\* AcquireMetrics on small instances; requests are interchangeable.
EXTENDS AcquireMetrics, TLC

RequestSymmetry == Permutations(Requests)
=============================================================================
