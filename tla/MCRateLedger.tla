---------------------------- MODULE MCRateLedger ----------------------------
\* RateLedger on a small instance; identities and threads are interchangeable.
EXTENDS RateLedger, TLC

KeyThreadSymmetry == Permutations(Keys) \cup Permutations(Threads)
=============================================================================
