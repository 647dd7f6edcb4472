-------------------------- MODULE MCIntrospection --------------------------
\* Introspection on a small instance; requests and tokens are interchangeable.
EXTENDS Introspection, TLC

Symmetry == Permutations(Requests) \cup Permutations(Tokens)
=============================================================================
