------------------------------- MODULE MCJwks -------------------------------
\* Jwks on a small instance.
EXTENDS Jwks
=============================================================================
