------------------------------ MODULE MCRedis ------------------------------
\* Redis on small instances.
EXTENDS Redis, TLC
=============================================================================
