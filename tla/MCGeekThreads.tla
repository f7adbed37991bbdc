--------------------------- MODULE MCGeekThreads ---------------------------
EXTENDS GeekThreads
=============================================================================
