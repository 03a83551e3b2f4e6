--------------------------- MODULE MCChainScheduler ---------------------------
EXTENDS ChainScheduler

CONSTANTS s1, s2
=============================================================================
