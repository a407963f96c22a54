---------------------------- MODULE MCPoolCache ----------------------------
EXTENDS PoolCache
=============================================================================
