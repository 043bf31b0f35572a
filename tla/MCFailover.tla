----------------------------- MODULE MCFailover -----------------------------
EXTENDS LeaderFailover, TLC
\* Every behaviour may end, as in MCController.
=============================================================================
