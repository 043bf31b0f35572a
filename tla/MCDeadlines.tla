---------------------------- MODULE MCDeadlines ----------------------------
EXTENDS Deadlines, TLC
\* The values of the .cfg keep the order of the defaults: 600, 5, 600, 300, 1200.
=============================================================================
