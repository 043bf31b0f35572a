---------------------------- MODULE MCController ----------------------------
EXTENDS QuantumAerJobController, TLC
\* Every behaviour may end: no job left to submit, or all jobs retained.
=============================================================================
