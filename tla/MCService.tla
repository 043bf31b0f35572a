------------------------------ MODULE MCService ------------------------------
EXTENDS QuantumService, TLC
CONSTANTS j1, r1, r2
OneJob == {j1}
NoRequest == {}
OneRequest == {r1}
Resubmission == {r1, r2}
SameJob == [r \in Requests |-> j1]
=============================================================================
