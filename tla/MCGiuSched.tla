----------------------------- MODULE MCGiuSched -----------------------------
EXTENDS GiuSched

CONSTANTS q1, q2, q3

EngOne == [a \in Qids |-> 0]
PrioZero == [a \in Qids |-> 0]

\* One pair in each of two priorities; one pair in each of two engines.
PrioTwo == [a \in Qids |-> IF a = q1 THEN 0 ELSE 1]
EngTwo == [a \in Qids |-> IF a = q1 THEN 0 ELSE 1]
=============================================================================
