----------------------------- MODULE MCHistory -----------------------------
EXTENDS History, TLC

CONSTANTS a1, a2, b1, i1, i2

MCItemOf == [a \in Accounts |-> IF a = b1 THEN i2 ELSE i1]
WorkersAlike == Permutations(Workers)
=============================================================================
