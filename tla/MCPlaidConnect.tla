--------------------------- MODULE MCPlaidConnect ---------------------------
EXTENDS PlaidConnect, TLC

Symmetric == Permutations(Requests) \union Permutations(Items)
=============================================================================
