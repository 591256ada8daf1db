--------------------------- MODULE MCAccountLinks ---------------------------
(* Instances of AccountLinks for TLC. *)
EXTENDS AccountLinks

CONSTANTS a, b

MCAccounts == {a, b}
MCStatements == {(a :> 5) @@ (b :> 6), (a :> 6) @@ (b :> 5)}

\* The bank has one account.
OneStatement == {a :> 5}

MCSymmetry ==
  Permutations(MCAccounts) \union Permutations(Keys)
=============================================================================
