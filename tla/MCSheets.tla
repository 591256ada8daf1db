------------------------------ MODULE MCSheets ------------------------------
(* Instances of Sheets for TLC. *)
EXTENDS Sheets

CONSTANTS u1, u2, o1, o2, o3, o4, x, y, z

Row(id, v) == [id |-> id, v |-> v]

MCPlans == {[augments |-> x, rows |-> <<Row(u1, x), Row(o1, y)>>],
            [augments |-> y, rows |-> <<Row(u2, x)>>]}

Tab(header, rows) == [augments |-> None, header |-> header, rows |-> rows]

\* What cells mean: z are those of x in a tab that has no column for names.
MCLayout ==
  [h \in Headers |->
     [v \in Cells |->
        CASE v \in {None, Moved} -> v
          [] v = z -> IF h \in {"older", "current"} THEN Moved ELSE x
          [] OTHER -> IF h \in {"none", "legacy"} THEN Moved ELSE v]]

\* An empty tab; an old one without UUIDs; some with UUIDs and no names, with
\* rows as they were and rows of later; one with an older header; tabs the
\* user worked in: a copied row, an empty one, a name for an id, a long tab.
MCTables ==
  {Tab("none", <<>>),
   Tab("legacy", <<Row(Name, z)>>),
   Tab("nameless", <<Row(NoId, z)>>),
   Tab("nameless", <<Row(NoId, x)>>),
   Tab("older", <<Row(u1, y), Row(u2, y)>>),
   Tab("current", <<Row(u2, y), Row(u1, x), Row(u1, y)>>),
   Tab("current", <<Row(u1, y), Row(NoId, x), Row(NoId, y)>>),
   Tab("current", <<Row(Name, x), Row(NoId, None), Row(NoId, x)>>),
   Tab("current", <<Row(u2, x), Row(u2, x), Row(o1, x), Row(u1, x)>>)}

\* The ids made by an import are alike.
MCSymmetry == Permutations({o2, o3, o4})
=============================================================================
