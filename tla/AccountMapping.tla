--------------------------- MODULE AccountMapping ---------------------------
(***************************************************************************)
(* Which account of a new connection an old one has become                 *)
(* (buildReconnectAccountIdMapping in backend/routes/plaidRoutes.js).      *)
(*                                                                         *)
(* An account is a record of its id, the key type|subtype|mask, and its    *)
(* persistent_account_id, or NoPersistent where the bank gives none.       *)
(***************************************************************************)
EXTENDS Naturals, Sequences

CONSTANT NoPersistent  \* the bank gives no persistent_account_id

\* The account at the first of some indexes, in a set of at most one.
First(news, indexes) == {news[i] : i \in {i \in indexes : \A j \in indexes : i <= j}}

\* WRONG variant: the persistent id is not looked at.
KeyOnlyChosen(old, news, used) ==
  First(news, {i \in DOMAIN news : news[i].key = old.key})

\* The new account chosen for old, in a set of at most one: by the persistent
\* id, or the first of its key that is not used yet, or the first of its key.
Chosen(old, news, used) ==
  LET same   == {i \in DOMAIN news : /\ news[i].persistent # NoPersistent
                                     /\ news[i].persistent = old.persistent}
      alike  == {i \in DOMAIN news : news[i].key = old.key}
      unused == {i \in alike : news[i].id \notin used}
  IN First(news, IF same # {} THEN same ELSE IF unused # {} THEN unused ELSE alike)

\* An account whose id has not changed is neither mapped nor used.
Changed(old, news, used) == {n \in Chosen(old, news, used) : n.id # old.id}

\* The old accounts in turn.
Mapping(olds, news) ==
  LET used[i \in 0 .. Len(olds)] ==
        IF i = 0 THEN {}
        ELSE used[i - 1] \union {n.id : n \in Changed(olds[i], news, used[i - 1])}
      New(i)  == Changed(olds[i], news, used[i - 1])
      changed == {i \in DOMAIN olds : New(i) # {}}
  IN [o \in {olds[i].id : i \in changed} |->
        LET i == CHOOSE i \in changed : olds[i].id = o IN (CHOOSE n \in New(i) : TRUE).id]

\* What tells the accounts of two connections apart: no two that differ have one
\* key, or all have a persistent id and none has gone.  same(o, n): they are the
\* same account at the bank.
Distinguished(olds, news, same(_, _)) ==
  \/ \A o \in olds, n \in news : o.key = n.key => same(o, n)
  \/ \A o \in olds : \E n \in news : /\ same(o, n)
                                     /\ o.persistent # NoPersistent
                                     /\ n.persistent = o.persistent
=============================================================================
