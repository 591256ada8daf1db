------------------------- MODULE AccountLinksProofs -------------------------
(***************************************************************************)
(* Proofs about AccountLinks, for any rows, accounts, figures, number of   *)
(* connections and number of events.                                       *)
(*                                                                         *)
(* Every plan about (the one in the store, the rendered one, and the one a *)
(* reconnection works on) has rows that keep what InputStays and           *)
(* LinksPointRight say; the table, the lists on their way and the mapping  *)
(* speak of ids some connection gave; and while nothing waits to be        *)
(* rendered the effects have nothing to do.                                *)
(***************************************************************************)
EXTENDS AccountLinks, FiniteSetTheorems, TLAPS

\* What a row may hold.
Amounts == Figures \union {0} \union {s[a] : s \in Statements, a \in Accounts}

Row == [account : Ids \union {None}, manual : Amounts \union {None},
        auto : Amounts \union {None}, override : BOOLEAN, value : Amounts,
        typed : Amounts, meant : Accounts \union {None}, kept : BOOLEAN, edits : Nat]

\* The user's figure is the value of a row, or put by in a linked one.
KeepsFigure(row) ==
  /\ row.account = None /\ row.kept => row.value = row.typed
  /\ row.account # None /\ row.kept => row.manual = row.typed

FollowsMeant(row) == row.account # None => row.account.of = row.meant

Rows(confused) == {row \in Row : KeepsFigure(row) /\ (confused \/ FollowsMeant(row))}

Plans(confused) == [Entities -> Rows(confused)]

\* A table of balances.
IsTable(table) ==
  /\ DOMAIN table \subseteq Ids
  /\ \A p \in DOMAIN table : table[p] \in {s[p.of] : s \in Statements}

\* A mapping of old ids to new ones.
IsMapping(map, confused) ==
  \A o \in DOMAIN map : /\ o \in Ids /\ map[o] \in Ids
                        /\ confused \/ map[o].of = o.of

-----------------------------------------------------------------------------
(* What the operators of the rows keep.                                    *)

\* What the assumptions say of null and of the figures.
LEMMA NoneIsNoAmount ==
  None \notin Amounts /\ None \notin Ids /\ Figures \subseteq Amounts /\ 0 \in Amounts
<1>1. \A s \in Statements : \A a \in Accounts : s[a] \in Range(s)
  BY AccountLinksAssumption DEF Range
<1>2. QED BY <1>1, AccountLinksAssumption DEF Amounts, Ids

\* What each edit and effect makes of a row is a row again: linking it
LEMMA LinkedRow ==
  ASSUME NEW m \in BOOLEAN, NEW row \in Rows(m), NEW p \in Ids, NEW balance \in Amounts
  PROVE  Linked(row, p, balance) \in Rows(m) /\ Linked(row, p, balance).edits = row.edits
<1> DEFINE q == Linked(row, p, balance)
<1>1. row \in Row /\ KeepsFigure(row) BY DEF Rows
<1>2. p.of \in Accounts /\ p # None BY NoneIsNoAmount DEF Ids
<1>3. q \in Row BY <1>1, <1>2 DEF Row, Linked
<1>4. /\ q.account = p /\ q.meant = p.of /\ q.manual = row.value /\ q.typed = row.typed
      /\ q.kept = (row.kept /\ row.account = None) /\ q.edits = row.edits
  BY <1>1 DEF Row, Linked
<1> HIDE DEF q
<1>5. KeepsFigure(q) BY <1>1, <1>2, <1>4 DEF KeepsFigure
<1>6. FollowsMeant(q) BY <1>4 DEF FollowsMeant
<1>7. q \in Rows(m) BY <1>3, <1>5, <1>6 DEF Rows
<1>8. QED BY <1>7, <1>4 DEF q

\* unlinking it, which gives the figure put by back
LEMMA UnlinkedRow ==
  ASSUME NEW m \in BOOLEAN, NEW row \in Rows(m), row.account # None
  PROVE  /\ Unlinked(row) \in Rows(m) /\ Unlinked(row).edits = row.edits
         /\ Unlinked(row).account = None
<1> DEFINE q == Unlinked(row)
<1>1. row \in Row /\ KeepsFigure(row) BY DEF Rows
<1>2. q \in Row BY <1>1 DEF Row, Unlinked
<1>3. /\ q.account = None /\ q.value = (IF row.manual = None THEN row.value ELSE row.manual)
      /\ q.typed = row.typed /\ q.kept = row.kept /\ q.edits = row.edits
  BY <1>1 DEF Row, Unlinked
<1> HIDE DEF q
<1>4. row.typed # None BY <1>1, NoneIsNoAmount DEF Row
<1>5. KeepsFigure(q) BY <1>1, <1>3, <1>4 DEF KeepsFigure
<1>6. FollowsMeant(q) BY <1>3 DEF FollowsMeant
<1>7. q \in Rows(m) BY <1>2, <1>5, <1>6 DEF Rows
<1>8. QED BY <1>7, <1>3 DEF q

\* overriding the balance of its account
LEMMA OverriddenRow ==
  ASSUME NEW m \in BOOLEAN, NEW row \in Rows(m), NEW v \in Amounts, row.account # None
  PROVE  Overridden(row, v) \in Rows(m) /\ Overridden(row, v).edits = row.edits
<1> DEFINE q == Overridden(row, v)
<1>1. row \in Row /\ (m \/ FollowsMeant(row)) BY DEF Rows
<1>2. q \in Row BY <1>1 DEF Row, Overridden
<1>3. /\ q.account = row.account /\ q.meant = row.meant /\ q.manual = v /\ q.typed = v
      /\ q.edits = row.edits
  BY <1>1 DEF Row, Overridden
<1> HIDE DEF q
<1>4. KeepsFigure(q) /\ (m \/ FollowsMeant(q)) BY <1>1, <1>3 DEF KeepsFigure, FollowsMeant
<1>5. q \in Rows(m) BY <1>2, <1>4 DEF Rows
<1>6. QED BY <1>5, <1>3 DEF q

\* reverting a link whose account is gone
LEMMA RevertedRow ==
  ASSUME NEW m \in BOOLEAN, NEW row \in Rows(m)
  PROVE  Reverted(row) \in Rows(m) /\ Reverted(row).edits = row.edits
<1> DEFINE q == Reverted(row)
<1>1. row \in Row /\ (m \/ FollowsMeant(row)) BY DEF Rows
<1>2. q \in Row BY <1>1 DEF Row, Reverted
<1>3. q.account = row.account /\ q.meant = row.meant /\ q.kept = FALSE /\ q.edits = row.edits
  BY <1>1 DEF Row, Reverted
<1> HIDE DEF q
<1>4. KeepsFigure(q) /\ (m \/ FollowsMeant(q)) BY <1>1, <1>3 DEF KeepsFigure, FollowsMeant
<1>5. q \in Rows(m) BY <1>2, <1>4 DEF Rows
<1>6. QED BY <1>5, <1>3 DEF q

\* typing a figure into a row that is not linked
LEMMA TypedRow ==
  ASSUME NEW m \in BOOLEAN, NEW row \in Rows(m), NEW v \in Amounts
  PROVE  LET q == [row EXCEPT !.value = v, !.typed = v, !.kept = TRUE]
         IN row.account = None => q \in Rows(m) /\ q.edits = row.edits
<1> DEFINE q == [row EXCEPT !.value = v, !.typed = v, !.kept = TRUE]
<1>1. row \in Row BY DEF Rows
<1>2. q \in Row BY <1>1 DEF Row
<1>3. q.account = row.account /\ q.value = v /\ q.typed = v /\ q.edits = row.edits
  BY <1>1 DEF Row
<1> HIDE DEF q
<1>4. row.account = None => q \in Rows(m)
  BY <1>2, <1>3 DEF Rows, KeepsFigure, FollowsMeant
<1>5. QED BY <1>4, <1>3 DEF q

\* a check-in, which overrides the balance
LEMMA CheckedInRow ==
  ASSUME NEW m \in BOOLEAN, NEW row \in Rows(m), NEW v \in Amounts
  PROVE  LET q == [Overridden(row, v) EXCEPT !.value = v]
         IN q \in Rows(m) /\ q.edits = row.edits
<1> DEFINE o == Overridden(row, v)
           q == [o EXCEPT !.value = v]
<1>1. row \in Row /\ (m \/ FollowsMeant(row)) BY DEF Rows
<1>2. o \in Row BY <1>1 DEF Row, Overridden
<1>3. /\ o.account = row.account /\ o.meant = row.meant /\ o.manual = v /\ o.typed = v
      /\ o.edits = row.edits
  BY <1>1 DEF Row, Overridden
<1> HIDE DEF o
<1>4. /\ q \in Row /\ q.account = o.account /\ q.meant = o.meant /\ q.manual = o.manual
      /\ q.typed = o.typed /\ q.edits = o.edits /\ q.value = v
  BY <1>2 DEF Row
<1> HIDE DEF q
<1>5. KeepsFigure(q) /\ (m \/ FollowsMeant(q))
  BY <1>1, <1>3, <1>4 DEF KeepsFigure, FollowsMeant
<1>6. q \in Rows(m) BY <1>4, <1>5 DEF Rows
<1>7. QED BY <1>6, <1>3, <1>4 DEF q, o

\* counting the edit.
LEMMA CountedRow ==
  ASSUME NEW m \in BOOLEAN, NEW row \in Rows(m)
  PROVE  LET q == [row EXCEPT !.edits = @ + 1]
         IN q \in Rows(m) /\ q.edits = row.edits + 1
<1> DEFINE q == [row EXCEPT !.edits = @ + 1]
<1>1. row \in Row /\ KeepsFigure(row) /\ (m \/ FollowsMeant(row)) BY DEF Rows
<1>2. /\ q \in Row /\ q.account = row.account /\ q.meant = row.meant /\ q.manual = row.manual
      /\ q.typed = row.typed /\ q.value = row.value /\ q.kept = row.kept
      /\ q.edits = row.edits + 1
  BY <1>1 DEF Row
<1> HIDE DEF q
<1>3. KeepsFigure(q) /\ (m \/ FollowsMeant(q)) BY <1>1, <1>2 DEF KeepsFigure, FollowsMeant
<1>4. q \in Rows(m) BY <1>2, <1>3 DEF Rows
<1>5. QED BY <1>4, <1>2 DEF q

\* Rows are the same when their fields are.
LEMMA SameRow ==
  ASSUME NEW r \in Row, NEW s \in Row,
         r.account = s.account, r.manual = s.manual, r.auto = s.auto,
         r.override = s.override, r.value = s.value, r.typed = s.typed,
         r.meant = s.meant, r.kept = s.kept, r.edits = s.edits
  PROVE  r = s
BY DEF Row

\* What applyConnectedBalancesToPlan does to a row of an account in the table.
Carried(row, balance) ==
  [row EXCEPT !.auto = balance, !.value = IF row.override THEN @ ELSE balance]

\* Carrying a balance keeps a row, and doing it twice is doing it once.
LEMMA CarriedRow ==
  ASSUME NEW m \in BOOLEAN, NEW row \in Rows(m), NEW balance \in Amounts,
         row.account # None
  PROVE  LET q == Carried(row, balance)
         IN /\ q \in Rows(m) /\ q.edits = row.edits /\ q.account = row.account
            /\ Carried(q, balance) = q
            /\ q.auto = balance /\ (q.override \/ q.value = balance)
<1> DEFINE q == Carried(row, balance)
           r == Carried(q, balance)
<1>1. row \in Row /\ KeepsFigure(row) /\ (m \/ FollowsMeant(row)) BY DEF Rows
<1>2. /\ q \in Row /\ q.account = row.account /\ q.meant = row.meant /\ q.manual = row.manual
      /\ q.typed = row.typed /\ q.kept = row.kept /\ q.edits = row.edits
      /\ q.override = row.override /\ q.auto = balance
      /\ q.value = (IF row.override THEN row.value ELSE balance)
  BY <1>1 DEF Row, Carried
<1> HIDE DEF q
<1>3. KeepsFigure(q) /\ (m \/ FollowsMeant(q)) BY <1>1, <1>2 DEF KeepsFigure, FollowsMeant
<1>4. q \in Rows(m) BY <1>2, <1>3 DEF Rows
<1>5. /\ r \in Row /\ r.account = q.account /\ r.meant = q.meant /\ r.manual = q.manual
      /\ r.typed = q.typed /\ r.kept = q.kept /\ r.edits = q.edits
      /\ r.override = q.override /\ r.auto = balance
      /\ r.value = (IF q.override THEN q.value ELSE balance)
  BY <1>2 DEF Row, Carried
<1> HIDE DEF r
<1>6. r = q BY <1>2, <1>5, SameRow
<1>7. q.override \/ q.value = balance BY <1>1, <1>2 DEF Row
<1>8. QED BY <1>2, <1>4, <1>6, <1>7 DEF q, r

\* What a table of balances holds.
LEMMA TableHolds ==
  ASSUME NEW table, IsTable(table), NEW p \in DOMAIN table
  PROVE  table[p] \in Amounts /\ p \in Ids /\ p # None
<1>1. p \in Ids /\ table[p] \in {s[p.of] : s \in Statements} BY DEF IsTable
<1>2. p.of \in Accounts BY <1>1 DEF Ids
<1>3. QED BY <1>1, <1>2, NoneIsNoAmount DEF Amounts

\* applyConnectedBalancesToPlan keeps what the rows keep, and when it has run it
\* has nothing left to do.
LEMMA AppliedPlan ==
  ASSUME NEW m \in BOOLEAN, NEW p \in Plans(m), NEW table, IsTable(table)
  PROVE  LET q == ApplyBalances(p, table)
         IN /\ q \in Plans(m)
            /\ \A e \in Entities : q[e].edits = p[e].edits /\ q[e].account = p[e].account
            /\ ApplyBalances(q, table) = q
<1> DEFINE q == ApplyBalances(p, table)
           r == ApplyBalances(q, table)
<1>1. /\ q = [e \in Entities |-> IF p[e].account \in DOMAIN table
                                 THEN Carried(p[e], table[p[e].account]) ELSE p[e]]
      /\ r = [e \in Entities |-> IF q[e].account \in DOMAIN table
                                 THEN Carried(q[e], table[q[e].account]) ELSE q[e]]
  BY DEF ApplyBalances, Carried
<1> HIDE DEF q, r
<1>2. \A e \in Entities : /\ q[e] \in Rows(m) /\ q[e].edits = p[e].edits
                          /\ q[e].account = p[e].account /\ r[e] = q[e]
  <2> TAKE e \in Entities
  <2>1. p[e] \in Rows(m) BY DEF Plans
  <2>2. CASE p[e].account \in DOMAIN table
    <3>1. table[p[e].account] \in Amounts /\ p[e].account # None BY <2>2, TableHolds
    <3>2. q[e] = Carried(p[e], table[p[e].account]) BY <1>1, <2>2
    <3>3. /\ q[e] \in Rows(m) /\ q[e].edits = p[e].edits /\ q[e].account = p[e].account
          /\ Carried(q[e], table[p[e].account]) = q[e]
      BY <2>1, <3>1, <3>2, CarriedRow
    <3>4. r[e] = q[e] BY <1>1, <2>2, <3>3
    <3>5. QED BY <3>3, <3>4
  <2>3. CASE p[e].account \notin DOMAIN table
    <3>1. q[e] = p[e] BY <1>1, <2>3
    <3>2. r[e] = q[e] BY <1>1, <2>3, <3>1
    <3>3. QED BY <2>1, <3>1, <3>2
  <2>4. QED BY <2>2, <2>3
<1>3. q \in Plans(m) BY <1>1, <1>2 DEF Plans
<1>4. r = q BY <1>1, <1>2
<1>5. QED BY <1>2, <1>3, <1>4 DEF q, r

\* revertStalePlanLinks ends every link to an account that is gone.
LEMMA RevertedPlan ==
  ASSUME NEW m \in BOOLEAN, NEW p \in Plans(m), NEW table
  PROVE  LET q == RevertStale(p, table)
         IN /\ q \in Plans(m)
            /\ \A e \in Entities : q[e].edits = p[e].edits
            /\ Stale(q, table) = {}
<1> DEFINE q == RevertStale(p, table)
<1>1. q = [e \in Entities |-> IF e \in Stale(p, table) THEN Unlinked(p[e]) ELSE p[e]]
  BY DEF RevertStale
<1> HIDE DEF q
<1>2. \A e \in Entities : /\ q[e] \in Rows(m) /\ q[e].edits = p[e].edits
                          /\ ~(q[e].account # None /\ q[e].account \notin DOMAIN table)
  <2> TAKE e \in Entities
  <2>1. p[e] \in Rows(m) BY DEF Plans
  <2>2. CASE e \in Stale(p, table)
    <3>1. p[e].account # None BY <2>2 DEF Stale
    <3>2. QED BY <1>1, <2>1, <2>2, <3>1, UnlinkedRow
  <2>3. CASE e \notin Stale(p, table)
    <3>1. q[e] = p[e] BY <1>1, <2>3
    <3>2. QED BY <2>1, <2>3, <3>1 DEF Stale
  <2>4. QED BY <2>2, <2>3
<1>3. q \in Plans(m) BY <1>1, <1>2 DEF Plans
<1>4. Stale(q, table) = {} BY <1>2 DEF Stale
<1>5. QED BY <1>2, <1>3, <1>4 DEF q

\* applyAccountMapping.
LEMMA MappedPlan ==
  ASSUME NEW m \in BOOLEAN, NEW p \in Plans(m), NEW map, IsMapping(map, m)
  PROVE  LET q == Mapped(p, map)
         IN q \in Plans(m) /\ \A e \in Entities : q[e].edits = p[e].edits
<1> DEFINE q == Mapped(p, map)
<1>1. q = [e \in Entities |-> IF p[e].account \in DOMAIN map
                              THEN [p[e] EXCEPT !.account = map[p[e].account]] ELSE p[e]]
  BY DEF Mapped
<1> HIDE DEF q
<1>2. \A e \in Entities : q[e] \in Rows(m) /\ q[e].edits = p[e].edits
  <2> TAKE e \in Entities
  <2> DEFINE old == p[e].account
             row == p[e]
  <2>1. row \in Rows(m) BY DEF Plans
  <2>2. row \in Row /\ KeepsFigure(row) /\ (m \/ FollowsMeant(row)) BY <2>1 DEF Rows
  <2>3. CASE old \in DOMAIN map
    <3>1. old # None /\ map[old] \in Ids /\ map[old] # None /\ (m \/ map[old].of = old.of)
      BY <2>3, NoneIsNoAmount DEF IsMapping
    <3>2. q[e] = [row EXCEPT !.account = map[old]] BY <1>1, <2>3
    <3>3. /\ q[e] \in Row /\ q[e].account = map[old] /\ q[e].meant = row.meant
          /\ q[e].manual = row.manual /\ q[e].typed = row.typed /\ q[e].kept = row.kept
          /\ q[e].edits = row.edits
      BY <2>2, <3>1, <3>2 DEF Row
    <3>4. KeepsFigure(q[e]) /\ (m \/ FollowsMeant(q[e]))
      BY <2>2, <3>1, <3>3 DEF KeepsFigure, FollowsMeant
    <3>5. QED BY <3>3, <3>4 DEF Rows
  <2>4. CASE old \notin DOMAIN map BY <1>1, <2>1, <2>4
  <2>5. QED BY <2>3, <2>4
<1>3. q \in Plans(m) BY <1>1, <1>2 DEF Plans
<1>4. QED BY <1>2, <1>3 DEF q

-----------------------------------------------------------------------------
(* What buildReconnectAccountIdMapping maps an account to.                 *)

\* It is an account of the new connection with the same persistent id or, where
\* there is none with that, one of the same key.
Matches(old, news, n) ==
  LET same(k) == k.persistent # NoPersistent /\ k.persistent = old.persistent
  IN same(n) \/ (n.key = old.key /\ \A i \in DOMAIN news : ~same(news[i]))

\* An account chosen for another is one of the new ones, and matches it.
LEMMA ChosenMatches ==
  ASSUME NEW old, NEW news, NEW used, NEW n \in Chosen(old, news, used)
  PROVE  (\E i \in DOMAIN news : n = news[i]) /\ Matches(old, news, n)
<1> DEFINE same   == {i \in DOMAIN news : /\ news[i].persistent # NoPersistent
                                          /\ news[i].persistent = old.persistent}
           alike  == {i \in DOMAIN news : news[i].key = old.key}
           unused == {i \in alike : news[i].id \notin used}
           from   == IF same # {} THEN same ELSE IF unused # {} THEN unused ELSE alike
<1>1. n \in First(news, from) BY DEF Chosen
<1>2. PICK i \in from : n = news[i] BY <1>1 DEF First
<1>3. CASE same # {} BY <1>2, <1>3 DEF Matches
<1>4. CASE same = {}
  <2>1. i \in alike BY <1>2, <1>4
  <2>2. n.key = old.key /\ i \in DOMAIN news BY <1>2, <2>1
  <2>3. \A k \in DOMAIN news : ~(/\ news[k].persistent # NoPersistent
                                 /\ news[k].persistent = old.persistent)
    BY <1>4
  <2>4. QED BY <1>2, <2>2, <2>3 DEF Matches
<1>5. QED BY <1>3, <1>4

\* What an old account is mapped to is an account of the new connection that
\* matches it, whatever the accounts before it have used up.
THEOREM MappingMatches ==
  ASSUME NEW olds, NEW news, NEW o \in DOMAIN Mapping(olds, news)
  PROVE  \E i \in DOMAIN olds, j \in DOMAIN news :
           /\ o = olds[i].id /\ Mapping(olds, news)[o] = news[j].id
           /\ Matches(olds[i], news, news[j])
<1>1. PICK used :
        Mapping(olds, news) =
          [a \in {olds[i].id : i \in {i \in DOMAIN olds :
                                        Changed(olds[i], news, used[i - 1]) # {}}} |->
             LET i == CHOOSE i \in {i \in DOMAIN olds :
                                        Changed(olds[i], news, used[i - 1]) # {}} :
                        olds[i].id = a
             IN (CHOOSE n \in Changed(olds[i], news, used[i - 1]) : TRUE).id]
  BY DEF Mapping
<1> DEFINE New(i)  == Changed(olds[i], news, used[i - 1])
           changed == {i \in DOMAIN olds : New(i) # {}}
           i == CHOOSE i \in changed : olds[i].id = o
           n == CHOOSE n \in New(i) : TRUE
<1>2. o \in {olds[k].id : k \in changed} BY <1>1
<1>3. i \in changed /\ olds[i].id = o BY <1>2
<1>4. Mapping(olds, news)[o] = n.id BY <1>1, <1>2
<1>5. i \in DOMAIN olds /\ New(i) # {} BY <1>3
<1>6. n \in New(i) BY <1>5
<1>7. n \in Chosen(olds[i], news, used[i - 1]) BY <1>6 DEF Changed
<1> HIDE DEF i, n
<1>8. QED BY <1>3, <1>4, <1>5, <1>7, ChosenMatches

-----------------------------------------------------------------------------
(* The invariant.                                                          *)

Shaped ==
  /\ clicked \in BOOLEAN /\ dirty \in BOOLEAN /\ open \in BOOLEAN /\ mixed \in BOOLEAN
  /\ DOMAIN bank = {"gen", "live", "chosen"}
  /\ bank.gen \in Nat \ {0}
  /\ DOMAIN shown = {"plan", "list"}
  /\ DOMAIN shell = {"at", "gen", "rows"}
  /\ DOMAIN link = {"at", "here", "plan", "map", "todo", "update"}

PlansSound ==
  /\ plan \in Plans(mixed)
  /\ shown.plan \in Plans(mixed)
  /\ link.at # "idle" => link.plan \in Plans(mixed)

TablesSound ==
  /\ IsTable(stored)
  /\ IsTable(list.rows) /\ IsTable(shown.list.rows)
  /\ \A answer \in answers : IsTable(answer.rows)
  /\ IsTable(shell.rows)
  /\ IsTable(link.update)

LinkSound ==
  /\ link.at \in {"idle", "exchanging", "deleting", "upserting", "moving", "answered"}
  /\ IsMapping(link.map, mixed)
  /\ link.at = "exchanging" => bank.gen < MaxGen
  /\ link.at = "moving" => /\ link.todo \in Seq(DOMAIN link.map)
                           /\ \A o \in DOMAIN link.map : link.map[o] \in DOMAIN link.update

\* How often the user changed a row is what the plans say, but for the changes
\* that are not rendered yet and those made during a reconnection.
EditsCounted ==
  /\ last \in [Entities -> Nat]
  /\ \A e \in Entities \ unsure :
       /\ plan[e].edits = last[e]
       /\ ~clicked => shown.plan[e].edits = last[e]
       /\ link.at # "idle" => link.plan[e].edits = last[e]

Settled ==
  /\ clicked => dirty
  /\ open /\ ~dirty => ~Changes(plan)

IInv == Shaped /\ PlansSound /\ TablesSound /\ LinkSound /\ EditsCounted /\ Settled

-----------------------------------------------------------------------------
(* What is not touched.                                                    *)

\* What is right when accounts can be told apart is so when they cannot.
LEMMA MoreConfused ==
  ASSUME NEW m \in BOOLEAN, NEW n \in BOOLEAN, m => n
  PROVE  /\ \A p : p \in Plans(m) => p \in Plans(n)
         /\ \A map : IsMapping(map, m) => IsMapping(map, n)
<1>1. Rows(m) \subseteq Rows(n) BY DEF Rows
<1>2. \A p : p \in Plans(m) => p \in Plans(n) BY <1>1 DEF Plans
<1>3. \A map : IsMapping(map, m) => IsMapping(map, n) BY DEF IsMapping
<1>4. QED BY <1>2, <1>3

\* A step that leaves the screen alone, and the plan of a reconnection that goes on.
LEMMA ScreenStays ==
  ASSUME IInv, UNCHANGED <<screen, last, unsure>>,
         mixed' \in BOOLEAN, mixed => mixed',
         link'.at # "idle" => link.at # "idle" /\ link'.plan = link.plan
  PROVE  PlansSound' /\ EditsCounted' /\ Settled'
<1>1. UNCHANGED <<plan, list, shown, dirty, clicked, open, last, unsure>> BY DEF screen
<1>2. mixed \in BOOLEAN BY DEF IInv, Shaped
<1>3. \A p : p \in Plans(mixed) => p \in Plans(mixed') BY <1>2, MoreConfused
<1>4. PlansSound' BY <1>1, <1>3 DEF IInv, PlansSound
<1>5. EditsCounted' BY <1>1 DEF IInv, EditsCounted
<1>6. Settled' BY <1>1 DEF IInv, Settled, Changes
<1>7. QED BY <1>4, <1>5, <1>6

\* A step beside the screen and the reconnection.
LEMMA Elsewhere ==
  ASSUME IInv, UNCHANGED <<screen, link, ghosts>>,
         DOMAIN bank' = DOMAIN bank, bank'.gen = bank.gen, DOMAIN shell' = DOMAIN shell,
         IsTable(stored'), \A answer \in answers' : IsTable(answer.rows),
         IsTable(shell'.rows)
  PROVE  IInv'
<1>1. /\ UNCHANGED <<plan, list, shown, dirty, clicked, open, link, last, unsure, mixed>>
      /\ mixed \in BOOLEAN
  BY DEF screen, ghosts, IInv, Shaped
<1>2. PlansSound' /\ EditsCounted' /\ Settled' BY <1>1, ScreenStays
<1>3. Shaped' BY <1>1 DEF IInv, Shaped
<1>4. TablesSound' BY <1>1 DEF IInv, TablesSound
<1>5. LinkSound' BY <1>1 DEF IInv, LinkSound
<1>6. QED BY <1>2, <1>3, <1>4, <1>5 DEF IInv

\* A step of a reconnection.
LEMMA LinkSteps ==
  ASSUME IInv, UNCHANGED <<screen, fetches, last, unsure>>,
         DOMAIN bank' = DOMAIN bank, bank'.gen \in Nat \ {0},
         mixed' \in BOOLEAN, mixed => mixed',
         DOMAIN link' = DOMAIN link,
         link'.at # "idle" => link.at # "idle" /\ link'.plan = link.plan,
         IsTable(stored'), IsTable(link'.update), LinkSound'
  PROVE  IInv'
<1>1. UNCHANGED <<plan, list, shown, dirty, clicked, open, answers, shell>>
  BY DEF screen, fetches
<1>2. PlansSound' /\ EditsCounted' /\ Settled' BY ScreenStays
<1>3. Shaped' BY <1>1 DEF IInv, Shaped
<1>4. TablesSound' BY <1>1 DEF IInv, TablesSound
<1>5. QED BY <1>2, <1>3, <1>4 DEF IInv

\* An empty table, and an empty mapping.
LEMMA EmptyTables ==
  /\ IsTable(<<>>)
  /\ \A m : IsMapping(<<>>, m)
BY DEF IsTable, IsMapping

-----------------------------------------------------------------------------
(* The effects of the screen.                                              *)

\* They keep what the rows keep, replace no plan by an equal one, and come to
\* rest after two renderings.
LEMMA EffectsKeep ==
  ASSUME IInv, NEW p \in Plans(mixed)
  PROVE  /\ Effects(p) \in Plans(mixed)
         /\ \A e \in Entities : Effects(p)[e].edits = p[e].edits
         /\ ~Changes(p) => Effects(p) = p
         /\ ~Changes(Effects(Effects(p)))
<1> DEFINE a == ApplyBalances(p, list.rows)
           r == RevertStale(p, list.rows)
           b == ApplyBalances(r, list.rows)
<1>1. mixed \in BOOLEAN /\ IsTable(list.rows) BY DEF IInv, Shaped, TablesSound
<1>2. /\ a \in Plans(mixed) /\ ApplyBalances(a, list.rows) = a
      /\ \A e \in Entities : a[e].edits = p[e].edits /\ a[e].account = p[e].account
  BY <1>1, AppliedPlan
<1>3. /\ r \in Plans(mixed) /\ Stale(r, list.rows) = {}
      /\ \A e \in Entities : r[e].edits = p[e].edits
  BY <1>1, RevertedPlan
<1>4. /\ b \in Plans(mixed) /\ ApplyBalances(b, list.rows) = b
      /\ \A e \in Entities : b[e].edits = r[e].edits /\ b[e].account = r[e].account
  BY <1>1, <1>3, AppliedPlan
<1>5. Stale(a, list.rows) = Stale(p, list.rows) BY <1>2 DEF Stale
<1>6. Stale(b, list.rows) = {} BY <1>3, <1>4 DEF Stale
<1>7. \A q : /\ ~open => Effects(q) = q
             /\ open /\ list.loaded /\ Stale(q, list.rows) # {}
                  => Effects(q) = RevertStale(q, list.rows)
             /\ open /\ ~(list.loaded /\ Stale(q, list.rows) # {})
                  => Effects(q) = ApplyBalances(q, list.rows)
             /\ Changes(q) <=> (open /\ ((list.loaded /\ Stale(q, list.rows) # {})
                                         \/ ApplyBalances(q, list.rows) # q))
  BY DEF Effects, Changes
<1> HIDE DEF a, r, b
<1>8. CASE ~open BY <1>7, <1>8
<1>9. CASE open /\ list.loaded /\ Stale(p, list.rows) # {}
  <2>1. Effects(p) = r BY <1>7, <1>9 DEF r
  <2>2. Effects(r) = b BY <1>7, <1>9, <1>3 DEF b
  <2>3. ~Changes(b) BY <1>7, <1>4, <1>6
  <2>4. Changes(p) BY <1>7, <1>9
  <2>5. QED BY <2>1, <2>2, <2>3, <2>4, <1>3
<1>10. CASE open /\ ~(list.loaded /\ Stale(p, list.rows) # {})
  <2>1. Effects(p) = a BY <1>7, <1>10 DEF a
  <2>2. Effects(a) = a BY <1>7, <1>10, <1>2, <1>5
  <2>3. ~Changes(a) BY <1>7, <1>10, <1>2, <1>5
  <2>4. ~Changes(p) => a = p BY <1>7, <1>10 DEF a
  <2>5. QED BY <2>1, <2>2, <2>3, <2>4, <1>2
<1>11. QED BY <1>8, <1>9, <1>10

\* Each action keeps the invariant: a render
LEMMA RenderKeeps == ASSUME IInv, Render PROVE IInv'
<1> USE DEF IInv
<1>1. /\ shown' = [plan |-> plan, list |-> list] /\ clicked' = FALSE
      /\ plan' = Effects(plan) /\ dirty' = Changes(plan)
      /\ UNCHANGED <<bank, stored, list, open, fetches, link, ghosts>>
  BY DEF Render
<1>2. UNCHANGED <<asked, answers, shell, last, unsure, mixed>> BY <1>1 DEF fetches, ghosts
<1>3. shown'.plan = plan /\ shown'.list = list /\ DOMAIN shown' = {"plan", "list"} BY <1>1
<1>4. plan \in Plans(mixed) BY DEF PlansSound
<1>5. /\ Effects(plan) \in Plans(mixed)
      /\ \A e \in Entities : Effects(plan)[e].edits = plan[e].edits
      /\ ~Changes(plan) => Effects(plan) = plan
  BY <1>4, EffectsKeep
<1>6. dirty' \in BOOLEAN BY <1>1 DEF Changes
<1>7. Shaped' BY <1>1, <1>2, <1>3, <1>6 DEF Shaped
<1>8. PlansSound' BY <1>1, <1>2, <1>3, <1>5 DEF PlansSound
<1>9. TablesSound' BY <1>1, <1>2, <1>3 DEF TablesSound
<1>10. LinkSound' BY <1>1, <1>2 DEF LinkSound
<1>11. EditsCounted' BY <1>1, <1>2, <1>3, <1>5 DEF EditsCounted
<1>12. Settled'
  <2>1. CASE Changes(plan) BY <1>1, <2>1 DEF Settled
  <2>2. CASE ~Changes(plan)
    <3>1. plan' = plan BY <1>1, <1>5, <2>2
    <3>2. ~Changes(plan)' BY <1>1, <3>1, <2>2 DEF Changes
    <3>3. QED BY <1>1, <3>2 DEF Settled
  <2>3. QED BY <2>1, <2>2
<1>13. QED BY <1>7, <1>8, <1>9, <1>10, <1>11, <1>12

-----------------------------------------------------------------------------
(* The screen.                                                             *)

\* the screen is entered
LEMMA EnterKeeps == ASSUME IInv, Enter PROVE IInv'
<1> USE DEF IInv
<1>1. /\ open' = TRUE /\ list' = NotLoaded /\ dirty' = TRUE /\ clicked' = TRUE
      /\ UNCHANGED <<bank, stored, plan, shown, answers, shell, link, last, unsure, mixed>>
  BY DEF Enter, ghosts
<1>2. list'.rows = <<>> BY <1>1 DEF NotLoaded
<1>3. Shaped' BY <1>1 DEF Shaped
<1>4. PlansSound' BY <1>1 DEF PlansSound
<1>5. TablesSound' BY <1>1, <1>2, EmptyTables DEF TablesSound
<1>6. LinkSound' BY <1>1 DEF LinkSound
<1>7. EditsCounted' BY <1>1 DEF EditsCounted
<1>8. Settled' BY <1>1 DEF Settled
<1>9. QED BY <1>3, <1>4, <1>5, <1>6, <1>7, <1>8

\* and left
LEMMA LeaveKeeps == ASSUME IInv, Leave PROVE IInv'
<1> USE DEF IInv
<1>1. /\ open' = FALSE /\ list' = NotLoaded /\ answers' = {}
      /\ shown' = [shown EXCEPT !.list = NotLoaded]
      /\ link' = [link EXCEPT !.here = FALSE]
      /\ UNCHANGED <<bank, stored, plan, dirty, clicked, shell, last, unsure, mixed>>
  BY DEF Leave, ghosts
<1>2. list'.rows = <<>> BY <1>1 DEF NotLoaded
<1>3. /\ DOMAIN shown' = DOMAIN shown /\ shown'.plan = shown.plan
      /\ shown'.list = NotLoaded /\ shown'.list.rows = <<>>
  BY <1>1 DEF Shaped, NotLoaded
<1>4. /\ DOMAIN link' = DOMAIN link /\ link'.at = link.at /\ link'.plan = link.plan
      /\ link'.map = link.map /\ link'.todo = link.todo /\ link'.update = link.update
  BY <1>1 DEF Shaped
<1>5. Shaped' BY <1>1, <1>3, <1>4 DEF Shaped
<1>6. PlansSound' BY <1>1, <1>3, <1>4 DEF PlansSound
<1>7. TablesSound' BY <1>1, <1>2, <1>3, <1>4, EmptyTables DEF TablesSound
<1>8. LinkSound' BY <1>1, <1>4 DEF LinkSound
<1>9. EditsCounted' BY <1>1, <1>3, <1>4 DEF EditsCounted
<1>10. Settled' BY <1>1 DEF Settled
<1>11. QED BY <1>5, <1>6, <1>7, <1>8, <1>9, <1>10

\* an answer comes
LEMMA ReceiveKeeps ==
  ASSUME IInv, NEW answer \in answers, Receive(answer) PROVE IInv'
<1> USE DEF IInv
<1>1. /\ answers' = answers \ {answer} /\ dirty' = TRUE
      /\ list' = [loaded |-> TRUE, rows |-> answer.rows, live |-> answer.live]
      /\ UNCHANGED <<bank, stored, plan, shown, clicked, open, shell, link, last, unsure,
                     mixed>>
  BY DEF Receive, ghosts
<1>2. list'.rows = answer.rows BY <1>1
<1>3. Shaped' BY <1>1 DEF Shaped
<1>4. PlansSound' BY <1>1 DEF PlansSound
<1>5. TablesSound' BY <1>1, <1>2 DEF TablesSound
<1>6. LinkSound' BY <1>1 DEF LinkSound
<1>7. EditsCounted' BY <1>1 DEF EditsCounted
<1>8. Settled' BY <1>1 DEF Settled
<1>9. QED BY <1>3, <1>4, <1>5, <1>6, <1>7, <1>8

\* What the user does to some rows: changed holds them as they become.
LEMMA EditKeeps ==
  ASSUME IInv, NEW rows \in SUBSET Entities, NEW changed,
         \A e \in rows : /\ changed[e] \in Rows(mixed)
                         /\ changed[e].edits = shown.plan[e].edits,
         ~clicked,
         plan' = [e \in Entities |-> IF e \in rows THEN [changed[e] EXCEPT !.edits = @ + 1]
                                     ELSE shown.plan[e]],
         dirty' = TRUE, clicked' = TRUE,
         last' = [e \in Entities |-> IF e \in rows THEN last[e] + 1 ELSE last[e]],
         unsure' = IF link.at = "idle" THEN unsure ELSE unsure \union rows,
         UNCHANGED <<bank, stored, list, shown, open, fetches, link, mixed>>
  PROVE  IInv'
<1> USE DEF IInv
<1>1. UNCHANGED <<asked, answers, shell>> BY DEF fetches
<1>2. mixed \in BOOLEAN /\ shown.plan \in Plans(mixed) BY DEF Shaped, PlansSound
<1>3. \A e \in rows : /\ plan'[e] \in Rows(mixed)
                      /\ plan'[e].edits = shown.plan[e].edits + 1
  <2> TAKE e \in rows
  <2>1. plan'[e] = [changed[e] EXCEPT !.edits = @ + 1] OBVIOUS
  <2>2. changed[e] \in Rows(mixed) /\ changed[e].edits = shown.plan[e].edits OBVIOUS
  <2>3. QED BY <1>2, <2>1, <2>2, CountedRow
<1>4. \A e \in Entities \ rows : plan'[e] = shown.plan[e] /\ plan'[e] \in Rows(mixed)
  BY <1>2 DEF Plans
<1>5. plan' \in Plans(mixed)
  <2>1. plan' = [e \in Entities |-> plan'[e]] OBVIOUS
  <2>2. \A e \in Entities : plan'[e] \in Rows(mixed) BY <1>3, <1>4
  <2>3. QED BY ONLY <2>1, <2>2 DEF Plans
<1>6. Shaped' BY <1>1 DEF Shaped
<1>7. PlansSound' BY <1>5 DEF PlansSound
<1>8. TablesSound' BY <1>1 DEF TablesSound
<1>9. LinkSound' BY DEF LinkSound
<1>10. EditsCounted'
  <2>1. last' \in [Entities -> Nat] BY DEF EditsCounted
  <2>2. ASSUME NEW e \in Entities, e \notin unsure'
        PROVE  plan'[e].edits = last'[e] /\ (link.at # "idle" => link.plan[e].edits = last'[e])
    <3>1. /\ e \notin unsure /\ shown.plan[e].edits = last[e]
          /\ link.at # "idle" => link.plan[e].edits = last[e] /\ e \notin rows
      BY <2>2 DEF EditsCounted
    <3>2. CASE e \in rows BY <1>3, <3>1, <3>2
    <3>3. CASE e \notin rows BY <1>4, <3>1, <3>3
    <3>4. QED BY <3>2, <3>3
  <2>3. QED BY <2>1, <2>2 DEF EditsCounted
<1>11. Settled' BY DEF Settled
<1>12. QED BY <1>6, <1>7, <1>8, <1>9, <1>10, <1>11

\* The figures and rows that the user's handlers meet.
LEMMA RowsShown ==
  ASSUME IInv
  PROVE  /\ mixed \in BOOLEAN
         /\ \A e \in Entities : shown.plan[e] \in Rows(mixed) /\ shown.plan[e] \in Row
         /\ \A p \in DOMAIN shown.list.rows : p \in Ids /\ p # None
                                              /\ shown.list.rows[p] \in Amounts
BY TableHolds DEF IInv, Shaped, PlansSound, TablesSound, Plans, Rows

\* a row is linked
LEMMA LinkKeeps ==
  ASSUME IInv, NEW e \in Entities, NEW p \in DOMAIN shown.list.rows, Link(e, p) PROVE IInv'
<1> DEFINE changed == [f \in {e} |-> Linked(shown.plan[f], p, shown.list.rows[p])]
<1>1. /\ changed[e] \in Rows(mixed) /\ changed[e].edits = shown.plan[e].edits
  BY RowsShown, LinkedRow
<1>2. plan' = [f \in Entities |-> IF f \in {e} THEN [changed[f] EXCEPT !.edits = @ + 1]
                                  ELSE shown.plan[f]]
  BY DEF Link, Edit
<1>3. /\ ~clicked /\ dirty' = TRUE /\ clicked' = TRUE
      /\ last' = [f \in Entities |-> IF f \in {e} THEN last[f] + 1 ELSE last[f]]
      /\ unsure' = IF link.at = "idle" THEN unsure ELSE unsure \union {e}
      /\ UNCHANGED <<bank, stored, list, shown, open, fetches, link, mixed>>
  BY DEF Link, Edit
<1>4. /\ {e} \in SUBSET Entities
      /\ \A f \in {e} : changed[f] \in Rows(mixed) /\ changed[f].edits = shown.plan[f].edits
  BY <1>1
<1> HIDE DEF changed
<1>5. QED BY <1>2, <1>3, <1>4, EditKeeps

\* and unlinked
LEMMA UnlinkKeeps == ASSUME IInv, NEW e \in Entities, Unlink(e) PROVE IInv'
<1> DEFINE changed == [f \in {e} |-> Unlinked(shown.plan[f])]
<1>1. /\ changed[e] \in Rows(mixed) /\ changed[e].edits = shown.plan[e].edits
  BY RowsShown, UnlinkedRow DEF Unlink
<1>2. plan' = [f \in Entities |-> IF f \in {e} THEN [changed[f] EXCEPT !.edits = @ + 1]
                                  ELSE shown.plan[f]]
  BY DEF Unlink, Edit
<1>3. /\ ~clicked /\ dirty' = TRUE /\ clicked' = TRUE
      /\ last' = [f \in Entities |-> IF f \in {e} THEN last[f] + 1 ELSE last[f]]
      /\ unsure' = IF link.at = "idle" THEN unsure ELSE unsure \union {e}
      /\ UNCHANGED <<bank, stored, list, shown, open, fetches, link, mixed>>
  BY DEF Unlink, Edit
<1>4. /\ {e} \in SUBSET Entities
      /\ \A f \in {e} : changed[f] \in Rows(mixed) /\ changed[f].edits = shown.plan[f].edits
  BY <1>1
<1> HIDE DEF changed
<1>5. QED BY <1>2, <1>3, <1>4, EditKeeps

\* an account is removed from the sheet
LEMMA RemoveFromSheetKeeps ==
  ASSUME IInv, NEW p \in DOMAIN shown.list.rows, RemoveFromSheet(p) PROVE IInv'
<1> DEFINE rows == {e \in Entities \ OtherAlt : shown.plan[e].account = p}
           changed == [f \in rows |-> Unlinked(shown.plan[f])]
<1>1. p # None BY RowsShown
<1>2. \A e \in rows : changed[e] \in Rows(mixed) /\ changed[e].edits = shown.plan[e].edits
  BY <1>1, RowsShown, UnlinkedRow
<1>3. plan' = [f \in Entities |-> IF f \in rows THEN [changed[f] EXCEPT !.edits = @ + 1]
                                  ELSE shown.plan[f]]
  BY DEF RemoveFromSheet, Edit
<1>4. /\ ~clicked /\ dirty' = TRUE /\ clicked' = TRUE
      /\ last' = [e \in Entities |-> IF e \in rows THEN last[e] + 1 ELSE last[e]]
      /\ unsure' = IF link.at = "idle" THEN unsure ELSE unsure \union rows
      /\ UNCHANGED <<bank, stored, list, shown, open, fetches, link, mixed>>
  BY DEF RemoveFromSheet, Edit
<1>5. rows \in SUBSET Entities OBVIOUS
<1> HIDE DEF rows, changed
<1>6. QED BY <1>2, <1>3, <1>4, <1>5, EditKeeps

\* a balance is overridden
LEMMA OverrideKeeps ==
  ASSUME IInv, NEW e \in Entities, NEW v \in Figures, Override(e, v) PROVE IInv'
<1> DEFINE changed == [f \in {e} |-> Overridden(shown.plan[f], v)]
<1>1. /\ changed[e] \in Rows(mixed) /\ changed[e].edits = shown.plan[e].edits
  BY RowsShown, OverriddenRow, NoneIsNoAmount DEF Override
<1>2. plan' = [f \in Entities |-> IF f \in {e} THEN [changed[f] EXCEPT !.edits = @ + 1]
                                  ELSE shown.plan[f]]
  BY DEF Override, Edit
<1>3. /\ ~clicked /\ dirty' = TRUE /\ clicked' = TRUE
      /\ last' = [f \in Entities |-> IF f \in {e} THEN last[f] + 1 ELSE last[f]]
      /\ unsure' = IF link.at = "idle" THEN unsure ELSE unsure \union {e}
      /\ UNCHANGED <<bank, stored, list, shown, open, fetches, link, mixed>>
  BY DEF Override, Edit
<1>4. /\ {e} \in SUBSET Entities
      /\ \A f \in {e} : changed[f] \in Rows(mixed) /\ changed[f].edits = shown.plan[f].edits
  BY <1>1
<1> HIDE DEF changed
<1>5. QED BY <1>2, <1>3, <1>4, EditKeeps

\* the override is switched
LEMMA ToggleOverrideKeeps ==
  ASSUME IInv, NEW e \in Entities, ToggleOverride(e) PROVE IInv'
<1> DEFINE changed == [f \in {e} |->
                         IF shown.plan[f].override THEN Reverted(shown.plan[f])
                         ELSE Overridden(shown.plan[f],
                                         IF shown.plan[f].manual = None THEN 0
                                         ELSE shown.plan[f].manual)]
           row == shown.plan[e]
           v == IF row.manual = None THEN 0 ELSE row.manual
<1>1. mixed \in BOOLEAN /\ row \in Rows(mixed) /\ row \in Row /\ row.account # None
  BY RowsShown DEF ToggleOverride
<1>2. v \in Amounts BY <1>1, NoneIsNoAmount DEF Row
<1> HIDE DEF v
<1>3. Reverted(row) \in Rows(mixed) /\ Reverted(row).edits = row.edits
  BY <1>1, RevertedRow
<1>4. Overridden(row, v) \in Rows(mixed) /\ Overridden(row, v).edits = row.edits
  BY <1>1, <1>2, OverriddenRow
<1>5. changed[e] = IF row.override THEN Reverted(row) ELSE Overridden(row, v) BY DEF v
<1>6. changed[e] \in Rows(mixed) /\ changed[e].edits = row.edits
  BY <1>3, <1>4, <1>5
<1>7. plan' = [f \in Entities |-> IF f \in {e} THEN [changed[f] EXCEPT !.edits = @ + 1]
                                  ELSE shown.plan[f]]
  BY DEF ToggleOverride, Edit
<1>8. /\ ~clicked /\ dirty' = TRUE /\ clicked' = TRUE
      /\ last' = [f \in Entities |-> IF f \in {e} THEN last[f] + 1 ELSE last[f]]
      /\ unsure' = IF link.at = "idle" THEN unsure ELSE unsure \union {e}
      /\ UNCHANGED <<bank, stored, list, shown, open, fetches, link, mixed>>
  BY DEF ToggleOverride, Edit
<1>9. /\ {e} \in SUBSET Entities
      /\ \A f \in {e} : changed[f] \in Rows(mixed) /\ changed[f].edits = shown.plan[f].edits
  BY <1>6
<1> HIDE DEF changed
<1>10. QED BY <1>7, <1>8, <1>9, EditKeeps

\* a figure is typed
LEMMA EditFigureKeeps ==
  ASSUME IInv, NEW e \in Entities, NEW v \in Figures, EditFigure(e, v) PROVE IInv'
<1> DEFINE changed == [f \in {e} |->
                         [shown.plan[f] EXCEPT !.value = v, !.typed = v, !.kept = TRUE]]
<1>1. /\ changed[e] \in Rows(mixed) /\ changed[e].edits = shown.plan[e].edits
  BY RowsShown, TypedRow, NoneIsNoAmount DEF EditFigure
<1>2. plan' = [f \in Entities |-> IF f \in {e} THEN [changed[f] EXCEPT !.edits = @ + 1]
                                  ELSE shown.plan[f]]
  BY DEF EditFigure, Edit
<1>3. /\ ~clicked /\ dirty' = TRUE /\ clicked' = TRUE
      /\ last' = [f \in Entities |-> IF f \in {e} THEN last[f] + 1 ELSE last[f]]
      /\ unsure' = IF link.at = "idle" THEN unsure ELSE unsure \union {e}
      /\ UNCHANGED <<bank, stored, list, shown, open, fetches, link, mixed>>
  BY DEF EditFigure, Edit
<1>4. /\ {e} \in SUBSET Entities
      /\ \A f \in {e} : changed[f] \in Rows(mixed) /\ changed[f].edits = shown.plan[f].edits
  BY <1>1
<1> HIDE DEF changed
<1>5. QED BY <1>2, <1>3, <1>4, EditKeeps

\* the user checks in
LEMMA CheckInKeeps ==
  ASSUME IInv, NEW e \in Entities, NEW v \in Figures, CheckIn(e, v) PROVE IInv'
<1> DEFINE changed == [f \in {e} |-> [Overridden(shown.plan[f], v) EXCEPT !.value = v]]
<1>1. /\ changed[e] \in Rows(mixed) /\ changed[e].edits = shown.plan[e].edits
  BY RowsShown, CheckedInRow, NoneIsNoAmount
<1>2. plan' = [f \in Entities |-> IF f \in {e} THEN [changed[f] EXCEPT !.edits = @ + 1]
                                  ELSE shown.plan[f]]
  BY DEF CheckIn, Edit
<1>3. /\ ~clicked /\ dirty' = TRUE /\ clicked' = TRUE
      /\ last' = [f \in Entities |-> IF f \in {e} THEN last[f] + 1 ELSE last[f]]
      /\ unsure' = IF link.at = "idle" THEN unsure ELSE unsure \union {e}
      /\ UNCHANGED <<bank, stored, list, shown, open, fetches, link, mixed>>
  BY DEF CheckIn, Edit
<1>4. /\ {e} \in SUBSET Entities
      /\ \A f \in {e} : changed[f] \in Rows(mixed) /\ changed[f].edits = shown.plan[f].edits
  BY <1>1
<1> HIDE DEF changed
<1>5. QED BY <1>2, <1>3, <1>4, EditKeeps

-----------------------------------------------------------------------------
(* The fetches, a sync, and what the user does to the connection.          *)

\* lists are asked for, answered and lost
LEMMA FetchesKeep ==
  ASSUME IInv, Focus \/ Answer \/ LoseFetch \/ RefreshStarts \/ ShellFetches PROVE IInv'
<1>1. UNCHANGED <<bank, stored, screen, link, ghosts>>
  BY DEF Focus, Answer, LoseFetch, RefreshStarts, ShellFetches
<1>2. IsTable(stored) /\ IsTable(shell.rows) /\ \A answer \in answers : IsTable(answer.rows)
  BY DEF IInv, TablesSound
<1>3. DOMAIN shell = {"at", "gen", "rows"} BY DEF IInv, Shaped
<1>4. \A answer \in answers' : IsTable(answer.rows)
  <2>1. answers' \subseteq answers \union {[rows |-> stored, live |-> bank.live]}
    BY DEF Focus, Answer, LoseFetch, RefreshStarts, ShellFetches
  <2>2. QED BY <1>2, <2>1
<1>5. DOMAIN shell' = DOMAIN shell /\ IsTable(shell'.rows)
  <2>1. CASE Focus \/ Answer \/ LoseFetch BY <1>2, <2>1 DEF Focus, Answer, LoseFetch
  <2>2. CASE RefreshStarts BY <1>2, <1>3, <2>2 DEF RefreshStarts
  <2>3. CASE ShellFetches BY <1>2, <1>3, <2>3 DEF ShellFetches
  <2>4. QED BY <2>1, <2>2, <2>3
<1>6. QED BY <1>1, <1>2, <1>4, <1>5, Elsewhere

\* The tables of balances stay tables: rows written over
LEMMA UpsertedTable ==
  ASSUME NEW rows, NEW table, IsTable(rows), IsTable(table)
  PROVE  IsTable(Upserted(rows, table))
BY DEF Upserted, IsTable

\* those of a statement
LEMMA BalancesTable ==
  ASSUME NEW ids \in SUBSET Ids, NEW statement \in Statements
  PROVE  IsTable(Balances(ids, statement)) /\ DOMAIN Balances(ids, statement) = ids
BY DEF Balances, IsTable

\* and those left when some are removed.
LEMMA WithoutTable ==
  ASSUME NEW table, IsTable(table), NEW ids PROVE IsTable(Without(table, ids))
BY DEF Without, IsTable

\* A refresh stores the balances of the bank.
LEMMA RefreshStoresKeeps ==
  ASSUME IInv, NEW statement \in Statements, RefreshStores(statement) PROVE IInv'
<1>1. /\ UNCHANGED <<bank, screen, answers, link, ghosts>>
      /\ stored' = Upserted(Balances(IdsOf(shell.gen), statement), stored)
      /\ shell' = [shell EXCEPT !.at = "done", !.gen = 0]
  BY DEF RefreshStores
<1>2. IsTable(stored) /\ IsTable(shell.rows) /\ \A answer \in answers : IsTable(answer.rows)
  BY DEF IInv, TablesSound
<1>3. DOMAIN shell' = DOMAIN shell /\ shell'.rows = shell.rows BY <1>1 DEF IInv, Shaped
<1>4. IdsOf(shell.gen) \in SUBSET Ids BY DEF IdsOf
<1>5. IsTable(stored') BY <1>1, <1>2, <1>4, BalancesTable, UpsertedTable
<1>6. QED BY <1>1, <1>2, <1>3, <1>5, Elsewhere

\* A request changes the table, and the lists are asked for again:
LEMMA RequestKeeps ==
  ASSUME IInv, NEW table, NEW live, IsTable(table), Request(table, live) PROVE IInv'
<1>1. /\ UNCHANGED <<screen, answers, shell, link, ghosts>>
      /\ stored' = table /\ bank' = [bank EXCEPT !.live = live]
  BY DEF Request
<1>2. IsTable(shell.rows) /\ \A answer \in answers : IsTable(answer.rows)
  BY DEF IInv, TablesSound
<1>3. DOMAIN bank' = DOMAIN bank /\ bank'.gen = bank.gen BY <1>1 DEF IInv, Shaped
<1>4. QED BY <1>1, <1>2, <1>3, Elsewhere

\* the removal of a connection, an item or an account
LEMMA RequestsKeep ==
  ASSUME IInv,
         Disconnect \/ RemoveItem \/ \E p \in DOMAIN shown.list.rows : RemoveAccount(p)
  PROVE  IInv'
<1>1. IsTable(stored) BY DEF IInv, TablesSound
<1>2. CASE Disconnect BY <1>2, EmptyTables, RequestKeeps DEF Disconnect
<1>3. CASE RemoveItem BY <1>3, EmptyTables, RequestKeeps DEF RemoveItem
<1>4. ASSUME NEW p \in DOMAIN shown.list.rows, RemoveAccount(p) PROVE IInv'
  <2>1. IsTable(Without(stored, {p})) BY <1>1, WithoutTable
  <2>2. QED BY <1>4, <2>1, RequestKeeps DEF RemoveAccount
<1>5. QED BY <1>2, <1>3, <1>4

\* and the revocation at the bank.
LEMMA RevokedKeeps == ASSUME IInv, Revoked PROVE IInv'
<1>1. /\ UNCHANGED <<screen, fetches, link, ghosts>>
      /\ stored' \in {stored, <<>>} /\ bank' = [bank EXCEPT !.live = FALSE]
  BY DEF Revoked
<1>2. UNCHANGED <<answers, shell>> BY <1>1 DEF fetches
<1>3. IsTable(stored) /\ IsTable(shell.rows) /\ \A answer \in answers : IsTable(answer.rows)
  BY DEF IInv, TablesSound
<1>4. DOMAIN bank' = DOMAIN bank /\ bank'.gen = bank.gen BY <1>1 DEF IInv, Shaped
<1>5. IsTable(stored') BY <1>1, <1>3, EmptyTables
<1>6. QED BY <1>1, <1>2, <1>3, <1>4, <1>5, Elsewhere

\* The shell carries the balances of its answer.
LEMMA ShellAppliesKeeps == ASSUME IInv, ShellApplies PROVE IInv'
<1> USE DEF IInv
<1> DEFINE applied == ApplyBalances(shown.plan, shell.rows)
<1>1. /\ IF applied = shown.plan THEN UNCHANGED <<plan, dirty>>
         ELSE plan' = applied /\ dirty' = TRUE
      /\ ~clicked /\ shell' = NoRefresh
      /\ UNCHANGED <<bank, stored, list, shown, clicked, open, answers, link, last, unsure,
                     mixed>>
  BY DEF ShellApplies, ghosts
<1>2. /\ applied \in Plans(mixed)
      /\ \A e \in Entities : applied[e].edits = shown.plan[e].edits
  BY AppliedPlan DEF Shaped, PlansSound, TablesSound
<1> HIDE DEF applied
<1>3. DOMAIN shell' = {"at", "gen", "rows"} /\ shell'.rows = <<>> BY <1>1 DEF NoRefresh
<1>4. CASE applied = shown.plan
  <2>1. UNCHANGED <<plan, dirty>> BY <1>1, <1>4
  <2>2. Shaped' BY <1>1, <1>3, <2>1 DEF Shaped
  <2>3. PlansSound' BY <1>1, <2>1 DEF PlansSound
  <2>4. TablesSound' BY <1>1, <1>3, EmptyTables DEF TablesSound
  <2>5. LinkSound' BY <1>1 DEF LinkSound
  <2>6. EditsCounted' BY <1>1, <2>1 DEF EditsCounted
  <2>7. Settled' BY <1>1, <2>1 DEF Settled, Changes
  <2>8. QED BY <2>2, <2>3, <2>4, <2>5, <2>6, <2>7
<1>5. CASE applied # shown.plan
  <2>1. plan' = applied /\ dirty' = TRUE BY <1>1, <1>5
  <2>2. Shaped' BY <1>1, <1>3, <2>1 DEF Shaped
  <2>3. PlansSound' BY <1>1, <1>2, <2>1 DEF PlansSound
  <2>4. TablesSound' BY <1>1, <1>3, EmptyTables DEF TablesSound
  <2>5. LinkSound' BY <1>1 DEF LinkSound
  <2>6. EditsCounted' BY <1>1, <1>2, <2>1 DEF EditsCounted
  <2>7. Settled' BY <1>1, <2>1 DEF Settled
  <2>8. QED BY <2>2, <2>3, <2>4, <2>5, <2>6, <2>7
<1>6. QED BY <1>4, <1>5

-----------------------------------------------------------------------------
(* A reconnection.                                                         *)

\* The accounts the mapping chooses from are finitely many.
LEMMA IdsFinite == IsFiniteSet(Ids)
<1> DEFINE pairs == Accounts \X (1 .. MaxGen)
           f == [x \in pairs |-> [of |-> x[1], gen |-> x[2]]]
<1>1. MaxGen \in Int /\ 1 \in Int BY AccountLinksAssumption
<1>2. IsFiniteSet(1 .. MaxGen) BY <1>1, FS_Interval
<1>3. IsFiniteSet(pairs) BY <1>2, AccountLinksAssumption, FS_Product
<1>4. f \in Surjection(pairs, Ids)
  <2>1. f \in [pairs -> Ids] BY DEF Ids
  <2>2. ASSUME NEW p \in Ids PROVE \E x \in pairs : f[x] = p
    <3>1. p.of \in Accounts /\ p.gen \in 1 .. MaxGen /\ p = [of |-> p.of, gen |-> p.gen]
      BY DEF Ids
    <3>2. <<p.of, p.gen>> \in pairs /\ f[<<p.of, p.gen>>] = p BY <3>1
    <3>3. QED BY <3>2
  <2>3. QED BY <2>1, <2>2 DEF Surjection
<1>5. QED BY <1>3, <1>4, FS_Surjection

\* So are the answers about them.
LEMMA AccountsFinite ==
  ASSUME NEW ids \in SUBSET Ids, NEW key, NEW known
  PROVE  IsFiniteSet({Account(p, key, known) : p \in ids})
<1> DEFINE accounts == {Account(p, key, known) : p \in ids}
           f == [p \in ids |-> Account(p, key, known)]
<1>1. IsFiniteSet(ids) BY IdsFinite, FS_Subset
<1>2. f \in Surjection(ids, accounts) BY DEF Surjection
<1>3. QED BY <1>1, <1>2, FS_Surjection

\* The rows of a table in some order: each once.
LEMMA InAnyOrder ==
  ASSUME NEW S, IsFiniteSet(S), NEW f \in SetToSeqs(S)
  PROVE  /\ Cardinality(S) \in Nat /\ DOMAIN f = 1 .. Cardinality(S)
         /\ \A i \in DOMAIN f : f[i] \in S
         /\ \A s \in S : \E i \in DOMAIN f : f[i] = s
<1> DEFINE n == Cardinality(S)
           D == 1 .. n
<1>1. n \in Nat BY FS_CardinalityType
<1>2. f \in [D -> S] /\ \A i, j \in D : i # j => f[i] # f[j] BY DEF SetToSeqs
<1>3. IsFiniteSet(D) /\ Cardinality(D) = n
  <2>1. n \in Int /\ 1 \in Int BY <1>1
  <2>2. IsFiniteSet(D) /\ Cardinality(D) = IF 1 > n THEN 0 ELSE n - 1 + 1
    BY <2>1, FS_Interval
  <2>3. QED BY <1>1, <2>2
<1>4. f \in Injection(D, S) BY <1>2 DEF Injection, IsInjective
<1>5. f \in Surjection(D, S) BY <1>3, <1>4, FS_Injection
<1>6. QED BY <1>1, <1>2, <1>5 DEF Surjection

\* Where the accounts of two connections can be told apart the mapping leads every
\* account to itself.
ToldApart(old, new, key, known) ==
  \/ \A p \in old, q \in new : key[p.of] = key[q.of] => p.of = q.of
  \/ \A p \in old : \E q \in new :
       p.of = q.of /\ Account(p, key, known).persistent # NoPersistent
       /\ Account(q, key, known).persistent = Account(p, key, known).persistent

\* A sequence of the accounts that have some ids.
Lists(accounts, ids, key, known) ==
  /\ \A i \in DOMAIN accounts : \E p \in ids : accounts[i] = Account(p, key, known)
  /\ \A p \in ids : \E i \in DOMAIN accounts : accounts[i] = Account(p, key, known)

\* The mapping leads to new accounts, and to the same one where they can be
\* told apart.
LEMMA MappingSound ==
  ASSUME NEW old \in SUBSET Ids, NEW new \in SUBSET Ids, NEW key, NEW known,
         NEW olds, NEW news,
         Lists(olds, old, key, known), Lists(news, new, key, known),
         NEW o \in DOMAIN Mapping(olds, news)
  PROVE  /\ o \in Ids /\ Mapping(olds, news)[o] \in new
         /\ ToldApart(old, new, key, known) => Mapping(olds, news)[o].of = o.of
<1> DEFINE map == Mapping(olds, news)
<1>1. PICK i \in DOMAIN olds, j \in DOMAIN news :
        o = olds[i].id /\ map[o] = news[j].id /\ Matches(olds[i], news, news[j])
  BY MappingMatches
<1>2. PICK p \in old : olds[i] = Account(p, key, known) BY DEF Lists
<1>3. PICK q \in new : news[j] = Account(q, key, known) BY DEF Lists
<1>4. o = p /\ map[o] = q BY <1>1, <1>2, <1>3 DEF Account
<1>5. \A r \in old \union new :
        /\ r.of \in Accounts /\ r.of # NoPersistent
        /\ Account(r, key, known).key = key[r.of]
        /\ Account(r, key, known).persistent \in {r.of, NoPersistent}
  BY AccountLinksAssumption DEF Account, Ids
<1>6. ASSUME ToldApart(old, new, key, known) PROVE q.of = p.of
  <2>1. CASE /\ Account(q, key, known).persistent # NoPersistent
             /\ Account(q, key, known).persistent = Account(p, key, known).persistent
    BY <2>1, <1>5
  <2>2. CASE /\ key[q.of] = key[p.of]
             /\ \A r \in new : ~(/\ Account(r, key, known).persistent # NoPersistent
                                 /\ Account(r, key, known).persistent
                                      = Account(p, key, known).persistent)
    BY <2>2, <1>6 DEF ToldApart
  <2>3. QED BY <2>1, <2>2, <1>1, <1>2, <1>3, <1>5 DEF Matches, Lists
<1>7. QED BY <1>4, <1>6

\* What the exchange answers, and whether the accounts are told apart.
Answered(at, balances, key, known, olds, news) ==
  /\ at = "moving" => DOMAIN Mapping(olds, news) = {o.id : o \in ToSet(olds)}
  /\ link' = [link EXCEPT !.at = at, !.map = Mapping(olds, news), !.update = balances,
                          !.todo = IF at # "moving" THEN <<>>
                                   ELSE [i \in DOMAIN olds |-> olds[i].id]]
  /\ mixed' = (mixed \/
       ~Distinguished({Account(p, key, known) : p \in DOMAIN stored},
                      {Account(p, key, known) : p \in DOMAIN balances},
                      LAMBDA o, n : o.id.of = n.id.of))

\* What the property says of accounts told apart is what the mapping needs.
LEMMA DistinguishedTold ==
  ASSUME NEW old \in SUBSET Ids, NEW new \in SUBSET Ids, NEW key, NEW known,
         Distinguished({Account(p, key, known) : p \in old},
                       {Account(p, key, known) : p \in new},
                       LAMBDA o, n : o.id.of = n.id.of)
  PROVE  ToldApart(old, new, key, known)
<1> DEFINE olds == {Account(p, key, known) : p \in old}
           news == {Account(p, key, known) : p \in new}
<1>1. \/ \A o \in olds, n \in news : o.key = n.key => o.id.of = n.id.of
      \/ \A o \in olds : \E n \in news : /\ o.id.of = n.id.of
                                         /\ o.persistent # NoPersistent
                                         /\ n.persistent = o.persistent
  BY DEF Distinguished
<1>2. \A p : Account(p, key, known).id = p /\ Account(p, key, known).key = key[p.of]
  BY DEF Account
<1>3. CASE \A o \in olds, n \in news : o.key = n.key => o.id.of = n.id.of
  <2>1. ASSUME NEW p \in old, NEW q \in new, key[p.of] = key[q.of] PROVE p.of = q.of
    <3>1. Account(p, key, known) \in olds /\ Account(q, key, known) \in news OBVIOUS
    <3> HIDE DEF olds, news
    <3>2. QED BY <1>2, <1>3, <2>1, <3>1
  <2>2. QED BY <2>1 DEF ToldApart
<1>4. CASE \A o \in olds : \E n \in news : /\ o.id.of = n.id.of
                                           /\ o.persistent # NoPersistent
                                           /\ n.persistent = o.persistent
  <2>1. ASSUME NEW p \in old
        PROVE  \E q \in new :
                 p.of = q.of /\ Account(p, key, known).persistent # NoPersistent
                 /\ Account(q, key, known).persistent = Account(p, key, known).persistent
    <3>1. Account(p, key, known) \in olds OBVIOUS
    <3>2. PICK n \in news : /\ Account(p, key, known).id.of = n.id.of
                            /\ Account(p, key, known).persistent # NoPersistent
                            /\ n.persistent = Account(p, key, known).persistent
      BY <1>4, <3>1
    <3>3. PICK q \in new : n = Account(q, key, known) OBVIOUS
    <3>4. QED BY <1>2, <3>2, <3>3
  <2>2. QED BY <2>1 DEF ToldApart
<1>5. QED BY <1>1, <1>3, <1>4

\* The answer to the exchange: its mapping and the rows that become the new ones.
LEMMA ExchangeKeeps ==
  ASSUME IInv, NEW chosen \in SUBSET Accounts, NEW statement \in Statements,
         LET balances == Balances([of : chosen, gen : {bank.gen + 1}], statement)
         IN ExchangeItem(chosen, balances) \/ ExchangeOrphan(chosen, balances)
  PROVE  IInv'
<1> USE DEF IInv
<1> DEFINE ids == [of : chosen, gen : {bank.gen + 1}]
           balances == Balances(ids, statement)
<1>1. ExchangeItem(chosen, balances) \/ ExchangeOrphan(chosen, balances) OBVIOUS
<1>2. DOMAIN balances = ids BY DEF Balances
<1> HIDE DEF balances
<1>3. /\ link.at = "exchanging"
      /\ UNCHANGED <<stored, screen, fetches, last, unsure>>
      /\ bank' = [bank EXCEPT !.gen = @ + 1, !.live = TRUE, !.chosen[bank.gen + 1] = chosen]
  BY <1>1 DEF ExchangeItem, ExchangeOrphan, Exchange
<1>4. ids \in SUBSET Ids
  <2>1. bank.gen + 1 \in 1 .. MaxGen
    BY <1>3, AccountLinksAssumption DEF Shaped, LinkSound
  <2>2. QED BY <2>1 DEF Ids
<1>5. IsTable(balances) /\ DOMAIN balances \in SUBSET Ids
  BY <1>2, <1>4, BalancesTable DEF balances
<1>6. PICK at \in {"deleting", "moving"} :
        \E key \in [Accounts -> Keys], known \in SUBSET {bank.gen, bank.gen + 1} :
          \E olds \in SetToSeqs({Account(p, key, known) : p \in DOMAIN stored}),
             news \in SetToSeqs({Account(p, key, known) : p \in DOMAIN balances}) :
            Answered(at, balances, key, known, olds, news)
  <2>1. CASE ExchangeItem(chosen, balances)
    <3>1. \E key \in [Accounts -> Keys], known \in SUBSET {bank.gen, bank.gen + 1} :
            \E olds \in SetToSeqs({Account(p, key, known) : p \in DOMAIN stored}),
               news \in SetToSeqs({Account(p, key, known) : p \in DOMAIN balances}) :
              Answered("deleting", balances, key, known, olds, news)
      BY <2>1, Zenon DEF ExchangeItem, Exchange, Answered
    <3>2. QED BY <3>1
  <2>2. CASE ExchangeOrphan(chosen, balances)
    <3>1. \E key \in [Accounts -> Keys], known \in SUBSET {bank.gen, bank.gen + 1} :
            \E olds \in SetToSeqs({Account(p, key, known) : p \in DOMAIN stored}),
               news \in SetToSeqs({Account(p, key, known) : p \in DOMAIN balances}) :
              Answered("moving", balances, key, known, olds, news)
      BY <2>2, Zenon DEF ExchangeOrphan, Exchange, Answered
    <3>2. QED BY <3>1
  <2>3. QED BY <1>1, <2>1, <2>2
<1>7. PICK key \in [Accounts -> Keys], known \in SUBSET {bank.gen, bank.gen + 1} :
        \E olds \in SetToSeqs({Account(p, key, known) : p \in DOMAIN stored}),
           news \in SetToSeqs({Account(p, key, known) : p \in DOMAIN balances}) :
          Answered(at, balances, key, known, olds, news)
  BY <1>6
<1> DEFINE old == {Account(p, key, known) : p \in DOMAIN stored}
           new == {Account(p, key, known) : p \in DOMAIN balances}
<1>8. PICK olds \in SetToSeqs(old), news \in SetToSeqs(new) :
        Answered(at, balances, key, known, olds, news)
  BY <1>7
<1>9. DOMAIN stored \in SUBSET Ids /\ mixed \in BOOLEAN /\ IsTable(stored)
  BY DEF Shaped, TablesSound, IsTable
<1> DEFINE map == Mapping(olds, news)
<1>10. /\ DOMAIN link' = DOMAIN link /\ link'.at = at /\ link'.map = map
       /\ link'.update = balances /\ link'.plan = link.plan
       /\ at = "moving" => link'.todo = [i \in DOMAIN olds |-> olds[i].id]
  BY <1>8 DEF Shaped, Answered
<1>11. /\ mixed' \in BOOLEAN /\ (mixed => mixed')
       /\ mixed' \/ ToldApart(DOMAIN stored, DOMAIN balances, key, known)
  BY <1>5, <1>8, <1>9, DistinguishedTold DEF Answered
<1>12. DOMAIN olds = 1 .. Cardinality(old) /\ Cardinality(old) \in Nat
       /\ Lists(olds, DOMAIN stored, key, known)
  <2>1. IsFiniteSet(old) BY <1>9, AccountsFinite
  <2>2. /\ DOMAIN olds = 1 .. Cardinality(old) /\ Cardinality(old) \in Nat
        /\ \A i \in DOMAIN olds : olds[i] \in old
        /\ \A n \in old : \E i \in DOMAIN olds : olds[i] = n
    <3> HIDE DEF old
    <3>1. QED BY <2>1, InAnyOrder
  <2>3. QED BY <2>2 DEF Lists
<1>13. Lists(news, DOMAIN balances, key, known)
  <2>1. IsFiniteSet(new) BY <1>5, AccountsFinite
  <2>2. /\ \A i \in DOMAIN news : news[i] \in new
        /\ \A n \in new : \E i \in DOMAIN news : news[i] = n
    <3> HIDE DEF new
    <3>1. QED BY <2>1, InAnyOrder
  <2>3. QED BY <2>2 DEF Lists
<1>14. IsMapping(map, mixed') /\ \A o \in DOMAIN map : map[o] \in DOMAIN balances
  <2> HIDE DEF old, new, ids
  <2>1. \A o \in DOMAIN map :
          /\ o \in Ids /\ map[o] \in DOMAIN balances
          /\ ToldApart(DOMAIN stored, DOMAIN balances, key, known) => map[o].of = o.of
    BY <1>5, <1>9, <1>12, <1>13, MappingSound
  <2>2. \A o \in DOMAIN map : map[o] \in Ids BY <1>5, <2>1
  <2>3. QED BY <1>11, <2>1, <2>2 DEF IsMapping
<1>15. at = "moving" => link'.todo \in Seq(DOMAIN map)
  <2> HAVE at = "moving"
  <2>1. DOMAIN map = {o.id : o \in ToSet(olds)} BY <1>8 DEF Answered
  <2>2. \A i \in DOMAIN olds : olds[i].id \in DOMAIN map BY <2>1 DEF ToSet
  <2>3. link'.todo = [i \in 1 .. Cardinality(old) |-> olds[i].id] BY <1>10, <1>12
  <2> HIDE DEF map, old
  <2>4. QED BY <1>12, <2>2, <2>3
<1>16. DOMAIN bank' = DOMAIN bank /\ bank'.gen \in Nat \ {0} BY <1>3 DEF Shaped
<1> HIDE DEF map, old, new
<1>17. LinkSound' BY <1>10, <1>14, <1>15 DEF LinkSound
<1>18. IsTable(stored') BY <1>3, <1>9
<1>19. QED BY <1>3, <1>5, <1>10, <1>11, <1>16, <1>17, <1>18, LinkSteps

\* The first of a sequence and the others.
LEMMA HeadAndTail ==
  ASSUME NEW S, NEW q \in Seq(S), q # <<>>
  PROVE  Head(q) \in S /\ Tail(q) \in Seq(S)
OBVIOUS

\* No reconnection under way.
LEMMA NoLinkIs ==
  /\ DOMAIN NoLink = {"at", "here", "plan", "map", "todo", "update"}
  /\ NoLink.at = "idle" /\ NoLink.map = <<>> /\ NoLink.update = <<>>
BY DEF NoLink

\* A reconnection starts
LEMMA StartReconnectKeeps == ASSUME IInv, StartReconnect PROVE IInv'
<1> USE DEF IInv
<1>1. /\ ~clicked /\ link.at = "idle" /\ bank.gen < MaxGen
      /\ link' = [NoLink EXCEPT !.at = "exchanging", !.here = TRUE, !.plan = shown.plan]
      /\ UNCHANGED <<bank, stored, plan, list, shown, dirty, clicked, open, answers, shell,
                     last, unsure, mixed>>
  BY DEF StartReconnect, screen, fetches, ghosts
<1>2. /\ DOMAIN link' = {"at", "here", "plan", "map", "todo", "update"}
      /\ link'.at = "exchanging" /\ link'.plan = shown.plan
      /\ link'.map = <<>> /\ link'.update = <<>>
  BY <1>1, NoLinkIs
<1>3. Shaped' BY <1>1, <1>2 DEF Shaped
<1>4. PlansSound' BY <1>1, <1>2 DEF PlansSound
<1>5. TablesSound' BY <1>1, <1>2, EmptyTables DEF TablesSound
<1>6. LinkSound' BY <1>1, <1>2, EmptyTables DEF LinkSound
<1>7. EditsCounted' BY <1>1, <1>2 DEF EditsCounted
<1>8. Settled' BY <1>1 DEF Settled, Changes
<1>9. QED BY <1>3, <1>4, <1>5, <1>6, <1>7, <1>8

\* The steps after the answer of the bank that give no new link to work on.
LEMMA LinkEnds ==
  ASSUME IInv, UNCHANGED <<bank, screen, fetches, ghosts>>, link' = NoLink,
         IsTable(stored')
  PROVE  IInv'
<1>1. /\ DOMAIN link' = DOMAIN link /\ link'.at = "idle" /\ link'.map = <<>>
      /\ link'.update = <<>>
  BY NoLinkIs DEF IInv, Shaped
<1>2. LinkSound' /\ IsTable(link'.update) BY <1>1, EmptyTables DEF LinkSound
<1>3. /\ DOMAIN bank' = DOMAIN bank /\ bank'.gen \in Nat \ {0}
      /\ mixed' = mixed /\ mixed \in BOOLEAN /\ UNCHANGED <<last, unsure>>
  BY DEF IInv, Shaped, ghosts
<1>4. QED BY <1>1, <1>2, <1>3, LinkSteps

\* The steps of the backend in an exchange.
LEMMA ExchangeSteps ==
  ASSUME IInv, DeleteOld \/ UpsertNew \/ MoveRow \/ AllMoved PROVE IInv'
<1> USE DEF IInv
<1>1. /\ UNCHANGED <<bank, screen, fetches, ghosts>> /\ UNCHANGED <<last, unsure, mixed>>
      /\ mixed \in BOOLEAN /\ DOMAIN bank' = DOMAIN bank /\ bank'.gen \in Nat \ {0}
  BY DEF DeleteOld, UpsertNew, MoveRow, AllMoved, ghosts, Shaped
<1>2. IsTable(stored) /\ IsTable(link.update) /\ IsMapping(link.map, mixed)
  BY DEF TablesSound, LinkSound
<1>3. CASE DeleteOld
  <2>1. /\ link.at = "deleting" /\ stored' = <<>>
        /\ link' = [link EXCEPT !.at = "upserting"]
    BY <1>3 DEF DeleteOld
  <2>2. /\ DOMAIN link' = DOMAIN link /\ link'.at = "upserting" /\ link'.plan = link.plan
        /\ link'.map = link.map /\ link'.update = link.update
    BY <2>1 DEF Shaped
  <2>3. LinkSound' BY <1>1, <1>2, <2>2 DEF LinkSound
  <2>4. QED BY <1>1, <1>2, <2>1, <2>2, <2>3, EmptyTables, LinkSteps
<1>4. CASE UpsertNew
  <2>1. /\ link.at = "upserting" /\ stored' = Upserted(link.update, stored)
        /\ link' = [link EXCEPT !.at = "answered", !.update = <<>>]
    BY <1>4 DEF UpsertNew
  <2>2. /\ DOMAIN link' = DOMAIN link /\ link'.at = "answered" /\ link'.plan = link.plan
        /\ link'.map = link.map /\ link'.update = <<>>
    BY <2>1 DEF Shaped
  <2>3. LinkSound' BY <1>1, <1>2, <2>2 DEF LinkSound
  <2>4. IsTable(stored') BY <1>2, <2>1, UpsertedTable
  <2>5. QED BY <1>1, <2>1, <2>2, <2>3, <2>4, EmptyTables, LinkSteps
<1>5. CASE MoveRow
  <2> DEFINE old == Head(link.todo)
             new == link.map[old]
             one == [p \in {new} |-> link.update[new]]
  <2>1. link.at = "moving" /\ link.todo # <<>> BY <1>5 DEF MoveRow
  <2>2. link.todo \in Seq(DOMAIN link.map) BY <2>1 DEF LinkSound
  <2>3. old \in DOMAIN link.map /\ Tail(link.todo) \in Seq(DOMAIN link.map)
    BY <2>1, <2>2, HeadAndTail
  <2>4. new \in DOMAIN link.update BY <2>1, <2>3 DEF LinkSound
  <2>5. IsTable(one) BY <1>2, <2>4 DEF IsTable
  <2>6. CASE old \in DOMAIN stored /\ new \notin DOMAIN stored
    <3>1. /\ stored' = Upserted(one, Without(stored, {old}))
          /\ link' = [link EXCEPT !.todo = Tail(@)]
      BY <1>5, <2>6 DEF MoveRow
    <3>2. /\ DOMAIN link' = DOMAIN link /\ link'.at = "moving" /\ link'.plan = link.plan
          /\ link'.map = link.map /\ link'.update = link.update
          /\ link'.todo = Tail(link.todo)
      BY <2>1, <3>1 DEF Shaped
    <3>3. IsTable(stored') BY <1>2, <2>5, <3>1, WithoutTable, UpsertedTable
    <3>4. LinkSound' BY <1>1, <1>2, <2>1, <2>3, <3>2 DEF LinkSound
    <3>5. QED BY <1>1, <1>2, <2>1, <3>2, <3>3, <3>4, LinkSteps
  <2>7. CASE ~(old \in DOMAIN stored /\ new \notin DOMAIN stored)
    <3>1. link' = NoLink /\ stored' = stored BY <1>5, <2>7 DEF MoveRow
    <3>2. QED BY <1>1, <1>2, <3>1, LinkEnds
  <2>8. QED BY <2>6, <2>7
<1>6. CASE AllMoved
  <2>1. /\ link.at = "moving" /\ stored' = stored
        /\ link' = [link EXCEPT !.at = "answered", !.update = <<>>]
    BY <1>6 DEF AllMoved
  <2>2. /\ DOMAIN link' = DOMAIN link /\ link'.at = "answered" /\ link'.plan = link.plan
        /\ link'.map = link.map /\ link'.update = <<>>
    BY <2>1 DEF Shaped
  <2>3. LinkSound' BY <1>1, <1>2, <2>2 DEF LinkSound
  <2>4. QED BY <1>1, <1>2, <2>1, <2>2, <2>3, EmptyTables, LinkSteps
<1>7. QED BY <1>3, <1>4, <1>5, <1>6

\* and fails.
LEMMA ReconnectFailsKeeps == ASSUME IInv, ReconnectFails PROVE IInv'
<1>1. UNCHANGED <<bank, stored, screen, fetches, ghosts>> /\ link' = NoLink
  BY DEF ReconnectFails
<1>2. IsTable(stored) BY DEF IInv, TablesSound
<1>3. QED BY <1>1, <1>2, LinkEnds

\* The plan the handler started with, mapped: no row the user left alone is older.
LEMMA ReconnectedKeeps == ASSUME IInv, Reconnected PROVE IInv'
<1> USE DEF IInv
<1> DEFINE mapped == Mapped(link.plan, link.map)
<1>1. /\ IF link.map = <<>> THEN UNCHANGED <<plan, dirty>>
         ELSE plan' = mapped /\ dirty' = TRUE
      /\ ~clicked /\ link.at = "answered" /\ link' = NoLink
      /\ UNCHANGED <<bank, stored, list, shown, clicked, open, answers, shell, last, unsure,
                     mixed>>
  BY DEF Reconnected, ghosts
<1>2. mixed \in BOOLEAN /\ link.plan \in Plans(mixed) /\ IsMapping(link.map, mixed)
  BY <1>1 DEF Shaped, PlansSound, LinkSound
<1>3. mapped \in Plans(mixed) /\ \A e \in Entities : mapped[e].edits = link.plan[e].edits
  BY <1>2, MappedPlan
<1> HIDE DEF mapped
<1>4. /\ DOMAIN link' = {"at", "here", "plan", "map", "todo", "update"}
      /\ link'.at = "idle" /\ link'.map = <<>> /\ link'.update = <<>>
  BY <1>1, NoLinkIs
<1>5. /\ dirty' \in BOOLEAN /\ plan' \in Plans(mixed)
      /\ \A e \in Entities \ unsure : plan'[e].edits = last[e]
  BY <1>1, <1>3 DEF Shaped, PlansSound, EditsCounted
<1>6. Shaped' BY <1>1, <1>4, <1>5 DEF Shaped
<1>7. PlansSound' BY <1>1, <1>4, <1>5 DEF PlansSound
<1>8. TablesSound' BY <1>1, <1>4, EmptyTables DEF TablesSound
<1>9. LinkSound' BY <1>1, <1>4, EmptyTables DEF LinkSound
<1>10. EditsCounted' BY <1>1, <1>4, <1>5 DEF EditsCounted
<1>11. Settled'
  <2>1. CASE link.map = <<>>
    <3>1. UNCHANGED <<plan, dirty>> BY <1>1, <2>1
    <3>2. QED BY <1>1, <3>1 DEF Settled, Changes
  <2>2. CASE link.map # <<>>
    <3>1. dirty' = TRUE BY <1>1, <2>2
    <3>2. QED BY <1>1, <3>1 DEF Settled
  <2>3. QED BY <2>1, <2>2
<1>12. QED BY <1>6, <1>7, <1>8, <1>9, <1>10, <1>11

-----------------------------------------------------------------------------
(* The invariant is inductive.                                             *)

\* The rows there are at first are sound.
LEMMA RowsAtFirstSound ==
  ASSUME stored \in {Balances(IdsOf(1), s) : s \in Statements}
  PROVE  RowsAtFirst \subseteq {row \in Rows(FALSE) : row.edits = 0}
<1> DEFINE ids == IdsOf(1)
<1>1. /\ ids \in SUBSET Ids /\ \E s \in Statements : stored = Balances(ids, s)
      /\ RowsAtFirst = {Figure(v) : v \in Figures} \union
                         {Linked(Figure(v), p, stored[p]) : v \in Figures, p \in ids}
  BY DEF IdsOf, RowsAtFirst
<1> HIDE DEF ids
<1>2. ASSUME NEW v \in Figures
      PROVE  Figure(v) \in Rows(FALSE) /\ Figure(v).edits = 0
  <2> DEFINE q == Figure(v)
  <2>1. v \in Amounts BY NoneIsNoAmount
  <2>2. q \in Row /\ q.account = None /\ q.value = v /\ q.typed = v /\ q.edits = 0
    BY <2>1 DEF Figure, Row
  <2> HIDE DEF q
  <2>3. KeepsFigure(q) /\ FollowsMeant(q) BY <2>2 DEF KeepsFigure, FollowsMeant
  <2>4. q \in Rows(FALSE) BY <2>2, <2>3 DEF Rows
  <2>5. QED BY <2>2, <2>4 DEF q
<1>3. ASSUME NEW v \in Figures, NEW p \in ids
      PROVE  /\ Linked(Figure(v), p, stored[p]) \in Rows(FALSE)
             /\ Linked(Figure(v), p, stored[p]).edits = 0
  <2>1. PICK s \in Statements : stored = Balances(ids, s) BY <1>1
  <2>2. p \in Ids /\ p.of \in Accounts BY <1>1 DEF Ids
  <2>3. stored[p] = s[p.of] BY <2>1 DEF Balances
  <2>4. stored[p] \in Amounts BY <2>2, <2>3 DEF Amounts
  <2>5. QED BY <1>2, <2>2, <2>4, LinkedRow
<1>4. ASSUME NEW row \in RowsAtFirst PROVE row \in Rows(FALSE) /\ row.edits = 0
  <2>1. \/ \E v \in Figures : row = Figure(v)
        \/ \E v \in Figures, p \in ids : row = Linked(Figure(v), p, stored[p])
    BY <1>1
  <2>2. QED BY <1>2, <1>3, <2>1
<1>5. QED BY <1>4

\* The invariant holds at first
LEMMA InitSound == Init => IInv
<1> SUFFICES ASSUME Init PROVE IInv OBVIOUS
<1>1. /\ list = NotLoaded /\ shown = [plan |-> plan, list |-> list]
      /\ dirty = FALSE /\ clicked = FALSE /\ open = FALSE /\ mixed = FALSE
      /\ answers = {} /\ shell = NoRefresh /\ link = NoLink /\ unsure = {}
      /\ last = [e \in Entities |-> 0]
  BY DEF Init
<1>2. DOMAIN bank = {"gen", "live", "chosen"} /\ bank.gen = 1
  <2>1. bank \in [gen : {1}, live : BOOLEAN,
                  chosen : {[g \in 1 .. MaxGen |-> IF g = 1 THEN Accounts ELSE {}]}]
    BY DEF Init
  <2> DEFINE C == {[g \in 1 .. MaxGen |-> IF g = 1 THEN Accounts ELSE {}]}
  <2>2. bank \in [gen : {1}, live : BOOLEAN, chosen : C] BY <2>1
  <2> HIDE DEF C
  <2>3. QED BY <2>2
<1>3. /\ list.rows = <<>> /\ shown.plan = plan /\ shown.list.rows = <<>>
      /\ DOMAIN shown = {"plan", "list"}
      /\ DOMAIN shell = {"at", "gen", "rows"} /\ shell.rows = <<>>
  BY <1>1 DEF NotLoaded, NoRefresh
<1>4. /\ plan \in Plans(mixed)
      /\ \A e \in Entities : plan[e].edits = 0
  <2>1. plan \in [Entities -> RowsAtFirst] BY DEF Init
  <2>2. RowsAtFirst \subseteq {row \in Rows(FALSE) : row.edits = 0}
    BY RowsAtFirstSound DEF Init
  <2>3. \A e \in Entities : plan[e] \in Rows(FALSE) /\ plan[e].edits = 0 BY <2>1, <2>2
  <2>4. plan = [e \in Entities |-> plan[e]] BY <2>1
  <2>5. plan \in [Entities -> Rows(FALSE)] BY ONLY <2>3, <2>4
  <2>6. QED BY <1>1, <2>3, <2>5 DEF Plans
<1>5. IsTable(stored)
  <2> DEFINE ids == IdsOf(1)
  <2>1. PICK s \in Statements : stored = Balances(ids, s) BY DEF Init
  <2>2. ids \in SUBSET Ids BY DEF IdsOf
  <2> HIDE DEF ids
  <2>3. IsTable(Balances(ids, s)) BY <2>2, BalancesTable
  <2>4. QED BY <2>1, <2>3, Zenon
<1>6. Shaped
  <2>1. bank.gen \in Nat \ {0} BY <1>2
  <2>2. clicked \in BOOLEAN /\ dirty \in BOOLEAN /\ open \in BOOLEAN /\ mixed \in BOOLEAN
    BY <1>1
  <2>3. QED BY <1>1, <1>2, <1>3, <2>1, <2>2, NoLinkIs DEF Shaped
<1>7. PlansSound BY <1>1, <1>3, <1>4, NoLinkIs DEF PlansSound
<1>8. TablesSound BY <1>1, <1>3, <1>5, NoLinkIs, EmptyTables DEF TablesSound
<1>9. LinkSound BY <1>1, NoLinkIs, EmptyTables DEF LinkSound
<1>10. EditsCounted BY <1>1, <1>3, <1>4, NoLinkIs DEF EditsCounted
<1>11. Settled BY <1>1 DEF Settled
<1>12. QED BY <1>6, <1>7, <1>8, <1>9, <1>10, <1>11 DEF IInv

\* every step keeps it
LEMMA StepSound == IInv /\ [Next]_vars => IInv'
<1> SUFFICES ASSUME IInv, [Next]_vars PROVE IInv' OBVIOUS
<1>1. CASE Render BY <1>1, RenderKeeps
<1>2. CASE User
  <2>1. CASE Enter \/ Leave \/ StartReconnect
    BY <2>1, EnterKeeps, LeaveKeeps, StartReconnectKeeps
  <2>2. CASE Focus BY <2>2, FetchesKeep
  <2>3. CASE Disconnect \/ RemoveItem BY <2>3, RequestsKeep
  <2>4. ASSUME NEW p \in DOMAIN shown.list.rows, RemoveAccount(p) \/ RemoveFromSheet(p)
        PROVE  IInv'
    BY <2>4, RequestsKeep, RemoveFromSheetKeeps
  <2>5. ASSUME NEW e \in Entities, Unlink(e) \/ ToggleOverride(e) PROVE IInv'
    BY <2>5, UnlinkKeeps, ToggleOverrideKeeps
  <2>6. ASSUME NEW e \in Entities, NEW p \in DOMAIN shown.list.rows, Link(e, p) PROVE IInv'
    BY <2>6, LinkKeeps
  <2>7. ASSUME NEW e \in Entities, NEW v \in Figures,
               Override(e, v) \/ EditFigure(e, v) \/ CheckIn(e, v)
        PROVE  IInv'
    BY <2>7, OverrideKeeps, EditFigureKeeps, CheckInKeeps
  <2>8. QED BY <1>2, <2>1, <2>2, <2>3, <2>4, <2>5, <2>6, <2>7 DEF User
<1>3. CASE Requests
  <2>1. CASE Answer \/ LoseFetch \/ RefreshStarts \/ ShellFetches BY <2>1, FetchesKeep
  <2>2. ASSUME NEW answer \in answers, Receive(answer) PROVE IInv' BY <2>2, ReceiveKeeps
  <2>3. CASE Revoked BY <2>3, RevokedKeeps
  <2>4. CASE ShellApplies BY <2>4, ShellAppliesKeeps
  <2>5. ASSUME NEW statement \in Statements, RefreshStores(statement) PROVE IInv'
    BY <2>5, RefreshStoresKeeps
  <2>6. QED BY <1>3, <2>1, <2>2, <2>3, <2>4, <2>5 DEF Requests
<1>4. CASE Exchanging
  <2>1. ASSUME NEW chosen \in SUBSET Accounts \ {{}}, NEW statement \in Statements,
               LET balances == Balances([of : chosen, gen : {bank.gen + 1}], statement)
               IN ExchangeItem(chosen, balances) \/ ExchangeOrphan(chosen, balances)
        PROVE  IInv'
    BY <2>1, ExchangeKeeps
  <2>2. CASE DeleteOld \/ UpsertNew \/ MoveRow \/ AllMoved BY <2>2, ExchangeSteps
  <2>3. CASE Reconnected BY <2>3, ReconnectedKeeps
  <2>4. CASE ReconnectFails BY <2>4, ReconnectFailsKeeps
  <2>5. QED BY <1>4, <2>1, <2>2, <2>3, <2>4 DEF Exchanging
<1>5. CASE UNCHANGED vars
  <2>1. /\ UNCHANGED <<bank, stored, plan, list, shown, dirty, clicked, open, answers, shell,
                       link, last, unsure, mixed>>
        /\ UNCHANGED <<screen, link, ghosts>>
    BY <1>5 DEF vars, screen, fetches, ghosts
  <2>2. IsTable(stored) /\ IsTable(shell.rows) /\ \A answer \in answers : IsTable(answer.rows)
    BY DEF IInv, TablesSound
  <2>3. QED BY <2>1, <2>2, Elsewhere
<1>6. QED BY <1>1, <1>2, <1>3, <1>4, <1>5 DEF Next

\* and so it holds always.
LEMMA Invariant == Spec => []IInv
BY InitSound, StepSound, PTL DEF Spec

-----------------------------------------------------------------------------
(* The theorems.                                                           *)

\* Every link is to an account some connection gave, what is stored of an account
\* is a balance, and what the user did waits to be rendered.
THEOREM TypeCorrect == Spec => []TypeOK
<1>1. IInv => TypeOK
  <2> SUFFICES ASSUME IInv PROVE TypeOK OBVIOUS
  <2>1. \A p \in Plans(mixed) : \A e \in Entities :
          /\ p[e].account \in Ids \union {None}
          /\ p[e].override \in BOOLEAN /\ p[e].kept \in BOOLEAN
    BY DEF Plans, Rows, Row
  <2>2. /\ plan \in Plans(mixed) /\ shown.plan \in Plans(mixed)
        /\ link.at # "idle" => link.plan \in Plans(mixed)
    BY DEF IInv, PlansSound
  <2>3. \A p \in {plan, shown.plan} \union (IF link.at = "idle" THEN {} ELSE {link.plan}) :
          p \in Plans(mixed)
    BY <2>2
  <2>4. IsTable(stored) BY DEF IInv, TablesSound
  <2>5. link.at \in {"idle", "exchanging", "deleting", "upserting", "moving", "answered"}
    BY DEF IInv, LinkSound
  <2>6. clicked => dirty BY DEF IInv, Settled
  <2>7. QED BY <2>1, <2>3, <2>4, <2>5, <2>6 DEF TypeOK, IsTable
<1>2. QED BY <1>1, Invariant, PTL

\* A row follows the account the user linked, under whatever id it comes back,
\* unless a reconnection met accounts that cannot be told apart.
THEOREM LinksStayRight == Spec => []LinksPointRight
<1>1. IInv => LinksPointRight
  BY DEF IInv, Shaped, PlansSound, Plans, Rows, FollowsMeant, LinksPointRight
<1>2. QED BY <1>1, Invariant, PTL

\* A row that is not linked shows the figure the user gave it last, and no answer
\* or effect undoes what the user did to a row, but during a reconnection.
THEOREM InputIsKept == Spec => []InputStays
<1>1. IInv => InputStays
  <2> SUFFICES ASSUME IInv PROVE InputStays OBVIOUS
  <2>1. UnlinkRestores
    BY DEF IInv, PlansSound, Plans, Rows, KeepsFigure, UnlinkRestores
  <2>2. EditsStay BY DEF IInv, EditsCounted, EditsStay
  <2>3. QED BY <2>1, <2>2 DEF InputStays
<1>2. QED BY <1>1, Invariant, PTL

\* The effects of the screen come to rest after two renderings, and leave every
\* link on an account of the list, with its balance.
THEOREM EffectsRest == Spec => []EffectsFollowList
<1>1. IInv => EffectsFollowList
  <2> SUFFICES ASSUME IInv PROVE EffectsFollowList OBVIOUS
  <2>1. plan \in Plans(mixed) /\ mixed \in BOOLEAN /\ IsTable(list.rows)
    BY DEF IInv, PlansSound, Shaped, TablesSound
  <2>2. EffectsSettle BY <2>1, EffectsKeep DEF EffectsSettle
  <2>3. SettledFollowsList
    <3> SUFFICES ASSUME open, list.loaded, ~dirty, NEW e \in Entities,
                        plan[e].account # None
                 PROVE  /\ plan[e].account \in DOMAIN list.rows
                        /\ plan[e].auto = list.rows[plan[e].account]
                        /\ plan[e].override \/ plan[e].value = plan[e].auto
      BY DEF SettledFollowsList
    <3>1. ~Changes(plan) BY DEF IInv, Settled
    <3>2. Stale(plan, list.rows) = {} /\ ApplyBalances(plan, list.rows) = plan
      BY <3>1 DEF Changes
    <3>3. plan[e].account \in DOMAIN list.rows BY <3>2 DEF Stale
    <3>4. plan[e] = Carried(plan[e], list.rows[plan[e].account])
      BY <3>2, <3>3 DEF ApplyBalances, Carried
    <3>5. plan[e] \in Rows(mixed) /\ list.rows[plan[e].account] \in Amounts
      BY <2>1, <3>3, TableHolds DEF Plans
    <3>6. QED BY <2>1, <3>3, <3>4, <3>5, CarriedRow
  <2>4. QED BY <2>2, <2>3 DEF EffectsFollowList
<1>2. QED BY <1>1, Invariant, PTL
=============================================================================
