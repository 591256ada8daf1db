---------------------------- MODULE AccountLinks ----------------------------
(***************************************************************************)
(* The rows of a plan that follow bank accounts                            *)
(* (frontend/src/features/accountIntegration): what the user does to them, *)
(* the list of accounts fetched from the backend, the effects that carry   *)
(* balances into the plan and end links to accounts that are gone, and a   *)
(* reconnection of the bank, which gives its accounts new ids.             *)
(*                                                                         *)
(* A handler works on the plan of the last rendering and replaces the      *)
(* whole plan.  What the user does is rendered before anything else        *)
(* happens; what an answer does may be rendered later.                     *)
(*                                                                         *)
(* One user, one bank, one browser; accounts of the mock bank are left out.*)
(***************************************************************************)
EXTENDS AccountMapping, SequencesExt

CONSTANTS
  Entities,    \* the rows of the plan
  OtherAlt,    \* those of them outside the active alternative
  Accounts,    \* the accounts at the bank
  Keys,        \* what type|subtype|mask may be
  Statements,  \* what the bank may say its accounts hold
  Figures,     \* what the user types
  None,        \* no account, no value
  MaxGen,      \* how often the bank is connected (bound)
  MaxEdits,    \* what the user does to the plan (bound)
  MaxEvents,   \* syncs, disconnections, removals, fetches by focus, faults (bound)
  MaxVisits    \* how often the screen is opened (bound)

ASSUME AccountLinksAssumption ==
  /\ OtherAlt \subseteq Entities
  /\ IsFiniteSet(Accounts) /\ NoPersistent \notin Accounts
  /\ \A s \in Statements : DOMAIN s = Accounts /\ None \notin Range(s)
  /\ None \notin Figures \union {0} \union [of : Accounts, gen : 1 .. MaxGen]
  /\ {MaxGen, MaxEdits, MaxEvents, MaxVisits} \subseteq Nat

VARIABLES
  bank,     \* the connection: its generation, its accounts, whether it has a token
  stored,   \* the table accounts: the balance of each account id
  plan,     \* the plan in the store
  list,     \* the accounts of the screen
  shown,    \* the plan and the list last rendered
  dirty,    \* they are to be rendered
  clicked,  \* and before anything else happens
  open,     \* the screen is open
  asked,    \* the screen's fetches under way
  answers,  \* the lists on their way to the screen
  shell,    \* the shell's refresh at the end of a sync
  link,     \* the reconnection under way
  last,     \* how often the user changed each row
  unsure,   \* rows the user changed during a reconnection
  mixed,    \* a reconnection could not tell the accounts apart
  budget    \* how much of each bound is left

screen == <<plan, list, shown, dirty, clicked, open>>
fetches == <<asked, answers, shell>>
ghosts == <<last, unsure, mixed>>
vars == <<bank, stored, screen, fetches, link, ghosts, budget>>

-----------------------------------------------------------------------------
(* The accounts of the bank.                                               *)

\* A connection gives the accounts ids of its own.
Ids == [of : Accounts, gen : 1 .. MaxGen]

IdsOf(connection) == {p \in Ids : p.gen = connection /\ p.of \in bank.chosen[connection]}

\* What the bank says of an account: key, and known in which connections the
\* accounts have a persistent id.
Account(p, key, known) ==
  [id |-> p, key |-> key[p.of], persistent |-> IF p.gen \in known THEN p.of ELSE NoPersistent]

Balances(ids, statement) == [p \in ids |-> statement[p.of]]

Spend(what) == budget[what] > 0 /\ budget' = [budget EXCEPT ![what] = @ - 1]

Without(table, ids) == [p \in (DOMAIN table) \ ids |-> table[p]]

Upserted(rows, table) ==
  [p \in (DOMAIN rows) \union DOMAIN table |-> IF p \in DOMAIN rows THEN rows[p] ELSE table[p]]

-----------------------------------------------------------------------------
(* The rows of the plan.  typed, meant and kept are of no use to the code: *)
(* the figure the user gave last, the account the user linked, and whether *)
(* the user has not given that figure up.                                  *)

Figure(v) == [account |-> None, manual |-> None, auto |-> None, override |-> FALSE,
              value |-> v, typed |-> v, meant |-> None, kept |-> TRUE, edits |-> 0]

\* linkAccountToEntity.
Linked(row, p, balance) ==
  [row EXCEPT !.account = p, !.manual = row.value, !.auto = balance,
              !.override = FALSE, !.value = balance, !.meant = p.of,
              !.kept = row.kept /\ row.account = None]

\* unlinkAccount, removeAccountFromSheet, and revertStalePlanLinks.
Unlinked(row) ==
  [row EXCEPT !.account = None, !.auto = None, !.override = FALSE, !.meant = None,
              !.value = IF row.manual = None THEN row.value ELSE row.manual]

\* applyManualOverride.
Overridden(row, v) ==
  [row EXCEPT !.override = TRUE, !.manual = v, !.typed = v, !.kept = TRUE]

\* revertToConnected: the figure is given up.
Reverted(row) == [row EXCEPT !.override = FALSE, !.manual = None, !.kept = FALSE]

LateApplyBalances(p, accounts) ==
  [e \in Entities |->
     IF p[e].account \in DOMAIN accounts /\ ~p[e].override
     THEN [p[e] EXCEPT !.auto = accounts[p[e].account], !.value = accounts[p[e].account]]
     ELSE p[e]]

\* applyConnectedBalancesToPlan: an override keeps the value.
ApplyBalances(p, accounts) ==
  [e \in Entities |->
     IF p[e].account \in DOMAIN accounts
     THEN LET balance == accounts[p[e].account]
          IN [p[e] EXCEPT !.auto = balance,
                          !.value = IF p[e].override THEN @ ELSE balance]
     ELSE p[e]]

Stale(p, accounts) ==
  {e \in Entities : p[e].account # None /\ p[e].account \notin DOMAIN accounts}

\* revertStalePlanLinks, in every alternative.
RevertStale(p, accounts) ==
  [e \in Entities |-> IF e \in Stale(p, accounts) THEN Unlinked(p[e]) ELSE p[e]]

\* applyAccountMapping.
Mapped(p, map) ==
  [e \in Entities |-> IF p[e].account \in DOMAIN map
                      THEN [p[e] EXCEPT !.account = map[p[e].account]] ELSE p[e]]

-----------------------------------------------------------------------------
(* At first the connection may be lost with its rows kept: the sweep that  *)
(* revokes a suspended user's tokens keeps them.                           *)

NotLoaded == [loaded |-> FALSE, rows |-> <<>>, live |-> FALSE]

NoLink == [at |-> "idle", here |-> FALSE, plan |-> <<>>, map |-> <<>>, todo |-> <<>>,
           update |-> <<>>]

NoRefresh == [at |-> "idle", gen |-> 0, rows |-> <<>>]

\* A row that was linked before carries the balance of its account.
RowsAtFirst ==
  {Figure(v) : v \in Figures} \union
  {Linked(Figure(v), p, stored[p]) : v \in Figures, p \in IdsOf(1)}

Init ==
  /\ bank \in [gen : {1}, live : BOOLEAN,
               chosen : {[g \in 1 .. MaxGen |-> IF g = 1 THEN Accounts ELSE {}]}]
  /\ stored \in {Balances(IdsOf(1), s) : s \in Statements}
  /\ plan \in [Entities -> RowsAtFirst]
  /\ list = NotLoaded
  /\ shown = [plan |-> plan, list |-> list]
  /\ dirty = FALSE /\ clicked = FALSE
  /\ open = FALSE
  /\ asked = 0 /\ answers = {}
  /\ shell = NoRefresh
  /\ link = NoLink
  /\ last = [e \in Entities |-> 0]
  /\ unsure = {} /\ mixed = FALSE
  /\ budget = [edits |-> MaxEdits, events |-> MaxEvents, visits |-> MaxVisits]

-----------------------------------------------------------------------------
(* The screen.                                                             *)

\* The two effects of the screen run on what was rendered; where both replace
\* the plan, revertStalePlanLinks is the second.
Effects(p) ==
  IF ~open THEN p
  ELSE IF list.loaded /\ Stale(p, list.rows) # {} THEN RevertStale(p, list.rows)
  ELSE ApplyBalances(p, list.rows)

\* One of them replaces p, be it by an equal plan.
Changes(p) ==
  open /\ \/ list.loaded /\ Stale(p, list.rows) # {}
          \/ ApplyBalances(p, list.rows) # p

StaleRender ==
  /\ dirty
  /\ shown' = [plan |-> plan, list |-> list]
  /\ clicked' = FALSE
  /\ plan' = Effects(shown.plan) /\ dirty' = Changes(shown.plan)
  /\ UNCHANGED <<bank, stored, list, open, fetches, link, ghosts, budget>>

\* React renders, and runs the effects.
Render ==
  /\ dirty
  /\ shown' = [plan |-> plan, list |-> list]
  /\ clicked' = FALSE
  /\ plan' = Effects(plan) /\ dirty' = Changes(plan)
  /\ UNCHANGED <<bank, stored, list, open, fetches, link, ghosts, budget>>

Enter ==
  /\ ~clicked /\ ~open
  /\ Spend("visits")
  /\ open' = TRUE /\ list' = NotLoaded /\ asked' = 1
  /\ dirty' = TRUE /\ clicked' = TRUE
  /\ UNCHANGED <<bank, stored, plan, shown, answers, shell, link, ghosts>>

\* What is under way goes on, but its answers change nothing on the screen.
Leave ==
  /\ ~clicked /\ open
  /\ open' = FALSE /\ list' = NotLoaded /\ asked' = 0 /\ answers' = {}
  /\ shown' = [shown EXCEPT !.list = NotLoaded]
  /\ link' = [link EXCEPT !.here = FALSE]
  /\ UNCHANGED <<bank, stored, plan, dirty, clicked, shell, ghosts, budget>>

\* The window has the focus again, or a sync the screen followed has ended: it fetches again.
Focus ==
  /\ ~clicked /\ open
  /\ Spend("events")
  /\ asked' = asked + 1
  /\ UNCHANGED <<bank, stored, screen, answers, shell, link, ghosts>>

\* The backend answers items-with-accounts.
Answer ==
  /\ ~clicked /\ asked > 0
  /\ asked' = asked - 1
  /\ answers' = answers \union {[rows |-> stored, live |-> bank.live]}
  /\ UNCHANGED <<bank, stored, screen, shell, link, ghosts, budget>>

Receive(answer) ==
  /\ ~clicked
  /\ answers' = answers \ {answer}
  /\ list' = [loaded |-> TRUE, rows |-> answer.rows, live |-> answer.live]
  /\ dirty' = TRUE
  /\ UNCHANGED <<bank, stored, plan, shown, clicked, open, asked, shell, link, ghosts,
                 budget>>

\* A fetch that fails changes nothing.
LoseFetch ==
  /\ ~clicked /\ asked > 0
  /\ Spend("events")
  /\ asked' = asked - 1
  /\ UNCHANGED <<bank, stored, screen, answers, shell, link, ghosts>>

-----------------------------------------------------------------------------
(* What the user does to the rows.                                         *)

\* Each handler replaces the plan by a copy of the rendered one.
Edit(rows, Change(_)) ==
  /\ ~clicked
  /\ Spend("edits")
  /\ plan' = [e \in Entities |->
                 IF e \in rows THEN [Change(shown.plan[e]) EXCEPT !.edits = @ + 1]
                 ELSE shown.plan[e]]
  /\ dirty' = TRUE /\ clicked' = TRUE
  /\ last' = [e \in Entities |-> IF e \in rows THEN last[e] + 1 ELSE last[e]]
  /\ unsure' = IF link.at = "idle" THEN unsure ELSE unsure \union rows
  /\ UNCHANGED <<bank, stored, list, shown, open, fetches, link, mixed>>

\* An account is dragged to a row, in one step; those of a connection that is
\* lost cannot be.
Link(e, p) ==
  /\ open /\ e \notin OtherAlt /\ shown.list.live
  /\ Edit({e}, LAMBDA row : Linked(row, p, shown.list.rows[p]))

Unlink(e) ==
  /\ open /\ e \notin OtherAlt /\ shown.plan[e].account # None
  /\ Edit({e}, Unlinked)

RemoveFromSheet(p) ==
  /\ open
  /\ LET rows == {e \in Entities \ OtherAlt : shown.plan[e].account = p}
     IN p \in DOMAIN shown.list.rows /\ rows # {} /\ Edit(rows, Unlinked)

\* The drawer of a linked row: a figure is typed, or the button is pressed.
Override(e, v) ==
  /\ open /\ e \notin OtherAlt /\ shown.plan[e].account # None
  /\ Edit({e}, LAMBDA row : Overridden(row, v))

ToggleOverride(e) ==
  /\ open /\ e \notin OtherAlt /\ shown.plan[e].account # None
  /\ Edit({e}, LAMBDA row : IF row.override THEN Reverted(row)
                            ELSE Overridden(row, IF row.manual = None THEN 0
                                                 ELSE row.manual))

\* The tables of the other screens; their input is off for a linked row.
EditFigure(e, v) ==
  /\ ~open /\ e \notin OtherAlt /\ shown.plan[e].account = None
  /\ Edit({e}, LAMBDA row : [row EXCEPT !.value = v, !.typed = v, !.kept = TRUE])

\* The weekly check-in overrides linked rows and others alike.
CheckIn(e, v) ==
  /\ ~open /\ e \notin OtherAlt
  /\ Edit({e}, LAMBDA row : [Overridden(row, v) EXCEPT !.value = v])

-----------------------------------------------------------------------------
(* The backend: a sync, and what the user does to the connection.  The     *)
(* buttons are off during a reconnection.                                  *)

\* refreshAccountsForItemWithResult reads the token ...
RefreshStarts ==
  /\ ~clicked /\ bank.live /\ shell.at = "idle"
  /\ Spend("events")
  /\ shell' = [shell EXCEPT !.at = "syncing", !.gen = bank.gen]
  /\ UNCHANGED <<bank, stored, screen, asked, answers, link, ghosts>>

\* ... and stores what the bank says: an account that was removed is back.
RefreshStores(statement) ==
  /\ ~clicked /\ shell.at = "syncing"
  /\ stored' = Upserted(Balances(IdsOf(shell.gen), statement), stored)
  /\ shell' = [shell EXCEPT !.at = "done", !.gen = 0]
  /\ UNCHANGED <<bank, screen, asked, answers, link, ghosts, budget>>

\* runPostSyncRefresh: the shell fetches the accounts ...
ShellFetches ==
  /\ ~clicked /\ shell.at = "done"
  /\ shell' = [shell EXCEPT !.at = "fetched", !.rows = stored]
  /\ UNCHANGED <<bank, stored, screen, asked, answers, link, ghosts, budget>>

\* ... and carries their balances into the plan rendered last.
ShellApplies ==
  /\ ~clicked /\ shell.at = "fetched"
  /\ LET applied == ApplyBalances(shown.plan, shell.rows)
     IN IF applied = shown.plan THEN UNCHANGED <<plan, dirty>>
        ELSE plan' = applied /\ dirty' = TRUE
  /\ shell' = NoRefresh
  /\ UNCHANGED <<bank, stored, list, shown, clicked, open, asked, answers, link, ghosts,
                 budget>>

\* A request of the screen that changes the table is followed by a fetch.
Request(table, live) ==
  /\ ~clicked /\ open /\ ~link.here
  /\ Spend("events")
  /\ stored' = table /\ bank' = [bank EXCEPT !.live = live]
  /\ asked' = asked + 1
  /\ UNCHANGED <<screen, answers, shell, link, ghosts>>

\* Both give the token up and delete the rows; the second is offered where the
\* list says the connection is lost.
Disconnect == bank.live /\ shown.list.live /\ Request(<<>>, FALSE)

RemoveItem ==
  /\ shown.list.rows # <<>> /\ ~shown.list.live
  /\ Request(<<>>, FALSE)

RemoveAccount(p) ==
  /\ p \in DOMAIN shown.list.rows
  /\ Request(Without(stored, {p}), bank.live)

\* The bank revokes the connection; the rows are deleted as far as that works.
Revoked ==
  /\ ~clicked /\ bank.live
  /\ Spend("events")
  /\ bank' = [bank EXCEPT !.live = FALSE]
  /\ stored' \in {stored, <<>>}
  /\ UNCHANGED <<screen, fetches, link, ghosts>>

-----------------------------------------------------------------------------
(* A reconnection: handlePlaidSuccess and exchange-token.                  *)

\* Offered where the list says the connection is lost.  The handler has the plan
\* of the rendering it was made in.
StartReconnect ==
  /\ ~clicked /\ open /\ link.at = "idle" /\ bank.gen < MaxGen
  /\ shown.list.rows # <<>> /\ ~shown.list.live
  /\ link' = [NoLink EXCEPT !.at = "exchanging", !.here = TRUE, !.plan = shown.plan]
  /\ UNCHANGED <<bank, stored, screen, fetches, ghosts, budget>>

\* The new accounts and the rows they replace are read in any order, the new
\* token is stored, and the mapping is computed.
Exchange(chosen, balances, at, Goes(_, _, _)) ==
  /\ ~clicked /\ link.at = "exchanging"
  /\ bank' = [bank EXCEPT !.gen = @ + 1, !.live = TRUE, !.chosen[bank.gen + 1] = chosen]
  /\ \E key \in [Accounts -> Keys], known \in SUBSET {bank.gen, bank.gen + 1} :
       LET old == {Account(p, key, known) : p \in DOMAIN stored}
           new == {Account(p, key, known) : p \in DOMAIN balances}
       IN /\ \E olds \in SetToSeqs(old), news \in SetToSeqs(new) :
               LET map == Mapping(olds, news)
               IN /\ Goes(olds, news, map)
                  /\ link' = [link EXCEPT !.at = at, !.map = map, !.update = balances,
                                          !.todo = IF at # "moving" THEN <<>>
                                                    ELSE [i \in DOMAIN olds |-> olds[i].id]]
          /\ mixed' = (mixed \/ ~Distinguished(old, new, LAMBDA o, n : o.id.of = n.id.of))
  /\ UNCHANGED <<stored, screen, fetches, last, unsure, budget>>

\* reconnect_item_id is given.
ExchangeItem(chosen, balances) ==
  Exchange(chosen, balances, "deleting", LAMBDA olds, news, map : TRUE)

\* It is not (the user pressed Connect Account), and the accounts of an item
\* without a token are all found again.  (Where they are not, the connection
\* becomes an item of its own: left out.)
ExchangeOrphan(chosen, balances) ==
  /\ ~bank.live
  /\ Exchange(chosen, balances, "moving",
              LAMBDA olds, news, map : /\ olds # <<>> /\ Len(olds) = Len(news)
                                       /\ DOMAIN map = {o.id : o \in ToSet(olds)})

DeleteOld ==
  /\ ~clicked /\ link.at = "deleting"
  /\ stored' = <<>>
  /\ link' = [link EXCEPT !.at = "upserting"]
  /\ UNCHANGED <<bank, screen, fetches, ghosts, budget>>

UpsertNew ==
  /\ ~clicked /\ link.at = "upserting"
  /\ stored' = Upserted(link.update, stored)
  /\ link' = [link EXCEPT !.at = "answered", !.update = <<>>]
  /\ UNCHANGED <<bank, screen, fetches, ghosts, budget>>

\* An orphan's rows get the new ids one by one; no two rows can have one id, and
\* a row may have gone.
MoveRow ==
  /\ ~clicked /\ link.at = "moving" /\ link.todo # <<>>
  /\ LET old == Head(link.todo)
         new == link.map[old]
     IN IF old \in DOMAIN stored /\ new \notin DOMAIN stored
        THEN /\ stored' = Upserted([p \in {new} |-> link.update[new]], Without(stored, {old}))
             /\ link' = [link EXCEPT !.todo = Tail(@)]
        ELSE link' = NoLink /\ UNCHANGED stored
  /\ UNCHANGED <<bank, screen, fetches, ghosts, budget>>

AllMoved ==
  /\ ~clicked /\ link.at = "moving" /\ link.todo = <<>>
  /\ link' = [link EXCEPT !.at = "answered", !.update = <<>>]
  /\ UNCHANGED <<bank, stored, screen, fetches, ghosts, budget>>

\* The handler remaps the links of the plan it started with, and fetches.
Reconnected ==
  /\ ~clicked /\ link.at = "answered"
  /\ IF link.map = <<>> THEN UNCHANGED <<plan, dirty>>
     ELSE plan' = Mapped(link.plan, link.map) /\ dirty' = TRUE
  /\ asked' = IF link.here THEN asked + 1 ELSE asked
  /\ link' = NoLink
  /\ UNCHANGED <<bank, stored, list, shown, clicked, open, answers, shell, ghosts, budget>>

\* The exchange fails at any of its steps, or its answer is lost.
ReconnectFails ==
  /\ ~clicked /\ link.at # "idle"
  /\ Spend("events")
  /\ link' = NoLink
  /\ UNCHANGED <<bank, stored, screen, fetches, ghosts>>

-----------------------------------------------------------------------------
User ==
  \/ Enter \/ Leave \/ Focus \/ StartReconnect \/ Disconnect \/ RemoveItem
  \/ \E p \in DOMAIN shown.list.rows : RemoveAccount(p) \/ RemoveFromSheet(p)
  \/ \E e \in Entities :
       \/ Unlink(e) \/ ToggleOverride(e)
       \/ \E p \in DOMAIN shown.list.rows : Link(e, p)
       \/ \E v \in Figures : Override(e, v) \/ EditFigure(e, v) \/ CheckIn(e, v)

Requests ==
  \/ Answer \/ (\E answer \in answers : Receive(answer)) \/ LoseFetch
  \/ Revoked \/ RefreshStarts \/ ShellFetches \/ ShellApplies
  \/ \E statement \in Statements : RefreshStores(statement)

Exchanging ==
  \/ \E chosen \in SUBSET Accounts \ {{}} :
       \E statement \in Statements :
         LET balances == Balances([of : chosen, gen : {bank.gen + 1}], statement)
         IN ExchangeItem(chosen, balances) \/ ExchangeOrphan(chosen, balances)
  \/ DeleteOld \/ UpsertNew \/ MoveRow \/ AllMoved \/ Reconnected \/ ReconnectFails

Next == Render \/ User \/ Requests \/ Exchanging

Spec == Init /\ [][Next]_vars

-----------------------------------------------------------------------------
(* Properties                                                              *)

\* The rows of every plan about link only accounts some connection gave, and
\* what is stored of an account is a balance.
TypeOK ==
  /\ \A p \in {plan, shown.plan} \union (IF link.at = "idle" THEN {} ELSE {link.plan}) :
       \A e \in Entities : p[e].account \in Ids \union {None}
                         /\ p[e].override \in BOOLEAN /\ p[e].kept \in BOOLEAN
  /\ DOMAIN stored \subseteq Ids
  /\ \A p \in DOMAIN stored : stored[p] \in {s[p.of] : s \in Statements}
  /\ link.at \in {"idle", "exchanging", "deleting", "upserting", "moving", "answered"}
  /\ clicked => dirty

\* A row follows the account the user linked, under whatever id, where the
\* accounts of the two connections can be told apart
\* (buildReconnectAccountIdMapping).
LinksPointRight ==
  \A e \in Entities : plan[e].account # None => plan[e].account.of = plan[e].meant \/ mixed

\* A row that is not linked, or no longer, has the figure the user gave it last,
\* unless the user reverted it or linked it again while it was linked.
UnlinkRestores ==
  \A e \in Entities : plan[e].account = None /\ plan[e].kept => plan[e].value = plan[e].typed

\* No answer and no effect takes back what the user did to a row, except what
\* the user did during a reconnection.
EditsStay ==
  \A e \in Entities : plan[e].edits = last[e] \/ e \in unsure

\* So what the user put in stays.
InputStays == UnlinkRestores /\ EditsStay

\* Once the screen has its list and has settled, every link is to an account of
\* the list and carries its balance.
SettledFollowsList ==
  open /\ list.loaded /\ ~dirty =>
    \A e \in Entities : plan[e].account # None =>
      /\ plan[e].account \in DOMAIN list.rows
      /\ plan[e].auto = list.rows[plan[e].account]
      /\ plan[e].override \/ plan[e].value = plan[e].auto

\* The two effects replace the plan they depend on, and come to rest: after two
\* renderings neither has anything left to change.
EffectsSettle == ~Changes(Effects(Effects(plan)))

\* So the effects end, and what they leave follows the list.
EffectsFollowList == EffectsSettle /\ SettledFollowsList
=============================================================================
