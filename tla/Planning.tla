------------------------------ MODULE Planning ------------------------------
(***************************************************************************)
(* The plan of a user in the client and the screens that edit it: the plan *)
(* store, the Accounts screen and its tables, the Pipeline Builder, Goals, *)
(* the augments, the check-in and the checkpoints, up to the scenario that *)
(* the projection of Ledger is built from.                                 *)
(*                                                                         *)
(* `store` is the plan document.  An action is one click or one change of  *)
(* a field: the whole handler with the flows and the sanitizing it calls,  *)
(* and the effects that follow in the same commit (Settled): the monthly   *)
(* checkpoint of AppShell and the seed of ForecastSeedGate.  A field that  *)
(* is edited and its value come from Changes, a flow from Flows; a label,  *)
(* a colour and a place on the canvas are left out.                        *)
(*                                                                         *)
(* Three things are there for the properties only.  The id of a row is its *)
(* uuid, which the code uses in a checkpoint only.  The id of an           *)
(* alternative, and the owner of what is stored under its name, say for    *)
(* which alternative it was made.  `ends` are the rows a flow was drawn    *)
(* between, `slipped` tells that a row before one of them went away.       *)
(***************************************************************************)
EXTENDS Ledger, FiniteSets

CONSTANTS
  Sessions,    \* [plan, left, free, workers]: a plan document and what is done with it
  NewNames,    \* NewNames[n] is the name New gives when there are n alternatives
  TypedNames,  \* the names a user types
  Changes,     \* the fields that are edited, <<kind, field>>, with their new values
  FlowForms,   \* what a user enters for a flow: [mode, amount, freq, recur]
  Prices,      \* the quotes of a ticker; 0 when there is none
  Start,       \* the first day of the plan (assumptions.start)
  Growth,      \* what an expense grows by that does not say (assumptions.inflation)
  LifeEvent,   \* the augment a user may add
  Days         \* bound: days an edited plan is projected for

PlanFields ==
  {"alternatives", "activeAlt", "altChartEnabled", "byAlt", "goals", "checkpoints",
   "augments", "autoMonthly", "seed", "fingerprint"}

EdgeFields == {"from", "to", "mode", "amount", "freq", "recur", "slipped", "ends"}

IsAlternative(alt) ==
  /\ DOMAIN alt = Kinds \union {"id"}
  /\ \A kind \in Kinds :
       IsSequence(alt[kind]) /\ \A n \in DOMAIN alt[kind] : "id" \in DOMAIN alt[kind][n]

IsFlows(edges) ==
  /\ IsSequence(edges)
  /\ \A i \in DOMAIN edges : DOMAIN edges[i] = EdgeFields /\ edges[i].slipped \in BOOLEAN

IsPlan(p) ==
  /\ DOMAIN p = PlanFields
  /\ p.activeAlt \in DOMAIN p.alternatives
  /\ \A name \in DOMAIN p.alternatives : IsAlternative(p.alternatives[name])
  /\ \A name \in DOMAIN p.byAlt :
       DOMAIN p.byAlt[name] = {"owner", "edges"} /\ IsFlows(p.byAlt[name].edges)
  /\ \A name \in DOMAIN p.checkpoints : IsSequence(p.checkpoints[name])

\* An asset that is in step, as a position, is worth its quantity times its price.  The
\* quantity is kept in millionths of a share, which is precise enough where a millionth
\* costs less than a cent: below 10000 dollars a share.
IsSynced(row) ==
  /\ "synced" \in DOMAIN row
  /\ row.synced /\ row.mode = "Ticker" /\ ~row.connected
     /\ row.units > 0 /\ 0 < row.price /\ row.price < Micro
       => row.value = BankersRound(row.units * row.price, Micro)

HasRows(alt) ==
  /\ \A kind \in Kinds : IsRows(kind, alt[kind])
  /\ \A n \in DOMAIN alt.asset : IsSynced(alt.asset[n])

\* What the rows, the flows and the checkpoints of a plan hold.
HasValues(p) ==
  /\ \A name \in DOMAIN p.alternatives : HasRows(p.alternatives[name])
  /\ \A name \in DOMAIN p.byAlt : IsEdges(p.byAlt[name].edges)
  /\ \A name \in DOMAIN p.checkpoints : \A i \in DOMAIN p.checkpoints[name] :
       IsCheckpoint(p.checkpoints[name][i])

VARIABLES
  store,      \* the plan document
  today,      \* the day, counted from the start of the plan
  left,       \* bound: the edits, visits of the dashboard, failures and projections to come
  quote,      \* the quote a ticker cell waits for, with what it captured
  freed,      \* names under which an alternative was deleted or overwritten
  projected   \* the name of the alternative that is projected

planVars == <<store, today, quote, freed, projected>>
allPlanVars == <<planVars, left>>
ledgerVars == vars

Alt == store.alternatives[store.activeAlt]

Put(f, key, value) == [x \in DOMAIN f \union {key} |-> IF x = key THEN value ELSE f[x]]
Without(f, key) == [x \in DOMAIN f \ {key} |-> f[x]]
Moved(f, from, to) == IF from \in DOMAIN f THEN Put(Without(f, from), to, f[from]) ELSE f
At(f, key, default) == IF key \in DOMAIN f THEN f[key] ELSE default

-----------------------------------------------------------------------------
(* What follows an edit in the same commit.                                *)

Value(rows) == Total([n \in DOMAIN rows |-> rows[n].value])
ShownNetWorth(alt) == Value(alt.asset) - Value(alt.debt)

CheckpointsOf(p, name) == At(p.checkpoints, name, << >>)

\* createCheckpoint: before the first that is of a later day.
WithCheckpoint(p, name) ==
  LET alt == p.alternatives[name]
      cp == [owner |-> alt.id, day |-> today, netWorth |-> ShownNetWorth(alt),
             asset |-> alt.asset, debt |-> alt.debt]
      cps == CheckpointsOf(p, name)
      Behind(i) == \E j \in DOMAIN cps : j <= i /\ cps[j].day > today
  IN [p EXCEPT !.checkpoints =
        Put(@, name, [i \in 1 .. Len(cps) + 1 |->
                        IF i \in DOMAIN cps /\ ~Behind(i) THEN cps[i]
                        ELSE IF Behind(i - 1) THEN cps[i - 1] ELSE cp])]

MonthlyDue(p, name) ==
  LET cps == CheckpointsOf(p, name)
  IN p.autoMonthly /\ (cps = << >> \/ today - cps[Len(cps)].day >= 30)

WithMonthly(p) ==
  [p EXCEPT !.checkpoints =
     [name \in DOMAIN @ \union {n \in DOMAIN p.alternatives : MonthlyDue(p, n)} |->
        IF name \in DOMAIN p.alternatives /\ MonthlyDue(p, name)
        THEN WithCheckpoint(p, name).checkpoints[name] ELSE @[name]]]

\* computeForecastFingerprint; the assumptions of a session do not change.
Fingerprint(p) ==
  [alternatives |-> p.alternatives, augments |-> p.augments, byAlt |-> p.byAlt,
   checkpoints |-> p.checkpoints, autoMonthly |-> p.autoMonthly]

\* A new seed is drawn; no two are the same.
Resampled(p) == [p EXCEPT !.seed = @ + 1, !.fingerprint = Fingerprint(p)]

EnsureForecastSeed(p) == IF p.fingerprint = Fingerprint(p) THEN p ELSE Resampled(p)

Settled(p) == EnsureForecastSeed(WithMonthly(p))

Edit(p) ==
  /\ projected = "none"
  /\ left.edits > 0
  /\ left' = [left EXCEPT !.edits = @ - 1]
  /\ store' = Settled(p)
  /\ UNCHANGED <<today, projected>>

\* A number no row and no alternative has yet.
Fresh == 100 + left.edits

SetAlternative(p, name, alt) == [p EXCEPT !.alternatives = Put(@, name, alt)]

-----------------------------------------------------------------------------
(* AccountsScreen.                                                         *)

SelectAlternative(name) ==
  /\ name \in DOMAIN store.alternatives \ {store.activeAlt}
  /\ Edit([store EXCEPT !.activeAlt = name])
  /\ UNCHANGED <<quote, freed>>

Added(name, alt) ==
  /\ name \notin DOMAIN store.alternatives
  /\ Edit([store EXCEPT !.alternatives = Put(@, name, alt), !.activeAlt = name,
                        !.altChartEnabled = Put(@, name, TRUE)])
  /\ UNCHANGED <<quote, freed>>

NewAlternative ==
  LET n == Cardinality(DOMAIN store.alternatives)
  IN n \in DOMAIN NewNames /\
     Added(NewNames[n], [id |-> Fresh, income |-> << >>, expense |-> << >>,
                         asset |-> << >>, debt |-> << >>])

\* The rows keep their uuids; goals, flows and checkpoints are not cloned.
CloneAlternative(name) == Added(name, [Alt EXCEPT !.id = Fresh])

\* WRONG variant: the checkpoints stay under the old name.
ForgettingRename(p, old, new) ==
  [p EXCEPT !.alternatives = Moved(@, old, new), !.altChartEnabled = Moved(@, old, new),
            !.goals = Moved(@, old, new), !.byAlt = Moved(@, old, new), !.activeAlt = new]

Renamed(p, old, new) ==
  [p EXCEPT !.alternatives = Moved(@, old, new), !.altChartEnabled = Moved(@, old, new),
            !.goals = Moved(@, old, new), !.byAlt = Moved(@, old, new),
            !.checkpoints = Moved(@, old, new), !.activeAlt = new]

RenameAlternative(name) ==
  /\ name \notin DOMAIN store.alternatives
  /\ Edit(Renamed(store, store.activeAlt, name))
  /\ freed' = IF store.activeAlt \in freed THEN freed \union {name} ELSE freed
  /\ UNCHANGED quote

\* Goals, flows and checkpoints stay under the name.  The next one is the
\* first that is left; here it may be any.
DeleteAlternative(next) ==
  /\ next \in DOMAIN store.alternatives \ {store.activeAlt}
  /\ Edit([store EXCEPT !.alternatives = Without(@, store.activeAlt),
                        !.altChartEnabled = Without(@, store.activeAlt),
                        !.activeAlt = next])
  /\ freed' = freed \union {store.activeAlt}
  /\ UNCHANGED quote

-----------------------------------------------------------------------------
(* Rows: AccountsTables and NodePropertiesModal.                           *)

NewFlowRow ==
  [id |-> Fresh, amount |-> 0, every |-> "monthly", start |-> today, growth |-> 0]

NewAsset ==
  [id |-> Fresh, mode |-> "Manual", value |-> 0, connected |-> FALSE, rate |-> 0,
   units |-> 0, price |-> 0, recur |-> 0, every |-> "monthly", synced |-> TRUE]

NewDebt ==
  [id |-> Fresh, value |-> 0, connected |-> FALSE, rate |-> 0, pmt |-> 0, extra |-> 0,
   every |-> "monthly", extraEvery |-> "monthly", start |-> today]

NewRow(kind) ==
  CASE kind = "asset" -> NewAsset [] kind = "debt" -> NewDebt [] OTHER -> NewFlowRow

\* WRONG variant: the new row is put before the others.
PrependedRow(alt, kind) == [alt EXCEPT ![kind] = <<NewRow(kind)>> \o @]

WithRow(alt, kind) == [alt EXCEPT ![kind] = Append(@, NewRow(kind))]

AddRow(kind) ==
  /\ Edit(SetAlternative(store, store.activeAlt, WithRow(Alt, kind)))
  /\ UNCHANGED <<quote, freed>>

Connected(row) == "connected" \in DOMAIN row /\ row.connected

\* The cells that are not disabled.  What a connected row is worth is not typed.
Typed(row, field) == IF Connected(row) THEN {} ELSE {field}

IncomeCells(row) == {"every", "start", "growth"} \union Typed(row, "amount")
ExpenseCells(row) == {"every", "start", "growth"} \union Typed(row, "amount")

ContributionCells(row) == IF row.mode = "Manual" THEN {} ELSE {"recur", "every"}

AssetCells(row) ==
  {"mode"} \union Typed(row, "value") \union ContributionCells(row)
  \union (IF row.mode = "Manual" THEN {} ELSE {"rate"})
  \union (IF row.mode = "Ticker" THEN {"units"} ELSE {})

DebtCells(row) == {"rate", "pmt", "every", "start"} \union Typed(row, "value")

Cells(kind, row) ==
  CASE kind = "income"  -> IncomeCells(row)
    [] kind = "expense" -> ExpenseCells(row)
    [] kind = "asset"   -> AssetCells(row)
    [] kind = "debt"    -> DebtCells(row)

Priced(row) == row.mode = "Ticker" /\ row.price > 0

\* WRONG variant: a new value of a position leaves the quantity alone.
UnsyncedCell(row, field, to) ==
  IF "mode" \notin DOMAIN row THEN [row EXCEPT ![field] = to]
  ELSE CASE field = "units" /\ Priced(row) ->
              [row EXCEPT !.units = to, !.value = BankersRound(to * row.price, Micro),
                          !.synced = TRUE]
         [] field = "mode" -> [row EXCEPT !.mode = to, !.synced = FALSE]
         [] OTHER -> [row EXCEPT ![field] = to]

\* Of a position with a price, value and quantity follow each other.
Cell(row, field, to) ==
  IF "mode" \notin DOMAIN row THEN [row EXCEPT ![field] = to]
  ELSE CASE field = "units" /\ Priced(row) ->
              [row EXCEPT !.units = to, !.value = BankersRound(to * row.price, Micro),
                          !.synced = TRUE]
         [] field = "value" /\ Priced(row) ->
              [row EXCEPT !.value = to, !.units = BankersRound(to * Micro, row.price),
                          !.synced = TRUE]
         [] field = "mode" -> [row EXCEPT !.mode = to, !.synced = FALSE]
         [] OTHER -> [row EXCEPT ![field] = to]

EditCell(n, kind, field, to) ==
  /\ n \in DOMAIN Alt[kind]
  /\ field \in Cells(kind, Alt[kind][n])
  /\ Alt[kind][n][field] # to
  /\ Edit(SetAlternative(store, store.activeAlt,
            [Alt EXCEPT ![kind][n] = Cell(@, field, to)]))
  /\ UNCHANGED <<quote, freed>>

-----------------------------------------------------------------------------
(* The flows of the active alternative.                                    *)

NoFlows(alt) == [owner |-> alt.id, edges |-> << >>]
PipelineOf(p, name) == At(p.byAlt, name, NoFlows(p.alternatives[name]))
ActivePipeline == PipelineOf(store, store.activeAlt)
Edges == ActivePipeline.edges

SetEdges(p, edges) ==
  [p EXCEPT !.byAlt = Put(@, p.activeAlt, [ActivePipeline EXCEPT !.edges = edges])]

\* Of the rows as they are on the screen, before the edit.
SanitizeEdges(edges) ==
  Kept(edges, {i \in DOMAIN edges : /\ {edges[i].from, edges[i].to} \subseteq Nodes(Alt)
                                    /\ FlowAllowed(edges[i].from[1], edges[i].to[1])})

UpdatePipeline(edges, applied) ==
  LET clean == SanitizeEdges(edges)
      alt == IF applied THEN ApplyFlows(Alt, clean, today) ELSE Alt
  IN SetEdges(SetAlternative(store, store.activeAlt, alt), clean)

\* The rows behind a row that goes away move up, and the flows do not follow.
Slipped(edges, kind, n) ==
  LET Behind(node) == node[1] = kind /\ node[2] >= n
  IN [i \in DOMAIN edges |->
        [edges[i] EXCEPT !.slipped = @ \/ Behind(edges[i].from) \/ Behind(edges[i].to)]]

Slip(p, kind, n) ==
  IF p.activeAlt \in DOMAIN p.byAlt
  THEN [p EXCEPT !.byAlt[p.activeAlt].edges = Slipped(@, kind, n)] ELSE p

\* The tables know nothing of the flows.
DeleteRow(kind, n) ==
  /\ n \in DOMAIN Alt[kind]
  /\ Edit(Slip(SetAlternative(store, store.activeAlt, [Alt EXCEPT ![kind] = Removed(@, n)]),
               kind, n))
  /\ UNCHANGED <<quote, freed>>

-----------------------------------------------------------------------------
(* PipelineScreen, PipelineCanvas, FlowDetailsModal, NodePropertiesModal.  *)

AddNode(kind) ==
  /\ Edit(SetAlternative(store, store.activeAlt, ApplyFlows(WithRow(Alt, kind), Edges, today)))
  /\ UNCHANGED <<quote, freed>>

RowAt(alt, node) == alt[node[1]][node[2]]

\* Only a flow into an asset says how often its contribution recurs.
Entered(edge, form) ==
  [edge EXCEPT !.mode = form.mode, !.amount = form.amount, !.freq = form.freq,
               !.recur = IF edge.to[1] = "asset" THEN form.recur ELSE "none"]

\* Ports are joined by a drag or by two clicks, then the dialog is saved.
CreateFlow(from, to, form) ==
  /\ {from, to} \subseteq Nodes(Alt) /\ from # to
  /\ FlowAllowed(from[1], to[1])
  /\ Edit(UpdatePipeline(Append(Edges,
            Entered([from |-> from, to |-> to, mode |-> "", amount |-> 0, freq |-> "",
                     recur |-> "none", slipped |-> FALSE,
                     ends |-> <<RowAt(Alt, from).id, RowAt(Alt, to).id>>], form)), TRUE))
  /\ UNCHANGED <<quote, freed>>

EditFlow(i, form) ==
  /\ i \in DOMAIN Edges
  /\ Entered(Edges[i], form) # Edges[i]
  /\ Edit(UpdatePipeline([Edges EXCEPT ![i] = Entered(@, form)], TRUE))
  /\ UNCHANGED <<quote, freed>>

DeleteFlow(i) ==
  /\ i \in DOMAIN Edges
  /\ Edit(UpdatePipeline(Removed(Edges, i), TRUE))
  /\ UNCHANGED <<quote, freed>>

\* A dragged node and Auto-layout only move nodes, but the flows are sanitized.
ArrangeNodes ==
  /\ Nodes(Alt) # {}
  /\ UpdatePipeline(Edges, FALSE) # store
  /\ Edit(UpdatePipeline(Edges, FALSE))
  /\ UNCHANGED <<quote, freed>>

\* The inputs of the form.
FlowRowInputs == {"amount", "every", "start", "growth"}

AssetInputs(row) ==
  {"mode", "value", "rate", "recur", "every"}
  \union (IF row.mode = "Ticker" THEN {"units", "price"} ELSE {})

DebtInputs == {"value", "rate", "pmt", "every", "start"}

Inputs(kind, row) ==
  CASE kind = "asset" -> AssetInputs(row)
    [] kind = "debt"  -> DebtInputs
    [] OTHER          -> FlowRowInputs

\* Here nothing keeps value and quantity in step.  The value of a connected row
\* can be typed, but another counts.
SaveNode(n, kind, field, to) ==
  /\ n \in DOMAIN Alt[kind]
  /\ field \in Inputs(kind, Alt[kind][n])
  /\ Alt[kind][n][field] # to
  /\ ~(Connected(Alt[kind][n]) /\ field = "value")
  /\ LET saved == [Alt[kind][n] EXCEPT ![field] = to]
         row == IF kind = "asset" THEN [saved EXCEPT !.synced = FALSE] ELSE saved
     IN Edit(SetAlternative(store, store.activeAlt,
               ApplyFlows([Alt EXCEPT ![kind][n] = row], Edges, today)))
  /\ UNCHANGED <<quote, freed>>

\* The flows of the node go with it.  Those of the rows behind it are applied
\* where they point now, and sanitized against the rows before.
DeleteNode(kind, n) ==
  LET node == <<kind, n>>
      kept == Kept(Edges, {i \in DOMAIN Edges : node \notin {Edges[i].from, Edges[i].to}})
      alt == ApplyFlows([Alt EXCEPT ![kind] = Removed(@, n)], kept, today)
  IN /\ n \in DOMAIN Alt[kind]
     /\ Edit(Slip(SetEdges(SetAlternative(store, store.activeAlt, alt), SanitizeEdges(kept)),
                  kind, n))
     /\ UNCHANGED <<quote, freed>>

-----------------------------------------------------------------------------
(* TickerSearchCell: the quote is awaited, and then written into the rows  *)
(* and under the name of the moment of the click.                          *)

NoQuote == [name |-> "none"]

AskQuote(n) ==
  /\ quote = NoQuote
  /\ n \in DOMAIN Alt.asset /\ Alt.asset[n].mode = "Ticker"
  /\ quote' = [name |-> store.activeAlt, alt |-> Alt, n |-> n]
  /\ Edit(store)
  /\ UNCHANGED freed

Quoted(row, price) ==
  IF price > 0
  THEN [row EXCEPT !.price = price, !.value = BankersRound(row.units * price, Micro),
                   !.synced = TRUE]
  ELSE row

Ids(alt) == [kind \in Kinds |-> [n \in DOMAIN alt[kind] |-> alt[kind][n].id]]

QuoteArrives(price) ==
  LET name == quote.name
      there == name \in DOMAIN store.alternatives
      same == there /\ Ids(store.alternatives[name]) = Ids(quote.alt)
      put == SetAlternative(store, name,
               [quote.alt EXCEPT !.asset[quote.n] = Quoted(@, price)])
  IN /\ quote # NoQuote
     /\ projected = "none"
     /\ quote' = NoQuote
     /\ store' = Settled(IF same \/ name \notin DOMAIN put.byAlt THEN put
                         ELSE [put EXCEPT !.byAlt[name].edges =
                                 [i \in DOMAIN @ |-> [@[i] EXCEPT !.slipped = TRUE]]])
     /\ freed' = IF there /\ store.alternatives[name].id # quote.alt.id
                 THEN freed \union {name} ELSE freed
     /\ UNCHANGED <<today, left, projected>>

-----------------------------------------------------------------------------
(* Goals, augments, checkpoints.                                           *)

SetGoals(goals) ==
  /\ Edit([store EXCEPT !.goals = Put(@, store.activeAlt, goals)])
  /\ UNCHANGED <<quote, freed>>

Goals == At(store.goals, store.activeAlt, {})
AddGoal == Alt.id \notin Goals /\ SetGoals(Goals \union {Alt.id})
RemoveGoal == \E goal \in Goals : SetGoals(Goals \ {goal})

SetAugments(augments) ==
  /\ Edit([store EXCEPT !.augments = augments])
  /\ UNCHANGED <<quote, freed>>

AddAugment == store.augments = << >> /\ SetAugments(<<TRUE>>)
RemoveAugment == store.augments # << >> /\ SetAugments(Tail(store.augments))
ToggleAugment == store.augments # << >> /\ SetAugments(<<~Head(store.augments)>>)

\* SettingsScreen.
SaveCheckpoint ==
  /\ Edit(WithCheckpoint(store, store.activeAlt))
  /\ UNCHANGED <<quote, freed>>

SwitchMonthly ==
  /\ Edit([store EXCEPT !.autoMonthly = ~@])
  /\ UNCHANGED <<quote, freed>>

\* DashboardScreen: the alternatives on the chart, and new random draws.
ToggleChart(name) ==
  /\ Edit([store EXCEPT !.altChartEnabled = Put(@, name, ~At(@, name, FALSE))])
  /\ UNCHANGED <<quote, freed>>

Resample ==
  /\ Edit(Resampled(store))
  /\ UNCHANGED <<quote, freed>>

\* WeeklyCheckInModal: the value that was entered counts, of a connected row
\* as an override, and a checkpoint is taken of it.
CheckIn(n, kind, field, to) ==
  /\ field \in {"value", "amount"}
  /\ n \in DOMAIN Alt[kind]
  /\ LET saved == [Alt[kind][n] EXCEPT ![field] = to]
         row == IF kind = "asset" THEN [saved EXCEPT !.synced = FALSE] ELSE saved
         alt == [Alt EXCEPT ![kind][n] = row]
     IN Edit(WithCheckpoint(SetAlternative(store, store.activeAlt, alt), store.activeAlt))
  /\ UNCHANGED <<quote, freed>>

\* A month passes.  The checkpoint of the month waits for the next edit.
MonthPasses ==
  /\ projected = "none" /\ left.edits > 0
  /\ left' = [left EXCEPT !.edits = @ - 1]
  /\ today' = today + 31
  /\ UNCHANGED <<store, quote, freed, projected>>

-----------------------------------------------------------------------------
(* The projection of what was edited.                                      *)

\* runSimulationFromLedger projects the alternatives on the chart.
Charted(p) ==
  LET on == {name \in DOMAIN p.alternatives : At(p.altChartEnabled, name, FALSE)}
  IN IF on = {} THEN {p.activeAlt} ELSE on

\* The flows of a projection are those of the name, whoever they were made for.
ScenarioOf(name) ==
  LET alt == store.alternatives[name]
      cps == CheckpointsOf(store, name)
  IN [start |-> Start, today |-> today, days |-> Days, inflation |-> Growth,
      income |-> alt.income, expense |-> alt.expense, asset |-> alt.asset, debt |-> alt.debt,
      edges |-> PipelineOf(store, name).edges,
      checkpoint |-> IF cps = << >> THEN NoCheckpoint ELSE cps[Len(cps)],
      augment |-> IF store.augments = <<TRUE>> THEN LifeEvent ELSE NoAugment]

Project(name) ==
  /\ projected = "none" /\ quote = NoQuote
  /\ left.projections > 0
  /\ name \in Charted(store)
  /\ projected' = name
  /\ Clone(ScenarioOf(name))
  /\ UNCHANGED <<store, today, left, quote, freed>>

\* A plan that is projected as it is.
ProjectPlan(p) ==
  /\ projected = "a plan"
  /\ Clone(p)
  /\ UNCHANGED allPlanVars

-----------------------------------------------------------------------------
(* What a session starts with.                                             *)

\* What is found under the name of an alternative was made for it.
Owns(p, name) ==
  LET id == p.alternatives[name].id
      cps == CheckpointsOf(p, name)
  IN /\ PipelineOf(p, name).owner = id
     /\ At(p.goals, name, {}) \subseteq {id}
     /\ \A i \in DOMAIN cps : cps[i].owner = id

\* A flow leads from and to the rows it was drawn between.
Follows(edge, alt) ==
  \/ edge.slipped
  \/ /\ {edge.from, edge.to} \subseteq Nodes(alt)
     /\ edge.ends = <<RowAt(alt, edge.from).id, RowAt(alt, edge.to).id>>

FollowUnder(p, name) ==
  name \in DOMAIN p.byAlt =>
    \A i \in DOMAIN p.byAlt[name].edges :
      Follows(p.byAlt[name].edges[i], p.alternatives[name])

\* What `projected` says where it does not name an alternative.
NoNames == {"none", "a plan"}

ASSUME PlanningAssumption ==
  /\ Days \in Nat /\ IsDate(Start) /\ Growth \in Int
  /\ LifeEvent.halves \in Int /\ Prices \subseteq Nat
  /\ \A c \in DOMAIN Changes :
       c[1] \in Kinds /\ c[2] # "id" /\ Changes[c] \subseteq ValuesOf(c[2])
  /\ \A form \in FlowForms :
       /\ form.amount \in Int /\ form.freq \in Frequencies
       /\ form.recur \in Frequencies \union {"none"}
  /\ TypedNames \cap NoNames = {} /\ \A n \in DOMAIN NewNames : NewNames[n] \notin NoNames
  /\ \A s \in Sessions :
       /\ IsPlan(s.plan) /\ HasValues(s.plan)
       /\ DOMAIN s.plan.alternatives \cap NoNames = {}
       /\ \A name \in DOMAIN s.plan.alternatives :
            Owns(s.plan, name) /\ FollowUnder(s.plan, name)
       /\ s.left \in [{"edits", "visits", "projections", "failures"} -> Nat]

PlanInit(s) ==
  /\ today = 0
  /\ quote = NoQuote
  /\ left = s.left
  /\ \/ projected = "none" /\ store = Settled(s.plan)
     \/ projected = "a plan" /\ store = s.plan /\ s = CHOOSE t \in Sessions : TRUE
  /\ freed = (DOMAIN store.byAlt \union DOMAIN store.goals \union DOMAIN store.checkpoints)
             \ DOMAIN store.alternatives

EditRow(Action(_, _, _, _)) ==
  \E c \in DOMAIN Changes : \E to \in Changes[c], n \in DOMAIN Alt[c[1]] :
    Action(n, c[1], c[2], to)

EditAccounts ==
  \/ \E name \in DOMAIN store.alternatives :
       SelectAlternative(name) \/ DeleteAlternative(name)
  \/ NewAlternative
  \/ \E name \in TypedNames : CloneAlternative(name) \/ RenameAlternative(name)
  \/ \E kind \in Kinds : AddRow(kind) \/ \E n \in DOMAIN Alt[kind] : DeleteRow(kind, n)
  \/ EditRow(EditCell)
  \/ \E n \in DOMAIN Alt.asset : AskQuote(n)

EditPipeline ==
  \/ \E kind \in Kinds : AddNode(kind) \/ \E n \in DOMAIN Alt[kind] : DeleteNode(kind, n)
  \/ \E from, to \in Nodes(Alt), form \in FlowForms : CreateFlow(from, to, form)
  \/ \E i \in DOMAIN Edges : DeleteFlow(i) \/ \E form \in FlowForms : EditFlow(i, form)
  \/ EditRow(SaveNode)
  \/ ArrangeNodes

EditOther ==
  \/ AddGoal \/ RemoveGoal \/ AddAugment \/ RemoveAugment \/ ToggleAugment
  \/ SaveCheckpoint \/ SwitchMonthly \/ MonthPasses

EditPlan == EditAccounts \/ EditPipeline \/ EditOther

EditOnDashboard ==
  \/ \E name \in DOMAIN store.alternatives : ToggleChart(name)
  \/ ToggleAugment \/ Resample \/ EditRow(CheckIn)

Projection ==
  \/ \E name \in DOMAIN store.alternatives : Project(name)
  \/ \E p \in Plans : ProjectPlan(p)
  \/ Run /\ UNCHANGED allPlanVars

-----------------------------------------------------------------------------
(* Properties.                                                             *)

\* The Pipeline Builder names a node by its position among the rows of its kind
\* ("asset:2").  A flow leads from and to the rows it was drawn between through
\* every edit, in either screen, of the rows and of the other flows, and when the
\* alternative is renamed.  Where a row before them was deleted, or a late quote
\* put older rows back, it does not: the code moves no flow with its row.
FlowsFollowRows == \A name \in DOMAIN store.alternatives \ freed : FollowUnder(store, name)

\* Goals, flows and checkpoints are kept by the name of an alternative, each in a
\* place of its own.  What is found under the name of an alternative was made for
\* it, however alternatives are made, cloned and renamed and quotes come late; only
\* a name under which one was deleted, or overwritten by a late quote that was asked
\* for the one before, keeps what belonged to the other.
AlternativesOwnTheirData == \A name \in DOMAIN store.alternatives \ freed : Owns(store, name)

\* Without a checkpoint a projection starts from the net worth the screens show,
\* though it values a position by quantity and price: in the tables the value and
\* the quantity of a Ticker row follow each other.  A row that was switched to
\* Ticker, saved in the Pipeline Builder or checked in is not kept in step, and the
\* quantity of one that costs 10000 dollars a share or more is not that precise.
StartsFromShown ==
  /\ projected \in DOMAIN store.alternatives
  /\ phase = "lump sum" /\ day = 0 /\ plan.checkpoint = NoCheckpoint
  /\ \A a \in Assets : RowOf(a).synced /\ (IsPosition(a) => RowOf(a).price < Micro)
  => NetWorth(balance) = ShownNetWorth(store.alternatives[projected])

\* What a month of the scenario pays for a row, in parts of MonthlyScale.
Paid(kind, n) ==
  Total([i \in DOMAIN RecurringFlows |-> LET f == RecurringFlows[i] IN
           IF f.kind = kind /\ f.target = n THEN Monthly(f.amount, f.every) ELSE 0])

Drawn(node) ==
  LET alt == store.alternatives[projected]
  IN InAMonth(alt, FlowsInto(alt, PipelineOf(store, projected).edges, node))

\* The projection pays, to half a cent a month, what the flows on the screen add up
\* to, with the incomes as they are now and whatever was edited since the flow was
\* drawn; a debt gets at least that.  Not so a contribution that recurs other than
\* monthly (the sum of a month is paid each time) and flows that add up to nothing
\* (the contribution of before is paid on).
FlowsArePaid ==
  phase = "seed" /\ projected \in DOMAIN store.alternatives =>
    /\ \A n \in Assets :
         Drawn(<<"asset", n>>) > 0 /\ plan.asset[n].every = "monthly" =>
           2 * Magnitude(Paid("transfer", n) - Drawn(<<"asset", n>>)) <= MonthlyScale
    /\ \A n \in DOMAIN plan.expense :
         Drawn(<<"expense", n>>) > 0 =>
           2 * Magnitude(Paid("expense", n) - Drawn(<<"expense", n>>)) <= MonthlyScale
    /\ \A n \in DOMAIN plan.debt :
         2 * (Paid("debt_payment", n) - Drawn(<<"debt", n>>)) >= -MonthlyScale

\* So what is projected is what the screens say.
ProjectionFollowsPlan == StartsFromShown /\ FlowsArePaid
=============================================================================
