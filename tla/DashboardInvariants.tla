------------------------ MODULE DashboardInvariants ------------------------
(***************************************************************************)
(* What the proofs of DashboardProofs keep from step to step: of a run of  *)
(* the projection, of the forecast on the screen, and of the document in a *)
(* session of edits.                                                       *)
(***************************************************************************)
EXTENDS Dashboard

-----------------------------------------------------------------------------
(* A run of the projection.                                                *)

\* The days that exist.
Dates == {d \in [year : Int, month : 1 .. 12, day : 1 .. 31] : IsDate(d)}

\* What a recurring flow has.
GoodFlow(flow) ==
  /\ flow.kind \in {"income", "expense", "transfer", "debt_payment"}
  /\ flow.amount \in Int /\ flow.growth \in Int /\ flow.every \in Frequencies
  /\ flow.start \in Nat /\ flow.from = AddDays(ScenarioStart, flow.start)
  /\ flow.kind = "transfer" => flow.to \in Assets
  /\ flow.kind = "debt_payment" => flow.to \in Debts

\* The phases of a run.
Phases == {"unbuilt", "clone", "seed", "lump sum", "flows", "extras", "accrual", "payments",
           "floor", "night"}

\* The day loop has its plan.
Built == phase \notin {"unbuilt", "clone"}

\* Where a run is: the plan can be projected, the day counts from its start.
RunInv ==
  /\ phase \in Phases /\ day \in Nat /\ k \in Nat \ {0}
  /\ phase \notin {"flows", "accrual", "payments"} => k = 1
  /\ ~Built \/ phase = "seed" => day = 0
  /\ phase # "unbuilt" => Projectable(plan)
  /\ Built => date = AddDays(ScenarioStart, day)

\* A step of a projection, or one beside it: it goes on, or starts with a plan that
\* can be projected.
Stepped == Run \/ UNCHANGED vars \/ \E p : Projectable(p) /\ Clone(p)

\* How often a flow that is due every month was due in it by the day n of the run,
\* of the date d: on the last day of a short month, and not before it starts.
Due(flow, d, n, ran) ==
  LET due == Lesser(flow.from.day, DaysIn(d.year, d.month))
  IN IF (d.day > due \/ (d.day = due /\ ran)) /\ n - (d.day - due) >= flow.start
     THEN 1 ELSE 0

\* The flow had its turn today.
Ran(i) ==
  \/ phase \in {"extras", "accrual", "payments", "floor", "night"}
  \/ phase = "flows" /\ k > i

FiredInv ==
  Built =>
    /\ fired \in [1 .. Len(RecurringFlows) -> Nat]
    /\ \A i \in 1 .. Len(RecurringFlows) :
         RecurringFlows[i].every = "monthly"
           => fired[i] = Due(RecurringFlows[i], date, day, Ran(i))

\* The numbers that are kept of an account: its balance is what it was seeded with and
\* what was posted, what it earned is what was credited and what is carried.
Right(seed, b, p, c, e, r) ==
  /\ seed \in Int /\ b \in Int /\ p \in Int /\ c \in Int /\ e \in Int /\ r \in Int
  /\ b = seed + p
  /\ e = r * RateDenom + c
  /\ 2 * Magnitude(c) <= RateDenom

\* A debt that was seeded with one and whose rate is one.
Ordinary(d) == SeededBalance(d) >= 0 /\ RowOf(d).rate >= 0

\* The assets that are held as units at a price.
Positions == {a \in Assets : IsPosition(a)}

BooksInv ==
  Built =>
    /\ DOMAIN balance = Accounts /\ DOMAIN posted = Accounts /\ DOMAIN carry = Accounts
    /\ DOMAIN accrued = Accounts /\ DOMAIN credited = Accounts
    /\ held \in [Positions -> [units : Int, price : Int]]
    /\ \A a \in Accounts :
         Right(SeededBalance(a), balance[a], posted[a], carry[a], accrued[a], credited[a])
    /\ StartsFromCheckpoint
    /\ \A d \in Debts : Ordinary(d) => balance[d] >= 0

-----------------------------------------------------------------------------
(* The forecast that is shown.                                             *)

\* What a key tells of the plan it was made for.
PlanOf(key) ==
  [alternatives |-> key.fingerprint.alternatives, byAlt |-> key.fingerprint.byAlt,
   checkpoints |-> key.fingerprint.checkpoints, activeAlt |-> key.activeAlt,
   altChartEnabled |-> key.altChartEnabled]

\* What a simulation with the key computes on a day.
ResultOf(key, clock) ==
  [inputs |-> key.fingerprint, seed |-> key.seed, activeAlt |-> key.activeAlt,
   altChartEnabled |-> key.altChartEnabled, settings |-> key.settings, runs |-> key.runs,
   day |-> clock]

\* The days a result may be of: the key does not say which.
DaysOf(key, now) == IF ReadsClock(PlanOf(key)) THEN 0 .. now ELSE {Timeless}

\* What may be kept and shown for the key.
Answers(key, result) ==
  \E clock \in DaysOf(key, today) :
    result = ResultOf(key, clock) \/ (~workers /\ result = Capped(ResultOf(key, clock)))

\* What is posted for the key.
Asks(key, result) == \E clock \in DaysOf(key, today) : result = ResultOf(key, clock)

\* The plan document has its fields, and its fingerprint is that of what it holds.
InStep(p) == DOMAIN p = PlanFields /\ p.fingerprint = Fingerprint(p)

\* Where the document is on the screen; not when a plan is projected as it is.
PlanInStep ==
  /\ DOMAIN store = PlanFields
  /\ InStep(store) \/ (projected # "none" /\ ~mounted)

\* What is kept is the answer to its key.
CacheTrue ==
  IsSequence(cache) /\ \A i \in DOMAIN cache : Answers(cache[i].key, cache[i].result)

\* A request the worker has not answered will be answered for its key, under a
\* number of its own.
RequestsTrue ==
  /\ asked \in Nat
  /\ IsSequence(inWorker)
  /\ \A i \in DOMAIN inWorker :
       inWorker[i].id \in 1 .. asked /\ Asks(inWorker[i].key, inWorker[i].result)
  /\ \A i, j \in DOMAIN inWorker : inWorker[i].id = inWorker[j].id => i = j
  /\ pending \subseteq 1 .. asked

Awaits(key) ==
  /\ worker /\ current \in pending
  /\ \E i \in DOMAIN inWorker : inWorker[i].id = current /\ inWorker[i].key = key

\* For the key, the screen waits for its answer, shows it, or failed.
ShownFor(key) ==
  /\ loading => Awaits(key)
  /\ ~loading => current = 0
  /\ ~loading /\ ~failed => Answers(key, shown)

ScreenTrue ==
  /\ ~mounted => current = 0
  /\ mounted => ShownFor(Key(store, settings, runs))

\* The inductive invariant.
ForecastInv ==
  today \in Nat /\ loading \in BOOLEAN /\ PlanInStep /\ CacheTrue /\ RequestsTrue /\ ScreenTrue

-----------------------------------------------------------------------------
(* The document of a session.                                              *)

NamesKept(p) == DOMAIN p.byAlt \union DOMAIN p.goals \union DOMAIN p.checkpoints

\* But under the names F, what is kept under a name is of the alternative of that
\* name, its flows lead between its rows, and nothing is kept under another name.
Good(p, F) ==
  /\ IsPlan(p)
  /\ \A name \in DOMAIN p.alternatives \ F : Owns(p, name) /\ FollowUnder(p, name)
  /\ NamesKept(p) \ F \subseteq DOMAIN p.alternatives

\* The rows of a, each in its place, and perhaps more.
Keeps(a, b) ==
  \A kind \in Kinds :
    /\ DOMAIN a[kind] \subseteq DOMAIN b[kind]
    /\ \A n \in DOMAIN a[kind] : b[kind][n].id = a[kind][n].id

Becomes(a, b) == IsAlternative(b) /\ b.id = a.id /\ Keeps(a, b)

Alike(f, g, name) ==
  /\ name \in DOMAIN g <=> name \in DOMAIN f
  /\ name \in DOMAIN f => g[name] = f[name]

\* p and q keep the same under the name.
AlikeUnder(p, q, name) ==
  /\ Alike(p.byAlt, q.byAlt, name)
  /\ Alike(p.goals, q.goals, name)
  /\ Alike(p.checkpoints, q.checkpoints, name)

\* The alternative a ticker cell waits for has the row.
QuoteTrue ==
  quote # NoQuote => IsAlternative(quote.alt) /\ quote.n \in DOMAIN quote.alt.asset

KeptInv == Good(store, freed) /\ QuoteTrue

\* Rows that hold what they should, the assets in step where they say so.
Filled(alt) == Kinds \subseteq DOMAIN alt /\ HasRows(alt)

\* Checkpoints that a projection can start from.
Observed(cps) == IsSequence(cps) /\ \A i \in DOMAIN cps : IsCheckpoint(cps[i])

\* The document, and its names.
Sound(p) ==
  /\ DOMAIN p = PlanFields /\ DOMAIN p.alternatives \cap NoNames = {}
  /\ \A m \in DOMAIN p.alternatives : Filled(p.alternatives[m])
  /\ \A m \in DOMAIN p.byAlt :
       DOMAIN p.byAlt[m] = {"owner", "edges"} /\ IsEdges(p.byAlt[m].edges)
  /\ \A m \in DOMAIN p.checkpoints : Observed(p.checkpoints[m])

Lefts == [{"edits", "visits", "projections", "failures"} -> Nat]

\* What the document holds, and what a ticker cell waits with.
ValuesInv ==
  /\ Sound(store) /\ today \in Nat /\ left \in Lefts
  /\ quote # NoQuote => quote.name \notin NoNames /\ Filled(quote.alt)

DashInv == KeptInv /\ ValuesInv

\* What is projected is what was edited, with its flows, and it stays.
ProjectedInv ==
  /\ phase = "unbuilt" => projected \in NoNames
  /\ phase # "unbuilt" => projected # "none"
  /\ projected \notin NoNames =>
       projected \in DOMAIN store.alternatives /\ plan = Routed(ScenarioOf(projected))

\* Until there is a checkpoint to start from, or a lump sum, the balances are the seeds.
StartInv ==
  \/ phase = "seed"
  \/ phase = "lump sum" /\ day = 0 /\ plan.checkpoint = NoCheckpoint
  => \A a \in Accounts : balance[a] = SeededBalance(a)

\* What is invariant of a session with the projections in it.
SessionInv == DashInv /\ RunInv /\ BooksInv /\ ProjectedInv /\ StartInv
=============================================================================
