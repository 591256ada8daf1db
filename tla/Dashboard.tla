----------------------------- MODULE Dashboard -----------------------------
(***************************************************************************)
(* The forecast on the dashboard (features/dashboard/DashboardScreen.tsx), *)
(* the worker that computes it (lib/simulation/simulationWorkerHost.ts)    *)
(* and the cache of its results (simulationCache.ts), beside the plan and  *)
(* its screens of Planning.                                                *)
(* The result also depends on the day it is computed on, which the key of  *)
(* the cache does not name.                                                *)
(*                                                                         *)
(* An effect of the dashboard asks for a simulation whenever something in  *)
(* its key changes: it takes the result from the cache or posts a request  *)
(* to the one worker, which answers in order.  A request that a later one  *)
(* or a change of the screen overtakes is cancelled: its answer still      *)
(* comes and is dropped.  The dashboard first asks for few runs, and for   *)
(* more when it was idle for a while.  A result is what it was computed    *)
(* of.  Where a commit runs the effect twice, for the edit and for the     *)
(* seed that follows it, only the second request is kept.                  *)
(***************************************************************************)
EXTENDS Planning

CONSTANTS
  Settings,     \* what can be chosen: [years, granularity, view]
  FirstSettings,\* what the device has stored
  MaxEntries    \* MAX_ENTRIES of the cache

ASSUME DashboardAssumption == MaxEntries \in Nat \ {0} /\ FirstSettings \in Settings

VARIABLES
  free,      \* the user's tier is free: at most five years
  workers,   \* the browser can start a worker
  mounted,   \* the dashboard is on the screen
  settings,  \* the settings, kept on the device
  runs,      \* monteCarloRuns
  shown,     \* the simulation that is shown
  loading,   \* simulationLoading
  failed,    \* simulationError
  current,   \* the request the effect waits for; 0: none
  asked,     \* requestCounter
  worker,    \* the shared worker runs
  inWorker,  \* the requests posted to the worker that it has not answered
  pending,   \* pendingRequests: the requests whose promise is open
  cache      \* the results that are kept, the oldest use first

view == <<runs, shown, loading, failed, current>>
host == <<asked, worker, inWorker, pending, cache>>
dashboardVars == <<free, workers, mounted, settings, view, host>>

FewRuns == 20
ManyRuns == 80

-----------------------------------------------------------------------------
(* simulationCache.                                                        *)

\* The key of a simulation of the plan p.
Key(p, chosen, n) ==
  [fingerprint |-> p.fingerprint, seed |-> p.seed, activeAlt |-> p.activeAlt,
   altChartEnabled |-> p.altChartEnabled, settings |-> chosen, runs |-> n]

Hits(key) == {i \in DOMAIN cache : cache[i].key = key}

\* A hit makes the entry the youngest.
Refreshed(i) == Append(Removed(cache, i), cache[i])

Cached(key, result) ==
  LET others == IF Hits(key) = {} THEN cache ELSE Removed(cache, CHOOSE i \in Hits(key) : TRUE)
      all == Append(others, [key |-> key, result |-> result])
  IN IF Len(all) > MaxEntries THEN Tail(all) ELSE all

-----------------------------------------------------------------------------
(* runSimulationInWorker.                                                  *)

NoSimulation == [nothing |-> TRUE]

\* A debt that flows lead to and that has no date is paid from today on.
Undated(p, name) ==
  LET alt == p.alternatives[name]
      edges == PipelineOf(p, name).edges
  IN \E n \in DOMAIN alt.debt :
       alt.debt[n].start = NoStart /\ FlowsInto(alt, edges, <<"debt", n>>) # << >>

\* Of a plan with a checkpoint the drift up to today is computed.
ReadsClock(p) == \E name \in Charted(p) : CheckpointsOf(p, name) # << >> \/ Undated(p, name)

Timeless == -1

\* A result is all of the plan that runSimulationFromLedger reads, and the day it
\* reads from the clock, if it does.
Result(p, chosen, n, now) ==
  [inputs |-> Fingerprint(p), seed |-> p.seed, activeAlt |-> p.activeAlt,
   altChartEnabled |-> p.altChartEnabled, settings |-> chosen, runs |-> n,
   day |-> IF ReadsClock(p) THEN now ELSE Timeless]

\* The results of a request that was posted with this one: of the day the worker
\* comes to it.
Computed(result) ==
  IF result.day = Timeless THEN {result}
  ELSE {[result EXCEPT !.day = now] : now \in result.day .. today}

\* On the calling thread there is one run, with a point a month.
Capped(result) == [result EXCEPT !.runs = 1, !.settings.granularity = "monthly"]

Answered(key, result) ==
  /\ cache' = Cached(key, result)
  /\ shown' = result
  /\ loading' = FALSE
  /\ failed' = FALSE
  /\ current' = 0

Post(key, result) ==
  /\ asked' = asked + 1
  /\ current' = asked + 1
  /\ worker' = TRUE
  /\ inWorker' = Append(inWorker, [id |-> asked + 1, key |-> key, result |-> result])
  /\ pending' = pending \union {asked + 1}
  /\ loading' = TRUE
  /\ failed' = FALSE
  /\ UNCHANGED <<shown, cache>>

\* The request cannot be posted, or the run on the calling thread throws.  The
\* number of a request that was never posted is taken again.
Refused ==
  /\ loading' = FALSE
  /\ failed' = TRUE
  /\ current' = 0
  /\ worker' = (worker \/ workers)
  /\ UNCHANGED <<shown, asked, inWorker, pending, cache>>

\* The effect: the cache, the worker, or the calling thread.
Simulate(p, chosen, n) ==
  LET key == Key(p, chosen, n)
      result == Result(p, chosen, n, today)
  IN \/ /\ Hits(key) # {}
        /\ \E i \in Hits(key) : cache' = Refreshed(i) /\ shown' = cache[i].result
        /\ loading' = FALSE
        /\ failed' = FALSE
        /\ current' = 0
        /\ UNCHANGED <<asked, worker, inWorker, pending>>
     \/ /\ Hits(key) = {} /\ workers
        /\ Post(key, result)
     \/ /\ Hits(key) = {} /\ ~workers
        /\ Answered(key, Capped(result))
        /\ UNCHANGED <<asked, worker, inWorker, pending>>
     \/ /\ Hits(key) = {}
        /\ Refused

\* WRONG variant: an answer counts though a later request was posted.
LateWorkerAnswers ==
  /\ UNCHANGED left
  /\ worker /\ inWorker # << >>
  /\ inWorker' = Tail(inWorker)
  /\ LET request == Head(inWorker) IN
       /\ pending' = pending \ {request.id}
       /\ IF request.id \in pending /\ current # 0
            THEN \E result \in Computed(request.result) : Answered(request.key, result)
            ELSE UNCHANGED <<shown, loading, failed, current, cache>>
  /\ UNCHANGED <<runs, asked, worker>>

\* The worker answers the request it has had longest.
WorkerAnswers ==
  /\ UNCHANGED left
  /\ worker /\ inWorker # << >>
  /\ inWorker' = Tail(inWorker)
  /\ LET request == Head(inWorker) IN
       /\ pending' = pending \ {request.id}
       /\ IF request.id \in pending /\ request.id = current
            THEN \E result \in Computed(request.result) : Answered(request.key, result)
            ELSE UNCHANGED <<shown, loading, failed, current, cache>>
  /\ UNCHANGED <<runs, asked, worker>>

Fails == left.failures > 0 /\ left' = [left EXCEPT !.failures = @ - 1]

Rejected(ids) ==
  IF current \in ids
  THEN loading' = FALSE /\ failed' = TRUE /\ current' = 0
  ELSE UNCHANGED <<loading, failed, current>>

\* The engine throws; the worker goes on.
WorkerThrows ==
  /\ Fails
  /\ worker /\ inWorker # << >>
  /\ inWorker' = Tail(inWorker)
  /\ pending' = pending \ {Head(inWorker).id}
  /\ Rejected({Head(inWorker).id} \cap pending)
  /\ UNCHANGED <<runs, shown, cache, asked, worker>>

\* Everything in flight is lost and rejected; the next request starts a worker.
WorkerDies ==
  /\ Fails /\ worker
  /\ worker' = FALSE
  /\ inWorker' = << >>
  /\ pending' = {}
  /\ Rejected(pending)
  /\ UNCHANGED <<runs, shown, cache, asked>>

-----------------------------------------------------------------------------
(* DashboardScreen.                                                        *)

\* The free tier sees five years, whatever the device has stored.
Clamped(chosen) ==
  IF free /\ chosen.years > 5 THEN [chosen EXCEPT !.years = 5] ELSE chosen

\* The effects after a commit with the plan p: another plan, other settings or
\* other alternatives ask anew, the first two with few runs.
React(p, chosen) ==
  LET new == p.seed # store.seed \/ p.fingerprint # store.fingerprint
             \/ Clamped(chosen) # settings
      n == IF new THEN FewRuns ELSE runs
  IN /\ settings' = Clamped(chosen)
     /\ runs' = n
     /\ IF Key(p, Clamped(chosen), n) = Key(store, settings, runs)
          THEN UNCHANGED <<shown, loading, failed, current, host>>
          ELSE Simulate(p, Clamped(chosen), n)

\* The dashboard comes to the screen with nothing but what the device stored.
Open ==
  /\ ~mounted /\ projected = "none" /\ left.visits > 0
  /\ left' = [left EXCEPT !.visits = @ - 1]
  /\ mounted' = TRUE
  /\ settings' = Clamped(settings)
  /\ runs' = FewRuns
  /\ Simulate(store, Clamped(settings), FewRuns)
  /\ UNCHANGED <<ledgerVars, planVars, free, workers>>

Leave ==
  /\ mounted
  /\ mounted' = FALSE
  /\ shown' = NoSimulation
  /\ loading' = FALSE
  /\ failed' = FALSE
  /\ current' = 0
  /\ UNCHANGED <<ledgerVars, allPlanVars, free, workers, settings, runs, host>>

EditHere ==
  /\ mounted
  /\ EditOnDashboard \/ \E price \in Prices : QuoteArrives(price)
  /\ React(store', settings)
  /\ UNCHANGED <<ledgerVars, free, workers, mounted>>

Choose(chosen) ==
  /\ mounted /\ left.edits > 0 /\ Clamped(chosen) = chosen /\ chosen # settings
  /\ left' = [left EXCEPT !.edits = @ - 1]
  /\ React(store, chosen)
  /\ UNCHANGED <<ledgerVars, planVars, free, workers, mounted>>

\* The days pass and nothing on the screen follows them.
Wait ==
  /\ mounted
  /\ MonthPasses
  /\ UNCHANGED <<ledgerVars, dashboardVars>>

\* requestIdleCallback and a timeout: more runs are asked for.
Refine ==
  /\ mounted /\ runs = FewRuns
  /\ runs' = ManyRuns
  /\ Simulate(store, settings, ManyRuns)
  /\ UNCHANGED <<ledgerVars, allPlanVars, free, workers, mounted, settings>>

Retry ==
  /\ mounted /\ failed
  /\ Simulate(store, settings, runs)
  /\ UNCHANGED <<ledgerVars, allPlanVars, free, workers, mounted, settings, runs>>

EditElsewhere ==
  /\ ~mounted
  /\ EditPlan \/ \E price \in Prices : QuoteArrives(price)
  /\ UNCHANGED <<ledgerVars, dashboardVars>>

Work ==
  /\ WorkerAnswers \/ WorkerThrows \/ WorkerDies
  /\ UNCHANGED <<ledgerVars, planVars, free, workers, mounted, settings>>

\* Not beside the screens: an edited plan is projected at the end of a session.
ProjectOnly == Projection /\ UNCHANGED dashboardVars

DashboardInit ==
  /\ Init
  /\ \E s \in Sessions : PlanInit(s) /\ free = s.free /\ workers = s.workers
  /\ mounted = FALSE
  /\ settings = FirstSettings
  /\ runs = FewRuns
  /\ shown = NoSimulation
  /\ loading = FALSE
  /\ failed = FALSE
  /\ current = 0
  /\ asked = 0
  /\ worker = FALSE
  /\ inWorker = << >>
  /\ pending = {}
  /\ cache = << >>

DashboardNext ==
  EditElsewhere \/ EditHere \/ Open \/ Leave \/ (\E chosen \in Settings : Choose(chosen))
  \/ Refine \/ Retry \/ Wait \/ Work \/ ProjectOnly

DashboardSpec ==
  DashboardInit /\ [][DashboardNext]_<<ledgerVars, allPlanVars, dashboardVars>>

-----------------------------------------------------------------------------
(* Properties.                                                             *)

\* The dashboard never waits for nothing: while it says that it is updating, the
\* request it waits for is open and the worker that runs has it.  When it says
\* neither that nor that it failed, the forecast is that of the plan, the seed and
\* the settings as they are now, whether it came from the cache or the worker, in
\* whatever order edits, visits, answers and failures came; without a worker, the
\* capped one.  All but the day it was computed on: where a checkpoint or a debt
\* without a date makes it read the clock, it may be of an earlier day, since the
\* key of the cache has no date in it.
ForecastIsCurrent ==
  /\ mounted /\ loading =>
       /\ worker
       /\ current \in pending
       /\ \E i \in DOMAIN inWorker : inWorker[i].id = current
  /\ mounted /\ ~loading /\ ~failed =>
       \E now \in 0 .. today :
         LET result == Result(store, settings, runs, now)
         IN shown = result \/ (~workers /\ shown = Capped(result))
=============================================================================
