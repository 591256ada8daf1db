------------------------------ MODULE History ------------------------------
(***************************************************************************)
(* The history of one user's net worth: the archive that writes snapshots  *)
(* of the accounts and a point for the day (lib/historyService.js and      *)
(* models/history.js, called by syncs, removals, sweeps, the weekly        *)
(* schedule and the user), the user's answers where a checkpoint and a     *)
(* point differ, the points per alternative that the client writes after a *)
(* sync, and what the routes show of it (routes/historyRoutes.js).         *)
(*                                                                         *)
(* A balance is the account it is of: a net worth is the set of accounts   *)
(* that it sums.  Requests, syncs and sweeps are workers; each of their    *)
(* queries is a step, and every step may fail or be the last.              *)
(***************************************************************************)
EXTENDS Naturals

CONSTANTS
  Accounts,     \* ids of account rows: a row linked again has a new id
  Items,        \* the user's connections
  ItemOf,       \* the connection of an account
  Alts,         \* alternatives of the plan
  Checkpoints,  \* dates for which the plan has a checkpoint
  Workers,      \* what runs at once
  None,         \* no connection
  LastDay,      \* bound: days that are lived through
  MonthLength,  \* days in a month
  NoopWindow,   \* HISTORY_ARCHIVE_NOOP_WINDOW_MINUTES is set
  MaxJobs,      \* bound: archives and answers begun
  MaxFaults     \* bound: errors and crashes

MonthEnd(d) == ((d + MonthLength - 1) \div MonthLength) * MonthLength

Days == 1 .. LastDay
Dates == 1 .. MonthEnd(LastDay)

ASSUME HistoryAssumption ==
  /\ LastDay \in Nat \ {0} /\ MonthLength \in Nat \ {0} /\ MaxFaults \in Nat
  /\ MaxJobs \in Nat \ {0} /\ NoopWindow \in BOOLEAN
  /\ ItemOf \in [Accounts -> Items] /\ None \notin Items
  /\ Checkpoints \subseteq Dates

VARIABLES
  today,      \* the day in the user's timezone
  accounts,   \* rows of accounts
  used,       \* account ids given out so far
  snapshots,  \* rows of account_balance_snapshots: accounts and dates
  points,     \* net_worth_points: what is stored for a date
  choices,    \* history_reconciliation_overrides: chosen_source of a date
  altPoints,  \* net_worth_points_alt: alternatives and dates
  alts,       \* alternatives the plan has
  noticed,    \* the client has seen a sync running
  work,       \* what each worker is at
  jobs,       \* archives and answers begun so far
  faults,     \* errors and crashes so far
  recorded,   \* ghost: accounts that some written point has counted
  muddled     \* ghost: dates whose two writes of an answer crossed or failed

tables == <<accounts, used, snapshots, points, choices, altPoints>>
vars == <<today, tables, alts, noticed, work, jobs, faults, recorded, muddled>>

Sources == {"plaid_live", "plaid_archived", "checkpoint_user"}
Point == [source : Sources, reconciled : BOOLEAN, counted : SUBSET Accounts]
NoPoint == [source |-> "none", reconciled |-> FALSE, counted |-> {}]

\* A worker archives after a sync, before a removal, or on its own account (the
\* sweep of the grace period, the end of a subscription, the weekly schedule,
\* the archive route), or takes an answer of the user.
Kinds == {"sync", "remove", "archive", "answer"}

Idle == [kind |-> "idle", at |-> "end", item |-> None, rows |-> {}, date |-> 0]

Init ==
  /\ today = 1
  /\ accounts = {} /\ used = {} /\ snapshots = {}
  /\ points = [d \in Dates |-> NoPoint]
  /\ choices = [d \in Dates |-> "none"]
  /\ altPoints = {} /\ alts \in SUBSET Alts \ {{}}
  /\ noticed = FALSE
  /\ work = [w \in Workers |-> Idle]
  /\ jobs = 0 /\ faults = 0
  /\ recorded = {} /\ muddled = {}

-----------------------------------------------------------------------------
(* Accounts.                                                               *)

Tick ==
  /\ today < LastDay
  /\ today' = today + 1
  /\ UNCHANGED <<tables, alts, noticed, work, jobs, faults, recorded, muddled>>

\* An exchange or a refresh stores an account of a connection.
LinkAccount(a) ==
  /\ a \notin used
  /\ accounts' = accounts \union {a}
  /\ used' = used \union {a}
  /\ UNCHANGED <<today, snapshots, points, choices, altPoints>>
  /\ UNCHANGED <<alts, noticed, work, jobs, faults, recorded, muddled>>

\* Deleting account rows deletes their snapshots (on delete cascade).
DeleteAccounts(gone) ==
  /\ accounts' = accounts \ gone
  /\ snapshots' = {s \in snapshots : s[1] \notin gone}
  /\ UNCHANGED <<used, points, choices, altPoints>>

\* A revoked permission and a reconnection delete the rows of the connection
\* without an archive.
DropAccounts(i) ==
  /\ \E a \in accounts : ItemOf[a] = i
  /\ DeleteAccounts({a \in accounts : ItemOf[a] = i})
  /\ UNCHANGED <<today, alts, noticed, work, jobs, faults, recorded, muddled>>

-----------------------------------------------------------------------------
(* The archive.                                                            *)

PointSource(kind) == IF kind = "sync" THEN "plaid_live" ELSE "plaid_archived"

\* What the caller goes on with when its archive is done: a removal deletes
\* the rows of the connection, the others have nothing left to do here.
Continued(job) == IF job.kind = "remove" THEN [job EXCEPT !.at = "delete"] ELSE Idle

\* createArchiveSnapshotForItem and createArchiveSnapshotForUser: the accounts of
\* the connection or of the user are read and the day is fixed.  Nothing is
\* archived of no accounts, nor where a point of the same source is fresh, if
\* that is enabled and the caller does not force the archive.
Archive(w, kind, item, date, forced) ==
  LET rows == {a \in accounts : item = None \/ ItemOf[a] = item}
      job(read) ==
        [kind |-> kind, at |-> "snapshots", item |-> item, rows |-> read, date |-> date]
      fresh == NoopWindow /\ ~forced /\ points[date].source = PointSource(kind)
      none == Continued(job({}))
  IN /\ work[w] = Idle /\ jobs < MaxJobs
     /\ \E next \in (IF rows = {} THEN {none}
                    ELSE IF fresh THEN {job(rows), none} ELSE {job(rows)}) :
          /\ next # Idle
          /\ work' = [work EXCEPT ![w] = next]
     /\ jobs' = jobs + 1
     /\ UNCHANGED <<today, tables, alts, noticed, faults, recorded, muddled>>

ArchiveSync(w) == \E i \in Items : Archive(w, "sync", i, today, FALSE)

\* POST /api/plaid/remove-item, and /api/plaid/disconnect, which forces it.
ArchiveRemoval(w) ==
  \E i \in Items, forced \in BOOLEAN : Archive(w, "remove", i, today, forced)

\* The grace sweep and the end of a subscription, before the tier is lowered.
ArchiveSweep(w) == Archive(w, "archive", None, today, FALSE)

\* runScheduledHistorySnapshots dates the balances of today to the end of the
\* month.
ArchiveScheduled(w) == Archive(w, "archive", None, MonthEnd(today), FALSE)

\* POST /api/history/archive, use_month_end or not.
ArchiveRequested(w) ==
  \E d \in {today, MonthEnd(today)} : Archive(w, "archive", None, d, TRUE)

\* WRONG variant: balances dated to the end of the month are stored for today.
WriteSnapshotsToday(w) ==
  /\ work[w].at = "snapshots"
  /\ work[w].rows \subseteq accounts
  /\ snapshots' = snapshots \union (work[w].rows \X {today})
  /\ work' = [work EXCEPT ![w].at = "point"]
  /\ UNCHANGED <<today, accounts, used, points, choices, altPoints>>
  /\ UNCHANGED <<alts, noticed, jobs, faults, recorded, muddled>>

\* The snapshots are one upsert, refused when one of the rows is gone.
WriteSnapshots(w) ==
  /\ work[w].at = "snapshots"
  /\ work[w].rows \subseteq accounts
  /\ snapshots' = snapshots \union (work[w].rows \X {work[w].date})
  /\ work' = [work EXCEPT ![w].at = "point"]
  /\ UNCHANGED <<today, accounts, used, points, choices, altPoints>>
  /\ UNCHANGED <<alts, noticed, jobs, faults, recorded, muddled>>

RefusedSnapshots(w) ==
  /\ work[w].at = "snapshots"
  /\ ~(work[w].rows \subseteq accounts)
  /\ work' = [work EXCEPT ![w] = Idle]
  /\ UNCHANGED <<today, tables, alts, noticed, jobs, faults, recorded, muddled>>

\* The point of the day becomes the sum of the rows that were read, whatever
\* was stored for the day.
WritePoint(w) ==
  /\ work[w].at = "point"
  /\ points' = [points EXCEPT ![work[w].date] =
       [source |-> PointSource(work[w].kind), reconciled |-> FALSE,
        counted |-> work[w].rows]]
  /\ recorded' = recorded \union work[w].rows
  /\ work' = [work EXCEPT ![w] = Continued(work[w])]
  /\ UNCHANGED <<today, accounts, used, snapshots, choices, altPoints>>
  /\ UNCHANGED <<alts, noticed, jobs, faults, muddled>>

\* removePlaidItemForUser and the disconnect route: the rows of the connection,
\* whichever it has by now.
DeleteRows(w) ==
  /\ work[w].at = "delete"
  /\ DeleteAccounts({a \in accounts : ItemOf[a] = work[w].item})
  /\ work' = [work EXCEPT ![w] = Idle]
  /\ UNCHANGED <<today, alts, noticed, jobs, faults, recorded, muddled>>

-----------------------------------------------------------------------------
(* Answers.                                                                *)

AnswersTo(d) == {w \in Workers : work[w].kind = "answer" /\ work[w].date = d}

\* WRONG variant: a choice that is there already is kept.
BeginFirstAnswer(w, d, choice) ==
  /\ work[w] = Idle /\ jobs < MaxJobs
  /\ jobs' = jobs + 1
  /\ choices' = [choices EXCEPT ![d] = IF @ = "none" THEN choice ELSE @]
  /\ work' = [work EXCEPT ![w] = [Idle EXCEPT !.kind = "answer", !.at = choice, !.date = d]]
  /\ muddled' = IF AnswersTo(d) = {} THEN muddled \ {d} ELSE muddled \union {d}
  /\ UNCHANGED <<today, accounts, used, snapshots, points, altPoints>>
  /\ UNCHANGED <<alts, noticed, faults, recorded>>

\* POST /api/history/reconciliation stores the choice, then the point.
BeginAnswer(w, d, choice) ==
  /\ work[w] = Idle /\ jobs < MaxJobs
  /\ jobs' = jobs + 1
  /\ choices' = [choices EXCEPT ![d] = choice]
  /\ work' = [work EXCEPT ![w] = [Idle EXCEPT !.kind = "answer", !.at = choice, !.date = d]]
  /\ muddled' = IF AnswersTo(d) = {} THEN muddled \ {d} ELSE muddled \union {d}
  /\ UNCHANGED <<today, accounts, used, snapshots, points, altPoints>>
  /\ UNCHANGED <<alts, noticed, faults, recorded>>

\* The value is the one the request carries for the source: the client sends 0.
FinishAnswer(w) ==
  /\ work[w].kind = "answer"
  /\ points' = [points EXCEPT ![work[w].date] =
       [source |-> IF work[w].at = "plaid" THEN "plaid_live" ELSE "checkpoint_user",
        reconciled |-> TRUE, counted |-> {}]]
  /\ work' = [work EXCEPT ![w] = Idle]
  /\ UNCHANGED <<today, accounts, used, snapshots, choices, altPoints>>
  /\ UNCHANGED <<alts, noticed, jobs, faults, recorded, muddled>>

\* WRONG variant: a removal goes on when its archive has failed.
FailGoesOn(w) ==
  /\ work[w] # Idle
  /\ faults < MaxFaults
  /\ faults' = faults + 1
  /\ work' = [work EXCEPT ![w] = Continued(work[w])]
  /\ muddled' = IF work[w].kind = "answer" THEN muddled \union {work[w].date} ELSE muddled
  /\ UNCHANGED <<today, tables, alts, noticed, jobs, recorded>>

\* A query fails or the process goes away.  The second write of an answer does
\* not even report its error.
Fail(w) ==
  /\ work[w] # Idle
  /\ faults < MaxFaults
  /\ faults' = faults + 1
  /\ work' = [work EXCEPT ![w] = Idle]
  /\ muddled' = IF work[w].kind = "answer" THEN muddled \union {work[w].date} ELSE muddled
  /\ UNCHANGED <<today, tables, alts, noticed, jobs, recorded>>

-----------------------------------------------------------------------------
(* Points per alternative.                                                 *)

Syncing == \E w \in Workers : work[w].kind = "sync"

\* The client polls the status of the sync.
PollRunning ==
  /\ Syncing /\ ~noticed
  /\ noticed' = TRUE
  /\ UNCHANGED <<today, tables, alts, work, jobs, faults, recorded, muddled>>

\* WRONG variant: the points are kept by alternative, not by alternative and day.
PollEndedLatest ==
  /\ ~Syncing /\ noticed
  /\ noticed' = FALSE
  /\ altPoints' = alts \X {today}
  /\ UNCHANGED <<today, accounts, used, snapshots, points, choices>>
  /\ UNCHANGED <<alts, work, jobs, faults, recorded, muddled>>

\* When a sync it saw has ended it writes the net worth of every alternative of
\* the plan for the day.  The quota of the hour refuses nothing: its counter is of
\* no connection, and a NULL in the key lets each increment insert a row of 1.
PollEnded ==
  /\ ~Syncing /\ noticed
  /\ noticed' = FALSE
  /\ altPoints' = altPoints \union (alts \X {today})
  /\ UNCHANGED <<today, accounts, used, snapshots, points, choices>>
  /\ UNCHANGED <<alts, work, jobs, faults, recorded, muddled>>

PollFailed ==
  /\ ~Syncing /\ noticed
  /\ faults < MaxFaults
  /\ faults' = faults + 1
  /\ noticed' = FALSE
  /\ UNCHANGED <<today, tables, alts, work, jobs, recorded, muddled>>

AddAlternative ==
  /\ \E a \in Alts \ alts : alts' = alts \union {a}
  /\ UNCHANGED <<today, tables, noticed, work, jobs, faults, recorded, muddled>>

-----------------------------------------------------------------------------
Next ==
  \/ Tick \/ PollRunning \/ PollEnded \/ PollFailed \/ AddAlternative
  \/ \E a \in Accounts : LinkAccount(a)
  \/ \E i \in Items : DropAccounts(i)
  \/ \E w \in Workers :
       \/ ArchiveSync(w) \/ ArchiveRemoval(w)
       \/ ArchiveSweep(w) \/ ArchiveScheduled(w) \/ ArchiveRequested(w)
       \/ WriteSnapshots(w) \/ RefusedSnapshots(w)
       \/ WritePoint(w) \/ DeleteRows(w)
       \/ \E d \in Days, c \in {"plaid", "checkpoint"} : BeginAnswer(w, d, c)
       \/ FinishAnswer(w) \/ Fail(w)

Spec == Init /\ [][Next]_vars

-----------------------------------------------------------------------------
(* What the routes show.                                                   *)

PointDays == {d \in Dates : points[d] # NoPoint}

\* GET /api/history/net-worth: snapshots stand in when there is no point.
ShownDays == IF PointDays # {} THEN PointDays ELSE {s[2] : s \in snapshots}

\* GET /api/history/net-worth/tmm for the alternatives of the plan: the other
\* history stands in while none of them has a point.
AltDays(alt) ==
  IF \E p \in altPoints : p[1] \in alts
  THEN {p[2] : p \in {q \in altPoints : q[1] = alt}}
  ELSE ShownDays

\* fetchMergedHistoricalSeries: the client adds its checkpoints.
SeriesDays(alt) == Checkpoints \union AltDays(alt)

IsPlaid(point) == point.source \in {"plaid_live", "plaid_archived"}

\* getHistoryPoints, or deriveNetWorthPointsFromSnapshots when there is no point:
\* a day's snapshots, which carry the default source of an archive.
Derived == [source |-> "plaid", reconciled |-> FALSE, counted |-> {}]
PointsRead ==
  IF PointDays # {} THEN points
  ELSE [d \in Dates |-> IF \E s \in snapshots : s[2] = d THEN Derived ELSE NoPoint]

\* The window of transactions that Plaid covers, or else of Plaid's points.
PlaidDays == {d \in Dates : IsPlaid(points[d])}
Covered(window) ==
  LET bounds == IF window # {} THEN window ELSE PlaidDays
  IN {d \in Dates : \E lo, hi \in bounds : lo <= d /\ d <= hi}

\* mergePointsWithCheckpoints for a date and the checkpoint the client sends for
\* it: none, near the point or farther from it than the threshold.
Shown(value, reconciled, review) ==
  [value |-> value, reconciled |-> reconciled, review |-> review]

Merged(d, checkpoint, window) ==
  LET point == PointsRead[d]
      kept(review) == Shown("point", point.reconciled, review)
      far == checkpoint = "far"
  IN IF checkpoint = "none" THEN kept(FALSE)
     ELSE IF point = NoPoint THEN Shown("checkpoint", FALSE, FALSE)
     ELSE IF choices[d] = "checkpoint" THEN Shown("checkpoint", TRUE, FALSE)
     ELSE IF choices[d] = "plaid" THEN Shown("point", TRUE, FALSE)
     ELSE IF IsPlaid(point)
          THEN kept(far /\ (d \in Covered(window) \/ Covered(window) = {}))
     ELSE IF d \in Covered(window) THEN kept(far)
     ELSE Shown("checkpoint", FALSE, FALSE)

-----------------------------------------------------------------------------
(* Properties.                                                             *)

TypeOK ==
  /\ today \in Days
  /\ accounts \subseteq used /\ used \subseteq Accounts
  /\ snapshots \subseteq Accounts \X Dates
  /\ points \in [Dates -> Point \union {NoPoint}]
  /\ choices \in [Dates -> {"none", "plaid", "checkpoint"}]
  /\ altPoints \subseteq Alts \X Days /\ alts \subseteq Alts
  /\ noticed \in BOOLEAN
  /\ \A w \in Workers :
       /\ work[w].kind \in Kinds \union {"idle"}
       /\ work[w].at \in {"end", "snapshots", "point", "delete", "plaid", "checkpoint"}
       /\ work[w].item \in Items \union {None} /\ work[w].rows \subseteq used
       /\ work[w].date \in Dates \union {0}
  /\ jobs \in 0 .. MaxJobs /\ faults \in 0 .. MaxFaults
  /\ recorded \subseteq used /\ muddled \subseteq Days

\* What a point sums can be traced: every account it counts that still exists
\* has a snapshot of the day, whichever archives, removals and errors crossed.
PointsAreTraceable ==
  \A d \in Dates : \A a \in points[d].counted \intersect accounts : <<a, d>> \in snapshots

\* "Validate final snapshot/archive point written before removal"
\* (docs/tests/LAUNCH_BLOCKING_VALIDATION_MATRIX.md): the rows that a removal
\* or a disconnection archives are counted in a point before they go.
FinalPointWritten ==
  [][\A w \in Workers :
       work[w].at = "delete" /\ work'[w] = Idle /\ accounts' # accounts
       => work[w].rows \subseteq recorded]_vars

\* A day of the history that an alternative is shown stays shown.  It is
\* replaced when the first points per alternative come, and while there are
\* snapshots only.
HistoryKept ==
  [][\A alt \in alts :
       \/ SeriesDays(alt) \subseteq SeriesDays(alt)'
       \/ altPoints = {} /\ (altPoints' # {} \/ PointDays = {})]_vars

\* "Explicit reconciliation override for a date" comes first
\* (tests/validation/spec/CheckpointSemantics.md): a reconciled point is of the
\* source the user chose last, unless two answers crossed or one was cut short;
\* who sends a checkpoint gets the choice back and is not asked again,
\* however often the day has been archived since.  Only about figures of Plaid
\* is the user asked.
AnswersHold ==
  \A d \in Days :
    /\ points[d].reconciled /\ AnswersTo(d) = {} /\ d \notin muddled =>
         (IsPlaid(points[d]) <=> choices[d] = "plaid")
    /\ \A c \in {"near", "far"}, window \in SUBSET Dates :
         LET shown == Merged(d, c, window)
         IN /\ choices[d] = "checkpoint" => shown.value = "checkpoint"
            /\ choices[d] = "plaid" => (shown.value = "point" <=> PointsRead[d] # NoPoint)
            /\ shown.review => /\ choices[d] = "none"
                              /\ PointsRead[d].source \notin {"none", "checkpoint_user"}
=============================================================================
