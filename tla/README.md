# TMM in TLA+

Specifications, model-checking runs and proofs for TMM ("The Money Machine"): an Express backend
over Supabase/Postgres that links bank items through Plaid, imports their transactions, and bills
through Stripe, and a React client that keeps a financial plan and simulates it.  Paths below are
relative to the repository.

The backend's correctness rests on a few database rows that several processes, requests and
webhooks read and write in separate queries.  Every `await` is a point where somebody else runs.
That is what the modules model, and what the repository's tests, which run one thing at a time
against mocks, hardly reach.

## Inventory

| Component | State it keeps | Operations | Interacts with | Hard behaviour | What makes it correct |
|---|---|---|---|---|---|
| Sync job queue (`backend/models/plaidSyncJobs.js`, `backend/lib/plaidSyncWorker.js`) | rows of `plaid_sync_jobs`; the partial unique index on `dedupe_key` | enqueue, claim, complete, fail (retry with backoff or give up) | called by webhook, schedule, refresh button, restore; runs the sync service | claim and failure are each two queries; workers crash; completion may throw | one worker per job, one active job per key, bounded attempts, every queued job ends |
| Item sync (`plaidWorkflows/transactionsSyncWorkflow.js`, `plaidSyncEngine.js`, lock in `models/plaidWebhook.js`, `plaid_apply_transactions_sync` in the baseline migration) | the item's lock and cooldown, its cursor, the transactions | take the lock, fetch pages and window, apply, release | Plaid; accounts; circuit breaker | lock is looked at, then written without condition; it expires; two apply paths; faults between steps | data never behind the cursor; cursor monotone; eventual import; how syncs may overlap |
| Sync service (`plaidSyncService.js`) | none of its own | enqueue with a key, process a job, schedule, quotas, gates | queue, item sync, lifecycle | dedupe by time bucket; refusals that are never retried; several items per job | a completed job imported what it was asked for |
| Circuit breaker (`models/plaidCircuitBreaker.js`) | one row: state, failure window, next try | check, success, failure | every sync and exchange | read-modify-write by many | it never gets stuck: closed with the failures that open it, or open for ever |
| Webhook intake, link intents, exchange, removal (`routes/plaidRoutes.js`, `plaidItemHandlers.js`, `models/plaidLinkIntent.js`, `models/plaidWebhook.js`) | intents, tokens, accounts, item status, connection events, `plaid_webhook_events` | exchange, reconnect, remove, disconnect, revoke, status webhooks | Plaid, breaker, accounts | double submission; cap counted before the write; a removal and a webhook on one row; redelivery | one exchange per public token; what is completed is connected; what is removed is gone |
| Plaid lifecycle (`plaidLifecycle.js`) | `suspended_at`, `retention_expires_at` per item | suspend, restore, revoke | Stripe handlers, sweeps, enqueue | row-by-row loops; stale lists | a paying user's items are active and caught up; only expired tokens are revoked |
| Stripe webhooks (`stripeWebhookHandlers.js`, `routes/stripeRoutes.js`) | `stripe_events`, subscription columns and tier of `profiles` | handle each event type | entitlements, lifecycle | duplicates, reordering, failure after recording | the tier follows the subscription |
| Entitlements, grace sweep (`entitlements.js`, `entitlementSweeps.js`) | tier, grace deadline | resolve, sweep | Stripe, lifecycle | sweep acts on a stale list | grace is given once, and ends |
| Plan store (`planHandlers.js`) | `plans`, `plan_revisions` | put with base, get, list, prune | client | check, then unconditional upsert; the revision fails after it; old revisions are looked up, then deleted | a save that was reported is filed; the last ones can be restored |
| Plan sync, persistence (`PlanProvider.tsx`, `planSync.ts`, `planPersistence.ts`) | the plan in memory, the snapshot in local storage, the server's saved-at, flags | reconcile at start, debounced push, conflict choices, import, cross-tab guard | plan store, local storage | tabs, pushes in flight, offline, banners | what is shown as synced is saved; tabs agree; saving ends |
| Account integration (`accountIntegration/`, `applyConnectedToPlan.ts`, `overrideManager.ts`, `models/account.js`) | rows of the plan that follow accounts; the fetched list; the table `accounts` | link, unlink, override, remove, reconnect, the two effects | plan, backend, Plaid | lists out of order; two effects on one plan; new account ids | links point to the right account; typed figures and edits survive |
| Google Sheets backup (`lib/sheets/`, `googleRoutes.js`) | the spreadsheet, the queue of failed writes | export, import, flush, unlink | plan, local storage, Google | requests that fail here and land there; matching by UUID; queue read and written whole | the sheet and the queue hold the plan; an import is stable |
| Plan screens (`planStore.tsx`, `features/accounts`, `features/pipeline`, `goals`, `checkin`, `checkpoints.ts`, `forecastSeed.ts`) | the plan document: alternatives with their rows; goals, flows and checkpoints by the name of an alternative; augments; the seed | new, clone, rename, delete; rows and their cells; flows; goals, augments, check-in, checkpoints; a ticker's quote | ledger, dashboard, plan sync | nodes are positions ("asset:2"); what belongs to an alternative is under its name; a quote is awaited and then written over rows | flows follow their rows; what is under a name was made for it |
| Pipeline engine (`lib/pipeline/engine.ts`) | none | flows are written into the rows they lead to | plan screens, ledger | sums of fractions, frequencies, percentages, what is left when no flow leads there | what is projected is what was drawn |
| Simulation ledger (`ledger.ts`) | the balances of a run, carried residues | the day loop | plan, checkpoints, augments, pipeline engine | rounding, month ends, order within a day | the books balance; debts are not overpaid; flows fire once a month; it starts from what the screens show |
| Dashboard and worker (`DashboardScreen.tsx`, `simulationWorkerHost.ts`, `simulationWorker.ts`, `simulationCache.ts`) | the forecast shown, the request waited for, the requests in the worker, the results kept | visit, edit, choose, refine, retry; the worker answers, throws, dies | plan, ledger | answers that come after a later request or a visit; a cache by a key without the day; a worker that dies | what is shown is of the plan as it is now, of today or an earlier day; it never waits for nothing |
| History (`historyService.js`, `models/history.js`, `routes/historyRoutes.js`) | snapshots of accounts, a point per day, the user's choices, points per alternative | archive after a sync, before a removal, by the sweep, the schedule or the user; answer; write points per alternative; merge and show | syncs, removals, Stripe, plan, checkpoints | three queries of an archive cross with others and with deletions; an answer is two writes; every later archive overwrites the point | points can be traced, nothing goes uncounted, answers prevail, days stay shown |
| A user's account (`entitlementRoutes.js`, `stripeRoutes.js`, `googleRoutes.js`, `storage/googleTokens.js`, `lib/oauthState.js`, `privacyRoutes.js`) | invites, waitlist, `stripe_customer_id`, OAuth states, `google_sheets_tokens`, auth users | redeem, check out, connect, refresh, disconnect, delete | Stripe, Google, foreign keys | read, create at Stripe, save; a refresh stores what it read; a deletion beside requests under way | a code is spent once; who pays reaches the portal; the connection is the last one made; a deleted user leaves nothing |
| Usage counters, UI flow state, sessions, UI | see `PROJECT.json` | | | | |

`PROJECT.json` lists every component with what is modelled of it, and the hazards of the code
with the properties that watch them.

## Modules

| Module | Models |
|---|---|
| `SyncWorkers` | the workers, a constant that the queue and the item share |
| `JobQueue` | what a job queue promises: the abstract specification |
| `JobTable` | how the table of `SyncJobs` is seen as a `JobQueue`, for the proof of the refinement |
| `SyncJobs` | the job table and the polling workers; refines `JobQueue` |
| `ItemSync` | the sync of one item: lock, cooldown, cursor, pages, both apply paths |
| `SyncPipeline` | `SyncJobs` and `ItemSync` composed under one clock: jobs that run syncs |
| `PlaidLifecycle` | a user's items suspended, restored and revoked, row by row |
| `Billing` | Stripe events, the tier they resolve to, the grace sweep; extends `PlaidLifecycle`, whose tasks they are |
| `PlaidBreaker` | the row of the circuit breaker and what its functions make of it |
| `PlaidConnect` | the exchange of public tokens, removals, disconnections and webhooks; uses `PlaidBreaker` |
| `PlanStore` | the plan row, its revisions and their pruning on the server, for any clients |
| `PlanSync` | the tabs of a user over `PlanStore` and the browsers' local storage |
| `AccountMapping` | which account of a new connection an old one has become: an algorithm |
| `AccountLinks` | the rows of a plan that follow accounts, through refreshes and reconnections; uses `AccountMapping` |
| `Sheets` | the backup in a spreadsheet: exports, imports, the queue and its flush |
| `Pipeline` | the flows of the Pipeline Builder and what they write into rows: operators |
| `Ledger` | the projection of a plan day by day; uses `Pipeline` |
| `Planning` | the plan document and the screens that edit it, up to the scenario that is projected; over `Ledger` |
| `Dashboard` | the forecast on the dashboard, its worker and cache, beside the screens; over `Planning` |
| `History` | archives of the net worth, the user's answers, the points per alternative, and what is shown of them |
| `Account` | invites, checkout, the connection to Google and the deletion of a user, as requests on the server |
| `DashboardInvariants` | what the proofs about `Dashboard`, `Planning` and `Ledger` keep from step to step |
| `MC...` | the instances TLC checks |
| `...Proofs` | theorems about the module they are named after, and their proofs; those of `SyncJobs` and `ItemSync` are in `SyncPipelineProofs`, those of `PlaidLifecycle` in `BillingProofs`, those of `PlanStore` and `Sheets` in `PlanSyncProofs`, those of `Ledger` and `Planning` in `DashboardProofs` |

### SyncJobs

`status`, `attempts`, `runAfter`, `key` are the columns of the rows; `at`, `job`, `seen` what a
worker has in memory during its tick.  Each query is one action.

| Action | Code |
|---|---|
| `Insert` / `Collide` / `Lookup` | the insert of `enqueuePlaidSyncJob`; error 23505; the lookup of the active job |
| `Select` / `Claim` / `LoseClaim` | the two queries of `claimNextPlaidSyncJob` |
| `RunEnds` | `runJob` returned, threw, or threw with `noRetry` |
| `Complete` / `CompleteThrows` | `completePlaidSyncJob`, and the catch that also covers it |
| `ReadAttempts` / `Requeue` / `RequeueCollides` / `GiveUp` | the two queries of `failPlaidSyncJob`, and the index refusing the update |
| `Abandon` | the process stops, or a query throws into the tick's outer catch |

`lock_owner` and `locked_until` are written and never read by the code, so they are not there.
`lost` and `crashes` are history variables and bounds.  `cancelled` is never written.

### ItemSync

Plaid's side is a history `bank`: `bank[n]` gives every transaction's level at position `n` (not
posted, a version, or `Gone`), and a cursor is a position.  Plaid does not promise that a removed
transaction comes back under its id, and the model does not let it.  `lockLeft` and `coolLeft`
are times left, so the clock needs no absolute value.

| Action | Code |
|---|---|
| `SeeFree` | the read of `acquirePlaidItemSyncLock`; the expiry is computed from the clock of this moment (`lease`) |
| `TakeLock` / `InsertCollides` | its unconditional update, or its insert when it saw no row |
| `ReadCursor`, `FetchPages`, `FetchWindow` | cursor, `/transactions/sync` pages, `/transactions/get` window |
| `ApplyAtomic` | `plaid_apply_transactions_sync`, one database transaction |
| `ApplyUpserts`, `ApplyDeletions`, `AdvanceCursor` | the path with `PLAID_SYNC_USE_RPC_APPLY=false` |
| `ReleaseSuccess` / `ReleaseFailure` | `releasePlaidItemSyncLock` at the end and in the catch; neither checks the owner |
| `ReleaseUnanswered` | the release at the end is written and its answer lost: it throws before `lockAcquired` is cleared, and the catch releases again |
| `Throw` / `Crash` | any await of the sync throws; the process stops, or the release in the catch fails |
| `BankChanges`, `RefreshAccounts`, `CreateRow`, `Tick` | Plaid, the accounts refresh after a sync, other writers of the status row, time |

The page loop is one action: pages are collected in memory, and the retry after a mutation during
pagination drops what was collected and starts over from the same cursor
(`collectTransactionsSyncPages`), so the outcome is a read of Plaid's history at one position.

History variables name the ways things go wrong, so that properties can say "only then": `window`
(a lock ended under a sync, or was taken between another's look and its update, or a sync whose
release had not been answered released again under another), `overlap` (two syncs at once), `gap`
(updates applied from a cursor ahead of the stored one), `missed` (skipped because their account
had no row).

### SyncPipeline

`Queue == INSTANCE SyncJobs`, and the item is that of `ItemSync`, which it extends.  A worker
that is `at` "running" takes the item's steps (`pc`); how a sync ends decides how the run ends:
returned, threw (retried), or threw with `noRetry` (lock held, cooldown, breaker open).  It is
restricted to one item, to users who are not suspended, and to the stored procedure (the
default).  `announced[j]` is what was asked of job `j`.  All errors and crashes count against
`MaxFaults` here.

### PlaidLifecycle

`token`, `suspended`, `retention` are the rows of `plaid_tokens` with `suspended_at` and
`retention_expires_at`; `live` is what Plaid has and bills; `behind` the items that were
suspended and not synced since.  Each of the functions of `plaidLifecycle.js` reads a list
(`todo`) and goes through it (`task`, `hand`).

| Action | Code |
|---|---|
| `StartSuspend`, `Suspend` | the select and the per-row update of `suspendPlaidForUser` |
| `StartRestore`, `Restore`, `CatchUp` | the select, the per-row update and the enqueueing of `restorePlaidForUser`, with the suspension check of `enqueueSyncForItem` |
| `StartRevoke`, `RemoveAtPlaid`, `DeleteToken` | the select, `itemRemove` and the deletion of `revokeExpiredPlaidTokens` |
| `Unreadable` | the read of the token fails and the row is deleted all the same |
| `SkipRow` | its per-row catch |
| `Finish`, `Abandon` | a loop ends; it throws, or the process stops |
| `ScheduledSync`, `Tick` | `runScheduledTransactionsSync`; a day |

The order of a list is not defined by the queries, so a loop takes any row next.  Time is counted
in days, a loop takes seconds.  `held` (how long an item has been suspended) and `raced` (it was
restored after a sweep had listed it) are history variables.  Items linked or disconnected by the
user meanwhile are not there, and neither is the status shown to the user, on which nothing in
these functions depends.

### Billing

`subscription` and `events` are Stripe's side: each change of the subscription sends the invoice
event and the subscription event with the status at that moment; they are delivered in any order
and any number of times.  `status`, `tier`, `grace` are the columns of the profile, `outcome` the
rows of `stripe_events`.  `stage`, `event`, `read` are what a handler has in memory between its
queries.  Handlers and grace sweeps are the `Tasks` of `PlaidLifecycle`; its own retention sweeps
are none here (`Sweeps = {}`).

| Action | Code |
|---|---|
| `Receive` / `Replay` | the insert into `stripe_events`; error 23505, answered with success |
| `LoadProfile` | `loadProfile`, one query before the update that depends on it |
| `ApplyChanged` | `handleSubscriptionEvent`: grace, `resolveTierFromSubscription`, the update of `applyTier` |
| `ApplyFailed`, `ApplyPaid` | `handleInvoicePaymentFailed`, `handleInvoicePaid` |
| `StartLoop`, `LoopStep`, `EndLoop` | the side effects of a changed tier: the loops of `PlaidLifecycle` |
| `Acknowledge` / `Throw` | the outcome is recorded and 200 answered; the catch, or a crash |
| `List`, `Downgrade`, `SweepThrows` | `runGraceExpirySweep`: the query, the update of the listed row, the per-row catch or a crash |

The price is one of the catalogue and there is one paid tier; trials behave as active
subscriptions, and the terminal statuses as canceled ones.  History variables again name the ways
things go wrong: `disorder` (an event was applied after a later one), `crossed` (a tier was
written by one who did not know of another's writing), `late` (the sweep downgraded a user who
had paid since it was listed), `overtaken` (a grace period was cleared that a handler had read
and not used yet).

### PlaidBreaker and PlaidConnect

An item stands for its public token, its intent, its access token, its `item_id` and its
accounts.  A row (of `plaid_tokens`, `accounts`, `plaid_item_status`) is named by an `item_id`
too, and may hold the token of another item: the one the user reconnected with.  `request[r]` is
what a request has in memory; each await another request can see through is a step.

| Action | Code |
|---|---|
| `StartExchange` | the insert of the link intent; one that is there already is answered from its row |
| `FindDuplicate` | the bank is connected by an item Plaid answers for |
| `AskBreaker`, `Probe` | the read of the breaker, and the write that half-opens it |
| `Exchange` | `itemPublicTokenExchange` and `accountsGet`, the row to reconnect, the orphan match, the weekly cap |
| `StoreToken`, `DropOldAccounts`, `SaveAccounts`, `CountConnection`, `SetHealthy` | the writes of `exchange-token`, one by one |
| `CompleteIntent`, `Succeed` | the intent, then the breaker |
| `PlaidFails`, `RecordFailure`, `QueryFails`, `GiveUp` | its catch: the breaker is read, written, the intent failed |
| `BeginRemoval`, `DropAccounts`, `DropToken`, `WriteStatus` | `remove-item` and `disconnect`: `itemRemove`, accounts, token, status |
| `Happens`, `Deliver`, `RevokeAtPlaid`, `SwallowFailure` | Plaid's webhooks: the record, the owner's lookup, the revocation, which deletes the token first and goes on after an error |
| `Crash`, `TimePasses` | the process stops; the breaker's times pass |

`alone` (no other request worked on the row meanwhile) is a history variable.

### PlanStore and PlanSync

A plan document is its version.  A call of `PUT /api/plan` is a record of `calls` that goes
through its handler; a tab is a record of what `PlanServerSyncGate` and `PlanPersistenceGate`
keep in refs and state.  The wall clock counts the saves sent, which is all that a comparison of
time stamps tells.  A revision is its place in `filed` (history: all that were ever filed),
`revisions` are those in the table, and `stale` those that a call found old and has not deleted
yet, while other calls file theirs.

| Action | Code |
|---|---|
| `CheckConflict`, `Upsert`, `Prune`, `Fail` | the read and `conflict` of `PUT /api/plan`; the upsert with the revision (`FileRevision`) and the look for old ones; their deletion, unless it or the look failed unnoticed; an error anywhere (a `GET` fails too) |
| `OpenTab`, `TakeServerPlan`, `PushAtStart`, `StayLocal` | the snapshot is loaded; the server's plan is newer, not newer, or cannot be had |
| `Edit`, `FireTimer`, `SaveAnswered` | an edit, its debounced push, the answer |
| `ChooseServerVersion`, `ServerVersionArrives`, `KeepLocalVersion`, `ForceAnswered` | the conflict banner |
| `StartImport`, `SnapshotAnswered`, `FinishImport`, `ImportFails` | `snapshotPlanBeforeReplace`, then the import, or the file is refused and the plan stays |
| `StorageEvent`, `UseOtherTab`, `KeepThisTab` | another tab of the browser wrote the snapshot |
| `CloseTab`, `Serve`, `Forget` | a reload; a call goes on without its caller |

`overtaken` (history) names the tabs that sent a save before the last was answered: the answers
then come in any order, and the one that comes last sets the base.  `IndicatorIsTrue` excepts
them, see the observations.

### AccountMapping and AccountLinks

`plan` is the plan in the store, `list` the accounts of the screen, `shown` both as last
rendered: a handler works on the plan of its rendering and replaces the whole plan.  `link` is a
reconnection under way, which the handler in the screen began with the plan of its rendering.

| Action | Code |
|---|---|
| `Render` (with `Effects`) | React renders and runs the two effects: `applyConnectedBalancesToPlan`, `revertStalePlanLinks` |
| `Enter`, `Leave`, `Focus`, `Answer`, `Receive`, `LoseFetch` | the screen and its fetches of `items-with-accounts` |
| `Link`, `Unlink`, `RemoveFromSheet`, `Override`, `ToggleOverride` | what the user does on the screen |
| `EditFigure`, `CheckIn` | what the user types elsewhere |
| `RefreshStarts`, `RefreshStores`, `ShellFetches`, `ShellApplies` | the accounts refresh of a sync, and `runPostSyncRefresh` in the shell |
| `Disconnect`, `RemoveItem`, `RemoveAccount`, `Revoked` | connections and accounts go |
| `StartReconnect`, `ExchangeItem` / `ExchangeOrphan`, `DeleteOld`, `UpsertNew` / `MoveRow`, `AllMoved`, `Reconnected`, `ReconnectFails` | a reconnection, by the item or found as an orphan, and the remapping of the links |

`Mapping` is `buildReconnectAccountIdMapping`: the ids used so far are a function of how many old
accounts have had their turn, and what an account is mapped to is chosen from the new ones by
that.  Histories: `last` (how often the user changed a row), `unsure` (rows changed during a
reconnection), `mixed` (the accounts could not be told apart), and in a row `typed`, `meant` and
`kept`: the figure the user gave last, the account the user linked, whether the user has not
given the figure up.

### Sheets

One cleared-and-written tab (`Augments`) and one whose rows are matched by UUID (`Income`) stand
for all.  A row is its id and what its other cells hold; writes are records that `Written`
applies to a sheet, so that a write can be sent, queued, or land late.  What the cells of a row
mean depends on the header above them (the constant `Layout`): a tab with a column of UUIDs and
none for names is read by other columns (`looksLikeShiftedName`), and once the header of now is
over it the same cells are read differently.  Of a header only what the code tells apart is kept
(`Headers`); a tab that has its column of UUIDs elsewhere than first is left out.

| Action | Code |
|---|---|
| `Export`, `ExportReads` | `syncPlanToSheets`: the cleared tabs, then the difference of `diffEntitySheet` against what is read |
| `Import`, `ImportReadsAugments`, `ImportSkipsAugments`, `ImportReadsIncome` | `loadPlanFromSheets`, with missing ids made and written back (`UuidWrites`) |
| `WriteLands`, `WriteFails`, `LateLands` | a request is applied; it fails, is queued or throws; it was applied after all |
| `ReadFails`, `Finish` | a read throws; the export reports, the import replaces the plan |
| `Flush`, `FlushWrites`, `FlushEnds` | `flushSheetQueue`: the queue is read, written one by one, and replaced by what is left |
| `EditPlan`, `EditSheet`, `Close`, `Unlink` | the user |

Histories: `backup` and `source` are the plan of the last export and import that nothing else
crossed (`run[s].alone`).  The backend's own retries of 429 and 503 are left out: by its comment
these were not processed by Google.

### Pipeline and Ledger

A run is sequential: what varies is the plan, so the instances have many.  A step is one turn of
a loop of `runLedgerScenario`.

| Action | Code |
|---|---|
| `Clone`, `Build` | `buildPlanLedgerScenario`: the clone of the rows with the flows applied (`ApplyFlows` is `applyFlowsToAlternative`); accounts, balances and recurring flows of it |
| `SeedCheckpoint` | the checkpoint's net worth beyond its rows enters as cash |
| `AddLumpSum`, `RunFlow`, `AddExtras` | augments that begin, the recurring flows of the day, added income and expense |
| `Accrue` | interest with its carried residue, or the price of a position |
| `PayDebt`, `FloorDebts`, `NextMorning` | payments after the interest, the floor, the day ends |

`posted`, `accrued`, `credited` and `fired` count events for the properties.  Amounts are cents
in integers of any size; the code uses `bigint`.  What the engine adds up as fractions of a
dollar is added in parts of `MonthlyScale` and rounded once.  At most one augment changes a plan,
with probability 1.  A debt may have no date (`NoStart`): flows that lead to it are paid from
today on.  An expense without inflation of its own grows by the plan's.

### Planning

`store` is the plan document.  An action is one click or one change of a field with all its
handler calls, the sanitizing of flows included, and the effects that follow in the same commit
(`Settled`): the monthly checkpoint of `AppShell` and the seed of `ForecastSeedGate`.

| Action | Code |
|---|---|
| `SelectAlternative`, `NewAlternative`, `CloneAlternative`, `RenameAlternative`, `DeleteAlternative` | the buttons of `AccountsScreen`; a clone keeps the uuids of the rows, a rename moves what is under the name, a deletion leaves it |
| `AddRow`, `EditCell`, `DeleteRow` | `AccountsTables`; which cells can be edited (`Cells`), and value and quantity of a position following each other (`Cell`) |
| `AskQuote`, `QuoteArrives` | `TickerSearchCell`: the quote is awaited, then rows and name of the moment of the click are written |
| `AddNode`, `SaveNode`, `DeleteNode`, `ArrangeNodes` | `PipelineScreen`, `PipelineCanvas`, `NodePropertiesModal` |
| `CreateFlow`, `EditFlow`, `DeleteFlow` | a flow drawn between two nodes and its dialog, `updatePipeline` |
| `AddGoal`, `RemoveGoal`, `AddAugment`, `RemoveAugment`, `ToggleAugment`, `SaveCheckpoint`, `SwitchMonthly`, `ToggleChart`, `Resample`, `CheckIn` | goals, simulation, settings, dashboard, check-in |
| `MonthPasses` | time, off the dashboard or (`Wait` of `Dashboard`) on it |
| `Project` | `runSimulationFromLedger` of an alternative on the chart (`ScenarioOf`) |
| `ProjectPlan` | a plan of `Plans` as it is |

The ids of rows and alternatives, the owner of what is stored under a name, `ends` and `slipped`
of a flow are there for the properties: they say for what a thing was made.  `freed` are the
names under which an alternative was deleted, or overwritten by a quote that came late.

### Dashboard

| Action | Code |
|---|---|
| `Open`, `Leave` | the screen with its effects, its cleanup |
| `EditHere`, `Choose`, `EditElsewhere` | an edit of the plan on the dashboard or another screen, another setting; `React` is what the effects do after the commit |
| `Refine`, `Retry` | more runs after an idle moment; the button after a failure |
| `Simulate` | the cache, a request to the worker, or one run on the calling thread where no worker can be started; or `Refused`: `postMessage` or that run throws |
| `Wait` | days pass and no effect depends on them |
| `WorkerAnswers`, `WorkerThrows`, `WorkerDies` | `onmessage`, an error of the engine, `onerror`: everything in flight is rejected |

A result is a record of all of the plan it was computed of, and of the day it was computed on
where the engine reads the clock (`ReadsClock`: for the drift since a checkpoint, and for a debt
without a date).  The worker reads it when it comes to a request (`Computed`).  The key has no
day.  Two requests of one commit count as the second, as the first is cancelled before anything
can happen; screens exclude each other by their routes.

### History

Amounts are abstracted to what they sum: a point's `counted` is the set of accounts whose
balances made it.  A worker is a request, a sync or a sweep; `work[w]` is what it has in memory.

| Action | Code |
|---|---|
| `ArchiveSync`, `ArchiveRemoval`, `ArchiveSweep`, `ArchiveScheduled`, `ArchiveRequested` (all `Archive`) | the callers of `createArchiveSnapshotForItem` and `...ForUser`: the accounts are read, the date is fixed, a fresh point may end it |
| `WriteSnapshots` / `RefusedSnapshots`, `WritePoint` | the two upserts of `createSnapshotsForAccounts`; a snapshot of a deleted account is refused by its foreign key |
| `DeleteRows`, `DropAccounts`, `LinkAccount` | rows of `accounts` go, with their snapshots, and come under new ids |
| `BeginAnswer`, `FinishAnswer` | the choice, then the point, of `POST /api/history/reconciliation` |
| `PollRunning`, `PollEnded`, `PollFailed` | the shell sees a sync and, when it has ended, writes a point per alternative |
| `Fail` | any query fails, or the process stops |

`SeriesDays`, `AltDays`, `ShownDays` and `Merged` are the reading routes and what the client
makes of them; without any point they read what is derived of the snapshots (`PointsRead`).
Tiers are left out: the gates only refuse.  An archive whose point is fresh is skipped by choice,
since the age of a point is not modelled.  `recorded` (accounts some point has counted) and
`muddled` (days on which two answers crossed or one was cut short) are histories.

### Account

`request[r]` is what a request has in memory; each query and each call to Stripe or Google is a
step.  Requests of one user run beside each other, and beside the webhook of Stripe.

| Action | Code |
|---|---|
| `JoinWaitlist`, `IssueInvite`, `InviteExpires` | the upsert of the waitlist; codes come and pass |
| `Redeem`, `MarkInvited` | the conditional update of the code, then the waitlist |
| `BeginCheckout`, `ReadCustomer`, `CreateCustomer`, `SaveCustomer`, `CreateSession` | the checkout route with `getOrCreateStripeCustomerIdForUser` |
| `Pay`, `LinkCustomer` | Stripe; `checkout.session.completed` |
| `Authorize`, `StateExpires`, `Callback`, `Exchange`, `StoreConnection` | an OAuth state, consumed by one update; the tokens and their upsert |
| `ReadTokens`, `Refresh`, `StoreRefreshed` | `getValidGoogleTokens` |
| `RefreshFails`, `RemoveLost` | the refresh throws; the status route then removes the tokens |
| `Disconnect`, `TokenExpires`, `Revoke` | the user, time, the user at Google |
| `BeginDeletion`, `DeleteRows`, `DeleteUser` | the queries of the deletion in any order, the auth user, the foreign keys |
| `Throw` | any query or call fails, or the process stops |

Histories: `wanted` (the consent the user connected with last), `redeemers`, `crossed` (two
customers of one user in the making at once), `overtaken` (a refresh wrote over a connection that
it had not read).

## Runs

| Run | Shows | Bounds |
|---|---|---|
| `SyncJobs` | queued jobs end; refinement of `JobQueue` | 2 workers, 1 caller, 2 jobs, 2 keys, 2 attempts, 1 crash, delays 0 and 30 s |
| `ItemSync` | how syncs overlap; the database never lags the cursor, in either path; the item is imported once the bank rests | 2 workers, 2 transactions (one inside the backfill window), 2 versions, 2 bank events, 1 fault |
| `SyncPipeline` | syncs overlap only through two keys; a completed job imported what it was asked for | 2 workers, 2 jobs, 2 keys, 1 event, 1 fault, 2 attempts |
| `PlaidLifecycle` | tokens in use work; what is revoked is gone; no item is removed before its retention ends; suspensions end; restored items are synced | 2 items, 2 tasks, 1 retention sweep, 1 day of retention, 1 fault |
| `Billing` | items follow the tier; the profile follows Stripe; grace is not extended; who does not pay is downgraded; who pays is restored | 1 item, 2 handlers, 1 grace sweep, 1 day of grace, 2 changes (4 events), 1 fault |
| `PlaidConnect` | the breaker never gets stuck; one exchange per public token; how far the cap is overrun; what a removal leaves and what a completed exchange has connected (`ConnectionsAreWhole`) | 3 items, 2 requests, cap 1, threshold 1, 1 fault, 2 removals or webhooks |
| `PlanSync` | reported saves are filed and the last `Keep` are there; what is shown as synced is saved; tabs agree on the snapshot; saving ends | 2 tabs of 1 browser, 2 revisions kept, 2 openings, 1 choice, 3 events, 2 saves in flight, 1 fault |
| `AccountLinks` | links follow their account; typed figures come back; no answer or effect undoes an edit; the settled plan follows the list; the effects come to rest | 2 rows (one outside the active alternative), 2 accounts, 2 keys, 2 statements, 2 connections, 2 edits, 1 event, 1 visit |
| `Sheets` | an export nothing crossed is in the sheet and the queue; an import is stable | 2 screens, 2 plans, 9 sheets, 3 rows read, 2 runs, 3 events, 2 queued writes |
| `Planning` | the books balance; debts are not overpaid; monthly flows fire once a month; flows follow their rows; what is under a name was made for it; the projection is of what the screens show; the forecast is of the plan as it is, but for the day | 92 plans of 62 or 430 days; 6 sessions of at most 3 edits, 2 visits, 1 projection and 1 failure; 2 results kept; edited plans are projected for their first day |
| `History` | points can be traced to snapshots; what a removal archived was counted; answers prevail; days stay shown | 2 accounts of 2 connections, 2 alternatives, 2 workers, 3 archives or answers, 2 days, 1 fault |
| `Account` | a code is spent once; who pays reaches the subscription in the portal; the connection is the one made last; a deleted user leaves nothing | 2 users, 1 code, 2 requests at once and 4 in all, 2 consents, 1 fault |

Why the bounds are enough.  Every interaction between workers here is between two of them over
one row, or one key, or one item: two workers show each race, and a second job or key shows each
collision.  Two versions and a removal give every pair of positions a cursor can lie between, and
one transaction inside and one outside the backfill window both ways of hearing of it.  Two
attempts have a first, a retry and an end.  `SyncPipeline` uses a lock and a cooldown of 5 s, so
that a retry meets the item both in and after its cooldown.  Two changes of the subscription give
every pair of neighbouring statuses (a payment fails and is made good, or ends in cancellation; a
canceled user comes back), and two handlers every interleaving of their events.  One day of grace
or retention has a day before, the deadline and a day after; longer periods only repeat the
middle, and the proofs of `PlaidLifecycle` are for any.  One item is enough in `Billing`, where
the rows share one fate but for a fault in the middle of a loop, which `PlaidLifecycle` has with
two.

In `PlaidConnect` a third item lets one row be reconnected by a second while a third is linked; a
cap of 1 is reached and overrun by two requests; a threshold of 1 makes every failure count, and
the proofs are for any.  In `PlanSync` two tabs of one browser are at once two clients of the
server and two writers of a snapshot; a run with a browser for each has fewer behaviours that
matter, since nothing is shared but the server.  Two saves in flight and two revisions have a
newer and an older one.  In `AccountLinks` two accounts with one or two keys are confused or told
apart, and the second row makes a handler that replaces the whole plan lose another's change.
Three rows read and sheets of up to four have a row beyond the limit; the nine sheets are one for
each thing the code tells apart (no header, no UUID column, one but no names with rows as they
were and of later, an older header, duplicates, missing ids, blank rows, too long).  The plans of
`Planning` that are projected as they are cross two starts at the end of a month with every kind
of augment, with and without a checkpoint and a connected account; 62 days have three month ends,
430 a year and its leap day; small denominators make every rounding happen within a run; a
hundredth of a share, in place of a millionth, is precise enough for the prices there are
(`IsSynced`).  Its sessions start with one alternative or two, with and without flows, connected
rows and monthly checkpoints, and have the fewest edits that show what two or three of them do to
each other; a projection of an edited plan needs its first day only, since what follows is what
the other plans show.  Two results kept make a third push out the one used longest ago.  A
session with a checkpoint a month, and one with flows into a debt without a date, read the clock,
and a month may pass between two of their simulations.  A session stops when its `left` is used
up.

In `History` two days in a month of two tell the end of the month from today, three jobs let an
archive and an answer cross a third, and two accounts in two connections make a point of one
connection and of all.

Attempts, faults, crashes, changes, edits and events are bounded in guards by the constants
`Max...`; the clock of `SyncJobs` moves only to instants that some job waits for.  Where nothing
tells workers, tabs, jobs or keys apart a run of safety properties uses symmetry.

Fairness.  Weak fairness of each worker's steps: `setInterval` polls for the life of the process,
queries and Plaid calls return or throw, and jobs for an item keep coming from the schedule
(`server.js` starts `runScheduledTransactionsSync` every
`PLAID_TRANSACTIONS_SYNC_INTERVAL_MINUTES`, a day unless configured).  Time passes.  No fairness
for callers, the bank, faults or crashes.  `QueuedJobsEnd` and `EventuallyImported` depend on it.
`PlaidLifecycle` and `Billing` assume it of the steps of a loop or handler once started, of the
sweeps and the daily sync (timers in `server.js`, `ENTITLEMENT_SWEEP_INTERVAL_MINUTES` and
`PLAID_TRANSACTIONS_SYNC_INTERVAL_MINUTES`), of Stripe's first delivery of each event, and of
days: a user is not downgraded and restored without a day passing.  None of them assume that a
user is ever downgraded, pays, or that Stripe's subscription changes.  The other modules state no
fairness and no liveness; their runs do not check deadlock, since a user may stop, a run of the
ledger ends and the bounds are used up.

## Proofs

Each `...Proofs` module proves, for every value of the constants that satisfies the named
`ASSUME`s of its component, what the runs show on small instances.  Each states an inductive
invariant (TLC checked it first, as an invariant), shows that `Init` implies it and that every
action keeps it, one lemma per action or group of actions, and derives the theorems from it.

`SyncPipelineProofs`, the queue, about `Queue!Spec`, that of `SyncJobs`.  `QueueInv` adds to the
types that a busy worker has a job, that every job that can still be claimed has an attempt left,
also by the count a claim has read before (which is what makes the claim's stale `attempts + 1`
harmless), and that a held job is held once and marked running or completed.  From it
`QueueTyped`, `Exclusion`, `Deduplication`, and `Refinement`: each step maps to a step of
`JobQueue` or to a stutter, under the mapping that `JobTable` states as an operator of the
columns.  `Exclusion` and `Deduplication` are proved and no run repeats them.

`SyncPipelineProofs`, the item, about `Spec` of `ItemSync`, in layers, each resting on the one
before.  Types.  The lock: without a window one sync runs and has the lock; who gives back a lock
that is not its own any more, since its release was not answered, opens a window (`EndFacts`,
hence `OverlapWindow`).  The cursor: without an overlap nobody moves it under a sync, so Plaid's
answer is never behind it (`CursorMonotone`, `GapOverlap`).  What Plaid tells a sync: what it
removes is gone at the new cursor, what it stores is a version of that position or later, what it
leaves alone is unchanged between the two cursors.  What the database shows: the stored procedure
brings everything to its cursor at once (`NoSkip`, overlapping syncs included); separate queries
leave nothing behind the old cursor at any time, and nothing but the deletions behind the new one
(`NoSkipStepwise`).  `NoneSkipped` is both.  The layers are lemmas about `Steps`, whatever a step
of the item may be in a system that contains it, and not about `Next`, so that the pipeline can
use them; `CursorMonotone` is proved and no run repeats it.

`SyncPipelineProofs`, the pipeline.  Two workers in a sync run two jobs, both running, and so of
two keys (`SyncsApart`).  What a completed job was asked for is imported (`AnnouncedImported`):
every step of the pipeline is one of `Steps` of the item and keeps its invariant; `Informed`
follows what a job was asked for, from the position Plaid had reached (`AsksForPast`), through
the pages its worker holds (`NewsReach`, which needs that a running job is not asked for more)
and the cursor they moved (`AppliedReach`), to the row that says completed (`CompletedReach`).
It ends in what `NoSkip` says of the cursor.

`BillingProofs`, the lifecycle, about `Spec` of `PlaidLifecycle`.  A sweep lists a row when it
has been suspended for its whole retention.  What can happen to the row under the sweep is a
second suspension, which is no matter, a deletion by another sweep, after which nothing is
removed at Plaid, or a restoration, which is the race `raced` names (`TokensWork` and
`RevokedAreGone`, together `TokensAreMatched`; `RetentionIsKept`).

`BillingProofs`, the subscription.  `Billing` extends `PlaidLifecycle`, so its steps keep the
lifecycle's invariant too (`BillingIndInv`).  `ItemsInv`, for `ItemsAreThoseOfTheTier`: as long
as no two writings of the tier cross, one actor at most is between writing the tier and the end
of its loop, and its list has every item that does not follow the tier yet; that the actor next
to write sees the tier as it is, is what `crossed` denies.  `GraceInv`, for `GraceIsKept`: a
handler about to write read the clock that runs, or read that there is none, and then one that
runs by now was started today.  `ProfileInv`, for `ProfileIsThatOfStripe`: nothing is processed
beyond the last event applied, and without disorder the profile says what that event says; the
last event of all says what Stripe does, because the events of a change end with the
subscription's own.

`PlaidConnectProofs`.  The link intent lets one request work on an item, and only before Plaid
knows of it (`ExchangesOnce`).  Hence a token is stored by one request in one row, and whoever
removes the item at Plaid finds its token there and is working on that row (`RemovedTokensGo`).
Whoever is alone on a row is the only one to write it, so what an exchange wrote and what a
removal erased is still so at its end (`CompletedConnects`, `RemovalsErase`; with the tokens
`RemovalsAreComplete`).  What a request read of the breaker is as sound as the breaker, and stays
so however old it is when it is written back (`BreakerWorks`).  The connections counted and the
requests about to be counted are together less than the cap and the number of requests
(`CapHolds`), which needs the finiteness of `Requests` and the cardinality facts of the library.

`HistoryProofs`.  Ids are given out once, so no account comes into being that an archive under
way or a point has counted; a point is written only after its snapshots, a removal deletes only
after its point, and what crosses takes accounts and snapshots away together (`Traceable`,
`FinalPoints`).  A day whose answers did not cross has one answer under way at most, and it is of
the stored choice; choices are never taken back (`Answers`).  Points are written over and never
removed, alternatives are only added, and a point per alternative is of one the plan still has,
so the source of a series changes only as `HistoryKept` says (`OnlyGrows`, hence `ShownStays`).
`TypeCorrect` needs that the end of the month of a day lived through is a date (`MonthEndDate`).

`AccountProofs`.  A code is redeemed by one update that asks whether it is free, and only the
deletion of its redeemer frees it (`InvitesSpentOnce`).  Every write of a user's row asks, by its
condition or its foreign key, whether the user is there, and ids are not used again, so that
nothing comes after the deletion (`DeletionsLeaveNothing`).  A user for whom no two customers
were made at once has one, and sessions, subscriptions and events are for the one the profile
names; while one is being made there are none (`OneCustomer`, hence `PortalReachesPaid`).  A
request that is to remove a connection saw it refused or an error, and one that stores a
refreshed token writes over the row it has read, or its user is named in `overtaken`
(`LostForAReason`, hence `ConnectionStaysLast`).

`AccountLinksProofs`.  Every plan about (in the store, rendered last, held by a reconnection) has
rows that keep the user's figure, in the value or put by in the link, and follow the account the
user linked (`Rows`); each edit, each effect and the mapping keep such rows.  The mapping leads
an account to itself where the accounts can be told apart, whatever ids the accounts before it
have used up (`MappingMatches`, `MappingSound`), hence `LinksStayRight`.  A plan is older than
what the user did only while an edit waits to be rendered, or in a reconnection (`EditsCounted`,
hence `InputIsKept`).  Carrying balances twice is carrying them once, and a plan whose stale
links are reverted has none (`AppliedPlan`, `RevertedPlan`), so the effects come to rest; and
while nothing is to be rendered they have nothing to do (`Settled`, hence `EffectsRest`).  The
assumptions say that the bank's accounts are finitely many and that null is no id, amount or
figure.

`PlanSyncProofs`.  The store first, for any clients: a save that was reported had its revision
filed; what a call has found old has `Keep` newer ones in the table whatever others file and
delete meanwhile, since the newest of what a deletion takes has `Keep` newer ones that stay
(`KeptInv`, hence `StoreKeepsSaves`).  Each step of the tabs is a step of that store or leaves it
alone (`ImplementsStore`, a refinement), so `SavedKept` holds of the app.  For the tabs
`SyncInv`: a save scheduled, sent or refused is the tab's only one but where it was overtaken;
what a tab shows as synced is stamped, and a stamp belongs to one version wherever it is, in the
row, in a call or in an answer (`Stamped`), which is what `IndicatorTrue` needs when answers come
late; and of the tabs of a browser that have had their events one at most has written the
snapshot last (`Writers`, hence `TabsStayApart`).

`PlanSyncProofs`, the spreadsheet, about `SheetsSpec` of `Sheets`.  Requests given up here may be
applied at any time after, in any order, so what has been written cannot be told from the queue.
`Settled` says what can be: every write that may still land is one of those that lead to the
plan, each of them is in the queue or has reached the sheet, and what landed is undone by none of
the others (`LandsOnce`).  An export or import that is alone is at one of few stages (`AloneOK`),
the last of which is `Settled` with nothing left to do; from there flushes, their failures and
closings keep it so (`KnownOK`).  Written to its end such a queue leaves the plan in the sheet
(`OwedHolds`, hence `BackupOwed` and `ImportStable`).  The three requests of the difference are
followed row by row: what is updated by index, deleted from the bottom up and appended has each
row of the plan once (`DiffResult`, `CompletedRows`), for tabs with rows of any ids, twice or
blank.  What an import read stays as it was read under the header it writes, but for the
exceptions that `ImportIsStable` names.  The assumptions are those of the code: the rows of a
plan have ids of their own, Google returns no blank rows at the end, and what was read is written
in the columns of now (`Layout`).

`DashboardProofs`, with the invariants of `DashboardInvariants`.  `ForecastCurrent`: what is in
the cache is the answer to its key on some day up to today, what is in the worker will be the
answer to the key it was posted with, under a number of its own (`CacheTrue`, `RequestsTrue`),
and a key is all of the plan the engine reads as long as the fingerprint is that of the plan,
which every commit restores (`PlanInStep`, `KeyIsWhole`).  The day is not in the key, but the key
tells whether there is one (`KeyTellsClock`), and what was the answer of some day stays so as
time passes (`AnswersStay`).  The screen waits for the answer to its key, shows it, or failed
(`ShownFor`).

`AlternativesKeepTheirData` and `FlowsStayWithRows` have one invariant, `KeptInv`.  `Good(p, F)`
says of a plan that, but under the names F, what is kept under a name is its alternative's, its
flows lead between the rows they were drawn between, and nothing is kept under a name that no
alternative has: this last part is what makes new names safe, and is no part of the properties.
`QuoteTrue` says of a quote under way that what it will write is an alternative with the row the
click was on.  Edits of rows only add rows, replace them by ones of the same id, or remove one,
for which `Slipped` marks the flows; edits of flows add, change, remove and keep flows.  Each
edit is then put together with the checkpoint and the seed that follow it in the commit
(`CheckpointsTaken`, `SettledGood`).  The assumption, that the plan of a session starts with what
is its own under every name, is that of a document only these screens have written.  So is that
of the theorems below, that its rows hold what the editors put there (`PlanningAssumption`).

`OnceAMonthInASession`, `NothingIsLostInASession` and `ProjectionIsThatOfThePlan` are about the
runs of a session, of the plan that was edited as of any plan of `Plans`.  `ValuesInv` says that
every edit leaves a document whose rows, flows and checkpoints hold what the editors put there
and what a projection asks for (`Projectable`): rows of each kind with their fields, amounts and
frequencies, flows with both ends, synced positions worth their quantity times their price
(`EditSound`, one lemma per edit).  `ProjectedInv`: what is projected is the scenario of the
alternative it names, with the flows applied, and no edit comes after.  So every step of a
session is one of a run over a plan that can be projected (`DashboardStepped`), which is what the
invariants of the ledger need; those of `Spec` of `Ledger` alone are `OnceAMonth` and
`NothingIsLost`, with the same invariants.

`RunInv` says where a run is: the date is the start and the days since, and a loop over flows or
accounts has a turn to come or is over.  For the first `FiredInv`: a monthly flow has fired once
for each of the months whose day has come, given whether it has had its turn today; what a
month's day is, with flows for the 29th to the 31st in shorter months, and that the next such day
is in the next month, are the lemmas of the sections on dates and on what is due.  For the second
`BooksInv`: each account has what it was seeded with and what was posted, interest is credited in
whole cents with less than one cent carried, and what a payment takes from one side it gives to
the other, never more than is owed.  `BooksBalance` asks for debts that stay above zero only of
debts that start so and whose rate is not below zero: the editor takes any number for both.

For `ProjectionIsThatOfThePlan` `StartInv`: until a lump sum, the balances are what the accounts
were seeded with.  These add up to what the screens show row by row: a position in step is worth
its quantity times its price there and here (`WorthIsShown`), and a flow that is applied leaves
what a row is worth.  What a month pays for a row is a sum over all recurring flows; the sums of
concatenated flows are the sums of their parts (`WeightsJoined`, `WeightsOfParts`), and only
those built for the row weigh for it (`PaidIs`).  What a screen's flows draw for a row is the sum
the engine rounded into the row, so the two are half a cent apart at most (`FlowsSuffice`).

The library's induction and recursion theorems take an operator as a parameter, which the provers
cannot instantiate.  `DashboardProofs` proves them for sets and functions instead: `Least` from
the well-foundedness of the numbers, `Induction` for a set of numbers, `Recursion` for a function
that goes on from its value before.  `Kept` and `Total` of `Pipeline` are recursive functions in
place of `SelectSeq` and `FoldSeq`, of which the provers know nothing.

Only model-checked: liveness (`QueuedJobsEnd`, `EventuallyImported`, `ItemsMoveOn`,
`EventsTakeEffect`), which the proof system does not cover under fairness.

## Plan

What is left, in order.

1. `PlaidLifecycle` and `PlaidConnect` as one: items linked and disconnected under the loops that
suspend, restore and revoke.
2. Several items in one `sync_all` job, and its quotas.
3. Pure algorithms against reference definitions: flow state, the resolver.

## Observations

What the models showed or assume that a reader of the code should know of.

Syncs and lifecycle

* The cursor can go back under concurrent syncs: the lock is written without a condition after it
  was looked at (`models/plaidWebhook.js:201`), while `workflow-chaos-boundary.test.ts:185`
  asserts it does not go back.  Without overlap it does not (`CursorMonotone`), and the data
  survive it (`NothingIsSkipped`).
* The release after a success may be written and its answer lost: the catch then releases again
  with `lockAcquired` still true (`transactionsSyncWorkflow.js:234-235,291`), and another sync
  that took the lock meanwhile loses it (`OverlapNeedsWindow` counts this among the windows).
* A failed sync sets a cooldown that its own job's retry falls into, with the default delays; the
  refusal is never retried (`transactionsSyncWorkflow.js:113`).
* Of several items restored at once only the last is caught up at once: the enqueue of the others
  is refused by the suspension check (`plaidSyncService.js:499`,
  `05-plaid-lifecycle-policy.md:36`).  `ItemsMoveOn` therefore waits for the daily sync.
* `revokeExpiredPlaidTokens` deletes a row whose token it could not read: the item stays at Plaid
  and nothing can remove it.

Billing and accounts of users

* An event of Stripe is recorded before it is handled; if handling throws, 500 is answered and
  Stripe's retry finds the event and is answered as a replay
  (`stripeWebhookHandlers.js:236-245`), although the comment at line 276 and
  `project-roadmap/04-billing-and-entitlements.md` count on the retry.  Its effect is lost: the
  exception of `EventsTakeEffect`.
* Two checkouts at once make two customers, and the profile keeps one (`stripeRoutes.js:53`).
* A code is free again after its redeemer's account is deleted (`ON DELETE SET NULL`), although
  "a consumed code must stay consumed" (`20260717000656_entitlements_billing_lifecycle.sql:142`).
* The status route of Google takes any error of a refresh for a lost connection and removes the
  tokens, a passing one of Google's too.  A refresh under way stores what it read over a
  disconnection or a new connection.
* A deletion goes on after errors: that of `deleteUser` is not looked at while `deleted: true` is
  answered (`privacyRoutes.js:151`), and the query on `profiles` names a column that it does not
  have.  The subscription at Stripe goes on.

Linking

* An answer 503 of the breaker, or a crash, leaves the intent `started`: the public token is
  never tried again.  A success of the breaker that throws after completion turns a completed
  intent into a failed one.
* The weekly cap refused, or an exchange that fails after Plaid made the item, leaves the item
  live at Plaid with no token here.  So does a reconnection, which replaces the old token without
  `itemRemove`.
* The number of items of a tier is checked only when a link token is made.
* A webhook is recorded before it is handled; one that throws is answered as a replay when it is
  redelivered.  `SYNC_UPDATES_AVAILABLE` without an owner throws.
* Concurrent failures of the breaker are lost: the row is read, then written.

Plans

* At the start a local plan with a newer time stamp overwrites the server's without a conflict,
  and an edit made while the start asks the server is overwritten when the server's is newer
  (`TakeServerPlan`).
* A snapshot before an import changes the server's time stamp: the next save of the same tab may
  meet a conflict with itself, which `01-architecture-decisions.md:17` does not expect.
* Two saves of a tab in flight may be answered out of order; the base is then the older save and
  the tab shows `synced` over an edit the server does not have (`overtaken`).
* The revision is inserted after the upsert: if that fails, 500 is answered and the plan is
  saved.
* The upsert has no condition, so a save that was checked before another's is written over it
  without a conflict; the other is then in `plan_revisions` only, until `Keep` later ones push it
  out.

Accounts

* Lists of accounts are taken in the order of their answers, so an older one may replace a newer.
* An account that was removed alone is back with the next refresh of its item.
* Linking a row that is linked, or reverting an override, gives up the figure the user typed.
* Where two accounts have one type, subtype and mask and no persistent id, a reconnection may
  exchange their rows, or lead two rows to one account (`mixed`).
* An edit made during a reconnection is undone by its end: it hydrates the plan it began with.

* Links may be ended by a reconnection: the list with the new ids can arrive before the mapping
  of old ids to new is applied, `revertStalePlanLinks` then ends the links, and the mapping finds
  nothing to map (`AccountIntegrationScreen.tsx:618`).

History

* A sync archives one connection, and its point replaces the day's point of all accounts
  (`models/history.js:105`).  A later archive also replaces a reconciled point; the stored choice
  still decides what is shown.
* An answer stores the value that the request carries; the dashboard sends zeros
  (`DashboardScreen.tsx:696`), and the error of the second write is not looked at
  (`historyRoutes.js:328`).
* With `HISTORY_ARCHIVE_NOOP_WINDOW_MINUTES` set, `remove-item` deletes without a point of its
  own if one of the same source is fresh, whichever connection that one was of; `disconnect`
  forces the archive.
* While a user has no point, those derived of snapshots have the source `plaid`, which the merge
  does not take for one of Plaid's (`historyService.js:119`, `models/history.js:405`): inside the
  covered window the user is asked to review them, outside it the checkpoint is shown.
* The first points per alternative hide the older history (`historyRoutes.js:167`).

Sheets

* Row ids the program makes are a prefix and a UUID (`normalize.ts:11`, `AccountsTables.tsx:112`,
  `PipelineScreen.tsx:69`) and never pass `isValidUuid` (`sync.ts:78`), so every export deletes
  and appends such rows again, contrary to "UUID-diff minimizes writes"
  (`performance-and-scalability-audit.md:45`); an error between the two leaves the tab without
  them.
* `flushSheetQueue` replaces the queue by what it could not write: writes queued meanwhile are
  lost, and older writes land over newer exports.
* `clear` is not queued: when its answer is lost the tab stays empty.
* Any error of reading `Augments`, `Checkpoints` or `TMM_META` is taken for a tab that is not
  there (`sync.ts:1076-1126`), and the import drops what it holds.
* A tab with a column of UUIDs and none for names is read by other columns where a name seems to
  be in the next one (`sync.ts:856-892,948-985`); when ids are then made, the header of now is
  written over it (`sync.ts:1232-1237`) and not the rows, which the next import reads
  differently: an exception of `ImportIsStable`.
* Ids are written back by position: after a blank row they are in other rows, and a sheet without
  the column loses its names to them.  Rows beyond the limit are neither matched nor deleted.

Plan screens

* Deleting an alternative leaves its goals, flows and checkpoints under the name
  (`AccountsScreen.tsx:119`), where the next alternative of that name finds them.
* A node is a position.  Deleting a row, in the tables or in the Pipeline Builder, moves those
  behind it up and no flow with them; the flows then lead to other rows, and what they wrote into
  the old ones is paid on.  So is what a deleted flow wrote.
* A quote that comes late puts back the rows of the moment of the click, creates an alternative
  anew that was deleted meanwhile, or overwrites a new one that was given the name; the goals,
  flows and checkpoints of that name are then another's.  TLC found this third case only with
  more edits than the runs used to allow, after the proof of `AlternativesOwnTheirData` had
  failed on it; `freed` names it now.
* `autoMonthly`, on unless switched off, takes a checkpoint of a new alternative while it is
  empty: the projection then offsets the rows added later by negative cash.
* Of a percentage the number is taken for dollars where a debt has no payment (`engine.ts:225`);
  a flow into a debt replaces the frequency of the debt's own payment; a contribution that recurs
  other than monthly pays the sum of a month each time; flows that add up to nothing, such as a
  percentage of nothing, leave the contribution of before, those that add up to less than half a
  cent a month replace it by none (`engine.ts:236`).
* The quantity of a position is taken to a millionth of a share (`ledger.ts:124`): of shares at
  10000 dollars or more the projection may start some cents from the value the tables show.
* Exporting (`exportPlanXlsx`) and migrating call `ensureEntityUuids`, which gives the rows of a
  clone new uuids in the stored plan (`normalize.ts:16`, `xlsx.ts:36`): earlier checkpoints then
  no longer recognise them.  A backup of five alternatives or more has more than `MAX_SHEETS`
  sheets and cannot be imported (`xlsx.ts:9,242`); an import reads neither augments nor
  checkpoints, and loses goals and the recurrence of flows.
* Without a worker the capped simulation is kept under the key of the uncapped one.
* The key of the simulation cache has no date (`DashboardScreen.tsx:86-95`), though "the cache
  key must encode every input" (`simulationCache.ts:9`): the drift since a checkpoint and the
  start of a debt without a date are read from the clock (`ledger.ts:1153`, `engine.ts:253`).  A
  screen left open or a result kept over midnight shows those of an earlier day, the exception of
  `ForecastIsCurrent`.

Ledger

* A day that does not exist overflows (`addMonths` of January 31 is March 3); a transfer from an
  account to itself would create money.  None of these inputs is made by the screens.
* A balance or a rate of a debt can be typed negative; the floor then adds what is missing.
* A checkpoint moves monthly flows that began earlier to its own day, and they are due on it.

## Not modelled, and why

Signature verification and encryption (cryptography); row-level security (no protocol); UI
rendering; logging and audit trails (write-only); sessions and MFA (delegated to Supabase); the
privacy export (reads only); usage counters (one increment and a comparison, whose hazard, a
unique key with a NULL column, is the database's); flow state (a pure function of a few flags,
tested case by case); the random draws of a simulation and what it makes of them; import from and
export to a workbook, sample data, the editor of augments.  In the modelled components: the
health columns and run log of a sync, of which only the failures matter to the properties, and
coverage dates; the freshness gates and quotas, which only refuse; the picker and the creation of
spreadsheets; mock accounts; migrations of old plans.
