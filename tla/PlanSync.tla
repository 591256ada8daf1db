----------------------------- MODULE PlanSync -----------------------------
(***************************************************************************)
(* The tabs of one signed-in user, who edit the plan that PlanStore keeps: *)
(* PlanServerSyncGate and PlanPersistenceGate (PlanProvider.tsx) over      *)
(* planSync.ts and planPersistence.ts.                                     *)
(*                                                                         *)
(* Every tab holds the plan in memory, the tabs of a browser share one     *)
(* snapshot of it in localStorage.  A plan is its version: 0 is the empty  *)
(* plan, the k-th edit or import makes version k.  The wall clock counts   *)
(* the saves sent, each stamped with its number; a snapshot is stamped     *)
(* with the number of the last, which is what the comparison with the      *)
(* server's stamp can tell.                                                *)
(*                                                                         *)
(* An action is one event handler of a tab with the effects React runs     *)
(* after the state change.  Edit stands for every dispatch to the plan.    *)
(* The overlay that offers to restore a snapshot, and a localStorage that  *)
(* is full or unreadable, are left out.                                    *)
(***************************************************************************)
EXTENDS PlanStore

CONSTANTS
  Browsers,    \* the browsers of the user, each with one localStorage
  MaxOpens,    \* times a tab is opened (bound)
  MaxChoices,  \* choices in the banners and imports (bound)
  MaxEvents,   \* edits, choices in the banners, imports and faults (bound)
  MaxInFlight  \* saves that are not answered (bound)

ASSUME PlanSyncAssumption ==
  /\ {"start", "push", "force", "pre_import"} \subseteq Kinds
  /\ {MaxOpens, MaxChoices, MaxEvents, MaxInFlight} \subseteq Nat

VARIABLES
  home,       \* the browser each tab is in
  tab,        \* the state of each tab
  local,      \* the snapshot of each browser: its version and lastSaved
  clock,      \* the time stamp of the last save sent
  edits,      \* the versions made so far
  opens,      \* tabs opened so far
  choices,    \* choices in the banners and imports begun so far
  overtaken   \* tabs that sent a save before the last was answered (history)

Tabs == Clients

tabVars == <<home, tab, local, clock, edits, opens, choices, overtaken>>
vars == <<storeVars, tabVars>>

Closed ==
  [phase |-> "closed",     \* asking, then on; detached when the answer failed
   mem |-> 0,              \* stateRef
   memAt |-> 0,            \* its lastSaved, which only the start compares
   base |-> 0,             \* serverSavedAtRef
   conflict |-> FALSE,     \* the conflict banner
   timer |-> FALSE,        \* pushTimerRef
   shown |-> "disabled",   \* syncState
   stale |-> FALSE,        \* staleFromOtherTab
   event |-> FALSE,        \* a storage event is on its way
   importing |-> FALSE,    \* waits for snapshotPlanBeforeReplace
   fetching |-> FALSE]     \* the banner waits for fetchServerPlan

TabStates ==
  [phase : {"closed", "asking", "detached", "on"}, mem : Nat, memAt : Nat, base : Nat,
   conflict : BOOLEAN, timer : BOOLEAN, shown : {"disabled", "checking", "synced",
   "saving", "conflict", "offline"}, stale : BOOLEAN, event : BOOLEAN,
   importing : BOOLEAN, fetching : BOOLEAN]

TypeOK ==
  /\ StoreTypeOK
  /\ home \in [Tabs -> Browsers]
  /\ tab \in [Tabs -> TabStates]
  /\ local \in [Browsers -> [ver : Nat, savedAt : Nat]]
  /\ clock \in Nat
  /\ edits \in 0 .. MaxEvents /\ opens \in 0 .. MaxOpens /\ choices \in 0 .. MaxChoices
  /\ overtaken \subseteq Tabs

Init ==
  /\ StoreInit
  /\ home \in [Tabs -> Browsers]
  /\ tab = [t \in Tabs |-> Closed]
  /\ local = [b \in Browsers |-> NoRow]
  /\ clock = 0
  /\ edits = 0 /\ opens = 0 /\ choices = 0
  /\ overtaken = {}

-----------------------------------------------------------------------------
(* What follows a change of a tab's state.                                 *)

InFlight(t) == {c \in calls : c.by = t}
Open(t) == tab[t].phase # "closed"
Events == edits + choices + faults
Choose == choices < MaxChoices /\ Events < MaxEvents /\ choices' = choices + 1
NewVersion == Events < MaxEvents /\ edits' = edits + 1
FaultsInBound == edits + choices + faults' <= MaxEvents

Become(t, s) == tab' = [tab EXCEPT ![t] = s] /\ UNCHANGED <<local, clock>>

\* PlanPersistenceGate writes every state, stamped now, unless the tab is
\* stale; the browser tells its other tabs.
Persist(t, s) ==
  IF s.stale THEN Become(t, s) ELSE
  /\ local' = [local EXCEPT ![home[t]] = [ver |-> s.mem, savedAt |-> clock]]
  /\ UNCHANGED clock
  /\ tab' = [u \in Tabs |->
       IF u = t THEN s ELSE
       [tab[u] EXCEPT !.event = @ \/ (home[u] = home[t] /\ Open(u))]]

\* PlanServerSyncGate saves the edit after the debounce; without a conflict
\* banner, and once the server's plan was compared.
Scheduled(s) ==
  IF s.phase = "on" /\ ~s.conflict THEN [s EXCEPT !.timer = TRUE, !.shown = "saving"]
                                   ELSE [s EXCEPT !.timer = FALSE]

\* The plan in memory is replaced by the server's: skipNextPush.
Hydrated(s) ==
  [s EXCEPT !.phase = "on", !.mem = row.ver, !.memAt = 0, !.base = row.savedAt,
            !.conflict = FALSE, !.timer = FALSE, !.shown = "synced", !.fetching = FALSE]

\* pushPlanToServer, stamped now.
Push(t, kind, base) ==
  /\ Cardinality(calls) < MaxInFlight
  /\ Send(t, kind, tab[t].mem, base, clock + 1)
  /\ clock' = clock + 1
  /\ overtaken' = IF \E c \in InFlight(t) : c.kind # "pre_import"
                  THEN overtaken \union {t} ELSE overtaken

-----------------------------------------------------------------------------
(* A tab is opened, compares its plan with the server's, is closed.        *)

\* The snapshot of the last session is loaded and written back, stamped now;
\* the plan in memory keeps the stamp it was loaded with.
OpenTab(t) ==
  /\ ~Open(t)
  /\ opens < MaxOpens /\ opens' = opens + 1
  /\ LET saved == local[home[t]]
     IN Persist(t, [Closed EXCEPT !.phase = "asking", !.shown = "checking",
                                  !.mem = saved.ver, !.memAt = saved.savedAt])
  /\ overtaken' = overtaken \ {t}
  /\ UNCHANGED <<storeVars, home, edits, choices>>

\* GET /api/plan is answered with the row as it is: what happens between the
\* query and the callback commutes with the callback.
\* isNewer(server.client_saved_at, local.lastSaved)
TakeServerPlan(t) ==
  /\ tab[t].phase = "asking" /\ row.savedAt > tab[t].memAt
  /\ Persist(t, Hydrated(tab[t]))
  /\ UNCHANGED <<storeVars, home, edits, opens, choices, overtaken>>

PushAtStart(t) ==
  /\ tab[t].phase = "asking" /\ row.savedAt <= tab[t].memAt
  /\ Push(t, "start", row.savedAt)
  /\ tab' = [tab EXCEPT ![t] = [@ EXCEPT !.phase = "on", !.memAt = 0,
                                        !.base = row.savedAt]]
  /\ UNCHANGED <<store, faults, home, local, edits, opens, choices>>

\* The server cannot be reached: local-only for the whole session.
StayLocal(t) ==
  /\ tab[t].phase = "asking"
  /\ Fault /\ FaultsInBound
  /\ Become(t, [tab[t] EXCEPT !.phase = "detached", !.shown = "offline", !.memAt = 0])
  /\ UNCHANGED <<store, calls, home, edits, opens, choices, overtaken>>

\* Closed, reloaded or signed out: requests run on, nobody sees the answers.
CloseTab(t) ==
  /\ Open(t)
  /\ opens < MaxOpens
  /\ Become(t, Closed)
  /\ calls' = {IF c.by = t THEN [c EXCEPT !.by = NoClient] ELSE c : c \in calls}
  /\ UNCHANGED <<store, faults, home, edits, opens, choices, overtaken>>

-----------------------------------------------------------------------------
(* Edits and their saves.                                                  *)

Edit(t) ==
  /\ Open(t)
  /\ NewVersion
  /\ Persist(t, Scheduled([tab[t] EXCEPT !.mem = edits + 1]))
  /\ UNCHANGED <<storeVars, home, opens, choices, overtaken>>

FireTimer(t) ==
  /\ tab[t].timer
  /\ Push(t, "push", tab[t].base)
  /\ tab' = [tab EXCEPT ![t].timer = FALSE]
  /\ UNCHANGED <<store, faults, home, local, edits, opens, choices>>

\* The answer of a save at the start or of an edit.
SaveAnswered(t) == \E c \in InFlight(t) :
  /\ c.kind \in {"start", "push"} /\ Answered(c)
  /\ calls' = calls \ {c}
  /\ LET s == tab[t] IN Become(t, CASE
       c.at = "saved" -> [s EXCEPT !.base = c.stamp, !.shown = "synced"]
    [] c.at = "conflict" -> [s EXCEPT !.conflict = TRUE, !.timer = FALSE,
                                      !.shown = "conflict"]
    [] c.at = "failed" -> [s EXCEPT !.shown = "offline"])
  /\ UNCHANGED <<store, faults, home, edits, opens, choices, overtaken>>

-----------------------------------------------------------------------------
(* The conflict banner.                                                    *)

\* Its buttons are disabled while a choice is carried out.
Resolving(t) == tab[t].fetching \/ \E c \in InFlight(t) : c.kind = "force"

ChooseServerVersion(t) ==
  /\ tab[t].phase = "on" /\ tab[t].conflict /\ ~Resolving(t)
  /\ Choose
  /\ tab' = [tab EXCEPT ![t].fetching = TRUE]
  /\ UNCHANGED <<storeVars, home, local, clock, edits, opens, overtaken>>

\* The banner goes without an answer as well, and the effect saves.
ServerVersionArrives(t) ==
  /\ tab[t].phase = "on" /\ tab[t].fetching
  /\ \/ Persist(t, Hydrated(tab[t])) /\ row # NoRow /\ UNCHANGED faults
     \/ /\ Become(t, Scheduled([tab[t] EXCEPT !.conflict = FALSE, !.fetching = FALSE]))
        /\ Fault /\ FaultsInBound
  /\ UNCHANGED <<store, calls, home, edits, opens, choices, overtaken>>

KeepLocalVersion(t) ==
  /\ tab[t].phase = "on" /\ tab[t].conflict /\ ~Resolving(t)
  /\ Choose
  /\ Push(t, "force", 0)
  /\ UNCHANGED <<store, faults, home, tab, local, edits, opens>>

\* A save closes the banner, and the effect that depends on it saves again.
SettledForceAnswered(t) == \E c \in InFlight(t) :
  /\ c.kind = "force" /\ Answered(c)
  /\ calls' = calls \ {c}
  /\ Become(t, IF c.at = "saved"
               THEN [tab[t] EXCEPT !.base = c.stamp, !.conflict = FALSE, !.shown = "synced"]
               ELSE tab[t])
  /\ UNCHANGED <<store, faults, home, edits, opens, choices, overtaken>>

ForceAnswered(t) == \E c \in InFlight(t) :
  /\ c.kind = "force" /\ Answered(c)
  /\ calls' = calls \ {c}
  /\ Become(t, IF c.at = "saved"
               THEN Scheduled([tab[t] EXCEPT !.base = c.stamp, !.conflict = FALSE])
               ELSE tab[t])
  /\ UNCHANGED <<store, faults, home, edits, opens, choices, overtaken>>

-----------------------------------------------------------------------------
(* Imports: the plan is snapshotted as a revision, then replaced.          *)

StartImport(t) ==
  /\ Open(t) /\ ~tab[t].importing
  /\ Choose
  /\ tab' = [tab EXCEPT ![t].importing = TRUE]
  /\ IF tab[t].mem = 0 THEN UNCHANGED <<calls, clock, overtaken>>
                       ELSE Push(t, "pre_import", 0)
  /\ UNCHANGED <<store, faults, home, local, edits, opens>>

\* Whatever the answer, the import goes on.
SnapshotAnswered(t) == \E c \in InFlight(t) :
  /\ c.kind = "pre_import" /\ Answered(c)
  /\ calls' = calls \ {c}
  /\ UNCHANGED <<store, faults, tabVars>>

FinishImport(t) ==
  /\ tab[t].importing
  /\ \A c \in InFlight(t) : c.kind # "pre_import"
  /\ NewVersion
  /\ Persist(t, Scheduled([tab[t] EXCEPT !.mem = edits + 1, !.memAt = 0,
                                        !.importing = FALSE]))
  /\ UNCHANGED <<storeVars, home, opens, choices, overtaken>>

\* The file is too large or cannot be read: the plan stays, with its revision.
ImportFails(t) ==
  /\ tab[t].importing
  /\ \A c \in InFlight(t) : c.kind # "pre_import"
  /\ Become(t, [tab[t] EXCEPT !.importing = FALSE])
  /\ UNCHANGED <<storeVars, home, edits, opens, choices, overtaken>>

-----------------------------------------------------------------------------
(* Two tabs of one browser.                                                *)

StorageEvent(t) ==
  /\ tab[t].event
  /\ Become(t, [tab[t] EXCEPT !.event = FALSE, !.stale = TRUE])
  /\ UNCHANGED <<storeVars, home, edits, opens, choices, overtaken>>

UseOtherTab(t) ==
  /\ tab[t].stale
  /\ Choose
  /\ Persist(t, Scheduled([tab[t] EXCEPT !.mem = local[home[t]].ver, !.stale = FALSE,
       !.memAt = IF @ = 0 THEN 0 ELSE local[home[t]].savedAt]))
  /\ UNCHANGED <<storeVars, home, edits, opens, overtaken>>

UnsavedKeepThisTab(t) ==
  /\ tab[t].stale
  /\ Choose
  /\ Become(t, [tab[t] EXCEPT !.stale = FALSE])
  /\ UNCHANGED <<storeVars, home, edits, opens, overtaken>>

KeepThisTab(t) ==
  /\ tab[t].stale
  /\ Choose
  /\ Persist(t, [tab[t] EXCEPT !.stale = FALSE])
  /\ UNCHANGED <<storeVars, home, edits, opens, overtaken>>

-----------------------------------------------------------------------------
\* The server handles a call; one whose caller is gone is answered to nobody.
Serve(c) ==
  /\ Handle(c) \/ Fail(c)
  /\ FaultsInBound
  /\ UNCHANGED <<home, tab, local, clock, edits, opens, choices, overtaken>>

Forget(c) ==
  /\ c.by = NoClient /\ Answered(c)
  /\ calls' = calls \ {c}
  /\ UNCHANGED <<store, faults, tabVars>>

Resume(t) == \* what runs without the user
  \/ TakeServerPlan(t) \/ PushAtStart(t) \/ StayLocal(t)
  \/ FireTimer(t) \/ SaveAnswered(t)
  \/ ServerVersionArrives(t) \/ ForceAnswered(t)
  \/ SnapshotAnswered(t)
  \/ StorageEvent(t)

User(t) ==
  \/ OpenTab(t) \/ CloseTab(t) \/ Edit(t)
  \/ ChooseServerVersion(t) \/ KeepLocalVersion(t)
  \/ StartImport(t) \/ FinishImport(t) \/ ImportFails(t)
  \/ UseOtherTab(t) \/ KeepThisTab(t)

Server == \E c \in calls : Serve(c) \/ Forget(c)

Next == Server \/ \E t \in Tabs : Resume(t) \/ User(t)

Spec == Init /\ [][Next]_vars

-----------------------------------------------------------------------------
\* A tab that says the plan is synced, with nothing under way, and whose base
\* is the save the server has, holds the plan the server has: no edit, import,
\* loaded snapshot or choice in a banner is dropped silently, and no later save
\* of it overwrites what it does not hold (PlanProvider.tsx:120-189).  A tab
\* that sent a save before the last was answered is excepted: see the README.
Quiet(t) ==
  /\ ~tab[t].conflict /\ ~tab[t].timer /\ ~tab[t].fetching
  /\ \A c \in InFlight(t) : c.kind = "pre_import"

SyncedIsSaved == \A t \in Tabs \ overtaken :
  tab[t].shown = "synced" /\ Quiet(t) /\ tab[t].base = row.savedAt
    => tab[t].mem = row.ver

\* Once the browser has delivered its events, at most one open tab of it
\* writes the snapshot, and the snapshot is what that tab holds: the tabs do
\* not clobber each other's plan (PlanProvider.tsx:236-258).
TabsAgree == \A b \in Browsers :
  (\A t \in Tabs : home[t] = b => ~tab[t].event) =>
    LET writers == {t \in Tabs : home[t] = b /\ Open(t) /\ ~tab[t].stale}
    IN \A t \in writers : writers = {t} /\ local[b].ver = tab[t].mem

\* A tab that shows a save in progress has one scheduled or sent: no answer,
\* conflict or choice leaves the indicator saving with nothing that will end
\* it (PlanProvider.tsx:129-152).
SavingIsUnderWay == \A t \in Tabs : tab[t].shown = "saving" =>
  tab[t].timer \/ \E c \in InFlight(t) : c.kind \in {"start", "push"}

\* What a tab says of its saves is so.
IndicatorIsTrue == SyncedIsSaved /\ SavingIsUnderWay
=============================================================================
