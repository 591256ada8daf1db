------------------------------- MODULE Sheets -------------------------------
(***************************************************************************)
(* The backup of a plan in a Google spreadsheet (frontend/src/lib/sheets): *)
(* exports, imports, the queue of failed writes in the browser's storage   *)
(* and its flush.                                                          *)
(*                                                                         *)
(* Two tabs stand for all: Augments for the tabs that are cleared and      *)
(* written (types fixed and full-replace), Income for those whose rows are *)
(* matched by UUID.  A row is its first cell and what the others hold;     *)
(* what those mean depends on the header above them.  A request may fail   *)
(* at Google, or fail here and still be applied later.                     *)
(* The backend's own retries are left out: they repeat what Google says it *)
(* has not processed.                                                      *)
(***************************************************************************)
EXTENDS SequencesExt

CONSTANTS
  Screens,   \* the places with export and import buttons: side bar, settings
  Uuids,     \* row ids that are UUIDs
  OwnIds,    \* row ids of the program's own making, a prefix and a UUID
  NoId,      \* an empty cell in the column of UUIDs
  Name,      \* a name in the column of UUIDs
  Values,    \* what a row or the tab Augments may hold
  None,      \* nothing
  Moved,     \* what cells mean that are under the wrong headers
  Layout,    \* what the cells of a row mean under a header
  Plans,     \* what the user may make of the plan
  Tables,    \* what the user may make of the spreadsheet
  MaxRows,   \* the rows of a tab that are read, MAX_DATA_ROW without the header
  MaxRuns,   \* exports and imports (bound)
  MaxMishaps, \* faults, edits, flushes, closings and disconnections (bound)
  MaxQueue   \* writes queued (bound)

Cells == Values \union {None, Moved}

Rows == [id : Uuids \union OwnIds \union {NoId, Name}, v : Cells]

Blank == [id |-> NoId, v |-> None]

\* A tab without a header; with one that has no column of UUIDs; with one that
\* has it first but no names; with one that has both and lacks later columns or
\* has others elsewhere; with that of now.
Headers == {"none", "legacy", "nameless", "older", "current"}

\* The rows of a plan have ids of their own (ensureEntityUuids).
IsPlan(p) ==
  /\ \A i \in DOMAIN p.rows : p.rows[i].id # NoId
  /\ \A i, j \in DOMAIN p.rows : p.rows[i].id = p.rows[j].id => i = j

ASSUME SheetsAssumption ==
  /\ Uuids \intersect OwnIds = {}
  /\ {NoId, Name} \intersect (Uuids \union OwnIds) = {}
  /\ {None, Moved} \intersect Values = {}
  /\ {MaxRows, MaxRuns, MaxMishaps, MaxQueue} \subseteq Nat
  /\ Plans \subseteq [augments : Values, rows : Seq(Rows)]
  /\ Tables \subseteq [augments : Values \union {None}, header : Headers, rows : Seq(Rows)]
  /\ \A p \in Plans : IsPlan(p)
  /\ Layout \in [Headers -> [Cells -> Cells]]
  \* What was read is written in the columns of now.
  /\ \A h \in Headers, v \in Cells : Layout["current"][Layout[h][v]] = Layout[h][v]
  /\ \A t \in Tables : t.rows = <<>> \/ t.rows[Len(t.rows)] # Blank

VARIABLES
  plan,    \* the plan: what goes to Augments, and the income rows
  sheet,   \* the spreadsheet: Augments, Income's header and rows
  queue,   \* the writes in the browser's storage
  late,    \* writes given up here that Google may still apply
  run,     \* what each screen is doing
  flush,   \* the flush under way
  backup,  \* the plan of the last export, if nothing else touched the sheet
  source,  \* the plan of the last import, likewise
  budget   \* how much of each bound is left

sheetsVars == <<plan, sheet, queue, late, run, flush, backup, source, budget>>

-----------------------------------------------------------------------------
(* The spreadsheet. *)

\* Google does not return the empty rows at the end of a range.
Trim(rows) ==
  LET filled == {i \in DOMAIN rows : rows[i] # Blank}
  IN  SubSeq(rows, 1, Max({0} \union filled))

\* rows with those of new, a function on positions, written over them.
Over(rows, new) ==
  [i \in 1 .. Max({0, Len(rows)} \union DOMAIN new) |->
     IF i \in DOMAIN new THEN new[i] ELSE IF i \in DOMAIN rows THEN rows[i] ELSE Blank]

\* The header of now over whatever there is: the rows stay as they are.
Headed(s) == [s EXCEPT !.header = "current"]

\* A column of ids over the first cells; without a header for it, over names.
UuidsWritten(s, ids) ==
  [s EXCEPT !.rows =
     Over(@, [i \in DOMAIN ids |->
                [id |-> ids[i],
                 v |-> IF i \notin DOMAIN s.rows THEN None
                       ELSE IF s.header = "legacy" THEN Moved ELSE s.rows[i].v]])]

\* Wrong: deleting from the top moves up what is below.
DeletedDown(rows, S) ==
  LET left[n \in 0 .. Len(rows)] ==
        IF n = 0 THEN rows
        ELSE IF n \in S \intersect DOMAIN left[n - 1] THEN RemoveAt(left[n - 1], n)
        ELSE left[n - 1]
  IN  left[Len(rows)]

\* Rows are deleted from the bottom up; left[n]: below n rows it is done.
Deleted(rows, S) ==
  LET left[n \in 0 .. Len(rows)] ==
        IF n = 0 THEN rows
        ELSE IF Len(rows) - n + 1 \in S THEN RemoveAt(left[n - 1], Len(rows) - n + 1)
        ELSE left[n - 1]
  IN  left[Len(rows)]

Written(s, w) ==
  LET t == CASE w.what = "clear"    -> [s EXCEPT !.augments = None]
             [] w.what = "augments" -> [s EXCEPT !.augments = w.data]
             [] w.what = "all"      -> [Headed(s) EXCEPT !.rows = Over(@, w.data)]
             [] w.what = "header"   -> Headed(s)
             [] w.what = "ids"      -> UuidsWritten(s, w.data)
             [] w.what = "update"   -> [s EXCEPT !.rows = Over(@, w.data)]
             [] w.what = "delete"   -> [s EXCEPT !.rows = Deleted(@, w.data)]
             [] w.what = "append"   -> [s EXCEPT !.rows = @ \o w.data]
  IN  [t EXCEPT !.rows = Trim(@)]

HasUuids(s) == s.header \in {"current", "older", "nameless"}

\* The rows but those at S.
Without(rows, S) ==
  LET kept[n \in 0 .. Len(rows)] ==
        IF n = 0 THEN <<>>
        ELSE IF n \in S THEN kept[n - 1] ELSE Append(kept[n - 1], rows[n])
  IN  kept[Len(rows)]

\* What the row r of a sheet is read as: ids need their column.
ReadAs(s, r) ==
  [id |-> IF HasUuids(s) THEN r.id ELSE NoId, v |-> Layout[s.header][r.v]]

\* What an import reads: blank rows are skipped.
Parsed(s) ==
  Without([i \in DOMAIN s.rows |-> ReadAs(s, s.rows[i])],
          {i \in DOMAIN s.rows : s.rows[i] = Blank})

-----------------------------------------------------------------------------
(* The difference between the tab and the plan. *)

ReadRows == SubSeq(sheet.rows, 1, Min({MaxRows, Len(sheet.rows)}))

IdsOf(rows) == {rows[i].id : i \in DOMAIN rows}

RowOf(rows, id) == rows[CHOOSE i \in DOMAIN rows : rows[i].id = id]

First(rows, i) == \A j \in 1 .. i - 1 : rows[j].id # rows[i].id

\* Rows with the UUID of a row of the plan; of two of them the first.
Matched(read, rows) ==
  {i \in DOMAIN read : read[i].id \in Uuids \intersect IdsOf(rows) /\ First(read, i)}

Changed(read, rows) == {i \in Matched(read, rows) : read[i] # RowOf(rows, read[i].id)}

\* A request, if there is something in it.
Unless(empty, w) == IF empty THEN <<>> ELSE <<w>>

\* The requests of applyEntitySheetSync: none for an empty part.
DiffWrites(read, rows) ==
  LET kept    == Matched(read, rows)
      seen    == {read[i].id : i \in kept}
      changes == [i \in Changed(read, rows) |-> RowOf(rows, read[i].id)]
      new     == Without(rows, {i \in DOMAIN rows : rows[i].id \in seen})
  IN  Unless(DOMAIN changes = {}, [what |-> "update", data |-> changes])
      \o Unless(DOMAIN read = kept, [what |-> "delete", data |-> DOMAIN read \ kept])
      \o Unless(new = <<>>, [what |-> "append", data |-> new])

-----------------------------------------------------------------------------
(* Exports and imports. *)

Resting == [kind |-> "none", reads |-> <<>>, todo |-> <<>>, snap |-> None, alone |-> FALSE]

NoFlush == [on |-> FALSE, items |-> <<>>, left |-> <<>>]

Active == {s \in Screens : run[s].kind # "none"}

Spend(what) == budget[what] > 0 /\ budget' = [budget EXCEPT ![what] = @ - 1]

\* Whatever else is under way is no longer alone.
Disturbed(r) ==
  [s \in Screens |-> IF r[s] = Resting THEN Resting ELSE [r[s] EXCEPT !.alone = FALSE]]

Start(s, job) ==
  /\ run[s] = Resting
  /\ Spend("runs")
  /\ run' = [Disturbed(run) EXCEPT ![s] =
               [job EXCEPT !.alone = Active = {} /\ queue = <<>> /\ late = {}
                                     /\ ~flush.on]]
  /\ backup' = None /\ source' = None
  /\ UNCHANGED <<plan, sheet, queue, late, flush>>

\* planToSheets, of the tabs that are cleared and written.
FullReplace(p) ==
  <<[what |-> "clear", data |-> None], [what |-> "augments", data |-> p.augments]>>

Export(s) ==
  Start(s, [Resting EXCEPT !.kind = "export", !.snap = plan, !.reads = <<"income">>,
                        !.todo = FullReplace(plan)])

Import(s) ==
  Start(s, [Resting EXCEPT !.kind = "import", !.reads = <<"augments", "income">>,
                        !.snap = [augments |-> None, rows |-> <<>>]])

\* An answer of Google: the write is applied.
WriteLands(s) ==
  /\ run[s].todo # <<>>
  /\ sheet' = Written(sheet, Head(run[s].todo))
  /\ run' = [run EXCEPT ![s].todo = Tail(@)]
  /\ UNCHANGED <<plan, queue, late, flush, backup, source, budget>>

\* writeWithQueue takes errors and timeouts; the other requests throw.
Queueable(w) == w.what \in {"augments", "all", "header", "ids"}

\* The queue is a value of the browser's storage, read and written whole.
Enqueue(w) == Len(queue) < MaxQueue /\ queue' = Append(queue, w)

FailsQueued(s) ==
  /\ Enqueue(Head(run[s].todo))
  /\ run' = [run EXCEPT ![s].todo = Tail(@)]

WriteFails(s) ==
  /\ run[s].todo # <<>>
  /\ Spend("events")
  /\ late' \in {late, late \union {Head(run[s].todo)}}
  /\ IF Queueable(Head(run[s].todo))
       THEN FailsQueued(s)
       ELSE run' = [run EXCEPT ![s] = Resting] /\ UNCHANGED queue
  /\ UNCHANGED <<plan, sheet, flush, backup, source>>

\* A timed-out request is applied after all.
LateLands ==
  \E w \in late :
    /\ sheet' = Written(sheet, w)
    /\ late' = late \ {w}
    /\ UNCHANGED <<plan, queue, run, flush, backup, source, budget>>

Reads(s, tab) == run[s].todo = <<>> /\ run[s].reads # <<>> /\ Head(run[s].reads) = tab

\* The rows of the tab are read and what has to be written is computed.  A
\* tab with rows and no column of UUIDs is an error; one with an older
\* header is written over, which leaves the rows below.
ExportReads(s) ==
  /\ Reads(s, "income") /\ run[s].kind = "export"
  /\ LET rows == run[s].snap.rows
         all  == <<[what |-> "all", data |-> rows]>>
         To(todo, fits) ==
           run' = [run EXCEPT ![s].reads = <<>>, ![s].todo = todo, ![s].alone = @ /\ fits]
     IN  \/ sheet.header = "none" /\ sheet.rows = <<>> /\ To(all, TRUE)
         \/ /\ ~HasUuids(sheet) /\ (sheet.header = "legacy" \/ sheet.rows # <<>>)
            /\ run' = [run EXCEPT ![s] = Resting]
         \/ sheet.header \in {"older", "nameless"} /\ To(all, Len(sheet.rows) <= Len(rows))
         \/ /\ sheet.header = "current"
            /\ To(DiffWrites(ReadRows, rows), Len(sheet.rows) <= MaxRows)
  /\ UNCHANGED <<plan, sheet, queue, late, flush, backup, source, budget>>

ImportReadsAugments(s) ==
  /\ Reads(s, "augments")
  /\ run' = [run EXCEPT ![s].reads = Tail(@), ![s].snap.augments = sheet.augments]
  /\ UNCHANGED <<plan, sheet, queue, late, flush, backup, source, budget>>

\* An error of reading Augments, Checkpoints or TMM_META is taken for a tab
\* that is not there: the import goes on without.
ImportSkipsAugments(s) ==
  /\ Reads(s, "augments")
  /\ Spend("events")
  /\ run' = [run EXCEPT ![s].reads = Tail(@), ![s].alone = FALSE]
  /\ UNCHANGED <<plan, sheet, queue, late, flush, backup, source>>

\* ensureEntityUuids: rows without an id of their own get a new one.
Missing(rows) == {i \in DOMAIN rows : rows[i].id = NoId \/ ~First(rows, i)}

FreshIds == OwnIds \ (IdsOf(plan.rows) \union IdsOf(sheet.rows))

\* Wrong: the ids one row too low.
UuidWritesLow(read, rows) ==
  IF Missing(read) = {} THEN <<>>
  ELSE <<[what |-> "header", data |-> None],
         [what |-> "ids", data |-> [i \in 2 .. Len(rows) + 1 |-> rows[i - 1].id]]>>

\* writeUuidColumnsToSheets, when an id was missing: the ids by position.
UuidWrites(read, rows) ==
  IF Missing(read) = {} THEN <<>>
  ELSE <<[what |-> "header", data |-> None],
         [what |-> "ids", data |-> [i \in DOMAIN rows |-> rows[i].id]]>>

\* Positions are those of the rows read: blank rows between them, a sheet
\* without the column, or cells that mean something else under the header of
\* now make the sheet differ from what was read.
ImportReadsIncome(s) ==
  /\ Reads(s, "income") /\ run[s].kind = "import"
  /\ \E fresh \in [Missing(Parsed(sheet)) -> FreshIds] :
       LET read == Parsed(sheet)
           rows == [i \in DOMAIN read |->
                      IF i \in DOMAIN fresh THEN [read[i] EXCEPT !.id = fresh[i]]
                                            ELSE read[i]]
           fits == Missing(read) = {}
                   \/ /\ HasUuids(sheet) /\ Blank \notin Range(sheet.rows)
                      /\ \A i \in DOMAIN read : Layout["current"][sheet.rows[i].v] = read[i].v
       IN  /\ \A i, j \in DOMAIN fresh : i # j => fresh[i] # fresh[j]
           /\ run' = [run EXCEPT ![s].reads = <<>>, ![s].snap.rows = rows,
                                 ![s].todo = UuidWrites(read, rows), ![s].alone = @ /\ fits]
  /\ UNCHANGED <<plan, sheet, queue, late, flush, backup, source, budget>>

\* A read fails: the export or import ends with an error.
ReadFails(s) ==
  /\ run[s].todo = <<>> /\ run[s].reads # <<>>
  /\ Spend("events")
  /\ run' = [run EXCEPT ![s] = Resting]
  /\ UNCHANGED <<plan, sheet, queue, late, flush, backup, source>>

\* The export reports; the import replaces the plan.
Finish(s) ==
  /\ run[s].kind # "none" /\ run[s].todo = <<>> /\ run[s].reads = <<>>
  /\ LET r == run[s]
         known == IF r.alone THEN r.snap ELSE None
     IN  IF r.kind = "export"
           THEN backup' = known /\ UNCHANGED <<plan, source>>
           ELSE plan' = r.snap /\ source' = known /\ UNCHANGED backup
  /\ run' = [run EXCEPT ![s] = Resting]
  /\ UNCHANGED <<sheet, queue, late, flush, budget>>

-----------------------------------------------------------------------------
(* The queue. *)

\* At the start, when the browser is online again, or by the button.  The
\* flush works on the queue it reads now.
Flush ==
  /\ ~flush.on /\ queue # <<>>
  /\ Spend("events")
  /\ flush' = [on |-> TRUE, items |-> queue, left |-> <<>>]
  /\ run' = Disturbed(run)
  /\ UNCHANGED <<plan, sheet, queue, late, backup, source>>

FlushWrites ==
  /\ flush.items # <<>>
  /\ LET w == Head(flush.items)
     IN  \/ /\ sheet' = Written(sheet, w)
            /\ flush' = [flush EXCEPT !.items = Tail(@)]
            /\ UNCHANGED <<late, budget>>
         \/ /\ Spend("events")
            /\ flush' = [flush EXCEPT !.items = Tail(@), !.left = Append(@, w)]
            /\ late' \in {late, late \union {w}}
            /\ UNCHANGED sheet
  /\ UNCHANGED <<plan, queue, run, backup, source>>

\* What could not be written replaces the queue of now.
FlushEnds ==
  /\ flush.on /\ flush.items = <<>>
  /\ queue' = flush.left /\ flush' = NoFlush
  /\ UNCHANGED <<plan, sheet, late, run, backup, source, budget>>

-----------------------------------------------------------------------------
(* The user. *)

EditPlan ==
  /\ Spend("events")
  /\ plan' \in Plans \ {plan}
  /\ UNCHANGED <<sheet, queue, late, run, flush, backup, source>>

EditSheet ==
  /\ Spend("events")
  /\ sheet' \in Tables \ {sheet}
  /\ run' = Disturbed(run) /\ backup' = None /\ source' = None
  /\ UNCHANGED <<plan, queue, late, flush>>

\* The page is closed: the queue stays in the browser's storage.
Close ==
  /\ Active # {} \/ flush.on
  /\ Spend("events")
  /\ run' = [s \in Screens |-> Resting] /\ flush' = NoFlush
  /\ UNCHANGED <<plan, sheet, queue, late, backup, source>>

\* Unlinking the spreadsheet drops what was queued for it.
Unlink ==
  /\ queue # <<>>
  /\ Spend("events")
  /\ queue' = <<>> /\ run' = Disturbed(run) /\ backup' = None /\ source' = None
  /\ UNCHANGED <<plan, sheet, late, flush>>

SheetsInit ==
  /\ plan \in Plans /\ sheet \in Tables
  /\ queue = <<>> /\ late = {}
  /\ run = [s \in Screens |-> Resting] /\ flush = NoFlush
  /\ backup = None /\ source = None
  /\ budget = [runs |-> MaxRuns, events |-> MaxMishaps]

SheetsNext ==
  \/ \E s \in Screens :
       \/ Export(s) \/ Import(s) \/ WriteLands(s) \/ WriteFails(s)
       \/ ExportReads(s) \/ ImportReadsAugments(s) \/ ImportSkipsAugments(s)
       \/ ImportReadsIncome(s) \/ ReadFails(s) \/ Finish(s)
  \/ LateLands \/ Flush \/ FlushWrites \/ FlushEnds
  \/ EditPlan \/ EditSheet \/ Close \/ Unlink

SheetsSpec == SheetsInit /\ [][SheetsNext]_sheetsVars

-----------------------------------------------------------------------------
(* Properties. *)

\* The spreadsheet once the queue has been written.
Owed ==
  LET after[n \in 0 .. Len(queue)] ==
        IF n = 0 THEN sheet ELSE Written(after[n - 1], queue[n])
  IN  after[Len(queue)]

\* BackupIsOwed: after an export that reported success or queued writes, and
\* that nothing else crossed, the spreadsheet and the queue together hold the
\* exported plan, each row once, whatever the spreadsheet held before: through
\* flushes, their failures, writes applied late and pages closed.  Excepted
\* are tabs longer than what is read and older tabs longer than the plan.
BackupIsOwed ==
  backup # None =>
    /\ Owed.augments = backup.augments
    /\ Owed.header = "current"
    /\ Len(Owed.rows) = Len(backup.rows)
    /\ Range(Owed.rows) = Range(backup.rows)

\* ImportIsStable: importing again, once the queue has been written, would
\* give the plan of the last import, with the ids it made: otherwise the next
\* export would replace every row.  Excepted are imports that took an error for
\* a missing tab, and, of those that made ids, which are written with the header
\* of now: tabs with blank rows, tabs without a column of UUIDs, whose ids are
\* written over other cells, and tabs with one and other columns than now, such
\* as none for names, whose cells come under headers they were not read by.
ImportIsStable ==
  source # None => Owed.augments = source.augments /\ Parsed(Owed) = source.rows
=============================================================================
