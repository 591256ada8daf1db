--------------------------- MODULE HistoryProofs ---------------------------
(***************************************************************************)
(* Proofs about the history of the net worth, for any accounts,            *)
(* connections, alternatives, workers, days and faults.                    *)
(*                                                                         *)
(* The argument: ids are given out once, so that no account comes into     *)
(* being that an archive under way or a point has counted.  An archive     *)
(* writes its point only after the snapshots of its rows, and a removal    *)
(* deletes only after its point; what can happen in between takes accounts *)
(* and their snapshots away together.  A day whose answers did not cross   *)
(* has at most one answer under way, which is of the choice that is        *)
(* stored.                                                                 *)
(***************************************************************************)
EXTENDS History, Integers, TLAPS

Archiving == {"snapshots", "point", "delete"}

\* What a worker is at.
Job ==
  [kind : Kinds \union {"idle"},
   at : Archiving \union {"end", "plaid", "checkpoint"},
   item : Items \union {None}, rows : SUBSET Accounts, date : Int]

\* Types, as far as they are needed.
Typed ==
  /\ today \in Int
  /\ accounts \subseteq used /\ used \subseteq Accounts
  /\ points \in [Dates -> Point \union {NoPoint}]
  /\ choices \in [Dates -> {"none", "plaid", "checkpoint"}]
  /\ work \in [Workers -> Job]

\* Archives and answers are told apart by what they are at.
Staged ==
  \A w \in Workers :
    /\ work[w].at \in Archiving <=> work[w].kind \in {"sync", "remove", "archive"}
    /\ work[w].at \in {"plaid", "checkpoint"} <=> work[w].kind = "answer"
    /\ work[w].kind = "idle" => work[w] = Idle
    /\ work[w].at = "end" => work[w] = Idle

\* What is archived or was counted has had its id.
GivenOut ==
  /\ \A w \in Workers : work[w].rows \subseteq used
  /\ \A d \in Dates : points[d].counted \subseteq used

\* An archive that is about to write its point has the snapshots of its rows.
SnapshotsFirst ==
  \A w \in Workers : work[w].at = "point" =>
    \A a \in work[w].rows \intersect accounts : <<a, work[w].date>> \in snapshots

\* A removal that is about to delete has its rows in a point.
PointFirst == \A w \in Workers : work[w].at = "delete" => work[w].rows \subseteq recorded

\* An answer under way is of the stored choice, unless answers crossed.
AnswersChosen ==
  \A d \in Int : \A w \in AnswersTo(d) :
    /\ choices[d] # "none"
    /\ d \notin muddled => work[w].at = choices[d] /\ AnswersTo(d) = {w}

\* A point that is not of Plaid is one the user chose.
ChosenPoints ==
  \A d \in Dates :
    points[d] # NoPoint /\ ~IsPlaid(points[d]) => choices[d] # "none"

\* The part of AnswersHold about what is stored.
StoredAnswers ==
  \A d \in Dates :
    points[d].reconciled /\ AnswersTo(d) = {} /\ d \notin muddled =>
      (IsPlaid(points[d]) <=> choices[d] = "plaid")

TraceInv == Typed /\ Staged /\ GivenOut /\ SnapshotsFirst /\ PointFirst /\ PointsAreTraceable
IndInv == TraceInv /\ AnswersChosen /\ ChosenPoints /\ StoredAnswers

-----------------------------------------------------------------------------
\* The end of a month is a day.
LEMMA MonthEndInt == ASSUME NEW d \in Int PROVE MonthEnd(d) \in Int
  BY HistoryAssumption DEF MonthEnd

\* Days lived through are dates.
LEMMA DaysAreDates == Days \subseteq Dates
<1>. DEFINE q == (LastDay + MonthLength - 1) \div MonthLength
<1>1. q \in Int /\ LastDay \in Int
  BY HistoryAssumption
<1>2. LastDay + MonthLength - 1 < (q + 1) * MonthLength
  BY HistoryAssumption
<1>3. (q + 1) * MonthLength = q * MonthLength + MonthLength
  BY HistoryAssumption, <1>1
<1>4. LastDay <= q * MonthLength /\ q * MonthLength \in Int
  <2>. HIDE DEF q
  <2>. QED BY HistoryAssumption, <1>1, <1>2, <1>3
<1>. QED
  BY <1>1, <1>4 DEF Days, Dates, MonthEnd

-----------------------------------------------------------------------------
\* The invariant holds at the start.
LEMMA InitIndInv == Init => IndInv
<1>. SUFFICES ASSUME Init PROVE IndInv
  OBVIOUS
<1>1. Idle \in Job /\ NoPoint.counted = {} /\ NoPoint.reconciled = FALSE
  BY DEF Idle, Job, NoPoint, Kinds
<1>2. Typed
  BY <1>1 DEF Init, Typed
<1>3. \A w \in Workers : work[w] = Idle
  BY DEF Init
<1>4. \A d \in Dates : points[d] = NoPoint
  BY DEF Init
<1>5. Staged /\ SnapshotsFirst /\ PointFirst /\ AnswersChosen
  BY <1>3 DEF Staged, SnapshotsFirst, PointFirst, AnswersChosen, AnswersTo, Idle, Archiving
<1>6. GivenOut /\ PointsAreTraceable
  BY <1>1, <1>3, <1>4 DEF GivenOut, PointsAreTraceable, Idle
<1>7. ChosenPoints /\ StoredAnswers
  BY <1>1, <1>4, DaysAreDates DEF ChosenPoints, StoredAnswers
<1>. QED
  BY <1>2, <1>5, <1>6, <1>7 DEF IndInv, TraceInv

\* A job of the archive that begins, goes on or ends leaves the answers alone.
LEMMA AnswersAside ==
  ASSUME NEW w \in Workers, NEW next \in Job, work \in [Workers -> Job],
         work' = [work EXCEPT ![w] = next],
         work[w].kind # "answer", next.kind # "answer"
  PROVE  /\ \A d : AnswersTo(d)' = AnswersTo(d)
         /\ AnswersChosen /\ UNCHANGED <<choices, muddled>> => AnswersChosen'
<1>1. \A v \in Workers : work'[v] = IF v = w THEN next ELSE work[v]
  OBVIOUS
<1>2. \A d : AnswersTo(d)' = AnswersTo(d)
  BY <1>1 DEF AnswersTo
<1>3. ASSUME AnswersChosen, UNCHANGED <<choices, muddled>>
      PROVE  AnswersChosen'
  <2>1. \A d : \A v \in AnswersTo(d) : v # w /\ work'[v] = work[v]
    BY <1>1 DEF AnswersTo
  <2>. QED BY <1>2, <1>3, <2>1 DEF AnswersChosen
<1>. QED
  BY <1>2, <1>3

-----------------------------------------------------------------------------
(***************************************************************************)
(* Accounts.                                                               *)
(***************************************************************************)

\* Steps that change none of the tables nor what the workers are at.
LEMMA AsideIndInv ==
  ASSUME IndInv, UNCHANGED <<accounts, used, snapshots, points, choices, work>>,
         UNCHANGED <<recorded, muddled>>, today' \in Int
  PROVE  IndInv'
  BY DEF IndInv, TraceInv, Typed, Staged, GivenOut, SnapshotsFirst, PointFirst,
         PointsAreTraceable, AnswersChosen, ChosenPoints, StoredAnswers, AnswersTo, IsPlaid

\* Each step keeps the invariant: an account is linked
LEMMA LinkIndInv ==
  ASSUME IndInv, NEW a \in Accounts, LinkAccount(a)
  PROVE  IndInv'
<1>. USE DEF IndInv, TraceInv, LinkAccount
<1>1. Typed' /\ Staged' /\ GivenOut' /\ PointFirst'
  BY DEF Typed, Staged, GivenOut, PointFirst
<1>2. SnapshotsFirst'
  BY DEF SnapshotsFirst, GivenOut
<1>3. PointsAreTraceable'
  BY DEF PointsAreTraceable, GivenOut
<1>4. AnswersChosen' /\ ChosenPoints' /\ StoredAnswers'
  BY DEF AnswersChosen, ChosenPoints, StoredAnswers, AnswersTo, IsPlaid
<1>. QED
  BY <1>1, <1>2, <1>3, <1>4

\* accounts are dropped
LEMMA DropIndInv ==
  ASSUME IndInv, NEW i \in Items, DropAccounts(i)
  PROVE  IndInv'
<1>. USE DEF IndInv, TraceInv, DropAccounts, DeleteAccounts
<1>1. Typed' /\ Staged' /\ GivenOut' /\ PointFirst'
  BY DEF Typed, Staged, GivenOut, PointFirst
<1>2. accounts' \subseteq accounts
      /\ \A a \in accounts' : \A d : <<a, d>> \in snapshots => <<a, d>> \in snapshots'
  OBVIOUS
<1>3. SnapshotsFirst'
  BY <1>2 DEF SnapshotsFirst
<1>4. PointsAreTraceable'
  BY <1>2 DEF PointsAreTraceable
<1>5. AnswersChosen' /\ ChosenPoints' /\ StoredAnswers'
  BY DEF AnswersChosen, ChosenPoints, StoredAnswers, AnswersTo, IsPlaid
<1>. QED
  BY <1>1, <1>3, <1>4, <1>5

-----------------------------------------------------------------------------
(***************************************************************************)
(* The archive.                                                            *)
(***************************************************************************)

\* What follows an archive: a removal deletes, the others are done.
LEMMA ContinuedJob ==
  ASSUME NEW job \in Job
  PROVE  \/ job.kind # "remove" /\ Continued(job) = Idle
         \/ /\ job.kind = "remove" /\ Continued(job) \in Job
            /\ Continued(job).kind = "remove" /\ Continued(job).at = "delete"
            /\ Continued(job).rows = job.rows
<1>1. CASE job.kind # "remove"
  BY <1>1 DEF Continued
<1>2. CASE job.kind = "remove"
  BY <1>2 DEF Continued, Job, Archiving
<1>. QED
  BY <1>1, <1>2

\* An archive that begins has its rows, or is a removal with nothing to archive.
LEMMA ArchiveBegins ==
  ASSUME Typed, NEW w \in Workers, NEW kind \in {"sync", "remove", "archive"},
         NEW item \in Items \union {None}, NEW date \in Int, NEW forced \in BOOLEAN,
         Archive(w, kind, item, date, forced)
  PROVE  \E next \in Job :
           /\ work' = [work EXCEPT ![w] = next] /\ next.kind = kind
           /\ \/ next.at = "snapshots" /\ next.rows \subseteq accounts
              \/ next.at = "delete" /\ next.rows = {}
<1>. DEFINE rows == {a \in accounts : item = None \/ ItemOf[a] = item}
            job(read) == [kind |-> kind, at |-> "snapshots", item |-> item,
                          rows |-> read, date |-> date]
            none == Continued(job({}))
<1>1. rows \subseteq accounts /\ rows \subseteq Accounts
  BY DEF Typed
<1>2. kind \in Kinds \union {"idle"} /\ "snapshots" \in Archiving
  BY DEF Kinds, Archiving
<1>3. \A read \in SUBSET Accounts : job(read) \in Job
  BY <1>2 DEF Job
<1>4. /\ job(rows).kind = kind /\ job(rows).at = "snapshots" /\ job(rows).rows = rows
      /\ job({}).kind = kind /\ job({}).rows = {}
  OBVIOUS
<1>5. PICK next \in {job(rows), none} : next # Idle /\ work' = [work EXCEPT ![w] = next]
  BY Zenon DEF Archive
<1>. HIDE DEF job, rows
<1>6. CASE next = job(rows)
  BY <1>1, <1>3, <1>4, <1>5, <1>6
<1>7. CASE next = none
  <2>1. job({}) \in Job
    BY <1>3
  <2>2. none \in Job /\ none.kind = kind /\ none.at = "delete" /\ none.rows = {}
    BY <2>1, <1>4, <1>5, <1>7, ContinuedJob
  <2>. QED BY <2>2, <1>5, <1>7
<1>. QED
  BY <1>5, <1>6, <1>7

\* an archive begins
LEMMA ArchiveIndInv ==
  ASSUME IndInv, NEW w \in Workers, NEW kind \in {"sync", "remove", "archive"},
         NEW item \in Items \union {None}, NEW date \in Int, NEW forced \in BOOLEAN,
         Archive(w, kind, item, date, forced)
  PROVE  IndInv'
<1>. USE DEF IndInv, TraceInv
<1>1. PICK next \in Job :
        /\ work' = [work EXCEPT ![w] = next] /\ next.kind = kind
        /\ \/ next.at = "snapshots" /\ next.rows \subseteq accounts
           \/ next.at = "delete" /\ next.rows = {}
  BY ArchiveBegins
<1>2. work[w] = Idle
      /\ UNCHANGED <<today, accounts, used, snapshots, points, choices, recorded, muddled>>
  BY DEF Archive, tables
<1>3. work[w].kind # "answer" /\ next.kind # "answer"
  BY <1>1, <1>2 DEF Idle
<1>4. \A v \in Workers : work'[v] = IF v = w THEN next ELSE work[v]
  BY <1>1 DEF Typed
<1>5. Typed'
  BY <1>1, <1>2 DEF Typed
<1>6. Staged'
  BY <1>1, <1>4 DEF Staged, Archiving
<1>7. GivenOut' /\ PointsAreTraceable'
  BY <1>1, <1>2, <1>4 DEF GivenOut, Typed, PointsAreTraceable
<1>8. SnapshotsFirst' /\ PointFirst'
  BY <1>1, <1>2, <1>4 DEF SnapshotsFirst, PointFirst
<1>9. AnswersChosen' /\ ChosenPoints' /\ StoredAnswers'
  BY <1>1, <1>2, <1>3, AnswersAside DEF Typed, ChosenPoints, StoredAnswers, IsPlaid
<1>. QED
  BY <1>5, <1>6, <1>7, <1>8, <1>9

\* its snapshots are written
LEMMA SnapshotsIndInv ==
  ASSUME IndInv, NEW w \in Workers, WriteSnapshots(w)
  PROVE  IndInv'
<1>. USE DEF IndInv, TraceInv, WriteSnapshots
<1>. DEFINE next == [work[w] EXCEPT !.at = "point"]
<1>1. work[w] \in Job /\ work[w].kind \in {"sync", "remove", "archive"}
  BY DEF Typed, Staged, Archiving
<1>2. /\ next \in Job /\ next.kind = work[w].kind /\ next.at = "point"
      /\ next.rows = work[w].rows /\ next.date = work[w].date
  BY <1>1 DEF Job, Archiving
<1>3. work' = [work EXCEPT ![w] = next]
  OBVIOUS
<1>. HIDE DEF next
<1>4. \A v \in Workers : work'[v] = IF v = w THEN next ELSE work[v]
  BY <1>3 DEF Typed
<1>5. Typed'
  BY <1>2, <1>3 DEF Typed
<1>6. Staged'
  BY <1>1, <1>2, <1>4 DEF Staged, Archiving
<1>7. GivenOut' /\ PointsAreTraceable'
  BY <1>2, <1>4 DEF GivenOut, PointsAreTraceable
<1>8. SnapshotsFirst' /\ PointFirst'
  BY <1>2, <1>4 DEF SnapshotsFirst, PointFirst
<1>9. AnswersChosen' /\ ChosenPoints' /\ StoredAnswers'
  BY <1>1, <1>2, <1>3, AnswersAside DEF Typed, ChosenPoints, StoredAnswers, IsPlaid
<1>. QED
  BY <1>5, <1>6, <1>7, <1>8, <1>9

\* An archive that is refused or broken off leaves nothing behind.
LEMMA IdleJob == Idle \in Job /\ Idle.kind = "idle" /\ Idle.at = "end" /\ Idle.rows = {}
  BY DEF Idle, Job, Kinds, Archiving

\* it is broken off
LEMMA BrokenOffIndInv ==
  ASSUME IndInv, NEW w \in Workers, work' = [work EXCEPT ![w] = Idle],
         work[w].kind # "answer", UNCHANGED <<today, tables, recorded, muddled>>
  PROVE  IndInv'
<1>. USE DEF IndInv, TraceInv, tables
<1>1. \A v \in Workers : work'[v] = IF v = w THEN Idle ELSE work[v]
  BY DEF Typed
<1>2. Typed'
  BY IdleJob DEF Typed
<1>3. Staged'
  BY <1>1, IdleJob DEF Staged, Archiving
<1>4. GivenOut' /\ PointsAreTraceable' /\ SnapshotsFirst' /\ PointFirst'
  BY <1>1, IdleJob DEF GivenOut, PointsAreTraceable, SnapshotsFirst, PointFirst
<1>5. AnswersChosen' /\ ChosenPoints' /\ StoredAnswers'
  BY IdleJob, AnswersAside DEF Typed, ChosenPoints, StoredAnswers, IsPlaid
<1>. QED
  BY <1>2, <1>3, <1>4, <1>5

\* its point is written
LEMMA PointIndInv ==
  ASSUME IndInv, NEW w \in Workers, WritePoint(w)
  PROVE  IndInv'
<1>. USE DEF IndInv, TraceInv
<1>. DEFINE next == Continued(work[w])
            row == [source |-> PointSource(work[w].kind), reconciled |-> FALSE,
                    counted |-> work[w].rows]
            D == work[w].date
<1>1. work[w] \in Job /\ work[w].at = "point"
      /\ work[w].kind \in {"sync", "remove", "archive"}
  BY DEF Typed, Staged, Archiving, WritePoint
<1>2. /\ row \in Point /\ row.counted = work[w].rows /\ row.reconciled = FALSE
      /\ row # NoPoint /\ IsPlaid(row)
  BY <1>1 DEF Point, Sources, PointSource, Job, NoPoint, IsPlaid
<1>3. /\ work' = [work EXCEPT ![w] = next] /\ points' = [points EXCEPT ![D] = row]
      /\ recorded' = recorded \union work[w].rows
      /\ UNCHANGED <<today, accounts, used, snapshots, choices, muddled>>
  BY DEF WritePoint
<1>4. \/ next = Idle
      \/ /\ next \in Job /\ next.kind = "remove" /\ next.at = "delete"
         /\ next.rows = work[w].rows
  BY <1>1, ContinuedJob
<1>. HIDE DEF next, row
<1>5. next \in Job /\ next.kind # "answer" /\ work[w].kind # "answer"
  BY <1>1, <1>4, IdleJob
<1>6. \A v \in Workers : work'[v] = IF v = w THEN next ELSE work[v]
  BY <1>3 DEF Typed
<1>7. \A d \in Dates : points'[d] = IF d = D THEN row ELSE points[d]
  BY <1>3 DEF Typed
<1>8. Typed'
  BY <1>2, <1>3, <1>5 DEF Typed
<1>9. Staged'
  BY <1>4, <1>6, IdleJob DEF Staged, Archiving
<1>10. GivenOut'
  BY <1>2, <1>3, <1>4, <1>6, <1>7, IdleJob DEF GivenOut
<1>11. PointsAreTraceable'
  BY <1>1, <1>2, <1>3, <1>7 DEF PointsAreTraceable, SnapshotsFirst
<1>12. SnapshotsFirst' /\ PointFirst'
  BY <1>3, <1>4, <1>6, IdleJob DEF SnapshotsFirst, PointFirst
<1>13. AnswersChosen' /\ \A d : AnswersTo(d)' = AnswersTo(d)
  BY <1>3, <1>5, AnswersAside DEF Typed
<1>14. ChosenPoints'
  BY <1>2, <1>3, <1>7 DEF ChosenPoints, IsPlaid
<1>15. StoredAnswers'
  BY <1>2, <1>3, <1>7, <1>13 DEF StoredAnswers, IsPlaid
<1>. QED
  BY <1>8, <1>9, <1>10, <1>11, <1>12, <1>13, <1>14, <1>15

\* a removal deletes the rows
LEMMA DeleteIndInv ==
  ASSUME IndInv, NEW w \in Workers, DeleteRows(w)
  PROVE  IndInv'
<1>. USE DEF IndInv, TraceInv
<1>1. /\ work' = [work EXCEPT ![w] = Idle] /\ accounts' \subseteq accounts
      /\ UNCHANGED <<today, used, points, choices, recorded, muddled>>
  BY DEF DeleteRows, DeleteAccounts
<1>2. \A a \in accounts' : \A d : <<a, d>> \in snapshots => <<a, d>> \in snapshots'
  BY DEF DeleteRows, DeleteAccounts
<1>3. work[w].kind # "answer"
  BY DEF Staged, Archiving, DeleteRows
<1>4. \A v \in Workers : work'[v] = IF v = w THEN Idle ELSE work[v]
  BY <1>1 DEF Typed
<1>5. Typed'
  BY <1>1, IdleJob DEF Typed
<1>6. Staged'
  BY <1>4, IdleJob DEF Staged, Archiving
<1>7. GivenOut' /\ PointFirst'
  BY <1>1, <1>4, IdleJob DEF GivenOut, PointFirst
<1>8. SnapshotsFirst' /\ PointsAreTraceable'
  BY <1>1, <1>2, <1>4, IdleJob DEF SnapshotsFirst, PointsAreTraceable
<1>9. AnswersChosen' /\ ChosenPoints' /\ StoredAnswers'
  BY <1>1, <1>3, IdleJob, AnswersAside DEF Typed, ChosenPoints, StoredAnswers, IsPlaid
<1>. QED
  BY <1>5, <1>6, <1>7, <1>8, <1>9

-----------------------------------------------------------------------------
(***************************************************************************)
(* Answers.                                                                *)
(***************************************************************************)

\* an answer is stored
LEMMA BeginIndInv ==
  ASSUME IndInv, NEW w \in Workers, NEW d \in Days, NEW choice \in {"plaid", "checkpoint"},
         BeginAnswer(w, d, choice)
  PROVE  IndInv'
<1>. USE DEF IndInv, TraceInv
<1>. DEFINE next == [Idle EXCEPT !.kind = "answer", !.at = choice, !.date = d]
<1>1. /\ next \in Job /\ next.kind = "answer" /\ next.at = choice /\ next.date = d
      /\ next.rows = {}
  <2>1. d \in Int
    BY DEF Days
  <2>. QED BY <2>1, IdleJob DEF Job, Kinds
<1>2. /\ work' = [work EXCEPT ![w] = next] /\ work[w] = Idle
      /\ choices' = [choices EXCEPT ![d] = choice]
      /\ muddled' = IF AnswersTo(d) = {} THEN muddled \ {d} ELSE muddled \union {d}
      /\ UNCHANGED <<today, accounts, used, snapshots, points, recorded>>
  BY DEF BeginAnswer
<1>. HIDE DEF next
<1>3. \A v \in Workers : work'[v] = IF v = w THEN next ELSE work[v]
  BY <1>2 DEF Typed
<1>4. d \in Dates /\ \A e \in Dates : choices'[e] = IF e = d THEN choice ELSE choices[e]
  BY <1>2, DaysAreDates DEF Typed
<1>5. /\ \A e : e # d => AnswersTo(e)' = AnswersTo(e)
      /\ AnswersTo(d)' = AnswersTo(d) \union {w}
  BY <1>1, <1>2, <1>3, IdleJob DEF AnswersTo
<1>6. Typed'
  BY <1>1, <1>2 DEF Typed
<1>7. Staged'
  BY <1>1, <1>3 DEF Staged, Archiving
<1>8. GivenOut' /\ PointsAreTraceable' /\ SnapshotsFirst' /\ PointFirst'
  BY <1>1, <1>2, <1>3 DEF GivenOut, PointsAreTraceable, SnapshotsFirst, PointFirst
<1>9. AnswersChosen'
  <2>. SUFFICES ASSUME NEW e \in Int, NEW v \in AnswersTo(e)'
                PROVE  /\ choices'[e] # "none"
                       /\ e \notin muddled' =>
                            work'[v].at = choices'[e] /\ AnswersTo(e)' = {v}
    BY DEF AnswersChosen
  <2>1. CASE e = d /\ AnswersTo(d) = {}
    BY <2>1, <1>1, <1>2, <1>3, <1>4, <1>5
  <2>2. CASE e = d /\ AnswersTo(d) # {}
    BY <2>2, <1>2, <1>4
  <2>3. CASE e # d
    <3>1. choices'[e] = choices[e] /\ (e \in muddled' <=> e \in muddled)
      BY <2>3, <1>2 DEF Typed
    <3>2. AnswersTo(e)' = AnswersTo(e) /\ v \in Workers /\ v # w
      BY <2>3, <1>1, <1>3, <1>5 DEF AnswersTo
    <3>. QED BY <3>1, <3>2, <1>3 DEF AnswersChosen
  <2>. QED BY <2>1, <2>2, <2>3
<1>10. ChosenPoints'
  BY <1>2, <1>4 DEF ChosenPoints, IsPlaid
<1>11. StoredAnswers'
  BY <1>2, <1>4, <1>5 DEF StoredAnswers, IsPlaid
<1>. QED
  BY <1>6, <1>7, <1>8, <1>9, <1>10, <1>11

\* An answer that ends, stored or broken off, leaves the others' days alone, and
\* none behind on its own day, unless answers crossed there.
LEMMA AnswerEnds ==
  ASSUME Typed, AnswersChosen, NEW w \in Workers, work[w].kind = "answer",
         work' = [work EXCEPT ![w] = Idle], UNCHANGED choices,
         muddled' \in {muddled, muddled \union {work[w].date}}
  PROVE  /\ AnswersChosen'
         /\ \A e : e # work[w].date => AnswersTo(e)' = AnswersTo(e)
<1>1. \A v \in Workers : work'[v] = IF v = w THEN Idle ELSE work[v]
  BY DEF Typed
<1>2. \A e : AnswersTo(e)' = AnswersTo(e) \ {w}
  BY <1>1, IdleJob DEF AnswersTo
<1>3. \A e : e # work[w].date => AnswersTo(e)' = AnswersTo(e)
  BY <1>2 DEF AnswersTo
<1>4. AnswersChosen'
  <2>. SUFFICES ASSUME NEW e \in Int, NEW v \in AnswersTo(e)'
                PROVE  /\ choices'[e] # "none"
                       /\ e \notin muddled' =>
                            work'[v].at = choices'[e] /\ AnswersTo(e)' = {v}
    BY DEF AnswersChosen
  <2>1. v # w /\ v \in AnswersTo(e) /\ work'[v] = work[v]
    BY <1>1, <1>2 DEF AnswersTo
  <2>2. e # work[w].date \/ e \in muddled
    <3>1. w \in AnswersTo(work[w].date)
      BY DEF AnswersTo
    <3>. QED BY <2>1, <3>1 DEF AnswersChosen
  <2>. QED BY <2>1, <2>2, <1>3 DEF AnswersChosen
<1>. QED
  BY <1>3, <1>4

\* The part of the invariant about archives, when an answer ends.
LEMMA AnswerEndsTrace ==
  ASSUME TraceInv, NEW w \in Workers, work[w].kind = "answer",
         work' = [work EXCEPT ![w] = Idle],
         UNCHANGED <<today, accounts, used, snapshots, choices, recorded>>,
         points' \in [Dates -> Point \union {NoPoint}],
         \A d \in Dates : points'[d].counted = {} \/ points'[d] = points[d]
  PROVE  TraceInv'
<1>. USE DEF TraceInv
<1>1. \A v \in Workers : work'[v] = IF v = w THEN Idle ELSE work[v]
  BY DEF Typed
<1>2. Typed'
  BY IdleJob DEF Typed
<1>3. Staged'
  BY <1>1, IdleJob DEF Staged, Archiving
<1>4. GivenOut'
  BY <1>1, IdleJob DEF GivenOut
<1>5. PointsAreTraceable'
  BY DEF PointsAreTraceable
<1>6. SnapshotsFirst' /\ PointFirst'
  BY <1>1, IdleJob DEF SnapshotsFirst, PointFirst
<1>. QED
  BY <1>2, <1>3, <1>4, <1>5, <1>6

\* and its point is written over
LEMMA FinishIndInv ==
  ASSUME IndInv, NEW w \in Workers, FinishAnswer(w)
  PROVE  IndInv'
<1>. USE DEF IndInv
<1>. DEFINE D == work[w].date
            row == [source |-> IF work[w].at = "plaid" THEN "plaid_live"
                                                       ELSE "checkpoint_user",
                    reconciled |-> TRUE, counted |-> {}]
<1>1. /\ row \in Point /\ row.counted = {} /\ row # NoPoint
      /\ IsPlaid(row) <=> work[w].at = "plaid"
  BY DEF Point, Sources, NoPoint, IsPlaid
<1>2. /\ work' = [work EXCEPT ![w] = Idle] /\ points' = [points EXCEPT ![D] = row]
      /\ work[w].kind = "answer"
      /\ UNCHANGED <<today, accounts, used, snapshots, choices, recorded, muddled>>
  BY DEF FinishAnswer
<1>. HIDE DEF row
<1>3. \A d \in Dates : points'[d] = IF d = D THEN row ELSE points[d]
  BY <1>2 DEF TraceInv, Typed
<1>4. points' \in [Dates -> Point \union {NoPoint}]
  BY <1>1, <1>2 DEF TraceInv, Typed
<1>5. TraceInv'
  BY <1>1, <1>2, <1>3, <1>4, AnswerEndsTrace
<1>6. AnswersChosen' /\ \A e : e # D => AnswersTo(e)' = AnswersTo(e)
  BY <1>2, AnswerEnds DEF TraceInv
<1>7. choices[D] # "none" /\ (D \notin muddled => work[w].at = choices[D])
  <2>1. w \in AnswersTo(D) /\ D \in Int
    BY <1>2 DEF AnswersTo, TraceInv, Typed, Job
  <2>. QED BY <2>1 DEF AnswersChosen
<1>8. ChosenPoints'
  BY <1>2, <1>3, <1>7 DEF ChosenPoints, IsPlaid
<1>9. StoredAnswers'
  BY <1>1, <1>2, <1>3, <1>6, <1>7 DEF StoredAnswers, IsPlaid
<1>. QED
  BY <1>5, <1>6, <1>8, <1>9

\* a worker fails.
LEMMA FailIndInv ==
  ASSUME IndInv, NEW w \in Workers, Fail(w)
  PROVE  IndInv'
<1>. USE DEF IndInv
<1>1. CASE work[w].kind # "answer"
  BY <1>1, BrokenOffIndInv DEF Fail
<1>2. CASE work[w].kind = "answer"
  <2>1. /\ work' = [work EXCEPT ![w] = Idle]
        /\ muddled' = muddled \union {work[w].date}
        /\ UNCHANGED <<today, accounts, used, snapshots, points, choices, recorded>>
    BY <1>2 DEF Fail, tables
  <2>2. TraceInv'
    BY <1>2, <2>1, AnswerEndsTrace DEF TraceInv, Typed
  <2>3. AnswersChosen' /\ \A e : e # work[w].date => AnswersTo(e)' = AnswersTo(e)
    BY <1>2, <2>1, AnswerEnds DEF TraceInv
  <2>4. ChosenPoints'
    BY <2>1 DEF ChosenPoints, IsPlaid
  <2>5. StoredAnswers'
    BY <2>1, <2>3 DEF StoredAnswers, IsPlaid
  <2>. QED BY <2>2, <2>3, <2>4, <2>5
<1>. QED
  BY <1>1, <1>2

-----------------------------------------------------------------------------
(***************************************************************************)
(* The theorems.                                                           *)
(***************************************************************************)

\* Hence every step does.
LEMMA NextIndInv == IndInv /\ [Next]_vars => IndInv'
<1>. SUFFICES ASSUME IndInv, [Next]_vars PROVE IndInv'
  OBVIOUS
<1>0. today \in Int /\ MonthEnd(today) \in Int
  BY MonthEndInt DEF IndInv, TraceInv, Typed
<1>1. CASE Tick
  BY <1>0, <1>1, AsideIndInv DEF Tick, tables
<1>2. CASE PollRunning \/ PollEnded \/ PollFailed \/ AddAlternative
  BY <1>0, <1>2, AsideIndInv DEF PollRunning, PollEnded, PollFailed, AddAlternative, tables
<1>3. CASE \E a \in Accounts : LinkAccount(a)
  BY <1>3, LinkIndInv
<1>4. CASE \E i \in Items : DropAccounts(i)
  BY <1>4, DropIndInv
<1>5. ASSUME NEW w \in Workers, ArchiveSync(w)
      PROVE  IndInv'
  BY <1>0, <1>5, ArchiveIndInv DEF ArchiveSync
<1>6. ASSUME NEW w \in Workers, ArchiveRemoval(w)
      PROVE  IndInv'
  BY <1>0, <1>6, ArchiveIndInv DEF ArchiveRemoval
<1>7. ASSUME NEW w \in Workers, ArchiveSweep(w) \/ ArchiveScheduled(w)
      PROVE  IndInv'
  BY <1>0, <1>7, ArchiveIndInv DEF ArchiveSweep, ArchiveScheduled
<1>8. ASSUME NEW w \in Workers, ArchiveRequested(w)
      PROVE  IndInv'
  BY <1>0, <1>8, ArchiveIndInv DEF ArchiveRequested
<1>9. ASSUME NEW w \in Workers, WriteSnapshots(w) \/ WritePoint(w) \/ DeleteRows(w)
      PROVE  IndInv'
  BY <1>9, SnapshotsIndInv, PointIndInv, DeleteIndInv
<1>10. ASSUME NEW w \in Workers, RefusedSnapshots(w)
       PROVE  IndInv'
  <2>1. work[w].kind # "answer"
    BY <1>10 DEF RefusedSnapshots, IndInv, TraceInv, Staged, Archiving
  <2>. QED BY <1>10, <2>1, BrokenOffIndInv DEF RefusedSnapshots
<1>11. ASSUME NEW w \in Workers, NEW d \in Days, NEW c \in {"plaid", "checkpoint"},
              BeginAnswer(w, d, c)
       PROVE  IndInv'
  BY <1>11, BeginIndInv
<1>12. ASSUME NEW w \in Workers, FinishAnswer(w) \/ Fail(w)
       PROVE  IndInv'
  BY <1>12, FinishIndInv, FailIndInv
<1>13. CASE UNCHANGED vars
  BY <1>0, <1>13, AsideIndInv DEF vars, tables
<1>. QED
  BY <1>1, <1>2, <1>3, <1>4, <1>5, <1>6, <1>7, <1>8, <1>9, <1>10, <1>11, <1>12, <1>13
  DEF Next

\* It holds always.
LEMMA Inductive == Spec => []IndInv
  BY InitIndInv, NextIndInv, PTL DEF Spec

\* Every account that a point counts and that still exists has a snapshot of the
\* day, whichever archives, removals and errors crossed (createSnapshotsForAccounts
\* and the deletions of accounts).
THEOREM Traceable == Spec => []PointsAreTraceable
<1>1. IndInv => PointsAreTraceable
  BY DEF IndInv, TraceInv
<1>. QED
  BY <1>1, Inductive, PTL

\* What a removal or a disconnection has archived is counted in a point before
\* the rows are deleted (removePlaidItemForUser).
THEOREM FinalPoints == Spec => FinalPointWritten
<1>1. IndInv /\ [Next]_vars =>
        [\A w \in Workers :
           work[w].at = "delete" /\ work'[w] = Idle /\ accounts' # accounts
           => work[w].rows \subseteq recorded]_vars
  BY DEF IndInv, TraceInv, PointFirst
<1>. QED
  BY <1>1, Inductive, PTL DEF Spec, FinalPointWritten

\* A point that is read and not of Plaid is one the user chose.
LEMMA ReadPoints ==
  ASSUME ChosenPoints, Typed, NEW d \in Dates
  PROVE  /\ choices[d] \in {"none", "plaid", "checkpoint"}
         /\ PointsRead[d].source = "none" <=> PointsRead[d] = NoPoint
         /\ PointsRead[d].source = "checkpoint_user" => choices[d] # "none"
<1>1. choices[d] \in {"none", "plaid", "checkpoint"}
  BY DEF Typed
<1>2. CASE PointDays # {}
  <2>1. PointsRead = points
    BY <1>2 DEF PointsRead
  <2>2. points[d] \in Point \union {NoPoint}
    BY DEF Typed
  <2>3. points[d] # NoPoint /\ ~IsPlaid(points[d]) => choices[d] # "none"
    BY DEF ChosenPoints
  <2>4. CASE points[d] = NoPoint
    BY <1>1, <2>1, <2>4 DEF NoPoint
  <2>5. CASE points[d] \in Point
    <3>1. points[d].source \in Sources /\ points[d] # NoPoint
      BY <2>5 DEF Point, Sources, NoPoint
    <3>. QED BY <1>1, <2>1, <2>3, <3>1 DEF IsPlaid, Sources
  <2>. QED BY <2>2, <2>4, <2>5
<1>3. CASE PointDays = {}
  <2>1. PointsRead[d] = IF \E s \in snapshots : s[2] = d THEN Derived ELSE NoPoint
    BY <1>3 DEF PointsRead
  <2>. QED BY <1>1, <2>1 DEF Derived, NoPoint
<1>. QED
  BY <1>2, <1>3

\* What is shown for a date whose point and choice are as the invariant says.
LEMMA MergedAnswers ==
  ASSUME ChosenPoints, Typed, NEW d \in Dates, NEW c \in {"near", "far"},
         NEW window \in SUBSET Dates
  PROVE  LET shown == Merged(d, c, window)
         IN /\ choices[d] = "checkpoint" => shown.value = "checkpoint"
            /\ choices[d] = "plaid" => (shown.value = "point" <=> PointsRead[d] # NoPoint)
            /\ shown.review => /\ choices[d] = "none"
                              /\ PointsRead[d].source \notin {"none", "checkpoint_user"}
<1>1. PICK point : point = PointsRead[d]
  OBVIOUS
<1>2. CASE point = NoPoint
  BY <1>1, <1>2 DEF Merged, Shown
<1>3. CASE point # NoPoint /\ choices[d] = "checkpoint"
  BY <1>1, <1>3 DEF Merged, Shown
<1>4. CASE point # NoPoint /\ choices[d] = "plaid"
  BY <1>1, <1>4 DEF Merged, Shown
<1>5. CASE point # NoPoint /\ choices[d] = "none"
  BY <1>1, <1>5, ReadPoints DEF Merged, Shown
<1>. QED
  BY <1>2, <1>3, <1>4, <1>5, ReadPoints

\* The user's answer decides what is stored and shown for a day, whatever is
\* archived, answered or broken off in between (the reconciliation route and
\* mergePointsWithCheckpoints).
THEOREM Answers == Spec => []AnswersHold
<1>1. IndInv => AnswersHold
  <2>. SUFFICES ASSUME IndInv PROVE AnswersHold
    OBVIOUS
  <2>1. StoredAnswers /\ ChosenPoints /\ Typed
    BY DEF IndInv, TraceInv
  <2>2. \A d \in Days : d \in Dates
    BY DaysAreDates
  <2>. QED BY <2>1, <2>2, MergedAnswers DEF AnswersHold, StoredAnswers
<1>. QED
  BY <1>1, Inductive, PTL

-----------------------------------------------------------------------------
(***************************************************************************)
(* The history that is shown.                                              *)
(***************************************************************************)

\* A point of an alternative is of one the plan still has.
OfTheAlternatives == \A p \in altPoints : p[1] \in alts

KeptInv == IndInv /\ OfTheAlternatives

\* What a step may do to what is stored: points come and are written over, and
\* alternatives and their points come.
OnlyGrows ==
  /\ \A d \in Dates : points[d] # NoPoint => points'[d] # NoPoint
  /\ altPoints \subseteq altPoints' /\ alts \subseteq alts'
  /\ \A p \in altPoints' : p \in altPoints \/ p[1] \in alts'

\* A point written replaces the one of its day.
LEMMA RowIsAPoint ==
  ASSUME NEW w \in Workers, IndInv, WritePoint(w) \/ FinishAnswer(w)
  PROVE  \E row : row # NoPoint /\ points' = [points EXCEPT ![work[w].date] = row]
<1>1. CASE WritePoint(w)
  <2>. DEFINE row == [source |-> PointSource(work[w].kind), reconciled |-> FALSE,
                      counted |-> work[w].rows]
  <2>1. row.source # "none" /\ NoPoint.source = "none"
    BY DEF PointSource, NoPoint
  <2>2. points' = [points EXCEPT ![work[w].date] = row]
    BY <1>1 DEF WritePoint
  <2>. HIDE DEF row
  <2>. QED BY <2>1, <2>2
<1>2. CASE FinishAnswer(w)
  <2>. DEFINE row == [source |-> IF work[w].at = "plaid" THEN "plaid_live"
                                                         ELSE "checkpoint_user",
                      reconciled |-> TRUE, counted |-> {}]
  <2>1. row.reconciled = TRUE /\ NoPoint.reconciled = FALSE
    BY DEF NoPoint
  <2>2. points' = [points EXCEPT ![work[w].date] = row]
    BY <1>2 DEF FinishAnswer
  <2>. HIDE DEF row
  <2>. QED BY <2>1, <2>2
<1>. QED
  BY <1>1, <1>2

\* Points and alternatives only come to be or are replaced.
LEMMA StepsOnlyGrow == KeptInv /\ [Next]_vars => OnlyGrows
<1>. SUFFICES ASSUME KeptInv, [Next]_vars PROVE OnlyGrows
  OBVIOUS
<1>0. \A p \in altPoints : p[1] \in alts
  BY DEF KeptInv, OfTheAlternatives
<1>1. CASE UNCHANGED <<points, altPoints>> /\ alts \subseteq alts'
  BY <1>0, <1>1 DEF OnlyGrows
<1>2. ASSUME NEW w \in Workers, WritePoint(w) \/ FinishAnswer(w)
      PROVE  OnlyGrows
  <2>1. PICK row : row # NoPoint /\ points' = [points EXCEPT ![work[w].date] = row]
    BY <1>2, RowIsAPoint DEF KeptInv
  <2>2. UNCHANGED <<altPoints, alts>>
    BY <1>2 DEF WritePoint, FinishAnswer
  <2>3. \A d \in Dates : points'[d] = row \/ points'[d] = points[d]
    BY <2>1 DEF KeptInv, IndInv, TraceInv, Typed
  <2>. QED BY <1>0, <2>1, <2>2, <2>3 DEF OnlyGrows
<1>3. CASE PollEnded
  BY <1>0, <1>3 DEF PollEnded, OnlyGrows
<1>4. CASE Tick \/ PollRunning \/ PollFailed \/ AddAlternative
  <2>1. UNCHANGED <<points, altPoints>> /\ alts \subseteq alts'
    BY <1>4 DEF Tick, PollRunning, PollFailed, AddAlternative, tables
  <2>. QED BY <2>1, <1>1
<1>5. ASSUME NEW a \in Accounts, LinkAccount(a)
      PROVE  OnlyGrows
  BY <1>5, <1>1 DEF LinkAccount
<1>6. ASSUME NEW i \in Items, DropAccounts(i)
      PROVE  OnlyGrows
  BY <1>6, <1>1 DEF DropAccounts, DeleteAccounts
<1>7. ASSUME NEW w \in Workers,
             \/ ArchiveSync(w) \/ ArchiveRemoval(w) \/ ArchiveSweep(w)
             \/ ArchiveScheduled(w) \/ ArchiveRequested(w)
      PROVE  OnlyGrows
  <2>1. UNCHANGED <<points, altPoints>> /\ alts \subseteq alts'
    BY <1>7 DEF ArchiveSync, ArchiveRemoval, ArchiveSweep, ArchiveScheduled,
                ArchiveRequested, Archive, tables
  <2>. QED BY <2>1, <1>1
<1>8. ASSUME NEW w \in Workers,
             WriteSnapshots(w) \/ RefusedSnapshots(w) \/ DeleteRows(w) \/ Fail(w)
      PROVE  OnlyGrows
  BY <1>8, <1>1 DEF WriteSnapshots, RefusedSnapshots, DeleteRows, DeleteAccounts, Fail, tables
<1>9. ASSUME NEW w \in Workers, NEW d \in Days, NEW c \in {"plaid", "checkpoint"},
             BeginAnswer(w, d, c)
      PROVE  OnlyGrows
  BY <1>9, <1>1 DEF BeginAnswer
<1>10. CASE UNCHANGED vars
  BY <1>10, <1>1 DEF vars, tables
<1>. QED
  BY <1>2, <1>3, <1>4, <1>5, <1>6, <1>7, <1>8, <1>9, <1>10 DEF Next

\* The days of an alternative's series stay, except as HistoryKept says.
LEMMA SeriesGrows ==
  ASSUME OfTheAlternatives, OnlyGrows, NEW alt
  PROVE  \/ SeriesDays(alt) \subseteq SeriesDays(alt)'
         \/ altPoints = {} /\ (altPoints' # {} \/ PointDays = {})
<1>1. CASE altPoints # {}
  <2>1. /\ \E p \in altPoints : p[1] \in alts
        /\ \E p \in altPoints' : p[1] \in alts'
    BY <1>1 DEF OfTheAlternatives, OnlyGrows
  <2>2. /\ AltDays(alt) = {p[2] : p \in {q \in altPoints : q[1] = alt}}
        /\ AltDays(alt)' = {p[2] : p \in {q \in altPoints' : q[1] = alt}}
    BY <2>1 DEF AltDays
  <2>3. AltDays(alt) \subseteq AltDays(alt)'
    BY <2>2 DEF OnlyGrows
  <2>. QED BY <2>3 DEF SeriesDays
<1>2. CASE altPoints = {} /\ altPoints' = {} /\ PointDays # {}
  <2>1. PointDays \subseteq PointDays'
    BY DEF PointDays, OnlyGrows
  <2>2. ShownDays = PointDays /\ ShownDays' = PointDays'
    BY <1>2, <2>1 DEF ShownDays
  <2>3. AltDays(alt) = ShownDays /\ AltDays(alt)' = ShownDays'
    BY <1>2 DEF AltDays
  <2>. QED BY <2>1, <2>2, <2>3 DEF SeriesDays
<1>. QED
  BY <1>1, <1>2

\* A day of the history that an alternative is shown stays shown, except while
\* there are snapshots only and where the first points per alternative take over
\* (the routes of the history and fetchMergedHistoricalSeries).
THEOREM ShownStays == Spec => HistoryKept
<1>1. Init => KeptInv
  BY InitIndInv DEF Init, KeptInv, OfTheAlternatives
<1>2. KeptInv /\ [Next]_vars => KeptInv'
  <2>. SUFFICES ASSUME KeptInv, [Next]_vars PROVE KeptInv'
    OBVIOUS
  <2>1. IndInv'
    BY NextIndInv DEF KeptInv
  <2>2. OfTheAlternatives'
    BY StepsOnlyGrow DEF KeptInv, OfTheAlternatives, OnlyGrows
  <2>. QED BY <2>1, <2>2 DEF KeptInv
<1>3. KeptInv /\ [Next]_vars =>
        [\A alt \in alts :
           \/ SeriesDays(alt) \subseteq SeriesDays(alt)'
           \/ altPoints = {} /\ (altPoints' # {} \/ PointDays = {})]_vars
  BY StepsOnlyGrow, SeriesGrows DEF KeptInv
<1>. QED
  BY <1>1, <1>2, <1>3, PTL DEF Spec, HistoryKept

-----------------------------------------------------------------------------
(***************************************************************************)
(* Types.                                                                  *)
(***************************************************************************)

\* The order of quotients.
LEMMA Quotients ==
  ASSUME NEW m \in Nat \ {0}, NEW p \in Int, NEW q \in Int, p * m < (q + 1) * m
  PROVE  p * m <= q * m
<1>1. \A k \in Nat : k * m >= 0 /\ k * m \in Int
  OBVIOUS
<1>2. CASE p <= q
  <2>1. (q - p) * m >= 0
    BY <1>1, <1>2
  <2>2. (q - p) * m = q * m - p * m /\ q * m \in Int /\ p * m \in Int
    OBVIOUS
  <2>. QED BY <2>1, <2>2
<1>3. CASE p >= q + 1
  <2>1. (p - (q + 1)) * m >= 0
    BY <1>1, <1>3
  <2>2. (p - (q + 1)) * m = p * m - (q + 1) * m
        /\ (q + 1) * m \in Int /\ p * m \in Int
    OBVIOUS
  <2>. QED BY <2>1, <2>2
<1>. QED
  BY <1>2, <1>3

\* A month of a day lived through ends on a date.
LEMMA MonthEndDate == ASSUME NEW d \in Days PROVE MonthEnd(d) \in Dates
<1>. DEFINE p == (d + MonthLength - 1) \div MonthLength
            q == (LastDay + MonthLength - 1) \div MonthLength
<1>1. d \in Int /\ 1 <= d /\ d <= LastDay /\ LastDay \in Int /\ MonthLength \in Nat \ {0}
  BY HistoryAssumption DEF Days
<1>2. p \in Int /\ q \in Int
  BY <1>1
<1>3. p * MonthLength <= d + MonthLength - 1
      /\ d + MonthLength - 1 < (p + 1) * MonthLength
  BY <1>1
<1>4. LastDay + MonthLength - 1 < (q + 1) * MonthLength
  BY <1>1
<1>5. /\ p * MonthLength \in Int /\ q * MonthLength \in Int
      /\ (p + 1) * MonthLength = p * MonthLength + MonthLength
      /\ (q + 1) * MonthLength \in Int
  BY <1>1, <1>2
<1>6. MonthEnd(d) = p * MonthLength /\ MonthEnd(LastDay) = q * MonthLength
  BY DEF MonthEnd
<1>. HIDE DEF p, q
<1>7. p * MonthLength < (q + 1) * MonthLength
  BY <1>1, <1>3, <1>4, <1>5
<1>8. p * MonthLength <= q * MonthLength
  BY <1>1, <1>2, <1>7, Quotients
<1>9. 1 <= p * MonthLength
  BY <1>1, <1>3, <1>5
<1>. QED
  BY <1>5, <1>6, <1>8, <1>9 DEF Dates

\* An archive is of a date and an answer of a day.
DatedJobs ==
  \A w \in Workers :
    /\ work[w].at \in Archiving => work[w].date \in Dates
    /\ work[w].kind = "answer" => work[w].date \in Days

TypeInv == IndInv /\ TypeOK /\ DatedJobs

\* The part of TypeOK about one worker.
JobOK(job, ids) ==
  /\ job.kind \in Kinds \union {"idle"}
  /\ job.at \in {"end", "snapshots", "point", "delete", "plaid", "checkpoint"}
  /\ job.item \in Items \union {None} /\ job.rows \subseteq ids
  /\ job.date \in Dates \union {0}

\* A worker goes on: what is left to show of the types.
LEMMA TypeSteps ==
  ASSUME TypeInv, IndInv', NEW w \in Workers, NEW next,
         work' = [work EXCEPT ![w] = next],
         JobOK(next, used), next.at \in Archiving => next.date \in Dates,
         next.kind = "answer" => next.date \in Days,
         UNCHANGED <<today, used, alts>>,
         accounts' \subseteq used, snapshots' \subseteq Accounts \X Dates,
         altPoints' = altPoints,
         noticed' = noticed, jobs' \in 0 .. MaxJobs, faults' \in 0 .. MaxFaults,
         recorded' \subseteq used, muddled' \subseteq Days
  PROVE  TypeInv'
<1>. USE DEF TypeInv
<1>1. \A v \in Workers : work'[v] = IF v = w THEN next ELSE work[v]
  BY DEF IndInv, TraceInv, Typed
<1>2. DatedJobs'
  BY <1>1 DEF DatedJobs
<1>3. \A v \in Workers : JobOK(work'[v], used)
  BY <1>1 DEF TypeOK, JobOK
<1>4. points' \in [Dates -> Point \union {NoPoint}]
      /\ choices' \in [Dates -> {"none", "plaid", "checkpoint"}]
  BY DEF IndInv, TraceInv, Typed
<1>5. TypeOK'
  BY <1>3, <1>4 DEF TypeOK, JobOK
<1>. QED
  BY <1>2, <1>5

\* Steps of no worker.
LEMMA TypeAside ==
  ASSUME TypeInv, IndInv', UNCHANGED work, today' \in Days,
         accounts' \subseteq used', used \subseteq used', used' \subseteq Accounts,
         snapshots' \subseteq Accounts \X Dates, UNCHANGED <<jobs, recorded, muddled>>,
         altPoints' \subseteq Alts \X Days, alts' \subseteq Alts,
         noticed' \in BOOLEAN, faults' \in 0 .. MaxFaults
  PROVE  TypeInv'
<1>. USE DEF TypeInv
<1>1. DatedJobs'
  BY DEF DatedJobs
<1>2. points' \in [Dates -> Point \union {NoPoint}]
      /\ choices' \in [Dates -> {"none", "plaid", "checkpoint"}]
  BY DEF IndInv, TraceInv, Typed
<1>3. \A v \in Workers : work'[v].rows \subseteq used'
  BY DEF TypeOK
<1>4. TypeOK'
  BY <1>2, <1>3 DEF TypeOK
<1>. QED
  BY <1>1, <1>4

\* The counters stay within their bounds.
LEMMA CountsUp ==
  /\ jobs \in 0 .. MaxJobs /\ jobs < MaxJobs => jobs + 1 \in 0 .. MaxJobs
  /\ faults \in 0 .. MaxFaults /\ faults < MaxFaults => faults + 1 \in 0 .. MaxFaults
  BY HistoryAssumption

\* A worker at rest
LEMMA IdleOK == JobOK(Idle, used) /\ Idle.at = "end" /\ Idle.kind = "idle"
  BY DEF JobOK, Idle, Kinds

\* one that goes on to the next part of its work
LEMMA ContinuedOK ==
  ASSUME NEW w \in Workers, TypeInv, work[w].at \in Archiving
  PROVE  LET next == Continued(work[w])
         IN /\ JobOK(next, used) /\ (next.at \in Archiving => next.date \in Dates)
            /\ next.kind # "answer"
<1>1. work[w] \in Job /\ work[w].kind # "answer" /\ JobOK(work[w], used)
      /\ work[w].date \in Dates
  BY DEF TypeInv, IndInv, TraceInv, Typed, Staged, TypeOK, JobOK, DatedJobs, Archiving
<1>2. CASE work[w].kind = "remove"
  <2>1. Continued(work[w]) = [work[w] EXCEPT !.at = "delete"]
    BY <1>2 DEF Continued
  <2>. QED BY <1>1, <2>1 DEF Job, JobOK
<1>3. CASE work[w].kind # "remove"
  BY <1>3, IdleOK DEF Continued, Archiving
<1>. QED
  BY <1>2, <1>3

\* and one that begins an archive.
LEMMA ArchiveTyped ==
  ASSUME TypeInv, IndInv', NEW w \in Workers, NEW kind \in {"sync", "remove", "archive"},
         NEW item \in Items \union {None}, NEW date \in Dates, NEW forced \in BOOLEAN,
         Archive(w, kind, item, date, forced)
  PROVE  TypeInv'
<1>. DEFINE rows == {a \in accounts : item = None \/ ItemOf[a] = item}
            job(read) == [kind |-> kind, at |-> "snapshots", item |-> item,
                          rows |-> read, date |-> date]
            none == Continued(job({}))
<1>1. PICK next \in {job(rows), none} : work' = [work EXCEPT ![w] = next]
  BY Zenon DEF Archive
<1>2. rows \subseteq used /\ accounts \subseteq used /\ snapshots \subseteq Accounts \X Dates
      /\ recorded \subseteq used /\ muddled \subseteq Days
  BY DEF TypeInv, TypeOK
<1>3. /\ UNCHANGED <<today, used, alts, accounts, snapshots, altPoints, noticed, faults>>
      /\ UNCHANGED <<recorded, muddled>> /\ jobs < MaxJobs /\ jobs' = jobs + 1
  BY DEF Archive, tables
<1>4. \A read \in SUBSET used :
        JobOK(job(read), used) /\ job(read).date \in Dates /\ job(read).kind # "answer"
  BY DEF JobOK, Kinds
<1>5. none \in {[job({}) EXCEPT !.at = "delete"], Idle}
  BY DEF Continued
<1>6. JobOK(none, used) /\ none.kind # "answer" /\ (none.at \in Archiving => none.date \in Dates)
  <2>1. CASE none = Idle
    BY <2>1, IdleOK DEF Archiving
  <2>2. CASE none = [job({}) EXCEPT !.at = "delete"]
    BY <2>2 DEF JobOK, Kinds
  <2>. QED BY <1>5, <2>1, <2>2
<1>. HIDE DEF job, rows
<1>7. /\ JobOK(next, used) /\ next.kind # "answer"
      /\ next.at \in Archiving => next.date \in Dates
  BY <1>1, <1>2, <1>4, <1>6
<1>8. jobs' \in 0 .. MaxJobs /\ faults' \in 0 .. MaxFaults
  BY <1>3, CountsUp DEF TypeInv, TypeOK
<1>. QED
  BY <1>1, <1>2, <1>3, <1>7, <1>8, TypeSteps

\* Every step keeps the types.
LEMMA NextTyped == TypeInv /\ [Next]_vars => TypeInv'
<1>. SUFFICES ASSUME TypeInv, [Next]_vars PROVE TypeInv'
  OBVIOUS
<1>1. IndInv'
  BY NextIndInv DEF TypeInv
<1>2. /\ today \in Days /\ accounts \subseteq used /\ used \subseteq Accounts
      /\ snapshots \subseteq Accounts \X Dates
      /\ altPoints \subseteq Alts \X Days /\ alts \subseteq Alts /\ noticed \in BOOLEAN
      /\ jobs \in 0 .. MaxJobs /\ faults \in 0 .. MaxFaults
      /\ recorded \subseteq used /\ muddled \subseteq Days
  BY DEF TypeInv, TypeOK
<1>3. today \in Dates /\ MonthEnd(today) \in Dates
  BY <1>2, DaysAreDates, MonthEndDate
<1>4. CASE Tick
  <2>1. today + 1 \in Days
    BY <1>2, <1>4, HistoryAssumption DEF Tick, Days
  <2>. QED BY <1>1, <1>2, <1>4, <2>1, TypeAside DEF Tick, tables
<1>5. CASE PollRunning \/ PollFailed \/ AddAlternative
  BY <1>1, <1>2, <1>5, CountsUp, TypeAside
  DEF PollRunning, PollFailed, AddAlternative, tables
<1>6. CASE PollEnded
  <2>1. altPoints' \subseteq Alts \X Days
    BY <1>2, <1>6 DEF PollEnded
  <2>. QED BY <1>1, <1>2, <1>6, <2>1, TypeAside DEF PollEnded
<1>7. ASSUME NEW a \in Accounts, LinkAccount(a)
      PROVE  TypeInv'
  BY <1>1, <1>2, <1>7, TypeAside DEF LinkAccount
<1>8. ASSUME NEW i \in Items, DropAccounts(i)
      PROVE  TypeInv'
  BY <1>1, <1>2, <1>8, TypeAside DEF DropAccounts, DeleteAccounts
<1>9. ASSUME NEW w \in Workers, ArchiveSync(w) \/ ArchiveRemoval(w)
      PROVE  TypeInv'
  BY <1>1, <1>3, <1>9, ArchiveTyped DEF ArchiveSync, ArchiveRemoval
<1>10. ASSUME NEW w \in Workers,
              ArchiveSweep(w) \/ ArchiveScheduled(w) \/ ArchiveRequested(w)
       PROVE  TypeInv'
  BY <1>1, <1>3, <1>10, ArchiveTyped DEF ArchiveSweep, ArchiveScheduled, ArchiveRequested
<1>11. ASSUME NEW w \in Workers, WriteSnapshots(w)
       PROVE  TypeInv'
  <2>. DEFINE next == [work[w] EXCEPT !.at = "point"]
  <2>1. /\ work[w] \in Job /\ work[w].kind # "answer" /\ JobOK(work[w], used)
        /\ work[w].date \in Dates
    BY <1>11 DEF TypeInv, IndInv, TraceInv, Typed, Staged, TypeOK, JobOK, DatedJobs,
                 Archiving, WriteSnapshots
  <2>2. JobOK(next, used) /\ next.kind # "answer" /\ next.date \in Dates
    BY <2>1 DEF Job, JobOK
  <2>3. work' = [work EXCEPT ![w] = next] /\ snapshots' \subseteq Accounts \X Dates
    BY <1>2, <1>11, <2>1 DEF WriteSnapshots, JobOK
  <2>. HIDE DEF next
  <2>. QED BY <1>1, <1>2, <1>11, <2>2, <2>3, TypeSteps DEF WriteSnapshots
<1>12. ASSUME NEW w \in Workers, RefusedSnapshots(w)
       PROVE  TypeInv'
  BY <1>1, <1>2, <1>12, IdleOK, TypeSteps DEF RefusedSnapshots, tables, Archiving
<1>13. ASSUME NEW w \in Workers, WritePoint(w)
       PROVE  TypeInv'
  <2>1. work[w].at \in Archiving /\ work[w].rows \subseteq used
    BY <1>13 DEF WritePoint, Archiving, TypeInv, TypeOK
  <2>2. /\ JobOK(Continued(work[w]), used) /\ Continued(work[w]).kind # "answer"
        /\ Continued(work[w]).at \in Archiving => Continued(work[w]).date \in Dates
    BY <2>1, ContinuedOK
  <2>. QED BY <1>1, <1>2, <1>13, <2>1, <2>2, TypeSteps DEF WritePoint
<1>14. ASSUME NEW w \in Workers, DeleteRows(w)
       PROVE  TypeInv'
  BY <1>1, <1>2, <1>14, IdleOK, TypeSteps DEF DeleteRows, DeleteAccounts, Archiving
<1>15. ASSUME NEW w \in Workers, NEW d \in Days, NEW c \in {"plaid", "checkpoint"},
              BeginAnswer(w, d, c)
       PROVE  TypeInv'
  <2>. DEFINE next == [Idle EXCEPT !.kind = "answer", !.at = c, !.date = d]
  <2>1. d \in Dates
    BY DaysAreDates
  <2>2. /\ JobOK(next, used) /\ next.kind = "answer" /\ next.date = d /\ next.at \notin Archiving
    BY <2>1 DEF JobOK, Idle, Kinds, Archiving
  <2>3. /\ work' = [work EXCEPT ![w] = next] /\ muddled' \subseteq Days
        /\ UNCHANGED <<today, used, alts, accounts, snapshots, altPoints, noticed, faults>>
        /\ UNCHANGED recorded /\ jobs' \in 0 .. MaxJobs
    BY <1>2, <1>15, CountsUp DEF BeginAnswer
  <2>. HIDE DEF next
  <2>. QED BY <1>1, <1>2, <2>2, <2>3, TypeSteps
<1>16. ASSUME NEW w \in Workers, FinishAnswer(w)
       PROVE  TypeInv'
  BY <1>1, <1>2, <1>16, IdleOK, TypeSteps DEF FinishAnswer, Archiving
<1>17. ASSUME NEW w \in Workers, Fail(w)
       PROVE  TypeInv'
  <2>1. work[w].kind = "answer" => work[w].date \in Days
    BY DEF TypeInv, DatedJobs
  <2>2. muddled' \subseteq Days /\ faults' \in 0 .. MaxFaults
    BY <1>2, <1>17, <2>1, CountsUp DEF Fail
  <2>. QED BY <1>1, <1>2, <1>17, <2>2, IdleOK, TypeSteps DEF Fail, tables, Archiving
<1>18. CASE UNCHANGED vars
  BY <1>1, <1>2, <1>18, TypeAside DEF vars, tables
<1>. QED
  BY <1>4, <1>5, <1>6, <1>7, <1>8, <1>9, <1>10, <1>11, <1>12, <1>13, <1>14, <1>15,
     <1>16, <1>17, <1>18 DEF Next

\* The types of every variable: an archive is of a date of the calendar, also at
\* the end of the month, what it read are ids given out, and what is stored is of
\* dates (lib/historyService.js, models/history.js).
THEOREM TypeCorrect == Spec => []TypeOK
<1>1. Init => TypeInv
  <2>. SUFFICES ASSUME Init PROVE TypeInv
    OBVIOUS
  <2>1. IndInv
    BY InitIndInv
  <2>2. \A w \in Workers : work[w] = Idle
    BY DEF Init
  <2>3. DatedJobs
    BY <2>2, IdleOK DEF DatedJobs, Archiving
  <2>4. \A w \in Workers : JobOK(work[w], used)
    BY <2>2, IdleOK
  <2>5. today \in Days /\ jobs \in 0 .. MaxJobs /\ faults \in 0 .. MaxFaults
    BY HistoryAssumption DEF Init, Days
  <2>6. points \in [Dates -> Point \union {NoPoint}]
        /\ choices \in [Dates -> {"none", "plaid", "checkpoint"}]
    BY <2>1 DEF IndInv, TraceInv, Typed
  <2>7. TypeOK
    BY <2>4, <2>5, <2>6 DEF TypeOK, Init, JobOK
  <2>. QED BY <2>1, <2>3, <2>7 DEF TypeInv
<1>2. TypeInv => TypeOK
  BY DEF TypeInv
<1>. QED
  BY <1>1, <1>2, NextTyped, PTL DEF Spec
=============================================================================
