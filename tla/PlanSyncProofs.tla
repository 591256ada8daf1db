--------------------------- MODULE PlanSyncProofs ---------------------------
(***************************************************************************)
(* For any tabs and browsers, and any number of edits, saves and faults:   *)
(* what the store answers as saved has its revision, the tabs are clients  *)
(* such as the store expects, what a tab says of its saves is so, and the  *)
(* tabs of a browser do not clobber each other's snapshot.                 *)
(*                                                                         *)
(* The first is proved of the store by itself (StoreSpec) and carries over *)
(* to the tabs because every step of theirs is a step of it or leaves it   *)
(* alone.  The arguments for the others are with their invariants.         *)
(***************************************************************************)
EXTENDS PlanSync, Sheets, WellFoundedInduction, FiniteSetTheorems, TLAPS

-----------------------------------------------------------------------------
(* The store by itself. *)

Places == {"sent", "checked", "pruning", "saved", "conflict", "failed"}

\* A call moves on and is otherwise what it was.
LEMMA AdvancedCalls ==
  ASSUME calls \subseteq Calls, NEW c \in calls, NEW where \in Places
  PROVE  /\ Advance(c, where) \subseteq Calls
         /\ \A e \in Advance(c, where) : (e \in calls /\ e # c) \/ e = [c EXCEPT !.at = where]
         /\ [c EXCEPT !.at = where].at = where
         /\ Saved([c EXCEPT !.at = where]) = Saved(c)
BY DEF Advance, Calls, Places, Saved

\* The types of the store.
LEMMA StoreTyped == StoreTypeOK /\ [ServerStep \/ ClientStep]_storeVars => StoreTypeOK'
<1> SUFFICES ASSUME StoreTypeOK, [ServerStep \/ ClientStep]_storeVars PROVE StoreTypeOK'
  OBVIOUS
<1>1. CASE UNCHANGED storeVars
  BY <1>1 DEF StoreTypeOK, storeVars, store
<1>2. CASE ServerStep
  <2> PICK c \in calls : Handle(c) \/ Fail(c)
    BY <1>2 DEF ServerStep
  <2>1. c \in Calls /\ calls \subseteq Calls /\ c.ver \in Nat /\ c.stamp \in Nat \ {0}
    BY DEF StoreTypeOK, Calls
  <2>2. faults' \in 0 .. MaxFaults
    <3>1. faults' = faults \/ (faults < MaxFaults /\ faults' = faults + 1)
      <4>1. CASE CheckConflict(c) \/ Fail(c)
        BY <4>1 DEF CheckConflict, Fail, Fault
      <4>2. CASE Upsert(c)
        <5>1. UNCHANGED faults \/ Fault
          BY <4>2, Zenon DEF Upsert, FileRevision
        <5> QED BY <5>1 DEF Fault
      <4>3. CASE Prune(c)
        <5>1. UNCHANGED faults \/ Fault
          BY <4>3, Zenon DEF Prune
        <5> QED BY <5>1 DEF Fault
      <4> QED BY <4>1, <4>2, <4>3 DEF Handle
    <3> QED BY <3>1, PlanStoreAssumption DEF StoreTypeOK
  <2>3. PICK where \in Places : calls' = Advance(c, where)
    BY Zenon DEF Handle, CheckConflict, Upsert, FileRevision, Prune, Fail, Places
  <2>4. calls' \subseteq Calls
    BY <2>1, <2>3, AdvancedCalls
  <2>5. /\ row' = NoRow \/ row' \in [ver : Nat, savedAt : Nat \ {0}]
        /\ filed' \in Seq([ver : Nat, savedAt : Nat \ {0}])
        /\ revisions' \subseteq DOMAIN filed'
        /\ stale' \subseteq (Nat \ {0}) \X DOMAIN filed'
    <3>1. CASE UNCHANGED store
      BY <3>1 DEF StoreTypeOK, store
    <3>2. CASE Upsert(c)
      <4>1. Saved(c) \in [ver : Nat, savedAt : Nat \ {0}]
        BY <2>1 DEF Saved, Calls
      <4>2. UNCHANGED <<filed, revisions, stale>> \/ FileRevision(c)
        BY <3>2 DEF Upsert
      <4>3. CASE FileRevision(c)
        <5>1. /\ filed' \in Seq([ver : Nat, savedAt : Nat \ {0}])
              /\ DOMAIN filed' = 1 .. (Len(filed) + 1) /\ DOMAIN filed = 1 .. Len(filed)
              /\ Len(filed) \in Nat
          BY <4>1, <4>3 DEF FileRevision, StoreTypeOK
        <5>2. revisions' \subseteq DOMAIN filed'
          BY <4>3, <5>1 DEF FileRevision, StoreTypeOK
        <5>3. stale' \subseteq (Nat \ {0}) \X DOMAIN filed'
          <6>1. stale' \subseteq stale \union ({c.stamp} \X Old(revisions'))
            BY <4>3 DEF FileRevision
          <6>2. Old(revisions') \subseteq DOMAIN filed' /\ DOMAIN filed \subseteq DOMAIN filed'
            BY <5>1, <5>2 DEF Old
          <6> QED BY <2>1, <6>1, <6>2 DEF StoreTypeOK
        <5> QED BY <3>2, <4>1, <5>1, <5>2, <5>3 DEF Upsert
      <4> QED BY <3>2, <4>1, <4>2, <4>3 DEF Upsert, StoreTypeOK
    <3>3. CASE Prune(c)
      BY <3>3 DEF Prune, StoreTypeOK
    <3> QED BY <3>1, <3>2, <3>3 DEF Handle, CheckConflict, Fail
  <2> QED BY <2>2, <2>4, <2>5 DEF StoreTypeOK
<1>3. CASE ClientStep
  <2>1. UNCHANGED store
    BY <1>3 DEF ClientStep
  <2>2. faults' \in 0 .. MaxFaults
    BY <1>3, PlanStoreAssumption DEF ClientStep, Fault, StoreTypeOK
  <2>3. calls' \subseteq Calls
    <3>1. ASSUME NEW by \in Clients, NEW kind \in Kinds, NEW ver \in Nat, NEW base \in Nat,
                 NEW stamp \in Nat \ {0}, Send(by, kind, ver, base, stamp)
          PROVE  calls' \subseteq Calls
      BY <3>1 DEF Send, StoreTypeOK, Calls
    <3>2. ASSUME NEW t \in Clients,
                 calls' = {IF c.by = t THEN [c EXCEPT !.by = NoClient] ELSE c : c \in calls}
          PROVE  calls' \subseteq Calls
      BY <3>2 DEF StoreTypeOK, Calls
    <3> QED BY <1>3, <3>1, <3>2 DEF ClientStep, StoreTypeOK
  <2> QED BY <2>1, <2>2, <2>3 DEF StoreTypeOK, store
<1> QED BY <1>1, <1>2, <1>3

\* The order of the natural numbers, as the library writes it.
LEMMA Less == \A m, n \in Nat : m < n => <<m, n>> \in OpToRel(<, Nat)
  BY Zenon DEF OpToRel

\* A set of numbers has a least one.
LEMMA Least ==
  ASSUME NEW T, T \subseteq Nat, T # {}
  PROVE  \E n \in T : \A m \in T : n <= m
<1>1. PICK n \in T : \A m \in T : ~(<<m, n>> \in OpToRel(<, Nat))
  BY NatLessThanWellFounded, WFMin, Zenon
<1>2. \A m \in T : ~(m < n)
  BY <1>1, Less, Zenon
<1> QED BY <1>2

\* The numbers of a set that are greater than n.
Above(rs, n) == {m \in rs : m > n}

\* What has Keep newer revisions still has them when some go that have Keep newer
\* ones themselves: the greatest of these that is newer than n has them all after it.
LEMMA StillAbove ==
  ASSUME NEW k \in Nat, NEW rs \in SUBSET (1 .. k), NEW D, NEW n \in Nat,
         \A d \in D \intersect rs : Cardinality(Above(rs, d)) >= Keep,
         Cardinality(Above(rs, n)) >= Keep
  PROVE  Cardinality(Above(rs \ D, n)) >= Keep
<1> DEFINE gone == {d \in D \intersect rs : d > n}
<1>3. \A e \in rs : e \in Nat /\ e <= k
  OBVIOUS
<1>1. CASE gone = {}
  <2>1. Above(rs \ D, n) = Above(rs, n)
    BY <1>1 DEF Above
  <2> QED BY <2>1
<1>2. CASE gone # {}
  <2> DEFINE S == {k - d : d \in gone}
  <2>1. S \subseteq Nat /\ S # {}
    <3>1. ASSUME NEW d \in gone PROVE k - d \in Nat
      <4>1. d \in Nat /\ d <= k
        BY <1>3
      <4> QED BY <4>1
    <3>2. PICK d \in gone : TRUE
      BY <1>2
    <3>3. k - d \in S
      OBVIOUS
    <3> QED BY <3>1, <3>3
  <2>2. PICK s \in S : \A t \in S : s <= t
    BY <2>1, Least
  <2>3. PICK d \in gone : s = k - d
    OBVIOUS
  <2>4. \A e \in gone : e <= d
    <3> TAKE e \in gone
    <3>1. k - e \in S /\ s <= k - e
      BY <2>2
    <3>2. e \in Nat /\ d \in Nat
      BY <1>3
    <3> QED BY <2>3, <3>1, <3>2
  <2>5. Above(rs, d) \subseteq Above(rs \ D, n)
    <3>1. \A e \in Above(rs, d) : e \in rs /\ e > d /\ e \in Nat /\ d \in Nat /\ d > n
      BY <1>3 DEF Above
    <3>2. \A e \in Above(rs, d) : e \notin D
      BY <2>4, <3>1
    <3>3. \A e \in Above(rs, d) : e \in rs \ D /\ e > n
      BY <3>1, <3>2
    <3> QED BY <3>3 DEF Above
  <2>6. IsFiniteSet(Above(rs \ D, n))
    <3>1. IsFiniteSet(1 .. k)
      BY FS_Interval
    <3>2. Above(rs \ D, n) \subseteq 1 .. k
      BY DEF Above
    <3> QED BY <3>1, <3>2, FS_Subset
  <2>7. /\ Cardinality(Above(rs, d)) <= Cardinality(Above(rs \ D, n))
        /\ Cardinality(Above(rs, d)) \in Nat /\ Cardinality(Above(rs \ D, n)) \in Nat
    BY <2>5, <2>6, FS_Subset, FS_CardinalityType
  <2>8. Cardinality(Above(rs, d)) >= Keep
    BY <2>3
  <2> QED BY <2>7, <2>8, PlanStoreAssumption
<1> QED BY <1>1, <1>2

\* and when another is filed.
LEMMA MoreAbove ==
  ASSUME NEW k \in Nat, NEW rs \in SUBSET (1 .. k), NEW n \in Nat,
         Cardinality(Above(rs, n)) >= Keep
  PROVE  Cardinality(Above(rs \union {k + 1}, n)) >= Keep
<1> DEFINE more == rs \union {k + 1}
<1>1. IsFiniteSet(1 .. (k + 1))
  BY FS_Interval
<1>2. Above(more, n) \subseteq 1 .. (k + 1) /\ Above(rs, n) \subseteq Above(more, n)
  <2>1. rs \subseteq 1 .. k /\ more \subseteq 1 .. (k + 1)
    OBVIOUS
  <2> QED BY <2>1 DEF Above
<1>3. IsFiniteSet(Above(more, n))
  BY <1>1, <1>2, FS_Subset
<1>4. /\ Cardinality(Above(rs, n)) <= Cardinality(Above(more, n))
      /\ Cardinality(Above(rs, n)) \in Nat /\ Cardinality(Above(more, n)) \in Nat
  BY <1>2, <1>3, FS_Subset, FS_CardinalityType
<1> QED BY <1>4, PlanStoreAssumption

\* A call has filed its revision once it prunes, and what anybody is about to delete
\* has Keep newer revisions.
KeptInv ==
  /\ \A c \in calls : c.at \in {"pruning", "saved"} =>
       \E n \in DOMAIN filed : filed[n] = Saved(c)
  /\ \A n \in DOMAIN filed : n \in revisions \/ Cardinality(Above(revisions, n)) >= Keep
  /\ \A p \in stale : Cardinality(Above(revisions, p[2])) >= Keep

\* A call is where it was, or was where it had to be.
LEMMA KeptCalls ==
  ASSUME StoreTypeOK, KeptInv, UNCHANGED <<filed, revisions>>, stale' \subseteq stale,
         \A e \in calls' : e.at \in {"pruning", "saved"} =>
           \E c \in calls : c.at \in {"pruning", "saved"} /\ Saved(c) = Saved(e)
  PROVE  KeptInv'
BY DEF KeptInv, Saved

\* A revision is filed.
LEMMA FileKeeps ==
  ASSUME StoreTypeOK, KeptInv, NEW c \in calls, FileRevision(c)
  PROVE  KeptInv'
<1> DEFINE k == Len(filed)
<1>1. /\ k \in Nat /\ DOMAIN filed = 1 .. k /\ DOMAIN filed' = 1 .. (k + 1)
      /\ filed'[k + 1] = Saved(c) /\ \A n \in 1 .. k : filed'[n] = filed[n]
  BY DEF FileRevision, StoreTypeOK, Saved, Calls
<1>2. revisions \in SUBSET (1 .. k) /\ revisions' = revisions \union {k + 1}
  BY <1>1 DEF FileRevision, StoreTypeOK
<1>3. PICK where \in {"pruning", "saved"} : calls' = Advance(c, where)
  BY DEF FileRevision
<1>4. ASSUME NEW e \in calls', e.at \in {"pruning", "saved"}
      PROVE  \E n \in DOMAIN filed' : filed'[n] = Saved(e)
  <2>1. (e \in calls /\ e # c) \/ e = [c EXCEPT !.at = where]
    BY <1>3, AdvancedCalls DEF Places, StoreTypeOK
  <2>2. CASE e \in calls
    <3>1. PICK n \in DOMAIN filed : filed[n] = Saved(e)
      BY <1>4, <2>2 DEF KeptInv
    <3> QED BY <1>1, <3>1
  <2>3. CASE e = [c EXCEPT !.at = where]
    <3>1. Saved(e) = Saved(c)
      BY <2>3 DEF Saved, StoreTypeOK, Calls
    <3>2. k + 1 \in DOMAIN filed'
      BY <1>1
    <3> QED BY <1>1, <3>1, <3>2
  <2> QED BY <2>1, <2>2, <2>3
<1>5. \A n \in 1 .. k : Cardinality(Above(revisions, n)) >= Keep
        => Cardinality(Above(revisions', n)) >= Keep
  <2> TAKE n \in 1 .. k
  <2>1. n \in Nat /\ revisions \in SUBSET (1 .. k) /\ revisions' = revisions \union {k + 1}
    BY <1>1, <1>2
  <2> HIDE DEF k
  <2> QED BY <1>1, <2>1, MoreAbove
<1>6. \A n \in DOMAIN filed' : n \in revisions' \/ Cardinality(Above(revisions', n)) >= Keep
  <2>1. ASSUME NEW n \in 1 .. k
        PROVE  n \in revisions' \/ Cardinality(Above(revisions', n)) >= Keep
    BY <1>1, <1>2, <1>5 DEF KeptInv
  <2>2. k + 1 \in revisions'
    BY <1>2
  <2>3. DOMAIN filed' = (1 .. k) \union {k + 1}
    BY <1>1
  <2> QED BY <2>1, <2>2, <2>3
<1>7. ASSUME NEW p \in stale' PROVE Cardinality(Above(revisions', p[2])) >= Keep
  <2>1. CASE p \in stale
    <3>1. p[2] \in 1 .. k
      BY <1>1, <2>1 DEF StoreTypeOK
    <3> QED BY <1>5, <2>1, <3>1 DEF KeptInv
  <2>2. CASE p \in {c.stamp} \X Old(revisions')
    <3>1. p[2] \in Old(revisions')
      BY <2>2
    <3> QED BY <3>1 DEF Old, Above
  <2> QED BY <2>1, <2>2 DEF FileRevision
<1> QED BY <1>4, <1>6, <1>7 DEF KeptInv

\* Old revisions are deleted.
LEMMA PruneKeeps ==
  ASSUME StoreTypeOK, KeptInv, NEW c \in calls, Prune(c)
  PROVE  KeptInv'
<1>1. \A e \in calls' : e.at \in {"pruning", "saved"} =>
        \E d \in calls : d.at \in {"pruning", "saved"} /\ Saved(d) = Saved(e)
  <2>1. c.at = "pruning" /\ calls' = Advance(c, "saved") /\ calls \subseteq Calls
    BY DEF Prune, StoreTypeOK
  <2> QED BY <2>1, AdvancedCalls DEF Places
<1>2. CASE UNCHANGED revisions
  BY <1>1, <1>2, KeptCalls DEF Prune
<1>3. CASE revisions' = {n \in revisions : <<c.stamp, n>> \notin stale}
  <2> DEFINE D == {n \in revisions : <<c.stamp, n>> \in stale}
             k == Len(filed)
  <2>1. k \in Nat /\ DOMAIN filed = 1 .. k /\ revisions \in SUBSET (1 .. k)
    BY DEF StoreTypeOK
  <2>2. revisions' = revisions \ D /\ filed' = filed /\ stale' \subseteq stale
    BY <1>3 DEF Prune
  <2>3. \A d \in D : Cardinality(Above(revisions, d)) >= Keep
    <3> TAKE d \in D
    <3>1. <<c.stamp, d>> \in stale /\ <<c.stamp, d>>[2] = d
      OBVIOUS
    <3> QED BY <3>1 DEF KeptInv
  <2>4. ASSUME NEW n \in 1 .. k, Cardinality(Above(revisions, n)) >= Keep
        PROVE  Cardinality(Above(revisions', n)) >= Keep
    <3> HIDE DEF D, k
    <3>1. \A d \in D \intersect revisions : Cardinality(Above(revisions, d)) >= Keep
      BY <2>3
    <3>2. n \in Nat
      BY <2>1, <2>4
    <3>3. Cardinality(Above(revisions \ D, n)) >= Keep
      BY <2>1, <2>4, <3>1, <3>2, StillAbove
    <3> QED BY <2>2, <3>3
  <2>5. \A n \in DOMAIN filed' : n \in revisions' \/ Cardinality(Above(revisions', n)) >= Keep
    BY <2>1, <2>2, <2>3, <2>4 DEF KeptInv
  <2>6. ASSUME NEW p \in stale' PROVE Cardinality(Above(revisions', p[2])) >= Keep
    <3>1. p \in stale /\ p[2] \in 1 .. k
      BY <2>1, <2>2 DEF StoreTypeOK
    <3> QED BY <2>4, <3>1 DEF KeptInv
  <2>7. \A e \in calls' : e.at \in {"pruning", "saved"} =>
          \E n \in DOMAIN filed' : filed'[n] = Saved(e)
    BY <1>1, <2>2 DEF KeptInv
  <2> QED BY <2>5, <2>6, <2>7 DEF KeptInv
<1> QED BY <1>2, <1>3 DEF Prune

\* What was reported as saved is kept.
LEMMA StoreKeeps == StoreTypeOK /\ KeptInv /\ [ServerStep \/ ClientStep]_storeVars => KeptInv'
<1> SUFFICES ASSUME StoreTypeOK, KeptInv, [ServerStep \/ ClientStep]_storeVars
             PROVE  KeptInv'
  OBVIOUS
<1>1. CASE UNCHANGED storeVars
  BY <1>1 DEF KeptInv, storeVars, store
<1>2. CASE ServerStep
  <2> PICK c \in calls : Handle(c) \/ Fail(c)
    BY <1>2 DEF ServerStep
  <2>1. c \in Calls /\ calls \subseteq Calls
    BY DEF StoreTypeOK
  <2>2. ASSUME NEW where \in Places \ {"pruning", "saved"}, calls' = Advance(c, where),
               UNCHANGED <<filed, revisions, stale>>
        PROVE  KeptInv'
    <3>1. \A e \in calls' : e.at \in {"pruning", "saved"} => e \in calls
      BY <2>1, <2>2, AdvancedCalls
    <3> QED BY <2>2, <3>1, KeptCalls
  <2>3. CASE CheckConflict(c) \/ Fail(c)
    BY <2>2, <2>3 DEF CheckConflict, Fail, Places, store
  <2>4. CASE Upsert(c)
    <3>1. \/ FileRevision(c)
          \/ UNCHANGED <<filed, revisions, stale>> /\ calls' = Advance(c, "failed")
      BY <2>4 DEF Upsert
    <3> QED BY <2>2, <3>1, FileKeeps DEF Places
  <2> QED BY <2>3, <2>4, PruneKeeps DEF Handle
<1>3. CASE ClientStep
  <2>1. UNCHANGED store
    BY <1>3 DEF ClientStep
  <2>2. \A e \in calls' : e.at \in {"pruning", "saved"} =>
          \E c \in calls : c.at \in {"pruning", "saved"} /\ Saved(c) = Saved(e)
    <3>1. ASSUME NEW by, NEW kind, NEW ver, NEW base, NEW stamp,
                 Send(by, kind, ver, base, stamp)
          PROVE  \A e \in calls' : e.at \in {"pruning", "saved"} => e \in calls
      BY <3>1 DEF Send
    <3>2. ASSUME NEW t \in Clients,
                 calls' = {IF c.by = t THEN [c EXCEPT !.by = NoClient] ELSE c : c \in calls},
                 NEW e \in calls', e.at \in {"pruning", "saved"}
          PROVE  \E c \in calls : c.at \in {"pruning", "saved"} /\ Saved(c) = Saved(e)
      BY <3>2 DEF StoreTypeOK, Calls, Saved
    <3>3. CASE calls' \subseteq calls
      BY <3>3
    <3> QED BY <1>3, <3>1, <3>2, <3>3 DEF ClientStep
  <2> QED BY <2>1, <2>2, KeptCalls DEF store
<1> QED BY <1>1, <1>2, <1>3

\* Whatever calls interleave between looking up old revisions and deleting them, and
\* whichever queries fail: a save that was answered has its revision, and each of
\* the last Keep can be restored (planHandlers.js:26-64).
THEOREM StoreKeepsSaves == StoreSpec => [](StoreTypeOK /\ SavedIsKept)
<1>1. StoreInit => StoreTypeOK /\ KeptInv
  BY PlanStoreAssumption DEF StoreInit, StoreTypeOK, KeptInv
<1>2. KeptInv => SavedIsKept
  BY DEF KeptInv, SavedIsKept, Recoverable, Above
<1> QED BY <1>1, <1>2, StoreTyped, StoreKeeps, PTL DEF StoreSpec

-----------------------------------------------------------------------------
(***************************************************************************)
(* The tabs.  What a tab holds and shows agrees with the saves of its that *)
(* are not answered yet: there are none before the plans were compared;    *)
(* under a banner no timer runs and nothing is shown as being saved; a     *)
(* choice that is carried out is one.  A tab that was not overtaken has    *)
(* one save under way at most, of what it holds unless a timer runs, and   *)
(* when it says synced its base is a stamp that only the version it holds  *)
(* ever bears.                                                             *)
(***************************************************************************)

Saves == {"start", "push"}

Bound(t) ==
  /\ ~Open(t) => InFlight(t) = {}
  /\ tab[t].phase # "on" =>
       /\ ~tab[t].conflict /\ ~tab[t].timer /\ ~tab[t].fetching
       /\ tab[t].shown # "synced" /\ tab[t].shown # "saving"
       /\ \A c \in InFlight(t) : c.kind = "pre_import"
  /\ tab[t].conflict => ~tab[t].timer /\ tab[t].shown # "saving"
  /\ tab[t].fetching => tab[t].conflict /\ \A c \in InFlight(t) : c.kind # "force"
  /\ \A c, d \in InFlight(t) : c.kind = "force" /\ d.kind = "force" => c = d
  /\ \A c \in InFlight(t) : c.kind = "force" => tab[t].conflict

Saving(t) == tab[t].shown = "saving" =>
  tab[t].timer \/ \E c \in InFlight(t) : c.kind \in Saves

\* Whoever bears this stamp has this version, and will.
Stamped(stamp, ver) ==
  /\ stamp <= clock
  /\ row.savedAt = stamp => row.ver = ver
  /\ \A c \in calls : c.stamp = stamp => c.ver = ver

Stamps ==
  /\ \A c, d \in calls : c.stamp = d.stamp => c = d
  /\ \A c \in calls : Stamped(c.stamp, c.ver)
  /\ row.savedAt <= clock

Single(t) ==
  /\ \A c, d \in InFlight(t) : c.kind # "pre_import" /\ d.kind # "pre_import" => c = d
  /\ tab[t].conflict => \A c \in InFlight(t) : c.kind \notin Saves
  /\ ~tab[t].conflict /\ ~tab[t].timer
       => \A c \in InFlight(t) : c.kind \in Saves => c.ver = tab[t].mem
  /\ tab[t].shown = "synced" /\ Quiet(t) => Stamped(tab[t].base, tab[t].mem)

TabInv(t) == Bound(t) /\ Saving(t) /\ (t \notin overtaken => Single(t))

\* An open tab that is neither stale nor about to be told so wrote the snapshot
\* of its browser last, and every other open tab of it is.
Writers ==
  \A t \in Tabs : Open(t) /\ ~tab[t].stale /\ ~tab[t].event =>
    /\ local[home[t]].ver = tab[t].mem
    /\ \A u \in Tabs \ {t} : home[u] = home[t] /\ Open(u) => tab[u].stale \/ tab[u].event

TabTyped ==
  /\ home \in [Tabs -> Browsers]
  /\ tab \in [Tabs -> TabStates]
  /\ local \in [Browsers -> [ver : Nat, savedAt : Nat]]
  /\ clock \in Nat
  /\ edits \in 0 .. MaxEvents /\ opens \in 0 .. MaxOpens /\ choices \in 0 .. MaxChoices
  /\ overtaken \subseteq Tabs

\* A tab that is closed has nothing left of its banners and imports.
Idle == \A t \in Tabs : ~Open(t) => ~tab[t].stale /\ ~tab[t].event /\ ~tab[t].importing

SyncInv ==
  /\ StoreTypeOK /\ TabTyped
  /\ Stamps /\ Writers /\ Idle
  /\ \A t \in Tabs : TabInv(t)

-----------------------------------------------------------------------------
(* What the steps of a tab have in common. *)

\* The fields of a tab
LEMMA TabFields ==
  ASSUME NEW s \in TabStates
  PROVE  /\ s.mem \in Nat /\ s.memAt \in Nat /\ s.base \in Nat
         /\ s.conflict \in BOOLEAN /\ s.timer \in BOOLEAN /\ s.stale \in BOOLEAN
         /\ s.event \in BOOLEAN /\ s.importing \in BOOLEAN /\ s.fetching \in BOOLEAN
BY DEF TabStates

\* of a closed one
LEMMA ClosedTyped ==
  /\ Closed \in TabStates
  /\ Closed.phase = "closed" /\ Closed.shown = "disabled" /\ Closed.mem = 0
  /\ Closed.conflict = FALSE /\ Closed.timer = FALSE /\ Closed.fetching = FALSE
  /\ Closed.stale = FALSE /\ Closed.event = FALSE /\ Closed.importing = FALSE
BY DEF Closed, TabStates

\* and of the server's row.
LEMMA RowTyped == StoreTypeOK => row.ver \in Nat /\ row.savedAt \in Nat /\ NoRow.savedAt = 0
BY DEF StoreTypeOK, NoRow

\* A tab holds and shows what it did.
Same(u) ==
  /\ tab'[u].phase = tab[u].phase /\ tab'[u].mem = tab[u].mem /\ tab'[u].base = tab[u].base
  /\ tab'[u].conflict = tab[u].conflict /\ tab'[u].timer = tab[u].timer
  /\ tab'[u].shown = tab[u].shown /\ tab'[u].fetching = tab[u].fetching

\* A tab is as it was, but for an event on its way to it.
Alike(u) ==
  Same(u) /\ tab'[u].stale = tab[u].stale /\ tab'[u].importing = tab[u].importing

Moves(t, s) ==
  /\ tab' \in [Tabs -> TabStates] /\ tab'[t] = s
  /\ \A u \in Tabs \ {t} : Alike(u)

\* What a step of a tab changes: the tab alone
LEMMA BecomeMoves ==
  ASSUME TabTyped, NEW t \in Tabs, NEW s \in TabStates, tab' = [tab EXCEPT ![t] = s]
  PROVE  Moves(t, s) /\ \A u \in Tabs \ {t} : tab'[u] = tab[u]
BY DEF TabTyped, Moves, Alike, Same

\* or with it the snapshot of its browser, which the other tabs hear of
LEMMA PersistMoves ==
  ASSUME TabTyped, NEW t \in Tabs, NEW s \in TabStates, Persist(t, s)
  PROVE  /\ Moves(t, s) /\ clock' = clock
         /\ local' \in [Browsers -> [ver : Nat, savedAt : Nat]]
         /\ IF s.stale
            THEN local' = local /\ \A u \in Tabs \ {t} : tab'[u] = tab[u]
            ELSE /\ local'[home[t]].ver = s.mem
                 /\ \A b \in Browsers \ {home[t]} : local'[b] = local[b]
                 /\ \A u \in Tabs \ {t} :
                      tab'[u].event <=> (tab[u].event \/ (home[u] = home[t] /\ Open(u)))
<1>1. s.mem \in Nat /\ clock \in Nat /\ home[t] \in Browsers
  BY TabFields DEF TabTyped
<1>2. CASE s.stale
  <2>1. tab' = [tab EXCEPT ![t] = s] /\ local' = local /\ clock' = clock
    BY <1>2 DEF Persist, Become
  <2> QED BY <1>2, <2>1, BecomeMoves DEF TabTyped
<1>3. CASE ~s.stale
  <2> DEFINE saved == [ver |-> s.mem, savedAt |-> clock]
             told(u) == [tab[u] EXCEPT !.event = @ \/ (home[u] = home[t] /\ Open(u))]
  <2>1. /\ local' = [local EXCEPT ![home[t]] = saved]
        /\ clock' = clock
        /\ tab' = [u \in Tabs |-> IF u = t THEN s ELSE told(u)]
    BY <1>3 DEF Persist
  <2>2. saved \in [ver : Nat, savedAt : Nat] /\ saved.ver = s.mem
    BY <1>1
  <2>3. ASSUME NEW u \in Tabs
        PROVE  /\ told(u) \in TabStates
               /\ told(u).phase = tab[u].phase /\ told(u).mem = tab[u].mem
               /\ told(u).base = tab[u].base
               /\ told(u).conflict = tab[u].conflict /\ told(u).timer = tab[u].timer
               /\ told(u).shown = tab[u].shown /\ told(u).fetching = tab[u].fetching
               /\ told(u).stale = tab[u].stale /\ told(u).importing = tab[u].importing
               /\ told(u).event <=> (tab[u].event \/ (home[u] = home[t] /\ Open(u)))
    <3>1. tab[u] \in TabStates
      BY DEF TabTyped
    <3> DEFINE e == tab[u].event \/ (home[u] = home[t] /\ Open(u))
    <3>2. e \in BOOLEAN
      OBVIOUS
    <3>3. told(u) = [tab[u] EXCEPT !.event = e]
      OBVIOUS
    <3> HIDE DEF e, told
    <3>4. /\ told(u) \in TabStates
          /\ told(u).phase = tab[u].phase /\ told(u).mem = tab[u].mem
          /\ told(u).base = tab[u].base
          /\ told(u).conflict = tab[u].conflict /\ told(u).timer = tab[u].timer
          /\ told(u).shown = tab[u].shown /\ told(u).fetching = tab[u].fetching
          /\ told(u).stale = tab[u].stale /\ told(u).importing = tab[u].importing
          /\ told(u).event = e
      BY <3>1, <3>2, <3>3 DEF TabStates
    <3> QED BY <3>4 DEF e
  <2> HIDE DEF saved, told
  <2>4. Moves(t, s)
    BY <2>1, <2>3 DEF Moves, Alike, Same
  <2>5. /\ local' \in [Browsers -> [ver : Nat, savedAt : Nat]]
        /\ local'[home[t]].ver = s.mem
        /\ \A b \in Browsers \ {home[t]} : local'[b] = local[b]
    BY <1>1, <2>1, <2>2 DEF TabTyped
  <2>6. \A u \in Tabs \ {t} : tab'[u].event <=> (tab[u].event \/ (home[u] = home[t] /\ Open(u)))
    BY <2>1, <2>3
  <2> QED BY <1>3, <2>1, <2>4, <2>5, <2>6
<1> QED BY <1>2, <1>3

\* The snapshot is written by a tab that stays open, or is stale.
LEMMA PersistingWriters ==
  ASSUME TabTyped, Writers, NEW t \in Tabs, NEW s \in TabStates, Persist(t, s),
         s.phase # "closed", home' = home
  PROVE  Writers'
<1>1. Moves(t, s) /\ home[t] \in Browsers /\ \A u \in Tabs : home[u] \in Browsers
  BY PersistMoves DEF TabTyped
<1>2. tab'[t] = s /\ \A u \in Tabs \ {t} : Alike(u)
  BY <1>1 DEF Moves
<1>3. CASE s.stale
  <2>1. local' = local /\ \A u \in Tabs \ {t} : tab'[u] = tab[u]
    BY <1>3, PersistMoves
  <2> QED BY <1>2, <1>3, <2>1 DEF Writers, Open
<1>4. CASE ~s.stale
  <2>1. /\ local'[home[t]].ver = s.mem
        /\ \A b \in Browsers \ {home[t]} : local'[b] = local[b]
        /\ \A u \in Tabs \ {t} :
             tab'[u].event <=> (tab[u].event \/ (home[u] = home[t] /\ Open(u)))
    BY <1>4, PersistMoves
  <2>2. ASSUME NEW w \in Tabs, Open(w)', ~tab'[w].stale, ~tab'[w].event
        PROVE  /\ local'[home[w]].ver = tab'[w].mem
               /\ \A u \in Tabs \ {w} : home[u] = home[w] /\ Open(u)'
                                        => tab'[u].stale \/ tab'[u].event
    <3>1. CASE w = t
      BY <1>2, <2>1, <2>2, <3>1 DEF Open, Alike, Same
    <3>2. CASE w # t
      <4>1. /\ Open(w) /\ ~tab[w].stale /\ ~tab[w].event /\ home[w] # home[t]
            /\ tab'[w].mem = tab[w].mem
        BY <1>2, <2>1, <2>2, <3>2 DEF Open, Alike, Same
      <4>2. local'[home[w]] = local[home[w]]
        BY <1>1, <2>1, <4>1
      <4> QED BY <1>2, <2>1, <4>1, <4>2 DEF Writers, Open, Alike, Same
    <3> QED BY <3>1, <3>2
  <2> QED BY <2>2 DEF Writers, Open
<1> QED BY <1>3, <1>4

\* It is left alone by a tab that holds what it held, turns stale or closes.
LEMMA BecomingWriters ==
  ASSUME TabTyped, Writers, NEW t \in Tabs, NEW s \in TabStates,
         tab' = [tab EXCEPT ![t] = s], local' = local, home' = home,
         \/ s.phase = "closed" \/ s.stale
         \/ Open(t) /\ s.stale = tab[t].stale /\ s.event = tab[t].event /\ s.mem = tab[t].mem
  PROVE  Writers'
<1>1. tab'[t] = s /\ \A u \in Tabs \ {t} : tab'[u] = tab[u]
  BY BecomeMoves DEF Moves
<1> QED BY <1>1 DEF Writers, Open

KeepsStamped == \A stamp, ver \in Nat : Stamped(stamp, ver) => Stamped(stamp, ver)'

\* What a tab does with its calls leaves those of the other tabs alone, keeps
\* the stamps apart and is a step of a client of the store.
Calling(t) ==
  /\ Stamps' /\ KeepsStamped /\ StoreTypeOK'
  /\ \A u \in Tabs \ {t} : InFlight(u)' = InFlight(u)
  /\ [ServerStep \/ ClientStep]_storeVars

\* with no call changed
LEMMA NoCalls ==
  ASSUME SyncInv, UNCHANGED <<store, calls, clock>>, UNCHANGED faults \/ Fault
  PROVE  (\A t \in Tabs : Calling(t)) /\ \A t \in Tabs : InFlight(t)' = InFlight(t)
<1>1. [ServerStep \/ ClientStep]_storeVars
  BY DEF storeVars, store, ClientStep
<1>2. StoreTypeOK'
  BY <1>1, StoreTyped DEF SyncInv
<1> QED BY <1>1, <1>2 DEF Calling, KeepsStamped, Stamps, Stamped, SyncInv, InFlight, store

\* one answered
LEMMA CallAnswered ==
  ASSUME SyncInv, NEW t \in Tabs, NEW c \in InFlight(t), Answered(c), calls' = calls \ {c},
         UNCHANGED <<store, faults, clock>>
  PROVE  Calling(t) /\ InFlight(t)' = InFlight(t) \ {c}
<1>1. c \in calls /\ c.by = t
  BY DEF InFlight
<1>2. ClientStep
  BY <1>1 DEF ClientStep, store
<1>3. StoreTypeOK'
  BY <1>2, StoreTyped DEF SyncInv
<1>4. Stamps' /\ KeepsStamped
  BY DEF KeepsStamped, Stamps, Stamped, SyncInv, store
<1>5. (\A u \in Tabs \ {t} : InFlight(u)' = InFlight(u)) /\ InFlight(t)' = InFlight(t) \ {c}
  BY <1>1 DEF InFlight
<1> QED BY <1>2, <1>3, <1>4, <1>5 DEF Calling

\* or one sent.
LEMMA CallSent ==
  ASSUME SyncInv, NEW t \in Tabs, NEW kind \in Kinds, NEW base \in Nat, Push(t, kind, base),
         UNCHANGED <<store, faults>>
  PROVE  /\ Calling(t) /\ clock' \in Nat
         /\ \E new : /\ InFlight(t)' = InFlight(t) \union {new} /\ new \notin InFlight(t)
                     /\ new.kind = kind /\ new.ver = tab[t].mem
         /\ overtaken' \subseteq Tabs /\ overtaken' \ {t} = overtaken \ {t}
         /\ t \notin overtaken' => /\ \A c \in InFlight(t) : c.kind = "pre_import"
                                   /\ t \notin overtaken
<1> PICK new : new = [by |-> t, kind |-> kind, ver |-> tab[t].mem, base |-> base,
                      stamp |-> clock + 1, at |-> "sent"]
  OBVIOUS
<1>1. /\ Send(t, kind, tab[t].mem, base, clock + 1) /\ calls' = calls \union {new}
      /\ clock' = clock + 1
      /\ overtaken' = IF \E c \in InFlight(t) : c.kind # "pre_import"
                      THEN overtaken \union {t} ELSE overtaken
  BY DEF Push, Send
<1>2. clock \in Nat /\ tab[t].mem \in Nat /\ clock + 1 \in Nat \ {0}
  <2>1. tab[t] \in TabStates /\ clock \in Nat
    BY DEF SyncInv, TabTyped
  <2> QED BY <2>1, TabFields
<1>3. ClientStep
  BY <1>1, <1>2 DEF ClientStep, Tabs
<1>4. StoreTypeOK'
  BY <1>3, StoreTyped DEF SyncInv
<1>5. new.by = t /\ new.kind = kind /\ new.ver = tab[t].mem /\ new.stamp = clock + 1
  OBVIOUS
<1>6. /\ \A c \in calls : c.stamp \in Nat /\ c.ver \in Nat /\ c.stamp <= clock
      /\ row.savedAt \in Nat /\ row.savedAt <= clock
  BY RowTyped DEF SyncInv, StoreTypeOK, Calls, Stamps, Stamped
<1>7. new \notin calls /\ \A c \in calls : c.stamp # new.stamp
  BY <1>2, <1>5, <1>6
<1>8. KeepsStamped
  BY <1>1, <1>2, <1>5, <1>6 DEF KeepsStamped, Stamped, store
<1>9. Stamped(new.stamp, new.ver)'
  BY <1>1, <1>2, <1>5, <1>6, <1>7 DEF Stamped, store
<1>10. Stamps'
  <2>1. \A c \in calls : Stamped(c.stamp, c.ver)'
    BY <1>6, <1>8 DEF KeepsStamped, SyncInv, Stamps
  <2>2. row'.savedAt <= clock'
    BY <1>1, <1>2, <1>6 DEF store
  <2>3. \A c, d \in calls' : c.stamp = d.stamp => c = d
    BY <1>1, <1>7 DEF SyncInv, Stamps
  <2> QED BY <1>1, <1>9, <2>1, <2>2, <2>3 DEF Stamps
<1>11. /\ InFlight(t)' = InFlight(t) \union {new} /\ new \notin InFlight(t)
       /\ \A u \in Tabs \ {t} : InFlight(u)' = InFlight(u)
  BY <1>1, <1>5, <1>7 DEF InFlight
<1>12. Calling(t)
  BY <1>3, <1>4, <1>8, <1>10, <1>11 DEF Calling
<1>13. overtaken \subseteq Tabs
  BY DEF SyncInv, TabTyped
<1> QED BY <1>1, <1>2, <1>5, <1>11, <1>12, <1>13

\* The calls of a tab that is closed go on without it.
LEMMA CallsLeft ==
  ASSUME SyncInv, NEW t \in Tabs, UNCHANGED <<store, faults, clock>>,
         calls' = {IF c.by = t THEN [c EXCEPT !.by = NoClient] ELSE c : c \in calls}
  PROVE  Calling(t) /\ InFlight(t)' = {}
<1> DEFINE left(c) == IF c.by = t THEN [c EXCEPT !.by = NoClient] ELSE c
<1>1. ClientStep
  BY DEF ClientStep, store, Tabs
<1>2. StoreTypeOK'
  BY <1>1, StoreTyped DEF SyncInv
<1>3. t # NoClient /\ \A u \in Tabs : u # NoClient
  BY PlanStoreAssumption DEF Tabs
<1>4. calls' = {left(c) : c \in calls}
  OBVIOUS
<1>5. \A c \in calls : /\ left(c).stamp = c.stamp /\ left(c).ver = c.ver
                       /\ c.by = t => left(c).by = NoClient
                       /\ c.by # t => left(c) = c
  BY DEF SyncInv, StoreTypeOK, Calls
<1> HIDE DEF left
<1>6. \A e \in calls' : \E c \in calls : e = left(c)
  BY <1>4
<1>7. KeepsStamped
  BY <1>5, <1>6 DEF KeepsStamped, Stamped, store
<1>8. Stamps'
  <2>1. \A e, f \in calls' : e.stamp = f.stamp => e = f
    BY <1>5, <1>6 DEF SyncInv, Stamps
  <2>2. ASSUME NEW e \in calls' PROVE Stamped(e.stamp, e.ver)'
    <3> PICK c \in calls : e = left(c)
      BY <1>6
    <3>1. Stamped(c.stamp, c.ver) /\ c.stamp \in Nat /\ c.ver \in Nat
      BY DEF SyncInv, Stamps, StoreTypeOK, Calls
    <3> QED BY <1>5, <1>7, <3>1 DEF KeepsStamped
  <2> QED BY <2>1, <2>2 DEF SyncInv, Stamps, store
<1>9. InFlight(t)' = {} /\ \A u \in Tabs \ {t} : InFlight(u)' = InFlight(u)
  <2>1. InFlight(t)' = {}
    BY <1>3, <1>5, <1>6 DEF InFlight
  <2>2. ASSUME NEW u \in Tabs \ {t} PROVE InFlight(u)' = InFlight(u)
    BY <1>3, <1>4, <1>5, <1>6 DEF InFlight
  <2> QED BY <2>1, <2>2
<1> QED BY <1>1, <1>2, <1>7, <1>8, <1>9 DEF Calling

\* A tab that holds and shows what it did, with the saves under way that were,
\* is as true as it was.
LEMMA SameTab ==
  ASSUME SyncInv, NEW u \in Tabs, Same(u), KeepsStamped,
         \A c : c.kind # "pre_import" => (c \in InFlight(u)' <=> c \in InFlight(u)),
         Open(u) \/ InFlight(u)' = InFlight(u),
         u \in overtaken => u \in overtaken'
  PROVE  TabInv(u)'
<1>1. TabInv(u) /\ tab[u] \in TabStates
  BY DEF SyncInv, TabTyped
<1>2. Bound(u)'
  BY <1>1 DEF TabInv, Bound, Same, Open
<1>3. Saving(u)'
  BY <1>1 DEF TabInv, Saving, Saves, Same
<1>4. ASSUME u \notin overtaken' PROVE Single(u)'
  <2>1. Single(u)
    BY <1>1, <1>4 DEF TabInv
  <2>2. tab[u].base \in Nat /\ tab[u].mem \in Nat
    BY <1>1, TabFields
  <2> PICK stamp \in Nat, ver \in Nat : stamp = tab[u].base /\ ver = tab[u].mem
    BY <2>2
  <2>3. tab'[u].base = stamp /\ tab'[u].mem = ver
    BY DEF Same
  <2>4. Stamped(stamp, ver) => Stamped(stamp, ver)'
    BY DEF KeepsStamped
  <2>5. tab[u].shown = "synced" /\ Quiet(u) => Stamped(stamp, ver)
    BY <2>1 DEF Single
  <2>6. Quiet(u)' => Quiet(u)
    BY DEF Quiet, Same
  <2>7. tab'[u].shown = "synced" /\ Quiet(u)' => Stamped(tab[u].base, tab[u].mem)'
    BY <2>3, <2>4, <2>5, <2>6 DEF Same, Stamped
  <2>8. \A c, d \in InFlight(u)' : c.kind # "pre_import" /\ d.kind # "pre_import" => c = d
    BY <2>1 DEF Single
  <2>9. /\ tab'[u].conflict => \A c \in InFlight(u)' : c.kind \notin Saves
        /\ ~tab'[u].conflict /\ ~tab'[u].timer
             => \A c \in InFlight(u)' : c.kind \in Saves => c.ver = tab'[u].mem
    BY <2>1 DEF Single, Same, Saves
  <2> QED BY <2>7, <2>8, <2>9 DEF Single
<1> QED BY <1>2, <1>3, <1>4 DEF TabInv

\* The other tabs are as true as they were.
LEMMA OtherTabs ==
  ASSUME SyncInv, NEW t \in Tabs, NEW s, Moves(t, s), Calling(t),
         overtaken' \ {t} = overtaken \ {t}, TabInv(t)'
  PROVE  \A u \in Tabs : TabInv(u)'
<1> SUFFICES ASSUME NEW u \in Tabs \ {t} PROVE TabInv(u)'
  OBVIOUS
<1>1. Same(u) /\ InFlight(u)' = InFlight(u)
  BY DEF Moves, Alike, Calling
<1> QED BY <1>1, SameTab DEF Calling

Counted ==
  /\ edits' \in 0 .. MaxEvents /\ opens' \in 0 .. MaxOpens /\ choices' \in 0 .. MaxChoices

\* The counters go up.
LEMMA Counting ==
  ASSUME SyncInv, UNCHANGED edits \/ NewVersion, UNCHANGED choices \/ Choose,
         UNCHANGED opens \/ (opens < MaxOpens /\ opens' = opens + 1)
  PROVE  Counted
<1>1. /\ edits \in 0 .. MaxEvents /\ opens \in 0 .. MaxOpens /\ choices \in 0 .. MaxChoices
      /\ faults \in Nat /\ MaxOpens \in Nat /\ MaxChoices \in Nat /\ MaxEvents \in Nat
  BY PlanSyncAssumption, PlanStoreAssumption DEF SyncInv, TabTyped, StoreTypeOK
<1>2. edits' \in 0 .. MaxEvents
  BY <1>1 DEF NewVersion, Events
<1>3. choices' \in 0 .. MaxChoices
  BY <1>1 DEF Choose
<1>4. opens' \in 0 .. MaxOpens
  BY <1>1
<1> QED BY <1>2, <1>3, <1>4 DEF Counted

Goal == SyncInv' /\ [ServerStep \/ ClientStep]_storeVars

\* A step of a tab that writes the snapshot.
LEMMA PersistStep ==
  ASSUME SyncInv, NEW t \in Tabs, NEW s \in TabStates, Persist(t, s), s.phase # "closed",
         Calling(t), home' = home, Counted,
         overtaken' \subseteq Tabs, overtaken' \ {t} = overtaken \ {t},
         tab'[t] = s => TabInv(t)'
  PROVE  Goal
<1>1. Moves(t, s) /\ clock' = clock /\ local' \in [Browsers -> [ver : Nat, savedAt : Nat]]
  BY PersistMoves DEF SyncInv
<1>2. Writers'
  BY PersistingWriters DEF SyncInv
<1>3. TabInv(t)' /\ tab' \in [Tabs -> TabStates]
  BY <1>1 DEF Moves
<1>4. \A u \in Tabs : TabInv(u)'
  BY <1>1, <1>3, OtherTabs
<1>5. TabTyped'
  BY <1>1, <1>3 DEF SyncInv, TabTyped, Counted
<1>6. Idle'
  <2> SUFFICES ASSUME NEW u \in Tabs \ {t}, ~Open(u)'
               PROVE  ~tab'[u].stale /\ ~tab'[u].event /\ ~tab'[u].importing
    BY <1>1 DEF Idle, Moves, Open
  <2>1. ~Open(u) /\ Alike(u)
    BY <1>1 DEF Moves, Alike, Same, Open
  <2>2. ~tab[u].stale /\ ~tab[u].event /\ ~tab[u].importing
    BY <2>1 DEF SyncInv, Idle
  <2>3. CASE s.stale
    BY <2>1, <2>2, <2>3, PersistMoves DEF SyncInv, Alike
  <2>4. CASE ~s.stale
    <3>1. tab'[u].event <=> (tab[u].event \/ (home[u] = home[t] /\ Open(u)))
      BY <2>4, PersistMoves DEF SyncInv
    <3> QED BY <2>1, <2>2, <3>1 DEF Alike
  <2> QED BY <2>3, <2>4
<1> QED BY <1>2, <1>4, <1>5, <1>6 DEF Goal, Calling, SyncInv

\* A step of a tab that does not.
LEMMA BecomeStep ==
  ASSUME SyncInv, NEW t \in Tabs, NEW s \in TabStates, tab' = [tab EXCEPT ![t] = s],
         Calling(t), local' = local, home' = home, clock' \in Nat, Counted,
         overtaken' \subseteq Tabs, overtaken' \ {t} = overtaken \ {t},
         \/ s.phase = "closed" \/ s.stale
         \/ Open(t) /\ s.stale = tab[t].stale /\ s.event = tab[t].event /\ s.mem = tab[t].mem,
         s = Closed \/ s.phase # "closed",
         tab'[t] = s => TabInv(t)'
  PROVE  Goal
<1>1. Moves(t, s) /\ \A u \in Tabs \ {t} : tab'[u] = tab[u]
  BY BecomeMoves DEF SyncInv
<1>2. Writers'
  BY BecomingWriters DEF SyncInv
<1>3. TabInv(t)' /\ tab' \in [Tabs -> TabStates]
  BY <1>1 DEF Moves
<1>4. \A u \in Tabs : TabInv(u)'
  BY <1>1, <1>3, OtherTabs
<1>5. TabTyped'
  BY <1>1, <1>3 DEF SyncInv, TabTyped, Counted
<1>6. Idle'
  BY <1>1, ClosedTyped DEF SyncInv, Idle, Moves, Open
<1> QED BY <1>2, <1>4, <1>5, <1>6 DEF Goal, Calling, SyncInv

-----------------------------------------------------------------------------
(* The steps of a tab. *)

\* A tab with a save scheduled
LEMMA ScheduledFields ==
  ASSUME NEW s \in TabStates
  PROVE  /\ Scheduled(s) \in TabStates
         /\ Scheduled(s).phase = s.phase /\ Scheduled(s).mem = s.mem
         /\ Scheduled(s).base = s.base /\ Scheduled(s).conflict = s.conflict
         /\ Scheduled(s).fetching = s.fetching /\ Scheduled(s).stale = s.stale
         /\ Scheduled(s).event = s.event
         /\ s.phase = "on" /\ ~s.conflict
              => Scheduled(s).timer = TRUE /\ Scheduled(s).shown = "saving"
         /\ ~(s.phase = "on" /\ ~s.conflict)
              => Scheduled(s).timer = FALSE /\ Scheduled(s).shown = s.shown
<1>1. CASE s.phase = "on" /\ ~s.conflict
  <2>1. Scheduled(s) = [s EXCEPT !.timer = TRUE, !.shown = "saving"]
    BY <1>1 DEF Scheduled
  <2> QED BY <1>1, <2>1 DEF TabStates
<1>2. CASE ~(s.phase = "on" /\ ~s.conflict)
  <2>1. Scheduled(s) = [s EXCEPT !.timer = FALSE]
    BY <1>2, Zenon DEF Scheduled
  <2> QED BY <1>2, <2>1 DEF TabStates
<1> QED BY <1>1, <1>2

\* and one that took the server's plan.
LEMMA HydratedFields ==
  ASSUME NEW s \in TabStates, StoreTypeOK
  PROVE  /\ Hydrated(s) \in TabStates
         /\ Hydrated(s).phase = "on" /\ Hydrated(s).mem = row.ver
         /\ Hydrated(s).base = row.savedAt /\ Hydrated(s).conflict = FALSE
         /\ Hydrated(s).timer = FALSE /\ Hydrated(s).shown = "synced"
         /\ Hydrated(s).fetching = FALSE
BY RowTyped DEF Hydrated, TabStates

\* What an edit, an import or the plan of another tab leaves is saved, unless a
\* banner asks first or there is nobody to save to.
LEMMA ScheduledTrue ==
  ASSUME SyncInv, NEW t \in Tabs, NEW s \in TabStates, tab'[t] = Scheduled(s),
         s.phase = tab[t].phase, Open(t), s.fetching = tab[t].fetching,
         s.shown = tab[t].shown, s.conflict = tab[t].conflict,
         InFlight(t)' = InFlight(t), t \in overtaken => t \in overtaken'
  PROVE  TabInv(t)'
<1>1. TabInv(t)
  BY DEF SyncInv
<1>2. /\ tab'[t].phase = tab[t].phase /\ tab'[t].conflict = tab[t].conflict
      /\ tab'[t].fetching = tab[t].fetching
      /\ tab[t].phase = "on" /\ ~tab[t].conflict => tab'[t].timer = TRUE
      /\ ~(tab[t].phase = "on" /\ ~tab[t].conflict)
           => tab'[t].timer = FALSE /\ tab'[t].shown = tab[t].shown
  <2> DEFINE n == Scheduled(s)
  <2>1. /\ n.phase = s.phase /\ n.conflict = s.conflict /\ n.fetching = s.fetching
        /\ s.phase = "on" /\ ~s.conflict => n.timer = TRUE /\ n.shown = "saving"
        /\ ~(s.phase = "on" /\ ~s.conflict) => n.timer = FALSE /\ n.shown = s.shown
    BY ScheduledFields
  <2>2. tab'[t] = n
    OBVIOUS
  <2> HIDE DEF n
  <2> QED BY <2>1, <2>2
<1>3. Bound(t)' /\ Saving(t)'
  BY <1>1, <1>2 DEF TabInv, Bound, Saving, Saves, Open
<1>4. ASSUME t \notin overtaken' PROVE Single(t)'
  BY <1>1, <1>2, <1>4 DEF TabInv, Bound, Single, Quiet, Saves
<1> QED BY <1>3, <1>4 DEF TabInv

\* The server's plan is what a tab with nothing under way holds.
LEMMA HydratedTrue ==
  ASSUME SyncInv, NEW t \in Tabs, NEW s \in TabStates, tab'[t] = Hydrated(s),
         \/ tab[t].phase = "asking"
         \/ tab[t].fetching,
         InFlight(t)' = InFlight(t), UNCHANGED <<store, calls, clock, overtaken>>
  PROVE  TabInv(t)'
<1>1. TabInv(t) /\ Stamps /\ StoreTypeOK
  BY DEF SyncInv
<1>2. /\ tab'[t].phase = "on" /\ tab'[t].mem = row.ver /\ tab'[t].base = row.savedAt
      /\ tab'[t].conflict = FALSE /\ tab'[t].timer = FALSE /\ tab'[t].shown = "synced"
      /\ tab'[t].fetching = FALSE
  BY <1>1, HydratedFields
<1>3. \A c \in InFlight(t) : c.kind # "force"
  BY <1>1 DEF TabInv, Bound
<1>4. Bound(t)' /\ Saving(t)'
  BY <1>2, <1>3 DEF Bound, Saving, Open
<1>5. Stamped(row.savedAt, row.ver)
  BY <1>1 DEF Stamps, Stamped
<1>6. ASSUME t \notin overtaken' PROVE Single(t)'
  <2>1. Single(t) /\ Bound(t)
    BY <1>1, <1>6 DEF TabInv
  <2>2. \A c \in InFlight(t) : c.kind \notin Saves
    BY <2>1 DEF Bound, Single, Saves
  <2>3. Stamped(tab[t].base, tab[t].mem)'
    BY <1>2, <1>5 DEF Stamped, store
  <2> QED BY <1>2, <2>1, <2>2, <2>3 DEF Single
<1> QED BY <1>4, <1>6 DEF TabInv

\* Each step keeps the invariant.  The start: a tab is opened
LEMMA OpenTabStep ==
  ASSUME SyncInv, NEW t \in Tabs, OpenTab(t) PROVE Goal
<1> DEFINE saved == local[home[t]]
           s == [Closed EXCEPT !.phase = "asking", !.shown = "checking",
                               !.mem = saved.ver, !.memAt = saved.savedAt]
<1>1. /\ ~Open(t) /\ opens < MaxOpens /\ opens' = opens + 1 /\ Persist(t, s)
      /\ overtaken' = overtaken \ {t}
      /\ UNCHANGED <<store, calls, faults, home, edits, choices>>
  BY DEF OpenTab, storeVars
<1>2. saved.ver \in Nat /\ saved.savedAt \in Nat
  BY DEF SyncInv, TabTyped
<1>3. /\ s \in TabStates /\ s.phase = "asking" /\ s.shown = "checking"
      /\ s.conflict = FALSE /\ s.timer = FALSE /\ s.fetching = FALSE
  BY <1>2, ClosedTyped DEF TabStates
<1> HIDE DEF s
<1>4. clock' = clock
  BY <1>1, <1>3, PersistMoves DEF SyncInv
<1>5. Calling(t) /\ InFlight(t)' = InFlight(t)
  BY <1>1, <1>4, NoCalls
<1>6. InFlight(t)' = {}
  BY <1>1, <1>5 DEF SyncInv, TabInv, Bound
<1>7. tab'[t] = s => TabInv(t)'
  BY <1>3, <1>6 DEF TabInv, Bound, Saving, Single, Open
<1>8. Counted /\ overtaken' \subseteq Tabs
  BY <1>1, Counting DEF SyncInv, TabTyped
<1> QED BY <1>1, <1>3, <1>5, <1>7, <1>8, PersistStep

\* takes the server's plan
LEMMA TakeServerPlanStep ==
  ASSUME SyncInv, NEW t \in Tabs, TakeServerPlan(t) PROVE Goal
<1> DEFINE s == Hydrated(tab[t])
<1>1. /\ tab[t].phase = "asking" /\ Persist(t, s)
      /\ UNCHANGED <<store, calls, faults, home, edits, opens, choices, overtaken>>
  BY DEF TakeServerPlan, storeVars
<1>2. tab[t] \in TabStates /\ s \in TabStates /\ s.phase = "on"
  BY HydratedFields DEF SyncInv, TabTyped
<1> HIDE DEF s
<1>3. clock' = clock
  BY <1>1, <1>2, PersistMoves DEF SyncInv
<1>4. Calling(t) /\ InFlight(t)' = InFlight(t)
  BY <1>1, <1>3, NoCalls
<1>5. tab'[t] = s => TabInv(t)'
  BY <1>1, <1>2, <1>3, <1>4, HydratedTrue DEF s
<1>6. Counted /\ overtaken' \subseteq Tabs
  BY <1>1, Counting DEF SyncInv, TabTyped
<1> QED BY <1>1, <1>2, <1>4, <1>5, <1>6, PersistStep

\* sends its own
LEMMA PushAtStartStep ==
  ASSUME SyncInv, NEW t \in Tabs, PushAtStart(t) PROVE Goal
<1> DEFINE s == [tab[t] EXCEPT !.phase = "on", !.memAt = 0, !.base = row.savedAt]
<1>1. /\ tab[t].phase = "asking" /\ Push(t, "start", row.savedAt)
      /\ tab' = [tab EXCEPT ![t] = s]
      /\ UNCHANGED <<store, faults, home, local, edits, opens, choices>>
  BY DEF PushAtStart
<1>2. tab[t] \in TabStates /\ row.savedAt \in Nat /\ "start" \in Kinds
  BY RowTyped, PlanSyncAssumption DEF SyncInv, TabTyped
<1>3. /\ s \in TabStates /\ s.phase = "on" /\ s.mem = tab[t].mem
      /\ s.conflict = tab[t].conflict /\ s.timer = tab[t].timer /\ s.shown = tab[t].shown
      /\ s.fetching = tab[t].fetching /\ s.stale = tab[t].stale /\ s.event = tab[t].event
  BY <1>2 DEF TabStates
<1> HIDE DEF s
<1>4. /\ Calling(t) /\ clock' \in Nat /\ overtaken' \subseteq Tabs
      /\ overtaken' \ {t} = overtaken \ {t}
      /\ t \notin overtaken' => \A c \in InFlight(t) : c.kind = "pre_import"
  BY <1>1, <1>2, CallSent
<1>5. PICK new : /\ InFlight(t)' = InFlight(t) \union {new}
                 /\ new.kind = "start" /\ new.ver = tab[t].mem
  BY <1>1, <1>2, CallSent
<1>6. TabInv(t)
  BY DEF SyncInv
<1>7. tab'[t] = s => TabInv(t)'
  <2> SUFFICES ASSUME tab'[t] = s PROVE TabInv(t)'
    OBVIOUS
  <2>1. /\ tab[t].conflict = FALSE /\ tab[t].timer = FALSE /\ tab[t].fetching = FALSE
        /\ tab[t].shown # "synced" /\ tab[t].shown # "saving"
        /\ \A c \in InFlight(t) : c.kind = "pre_import"
    BY <1>1, <1>2, <1>6, TabFields DEF TabInv, Bound
  <2>2. Bound(t)' /\ Saving(t)'
    BY <1>3, <1>5, <2>1 DEF Bound, Saving, Open
  <2>3. Single(t)'
    BY <1>3, <1>5, <2>1 DEF Single, Saves
  <2> QED BY <2>2, <2>3 DEF TabInv
<1>8. Counted
  BY <1>1, Counting
<1>9. Open(t)
  BY <1>1 DEF Open
<1> QED BY <1>1, <1>3, <1>4, <1>7, <1>8, <1>9, BecomeStep DEF Open

\* or stays local
LEMMA StayLocalStep ==
  ASSUME SyncInv, NEW t \in Tabs, StayLocal(t) PROVE Goal
<1> DEFINE s == [tab[t] EXCEPT !.phase = "detached", !.shown = "offline", !.memAt = 0]
<1>1. /\ tab[t].phase = "asking" /\ Fault /\ tab' = [tab EXCEPT ![t] = s]
      /\ UNCHANGED <<store, calls, home, edits, opens, choices, overtaken, local, clock>>
  BY DEF StayLocal, Become
<1>2. tab[t] \in TabStates /\ clock' \in Nat /\ overtaken' \subseteq Tabs
  BY <1>1 DEF SyncInv, TabTyped
<1>3. /\ s \in TabStates /\ s.phase = "detached" /\ s.mem = tab[t].mem /\ s.shown = "offline"
      /\ s.conflict = tab[t].conflict /\ s.timer = tab[t].timer
      /\ s.fetching = tab[t].fetching /\ s.stale = tab[t].stale /\ s.event = tab[t].event
  BY <1>2 DEF TabStates
<1> HIDE DEF s
<1>4. Calling(t) /\ InFlight(t)' = InFlight(t)
  BY <1>1, NoCalls
<1>5. TabInv(t)
  BY DEF SyncInv
<1>6. tab'[t] = s => TabInv(t)'
  <2> SUFFICES ASSUME tab'[t] = s PROVE TabInv(t)'
    OBVIOUS
  <2>1. /\ ~tab[t].conflict /\ ~tab[t].timer /\ ~tab[t].fetching
        /\ \A c \in InFlight(t) : c.kind = "pre_import"
    BY <1>1, <1>5 DEF TabInv, Bound
  <2> QED BY <1>3, <1>4, <2>1 DEF TabInv, Bound, Saving, Single, Saves, Open
<1>7. Counted
  BY <1>1, Counting
<1>8. Open(t)
  BY <1>1 DEF Open
<1> QED BY <1>1, <1>2, <1>3, <1>4, <1>6, <1>7, <1>8, BecomeStep DEF Open

\* and is closed.
LEMMA CloseTabStep ==
  ASSUME SyncInv, NEW t \in Tabs, CloseTab(t) PROVE Goal
<1>1. /\ tab' = [tab EXCEPT ![t] = Closed]
      /\ calls' = {IF c.by = t THEN [c EXCEPT !.by = NoClient] ELSE c : c \in calls}
      /\ UNCHANGED <<store, faults, clock, home, local, edits, opens, choices, overtaken>>
  BY DEF CloseTab, Become
<1>2. clock' \in Nat /\ overtaken' \subseteq Tabs
  BY <1>1 DEF SyncInv, TabTyped
<1>3. Calling(t) /\ InFlight(t)' = {}
  BY <1>1, CallsLeft
<1>4. tab'[t] = Closed => TabInv(t)'
  BY <1>3, ClosedTyped DEF TabInv, Bound, Saving, Single, Open
<1>5. Counted
  BY <1>1, Counting
<1> QED BY <1>1, <1>2, <1>3, <1>4, <1>5, ClosedTyped, BecomeStep DEF Open

\* An edit
LEMMA EditStep ==
  ASSUME SyncInv, NEW t \in Tabs, Edit(t) PROVE Goal
<1> DEFINE e == [tab[t] EXCEPT !.mem = edits + 1]
           s == Scheduled(e)
<1>1. /\ Open(t) /\ NewVersion /\ Persist(t, s)
      /\ UNCHANGED <<store, calls, faults, home, opens, choices, overtaken>>
  BY DEF Edit, storeVars
<1>2. tab[t] \in TabStates /\ edits + 1 \in Nat /\ overtaken' \subseteq Tabs
  BY <1>1 DEF SyncInv, TabTyped
<1>3. /\ e \in TabStates /\ e.phase = tab[t].phase /\ e.conflict = tab[t].conflict
      /\ e.fetching = tab[t].fetching /\ e.shown = tab[t].shown
  BY <1>2 DEF TabStates
<1> HIDE DEF e
<1>4. s \in TabStates /\ s.phase = tab[t].phase
  BY <1>3, ScheduledFields
<1>5. clock' = clock
  BY <1>1, <1>4, PersistMoves DEF SyncInv
<1>6. Calling(t) /\ InFlight(t)' = InFlight(t)
  BY <1>1, <1>5, NoCalls
<1>7. tab'[t] = s => TabInv(t)'
  BY <1>1, <1>3, <1>6, ScheduledTrue
<1>8. Counted
  BY <1>1, Counting
<1> QED BY <1>1, <1>2, <1>4, <1>6, <1>7, <1>8, PersistStep DEF Open

\* and the save it scheduled.
LEMMA FireTimerStep ==
  ASSUME SyncInv, NEW t \in Tabs, FireTimer(t) PROVE Goal
<1> DEFINE s == [tab[t] EXCEPT !.timer = FALSE]
<1>1. /\ tab[t].timer /\ Push(t, "push", tab[t].base) /\ tab' = [tab EXCEPT ![t] = s]
      /\ UNCHANGED <<store, faults, home, local, edits, opens, choices>>
  BY Zenon DEF FireTimer
<1>2. /\ tab[t] \in TabStates /\ tab[t].base \in Nat /\ "push" \in Kinds
      /\ UNCHANGED <<store, faults>>
  BY <1>1, TabFields, PlanSyncAssumption DEF SyncInv, TabTyped
<1>3. /\ s \in TabStates /\ s.phase = tab[t].phase /\ s.mem = tab[t].mem
      /\ s.conflict = tab[t].conflict /\ s.timer = FALSE /\ s.shown = tab[t].shown
      /\ s.fetching = tab[t].fetching /\ s.stale = tab[t].stale /\ s.event = tab[t].event
  BY <1>2 DEF TabStates
<1> HIDE DEF s
<1>4. /\ Calling(t) /\ clock' \in Nat /\ overtaken' \subseteq Tabs
      /\ overtaken' \ {t} = overtaken \ {t}
      /\ t \notin overtaken' => /\ \A c \in InFlight(t) : c.kind = "pre_import"
                                /\ t \notin overtaken
  BY <1>1, <1>2, CallSent
<1>5. PICK new : /\ InFlight(t)' = InFlight(t) \union {new}
                 /\ new.kind = "push" /\ new.ver = tab[t].mem
  BY <1>1, <1>2, CallSent
<1>6. TabInv(t)
  BY DEF SyncInv
<1>7. /\ tab[t].phase = "on" /\ ~tab[t].conflict /\ ~tab[t].fetching
  BY <1>1, <1>6 DEF TabInv, Bound
<1>8. tab'[t] = s => TabInv(t)'
  <2> SUFFICES ASSUME tab'[t] = s PROVE TabInv(t)'
    OBVIOUS
  <2>1. Bound(t)' /\ Saving(t)'
    BY <1>3, <1>5, <1>6, <1>7 DEF TabInv, Bound, Saving, Saves, Open
  <2>2. ASSUME t \notin overtaken' PROVE Single(t)'
    BY <1>3, <1>4, <1>5, <1>7, <2>2 DEF Single, Saves, Quiet
  <2> QED BY <2>1, <2>2 DEF TabInv
<1>9. Counted
  BY <1>1, Counting
<1>10. Open(t)
  BY <1>7 DEF Open
<1> QED BY <1>1, <1>3, <1>4, <1>8, <1>9, <1>10, BecomeStep DEF Open

\* A save that is answered as such leaves a tab that says synced with the stamp
\* of what it holds, or with a timer that runs.
LEMMA SaveAnsweredStep ==
  ASSUME SyncInv, NEW t \in Tabs, SaveAnswered(t) PROVE Goal
<1> PICK c \in InFlight(t) :
      /\ c.kind \in Saves /\ Answered(c) /\ calls' = calls \ {c}
      /\ Become(t, CASE
           c.at = "saved" -> [tab[t] EXCEPT !.base = c.stamp, !.shown = "synced"]
        [] c.at = "conflict" -> [tab[t] EXCEPT !.conflict = TRUE, !.timer = FALSE,
                                               !.shown = "conflict"]
        [] c.at = "failed" -> [tab[t] EXCEPT !.shown = "offline"])
      /\ UNCHANGED <<store, faults, home, edits, opens, choices, overtaken>>
  BY Zenon DEF SaveAnswered, Saves
<1>1. /\ UNCHANGED <<store, faults, home, edits, opens, choices, overtaken, local, clock>>
      /\ c \in calls /\ c.by = t
  BY DEF Become, InFlight
<1>2. /\ tab[t] \in TabStates /\ clock' \in Nat /\ overtaken' \subseteq Tabs
      /\ c.stamp \in Nat /\ c.ver \in Nat /\ Stamped(c.stamp, c.ver)
  BY <1>1 DEF SyncInv, TabTyped, StoreTypeOK, Calls, Stamps
<1>3. Calling(t) /\ InFlight(t)' = InFlight(t) \ {c}
  BY <1>1, CallAnswered
<1>4. TabInv(t)
  BY DEF SyncInv
<1>5. tab[t].phase = "on" /\ Open(t)
  BY <1>4 DEF TabInv, Bound, Saves, Open
<1>6. t \notin overtaken => \A d \in InFlight(t)' : d.kind = "pre_import"
  BY <1>3, <1>4 DEF TabInv, Single, Saves
<1>7. Counted
  BY <1>1, Counting
<1>8. CASE c.at = "saved"
  <2> DEFINE s == [tab[t] EXCEPT !.base = c.stamp, !.shown = "synced"]
  <2>1. tab' = [tab EXCEPT ![t] = s]
    BY <1>8 DEF Become
  <2>2. /\ s \in TabStates /\ s.phase = tab[t].phase /\ s.mem = tab[t].mem
        /\ s.base = c.stamp /\ s.shown = "synced"
        /\ s.conflict = tab[t].conflict /\ s.timer = tab[t].timer
        /\ s.fetching = tab[t].fetching /\ s.stale = tab[t].stale /\ s.event = tab[t].event
    BY <1>2 DEF TabStates
  <2> HIDE DEF s
  <2>3. tab'[t] = s => TabInv(t)'
    <3> SUFFICES ASSUME tab'[t] = s PROVE TabInv(t)'
      OBVIOUS
    <3>1. Bound(t)' /\ Saving(t)'
      BY <1>3, <1>4, <1>5, <2>2 DEF TabInv, Bound, Saving, Open
    <3>2. ASSUME t \notin overtaken' PROVE Single(t)'
      <4>1. ASSUME Quiet(t)' PROVE c.ver = tab[t].mem
        BY <1>1, <1>4, <2>2, <3>2, <4>1 DEF TabInv, Single, Quiet
      <4>2. \A stamp, ver \in Nat : Stamped(stamp, ver) => Stamped(stamp, ver)'
        BY <1>3 DEF Calling, KeepsStamped
      <4>3. Stamped(c.stamp, c.ver)'
        BY <1>2, <4>2
      <4>4. ASSUME Quiet(t)' PROVE Stamped(tab[t].base, tab[t].mem)'
        BY <2>2, <4>1, <4>3, <4>4 DEF Stamped
      <4> QED BY <1>1, <1>6, <3>2, <4>4 DEF Single, Saves
    <3> QED BY <3>1, <3>2 DEF TabInv
  <2> QED BY <1>1, <1>2, <1>3, <1>5, <1>7, <2>1, <2>2, <2>3, BecomeStep DEF Open
<1>9. CASE c.at = "conflict"
  <2> DEFINE s == [tab[t] EXCEPT !.conflict = TRUE, !.timer = FALSE, !.shown = "conflict"]
  <2>1. tab' = [tab EXCEPT ![t] = s]
    BY <1>9 DEF Become
  <2>2. /\ s \in TabStates /\ s.phase = tab[t].phase /\ s.mem = tab[t].mem
        /\ s.shown = "conflict" /\ s.conflict = TRUE /\ s.timer = FALSE
        /\ s.fetching = tab[t].fetching /\ s.stale = tab[t].stale /\ s.event = tab[t].event
    BY <1>2 DEF TabStates
  <2> HIDE DEF s
  <2>3. tab'[t] = s => TabInv(t)'
    BY <1>1, <1>3, <1>4, <1>5, <1>6, <2>2 DEF TabInv, Bound, Saving, Single, Saves, Open
  <2> QED BY <1>1, <1>2, <1>3, <1>5, <1>7, <2>1, <2>2, <2>3, BecomeStep DEF Open
<1>10. CASE c.at = "failed"
  <2> DEFINE s == [tab[t] EXCEPT !.shown = "offline"]
  <2>1. tab' = [tab EXCEPT ![t] = s]
    BY <1>10 DEF Become
  <2>2. /\ s \in TabStates /\ s.phase = tab[t].phase /\ s.mem = tab[t].mem
        /\ s.shown = "offline" /\ s.conflict = tab[t].conflict /\ s.timer = tab[t].timer
        /\ s.fetching = tab[t].fetching /\ s.stale = tab[t].stale /\ s.event = tab[t].event
    BY <1>2 DEF TabStates
  <2> HIDE DEF s
  <2>3. tab'[t] = s => TabInv(t)'
    BY <1>1, <1>3, <1>4, <1>5, <1>6, <2>2 DEF TabInv, Bound, Saving, Single, Saves, Open
  <2> QED BY <1>1, <1>2, <1>3, <1>5, <1>7, <2>1, <2>2, <2>3, BecomeStep DEF Open
<1> QED BY <1>8, <1>9, <1>10 DEF Answered

\* The banner of a conflict: the version of the server is asked for
LEMMA ChooseServerVersionStep ==
  ASSUME SyncInv, NEW t \in Tabs, ChooseServerVersion(t) PROVE Goal
<1> DEFINE s == [tab[t] EXCEPT !.fetching = TRUE]
<1>1. /\ tab[t].phase = "on" /\ tab[t].conflict /\ ~Resolving(t) /\ Choose
      /\ tab' = [tab EXCEPT ![t] = s]
      /\ UNCHANGED <<storeVars, home, local, clock, edits, opens, overtaken>>
  BY Zenon DEF ChooseServerVersion
<1>2. /\ tab[t] \in TabStates /\ clock' \in Nat /\ overtaken' \subseteq Tabs
      /\ UNCHANGED <<store, calls, faults, clock, home, local, overtaken>>
  BY <1>1 DEF SyncInv, TabTyped, storeVars
<1>3. /\ s \in TabStates /\ s.phase = tab[t].phase /\ s.mem = tab[t].mem
      /\ s.shown = tab[t].shown /\ s.conflict = tab[t].conflict /\ s.timer = tab[t].timer
      /\ s.fetching = TRUE /\ s.stale = tab[t].stale /\ s.event = tab[t].event
  BY <1>2 DEF TabStates
<1> HIDE DEF s
<1>4. Calling(t) /\ InFlight(t)' = InFlight(t)
  BY <1>2, NoCalls
<1>5. TabInv(t) /\ Open(t)
  BY <1>1 DEF SyncInv, Open
<1>6. tab'[t] = s => TabInv(t)'
  <2> SUFFICES ASSUME tab'[t] = s PROVE TabInv(t)'
    OBVIOUS
  <2>1. Bound(t)' /\ Saving(t)'
    BY <1>1, <1>3, <1>4, <1>5 DEF TabInv, Bound, Saving, Open, Resolving
  <2>2. ASSUME t \notin overtaken' PROVE Single(t)'
    BY <1>2, <1>3, <1>4, <1>5, <2>2 DEF TabInv, Single, Quiet
  <2> QED BY <2>1, <2>2 DEF TabInv
<1>7. Counted
  BY <1>1, Counting
<1> QED BY <1>1, <1>2, <1>3, <1>4, <1>5, <1>6, <1>7, BecomeStep DEF Open

\* and arrives
LEMMA ServerVersionArrivesStep ==
  ASSUME SyncInv, NEW t \in Tabs, ServerVersionArrives(t) PROVE Goal
<1>1. /\ tab[t].phase = "on" /\ tab[t].fetching
      /\ UNCHANGED <<store, calls, home, edits, opens, choices, overtaken>>
  BY DEF ServerVersionArrives
<1>2. tab[t] \in TabStates /\ overtaken' \subseteq Tabs
  BY <1>1 DEF SyncInv, TabTyped
<1>3. TabInv(t) /\ Open(t)
  BY <1>1 DEF SyncInv, Open
<1>4. Counted
  BY <1>1, Counting
<1>5. CASE Persist(t, Hydrated(tab[t])) /\ UNCHANGED faults
  <2> DEFINE s == Hydrated(tab[t])
  <2>1. s \in TabStates /\ s.phase = "on"
    BY <1>2, HydratedFields DEF SyncInv
  <2>2. Persist(t, s) /\ UNCHANGED faults
    BY <1>5
  <2> HIDE DEF s
  <2>3. clock' = clock
    BY <2>1, <2>2, PersistMoves DEF SyncInv
  <2>4. Calling(t) /\ InFlight(t)' = InFlight(t)
    BY <1>1, <2>2, <2>3, NoCalls
  <2>5. tab'[t] = s => TabInv(t)'
    BY <1>1, <1>2, <2>3, <2>4, HydratedTrue DEF s
  <2> QED BY <1>1, <1>2, <1>4, <2>1, <2>2, <2>4, <2>5, PersistStep
<1>6. CASE /\ Become(t, Scheduled([tab[t] EXCEPT !.conflict = FALSE, !.fetching = FALSE]))
           /\ Fault
  <2> DEFINE e == [tab[t] EXCEPT !.conflict = FALSE, !.fetching = FALSE]
             s == Scheduled(e)
  <2>1. /\ e \in TabStates /\ e.phase = "on" /\ e.conflict = FALSE /\ e.fetching = FALSE
        /\ e.mem = tab[t].mem /\ e.stale = tab[t].stale /\ e.event = tab[t].event
    BY <1>1, <1>2 DEF TabStates
  <2>2. tab' = [tab EXCEPT ![t] = s] /\ UNCHANGED <<local, clock>> /\ Fault
    BY <1>6 DEF Become
  <2> HIDE DEF e
  <2>3. /\ s \in TabStates /\ s.phase = "on" /\ s.mem = tab[t].mem
        /\ s.conflict = FALSE /\ s.fetching = FALSE /\ s.timer = TRUE /\ s.shown = "saving"
        /\ s.stale = tab[t].stale /\ s.event = tab[t].event
    BY <2>1, ScheduledFields
  <2> HIDE DEF s
  <2>4. Calling(t) /\ InFlight(t)' = InFlight(t)
    BY <1>1, <2>2, NoCalls
  <2>5. tab'[t] = s => TabInv(t)'
    <3> SUFFICES ASSUME tab'[t] = s PROVE TabInv(t)'
      OBVIOUS
    <3>1. \A c \in InFlight(t) : c.kind # "force"
      BY <1>1, <1>3 DEF TabInv, Bound
    <3>2. Bound(t)' /\ Saving(t)'
      BY <2>3, <2>4, <3>1 DEF Bound, Saving, Open
    <3>3. ASSUME t \notin overtaken' PROVE Single(t)'
      BY <1>1, <1>3, <2>3, <2>4, <3>3 DEF TabInv, Single, Quiet
    <3> QED BY <3>2, <3>3 DEF TabInv
  <2>6. clock' \in Nat
    BY <2>2 DEF SyncInv, TabTyped
  <2> QED BY <1>1, <1>2, <1>3, <1>4, <2>2, <2>3, <2>4, <2>5, <2>6, BecomeStep DEF Open
<1> QED BY <1>5, <1>6 DEF ServerVersionArrives

\* or the own is forced
LEMMA KeepLocalVersionStep ==
  ASSUME SyncInv, NEW t \in Tabs, KeepLocalVersion(t) PROVE Goal
<1>1. /\ tab[t].phase = "on" /\ tab[t].conflict /\ ~Resolving(t) /\ Choose
      /\ Push(t, "force", 0)
      /\ UNCHANGED <<store, faults, home, tab, local, edits, opens>>
  BY DEF KeepLocalVersion
<1>2. tab[t] \in TabStates /\ "force" \in Kinds /\ 0 \in Nat /\ UNCHANGED <<store, faults>>
  BY <1>1, PlanSyncAssumption DEF SyncInv, TabTyped
<1>3. /\ Calling(t) /\ clock' \in Nat /\ overtaken' \subseteq Tabs
      /\ overtaken' \ {t} = overtaken \ {t}
      /\ t \notin overtaken' => /\ \A c \in InFlight(t) : c.kind = "pre_import"
                                /\ t \notin overtaken
  BY <1>1, <1>2, CallSent
<1>4. PICK new : InFlight(t)' = InFlight(t) \union {new} /\ new.kind = "force"
  BY <1>1, <1>2, CallSent
<1>5. TabInv(t) /\ Open(t)
  BY <1>1 DEF SyncInv, Open
<1>6. TabInv(t)'
  <2>1. ~tab[t].fetching /\ \A c \in InFlight(t) : c.kind # "force"
    BY <1>1 DEF Resolving
  <2>2. Bound(t)' /\ Saving(t)'
    BY <1>1, <1>4, <1>5, <2>1 DEF TabInv, Bound, Saving, Open
  <2>3. ASSUME t \notin overtaken' PROVE Single(t)'
    BY <1>1, <1>3, <1>4, <1>5, <2>3 DEF TabInv, Single, Quiet, Saves
  <2> QED BY <2>2, <2>3 DEF TabInv
<1>7. tab' = [tab EXCEPT ![t] = tab[t]]
  BY <1>1 DEF SyncInv, TabTyped
<1>8. Counted
  BY <1>1, Counting
<1> QED BY <1>1, <1>2, <1>3, <1>5, <1>6, <1>7, <1>8, BecomeStep DEF Open

\* and answered.
LEMMA ForceAnsweredStep ==
  ASSUME SyncInv, NEW t \in Tabs, ForceAnswered(t) PROVE Goal
<1> PICK c \in InFlight(t) :
      /\ c.kind = "force" /\ Answered(c) /\ calls' = calls \ {c}
      /\ Become(t, IF c.at = "saved"
                   THEN Scheduled([tab[t] EXCEPT !.base = c.stamp, !.conflict = FALSE])
                   ELSE tab[t])
      /\ UNCHANGED <<store, faults, home, edits, opens, choices, overtaken>>
  BY DEF ForceAnswered
<1>1. /\ UNCHANGED <<store, faults, home, edits, opens, choices, overtaken, local, clock>>
      /\ c \in calls /\ c.by = t
  BY DEF Become, InFlight
<1>2. /\ tab[t] \in TabStates /\ clock' \in Nat /\ overtaken' \subseteq Tabs
      /\ c.stamp \in Nat
  BY <1>1 DEF SyncInv, TabTyped, StoreTypeOK, Calls
<1>3. Calling(t) /\ InFlight(t)' = InFlight(t) \ {c}
  BY <1>1, CallAnswered
<1>4. TabInv(t)
  BY DEF SyncInv
<1>5. /\ tab[t].phase = "on" /\ tab[t].conflict /\ ~tab[t].fetching /\ Open(t)
      /\ tab[t].shown # "saving"
  BY <1>4 DEF TabInv, Bound, Open
<1>6. \A d \in InFlight(t)' : d.kind # "force"
  BY <1>3, <1>4 DEF TabInv, Bound
<1>7. Counted
  BY <1>1, Counting
<1>8. CASE c.at = "saved"
  <2> DEFINE e == [tab[t] EXCEPT !.base = c.stamp, !.conflict = FALSE]
             s == Scheduled(e)
  <2>1. /\ e \in TabStates /\ e.phase = "on" /\ e.conflict = FALSE
        /\ e.fetching = tab[t].fetching
        /\ e.mem = tab[t].mem /\ e.stale = tab[t].stale /\ e.event = tab[t].event
    BY <1>2, <1>5 DEF TabStates
  <2>2. tab' = [tab EXCEPT ![t] = s]
    BY <1>8 DEF Become
  <2> HIDE DEF e
  <2>3. /\ s \in TabStates /\ s.phase = "on" /\ s.mem = tab[t].mem
        /\ s.conflict = FALSE /\ s.fetching = tab[t].fetching /\ s.timer = TRUE
        /\ s.shown = "saving" /\ s.stale = tab[t].stale /\ s.event = tab[t].event
    BY <2>1, ScheduledFields
  <2> HIDE DEF s
  <2>4. tab'[t] = s => TabInv(t)'
    <3> SUFFICES ASSUME tab'[t] = s PROVE TabInv(t)'
      OBVIOUS
    <3>1. Bound(t)' /\ Saving(t)'
      BY <1>5, <1>6, <2>3 DEF Bound, Saving, Open
    <3>2. ASSUME t \notin overtaken' PROVE Single(t)'
      BY <1>1, <1>3, <1>4, <2>3, <3>2 DEF TabInv, Single, Quiet
    <3> QED BY <3>1, <3>2 DEF TabInv
  <2> QED BY <1>1, <1>2, <1>3, <1>5, <1>7, <2>2, <2>3, <2>4, BecomeStep DEF Open
<1>9. CASE c.at # "saved"
  <2>1. tab' = [tab EXCEPT ![t] = tab[t]]
    BY <1>9 DEF Become
  <2>2. tab' = tab
    BY <2>1 DEF SyncInv, TabTyped
  <2>3. Bound(t)' /\ Saving(t)'
    BY <1>3, <1>4, <1>5, <1>6, <2>2 DEF TabInv, Bound, Saving, Open
  <2>4. ASSUME t \notin overtaken' PROVE Single(t)'
    BY <1>1, <1>3, <1>4, <1>5, <2>2, <2>4 DEF TabInv, Single, Quiet
  <2>5. TabInv(t)'
    BY <2>3, <2>4 DEF TabInv
  <2> QED BY <1>1, <1>2, <1>3, <1>5, <1>7, <2>1, <2>5, BecomeStep DEF Open
<1> QED BY <1>8, <1>9

\* An import: a revision is taken first
LEMMA StartImportStep ==
  ASSUME SyncInv, NEW t \in Tabs, StartImport(t) PROVE Goal
<1> DEFINE s == [tab[t] EXCEPT !.importing = TRUE]
<1>1. /\ Open(t) /\ Choose /\ tab' = [tab EXCEPT ![t] = s]
      /\ IF tab[t].mem = 0 THEN UNCHANGED <<calls, clock, overtaken>>
                           ELSE Push(t, "pre_import", 0)
      /\ UNCHANGED <<store, faults, home, local, edits, opens>>
  BY Zenon DEF StartImport
<1>2. /\ tab[t] \in TabStates /\ "pre_import" \in Kinds /\ 0 \in Nat
      /\ overtaken \subseteq Tabs /\ clock \in Nat
      /\ UNCHANGED <<store, faults>>
  BY <1>1, PlanSyncAssumption DEF SyncInv, TabTyped
<1>3. /\ s \in TabStates /\ s.phase = tab[t].phase /\ s.mem = tab[t].mem
      /\ s.base = tab[t].base /\ s.conflict = tab[t].conflict /\ s.timer = tab[t].timer
      /\ s.shown = tab[t].shown
      /\ s.fetching = tab[t].fetching /\ s.stale = tab[t].stale /\ s.event = tab[t].event
  BY <1>2 DEF TabStates
<1> HIDE DEF s
<1>4. /\ Calling(t) /\ clock' \in Nat /\ overtaken' \subseteq Tabs
      /\ overtaken' \ {t} = overtaken \ {t} /\ (t \in overtaken => t \in overtaken')
      /\ \A c : c.kind # "pre_import" => (c \in InFlight(t)' <=> c \in InFlight(t))
  <2>1. CASE tab[t].mem = 0
    BY <1>1, <1>2, <2>1, NoCalls
  <2>2. CASE tab[t].mem # 0
    <3>1. Push(t, "pre_import", 0)
      BY <1>1, <2>2
    <3>2. PICK new : InFlight(t)' = InFlight(t) \union {new} /\ new.kind = "pre_import"
      BY <1>2, <3>1, CallSent
    <3> QED BY <1>2, <3>1, <3>2, CallSent
  <2> QED BY <2>1, <2>2
<1>5. tab'[t] = s => TabInv(t)'
  <2> SUFFICES ASSUME tab'[t] = s PROVE TabInv(t)'
    OBVIOUS
  <2>1. Same(t)
    BY <1>3 DEF Same
  <2> QED BY <1>1, <1>4, <2>1, SameTab DEF Calling
<1>6. Counted
  BY <1>1, Counting
<1> QED BY <1>1, <1>3, <1>4, <1>5, <1>6, BecomeStep DEF Open

\* its answer comes
LEMMA SnapshotAnsweredStep ==
  ASSUME SyncInv, NEW t \in Tabs, SnapshotAnswered(t) PROVE Goal
<1> PICK c \in InFlight(t) :
      /\ c.kind = "pre_import" /\ Answered(c) /\ calls' = calls \ {c}
      /\ UNCHANGED <<store, faults, tabVars>>
  BY DEF SnapshotAnswered
<1>1. /\ UNCHANGED <<store, faults, home, tab, local, clock, edits, opens, choices, overtaken>>
      /\ tab' = tab /\ clock' \in Nat /\ overtaken' \subseteq Tabs
      /\ tab[t] \in TabStates /\ tab' = [tab EXCEPT ![t] = tab[t]]
  BY DEF tabVars, SyncInv, TabTyped
<1>2. Calling(t) /\ InFlight(t)' = InFlight(t) \ {c}
  BY <1>1, CallAnswered
<1>3. Open(t)
  BY DEF SyncInv, TabInv, Bound
<1>4. TabInv(t)'
  <2>1. Same(t)
    BY <1>1 DEF Same
  <2> QED BY <1>1, <1>2, <1>3, <2>1, SameTab DEF Calling
<1>5. Counted
  BY <1>1, Counting
<1> QED BY <1>1, <1>2, <1>3, <1>4, <1>5, BecomeStep DEF Open

\* The file cannot be read,
LEMMA ImportFailsStep ==
  ASSUME SyncInv, NEW t \in Tabs, ImportFails(t) PROVE Goal
<1> DEFINE s == [tab[t] EXCEPT !.importing = FALSE]
<1>1. /\ tab[t].importing /\ Become(t, s) /\ Open(t)
      /\ UNCHANGED <<store, calls, faults, home, edits, opens, choices, overtaken>>
  BY DEF ImportFails, storeVars, SyncInv, Idle
<1>2. /\ tab[t] \in TabStates /\ overtaken' \subseteq Tabs /\ clock' \in Nat
      /\ UNCHANGED <<store, faults, clock, overtaken, local, home>>
      /\ tab' = [tab EXCEPT ![t] = s]
  BY <1>1 DEF SyncInv, TabTyped, Become
<1>3. /\ s \in TabStates /\ s.phase = tab[t].phase /\ s.mem = tab[t].mem
      /\ s.base = tab[t].base /\ s.conflict = tab[t].conflict /\ s.timer = tab[t].timer
      /\ s.shown = tab[t].shown
      /\ s.fetching = tab[t].fetching /\ s.stale = tab[t].stale /\ s.event = tab[t].event
  BY <1>2 DEF TabStates
<1> HIDE DEF s
<1>4. Calling(t) /\ InFlight(t)' = InFlight(t)
  BY <1>1, <1>2, NoCalls
<1>5. tab'[t] = s => TabInv(t)'
  <2> SUFFICES ASSUME tab'[t] = s PROVE TabInv(t)'
    OBVIOUS
  <2>1. Same(t)
    BY <1>3 DEF Same
  <2> QED BY <1>1, <1>2, <1>4, <2>1, SameTab DEF Calling
<1>6. Counted
  BY <1>1, Counting
<1> QED BY <1>1, <1>2, <1>3, <1>4, <1>5, <1>6, BecomeStep DEF Open

\* or the plan is replaced.
LEMMA FinishImportStep ==
  ASSUME SyncInv, NEW t \in Tabs, FinishImport(t) PROVE Goal
<1> DEFINE e == [tab[t] EXCEPT !.mem = edits + 1, !.memAt = 0, !.importing = FALSE]
           s == Scheduled(e)
<1>1. /\ tab[t].importing /\ NewVersion /\ Persist(t, s) /\ Open(t)
      /\ UNCHANGED <<store, calls, faults, home, opens, choices, overtaken>>
  BY DEF FinishImport, storeVars, SyncInv, Idle
<1>2. tab[t] \in TabStates /\ edits + 1 \in Nat /\ overtaken' \subseteq Tabs
  BY <1>1 DEF SyncInv, TabTyped
<1>3. /\ e \in TabStates /\ e.phase = tab[t].phase /\ e.conflict = tab[t].conflict
      /\ e.fetching = tab[t].fetching /\ e.shown = tab[t].shown
  BY <1>2 DEF TabStates
<1> HIDE DEF e
<1>4. s \in TabStates /\ s.phase = tab[t].phase
  BY <1>3, ScheduledFields
<1>5. clock' = clock
  BY <1>1, <1>4, PersistMoves DEF SyncInv
<1>6. Calling(t) /\ InFlight(t)' = InFlight(t)
  BY <1>1, <1>5, NoCalls
<1>7. tab'[t] = s => TabInv(t)'
  BY <1>1, <1>3, <1>6, ScheduledTrue
<1>8. Counted
  BY <1>1, Counting
<1> QED BY <1>1, <1>2, <1>4, <1>6, <1>7, <1>8, PersistStep DEF Open

\* The tabs of a browser: one hears of another
LEMMA StorageEventStep ==
  ASSUME SyncInv, NEW t \in Tabs, StorageEvent(t) PROVE Goal
<1> DEFINE s == [tab[t] EXCEPT !.event = FALSE, !.stale = TRUE]
<1>1. /\ tab[t].event /\ tab' = [tab EXCEPT ![t] = s] /\ Open(t)
      /\ UNCHANGED <<store, calls, faults, home, local, clock, edits, opens, choices, overtaken>>
  BY DEF StorageEvent, Become, storeVars, SyncInv, Idle
<1>2. tab[t] \in TabStates /\ clock' \in Nat /\ overtaken' \subseteq Tabs
  BY <1>1 DEF SyncInv, TabTyped
<1>3. /\ s \in TabStates /\ s.phase = tab[t].phase /\ s.mem = tab[t].mem
      /\ s.base = tab[t].base /\ s.conflict = tab[t].conflict /\ s.timer = tab[t].timer
      /\ s.shown = tab[t].shown /\ s.fetching = tab[t].fetching /\ s.stale = TRUE
  BY <1>2 DEF TabStates
<1> HIDE DEF s
<1>4. Calling(t) /\ InFlight(t)' = InFlight(t)
  BY <1>1, NoCalls
<1>5. tab'[t] = s => TabInv(t)'
  <2> SUFFICES ASSUME tab'[t] = s PROVE TabInv(t)'
    OBVIOUS
  <2>1. Same(t)
    BY <1>3 DEF Same
  <2> QED BY <1>1, <1>4, <2>1, SameTab DEF Calling
<1>6. Counted
  BY <1>1, Counting
<1> QED BY <1>1, <1>2, <1>3, <1>4, <1>5, <1>6, BecomeStep DEF Open

\* takes its plan
LEMMA UseOtherTabStep ==
  ASSUME SyncInv, NEW t \in Tabs, UseOtherTab(t) PROVE Goal
<1> DEFINE saved == local[home[t]]
           at == IF tab[t].memAt = 0 THEN 0 ELSE saved.savedAt
           e == [tab[t] EXCEPT !.mem = saved.ver, !.stale = FALSE, !.memAt = at]
           s == Scheduled(e)
<1>1. /\ tab[t].stale /\ Choose /\ Persist(t, s) /\ Open(t)
      /\ UNCHANGED <<store, calls, faults, home, edits, opens, overtaken>>
  BY DEF UseOtherTab, storeVars, SyncInv, Idle
<1>2. /\ tab[t] \in TabStates /\ saved.ver \in Nat /\ saved.savedAt \in Nat
      /\ overtaken' \subseteq Tabs
  BY <1>1 DEF SyncInv, TabTyped
<1>3. at \in Nat
  BY <1>2
<1> HIDE DEF saved, at
<1>4. /\ e \in TabStates /\ e.phase = tab[t].phase /\ e.conflict = tab[t].conflict
      /\ e.fetching = tab[t].fetching /\ e.shown = tab[t].shown
  BY <1>2, <1>3 DEF TabStates
<1> HIDE DEF e
<1>5. s \in TabStates /\ s.phase = tab[t].phase
  BY <1>4, ScheduledFields
<1>6. clock' = clock
  BY <1>1, <1>5, PersistMoves DEF SyncInv
<1>7. Calling(t) /\ InFlight(t)' = InFlight(t)
  BY <1>1, <1>6, NoCalls
<1>8. tab'[t] = s => TabInv(t)'
  BY <1>1, <1>4, <1>7, ScheduledTrue
<1>9. Counted
  BY <1>1, Counting
<1> QED BY <1>1, <1>2, <1>5, <1>7, <1>8, <1>9, PersistStep DEF Open

\* or keeps its own.
LEMMA KeepThisTabStep ==
  ASSUME SyncInv, NEW t \in Tabs, KeepThisTab(t) PROVE Goal
<1> DEFINE s == [tab[t] EXCEPT !.stale = FALSE]
<1>1. /\ tab[t].stale /\ Choose /\ Persist(t, s) /\ Open(t)
      /\ UNCHANGED <<store, calls, faults, home, edits, opens, overtaken>>
  BY DEF KeepThisTab, storeVars, SyncInv, Idle
<1>2. tab[t] \in TabStates /\ overtaken' \subseteq Tabs
  BY <1>1 DEF SyncInv, TabTyped
<1>3. /\ s \in TabStates /\ s.phase = tab[t].phase /\ s.mem = tab[t].mem
      /\ s.base = tab[t].base /\ s.conflict = tab[t].conflict /\ s.timer = tab[t].timer
      /\ s.shown = tab[t].shown /\ s.fetching = tab[t].fetching
  BY <1>2 DEF TabStates
<1> HIDE DEF s
<1>4. clock' = clock
  BY <1>1, <1>3, PersistMoves DEF SyncInv
<1>5. Calling(t) /\ InFlight(t)' = InFlight(t)
  BY <1>1, <1>4, NoCalls
<1>6. tab'[t] = s => TabInv(t)'
  <2> SUFFICES ASSUME tab'[t] = s PROVE TabInv(t)'
    OBVIOUS
  <2>1. Same(t)
    BY <1>3 DEF Same
  <2> QED BY <1>1, <1>5, <2>1, SameTab DEF Calling
<1>7. Counted
  BY <1>1, Counting
<1> QED BY <1>1, <1>2, <1>3, <1>5, <1>6, <1>7, PersistStep DEF Open

-----------------------------------------------------------------------------
(* The steps of the server. *)

\* No tab changes, and every call that counts is still the call it was.
LEMMA TabsAlone ==
  ASSUME SyncInv, UNCHANGED tabVars, KeepsStamped, Stamps', StoreTypeOK',
         [ServerStep \/ ClientStep]_storeVars,
         \A t \in Tabs : TabInv(t)'
  PROVE  Goal
BY DEF Goal, SyncInv, tabVars, TabTyped, Writers, Idle, Open

\* The server works on a call
LEMMA ServeStep ==
  ASSUME SyncInv, NEW c \in calls, Serve(c) PROVE Goal
<1>1. (Handle(c) \/ Fail(c)) /\ UNCHANGED tabVars
  BY DEF Serve, tabVars
<1>2. ServerStep
  BY <1>1 DEF ServerStep
<1>3. StoreTypeOK'
  BY <1>2, StoreTyped DEF SyncInv
<1>4. /\ \A d \in calls : d \in Calls /\ d.stamp \in Nat /\ d.stamp # 0 /\ d.ver \in Nat
      /\ clock \in Nat /\ clock' = clock /\ row.savedAt \in Nat
      /\ overtaken' = overtaken /\ tab' = tab
  BY <1>1, RowTyped DEF SyncInv, StoreTypeOK, Calls, TabTyped, tabVars
<1>5. PICK where \in Places : calls' = Advance(c, where)
  BY <1>1, Zenon DEF Handle, CheckConflict, Upsert, FileRevision, Prune, Fail, Places
<1> DEFINE n == [c EXCEPT !.at = where]
<1>6. /\ n.by = c.by /\ n.kind = c.kind /\ n.ver = c.ver /\ n.stamp = c.stamp
      /\ calls' = (calls \ {c}) \union {n}
  BY <1>4, <1>5 DEF Advance, Calls
<1> HIDE DEF n
<1>7. UNCHANGED row \/ (row'.ver = c.ver /\ row'.savedAt = c.stamp)
  BY <1>1 DEF Handle, CheckConflict, Upsert, Prune, Fail, Saved, store
<1>8. /\ \A d, e \in calls : d.stamp = e.stamp => d = e
      /\ \A d \in calls : Stamped(d.stamp, d.ver)
      /\ row.savedAt <= clock
  BY DEF SyncInv, Stamps
<1>9. KeepsStamped
  <2> SUFFICES ASSUME NEW stamp \in Nat, NEW ver \in Nat, Stamped(stamp, ver)
               PROVE  Stamped(stamp, ver)'
    BY DEF KeepsStamped
  <2>1. /\ stamp <= clock /\ (row.savedAt = stamp => row.ver = ver)
        /\ \A d \in calls : d.stamp = stamp => d.ver = ver
    BY DEF Stamped
  <2> QED BY <1>4, <1>6, <1>7, <2>1 DEF Stamped
<1>10. Stamps'
  <2>1. ASSUME NEW d \in calls' PROVE Stamped(d.stamp, d.ver)'
    <3>1. PICK o \in calls : o.stamp = d.stamp /\ o.ver = d.ver
      BY <1>6
    <3>2. Stamped(o.stamp, o.ver) /\ o.stamp \in Nat /\ o.ver \in Nat
      BY <1>4, <1>8
    <3>3. Stamped(o.stamp, o.ver)'
      BY <1>9, <3>2 DEF KeepsStamped
    <3> QED BY <3>1, <3>3
  <2>2. row'.savedAt <= clock'
    BY <1>4, <1>7, <1>8 DEF Stamped
  <2>3. \A d, e \in calls' : d.stamp = e.stamp => d = e
    BY <1>6, <1>8
  <2> QED BY <2>1, <2>2, <2>3 DEF Stamps
<1>11. ASSUME NEW t \in Tabs PROVE TabInv(t)'
  <2>1. TabInv(t) /\ tab[t] \in TabStates /\ tab[t].base \in Nat /\ tab[t].mem \in Nat
    BY TabFields DEF SyncInv, TabTyped
  <2>2. \A d \in InFlight(t)' : \E o \in InFlight(t) :
          /\ o.kind = d.kind /\ o.ver = d.ver /\ o.stamp = d.stamp
    BY <1>6 DEF InFlight
  <2>3. \A o \in InFlight(t) : \E d \in InFlight(t)' :
          /\ o.kind = d.kind /\ o.ver = d.ver /\ o.stamp = d.stamp
    BY <1>6 DEF InFlight
  <2>4. InFlight(t) \subseteq calls /\ InFlight(t)' \subseteq calls'
    BY DEF InFlight
  <2>5. \A d, e \in InFlight(t)' : d.stamp = e.stamp => d = e
    BY <1>10, <2>4 DEF Stamps
  <2>6. Bound(t)'
    <3>1. \A d, e \in InFlight(t)' : d.kind = "force" /\ e.kind = "force" => d = e
      BY <2>1, <2>2, <2>5 DEF TabInv, Bound
    <3>2. /\ ~Open(t) => InFlight(t)' = {}
          /\ tab[t].phase # "on" => \A d \in InFlight(t)' : d.kind = "pre_import"
          /\ tab[t].fetching => \A d \in InFlight(t)' : d.kind # "force"
          /\ \A d \in InFlight(t)' : d.kind = "force" => tab[t].conflict
      BY <2>1, <2>2 DEF TabInv, Bound
    <3> QED BY <1>4, <2>1, <3>1, <3>2 DEF TabInv, Bound, Open
  <2>7. Saving(t)'
    BY <1>4, <2>1, <2>3 DEF TabInv, Saving
  <2>8. ASSUME t \notin overtaken' PROVE Single(t)'
    <3>1. Single(t)
      BY <1>4, <2>1, <2>8 DEF TabInv
    <3>2. \A d, e \in InFlight(t)' : d.kind # "pre_import" /\ e.kind # "pre_import" => d = e
      BY <2>2, <2>5, <3>1 DEF Single
    <3>3. /\ tab[t].conflict => \A d \in InFlight(t)' : d.kind \notin Saves
          /\ ~tab[t].conflict /\ ~tab[t].timer
               => \A d \in InFlight(t)' : d.kind \in Saves => d.ver = tab[t].mem
      BY <2>2, <3>1 DEF Single
    <3>4. Quiet(t)' => Quiet(t)
      BY <1>4, <2>3 DEF Quiet
    <3>5. Stamped(tab[t].base, tab[t].mem) => Stamped(tab[t].base, tab[t].mem)'
      <4> PICK stamp \in Nat, ver \in Nat : stamp = tab[t].base /\ ver = tab[t].mem
        BY <2>1
      <4>1. Stamped(stamp, ver) => Stamped(stamp, ver)'
        BY <1>9 DEF KeepsStamped
      <4> QED BY <1>4, <4>1 DEF Stamped
    <3> QED BY <1>4, <3>1, <3>2, <3>3, <3>4, <3>5 DEF Single
  <2> QED BY <2>6, <2>7, <2>8 DEF TabInv
<1> QED BY <1>1, <1>2, <1>3, <1>9, <1>10, <1>11, TabsAlone

\* or the call is lost.
LEMMA ForgetStep ==
  ASSUME SyncInv, NEW c \in calls, Forget(c) PROVE Goal
<1>1. /\ c.by = NoClient /\ Answered(c) /\ calls' = calls \ {c}
      /\ UNCHANGED <<store, faults, tabVars, tab, clock, overtaken>>
  BY DEF Forget, tabVars
<1>2. ClientStep
  BY <1>1 DEF ClientStep
<1>3. StoreTypeOK'
  BY <1>2, StoreTyped DEF SyncInv
<1>4. KeepsStamped /\ Stamps'
  BY <1>1 DEF KeepsStamped, Stamps, Stamped, SyncInv, store
<1>5. \A t \in Tabs : InFlight(t)' = InFlight(t)
  BY <1>1, PlanStoreAssumption DEF InFlight, Tabs
<1>6. \A t \in Tabs : Same(t)
  BY <1>1 DEF Same
<1>7. \A t \in Tabs : TabInv(t)'
  BY <1>1, <1>4, <1>5, <1>6, SameTab
<1> QED BY <1>1, <1>2, <1>3, <1>4, <1>7, TabsAlone

-----------------------------------------------------------------------------
(* The specification. *)

\* The invariant holds at first
LEMMA InitSync == Init => SyncInv
<1> SUFFICES ASSUME Init PROVE SyncInv
  OBVIOUS
<1>1. StoreTypeOK /\ row.savedAt = 0 /\ calls = {}
  BY PlanStoreAssumption DEF Init, StoreInit, StoreTypeOK, NoRow
<1>2. TabTyped /\ \A t \in Tabs : tab[t] = Closed
  BY ClosedTyped, PlanSyncAssumption DEF Init, TabTyped, NoRow
<1>3. Stamps /\ Writers /\ Idle
  BY <1>1, <1>2, ClosedTyped DEF Init, Stamps, Writers, Idle, Open
<1>4. \A t \in Tabs : TabInv(t)
  BY <1>1, <1>2, ClosedTyped DEF TabInv, Bound, Saving, Single, Open, InFlight
<1> QED BY <1>1, <1>2, <1>3, <1>4 DEF SyncInv

\* and every step keeps it and what is proved of steps.
LEMMA NextSync == SyncInv /\ [Next]_vars => Goal
<1> SUFFICES ASSUME SyncInv, [Next]_vars PROVE Goal
  OBVIOUS
<1>1. CASE UNCHANGED vars
  <2>1. /\ UNCHANGED <<store, calls, faults, clock, storeVars, tabVars, tab, overtaken>>
    BY <1>1 DEF vars, storeVars, tabVars
  <2>2. /\ \A t \in Tabs : Calling(t) /\ InFlight(t)' = InFlight(t)
        /\ \A t \in Tabs : Same(t)
    BY <2>1, NoCalls DEF Same
  <2>3. StoreTypeOK' /\ Stamps' /\ KeepsStamped
    BY <2>1 DEF SyncInv, StoreTypeOK, Stamps, Stamped, KeepsStamped, store
  <2>4. \A t \in Tabs : TabInv(t)'
    BY <2>1, <2>2, <2>3, SameTab
  <2> QED BY <2>1, <2>3, <2>4, TabsAlone
<1>2. ASSUME NEW t \in Tabs, Resume(t) PROVE Goal
  BY <1>2, TakeServerPlanStep, PushAtStartStep, StayLocalStep, FireTimerStep,
     SaveAnsweredStep, ServerVersionArrivesStep, ForceAnsweredStep, SnapshotAnsweredStep,
     StorageEventStep DEF Resume
<1>3. ASSUME NEW t \in Tabs, User(t) PROVE Goal
  BY <1>3, OpenTabStep, CloseTabStep, EditStep, ChooseServerVersionStep,
     KeepLocalVersionStep, StartImportStep, FinishImportStep, ImportFailsStep,
     UseOtherTabStep, KeepThisTabStep DEF User
<1>4. CASE Server
  BY <1>4, ServeStep, ForgetStep DEF Server
<1> QED BY <1>1, <1>2, <1>3, <1>4 DEF Next


\* Every variable has its type, whatever the tabs, the server and the user do:
\* the state a tab keeps of its session (PlanProvider.tsx:41-118), the row and
\* the revisions.
THEOREM TypeCorrect == Spec => []TypeOK
<1>1. SyncInv => TypeOK
  BY DEF SyncInv, TypeOK, TabTyped
<1> QED BY <1>1, InitSync, NextSync, PTL DEF Spec, Goal

\* The tabs are clients such as the store expects: whatever happens in them is
\* to the server a call sent, given up, answered or failed, or nothing, so that
\* what is proved of the store for any clients holds for the tabs
\* (PlanProvider.tsx:120-320 over planHandlers.js:16-68).
THEOREM ImplementsStore == Spec => StoreSpec
<1>1. Init => StoreInit
  BY DEF Init
<1> QED BY <1>1, InitSync, NextSync, PTL DEF Spec, StoreSpec, Goal

\* A save a tab is told of can be restored (planHandlers.js:26-64).
THEOREM SavedKept == Spec => []SavedIsKept
BY ImplementsStore, StoreKeepsSaves, PTL

\* What a tab says of its saves is so: saving has a save under way or a timer
\* that will send one, and a tab that says synced with nothing under way holds
\* what the server has as soon as its base is the server's stamp, because only
\* one version ever bears that stamp (PlanProvider.tsx:120-189).
THEOREM IndicatorTrue == Spec => []IndicatorIsTrue
<1>1. SyncInv => SavingIsUnderWay
  BY DEF SyncInv, TabInv, Saving, Saves, SavingIsUnderWay
<1>2. SyncInv => SyncedIsSaved
  BY DEF SyncInv, TabInv, Single, Stamped, SyncedIsSaved
<1>3. SyncInv => IndicatorIsTrue
  BY <1>1, <1>2 DEF IndicatorIsTrue
<1> QED BY <1>3, InitSync, NextSync, PTL DEF Spec, Goal

\* Once the events are delivered, one tab of a browser at most writes its
\* snapshot, and the snapshot is what it holds (PlanProvider.tsx:236-258).
THEOREM TabsStayApart == Spec => []TabsAgree
<1>1. SyncInv => TabsAgree
  <2> SUFFICES ASSUME SyncInv, NEW b \in Browsers,
                      \A t \in Tabs : home[t] = b => ~tab[t].event,
                      NEW t \in Tabs, home[t] = b, Open(t), ~tab[t].stale
               PROVE  /\ {u \in Tabs : home[u] = b /\ Open(u) /\ ~tab[u].stale} = {t}
                      /\ local[b].ver = tab[t].mem
    BY DEF TabsAgree
  <2>1. /\ local[b].ver = tab[t].mem
        /\ \A u \in Tabs \ {t} : home[u] = b /\ Open(u) => tab[u].stale
    BY DEF SyncInv, Writers
  <2> QED BY <2>1
<1> QED BY <1>1, InitSync, NextSync, PTL DEF Spec, Goal

-----------------------------------------------------------------------------
(***************************************************************************)
(* The spreadsheet (Sheets).                                               *)
(*                                                                         *)
(* SheetsInv relates the writes still in the queue, those given up that    *)
(* Google may still apply, and those of a flush under way, to the sheet:   *)
(* Settled says that whichever of them land, in whatever order, the sheet  *)
(* comes to hold the plan.  The rest is about what a write does to the     *)
(* rows of a tab.                                                          *)
(***************************************************************************)

Augs == Values \union {None}

Trimmed(rows) == rows = <<>> \/ rows[Len(rows)] # Blank

SheetOK(s) ==
  s \in [augments : Augs, header : Headers, rows : Seq(Rows)] /\ Trimmed(s.rows)

PlanOK(p) == p \in [augments : Augs, rows : Seq(Rows)] /\ IsPlan(p)

WriteOK(w) ==
  \/ w.what \in {"clear", "header", "delete"}
  \/ w.what = "augments" /\ w.data \in Augs
  \/ w.what \in {"all", "append"} /\ w.data \in Seq(Rows)
  \/ w.what = "ids" /\ w.data \in Seq(Uuids \union OwnIds \union {Name})
  \/ w.what = "update" /\ DOMAIN w.data \subseteq 1 .. MaxRows
     /\ \A i \in DOMAIN w.data : w.data[i] \in Rows

IsQueue(q) == q \in Seq(Range(q)) /\ \A w \in Range(q) : WriteOK(w)

\* What an export or import is at.
RunOK(r) ==
  /\ DOMAIN r = {"kind", "reads", "todo", "snap", "alone"}
  /\ r.kind \in {"none", "export", "import"} /\ r.alone \in BOOLEAN /\ IsQueue(r.todo)
  /\ r.kind = "none" => r = Resting
  /\ r.kind = "export" => PlanOK(r.snap) /\ r.reads \in {<<"income">>, <<>>}
  /\ r.kind = "import" =>
       /\ r.snap \in [augments : Augs, rows : Seq(Rows)]
       /\ \/ r.reads \in {<<"augments", "income">>, <<"income">>} /\ r.todo = <<>>
          \/ r.reads = <<>> /\ IsPlan(r.snap)

Typed ==
  /\ PlanOK(plan) /\ SheetOK(sheet)
  /\ IsQueue(queue) /\ \A w \in late : WriteOK(w)
  /\ DOMAIN run = Screens /\ \A s \in Screens : RunOK(run[s])
  /\ DOMAIN flush = {"on", "items", "left"} /\ flush.on \in BOOLEAN
  /\ IsQueue(flush.items) /\ IsQueue(flush.left)
  /\ ~flush.on => flush = NoFlush
  /\ backup # None => PlanOK(backup)
  /\ source # None => PlanOK(source)

AugWrite(p) == [what |-> "augments", data |-> p.augments]
AllWrite(p) == [what |-> "all", data |-> p.rows]
HeaderWrite == [what |-> "header", data |-> None]
IdsWrite(p) == [what |-> "ids", data |-> [i \in DOMAIN p.rows |-> p.rows[i].id]]

\* The writes that may still reach the sheet, by how far and which way an
\* export or import has come.
OpenWrites(m, t) ==
  IF m = "all" THEN {AugWrite(t), AllWrite(t)}
  ELSE IF m = "stamped" THEN {HeaderWrite, IdsWrite(t)}
  ELSE IF m = "read" THEN {}
  ELSE {AugWrite(t)}

\* The sheet holds each row of the plan once.
Holds(rows, ps) == Len(rows) = Len(ps) /\ Range(rows) = Range(ps)

\* What holds of the sheet s whichever of them have.
Fits(m, t, s) ==
  /\ m = "all" => Len(s.rows) <= Len(t.rows)
  /\ m = "diff" => s.header = "current" /\ Holds(s.rows, t.rows)
  /\ m = "read" => s.augments = t.augments /\ Parsed(s) = t.rows
  /\ m = "stamped" =>
       /\ s.augments = t.augments /\ HasUuids(s) /\ Len(s.rows) = Len(t.rows)
       /\ \A i \in DOMAIN s.rows :
            /\ s.rows[i] # Blank
            /\ \A h \in {s.header, "current"} : Layout[h][s.rows[i].v] = t.rows[i].v

\* A write has reached the sheet, and nothing has undone it.
Done(t, w, s) ==
  /\ w.what = "augments" => s.augments = t.augments
  /\ w.what = "all" => s.header = "current" /\ s.rows = t.rows
  /\ w.what = "ids" =>
       Len(s.rows) = Len(t.rows) /\ \A i \in DOMAIN t.rows : s.rows[i].id = t.rows[i].id

\* The sheet s, the queue q, the late writes l and the flush f together lead to
\* the plan t, with what is still to be done.
Settled(m, t, todo, s, q, l, f) ==
  /\ Fits(m, t, s)
  /\ Range(q) \union l \union Range(todo) \union Range(f.items) \union Range(f.left)
       \subseteq OpenWrites(m, t)
  /\ \A w \in OpenWrites(m, t) : Done(t, w, s) \/ w \in Range(q) \union Range(todo)
  /\ f.on => \A w \in Range(q) : Done(t, w, s) \/ w \in Range(f.items) \union Range(f.left)

\* The rows when what is left of the difference is written.
RowsAfter(rs, w) ==
  Trim(IF w.what = "update" THEN Over(rs, w.data)
       ELSE IF w.what = "delete" THEN Deleted(rs, w.data) ELSE rs \o w.data)

Result(rs, todo) ==
  IF todo = <<>> THEN rs
  ELSE LET one == RowsAfter(rs, todo[1])
       IN IF Len(todo) = 1 THEN one
          ELSE LET two == RowsAfter(one, todo[2])
               IN IF Len(todo) = 2 THEN two ELSE RowsAfter(two, todo[3])

Differs(todo) ==
  Len(todo) <= 3 /\ \A w \in Range(todo) : w.what \in {"update", "delete", "append"}

\* An export or import r that is alone, with the sheet, the queue and the late
\* writes.
Clearing(r, q, l) ==
  r.reads = <<"income">> /\ r.todo = FullReplace(r.snap) /\ q = <<>> /\ l = {}

Filling(r, s, q, l) ==
  r.reads = <<"income">> /\ Settled("tabs", r.snap, r.todo, s, q, l, NoFlush)

Replacing(r, s, q, l) ==
  r.reads = <<>> /\ Settled("all", r.snap, r.todo, s, q, l, NoFlush)

Matching(r, s, q, l) ==
  /\ r.reads = <<>> /\ Settled("tabs", r.snap, <<>>, s, q, l, NoFlush)
  /\ s.header = "current" /\ Differs(r.todo)
  /\ Holds(Result(s.rows, r.todo), r.snap.rows)

ExportStage(r, s, q, l) ==
  Clearing(r, q, l) \/ Filling(r, s, q, l) \/ Replacing(r, s, q, l) \/ Matching(r, s, q, l)

Reading(r, s, q, l) ==
  /\ q = <<>> /\ l = {}
  /\ \/ r.reads = <<"augments", "income">>
     \/ r.reads = <<"income">> /\ r.snap.augments = s.augments

ImportStage(r, s, q, l) ==
  \/ Reading(r, s, q, l)
  \/ /\ r.reads = <<>>
     /\ \E m \in {"read", "stamped"} : Settled(m, r.snap, r.todo, s, q, l, NoFlush)

\* Who is alone is at a stage of its own.
AloneOK ==
  \A s \in Screens : run[s].alone =>
    /\ \A o \in Screens \ {s} : run[o] = Resting
    /\ flush = NoFlush /\ backup = None /\ source = None
    /\ run[s].kind = "export" => ExportStage(run[s], sheet, queue, late)
    /\ run[s].kind = "import" => ImportStage(run[s], sheet, queue, late)

\* What is known of the sheet while nothing is under way but flushes.
Known(b, i, s, q, l, f) ==
  /\ b # None => \E m \in {"all", "diff"} : Settled(m, b, <<>>, s, q, l, f)
  /\ i # None => \E m \in {"read", "stamped"} : Settled(m, i, <<>>, s, q, l, f)

KnownOK ==
  /\ backup # None \/ source # None => \A s \in Screens : run[s] = Resting
  /\ Known(backup, source, sheet, queue, late, flush)

SheetsInv == Typed /\ AloneOK /\ KnownOK

-----------------------------------------------------------------------------
(***************************************************************************)
(* Numbers: induction over a set, which follows from the least number there *)
(* is, and a function that is defined by recursion.                        *)
(***************************************************************************)

\* A set that has 0, and the next of every number it has, has all.
LEMMA Induction ==
  ASSUME NEW T, 0 \in T, \A n \in Nat \cap T : n + 1 \in T
  PROVE  Nat \subseteq T
<1> DEFINE F == Nat \ T
<1> SUFFICES ASSUME F # {} PROVE FALSE
  OBVIOUS
<1>1. PICK n \in F : \A m \in F : n <= m
  BY Least
<1> QED BY <1>1

\* g is the function up to n.
UpTo(n, g, start, step) ==
  g[0] = start /\ \A m \in 0 .. n - 1 : g[m + 1] = step[m][g[m]]

GoesOn(f, start, step) ==
  f[0] = start /\ \A n \in Nat : f[n + 1] = step[n][f[n]]

\* There is a function that goes on from the value before.
LEMMA Recursion ==
  ASSUME NEW S, NEW start, start \in S, NEW step, step \in [Nat -> [S -> S]]
  PROVE  \E f \in [Nat -> S] : GoesOn(f, start, step)
<1> DEFINE T == {n \in Nat : \E g \in [0 .. n -> S] : UpTo(n, g, start, step)}
<1>1. Nat \subseteq T
  <2>1. 0 \in T
    <3> DEFINE g == [m \in 0 .. 0 |-> start]
    <3>1. g \in [0 .. 0 -> S] /\ UpTo(0, g, start, step)
      BY DEF UpTo
    <3> QED BY <3>1
  <2>2. ASSUME NEW n \in Nat \cap T PROVE n + 1 \in T
    <3>1. PICK g \in [0 .. n -> S] : UpTo(n, g, start, step)
      OBVIOUS
    <3> DEFINE h == [m \in 0 .. n + 1 |-> IF m <= n THEN g[m] ELSE step[n][g[n]]]
    <3>2. step[n][g[n]] \in S
      OBVIOUS
    <3>3. h \in [0 .. n + 1 -> S]
      BY <3>2
    <3>4. UpTo(n + 1, h, start, step)
      BY <3>1 DEF UpTo
    <3> QED BY <3>3, <3>4
  <2> HIDE DEF T
  <2> QED BY <2>1, <2>2, Induction
<1> DEFINE U == {m \in Nat : \A n1, n2 \in Nat :
                   \A g \in [0 .. n1 -> S], h \in [0 .. n2 -> S] :
                     UpTo(n1, g, start, step) /\ UpTo(n2, h, start, step) /\ m <= n1 /\ m <= n2
                       => g[m] = h[m]}
<1>2. Nat \subseteq U
  <2>1. 0 \in U
    BY DEF UpTo
  <2>2. ASSUME NEW m \in Nat \cap U PROVE m + 1 \in U
    <3> SUFFICES ASSUME NEW n1 \in Nat, NEW n2 \in Nat,
                        NEW g \in [0 .. n1 -> S], NEW h \in [0 .. n2 -> S],
                        UpTo(n1, g, start, step), UpTo(n2, h, start, step),
                        m + 1 <= n1, m + 1 <= n2
                 PROVE  g[m + 1] = h[m + 1]
      OBVIOUS
    <3>1. g[m] = h[m]
      <4>1. m \in U /\ m <= n1 /\ m <= n2
        OBVIOUS
      <4> QED BY <4>1, Zenon
    <3>2. g[m + 1] = step[m][g[m]] /\ h[m + 1] = step[m][h[m]]
      BY DEF UpTo
    <3> QED BY <3>1, <3>2
  <2> HIDE DEF U
  <2> QED BY <2>1, <2>2, Induction
<1> DEFINE G(n) == CHOOSE g \in [0 .. n -> S] : UpTo(n, g, start, step)
           f == [n \in Nat |-> G(n)[n]]
<1>3. \A n \in Nat : G(n) \in [0 .. n -> S] /\ UpTo(n, G(n), start, step)
  BY <1>1
<1> HIDE DEF G
<1>4. \A n \in Nat : f[n] \in S
  BY <1>3
<1>5. f[0] = start
  BY <1>3 DEF UpTo
<1>6. ASSUME NEW n \in Nat PROVE f[n + 1] = step[n][f[n]]
  <2>1. G(n + 1)[n + 1] = step[n][G(n + 1)[n]]
    <3>1. UpTo(n + 1, G(n + 1), start, step)
      BY <1>3
    <3> QED BY <3>1 DEF UpTo
  <2>2. G(n + 1)[n] = G(n)[n]
    <3>1. G(n + 1) \in [0 .. n + 1 -> S] /\ G(n) \in [0 .. n -> S]
      BY <1>3
    <3>2. UpTo(n + 1, G(n + 1), start, step) /\ UpTo(n, G(n), start, step)
      BY <1>3
    <3>3. n \in U /\ n + 1 \in Nat /\ n <= n + 1 /\ n <= n
      <4> HIDE DEF U
      <4> QED BY <1>2
    <3> QED BY <3>1, <3>2, <3>3, Zenon
  <2> QED BY <2>1, <2>2
<1> QED BY <1>4, <1>5, <1>6 DEF GoesOn

\* So there is one on 0 .. N.
LEMMA RecursionUpTo ==
  ASSUME NEW S, NEW start, start \in S, NEW step, step \in [Nat -> [S -> S]], NEW N \in Nat
  PROVE  \E h \in [0 .. N -> S] : UpTo(N, h, start, step)
<1> PICK f \in [Nat -> S] : GoesOn(f, start, step)
  BY Recursion
<1> DEFINE h == [n \in 0 .. N |-> f[n]]
<1>1. ASSUME NEW n \in 0 .. N - 1 PROVE h[n + 1] = step[n][h[n]]
  BY DEF GoesOn
<1>2. h \in [0 .. N -> S] /\ h[0] = start
  BY DEF GoesOn
<1> QED BY <1>1, <1>2 DEF UpTo

\* What holds at 0 and goes on, holds up to N.
LEMMA InductionUpTo ==
  ASSUME NEW N \in Nat, NEW h, NEW S, h[0] \in S,
         \A n \in 1 .. N : h[n - 1] \in S => h[n] \in S
  PROVE  \A n \in 0 .. N : h[n] \in S
<1> DEFINE T == {n \in Nat : n <= N => h[n] \in S}
<1>1. 0 \in T
  OBVIOUS
<1>2. ASSUME NEW n \in Nat \cap T PROVE n + 1 \in T
  <2> SUFFICES ASSUME n + 1 <= N PROVE h[n + 1] \in S
    OBVIOUS
  <2>1. n + 1 \in 1 .. N /\ (n + 1) - 1 = n /\ h[n] \in S
    OBVIOUS
  <2> QED BY <2>1
<1> HIDE DEF T
<1>3. Nat \subseteq T
  BY <1>1, <1>2, Induction
<1> QED BY <1>3 DEF T


-----------------------------------------------------------------------------
(***************************************************************************)
(* Rows.                                                                   *)
(***************************************************************************)

\* Two numbers that are not beyond each other are one.
LEMMA Between == \A a, b \in Nat : a <= b /\ b <= a => a = b
  OBVIOUS

\* The greatest of some numbers up to n.
LEMMA Greatest ==
  ASSUME NEW n \in Nat, NEW S, S \subseteq 0 .. n, S # {}
  PROVE  Max(S) \in S /\ \A x \in S : x <= Max(S)
<1> DEFINE T == {k \in Nat : \A x \in S : x <= k}
<1>1. T \subseteq Nat /\ n \in T
  OBVIOUS
<1>2. PICK k \in T : \A m \in T : k <= m
  <2> HIDE DEF T
  <2> QED BY <1>1, Least
<1>3. k \in S
  <2> SUFFICES ASSUME k \notin S PROVE FALSE
    OBVIOUS
  <2>1. \A x \in S : x <= k - 1 /\ x \in Nat
    BY <1>2
  <2>2. k \in Nat /\ k >= 1
    <3>1. PICK x \in S : TRUE
      OBVIOUS
    <3>2. x <= k - 1 /\ x \in Nat /\ k \in Nat
      BY <2>1
    <3> HIDE DEF T
    <3> QED BY <3>2
  <2>3. k - 1 \in T
    BY <2>1, <2>2
  <2> HIDE DEF T
  <2> QED BY <1>2, <2>2, <2>3
<1>4. \A y \in S : k >= y
  BY <1>2
<1>5. Max(S) \in S /\ \A y \in S : Max(S) >= y
  BY <1>3, <1>4, Zenon DEF Max
<1> QED BY <1>5

\* A blank row is a row.
LEMMA BlankRow == Blank \in Rows /\ Blank.id = NoId /\ Blank.v = None
  BY DEF Blank, Rows, Cells

\* What is read of rows: those after the last that is not blank are left out.
LEMMA TrimRows ==
  ASSUME NEW rows \in Seq(Rows)
  PROVE  /\ Trim(rows) \in Seq(Rows) /\ Trimmed(Trim(rows))
         /\ Len(Trim(rows)) <= Len(rows)
         /\ \A i \in DOMAIN Trim(rows) : i \in DOMAIN rows /\ Trim(rows)[i] = rows[i]
         /\ \A i \in DOMAIN rows : rows[i] # Blank => i \in DOMAIN Trim(rows)
<1> DEFINE filled == {i \in DOMAIN rows : rows[i] # Blank}
           m == Max({0} \union filled)
<1>1. Len(rows) \in Nat /\ DOMAIN rows = 1 .. Len(rows)
      /\ \A i \in 1 .. Len(rows) : rows[i] \in Rows
  OBVIOUS
<1>2. m \in {0} \union filled /\ \A x \in {0} \union filled : x <= m
  <2>1. {0} \union filled \subseteq 0 .. Len(rows)
    BY <1>1
  <2> HIDE DEF filled
  <2> QED BY <1>1, <2>1, Greatest
<1>3. m \in 0 .. Len(rows)
  BY <1>1, <1>2
<1>4. Trim(rows) = SubSeq(rows, 1, m)
  BY DEF Trim
<1>5. m # 0 => rows[m] # Blank
  BY <1>2
<1>6. \A i \in DOMAIN rows : rows[i] # Blank => i <= m
  BY <1>2
<1> HIDE DEF m
<1>7. /\ SubSeq(rows, 1, m) \in Seq(Rows) /\ Len(SubSeq(rows, 1, m)) = m
      /\ DOMAIN SubSeq(rows, 1, m) = 1 .. m
      /\ \A i \in 1 .. m : SubSeq(rows, 1, m)[i] = rows[i]
  BY <1>1, <1>3
<1>8. Trimmed(Trim(rows))
  <2>1. CASE m = 0
    BY <1>4, <1>7, <2>1 DEF Trimmed
  <2>2. CASE m # 0
    BY <1>3, <1>4, <1>5, <1>7, <2>2 DEF Trimmed
  <2> QED BY <2>1, <2>2
<1> QED BY <1>1, <1>3, <1>4, <1>6, <1>7, <1>8

\* Two sequences of rows are one if they agree.
LEMMA SameRows ==
  ASSUME NEW S, NEW q \in Seq(S), NEW r \in Seq(S), Len(q) = Len(r),
         \A i \in 1 .. Len(q) : q[i] = r[i]
  PROVE  q = r
  OBVIOUS

\* Rows that do not end in a blank are read as they are.
LEMMA TrimSame ==
  ASSUME NEW rows \in Seq(Rows), Trimmed(rows)
  PROVE  Trim(rows) = rows
<1>1. Len(rows) \in Nat /\ DOMAIN rows = 1 .. Len(rows)
  OBVIOUS
<1>2. /\ Trim(rows) \in Seq(Rows) /\ Len(Trim(rows)) <= Len(rows)
      /\ \A i \in DOMAIN Trim(rows) : i \in DOMAIN rows /\ Trim(rows)[i] = rows[i]
      /\ \A i \in DOMAIN rows : rows[i] # Blank => i \in DOMAIN Trim(rows)
  BY TrimRows
<1>3. Len(Trim(rows)) \in Nat /\ DOMAIN Trim(rows) = 1 .. Len(Trim(rows))
  BY <1>2
<1>4. Len(Trim(rows)) = Len(rows)
  <2>1. CASE rows = <<>>
    BY <1>1, <1>2, <1>3, <2>1
  <2>2. CASE rows # <<>>
    <3>1. Len(rows) \in DOMAIN rows /\ rows[Len(rows)] # Blank
      BY <1>1, <2>2 DEF Trimmed
    <3>2. Len(rows) \in DOMAIN Trim(rows)
      BY <1>2, <3>1
    <3>3. Len(rows) <= Len(Trim(rows)) /\ Len(Trim(rows)) <= Len(rows)
      BY <1>2, <1>3, <3>2
    <3>4. Len(rows) \in Nat /\ Len(Trim(rows)) \in Nat
      BY <1>1, <1>3
    <3> QED BY <3>3, <3>4, Between
  <2> QED BY <2>1, <2>2
<1>5. \A i \in 1 .. Len(Trim(rows)) : Trim(rows)[i] = rows[i]
  BY <1>2, <1>3
<1> HIDE DEF Trim
<1> QED BY <1>2, <1>4, <1>5, SameRows

\* Rows written over rows.
LEMMA OverRows ==
  ASSUME NEW rows \in Seq(Rows), NEW new, NEW n \in Nat, DOMAIN new \subseteq 1 .. n,
         \A i \in DOMAIN new : new[i] \in Rows
  PROVE  /\ Over(rows, new) \in Seq(Rows)
         /\ \A i \in DOMAIN rows : i \in DOMAIN Over(rows, new)
         /\ \A i \in DOMAIN new : i \in DOMAIN Over(rows, new)
         /\ \A i \in DOMAIN Over(rows, new) :
              Over(rows, new)[i] = IF i \in DOMAIN new THEN new[i]
                                   ELSE IF i \in DOMAIN rows THEN rows[i] ELSE Blank
         /\ Len(Over(rows, new)) \in {Len(rows)} \union DOMAIN new
<1> DEFINE S == {0, Len(rows)} \union DOMAIN new
           m == Max(S)
           N == IF Len(rows) < n THEN n ELSE Len(rows)
           F(i) == IF i \in DOMAIN new THEN new[i]
                   ELSE IF i \in DOMAIN rows THEN rows[i] ELSE Blank
<1>1. Len(rows) \in Nat /\ DOMAIN rows = 1 .. Len(rows)
      /\ \A i \in 1 .. Len(rows) : rows[i] \in Rows
  OBVIOUS
<1>2. m \in S /\ \A x \in S : x <= m
  <2>1. N \in Nat /\ S \subseteq 0 .. N /\ S # {}
    BY <1>1
  <2> HIDE DEF S
  <2> QED BY <2>1, Greatest
<1>3. Over(rows, new) = [i \in 1 .. m |-> F(i)]
  BY DEF Over
<1> HIDE DEF m
<1>4. m \in Nat /\ Len(rows) <= m /\ \A x \in DOMAIN new : x <= m
  <2>1. S \subseteq Nat /\ Len(rows) \in S /\ DOMAIN new \subseteq S
    BY <1>1
  <2> HIDE DEF S
  <2> QED BY <1>2, <2>1
<1>5. m \in {Len(rows)} \union DOMAIN new
  <2>1. m = 0 => m = Len(rows)
    BY <1>1, <1>4, Between
  <2> QED BY <1>2, <2>1
<1> HIDE DEF S
<1>6. \A i \in DOMAIN rows \union DOMAIN new : i \in 1 .. m
  BY <1>1, <1>4
<1>7. \A i \in 1 .. m : F(i) \in Rows
  BY <1>1, BlankRow
<1> HIDE DEF F
<1>8. /\ Over(rows, new) \in Seq(Rows) /\ Len(Over(rows, new)) = m
      /\ DOMAIN Over(rows, new) = 1 .. m
      /\ \A i \in 1 .. m : Over(rows, new)[i] = F(i)
  BY <1>3, <1>4, <1>7
<1> QED BY <1>5, <1>6, <1>8 DEF F

\* A sequence is a function on 1 .. Len.
LEMMA Elements ==
  ASSUME NEW R, NEW q \in Seq(R)
  PROVE  /\ Len(q) \in Nat /\ DOMAIN q = 1 .. Len(q) /\ Range(q) \subseteq R
         /\ \A i \in 1 .. Len(q) : q[i] \in R /\ q[i] \in Range(q)
         /\ \A x \in Range(q) : \E i \in 1 .. Len(q) : q[i] = x
         /\ q \in Seq(Range(q))
<1>1. Len(q) \in Nat /\ DOMAIN q = 1 .. Len(q) /\ \A i \in 1 .. Len(q) : q[i] \in R
  OBVIOUS
<1>2. /\ Range(q) \subseteq R
      /\ \A i \in 1 .. Len(q) : q[i] \in Range(q)
      /\ \A x \in Range(q) : \E i \in 1 .. Len(q) : q[i] = x
  BY <1>1 DEF Range
<1>3. q \in [1 .. Len(q) -> Range(q)]
  BY <1>1, <1>2
<1>4. q \in Seq(Range(q))
  BY <1>1, <1>3
<1> QED BY <1>1, <1>2, <1>4

\* Rows with one more.
LEMMA Appended ==
  ASSUME NEW R, NEW q \in Seq(R), NEW e \in R
  PROVE  /\ Append(q, e) \in Seq(R) /\ Len(Append(q, e)) = Len(q) + 1
         /\ \A i \in 1 .. Len(q) : Append(q, e)[i] = q[i]
         /\ Append(q, e)[Len(q) + 1] = e
         /\ Range(Append(q, e)) = Range(q) \union {e}
         /\ IsInjective(q) /\ e \notin Range(q) => IsInjective(Append(q, e))
<1> DEFINE a == Append(q, e)
<1>1. /\ a \in Seq(R) /\ Len(a) = Len(q) + 1 /\ Len(q) \in Nat
      /\ \A i \in 1 .. Len(q) : a[i] = q[i]
      /\ a[Len(q) + 1] = e
  OBVIOUS
<1> HIDE DEF a
<1>2. DOMAIN a = 1 .. Len(q) + 1 /\ DOMAIN q = 1 .. Len(q)
  BY <1>1
<1>3. \A i \in 1 .. Len(q) + 1 : i \in 1 .. Len(q) \/ i = Len(q) + 1
  BY <1>1
<1>4. \A i \in 1 .. Len(q) : i \in 1 .. Len(q) + 1
  BY <1>1
<1>5. Len(q) + 1 \in 1 .. Len(q) + 1
  BY <1>1
<1>6. Range(a) = Range(q) \union {e}
  BY <1>1, <1>2, <1>3, <1>4, <1>5 DEF Range
<1>7. IsInjective(q) /\ e \notin Range(q) => IsInjective(a)
  BY <1>1, <1>2, <1>3 DEF Range, IsInjective
<1> QED BY <1>1, <1>6, <1>7 DEF a

\* The rows that are left in order.
LEMMA WithoutRows ==
  ASSUME NEW rows \in Seq(Rows), NEW S
  PROVE  /\ Without(rows, S) \in Seq(Rows)
         /\ Range(Without(rows, S)) = {rows[i] : i \in DOMAIN rows \ S}
         /\ (\A i, j \in DOMAIN rows \ S : rows[i] = rows[j] => i = j)
              => IsInjective(Without(rows, S))
         /\ S \intersect DOMAIN rows = {} => Without(rows, S) = rows
<1> DEFINE N == Len(rows)
           R == Seq(Rows)
           Body(g, n) == IF n = 0 THEN <<>>
                         ELSE IF n \in S THEN g[n - 1] ELSE Append(g[n - 1], rows[n])
           kept == CHOOSE g : g = [n \in 0 .. N |-> Body(g, n)]
           step == [n \in Nat |-> [x \in R |->
                      IF n + 1 \in S \/ n + 1 \notin 1 .. N THEN x ELSE Append(x, rows[n + 1])]]
<1>1. N \in Nat /\ DOMAIN rows = 1 .. N /\ \A i \in 1 .. N : rows[i] \in Rows
  OBVIOUS
<1>2. Without(rows, S) = kept[N]
  BY DEF Without
<1>3. /\ <<>> \in R
      /\ \A n \in 1 .. N, x \in R : Append(x, rows[n]) \in R
  BY <1>1
<1> HIDE DEF R
<1>4. step \in [Nat -> [R -> R]]
  BY <1>1, <1>3
<1> HIDE DEF step
<1>5. PICK h \in [0 .. N -> R] : UpTo(N, h, <<>>, step)
  BY <1>1, <1>3, <1>4, RecursionUpTo
<1>6. ASSUME NEW n \in 0 .. N PROVE h[n] = Body(h, n)
  <2>1. CASE n = 0
    BY <1>5, <2>1 DEF UpTo
  <2>2. CASE n # 0
    <3>1. n \in 1 .. N /\ n - 1 \in Nat /\ (n - 1) + 1 = n /\ n - 1 \in 0 .. N
      BY <1>1, <2>2
    <3>2. step[n - 1][h[n - 1]] = IF n \in S THEN h[n - 1] ELSE Append(h[n - 1], rows[n])
      BY <1>1, <3>1 DEF step
    <3>3. n - 1 \in 0 .. N - 1
      BY <1>1, <2>2
    <3>4. h[(n - 1) + 1] = step[n - 1][h[n - 1]]
      BY <1>5, <3>3 DEF UpTo
    <3> QED BY <2>2, <3>1, <3>2, <3>4
  <2> QED BY <2>1, <2>2
<1>7. h = [n \in 0 .. N |-> Body(h, n)]
  <2> HIDE DEF Body
  <2> QED BY <1>6
<1>8. kept = [n \in 0 .. N |-> Body(kept, n)]
  <2> HIDE DEF Body
  <2> QED BY <1>7
<1> HIDE DEF kept
<1>9. \A n \in 0 .. N : kept[n] = Body(kept, n)
  <2> HIDE DEF Body
  <2> QED BY <1>8
<1> DEFINE Apart == \A i, j \in DOMAIN rows \ S : rows[i] = rows[j] => i = j
           Sofar(n) ==
             /\ kept[n] \in Seq(Rows)
             /\ Range(kept[n]) = {rows[i] : i \in (1 .. n) \ S}
             /\ Apart => IsInjective(kept[n])
             /\ S \intersect DOMAIN rows = {}
                  => Len(kept[n]) = n /\ \A i \in 1 .. n : kept[n][i] = rows[i]
           T == {n \in Nat : n <= N => Sofar(n)}
<1>10. 0 \in T
  <2>1. kept[0] = <<>> /\ (1 .. 0) = {}
    BY <1>1, <1>9
  <2> QED BY <2>1 DEF Range, IsInjective
<1>11. ASSUME NEW n \in Nat \cap T PROVE n + 1 \in T
  <2> SUFFICES ASSUME n + 1 <= N PROVE Sofar(n + 1)
    OBVIOUS
  <2>1. Sofar(n) /\ n + 1 \in 0 .. N /\ (n + 1) - 1 = n /\ n + 1 # 0 /\ n + 1 \in 1 .. N
    BY <1>1
  <2>2. kept[n + 1] = IF n + 1 \in S THEN kept[n] ELSE Append(kept[n], rows[n + 1])
    BY <1>9, <2>1
  <2>3. \A i : i \in 1 .. n + 1 <=> (i \in 1 .. n \/ i = n + 1)
    OBVIOUS
  <2> HIDE DEF T
  <2>4. CASE n + 1 \in S
    <3>1. (1 .. n + 1) \ S = (1 .. n) \ S
      BY <2>3, <2>4
    <3>2. S \intersect DOMAIN rows # {}
      BY <1>1, <2>1, <2>4
    <3> QED BY <2>1, <2>2, <2>4, <3>1, <3>2
  <2>5. CASE n + 1 \notin S
    <3> DEFINE e == rows[n + 1]
    <3>1. e \in Rows /\ kept[n + 1] = Append(kept[n], e)
      BY <1>1, <2>1, <2>2, <2>5
    <3>2. /\ kept[n + 1] \in Seq(Rows) /\ Len(kept[n + 1]) = Len(kept[n]) + 1
          /\ \A i \in 1 .. Len(kept[n]) : kept[n + 1][i] = kept[n][i]
          /\ kept[n + 1][Len(kept[n]) + 1] = e
          /\ Range(kept[n + 1]) = Range(kept[n]) \union {e}
          /\ IsInjective(kept[n]) /\ e \notin Range(kept[n]) => IsInjective(kept[n + 1])
      BY <2>1, <3>1, Appended
    <3>3. Range(kept[n + 1]) = {rows[i] : i \in (1 .. n + 1) \ S}
      BY <2>1, <2>3, <2>5, <3>2
    <3>4. ASSUME Apart PROVE IsInjective(kept[n + 1])
      <4>1. \A i \in (1 .. n) \ S : i \in DOMAIN rows \ S /\ i # n + 1
        BY <1>1, <2>1
      <4>2. n + 1 \in DOMAIN rows \ S
        BY <1>1, <2>1, <2>5
      <4>3. e \notin Range(kept[n])
        BY <2>1, <3>4, <4>1, <4>2
      <4> QED BY <2>1, <3>2, <3>4, <4>3
    <3>5. ASSUME S \intersect DOMAIN rows = {}
          PROVE  Len(kept[n + 1]) = n + 1 /\ \A i \in 1 .. n + 1 : kept[n + 1][i] = rows[i]
      <4>1. Len(kept[n]) = n /\ \A i \in 1 .. n : kept[n][i] = rows[i]
        BY <2>1, <3>5
      <4> QED BY <2>3, <3>2, <4>1
    <3> QED BY <3>2, <3>3, <3>4, <3>5
  <2> QED BY <2>4, <2>5
<1>12. Sofar(N)
  <2> HIDE DEF T
  <2>1. Nat \subseteq T
    BY <1>10, <1>11, Induction
  <2>2. N \in T
    BY <1>1, <2>1
  <2> HIDE DEF Sofar
  <2> QED BY <1>1, <2>2 DEF T
<1>13. S \intersect DOMAIN rows = {} => kept[N] = rows
  <2> SUFFICES ASSUME S \intersect DOMAIN rows = {} PROVE kept[N] = rows
    OBVIOUS
  <2>1. kept[N] \in Seq(Rows) /\ Len(kept[N]) = Len(rows)
        /\ \A i \in 1 .. Len(kept[N]) : kept[N][i] = rows[i]
    BY <1>12
  <2> QED BY <2>1, SameRows
<1> QED BY <1>1, <1>2, <1>12, <1>13

\* Two sequences one after the other.
LEMMA Joined ==
  ASSUME NEW R, NEW a \in Seq(R), NEW b \in Seq(R)
  PROVE  /\ a \o b \in Seq(R) /\ Len(a \o b) = Len(a) + Len(b)
         /\ \A j \in 1 .. Len(a) : (a \o b)[j] = a[j]
         /\ \A j \in 1 .. Len(b) : (a \o b)[Len(a) + j] = b[j]
         /\ Range(a \o b) = Range(a) \union Range(b)
         /\ IsInjective(a) /\ IsInjective(b) /\ Range(a) \intersect Range(b) = {}
              => IsInjective(a \o b)
<1> DEFINE c == a \o b
<1>1. /\ c \in Seq(R) /\ Len(c) = Len(a) + Len(b)
      /\ Len(a) \in Nat /\ Len(b) \in Nat
      /\ \A j \in 1 .. Len(a) : c[j] = a[j]
      /\ \A j \in 1 .. Len(b) : c[Len(a) + j] = b[j]
  OBVIOUS
<1>2. /\ DOMAIN c = 1 .. Len(c) /\ DOMAIN a = 1 .. Len(a) /\ DOMAIN b = 1 .. Len(b)
  BY <1>1
<1> HIDE DEF c
<1> DEFINE m == Len(a)
           n == Len(b)
<1>3. /\ m \in Nat /\ n \in Nat
      /\ DOMAIN c = 1 .. m + n /\ DOMAIN a = 1 .. m /\ DOMAIN b = 1 .. n
      /\ \A j \in 1 .. m : c[j] = a[j]
      /\ \A j \in 1 .. n : c[m + j] = b[j]
  BY <1>1, <1>2
<1> HIDE DEF m, n
<1>4. \A j \in 1 .. m + n : j \in 1 .. m \/ (j - m \in 1 .. n /\ m + (j - m) = j)
  BY <1>3
<1>5. \A j \in 1 .. m : j \in 1 .. m + n
  BY <1>3
<1>6. \A j \in 1 .. n : m + j \in 1 .. m + n
  BY <1>3
<1>7. \A j \in 1 .. m + n : c[j] \in Range(a) \union Range(b)
  BY <1>3, <1>4 DEF Range
<1>8. \A x \in Range(a) \union Range(b) : \E j \in 1 .. m + n : c[j] = x
  BY <1>3, <1>5, <1>6 DEF Range
<1>9. Range(c) = Range(a) \union Range(b)
  BY <1>3, <1>7, <1>8 DEF Range
<1>10. ASSUME IsInjective(a), IsInjective(b), Range(a) \intersect Range(b) = {}
       PROVE  IsInjective(c)
  <2> SUFFICES ASSUME NEW j \in 1 .. m + n, NEW k \in 1 .. m + n, c[j] = c[k] PROVE j = k
    BY <1>3 DEF IsInjective
  <2>1. \A i \in 1 .. m : c[i] \in Range(a)
    BY <1>3 DEF Range
  <2>2. ASSUME NEW i \in 1 .. m + n, i - m \in 1 .. n
        PROVE  c[i] = b[i - m] /\ b[i - m] \in Range(b)
    <3>1. m + (i - m) = i
      BY <1>3
    <3>2. c[m + (i - m)] = b[i - m]
      BY <1>3, <2>2
    <3> QED BY <1>3, <2>2, <3>1, <3>2 DEF Range
  <2>3. CASE j \in 1 .. m /\ k \in 1 .. m
    BY <1>3, <1>10, <2>3 DEF IsInjective
  <2>4. CASE j - m \in 1 .. n /\ k - m \in 1 .. n
    <3>1. j - m = k - m
      BY <1>3, <1>10, <2>2, <2>4 DEF IsInjective
    <3> QED BY <1>3, <3>1
  <2>5. CASE j \in 1 .. m /\ k - m \in 1 .. n
    <3>1. c[j] \in Range(a) /\ c[k] \in Range(b)
      BY <2>1, <2>2, <2>5
    <3> QED BY <1>10, <3>1, Zenon
  <2>6. CASE k \in 1 .. m /\ j - m \in 1 .. n
    <3>1. c[k] \in Range(a) /\ c[j] \in Range(b)
      BY <2>1, <2>2, <2>6
    <3> QED BY <1>10, <3>1, Zenon
  <2> QED BY <1>4, <2>3, <2>4, <2>5, <2>6
<1> QED BY <1>1, <1>9, <1>10 DEF c

\* A row taken out moves up those below.
LEMMA RowRemoved ==
  ASSUME NEW R, NEW q \in Seq(R), NEW i \in 1 .. Len(q)
  PROVE  /\ RemoveAt(q, i) \in Seq(R) /\ Len(RemoveAt(q, i)) = Len(q) - 1
         /\ \A j \in 1 .. i - 1 : RemoveAt(q, i)[j] = q[j]
         /\ \A j \in i .. Len(q) - 1 : RemoveAt(q, i)[j] = q[j + 1]
<1> DEFINE a == SubSeq(q, 1, i - 1)
           b == SubSeq(q, i + 1, Len(q))
           c == a \o b
           n == Len(q)
<1>1. n \in Nat /\ i \in Nat /\ 1 <= i /\ i <= n
  OBVIOUS
<1>2. /\ a \in Seq(R) /\ Len(a) = i - 1
      /\ \A j \in 1 .. i - 1 : a[j] = q[j]
  BY <1>1
<1>3. /\ b \in Seq(R) /\ Len(b) = n - i
      /\ \A j \in 1 .. n - i : b[j] = q[j + i]
  BY <1>1
<1>4. RemoveAt(q, i) = c
  BY DEF RemoveAt
<1> HIDE DEF a, b
<1>51. a \in Seq(R) /\ b \in Seq(R)
  BY <1>2, <1>3
<1>5. /\ c \in Seq(R) /\ Len(c) = Len(a) + Len(b)
      /\ \A j \in 1 .. Len(a) : c[j] = a[j]
      /\ \A j \in 1 .. Len(b) : c[Len(a) + j] = b[j]
  BY <1>51, Joined
<1> HIDE DEF c, n
<1>6. /\ \A j \in 1 .. i - 1 : c[j] = q[j]
      /\ \A j \in 1 .. n - i : c[(i - 1) + j] = q[j + i]
  BY <1>2, <1>3, <1>5
<1>7. (i - 1) + (n - i) = n - 1
      /\ \A j \in i .. n - 1 : /\ j - (i - 1) \in 1 .. n - i
                               /\ (i - 1) + (j - (i - 1)) = j
                               /\ (j - (i - 1)) + i = j + 1
  BY <1>1
<1>8. \A j \in i .. n - 1 : c[j] = q[j + 1]
  BY <1>6, <1>7
<1>9. Len(c) = n - 1
  BY <1>2, <1>3, <1>5, <1>7
<1> QED BY <1>4, <1>5, <1>6, <1>8, <1>9 DEF n

\* Below m rows the rows at S are taken out, those down to m are as they were.
Below(rows, S, q, m) ==
  /\ q \in Seq(Rows)
  /\ Len(q) >= m
  /\ \A j \in 1 .. m : q[j] = rows[j]
  /\ {q[j] : j \in m + 1 .. Len(q)} = {rows[i] : i \in (m + 1 .. Len(rows)) \ S}
  /\ (\A i, j \in DOMAIN rows \ S : rows[i] = rows[j] => i = j)
       => \A j, k \in m + 1 .. Len(q) : q[j] = q[k] => j = k

\* One row more.
LEMMA BelowLess ==
  ASSUME NEW rows \in Seq(Rows), NEW S, NEW m \in 1 .. Len(rows), NEW q, Below(rows, S, q, m)
  PROVE  m \in 1 .. Len(q) /\ Below(rows, S, IF m \in S THEN RemoveAt(q, m) ELSE q, m - 1)
<1> DEFINE N == Len(rows)
           Apart == \A i, j \in DOMAIN rows \ S : rows[i] = rows[j] => i = j
           r == IF m \in S THEN RemoveAt(q, m) ELSE q
           L == Len(r)
           K == Len(q)
<1>1. /\ N \in Nat /\ DOMAIN rows = 1 .. N /\ m \in 1 .. N
      /\ q \in Seq(Rows) /\ K \in Nat /\ K >= m
      /\ \A j \in 1 .. m : q[j] = rows[j]
      /\ {q[j] : j \in m + 1 .. K} = {rows[i] : i \in (m + 1 .. N) \ S}
      /\ Apart => \A j, k \in m + 1 .. K : q[j] = q[k] => j = k
  <2>1. /\ q \in Seq(Rows) /\ K >= m
        /\ \A j \in 1 .. m : q[j] = rows[j]
        /\ {q[j] : j \in m + 1 .. K} = {rows[i] : i \in (m + 1 .. N) \ S}
        /\ Apart => \A j, k \in m + 1 .. K : q[j] = q[k] => j = k
    BY Zenon DEF Below
  <2>2. N \in Nat /\ DOMAIN rows = 1 .. N /\ m \in 1 .. N
    OBVIOUS
  <2>3. K \in Nat
    BY <2>1
  <2> HIDE DEF N, K, Apart
  <2> QED BY <2>1, <2>2, <2>3
<1>2. m \in 1 .. K /\ m \in Nat /\ m - 1 \in Nat /\ (m - 1) + 1 = m
  BY <1>1
<1>3. ASSUME r \in Seq(Rows), L >= m - 1,
             \A j \in 1 .. m - 1 : r[j] = rows[j],
             {r[j] : j \in m .. L} = {rows[i] : i \in (m .. N) \ S},
             Apart => \A j, k \in m .. L : r[j] = r[k] => j = k
      PROVE  Below(rows, S, r, m - 1)
  <2> HIDE DEF r
  <2> QED BY <1>2, <1>3 DEF Below
<1> HIDE DEF N, K
<1>4. CASE m \in S
  <2>1. /\ r \in Seq(Rows) /\ L = Len(q) - 1
        /\ \A j \in 1 .. m - 1 : r[j] = q[j]
        /\ \A j \in m .. Len(q) - 1 : r[j] = q[j + 1]
    BY <1>1, <1>2, <1>4, RowRemoved DEF K
  <2> HIDE DEF r, L
  <2>2. /\ r \in Seq(Rows) /\ L = K - 1
        /\ \A j \in 1 .. m - 1 : r[j] = q[j]
        /\ \A j \in m .. K - 1 : r[j] = q[j + 1]
    BY <2>1 DEF K
  <2>3. (m .. N) \ S = (m + 1 .. N) \ S
    BY <1>1, <1>2, <1>4
  <2>4. \A j \in m .. L : j + 1 \in m + 1 .. K /\ r[j] = q[j + 1]
    <3>1. \A j \in m .. L : j + 1 \in m + 1 .. K /\ j \in m .. K - 1
      BY <1>1, <1>2, <2>2
    <3> QED BY <2>2, <3>1
  <2>5. \A j \in m + 1 .. K : j - 1 \in m .. L /\ r[j - 1] = q[j]
    <3>1. \A j \in m + 1 .. K : j - 1 \in m .. L /\ j - 1 \in m .. K - 1 /\ (j - 1) + 1 = j
      BY <1>1, <1>2, <2>2
    <3> QED BY <2>2, <3>1
  <2>6. {r[j] : j \in m .. L} = {q[j] : j \in m + 1 .. K}
    <3>1. \A x : x \in {r[j] : j \in m .. L} => x \in {q[j] : j \in m + 1 .. K}
      BY <2>4
    <3>2. \A x : x \in {q[j] : j \in m + 1 .. K} => x \in {r[j] : j \in m .. L}
      BY <2>5
    <3> QED BY <3>1, <3>2
  <2>7. ASSUME Apart, NEW j \in m .. L, NEW k \in m .. L, r[j] = r[k]
        PROVE  j = k
    <3>1. j + 1 \in m + 1 .. K /\ k + 1 \in m + 1 .. K /\ q[j + 1] = q[k + 1]
      BY <2>4, <2>7
    <3>2. j + 1 = k + 1
      BY <1>1, <2>7, <3>1
    <3> QED BY <1>2, <3>2
  <2>8. L >= m - 1
    BY <1>1, <1>2, <2>2
  <2>9. \A j \in 1 .. m - 1 : r[j] = rows[j]
    BY <1>1, <1>2, <2>2
  <2>10. {r[j] : j \in m .. L} = {rows[i] : i \in (m .. N) \ S}
    BY <1>1, <2>3, <2>6, Zenon
  <2>11. Below(rows, S, r, m - 1)
    BY <1>3, <2>2, <2>7, <2>8, <2>9, <2>10, Zenon
  <2> QED BY <1>2, <2>11 DEF r, K
<1>5. CASE m \notin S
  <2>1. r = q /\ L = K
    BY <1>5 DEF K
  <2> HIDE DEF r, L
  <2>2. q[m] = rows[m] /\ m \in DOMAIN rows \ S
    BY <1>1, <1>5
  <2>3. \A j : j \in m .. K <=> (j = m \/ j \in m + 1 .. K)
    BY <1>1, <1>2
  <2>4. \A j : j \in (m .. N) \ S <=> (j = m \/ j \in (m + 1 .. N) \ S)
    BY <1>1, <1>5
  <2>5. {r[j] : j \in m .. L} = {rows[i] : i \in (m .. N) \ S}
    <3> DEFINE A == {q[j] : j \in m + 1 .. K}
               B == {rows[i] : i \in (m + 1 .. N) \ S}
    <3>1. {q[j] : j \in m .. K} = {q[m]} \union A
      BY <2>3
    <3>2. {rows[i] : i \in (m .. N) \ S} = {rows[m]} \union B
      BY <2>4
    <3>3. A = B
      BY <1>1
    <3> HIDE DEF A, B
    <3> QED BY <2>1, <2>2, <3>1, <3>2, <3>3
  <2>6. ASSUME Apart
        PROVE  \A j, k \in m .. L : r[j] = r[k] => j = k
    <3>1. \A i \in (m + 1 .. N) \ S : i \in DOMAIN rows \ S /\ i # m
      BY <1>1, <1>2
    <3>2. \A i \in (m + 1 .. N) \ S : rows[i] # rows[m]
      BY <2>2, <2>6, <3>1
    <3>3. rows[m] \notin {rows[i] : i \in (m + 1 .. N) \ S}
      BY <3>2
    <3>4. \A j \in m + 1 .. K : q[j] # q[m]
      BY <1>1, <2>2, <3>3
    <3>5. \A j, k \in m + 1 .. K : q[j] = q[k] => j = k
      BY <1>1, <2>6
    <3> QED BY <2>1, <2>3, <3>4, <3>5
  <2>7. L >= m - 1 /\ \A j \in 1 .. m - 1 : r[j] = rows[j]
    BY <1>1, <1>2, <2>1
  <2>8. r \in Seq(Rows)
    BY <1>1, <2>1
  <2>9. Below(rows, S, r, m - 1)
    BY <1>3, <2>5, <2>6, <2>7, <2>8, Zenon
  <2> QED BY <1>2, <2>9 DEF K, r
<1> QED BY <1>4, <1>5

\* The rows that are left when those at S are taken out from the bottom up.
LEMMA DeletedRows ==
  ASSUME NEW rows \in Seq(Rows), NEW S
  PROVE  /\ Deleted(rows, S) \in Seq(Rows)
         /\ Range(Deleted(rows, S)) = {rows[i] : i \in DOMAIN rows \ S}
         /\ (\A i, j \in DOMAIN rows \ S : rows[i] = rows[j] => i = j)
              => IsInjective(Deleted(rows, S))
<1> DEFINE N == Len(rows)
           R == Seq(Rows)
           Body(g, n) == IF n = 0 THEN rows
                         ELSE IF N - n + 1 \in S THEN RemoveAt(g[n - 1], N - n + 1)
                         ELSE g[n - 1]
           left == CHOOSE g : g = [n \in 0 .. N |-> Body(g, n)]
           step == [n \in Nat |-> [x \in R |->
                      IF N - n \in S /\ N - n \in 1 .. Len(x) THEN RemoveAt(x, N - n) ELSE x]]
<1>1. N \in Nat /\ DOMAIN rows = 1 .. N /\ \A i \in 1 .. N : rows[i] \in Rows
  OBVIOUS
<1>2. Deleted(rows, S) = left[N]
  BY DEF Deleted
<1>3. /\ rows \in R
      /\ \A n \in Nat, x \in R : N - n \in 1 .. Len(x) => RemoveAt(x, N - n) \in R
  BY RowRemoved
<1> HIDE DEF R
<1>4. step \in [Nat -> [R -> R]]
  BY <1>1, <1>3
<1> HIDE DEF step
<1>5. PICK h \in [0 .. N -> R] : UpTo(N, h, rows, step)
  BY <1>1, <1>3, <1>4, RecursionUpTo
<1> DEFINE T == {n \in Nat : n <= N => Below(rows, S, h[n], N - n)}
<1>6. ASSUME NEW n \in Nat, n + 1 <= N, Below(rows, S, h[n], N - n)
      PROVE  /\ h[n + 1] = IF N - n \in S THEN RemoveAt(h[n], N - n) ELSE h[n]
             /\ Below(rows, S, h[n + 1], N - (n + 1))
  <2>1. N - n \in 1 .. N /\ n \in 0 .. N - 1 /\ N - (n + 1) = (N - n) - 1
    BY <1>1, <1>6
  <2>2. h[n + 1] = step[n][h[n]]
    BY <1>5, <2>1 DEF UpTo
  <2> DEFINE m == N - n
  <2>3. m \in 1 .. N /\ Below(rows, S, h[n], m)
    BY <1>6, <2>1
  <2> HIDE DEF m
  <2>4. m \in 1 .. Len(h[n]) /\ Below(rows, S, IF m \in S THEN RemoveAt(h[n], m) ELSE h[n], m - 1)
    BY <2>3, BelowLess
  <2>5. h[n] \in R
    BY <2>3 DEF Below, R
  <2>6. step[n][h[n]] = IF m \in S THEN RemoveAt(h[n], m) ELSE h[n]
    BY <2>4, <2>5 DEF step, m
  <2> QED BY <2>1, <2>2, <2>4, <2>6 DEF m
<1>7. 0 \in T
  <2>1. h[0] = rows /\ N - 0 = N /\ N + 1 .. N = {}
    BY <1>1, <1>5 DEF UpTo
  <2>2. Below(rows, S, rows, N)
    BY <1>1, <2>1 DEF Below
  <2> QED BY <1>1, <2>1, <2>2
<1>8. ASSUME NEW n \in Nat \cap T PROVE n + 1 \in T
  BY <1>1, <1>6
<1>9. \A n \in 0 .. N : Below(rows, S, h[n], N - n)
  <2> HIDE DEF T
  <2>1. Nat \subseteq T
    BY <1>7, <1>8, Induction
  <2> QED BY <1>1, <2>1 DEF T
<1>10. ASSUME NEW n \in 0 .. N PROVE h[n] = Body(h, n)
  <2>1. CASE n = 0
    BY <1>5, <2>1 DEF UpTo
  <2>2. CASE n # 0
    <3> DEFINE k == n - 1
    <3>1. k \in Nat /\ k + 1 = n /\ k + 1 <= N /\ N - k = N - n + 1 /\ k \in 0 .. N
      BY <1>1, <2>2
    <3> HIDE DEF k
    <3>2. Below(rows, S, h[k], N - k)
      BY <1>9, <3>1
    <3>3. h[k + 1] = IF N - k \in S THEN RemoveAt(h[k], N - k) ELSE h[k]
      BY <1>6, <3>1, <3>2
    <3>4. h[n] = IF N - n + 1 \in S THEN RemoveAt(h[k], N - n + 1) ELSE h[k]
      BY <3>1, <3>3
    <3> QED BY <2>2, <3>4 DEF k
  <2> QED BY <2>1, <2>2
<1>11. h = [n \in 0 .. N |-> Body(h, n)]
  <2> HIDE DEF Body
  <2> QED BY <1>10
<1>12. left = [n \in 0 .. N |-> Body(left, n)]
  <2> HIDE DEF Body
  <2> QED BY <1>11
<1> HIDE DEF left
<1>13. \A n \in 0 .. N : left[n] = Body(left, n)
  <2> HIDE DEF Body
  <2> QED BY <1>12
<1>14. \A n \in 0 .. N : left[n] = h[n]
  <2> DEFINE U == {n \in Nat : n <= N => left[n] = h[n]}
  <2>1. 0 \in U
    BY <1>1, <1>10, <1>13
  <2>2. ASSUME NEW n \in Nat \cap U PROVE n + 1 \in U
    <3> SUFFICES ASSUME n + 1 <= N PROVE left[n + 1] = h[n + 1]
      OBVIOUS
    <3>1. n + 1 \in 0 .. N /\ n + 1 # 0 /\ (n + 1) - 1 = n /\ left[n] = h[n]
      BY <1>1
    <3>2. left[n + 1] = Body(left, n + 1) /\ h[n + 1] = Body(h, n + 1)
      <4> HIDE DEF Body, U
      <4> QED BY <1>10, <1>13, <3>1
    <3> HIDE DEF U
    <3> QED BY <3>1, <3>2
  <2> HIDE DEF U
  <2>3. Nat \subseteq U
    BY <2>1, <2>2, Induction
  <2> QED BY <1>1, <2>3 DEF U
<1>15. Deleted(rows, S) = h[N]
  BY <1>1, <1>2, <1>14
<1>16. Below(rows, S, h[N], 0) /\ 0 + 1 = 1
  BY <1>1, <1>9
<1> DEFINE q == h[N]
<1>17. /\ q \in Seq(Rows)
       /\ {q[j] : j \in 1 .. Len(q)} = {rows[i] : i \in DOMAIN rows \ S}
       /\ (\A i, j \in DOMAIN rows \ S : rows[i] = rows[j] => i = j)
            => \A j, k \in 1 .. Len(q) : q[j] = q[k] => j = k
  BY <1>1, <1>16 DEF Below
<1> HIDE DEF q
<1>18. DOMAIN q = 1 .. Len(q)
  BY <1>17
<1>19. Range(q) = {rows[i] : i \in DOMAIN rows \ S}
  BY <1>17, <1>18 DEF Range
<1> QED BY <1>15, <1>17, <1>18, <1>19 DEF IsInjective, q
-----------------------------------------------------------------------------
(***************************************************************************)
(* What the writes do to the sheet.                                        *)
(***************************************************************************)

\* The fields of a sheet.
LEMMA SheetFields ==
  ASSUME NEW s, SheetOK(s)
  PROVE  /\ s.augments \in Augs /\ s.header \in Headers /\ s.rows \in Seq(Rows)
         /\ Trimmed(s.rows)
         /\ \A rows : [s EXCEPT !.rows = rows]
                        = [augments |-> s.augments, header |-> s.header, rows |-> rows]
         /\ \A a : [s EXCEPT !.augments = a]
                     = [augments |-> a, header |-> s.header, rows |-> s.rows]
<1>1. s \in [augments : Augs, header : Headers, rows : Seq(Rows)] /\ Trimmed(s.rows)
  BY DEF SheetOK
<1> QED BY <1>1

\* A sheet under the header of now.
LEMMA HeadedTab ==
  ASSUME NEW s, SheetOK(s)
  PROVE  Headed(s) = [augments |-> s.augments, header |-> "current", rows |-> s.rows]
BY DEF SheetOK, Headed

\* The cells of ids.
IdCells(s, ids) ==
  [i \in DOMAIN ids |->
     [id |-> ids[i],
      v |-> IF i \notin DOMAIN s.rows THEN None
            ELSE IF s.header = "legacy" THEN Moved ELSE s.rows[i].v]]

\* The rows of the sheet s before what is empty at their end is left out.
RowsWritten(s, w) ==
  IF w.what = "all" THEN Over(s.rows, w.data)
  ELSE IF w.what = "ids" THEN Over(s.rows, IdCells(s, w.data))
  ELSE IF w.what = "update" THEN Over(s.rows, w.data)
  ELSE IF w.what = "delete" THEN Deleted(s.rows, w.data)
  ELSE IF w.what = "append" THEN s.rows \o w.data ELSE s.rows

AugmentsWritten(s, w) ==
  IF w.what = "clear" THEN None ELSE IF w.what = "augments" THEN w.data ELSE s.augments

HeaderWritten(s, w) == IF w.what \in {"all", "header"} THEN "current" ELSE s.header

\* What a write makes of a sheet, part by part.
LEMMA WrittenTab ==
  ASSUME NEW s, SheetOK(s), NEW w, WriteOK(w)
  PROVE  /\ Written(s, w).augments = AugmentsWritten(s, w)
         /\ Written(s, w).header = HeaderWritten(s, w)
         /\ Written(s, w).rows = Trim(RowsWritten(s, w))
         /\ RowsWritten(s, w) \in Seq(Rows)
         /\ SheetOK(Written(s, w))
<1> DEFINE T(a, h, rows) == [augments |-> a, header |-> h, rows |-> rows]
           W(t) == [t EXCEPT !.rows = Trim(@)]
<1>1. /\ s.augments \in Augs /\ s.header \in Headers /\ s.rows \in Seq(Rows)
      /\ \A rows : [s EXCEPT !.rows = rows] = T(s.augments, s.header, rows)
      /\ \A a : [s EXCEPT !.augments = a] = T(a, s.header, s.rows)
  BY SheetFields
<1>2. Headed(s) = T(s.augments, "current", s.rows)
  BY HeadedTab
<1>3. ASSUME NEW a, NEW h, NEW rows PROVE W(T(a, h, rows)) = T(a, h, Trim(rows))
  <2> DEFINE t == T(a, h, rows)
  <2>1. t \in [augments : {a}, header : {h}, rows : {rows}]
    OBVIOUS
  <2> HIDE DEF t
  <2>2. t.rows = rows /\ t.augments = a /\ t.header = h
    BY <2>1
  <2>3. [t EXCEPT !.rows = Trim(rows)] = T(a, h, Trim(rows))
    BY <2>1
  <2>4. W(t) = [t EXCEPT !.rows = Trim(rows)]
    BY <2>2
  <2> QED BY <2>3, <2>4 DEF t
<1>4. Written(s, w) = T(AugmentsWritten(s, w), HeaderWritten(s, w), Trim(RowsWritten(s, w)))
  <2>1. CASE w.what = "clear"
    <3>1. Written(s, w) = W([s EXCEPT !.augments = None])
      BY <2>1 DEF Written
    <3> QED BY <1>1, <1>3, <2>1, <3>1 DEF AugmentsWritten, HeaderWritten, RowsWritten
  <2>2. CASE w.what = "augments"
    <3>1. Written(s, w) = W([s EXCEPT !.augments = w.data])
      BY <2>2 DEF Written
    <3> QED BY <1>1, <1>3, <2>2, <3>1 DEF AugmentsWritten, HeaderWritten, RowsWritten
  <2>3. CASE w.what = "all"
    <3>1. Written(s, w) = W([Headed(s) EXCEPT !.rows = Over(@, w.data)])
      BY <2>3 DEF Written
    <3>2. [Headed(s) EXCEPT !.rows = Over(@, w.data)]
            = T(s.augments, "current", Over(s.rows, w.data))
      BY <1>2
    <3> QED BY <1>3, <2>3, <3>1, <3>2 DEF AugmentsWritten, HeaderWritten, RowsWritten
  <2>4. CASE w.what = "header"
    <3>1. Written(s, w) = W(Headed(s))
      BY <2>4 DEF Written
    <3> QED BY <1>2, <1>3, <2>4, <3>1 DEF AugmentsWritten, HeaderWritten, RowsWritten
  <2>5. CASE w.what = "ids"
    <3>1. Written(s, w) = W(UuidsWritten(s, w.data))
      BY <2>5 DEF Written
    <3>2. UuidsWritten(s, w.data) = T(s.augments, s.header, Over(s.rows, IdCells(s, w.data)))
      BY <1>1 DEF UuidsWritten, IdCells
    <3> QED BY <1>3, <2>5, <3>1, <3>2 DEF AugmentsWritten, HeaderWritten, RowsWritten
  <2>6. CASE w.what = "update"
    <3>1. Written(s, w) = W([s EXCEPT !.rows = Over(@, w.data)])
      BY <2>6 DEF Written
    <3>2. [s EXCEPT !.rows = Over(@, w.data)] = T(s.augments, s.header, Over(s.rows, w.data))
      BY <1>1
    <3> QED BY <1>3, <2>6, <3>1, <3>2 DEF AugmentsWritten, HeaderWritten, RowsWritten
  <2>7. CASE w.what = "delete"
    <3>1. Written(s, w) = W([s EXCEPT !.rows = Deleted(@, w.data)])
      BY <2>7 DEF Written
    <3>2. [s EXCEPT !.rows = Deleted(@, w.data)]
            = T(s.augments, s.header, Deleted(s.rows, w.data))
      BY <1>1
    <3> QED BY <1>3, <2>7, <3>1, <3>2 DEF AugmentsWritten, HeaderWritten, RowsWritten
  <2>8. CASE w.what = "append"
    <3>1. Written(s, w) = W([s EXCEPT !.rows = @ \o w.data])
      BY <2>8 DEF Written
    <3>2. [s EXCEPT !.rows = @ \o w.data] = T(s.augments, s.header, s.rows \o w.data)
      BY <1>1
    <3> QED BY <1>3, <2>8, <3>1, <3>2 DEF AugmentsWritten, HeaderWritten, RowsWritten
  <2> QED BY <2>1, <2>2, <2>3, <2>4, <2>5, <2>6, <2>7, <2>8 DEF WriteOK
<1>5. AugmentsWritten(s, w) \in Augs /\ HeaderWritten(s, w) \in Headers
  BY <1>1 DEF AugmentsWritten, HeaderWritten, WriteOK, Augs, Headers
<1>6. RowsWritten(s, w) \in Seq(Rows)
  <2> HIDE DEF T, W
  <2>1. CASE w.what = "all"
    <3>1. w.data \in Seq(Rows)
      BY <2>1 DEF WriteOK
    <3>2. /\ Len(w.data) \in Nat /\ DOMAIN w.data \subseteq 1 .. Len(w.data)
          /\ \A i \in DOMAIN w.data : w.data[i] \in Rows
      BY <3>1
    <3>3. Over(s.rows, w.data) \in Seq(Rows)
      BY <1>1, <3>2, OverRows
    <3> QED BY <2>1, <3>3 DEF RowsWritten
  <2>2. CASE w.what = "ids"
    <3> DEFINE ids == w.data
               cells == IdCells(s, ids)
    <3>1. ids \in Seq(Uuids \union OwnIds \union {Name})
      BY <2>2 DEF WriteOK
    <3>2. /\ Len(ids) \in Nat /\ DOMAIN ids = 1 .. Len(ids)
          /\ \A i \in 1 .. Len(ids) : ids[i] \in Uuids \union OwnIds \union {Name}
      BY <3>1
    <3>3. /\ DOMAIN cells \subseteq 1 .. Len(ids)
          /\ \A i \in DOMAIN cells : cells[i] \in Rows
      <4>1. DOMAIN cells = 1 .. Len(ids)
        BY <3>2 DEF IdCells
      <4>2. ASSUME NEW i \in 1 .. Len(ids) PROVE cells[i] \in Rows
        <5>1. i \in DOMAIN s.rows => s.rows[i] \in Rows
          BY <1>1
        <5>2. i \in DOMAIN s.rows => s.rows[i].v \in Values \union {None, Moved}
          BY <5>1 DEF Rows, Cells
        <5>3. ids[i] \in Uuids \union OwnIds \union {NoId, Name}
          BY <3>2
        <5>4. cells[i] = [id |-> ids[i],
                          v |-> IF i \notin DOMAIN s.rows THEN None
                                ELSE IF s.header = "legacy" THEN Moved ELSE s.rows[i].v]
          BY <3>2 DEF IdCells
        <5> QED BY <5>2, <5>3, <5>4 DEF Rows, Cells
      <4> QED BY <4>1, <4>2
    <3> HIDE DEF cells, ids
    <3>4. Over(s.rows, cells) \in Seq(Rows)
      BY <1>1, <3>2, <3>3, OverRows
    <3> QED BY <2>2, <3>4 DEF RowsWritten, cells, ids
  <2>3. CASE w.what = "update"
    <3>1. MaxRows \in Nat /\ DOMAIN w.data \subseteq 1 .. MaxRows
          /\ \A i \in DOMAIN w.data : w.data[i] \in Rows
      BY <2>3, SheetsAssumption DEF WriteOK
    <3>2. Over(s.rows, w.data) \in Seq(Rows)
      BY <1>1, <3>1, OverRows
    <3> QED BY <2>3, <3>2 DEF RowsWritten
  <2>4. CASE w.what = "delete"
    BY <1>1, <2>4, DeletedRows DEF RowsWritten
  <2>5. CASE w.what = "append"
    <3>1. w.data \in Seq(Rows)
      BY <2>5 DEF WriteOK
    <3> QED BY <1>1, <2>5, <3>1, Joined DEF RowsWritten
  <2> QED BY <1>1, <2>1, <2>2, <2>3, <2>4, <2>5 DEF RowsWritten
<1>7. Trim(RowsWritten(s, w)) \in Seq(Rows) /\ Trimmed(Trim(RowsWritten(s, w)))
  BY <1>6, TrimRows
<1> HIDE DEF T
<1>8. /\ T(AugmentsWritten(s, w), HeaderWritten(s, w), Trim(RowsWritten(s, w))).augments
           = AugmentsWritten(s, w)
      /\ T(AugmentsWritten(s, w), HeaderWritten(s, w), Trim(RowsWritten(s, w))).header
           = HeaderWritten(s, w)
      /\ T(AugmentsWritten(s, w), HeaderWritten(s, w), Trim(RowsWritten(s, w))).rows
           = Trim(RowsWritten(s, w))
  BY Zenon DEF T
<1>9. Written(s, w) \in [augments : Augs, header : Headers, rows : Seq(Rows)]
  BY <1>4, <1>5, <1>7 DEF T
<1> QED BY <1>4, <1>6, <1>7, <1>8, <1>9 DEF SheetOK

\* The rows of a plan: none is blank, and each has an id of its own.
LEMMA PlanRows ==
  ASSUME NEW p, PlanOK(p)
  PROVE  /\ p.augments \in Augs /\ p.rows \in Seq(Rows)
         /\ \A i \in DOMAIN p.rows : p.rows[i] # Blank /\ p.rows[i].id # NoId
         /\ Trim(p.rows) = p.rows
         /\ IsInjective(p.rows)
<1>1. p.augments \in Augs /\ p.rows \in Seq(Rows) /\ IsPlan(p)
  BY DEF PlanOK
<1>2. \A i \in DOMAIN p.rows : p.rows[i] # Blank /\ p.rows[i].id # NoId
  BY <1>1, BlankRow DEF IsPlan
<1>3. Trimmed(p.rows)
  <2>1. Len(p.rows) \in Nat /\ DOMAIN p.rows = 1 .. Len(p.rows)
    BY <1>1
  <2>2. CASE p.rows = <<>>
    BY <2>2 DEF Trimmed
  <2>3. CASE p.rows # <<>>
    <3>1. Len(p.rows) \in DOMAIN p.rows
      BY <1>1, <2>1, <2>3
    <3> QED BY <1>2, <3>1 DEF Trimmed
  <2> QED BY <2>2, <2>3
<1>4. IsInjective(p.rows)
  BY <1>1 DEF IsPlan, IsInjective
<1> QED BY <1>1, <1>2, <1>3, <1>4, TrimSame

\* Rows written over no more of them.
LEMMA OverAll ==
  ASSUME NEW rows \in Seq(Rows), NEW new \in Seq(Rows), Len(rows) <= Len(new)
  PROVE  Over(rows, new) = new
<1> DEFINE o == Over(rows, new)
           k == Len(rows)
           n == Len(new)
<1>1. /\ k \in Nat /\ DOMAIN rows = 1 .. k /\ n \in Nat /\ DOMAIN new = 1 .. n
      /\ \A i \in 1 .. n : new[i] \in Rows
  OBVIOUS
<1>2. /\ o \in Seq(Rows)
      /\ \A i \in DOMAIN rows : i \in DOMAIN o
      /\ \A i \in DOMAIN new : i \in DOMAIN o
      /\ \A i \in DOMAIN o :
           o[i] = IF i \in DOMAIN new THEN new[i]
                  ELSE IF i \in DOMAIN rows THEN rows[i] ELSE Blank
      /\ Len(o) \in {k} \union DOMAIN new
  <2>1. n \in Nat /\ DOMAIN new \subseteq 1 .. n /\ \A i \in DOMAIN new : new[i] \in Rows
    BY <1>1
  <2> HIDE DEF n
  <2> QED BY <2>1, OverRows
<1> HIDE DEF o
<1>3. Len(o) \in Nat /\ DOMAIN o = 1 .. Len(o)
  BY <1>2
<1>4. Len(o) <= n
  BY <1>1, <1>2
<1>5. n <= Len(o)
  <2>1. CASE n = 0
    BY <1>3, <2>1
  <2>2. CASE n # 0
    <3>1. n \in DOMAIN o
      BY <1>1, <1>2, <2>2
    <3> QED BY <1>1, <1>3, <3>1
  <2> QED BY <2>1, <2>2
<1>6. Len(o) = n
  BY <1>1, <1>3, <1>4, <1>5, Between
<1>7. \A i \in 1 .. Len(o) : o[i] = new[i]
  BY <1>1, <1>2, <1>3, <1>6
<1> HIDE DEF n
<1>8. o = new
  BY <1>2, <1>6, <1>7, SameRows DEF n
<1> QED BY <1>8 DEF o

\* A write to Augments leaves the rows, and those the queue takes have the
\* data of the plan.
LEMMA OpenOK ==
  ASSUME NEW m, NEW t, PlanOK(t), NEW w \in OpenWrites(m, t)
  PROVE  /\ WriteOK(w) /\ w.what \in {"augments", "all", "header", "ids"}
         /\ w.what = "augments" => w = AugWrite(t)
         /\ w.what = "all" => w = AllWrite(t) /\ m = "all"
         /\ w.what = "header" => m = "stamped"
         /\ w.what = "ids" => w = IdsWrite(t) /\ m = "stamped"
<1>1. t.augments \in Augs /\ t.rows \in Seq(Rows)
      /\ \A i \in DOMAIN t.rows : t.rows[i] # Blank /\ t.rows[i].id # NoId
  BY PlanRows
<1>2. [i \in DOMAIN t.rows |-> t.rows[i].id] \in Seq(Uuids \union OwnIds \union {Name})
  <2> DEFINE n == Len(t.rows)
             I == Uuids \union OwnIds \union {Name}
  <2>1. n \in Nat /\ DOMAIN t.rows = 1 .. n /\ \A i \in 1 .. n : t.rows[i] \in Rows
    BY <1>1
  <2>2. \A i \in 1 .. n : t.rows[i].id \in I
    BY <1>1, <2>1 DEF Rows
  <2> HIDE DEF n, I
  <2>3. [i \in 1 .. n |-> t.rows[i].id] \in Seq(I)
    BY <2>1, <2>2
  <2> QED BY <2>1, <2>3 DEF I
<1>3. CASE w = AugWrite(t)
  BY <1>1, <1>3 DEF AugWrite, WriteOK
<1>4. CASE w = AllWrite(t) /\ m = "all"
  BY <1>1, <1>4 DEF AllWrite, WriteOK
<1>5. CASE w = HeaderWrite /\ m = "stamped"
  BY <1>5 DEF HeaderWrite, WriteOK
<1>6. CASE w = IdsWrite(t) /\ m = "stamped"
  <2> DEFINE ids == [i \in DOMAIN t.rows |-> t.rows[i].id]
  <2>1. ids \in Seq(Uuids \union OwnIds \union {Name})
    BY <1>2
  <2> HIDE DEF ids
  <2>2. w = [what |-> "ids", data |-> ids] /\ m = "stamped"
    BY <1>6 DEF IdsWrite, ids
  <2> QED BY <1>6, <2>1, <2>2 DEF WriteOK
<1> QED BY <1>3, <1>4, <1>5, <1>6 DEF OpenWrites

\* What one of the open writes does: it is done, what holds of the sheet holds
\* still, and no other is undone.
LEMMA LandsOnce ==
  ASSUME NEW m, NEW t, PlanOK(t), NEW s, SheetOK(s), Fits(m, t, s),
         NEW w \in OpenWrites(m, t)
  PROVE  /\ SheetOK(Written(s, w)) /\ Fits(m, t, Written(s, w)) /\ Done(t, w, Written(s, w))
         /\ \A x \in OpenWrites(m, t) : Done(t, x, s) => Done(t, x, Written(s, w))
         /\ w.what = "augments" => /\ Written(s, w).rows = s.rows
                                   /\ Written(s, w).header = s.header
<1> DEFINE z == Written(s, w)
<1>1. /\ WriteOK(w) /\ w.what \in {"augments", "all", "header", "ids"}
      /\ w.what = "augments" => w = AugWrite(t)
      /\ w.what = "all" => w = AllWrite(t) /\ m = "all"
      /\ w.what = "header" => m = "stamped"
      /\ w.what = "ids" => w = IdsWrite(t) /\ m = "stamped"
  BY OpenOK
<1>2. /\ z.augments = AugmentsWritten(s, w) /\ z.header = HeaderWritten(s, w)
      /\ z.rows = Trim(RowsWritten(s, w)) /\ SheetOK(z)
  BY <1>1, WrittenTab
<1>3. /\ s.augments \in Augs /\ s.header \in Headers /\ s.rows \in Seq(Rows)
      /\ Trimmed(s.rows)
  BY SheetFields
<1>4. /\ t.rows \in Seq(Rows) /\ Trim(t.rows) = t.rows
      /\ \A i \in DOMAIN t.rows : t.rows[i] # Blank
  BY PlanRows
<1>5. Trim(s.rows) = s.rows
  BY <1>3, TrimSame
<1> HIDE DEF z
<1>6. CASE w.what = "augments"
  <2>1. z.augments = t.augments /\ z.header = s.header /\ z.rows = s.rows
    BY <1>1, <1>2, <1>5, <1>6 DEF AugmentsWritten, HeaderWritten, RowsWritten, AugWrite
  <2>2. Parsed(z) = Parsed(s)
    BY <2>1 DEF Parsed, ReadAs, HasUuids
  <2>3. Fits(m, t, z)
    BY <2>1, <2>2 DEF Fits, HasUuids
  <2>4. \A x : Done(t, x, s) => Done(t, x, z)
    BY <2>1 DEF Done
  <2>5. Done(t, w, z)
    BY <1>6, <2>1 DEF Done
  <2> QED BY <1>2, <2>1, <2>3, <2>4, <2>5 DEF z
<1>7. CASE w.what = "all"
  <2>1. Len(s.rows) <= Len(t.rows)
    BY <1>1, <1>7 DEF Fits
  <2>3. Over(s.rows, t.rows) = t.rows
    BY <1>3, <1>4, <2>1, OverAll
  <2>4. w.data = t.rows
    BY <1>1, <1>7 DEF AllWrite
  <2>5. z.augments = s.augments /\ z.header = "current" /\ z.rows = t.rows
    BY <1>2, <1>4, <1>7, <2>3, <2>4 DEF AugmentsWritten, HeaderWritten, RowsWritten
  <2>6. Len(t.rows) <= Len(t.rows)
    BY <1>4
  <2>7. Fits(m, t, z)
    BY <1>1, <1>7, <2>5, <2>6 DEF Fits
  <2>8. \A x : Done(t, x, s) => Done(t, x, z)
    BY <2>5 DEF Done
  <2>9. Done(t, w, z)
    BY <1>7, <2>5 DEF Done
  <2> QED BY <1>2, <1>7, <2>7, <2>8, <2>9 DEF z
<1>8. CASE w.what \in {"header", "ids"}
  <2>1. /\ m = "stamped" /\ s.augments = t.augments /\ HasUuids(s)
        /\ Len(s.rows) = Len(t.rows)
        /\ \A i \in DOMAIN s.rows :
             /\ s.rows[i] # Blank
             /\ \A h \in {s.header, "current"} : Layout[h][s.rows[i].v] = t.rows[i].v
    BY <1>1, <1>8 DEF Fits
  <2>2. s.header # "legacy"
    BY <2>1 DEF HasUuids
  <2>3. CASE w.what = "header"
    <3>1. z.augments = s.augments /\ z.header = "current" /\ z.rows = s.rows
      BY <1>2, <1>5, <2>3 DEF AugmentsWritten, HeaderWritten, RowsWritten
    <3>2. Fits(m, t, z)
      BY <2>1, <3>1 DEF Fits, HasUuids
    <3>3. \A x : Done(t, x, s) => Done(t, x, z)
      BY <3>1 DEF Done
    <3>4. Done(t, w, z)
      BY <2>3 DEF Done
    <3> QED BY <1>2, <2>3, <3>2, <3>3, <3>4 DEF z
  <2>4. CASE w.what = "ids"
    <3> DEFINE cells == IdCells(s, w.data)
               n == Len(t.rows)
    <3>1. w.data = [i \in DOMAIN t.rows |-> t.rows[i].id]
      BY <1>1, <2>4 DEF IdsWrite
    <3>2. /\ n \in Nat /\ DOMAIN t.rows = 1 .. n /\ DOMAIN s.rows = 1 .. n
          /\ \A i \in 1 .. n : t.rows[i] \in Rows /\ s.rows[i] \in Rows
      BY <1>3, <1>4, <2>1
    <3>3. cells = [i \in 1 .. n |-> [id |-> t.rows[i].id, v |-> s.rows[i].v]]
      BY <2>2, <3>1, <3>2 DEF IdCells
    <3>4. \A i \in 1 .. n : [id |-> t.rows[i].id, v |-> s.rows[i].v] \in Rows
      BY <3>2 DEF Rows
    <3>5. \A i \in 1 .. n : t.rows[i].id # NoId
      BY <3>2, PlanRows
    <3> HIDE DEF cells, n
    <3>6. /\ cells \in Seq(Rows) /\ Len(cells) = n /\ DOMAIN cells = 1 .. n
          /\ \A i \in 1 .. n : cells[i].id = t.rows[i].id /\ cells[i].v = s.rows[i].v
      BY <3>2, <3>3, <3>4
    <3>7. \A i \in 1 .. n : cells[i] # Blank
      BY <3>5, <3>6, BlankRow
    <3>8. Trim(cells) = cells
      <4>1. CASE n = 0
        <5>1. cells = <<>>
          BY <3>6, <4>1
        <5> QED BY <3>6, <5>1, TrimSame DEF Trimmed
      <4>2. CASE n # 0
        <5>1. cells[Len(cells)] # Blank
          BY <3>2, <3>6, <3>7, <4>2
        <5> QED BY <3>6, <5>1, TrimSame DEF Trimmed
      <4> QED BY <4>1, <4>2
    <3>9. Over(s.rows, cells) = cells
      <4>1. Len(s.rows) <= Len(cells)
        BY <2>1, <3>2, <3>6 DEF n
      <4> QED BY <1>3, <3>6, <4>1, OverAll
    <3>10. z.augments = s.augments /\ z.header = s.header /\ z.rows = cells
      BY <1>2, <2>4, <3>8, <3>9 DEF AugmentsWritten, HeaderWritten, RowsWritten, cells
    <3>11. Fits(m, t, z)
      BY <2>1, <3>2, <3>6, <3>7, <3>10 DEF Fits, HasUuids, n
    <3>12. Done(t, IdsWrite(t), z)
      BY <3>2, <3>6, <3>10 DEF Done, IdsWrite, n
    <3>13. \A x \in OpenWrites(m, t) : Done(t, x, z)
      BY <2>1, <3>12 DEF OpenWrites, Done, HeaderWrite
    <3> QED BY <1>2, <2>4, <3>11, <3>13 DEF z
  <2> QED BY <1>8, <2>3, <2>4
<1> QED BY <1>1, <1>6, <1>7, <1>8

\* When all are done, the sheet holds the plan.
LEMMA AllDone ==
  ASSUME NEW m \in {"all", "diff", "read", "stamped"}, NEW t, PlanOK(t),
         NEW s, SheetOK(s), Fits(m, t, s), \A w \in OpenWrites(m, t) : Done(t, w, s)
  PROVE  /\ s.augments = t.augments
         /\ m \in {"all", "diff"} => s.header = "current" /\ Holds(s.rows, t.rows)
         /\ m \in {"read", "stamped"} => Parsed(s) = t.rows
<1>1. CASE m = "all"
  <2>1. Done(t, AugWrite(t), s) /\ Done(t, AllWrite(t), s)
    BY <1>1 DEF OpenWrites
  <2> QED BY <1>1, <2>1 DEF Done, AugWrite, AllWrite, Holds
<1>2. CASE m = "diff"
  <2>1. Done(t, AugWrite(t), s)
    BY <1>2 DEF OpenWrites
  <2> QED BY <1>2, <2>1 DEF Done, AugWrite, Fits
<1>3. CASE m = "read"
  BY <1>3 DEF Fits
<1>4. CASE m = "stamped"
  <2> DEFINE n == Len(t.rows)
  <2>1. Done(t, IdsWrite(t), s)
    BY <1>4 DEF OpenWrites
  <2>2. /\ HasUuids(s) /\ s.augments = t.augments /\ Len(s.rows) = n
        /\ \A i \in DOMAIN t.rows : s.rows[i].id = t.rows[i].id
        /\ \A i \in DOMAIN s.rows :
             s.rows[i] # Blank /\ Layout[s.header][s.rows[i].v] = t.rows[i].v
    BY <1>4, <2>1 DEF Done, IdsWrite, Fits
  <2>3. /\ t.rows \in Seq(Rows) /\ n \in Nat /\ DOMAIN t.rows = 1 .. n
        /\ \A i \in 1 .. n : t.rows[i] \in Rows
    BY PlanRows
  <2>4. DOMAIN s.rows = 1 .. n
    BY <2>2, <2>3, SheetFields
  <2>5. \A i \in 1 .. n : ReadAs(s, s.rows[i]) = t.rows[i]
    BY <2>2, <2>3, <2>4 DEF ReadAs, Rows
  <2>6. [i \in DOMAIN s.rows |-> ReadAs(s, s.rows[i])] = t.rows
    BY <2>3, <2>4, <2>5
  <2>7. {i \in DOMAIN s.rows : s.rows[i] = Blank} = {}
    BY <2>2
  <2>8. Without(t.rows, {}) = t.rows
    BY <2>3, WithoutRows
  <2>9. Parsed(s) = t.rows
    BY <2>6, <2>7, <2>8 DEF Parsed
  <2> QED BY <1>4, <2>2, <2>9
<1> QED BY <1>1, <1>2, <1>3, <1>4
-----------------------------------------------------------------------------
(***************************************************************************)
(* The difference: when it is written, the tab holds the rows of the plan. *)
(***************************************************************************)

\* As many rows as things in them, when no two are alike.
LEMMA RowsNumbered ==
  ASSUME NEW R, NEW q \in Seq(R), IsInjective(q)
  PROVE  Cardinality(Range(q)) = Len(q)
<1>1. Len(q) \in Nat /\ DOMAIN q = 1 .. Len(q) /\ q \in [1 .. Len(q) -> Range(q)]
      /\ \A x \in Range(q) : \E i \in 1 .. Len(q) : q[i] = x
  BY Elements
<1>2. q \in Bijection(1 .. Len(q), Range(q))
  BY <1>1 DEF Bijection, Injection, Surjection
<1>3. ExistsBijection(1 .. Len(q), Range(q))
  BY <1>2 DEF ExistsBijection
<1> QED BY <1>1, <1>3, FS_CountingElements

\* Rows none of which is blank are read as they are.
LEMMA TrimFilled ==
  ASSUME NEW rows \in Seq(Rows), Blank \notin Range(rows)
  PROVE  Trim(rows) = rows
<1>1. /\ Len(rows) \in Nat /\ DOMAIN rows = 1 .. Len(rows)
      /\ \A i \in 1 .. Len(rows) : rows[i] \in Range(rows)
  BY Elements
<1>2. CASE Len(rows) = 0
  <2>1. rows = <<>>
    BY <1>2
  <2> QED BY <2>1, TrimSame DEF Trimmed
<1>3. CASE Len(rows) # 0
  <2>1. Len(rows) \in 1 .. Len(rows)
    BY <1>1, <1>3
  <2>2. rows[Len(rows)] # Blank
    BY <1>1, <2>1
  <2> QED BY <2>2, TrimSame DEF Trimmed
<1> QED BY <1>2, <1>3

\* The row of an id.
LEMMA RowOfIs ==
  ASSUME NEW p, PlanOK(p)
  PROVE  /\ \A id \in IdsOf(p.rows) :
              /\ RowOf(p.rows, id) \in Range(p.rows) /\ RowOf(p.rows, id) \in Rows
              /\ RowOf(p.rows, id).id = id
         /\ \A x \in Range(p.rows) :
              /\ x \in Rows /\ x # Blank /\ x.id # NoId
              /\ x.id \in IdsOf(p.rows) /\ RowOf(p.rows, x.id) = x
<1> DEFINE rows == p.rows
<1>1. rows \in Seq(Rows) /\ (\A i \in DOMAIN rows : rows[i] # Blank /\ rows[i].id # NoId)
      /\ IsPlan(p)
  BY PlanRows DEF PlanOK
<1>2. \A i, j \in DOMAIN rows : rows[i].id = rows[j].id => i = j
  BY <1>1 DEF IsPlan
<1>3. Len(rows) \in Nat /\ DOMAIN rows = 1 .. Len(rows)
      /\ (\A i \in DOMAIN rows : rows[i] \in Rows /\ rows[i] \in Range(rows))
      /\ (\A x \in Range(rows) : \E i \in DOMAIN rows : rows[i] = x)
  BY <1>1, Elements
<1> HIDE DEF rows
<1>4. ASSUME NEW id \in IdsOf(rows)
      PROVE  /\ RowOf(rows, id) \in Range(rows) /\ RowOf(rows, id) \in Rows
             /\ RowOf(rows, id).id = id
  <2>1. \E i \in DOMAIN rows : rows[i].id = id
    BY DEF IdsOf
  <2> DEFINE k == CHOOSE i \in DOMAIN rows : rows[i].id = id
  <2>2. k \in DOMAIN rows /\ rows[k].id = id
    BY <2>1
  <2> HIDE DEF k
  <2>3. RowOf(rows, id) = rows[k]
    BY DEF RowOf, k
  <2> QED BY <1>3, <2>2, <2>3
<1>5. ASSUME NEW x \in Range(rows)
      PROVE  /\ x \in Rows /\ x # Blank /\ x.id # NoId
             /\ x.id \in IdsOf(rows) /\ RowOf(rows, x.id) = x
  <2>1. PICK i \in DOMAIN rows : rows[i] = x
    BY <1>3
  <2>2. x.id \in IdsOf(rows)
    BY <2>1 DEF IdsOf
  <2>3. RowOf(rows, x.id) \in Range(rows) /\ RowOf(rows, x.id).id = x.id
    BY <1>4, <2>2
  <2>4. PICK j \in DOMAIN rows : rows[j] = RowOf(rows, x.id)
    BY <1>3, <2>3
  <2>5. i = j
    BY <1>2, <2>1, <2>3, <2>4
  <2> QED BY <1>1, <1>3, <2>1, <2>2, <2>4, <2>5
<1> QED BY <1>4, <1>5 DEF rows

\* The rows matched: each has its row of the plan, and no two the same.
LEMMA MatchedRows ==
  ASSUME NEW read \in Seq(Rows), NEW p, PlanOK(p)
  PROVE  /\ Matched(read, p.rows) \subseteq DOMAIN read
         /\ \A i \in Matched(read, p.rows) : read[i].id \in IdsOf(p.rows)
         /\ \A i, j \in Matched(read, p.rows) : read[i].id = read[j].id => i = j
<1>1. Len(read) \in Nat /\ DOMAIN read = 1 .. Len(read)
  OBVIOUS
<1>2. ASSUME NEW i \in Matched(read, p.rows), NEW j \in Matched(read, p.rows),
             read[i].id = read[j].id
      PROVE  i = j
  <2>1. i \in 1 .. Len(read) /\ j \in 1 .. Len(read)
        /\ First(read, i) /\ First(read, j)
    BY <1>1 DEF Matched
  <2>2. ~(i < j)
    <3> SUFFICES ASSUME i < j PROVE FALSE
      OBVIOUS
    <3>1. i \in 1 .. j - 1
      BY <2>1
    <3> QED BY <1>2, <2>1, <3>1 DEF First
  <2>3. ~(j < i)
    <3> SUFFICES ASSUME j < i PROVE FALSE
      OBVIOUS
    <3>1. j \in 1 .. i - 1
      BY <2>1
    <3> QED BY <1>2, <2>1, <3>1 DEF First
  <2> QED BY <2>1, <2>2, <2>3
<1>3. \A i \in Matched(read, p.rows) : i \in DOMAIN read /\ read[i].id \in IdsOf(p.rows)
  BY DEF Matched
<1> QED BY <1>2, <1>3

\* The three steps of the difference, each where there is something in it.
UpdateOf(read, rows) ==
  [what |-> "update", data |-> [i \in Changed(read, rows) |-> RowOf(rows, read[i].id)]]

DeleteOf(read, rows) == [what |-> "delete", data |-> DOMAIN read \ Matched(read, rows)]

NewRows(read, rows) ==
  Without(rows, {i \in DOMAIN rows : rows[i].id \in {read[k].id : k \in Matched(read, rows)}})

AppendOf(read, rows) == [what |-> "append", data |-> NewRows(read, rows)]

Updated(read, rows) ==
  IF Changed(read, rows) = {} THEN read ELSE RowsAfter(read, UpdateOf(read, rows))

Cleaned(read, rows) ==
  IF DOMAIN read = Matched(read, rows) THEN Updated(read, rows)
  ELSE RowsAfter(Updated(read, rows), DeleteOf(read, rows))

Completed(read, rows) ==
  IF NewRows(read, rows) = <<>> THEN Cleaned(read, rows)
  ELSE RowsAfter(Cleaned(read, rows), AppendOf(read, rows))

\* The rows once what has changed is written over them.
LEMMA UpdatedRows ==
  ASSUME NEW read \in Seq(Rows), NEW p, PlanOK(p)
  PROVE  /\ Updated(read, p.rows) \in Seq(Rows)
         /\ DOMAIN Updated(read, p.rows) \subseteq DOMAIN read
         /\ \A i \in Matched(read, p.rows) :
              i \in DOMAIN Updated(read, p.rows)
              /\ Updated(read, p.rows)[i] = RowOf(p.rows, read[i].id)
<1> DEFINE rows == p.rows
           kept == Matched(read, rows)
           C == Changed(read, rows)
           F(i) == RowOf(rows, read[i].id)
           new == [i \in C |-> F(i)]
           o == Over(read, new)
           n == Len(read)
<1>1. /\ n \in Nat /\ DOMAIN read = 1 .. n
      /\ \A i \in 1 .. n : read[i] \in Rows
  OBVIOUS
<1>2. /\ kept \subseteq DOMAIN read
      /\ \A i \in kept : F(i) \in Rows /\ F(i) # Blank
  <2>1. kept \subseteq DOMAIN read /\ \A i \in kept : read[i].id \in IdsOf(rows)
    BY MatchedRows
  <2>2. \A i \in kept : F(i) \in Rows /\ F(i) \in Range(rows)
    BY <2>1, RowOfIs
  <2>3. \A x \in Range(rows) : x # Blank
    BY RowOfIs
  <2> HIDE DEF F, kept
  <2> QED BY <2>1, <2>2, <2>3
<1>3. C \subseteq kept /\ \A i \in kept \ C : read[i] = F(i)
  BY DEF Changed
<1> HIDE DEF F, kept, C
<1>4. CASE C = {}
  <2>1. Updated(read, rows) = read
    BY <1>4 DEF Updated, C
  <2>2. \A i \in kept : i \in DOMAIN read /\ read[i] = F(i)
    BY <1>2, <1>3, <1>4
  <2> QED BY <2>1, <2>2 DEF F, kept
<1>5. CASE C # {}
  <2>1. Updated(read, rows) = Trim(o)
    BY <1>5, Zenon DEF Updated, RowsAfter, UpdateOf, C, F
  <2>2. /\ n \in Nat /\ DOMAIN new \subseteq 1 .. n /\ DOMAIN new = C
        /\ \A i \in DOMAIN new : new[i] \in Rows /\ new[i] = F(i)
    BY <1>1, <1>2, <1>3
  <2> HIDE DEF new, n
  <2>3. /\ o \in Seq(Rows)
        /\ \A i \in DOMAIN read : i \in DOMAIN o
        /\ \A i \in DOMAIN o :
             o[i] = IF i \in DOMAIN new THEN new[i]
                    ELSE IF i \in DOMAIN read THEN read[i] ELSE Blank
        /\ Len(o) \in {Len(read)} \union DOMAIN new
    BY <2>2, OverRows
  <2> HIDE DEF o
  <2>4. Len(o) \in Nat /\ DOMAIN o = 1 .. Len(o)
    BY <2>3
  <2>5. Len(o) <= n
    BY <1>1, <2>2, <2>3 DEF n
  <2>6. \A i \in DOMAIN o : i \in DOMAIN read
    BY <1>1, <2>4, <2>5
  <2>7. \A i \in kept : i \in DOMAIN o /\ o[i] = F(i)
    BY <1>2, <1>3, <2>2, <2>3
  <2>8. /\ Trim(o) \in Seq(Rows)
        /\ \A i \in DOMAIN Trim(o) : i \in DOMAIN o /\ Trim(o)[i] = o[i]
        /\ \A i \in DOMAIN o : o[i] # Blank => i \in DOMAIN Trim(o)
    BY <2>3, TrimRows
  <2> DEFINE u == Trim(o)
  <2>9. u \in Seq(Rows) /\ DOMAIN u \subseteq DOMAIN read
        /\ \A i \in kept : i \in DOMAIN u /\ u[i] = F(i)
    BY <1>2, <2>6, <2>7, <2>8
  <2> HIDE DEF u
  <2> QED BY <2>1, <2>9 DEF u, F, kept
<1> QED BY <1>4, <1>5

\* Only what is matched is left, each row once and as in the plan.
LEMMA CleanedRows ==
  ASSUME NEW read \in Seq(Rows), NEW p, PlanOK(p)
  PROVE  /\ Cleaned(read, p.rows) \in Seq(Rows) /\ IsInjective(Cleaned(read, p.rows))
         /\ Range(Cleaned(read, p.rows))
              = {RowOf(p.rows, read[i].id) : i \in Matched(read, p.rows)}
<1> DEFINE rows == p.rows
           kept == Matched(read, rows)
           F(i) == RowOf(rows, read[i].id)
           u == Updated(read, rows)
           S == DOMAIN read \ kept
           d == Deleted(u, S)
           K == {F(i) : i \in kept}
<1>1. /\ u \in Seq(Rows) /\ DOMAIN u \subseteq DOMAIN read
      /\ \A i \in kept : i \in DOMAIN u /\ u[i] = F(i)
  BY UpdatedRows
<1>2. /\ kept \subseteq DOMAIN read
      /\ \A i \in kept : F(i).id = read[i].id /\ F(i) # Blank
      /\ \A i, j \in kept : read[i].id = read[j].id => i = j
  <2>1. /\ kept \subseteq DOMAIN read /\ \A i \in kept : read[i].id \in IdsOf(rows)
    BY MatchedRows
  <2>2. \A i, j \in kept : read[i].id = read[j].id => i = j
    BY MatchedRows
  <2>3. \A i \in kept : F(i).id = read[i].id /\ F(i) \in Range(rows)
    BY <2>1, RowOfIs
  <2>4. \A x \in Range(rows) : x # Blank
    BY RowOfIs
  <2> HIDE DEF F, kept
  <2> QED BY <2>1, <2>2, <2>3, <2>4
<1> HIDE DEF F, kept, u
<1>3. DOMAIN u \ S = kept
  BY <1>1, <1>2
<1>4. \A i, j \in kept : u[i] = u[j] => i = j
  BY <1>1, <1>2
<1>5. {u[i] : i \in kept} = K
  BY <1>1
<1>6. CASE DOMAIN read = kept
  <2>1. Cleaned(read, rows) = u
    BY <1>6 DEF Cleaned, kept, u
  <2>2. DOMAIN u = kept
    BY <1>1, <1>6
  <2>3. Range(u) = K /\ IsInjective(u)
    BY <1>4, <1>5, <2>2 DEF Range, IsInjective
  <2> QED BY <1>1, <2>1, <2>3 DEF kept, F
<1>7. CASE DOMAIN read # kept
  <2>1. Cleaned(read, rows) = Trim(d)
    BY <1>7, Zenon DEF Cleaned, kept, u, RowsAfter, DeleteOf
  <2> HIDE DEF S
  <2>2. /\ d \in Seq(Rows)
        /\ Range(d) = {u[i] : i \in DOMAIN u \ S}
        /\ (\A i, j \in DOMAIN u \ S : u[i] = u[j] => i = j) => IsInjective(d)
    BY <1>1, DeletedRows
  <2> HIDE DEF d
  <2>3. Range(d) = K /\ IsInjective(d)
    BY <1>3, <1>4, <1>5, <2>2
  <2>4. Blank \notin Range(d)
    BY <1>2, <2>3
  <2>5. Trim(d) = d
    BY <2>2, <2>4, TrimFilled
  <2> QED BY <2>1, <2>2, <2>3, <2>5 DEF kept, F
<1> QED BY <1>6, <1>7

\* The rest is appended.
LEMMA CompletedRows ==
  ASSUME NEW read \in Seq(Rows), NEW p, PlanOK(p)
  PROVE  Holds(Completed(read, p.rows), p.rows)
<1> DEFINE rows == p.rows
           kept == Matched(read, rows)
           seen == {read[k].id : k \in kept}
           S == {i \in DOMAIN rows : rows[i].id \in seen}
           new == NewRows(read, rows)
           c == Cleaned(read, rows)
           z == c \o new
<1>1. /\ rows \in Seq(Rows) /\ IsInjective(rows)
      /\ \A i, j \in DOMAIN rows : rows[i].id = rows[j].id => i = j
  BY PlanRows DEF PlanOK, IsPlan
<1>2. /\ c \in Seq(Rows) /\ IsInjective(c)
      /\ Range(c) = {RowOf(rows, read[i].id) : i \in kept}
  BY CleanedRows
<1>3. /\ new \in Seq(Rows)
      /\ Range(new) = {rows[i] : i \in DOMAIN rows \ S}
      /\ (\A i, j \in DOMAIN rows \ S : rows[i] = rows[j] => i = j) => IsInjective(new)
  <2>1. new = Without(rows, S)
    BY Zenon DEF NewRows
  <2> HIDE DEF S, new
  <2> QED BY <1>1, <2>1, WithoutRows
<1>4. /\ \A i \in kept : read[i].id \in IdsOf(rows)
      /\ \A id \in IdsOf(rows) : RowOf(rows, id) \in Range(rows) /\ RowOf(rows, id).id = id
      /\ \A x \in Range(rows) : x # Blank /\ RowOf(rows, x.id) = x
  BY MatchedRows, RowOfIs
<1> HIDE DEF kept, new, c
<1>5. IsInjective(new)
  <2>1. \A i, j \in DOMAIN rows \ S : rows[i] = rows[j] => i = j
    BY <1>1
  <2> QED BY <1>3, <2>1
<1>6. \A x \in Range(c) : x \in Range(rows) /\ x.id \in seen
  BY <1>2, <1>4
<1>7. \A x \in Range(new) : x \in Range(rows) /\ x.id \notin seen
  BY <1>3 DEF Range
<1>8. ASSUME NEW x \in Range(rows) PROVE x \in Range(c) \union Range(new)
  <2>1. CASE x.id \in seen
    <3>1. PICK k \in kept : read[k].id = x.id
      BY <2>1
    <3>2. RowOf(rows, read[k].id) = x
      BY <1>4, <3>1
    <3> QED BY <1>2, <3>1, <3>2
  <2>2. CASE x.id \notin seen
    <3>1. PICK i \in DOMAIN rows : rows[i] = x
      BY DEF Range
    <3>2. i \in DOMAIN rows \ S
      BY <2>2, <3>1
    <3> QED BY <1>3, <3>1, <3>2
  <2> QED BY <2>1, <2>2
<1> HIDE DEF seen, S
<1>9. /\ z \in Seq(Rows) /\ IsInjective(z) /\ Range(z) = Range(c) \union Range(new)
  <2>1. Range(c) \intersect Range(new) = {}
    BY <1>6, <1>7
  <2>2. c \in Seq(Rows) /\ new \in Seq(Rows) /\ IsInjective(c) /\ IsInjective(new)
    BY <1>2, <1>3, <1>5
  <2> QED BY <2>1, <2>2, Joined
<1>10. Range(z) = Range(rows)
  BY <1>6, <1>7, <1>8, <1>9
<1>11. Completed(read, rows) = z
  <2>1. CASE new = <<>>
    <3>1. c \o <<>> = c
      BY <1>2
    <3> QED BY <2>1, <3>1 DEF Completed, new, c
  <2>2. CASE new # <<>>
    <3>1. Completed(read, rows) = Trim(z)
      BY <2>2, Zenon DEF Completed, new, c, RowsAfter, AppendOf
    <3>2. Blank \notin Range(z)
      BY <1>4, <1>10
    <3> HIDE DEF z
    <3> QED BY <1>9, <3>1, <3>2, TrimFilled
  <2> QED BY <2>1, <2>2
<1> HIDE DEF z
<1>12. Len(z) = Len(rows)
  BY <1>1, <1>9, <1>10, RowsNumbered
<1> QED BY <1>10, <1>11, <1>12 DEF Holds

\* Tuples one after the other.
LEMMA PairOf == ASSUME NEW R, NEW c \in Seq(R), Len(c) = 2 PROVE c = <<c[1], c[2]>>
  OBVIOUS

\* Three of a sequence are a triple.
LEMMA TripleOf == ASSUME NEW R, NEW c \in Seq(R), Len(c) = 3 PROVE c = <<c[1], c[2], c[3]>>
  OBVIOUS

\* Tuples that may be empty, one after the other.
LEMMA Tuples ==
  ASSUME NEW x, NEW y, NEW z
  PROVE  /\ (<<>> \o <<>>) \o <<>> = <<>> /\ (<<>> \o <<>>) \o <<z>> = <<z>>
         /\ (<<>> \o <<y>>) \o <<>> = <<y>> /\ (<<>> \o <<y>>) \o <<z>> = <<y, z>>
         /\ (<<x>> \o <<>>) \o <<>> = <<x>> /\ (<<x>> \o <<>>) \o <<z>> = <<x, z>>
         /\ (<<x>> \o <<y>>) \o <<>> = <<x, y>>
         /\ (<<x>> \o <<y>>) \o <<z>> = <<x, y, z>>
<1>1. ASSUME NEW p, NEW q PROVE <<p>> \o <<q>> = <<p, q>>
  <2> DEFINE R == {p, q}
  <2>1. <<p>> \in Seq(R) /\ <<q>> \in Seq(R)
    OBVIOUS
  <2> HIDE DEF R
  <2>2. <<p>> \o <<q>> \in Seq(R) /\ Len(<<p>> \o <<q>>) = 2
    BY <2>1
  <2>3. (<<p>> \o <<q>>)[1] = p
    BY <2>1
  <2>4. (<<p>> \o <<q>>)[2] = q
    BY <2>1
  <2> QED BY <2>2, <2>3, <2>4, PairOf
<1>2. <<x, y>> \o <<z>> = <<x, y, z>>
  <2> DEFINE R == {x, y, z}
  <2>1. <<x, y>> \in Seq(R) /\ <<z>> \in Seq(R)
    OBVIOUS
  <2> HIDE DEF R
  <2>2. <<x, y>> \o <<z>> \in Seq(R) /\ Len(<<x, y>> \o <<z>>) = 3
    BY <2>1
  <2>3. (<<x, y>> \o <<z>>)[1] = x
    BY <2>1
  <2>4. (<<x, y>> \o <<z>>)[2] = y
    BY <2>1
  <2>5. (<<x, y>> \o <<z>>)[3] = z
    BY <2>1
  <2> QED BY <2>2, <2>3, <2>4, <2>5, TripleOf
<1>3. <<>> \o <<>> = <<>>
  OBVIOUS
<1>4. \A p : <<>> \o <<p>> = <<p>>
  OBVIOUS
<1>5. \A p : <<p>> \o <<>> = <<p>>
  OBVIOUS
<1>6. <<x, y>> \o <<>> = <<x, y>>
  OBVIOUS
<1>7. /\ <<y>> \o <<z>> = <<y, z>> /\ <<x>> \o <<y>> = <<x, y>> /\ <<x>> \o <<z>> = <<x, z>>
  BY <1>1
<1> QED BY <1>2, <1>3, <1>4, <1>5, <1>6, <1>7, Zenon

\* The difference is a tuple of the steps that have something in them.
LEMMA DiffTuple ==
  ASSUME NEW read, NEW rows, NEW u, NEW d, NEW a,
         u = UpdateOf(read, rows), d = DeleteOf(read, rows), a = AppendOf(read, rows)
  PROVE  DiffWrites(read, rows) =
           IF Changed(read, rows) = {}
           THEN IF DOMAIN read = Matched(read, rows)
                THEN IF NewRows(read, rows) = <<>> THEN <<>> ELSE <<a>>
                ELSE IF NewRows(read, rows) = <<>> THEN <<d>> ELSE <<d, a>>
           ELSE IF DOMAIN read = Matched(read, rows)
                THEN IF NewRows(read, rows) = <<>> THEN <<u>> ELSE <<u, a>>
                ELSE IF NewRows(read, rows) = <<>> THEN <<u, d>> ELSE <<u, d, a>>
<1> DEFINE eu == Changed(read, rows) = {}
           ed == DOMAIN read = Matched(read, rows)
           ea == NewRows(read, rows) = <<>>
           W == (Unless(eu, u) \o Unless(ed, d)) \o Unless(ea, a)
<1>1. DiffWrites(read, rows) = W
  <2>1. DOMAIN [i \in Changed(read, rows) |-> RowOf(rows, read[i].id)] = Changed(read, rows)
    OBVIOUS
  <2> QED BY <2>1, Zenon DEF DiffWrites, UpdateOf, DeleteOf, AppendOf, NewRows
<1>2. /\ (eu => Unless(eu, u) = <<>>) /\ (~eu => Unless(eu, u) = <<u>>)
      /\ (ed => Unless(ed, d) = <<>>) /\ (~ed => Unless(ed, d) = <<d>>)
      /\ (ea => Unless(ea, a) = <<>>) /\ (~ea => Unless(ea, a) = <<a>>)
  BY Zenon DEF Unless
<1>3. /\ (<<>> \o <<>>) \o <<>> = <<>> /\ (<<>> \o <<>>) \o <<a>> = <<a>>
      /\ (<<>> \o <<d>>) \o <<>> = <<d>> /\ (<<>> \o <<d>>) \o <<a>> = <<d, a>>
      /\ (<<u>> \o <<>>) \o <<>> = <<u>> /\ (<<u>> \o <<>>) \o <<a>> = <<u, a>>
      /\ (<<u>> \o <<d>>) \o <<>> = <<u, d>>
      /\ (<<u>> \o <<d>>) \o <<a>> = <<u, d, a>>
  <2> HIDE DEF eu, ed, ea
  <2> QED BY Tuples
<1> HIDE DEF eu, ed, ea
<1>4. W = IF eu
          THEN IF ed THEN IF ea THEN <<>> ELSE <<a>> ELSE IF ea THEN <<d>> ELSE <<d, a>>
          ELSE IF ed THEN IF ea THEN <<u>> ELSE <<u, a>> ELSE IF ea THEN <<u, d>> ELSE <<u, d, a>>
  <2>1. CASE eu /\ ed
    BY <1>2, <1>3, <2>1, Zenon
  <2>2. CASE eu /\ ~ed
    BY <1>2, <1>3, <2>2, Zenon
  <2>3. CASE ~eu /\ ed
    BY <1>2, <1>3, <2>3, Zenon
  <2>4. CASE ~eu /\ ~ed
    BY <1>2, <1>3, <2>4, Zenon
  <2> QED BY <2>1, <2>2, <2>3, <2>4
<1> HIDE DEF W
<1> QED BY <1>1, <1>4, Zenon DEF eu, ed, ea

\* The requests of the difference, one after the other.
LEMMA DiffResult ==
  ASSUME NEW read, NEW rows
  PROVE  Result(read, DiffWrites(read, rows)) = Completed(read, rows)
<1> DEFINE u == UpdateOf(read, rows)
           d == DeleteOf(read, rows)
           a == AppendOf(read, rows)
           W == DiffWrites(read, rows)
           eu == Changed(read, rows) = {}
           ed == DOMAIN read = Matched(read, rows)
           ea == NewRows(read, rows) = <<>>
<1>1. W = IF eu
          THEN IF ed THEN IF ea THEN <<>> ELSE <<a>> ELSE IF ea THEN <<d>> ELSE <<d, a>>
          ELSE IF ed THEN IF ea THEN <<u>> ELSE <<u, a>> ELSE IF ea THEN <<u, d>> ELSE <<u, d, a>>
  BY DiffTuple
<1>2. Completed(read, rows) =
        LET x == IF eu THEN read ELSE RowsAfter(read, u)
            y == IF ed THEN x ELSE RowsAfter(x, d)
        IN  IF ea THEN y ELSE RowsAfter(y, a)
  BY Zenon DEF Completed, Cleaned, Updated
<1> SUFFICES Result(read, W) = Completed(read, rows)
  OBVIOUS
<1> HIDE DEF u, d, a, eu, ed, ea, W
<1>4. CASE eu /\ ed /\ ea
  <2>1. W = <<>>
    BY <1>1, <1>4, Zenon
  <2>2. Completed(read, rows) = read
    BY <1>2, <1>4, Zenon
  <2>3. Result(read, <<>>) = read
    BY DEF Result
  <2> QED BY <2>1, <2>2, <2>3, Zenon
<1>5. CASE eu /\ ed /\ ~ea
  <2>1. W = <<a>>
    BY <1>1, <1>5, Zenon
  <2>2. Completed(read, rows) = RowsAfter(read, a)
    BY <1>2, <1>5, Zenon
  <2>3. Result(read, <<a>>) = RowsAfter(read, a)
    BY DEF Result
  <2> QED BY <2>1, <2>2, <2>3, Zenon
<1>6. CASE eu /\ ~ed /\ ea
  <2>1. W = <<d>>
    BY <1>1, <1>6, Zenon
  <2>2. Completed(read, rows) = RowsAfter(read, d)
    BY <1>2, <1>6, Zenon
  <2>3. Result(read, <<d>>) = RowsAfter(read, d)
    BY DEF Result
  <2> QED BY <2>1, <2>2, <2>3, Zenon
<1>7. CASE eu /\ ~ed /\ ~ea
  <2>1. W = <<d, a>>
    BY <1>1, <1>7, Zenon
  <2>2. Completed(read, rows) = RowsAfter(RowsAfter(read, d), a)
    BY <1>2, <1>7, Zenon
  <2>3. Result(read, <<d, a>>) = RowsAfter(RowsAfter(read, d), a)
    BY DEF Result
  <2> QED BY <2>1, <2>2, <2>3, Zenon
<1>8. CASE ~eu /\ ed /\ ea
  <2>1. W = <<u>>
    BY <1>1, <1>8, Zenon
  <2>2. Completed(read, rows) = RowsAfter(read, u)
    BY <1>2, <1>8, Zenon
  <2>3. Result(read, <<u>>) = RowsAfter(read, u)
    BY DEF Result
  <2> QED BY <2>1, <2>2, <2>3, Zenon
<1>9. CASE ~eu /\ ed /\ ~ea
  <2>1. W = <<u, a>>
    BY <1>1, <1>9, Zenon
  <2>2. Completed(read, rows) = RowsAfter(RowsAfter(read, u), a)
    BY <1>2, <1>9, Zenon
  <2>3. Result(read, <<u, a>>) = RowsAfter(RowsAfter(read, u), a)
    BY DEF Result
  <2> QED BY <2>1, <2>2, <2>3, Zenon
<1>10. CASE ~eu /\ ~ed /\ ea
  <2>1. W = <<u, d>>
    BY <1>1, <1>10, Zenon
  <2>2. Completed(read, rows) = RowsAfter(RowsAfter(read, u), d)
    BY <1>2, <1>10, Zenon
  <2>3. Result(read, <<u, d>>) = RowsAfter(RowsAfter(read, u), d)
    BY DEF Result
  <2> QED BY <2>1, <2>2, <2>3, Zenon
<1>11. CASE ~eu /\ ~ed /\ ~ea
  <2>1. W = <<u, d, a>>
    BY <1>1, <1>11, Zenon
  <2>2. Completed(read, rows) = RowsAfter(RowsAfter(RowsAfter(read, u), d), a)
    BY <1>2, <1>11, Zenon
  <2>3. Result(read, <<u, d, a>>) = RowsAfter(RowsAfter(RowsAfter(read, u), d), a)
    BY DEF Result
  <2> QED BY <2>1, <2>2, <2>3, Zenon
<1> QED BY <1>4, <1>5, <1>6, <1>7, <1>8, <1>9, <1>10, <1>11, Zenon

\* The first of a sequence and the others.
LEMMA HeadTail ==
  ASSUME NEW R, NEW q \in Seq(R), q # <<>>
  PROVE  /\ Len(q) \in Nat /\ Len(q) >= 1 /\ Head(q) = q[1] /\ Head(q) \in R
         /\ Tail(q) \in Seq(R) /\ Len(Tail(q)) = Len(q) - 1
         /\ \A i \in 1 .. Len(q) - 1 : Tail(q)[i] = q[i + 1]
         /\ Range(q) = {Head(q)} \union Range(Tail(q))
<1> DEFINE n == Len(q)
           t == Tail(q)
           h == Head(q)
<1>1. n \in Nat /\ n >= 1 /\ h = q[1] /\ h \in R
  OBVIOUS
<1>2. t \in Seq(R)
  OBVIOUS
<1>3. Len(t) = n - 1
  OBVIOUS
<1>4. \A i \in 1 .. n - 1 : t[i] = q[i + 1]
  OBVIOUS
<1> HIDE DEF t, h, n
<1>5. /\ \A i \in 1 .. n : q[i] \in Range(q)
      /\ \A x \in Range(q) : \E i \in 1 .. n : q[i] = x
  BY Elements DEF n
<1>6. /\ \A i \in 1 .. n - 1 : t[i] \in Range(t)
      /\ \A x \in Range(t) : \E i \in 1 .. n - 1 : t[i] = x
  BY <1>2, <1>3, Elements
<1>7. \A i \in 1 .. n : i = 1 \/ (i - 1 \in 1 .. n - 1 /\ (i - 1) + 1 = i)
  BY <1>1
<1>8. ASSUME NEW x \in Range(q) PROVE x \in {h} \union Range(t)
  <2>1. PICK i \in 1 .. n : q[i] = x
    BY <1>5
  <2>2. CASE i = 1
    BY <1>1, <2>1, <2>2
  <2>3. CASE i - 1 \in 1 .. n - 1 /\ (i - 1) + 1 = i
    <3>1. t[i - 1] = q[(i - 1) + 1] /\ t[i - 1] \in Range(t)
      BY <1>4, <1>6, <2>3
    <3> QED BY <2>1, <2>3, <3>1
  <2> QED BY <1>7, <2>2, <2>3
<1>9. \A i \in 1 .. n - 1 : i + 1 \in 1 .. n
  BY <1>1
<1>10. \A x \in Range(t) : x \in Range(q)
  BY <1>4, <1>5, <1>6, <1>9
<1>11. 1 \in 1 .. n
  BY <1>1
<1>12. h \in Range(q)
  BY <1>1, <1>5, <1>11
<1>13. Range(q) = {h} \union Range(t)
  BY <1>8, <1>10, <1>12
<1> QED BY <1>1, <1>2, <1>3, <1>4, <1>13 DEF h, t, n

\* One request less.
LEMMA ResultStep ==
  ASSUME NEW todo, Differs(todo), IsQueue(todo), todo # <<>>, NEW rs
  PROVE  /\ Differs(Tail(todo)) /\ Head(todo).what \in {"update", "delete", "append"}
         /\ Result(RowsAfter(rs, Head(todo)), Tail(todo)) = Result(rs, todo)
<1> DEFINE R == Range(todo)
<1>1. todo \in Seq(R) /\ Len(todo) <= 3 /\ \A w \in R : w.what \in {"update", "delete", "append"}
  BY DEF Differs, IsQueue
<1> HIDE DEF R
<1> DEFINE tl == Tail(todo)
           n == Len(todo)
<1>2. /\ n \in Nat /\ n >= 1 /\ Head(todo) = todo[1] /\ Head(todo) \in R
      /\ tl \in Seq(R) /\ Len(tl) = n - 1
      /\ \A i \in 1 .. n - 1 : tl[i] = todo[i + 1]
  BY <1>1, HeadTail
<1> HIDE DEF tl, n
<1>3. n \in {1, 2, 3}
  BY <1>1, <1>2 DEF n
<1>4. Differs(tl)
  <2>1. Range(tl) \subseteq R
    BY <1>2, Elements
  <2>2. Len(tl) <= 3
    BY <1>2, <1>3
  <2> QED BY <1>1, <2>1, <2>2 DEF Differs
<1>5. Head(todo).what \in {"update", "delete", "append"}
  BY <1>1, <1>2
<1> DEFINE One == RowsAfter(rs, todo[1])
           Two == RowsAfter(One, todo[2])
<1>6. CASE n = 1
  <2>1. tl = <<>>
    BY <1>2, <1>6
  <2>2. Result(rs, todo) = One
    BY <1>6, Zenon DEF Result, n
  <2>3. Result(One, tl) = One
    BY <2>1, Zenon DEF Result
  <2> QED BY <1>2, <1>4, <1>5, <2>2, <2>3, Zenon DEF tl
<1>7. CASE n = 2
  <2>1. Len(tl) = 1
    BY <1>2, <1>7
  <2>2. tl # <<>>
    BY <2>1
  <2>3. tl[1] = todo[2]
    <3>1. 1 \in 1 .. n - 1 /\ 1 + 1 = 2
      BY <1>7
    <3> QED BY <1>2, <3>1
  <2>4. n # 1
    BY <1>7
  <2>5. Result(rs, todo) = Two
    BY <1>7, <2>4, Zenon DEF Result, n
  <2>6. Result(One, tl) = Two
    BY <2>1, <2>2, <2>3, Zenon DEF Result
  <2> QED BY <1>2, <1>4, <1>5, <2>5, <2>6, Zenon DEF tl
<1>8. CASE n = 3
  <2>1. Len(tl) = 2 /\ Len(tl) # 1
    BY <1>2, <1>8
  <2>2. tl # <<>>
    BY <2>1
  <2>3. tl[1] = todo[2] /\ tl[2] = todo[3]
    <3>1. 1 \in 1 .. n - 1 /\ 1 + 1 = 2 /\ 2 \in 1 .. n - 1 /\ 2 + 1 = 3
      BY <1>8
    <3> QED BY <1>2, <3>1
  <2>4. n # 1 /\ n # 2
    BY <1>8
  <2>5. Result(rs, todo) = RowsAfter(Two, todo[3])
    BY <2>4, Zenon DEF Result, n
  <2>6. Result(One, tl) = RowsAfter(Two, todo[3])
    BY <2>1, <2>2, <2>3, Zenon DEF Result
  <2> QED BY <1>2, <1>4, <1>5, <2>5, <2>6, Zenon DEF tl
<1> QED BY <1>3, <1>6, <1>7, <1>8

\* Queues.
LEMMA QueueOf ==
  ASSUME NEW R, NEW q \in Seq(R), \A w \in R : WriteOK(w)
  PROVE  IsQueue(q) /\ Range(q) \subseteq R
  BY Elements DEF IsQueue

\* An empty queue
LEMMA QueueNone == IsQueue(<<>>) /\ Range(<<>>) = {}
<1>1. Range(<<>>) = {}
  BY DEF Range
<1> QED BY <1>1 DEF IsQueue

\* the first of a queue and the others
LEMMA QueueHead ==
  ASSUME NEW q, IsQueue(q), q # <<>>
  PROVE  /\ WriteOK(Head(q)) /\ IsQueue(Tail(q)) /\ Head(q) \in Range(q)
         /\ Range(q) = {Head(q)} \union Range(Tail(q))
<1> DEFINE R == Range(q)
<1>1. q \in Seq(R) /\ \A w \in R : WriteOK(w)
  BY DEF IsQueue
<1> HIDE DEF R
<1>2. Head(q) \in R /\ Tail(q) \in Seq(R) /\ Range(q) = {Head(q)} \union Range(Tail(q))
  BY <1>1, HeadTail
<1>3. IsQueue(Tail(q))
  BY <1>1, <1>2, QueueOf
<1> QED BY <1>1, <1>2, <1>3 DEF R

\* a queue with one more
LEMMA QueueAppend ==
  ASSUME NEW q, IsQueue(q), NEW w, WriteOK(w)
  PROVE  IsQueue(Append(q, w)) /\ Range(Append(q, w)) = Range(q) \union {w}
<1> DEFINE R == Range(q) \union {w}
<1>1. q \in Seq(Range(q)) /\ \A x \in Range(q) : WriteOK(x)
  BY DEF IsQueue
<1>2. q \in Seq(R)
  BY <1>1, Elements
<1>3. \A x \in R : WriteOK(x)
  BY <1>1
<1>4. w \in R
  OBVIOUS
<1> HIDE DEF R
<1>5. Append(q, w) \in Seq(R) /\ Range(Append(q, w)) = Range(q) \union {w}
  BY <1>2, <1>4, Appended
<1> QED BY <1>3, <1>5, QueueOf

\* of one
LEMMA QueueOne ==
  ASSUME NEW w, WriteOK(w)
  PROVE  IsQueue(<<w>>) /\ Range(<<w>>) = {w} /\ Head(<<w>>) = w /\ Tail(<<w>>) = <<>>
<1>1. <<w>> \in Seq({w}) /\ Range(<<w>>) = {w}
  BY DEF Range
<1>2. Head(<<w>>) = w /\ Tail(<<w>>) = <<>>
  OBVIOUS
<1>3. \A y \in {w} : WriteOK(y)
  OBVIOUS
<1> QED BY <1>1, <1>2, <1>3, QueueOf

\* and of two.
LEMMA QueueTwo ==
  ASSUME NEW w, NEW x, WriteOK(w), WriteOK(x)
  PROVE  /\ IsQueue(<<w, x>>) /\ Range(<<w, x>>) = {w, x}
         /\ Head(<<w, x>>) = w /\ Tail(<<w, x>>) = <<x>>
<1>1. <<w, x>> \in Seq({w, x}) /\ Range(<<w, x>>) = {w, x}
  BY DEF Range
<1>2. Head(<<w, x>>) = w /\ Tail(<<w, x>>) = <<x>>
  OBVIOUS
<1>3. \A y \in {w, x} : WriteOK(y)
  OBVIOUS
<1> QED BY <1>1, <1>2, <1>3, QueueOf

\* The difference is a queue of its own.
LEMMA DiffOK ==
  ASSUME NEW read \in Seq(Rows), Len(read) <= MaxRows, NEW p, PlanOK(p)
  PROVE  IsQueue(DiffWrites(read, p.rows)) /\ Differs(DiffWrites(read, p.rows))
<1> DEFINE u == UpdateOf(read, p.rows)
           d == DeleteOf(read, p.rows)
           a == AppendOf(read, p.rows)
           R == {u, d, a}
           W == DiffWrites(read, p.rows)
<1>1. /\ WriteOK(u) /\ u.what = "update"
  <2> DEFINE C == Changed(read, p.rows)
             F(i) == RowOf(p.rows, read[i].id)
             f == [i \in C |-> F(i)]
  <2>1. \A i \in C : i \in DOMAIN read /\ read[i].id \in IdsOf(p.rows)
    BY MatchedRows DEF Changed
  <2>2. DOMAIN read = 1 .. Len(read) /\ Len(read) \in Nat /\ MaxRows \in Nat
    BY SheetsAssumption
  <2>3. \A i \in C : i \in 1 .. MaxRows /\ F(i) \in Rows
    BY <2>1, <2>2, RowOfIs
  <2> HIDE DEF C, F
  <2>4. DOMAIN f \subseteq 1 .. MaxRows /\ \A i \in DOMAIN f : f[i] \in Rows
    BY <2>3
  <2>5. u = [what |-> "update", data |-> f]
    BY Zenon DEF UpdateOf, C, F
  <2> HIDE DEF f, u
  <2>6. u.what = "update" /\ u.data = f
    BY <2>5
  <2> QED BY <2>4, <2>6 DEF WriteOK
<1>2. WriteOK(d) /\ d.what = "delete"
  BY DEF WriteOK, DeleteOf
<1>3. WriteOK(a) /\ a.what = "append"
  <2> DEFINE new == NewRows(read, p.rows)
  <2>1. p.rows \in Seq(Rows)
    BY PlanRows
  <2>2. new \in Seq(Rows)
    BY <2>1, WithoutRows DEF NewRows
  <2> HIDE DEF new
  <2>3. a = [what |-> "append", data |-> new]
    BY Zenon DEF AppendOf, new
  <2> HIDE DEF a
  <2> QED BY <2>2, <2>3 DEF WriteOK
<1>4. W \in {<<>>, <<a>>, <<d>>, <<d, a>>, <<u>>, <<u, a>>, <<u, d>>, <<u, d, a>>}
  <2>1. W = IF Changed(read, p.rows) = {}
           THEN IF DOMAIN read = Matched(read, p.rows)
                THEN IF NewRows(read, p.rows) = <<>> THEN <<>> ELSE <<a>>
                ELSE IF NewRows(read, p.rows) = <<>> THEN <<d>> ELSE <<d, a>>
           ELSE IF DOMAIN read = Matched(read, p.rows)
                THEN IF NewRows(read, p.rows) = <<>> THEN <<u>> ELSE <<u, a>>
                ELSE IF NewRows(read, p.rows) = <<>> THEN <<u, d>> ELSE <<u, d, a>>
    BY DiffTuple
  <2> HIDE DEF W, a, d, u
  <2>2. W = <<>> \/ W = <<a>> \/ W = <<d>> \/ W = <<d, a>> \/ W = <<u>> \/ W = <<u, a>>
        \/ W = <<u, d>> \/ W = <<u, d, a>>
    <3>1. CASE Changed(read, p.rows) = {}
      BY <2>1, <3>1, Zenon
    <3>2. CASE Changed(read, p.rows) # {}
      BY <2>1, <3>2, Zenon
    <3> QED BY <3>1, <3>2
  <2> QED BY <2>2, Zenon
<1>5. \A w \in R : WriteOK(w) /\ w.what \in {"update", "delete", "append"}
  BY <1>1, <1>2, <1>3
<1> HIDE DEF W, a, d, u
<1>6. W \in Seq(R) /\ Len(W) <= 3
  <2>1. u \in R /\ d \in R /\ a \in R
    OBVIOUS
  <2> HIDE DEF R
  <2>2. <<>> \in Seq(R) /\ Len(<<>>) <= 3
    OBVIOUS
  <2>3. \A x \in R : <<x>> \in Seq(R) /\ Len(<<x>>) <= 3
    OBVIOUS
  <2>4. \A x, y \in R : <<x, y>> \in Seq(R) /\ Len(<<x, y>>) <= 3
    OBVIOUS
  <2>5. <<u, d, a>> \in Seq(R) /\ Len(<<u, d, a>>) <= 3
    BY <2>1
  <2>6. CASE W \in {<<>>, <<a>>, <<d>>, <<u>>}
    BY <2>1, <2>2, <2>3, <2>6, Zenon
  <2>7. CASE W \in {<<d, a>>, <<u, a>>, <<u, d>>}
    BY <2>1, <2>4, <2>7, Zenon
  <2>8. CASE W = <<u, d, a>>
    BY <2>5, <2>8, Zenon
  <2> QED BY <1>4, <2>6, <2>7, <2>8, Zenon
<1> HIDE DEF R
<1>7. IsQueue(W) /\ Range(W) \subseteq R
  BY <1>5, <1>6, QueueOf
<1>8. Differs(W)
  BY <1>5, <1>6, <1>7 DEF Differs
<1> QED BY <1>7, <1>8 DEF W

-----------------------------------------------------------------------------
(***************************************************************************)
(* What is settled stays so.                                               *)
(***************************************************************************)

\* A write that may still reach the sheet reaches it.
LEMMA SettledLands ==
  ASSUME NEW m, NEW t, PlanOK(t), NEW s, SheetOK(s), NEW todo, NEW q, NEW l, NEW f,
         Settled(m, t, todo, s, q, l, f),
         NEW w \in Range(q) \union l \union Range(todo) \union Range(f.items)
                   \union Range(f.left),
         NEW todo2, NEW l2, NEW f2,
         Range(todo2) \subseteq Range(todo), Range(todo) \subseteq Range(todo2) \union {w},
         l2 \subseteq l,
         f2.on = f.on, Range(f2.items) \subseteq Range(f.items),
         Range(f.items) \subseteq Range(f2.items) \union {w},
         Range(f2.left) = Range(f.left)
  PROVE  SheetOK(Written(s, w)) /\ Settled(m, t, todo2, Written(s, w), q, l2, f2)
<1>1. /\ Fits(m, t, s)
      /\ Range(q) \union l \union Range(todo) \union Range(f.items) \union Range(f.left)
           \subseteq OpenWrites(m, t)
      /\ \A x \in OpenWrites(m, t) : Done(t, x, s) \/ x \in Range(q) \union Range(todo)
      /\ f.on => \A x \in Range(q) :
           Done(t, x, s) \/ x \in Range(f.items) \union Range(f.left)
  BY DEF Settled
<1>2. w \in OpenWrites(m, t)
  BY <1>1
<1>3. /\ SheetOK(Written(s, w)) /\ Fits(m, t, Written(s, w)) /\ Done(t, w, Written(s, w))
      /\ \A x \in OpenWrites(m, t) : Done(t, x, s) => Done(t, x, Written(s, w))
  BY <1>1, <1>2, LandsOnce
<1>4. Range(q) \union l2 \union Range(todo2) \union Range(f2.items) \union Range(f2.left)
        \subseteq OpenWrites(m, t)
  BY <1>1
<1>5. \A x \in OpenWrites(m, t) :
        Done(t, x, Written(s, w)) \/ x \in Range(q) \union Range(todo2)
  BY <1>1, <1>3
<1>6. f2.on => \A x \in Range(q) :
        Done(t, x, Written(s, w)) \/ x \in Range(f2.items) \union Range(f2.left)
  BY <1>1, <1>3
<1> QED BY <1>3, <1>4, <1>5, <1>6 DEF Settled

\* When the queue has been written the sheet holds the plan.
LEMMA OwedHolds ==
  ASSUME NEW m \in {"all", "diff", "read", "stamped"}, NEW t, PlanOK(t), SheetOK(sheet),
         IsQueue(queue), Settled(m, t, <<>>, sheet, queue, late, flush)
  PROVE  /\ Owed.augments = t.augments
         /\ m \in {"all", "diff"} => Owed.header = "current" /\ Holds(Owed.rows, t.rows)
         /\ m \in {"read", "stamped"} => Parsed(Owed) = t.rows
<1> DEFINE N == Len(queue)
           R == {x \in [augments : Augs, header : Headers, rows : Seq(Rows)] : SheetOK(x)}
           Body(g, n) == IF n = 0 THEN sheet ELSE Written(g[n - 1], queue[n])
           after == CHOOSE g : g = [n \in 0 .. N |-> Body(g, n)]
           step == [n \in Nat |-> [x \in R |->
                      IF n + 1 \in 1 .. N THEN Written(x, queue[n + 1]) ELSE x]]
<1>1. /\ N \in Nat /\ DOMAIN queue = 1 .. N /\ \A i \in 1 .. N : queue[i] \in Range(queue)
      /\ \A w \in Range(queue) : WriteOK(w) /\ \E i \in 1 .. N : queue[i] = w
  BY Elements DEF IsQueue
<1>2. Owed = after[N]
  BY DEF Owed
<1>3. /\ \A x : SheetOK(x) <=> x \in R
      /\ \A x \in R, w \in Range(queue) : Written(x, w) \in R
  <2>1. \A x : SheetOK(x) <=> x \in R
    BY DEF SheetOK
  <2>2. \A x, w : SheetOK(x) /\ WriteOK(w) => SheetOK(Written(x, w))
    BY WrittenTab
  <2> HIDE DEF R
  <2> QED BY <1>1, <2>1, <2>2
<1> HIDE DEF R
<1>4. step \in [Nat -> [R -> R]]
  BY <1>1, <1>3
<1>5. sheet \in R
  BY <1>3
<1> HIDE DEF step
<1>6. PICK h \in [0 .. N -> R] : UpTo(N, h, sheet, step)
  BY <1>1, <1>4, <1>5, RecursionUpTo
<1>7. ASSUME NEW n \in 0 .. N PROVE h[n] = Body(h, n)
  <2>1. CASE n = 0
    BY <1>6, <2>1 DEF UpTo
  <2>2. CASE n # 0
    <3>1. n \in 1 .. N /\ n - 1 \in Nat /\ (n - 1) + 1 = n /\ n - 1 \in 0 .. N
          /\ n - 1 \in 0 .. N - 1
      BY <1>1, <2>2
    <3>2. step[n - 1][h[n - 1]] = Written(h[n - 1], queue[n])
      BY <1>1, <3>1 DEF step
    <3>3. h[(n - 1) + 1] = step[n - 1][h[n - 1]]
      BY <1>6, <3>1 DEF UpTo
    <3> QED BY <2>2, <3>1, <3>2, <3>3
  <2> QED BY <2>1, <2>2
<1>8. h = [n \in 0 .. N |-> Body(h, n)]
  <2> HIDE DEF Body
  <2> QED BY <1>7
<1>9. after = [n \in 0 .. N |-> Body(after, n)]
  <2> HIDE DEF Body
  <2> QED BY <1>8
<1> HIDE DEF after
<1>10. \A n \in 0 .. N : after[n] = Body(after, n)
  <2> HIDE DEF Body
  <2> QED BY <1>9
<1> DEFINE Sofar(n) ==
             /\ SheetOK(after[n]) /\ Fits(m, t, after[n])
             /\ \A w \in OpenWrites(m, t) :
                  Done(t, w, after[n]) \/ \E i \in n + 1 .. N : queue[i] = w
           T == {n \in Nat : n <= N => Sofar(n)}
<1>11. /\ Fits(m, t, sheet) /\ Range(queue) \subseteq OpenWrites(m, t)
       /\ \A w \in OpenWrites(m, t) : Done(t, w, sheet) \/ w \in Range(queue)
  BY QueueNone DEF Settled
<1>12. 0 \in T
  <2>1. after[0] = sheet
    BY <1>1, <1>10
  <2>2. \A w \in Range(queue) : \E i \in 0 + 1 .. N : queue[i] = w
    BY <1>1
  <2> QED BY <1>11, <2>1, <2>2
<1>13. ASSUME NEW n \in Nat \cap T PROVE n + 1 \in T
  <2> SUFFICES ASSUME n + 1 <= N PROVE Sofar(n + 1)
    OBVIOUS
  <2>1. Sofar(n) /\ n + 1 \in 0 .. N /\ (n + 1) - 1 = n /\ n + 1 # 0 /\ n + 1 \in 1 .. N
    BY <1>1
  <2> HIDE DEF T
  <2> DEFINE w == queue[n + 1]
             a == after[n]
             b == after[n + 1]
  <2>2. b = Written(a, w)
    BY <1>10, <2>1
  <2>3. w \in OpenWrites(m, t)
    BY <1>1, <1>11, <2>1
  <2>4. SheetOK(a) /\ Fits(m, t, a)
    BY <2>1
  <2> HIDE DEF w, a, b
  <2>5. /\ SheetOK(b) /\ Fits(m, t, b) /\ Done(t, w, b)
        /\ \A x \in OpenWrites(m, t) : Done(t, x, a) => Done(t, x, b)
    BY <2>2, <2>3, <2>4, LandsOnce
  <2>6. ASSUME NEW x \in OpenWrites(m, t), ~Done(t, x, b)
        PROVE  \E i \in (n + 1) + 1 .. N : queue[i] = x
    <3>1. ~Done(t, x, a) /\ x # w
      BY <2>5, <2>6
    <3>2. PICK i \in n + 1 .. N : queue[i] = x
      BY <2>1, <3>1 DEF a
    <3>3. i # n + 1
      BY <3>1, <3>2 DEF w
    <3>4. i \in (n + 1) + 1 .. N
      BY <1>1, <3>3
    <3> QED BY <3>2, <3>4
  <2> QED BY <2>5, <2>6 DEF b
<1>14. Sofar(N)
  <2> HIDE DEF T
  <2>1. Nat \subseteq T
    BY <1>12, <1>13, Induction
  <2>2. N \in T /\ N <= N
    BY <1>1, <2>1
  <2> HIDE DEF Sofar
  <2> QED BY <2>2 DEF T
<1>15. SheetOK(after[N]) /\ Fits(m, t, after[N])
       /\ \A w \in OpenWrites(m, t) : Done(t, w, after[N])
  <2>1. N + 1 .. N = {}
    BY <1>1
  <2> QED BY <1>14, <2>1
<1> DEFINE z == after[N]
<1>16. Owed = z /\ SheetOK(z) /\ Fits(m, t, z) /\ \A w \in OpenWrites(m, t) : Done(t, w, z)
  BY <1>2, <1>15
<1> HIDE DEF z
<1>17. /\ z.augments = t.augments
       /\ m \in {"all", "diff"} => z.header = "current" /\ Holds(z.rows, t.rows)
       /\ m \in {"read", "stamped"} => Parsed(z) = t.rows
  BY <1>16, AllDone
<1> QED BY <1>16, <1>17

-----------------------------------------------------------------------------
(***************************************************************************)
(* The steps.                                                              *)
(***************************************************************************)

RunParts == {"kind", "reads", "todo", "snap", "alone"}

\* A screen at rest
LEMMA RestingIs ==
  /\ DOMAIN Resting = RunParts /\ Resting.kind = "none" /\ Resting.reads = <<>>
  /\ Resting.todo = <<>> /\ Resting.snap = None /\ Resting.alone = FALSE
  /\ RunOK(Resting)
<1>1. /\ DOMAIN Resting = RunParts /\ Resting.kind = "none" /\ Resting.reads = <<>>
      /\ Resting.todo = <<>> /\ Resting.snap = None /\ Resting.alone = FALSE
  BY DEF Resting, RunParts
<1>2. RunOK(Resting)
  BY <1>1, QueueNone DEF RunOK, RunParts
<1> QED BY <1>1, <1>2

\* and no flush.
LEMMA NoFlushIs ==
  /\ DOMAIN NoFlush = {"on", "items", "left"} /\ NoFlush.on = FALSE
  /\ NoFlush.items = <<>> /\ NoFlush.left = <<>>
  BY DEF NoFlush

\* What is known of an export or import.
LEMMA RunIs ==
  ASSUME NEW r, RunOK(r)
  PROVE  /\ DOMAIN r = RunParts /\ r.alone \in BOOLEAN /\ IsQueue(r.todo)
         /\ r.kind = "none" <=> r = Resting
         /\ r.kind \in {"none", "export", "import"}
         /\ r.kind = "export" => PlanOK(r.snap) /\ r.reads \in {<<"income">>, <<>>}
         /\ r.kind = "import" =>
              /\ r.snap \in [augments : Augs, rows : Seq(Rows)]
              /\ \/ r.reads \in {<<"augments", "income">>, <<"income">>} /\ r.todo = <<>>
                 \/ r.reads = <<>> /\ PlanOK(r.snap)
         /\ r.todo # <<>> => r.kind \in {"export", "import"} /\ PlanOK(r.snap)
                             /\ (r.kind = "import" => r.reads = <<>>)
<1>1. /\ DOMAIN r = RunParts /\ r.alone \in BOOLEAN /\ IsQueue(r.todo)
      /\ r.kind \in {"none", "export", "import"}
      /\ r.kind = "none" => r = Resting
      /\ r.kind = "export" => PlanOK(r.snap) /\ r.reads \in {<<"income">>, <<>>}
      /\ r.kind = "import" =>
              /\ r.snap \in [augments : Augs, rows : Seq(Rows)]
              /\ \/ r.reads \in {<<"augments", "income">>, <<"income">>} /\ r.todo = <<>>
                 \/ r.reads = <<>> /\ IsPlan(r.snap)
  BY Zenon DEF RunOK, RunParts
<1>2. r.kind = "import" /\ r.reads = <<>> /\ r.todo # <<>> => PlanOK(r.snap)
  BY <1>1 DEF PlanOK
<1>3. r.kind = "import" =>
        \/ r.reads \in {<<"augments", "income">>, <<"income">>} /\ r.todo = <<>>
        \/ r.reads = <<>> /\ PlanOK(r.snap)
  BY <1>1, Zenon DEF PlanOK
<1>4. r.todo # <<>> => r.kind # "none"
  BY <1>1, RestingIs
<1>5. r = Resting => r.kind = "none"
  BY RestingIs
<1> QED BY <1>1, <1>2, <1>3, <1>4, <1>5, Zenon

\* A part of an export or import is changed.
LEMMA Changes ==
  ASSUME NEW r, DOMAIN r = RunParts
  PROVE  /\ \A x : LET z == [r EXCEPT !.todo = x]
                   IN  /\ DOMAIN z = RunParts /\ z.todo = x /\ z.kind = r.kind
                       /\ z.reads = r.reads /\ z.snap = r.snap /\ z.alone = r.alone
         /\ \A x : LET z == [r EXCEPT !.alone = x]
                   IN  /\ DOMAIN z = RunParts /\ z.alone = x /\ z.kind = r.kind
                       /\ z.reads = r.reads /\ z.snap = r.snap /\ z.todo = r.todo
         /\ \A x : LET z == [r EXCEPT !.reads = x]
                   IN  /\ DOMAIN z = RunParts /\ z.reads = x /\ z.kind = r.kind
                       /\ z.todo = r.todo /\ z.snap = r.snap /\ z.alone = r.alone
         /\ \A x : LET z == [r EXCEPT !.snap = x]
                   IN  /\ DOMAIN z = RunParts /\ z.snap = x /\ z.kind = r.kind
                       /\ z.todo = r.todo /\ z.reads = r.reads /\ z.alone = r.alone
  BY DEF RunParts

\* What one screen is doing changes.
LEMMA RunChanges ==
  ASSUME NEW r, DOMAIN r = Screens, NEW s \in Screens, NEW x
  PROVE  /\ DOMAIN [r EXCEPT ![s] = x] = Screens /\ [r EXCEPT ![s] = x][s] = x
         /\ \A o \in Screens \ {s} : [r EXCEPT ![s] = x][o] = r[o]
  OBVIOUS

\* Whatever is under way is not alone any more, and else as it was.
LEMMA DisturbedRuns ==
  ASSUME DOMAIN run = Screens, \A s \in Screens : RunOK(run[s])
  PROVE  /\ DOMAIN Disturbed(run) = Screens
         /\ \A s \in Screens : /\ RunOK(Disturbed(run)[s]) /\ ~Disturbed(run)[s].alone
                               /\ run[s] = Resting <=> Disturbed(run)[s] = Resting
<1> DEFINE d == Disturbed(run)
<1>1. /\ DOMAIN d = Screens
      /\ \A s \in Screens :
           d[s] = IF run[s] = Resting THEN Resting ELSE [run[s] EXCEPT !.alone = FALSE]
  BY DEF Disturbed
<1> HIDE DEF d
<1>2. ASSUME NEW s \in Screens
      PROVE  RunOK(d[s]) /\ ~d[s].alone /\ (run[s] = Resting <=> d[s] = Resting)
  <2>1. CASE run[s] = Resting
    BY <1>1, <2>1, RestingIs
  <2>2. CASE run[s] # Resting
    <3> DEFINE r == run[s]
               z == [r EXCEPT !.alone = FALSE]
    <3>1. d[s] = z /\ RunOK(r) /\ r # Resting
      BY <1>1, <2>2
    <3> HIDE DEF r
    <3>2. DOMAIN r = RunParts /\ r.kind # "none"
      BY <3>1, RunIs
    <3>3. /\ DOMAIN z = RunParts /\ z.alone = FALSE /\ z.kind = r.kind
          /\ z.reads = r.reads /\ z.snap = r.snap /\ z.todo = r.todo
      BY <3>2, Changes
    <3> HIDE DEF z
    <3>4. RunOK(z)
      BY <3>1, <3>2, <3>3 DEF RunOK, RunParts
    <3>5. z # Resting
      BY <3>2, <3>3, RestingIs
    <3> QED BY <2>2, <3>1, <3>3, <3>4, <3>5
  <2> QED BY <2>1, <2>2
<1> QED BY <1>1, <1>2 DEF d

\* What an export or import is at, while it is alone.
Stage(r, s, q, l) ==
  /\ r.kind = "export" => ExportStage(r, s, q, l)
  /\ r.kind = "import" => ImportStage(r, s, q, l)

\* Who is alone, and what has to be shown when it goes on.
LEMMA AloneMoves ==
  ASSUME AloneOK, NEW s \in Screens, run[s] # Resting,
         \A o \in Screens \ {s} : run'[o] = run[o],
         run'[s].alone => /\ run[s].alone /\ UNCHANGED <<flush, backup, source>>
                          /\ Stage(run'[s], sheet', queue', late')
  PROVE  AloneOK'
<1> SUFFICES ASSUME NEW x \in Screens, run'[x].alone
             PROVE  /\ \A o \in Screens \ {x} : run'[o] = Resting
                    /\ flush' = NoFlush /\ backup' = None /\ source' = None
                    /\ Stage(run'[x], sheet', queue', late')
  BY DEF AloneOK, Stage
<1>1. x = s
  <2> SUFFICES ASSUME x # s PROVE FALSE
    OBVIOUS
  <2>1. run[x].alone
    OBVIOUS
  <2> QED BY <2>1 DEF AloneOK
<1>2. run[s].alone /\ UNCHANGED <<flush, backup, source>>
      /\ Stage(run'[s], sheet', queue', late')
  BY <1>1
<1>3. /\ \A o \in Screens \ {s} : run[o] = Resting
      /\ flush = NoFlush /\ backup = None /\ source = None
  BY <1>2 DEF AloneOK
<1> QED BY <1>1, <1>2, <1>3

\* Who is alone
LEMMA AloneIs ==
  ASSUME AloneOK, NEW s \in Screens, run[s].alone
  PROVE  /\ \A o \in Screens \ {s} : run[o] = Resting
         /\ flush = NoFlush /\ backup = None /\ source = None
         /\ Stage(run[s], sheet, queue, late)
  BY DEF AloneOK, Stage

\* nobody
LEMMA NoneAlone ==
  ASSUME \A s \in Screens : ~run'[s].alone
  PROVE  AloneOK'
  BY DEF AloneOK

\* and what is known while something is under way: nothing
LEMMA NoneKnown ==
  ASSUME KnownOK, NEW s \in Screens, run[s] # Resting
  PROVE  backup = None /\ source = None
  BY DEF KnownOK

\* which then holds.
LEMMA StillNone ==
  ASSUME backup' = None, source' = None
  PROVE  KnownOK'
  BY DEF KnownOK, Known

\* A write of an export or import less.
LEMMA TailTodo ==
  ASSUME NEW r, RunOK(r), r.todo # <<>>, NEW z, z = [r EXCEPT !.todo = Tail(r.todo)]
  PROVE  /\ RunOK(z) /\ z.kind = r.kind /\ z.reads = r.reads /\ z.snap = r.snap
         /\ z.alone = r.alone /\ z.todo = Tail(r.todo)
<1>1. /\ DOMAIN r = RunParts /\ r.alone \in BOOLEAN /\ IsQueue(r.todo)
      /\ r.kind = "export" => PlanOK(r.snap) /\ r.reads \in {<<"income">>, <<>>}
      /\ r.kind \in {"export", "import"} /\ PlanOK(r.snap)
      /\ r.kind = "import" => /\ r.snap \in [augments : Augs, rows : Seq(Rows)]
                              /\ r.reads = <<>>
  BY RunIs, Zenon
<1>2. /\ DOMAIN z = RunParts /\ z.kind = r.kind /\ z.reads = r.reads /\ z.snap = r.snap
      /\ z.alone = r.alone /\ z.todo = Tail(r.todo)
  BY <1>1, Changes
<1>3. IsQueue(z.todo)
  BY <1>1, <1>2, QueueHead
<1>4. r.kind # "none"
  BY <1>1
<1>5. RunOK(z)
  BY <1>1, <1>2, <1>3, <1>4, Zenon DEF RunOK, RunParts, PlanOK
<1> QED BY <1>2, <1>5

\* The writes of the tabs that are cleared and written.
LEMMA FullReplaceIs ==
  ASSUME NEW p, PlanOK(p)
  PROVE  /\ IsQueue(FullReplace(p)) /\ Head(FullReplace(p)).what = "clear"
         /\ FullReplace(p) # <<>> /\ Tail(FullReplace(p)) = <<AugWrite(p)>>
         /\ WriteOK(AugWrite(p)) /\ AugWrite(p).what = "augments"
         /\ AugWrite(p).data = p.augments
<1> DEFINE c == [what |-> "clear", data |-> None]
           a == AugWrite(p)
<1>1. WriteOK(a) /\ a.what = "augments" /\ a.data = p.augments
  BY PlanRows DEF AugWrite, WriteOK
<1>2. WriteOK(c) /\ c.what = "clear"
  BY DEF WriteOK
<1>3. FullReplace(p) = <<c, a>>
  BY DEF FullReplace, AugWrite
<1> HIDE DEF c, a
<1>4. /\ IsQueue(<<c, a>>) /\ Head(<<c, a>>) = c /\ Tail(<<c, a>>) = <<a>>
  BY <1>1, <1>2, QueueTwo
<1>5. <<c, a>> # <<>>
  OBVIOUS
<1> QED BY <1>1, <1>2, <1>3, <1>4, <1>5 DEF a

\* A write of an export that is alone reaches the sheet.
LEMMA ExportLands ==
  ASSUME NEW r, RunOK(r), r.todo # <<>>, NEW s, SheetOK(s), NEW q, NEW l,
         r.kind = "export", ExportStage(r, s, q, l),
         NEW z, z.reads = r.reads, z.snap = r.snap, z.todo = Tail(r.todo)
  PROVE  ExportStage(z, Written(s, Head(r.todo)), q, l)
<1> DEFINE w == Head(r.todo)
           y == Written(s, w)
           t == r.snap
<1>1. PlanOK(t) /\ IsQueue(r.todo)
  BY RunIs
<1>2. /\ WriteOK(w) /\ IsQueue(Tail(r.todo)) /\ w \in Range(r.todo)
      /\ Range(r.todo) = {w} \union Range(Tail(r.todo))
  BY <1>1, QueueHead
<1>3. SheetOK(y)
  BY <1>2, WrittenTab
<1>4. NoFlush.on = FALSE /\ Range(NoFlush.items) = {} /\ Range(NoFlush.left) = {}
      /\ Range(<<>>) = {}
  BY NoFlushIs, QueueNone
<1> HIDE DEF w, y
<1>5. CASE Clearing(r, q, l)
  <2>1. r.todo = FullReplace(t) /\ r.reads = <<"income">> /\ q = <<>> /\ l = {}
    BY <1>5 DEF Clearing
  <2>2. z.todo = <<AugWrite(t)>> /\ Range(<<AugWrite(t)>>) = {AugWrite(t)}
    BY <1>1, <2>1, FullReplaceIs, QueueOne
  <2>3. Settled("tabs", t, z.todo, y, q, l, NoFlush)
    BY <1>4, <2>1, <2>2 DEF Settled, Fits, OpenWrites
  <2> QED BY <2>1, <2>3 DEF ExportStage, Filling, y, w
<1>6. ASSUME NEW m, Settled(m, t, r.todo, s, q, l, NoFlush)
      PROVE  Settled(m, t, z.todo, y, q, l, NoFlush)
  BY <1>1, <1>2, <1>6, SettledLands DEF y
<1>7. CASE Filling(r, s, q, l)
  BY <1>6, <1>7 DEF Filling, ExportStage, y, w
<1>8. CASE Replacing(r, s, q, l)
  BY <1>6, <1>8 DEF Replacing, ExportStage, y, w
<1>9. CASE Matching(r, s, q, l)
  <2>1. /\ r.reads = <<>> /\ Settled("tabs", t, <<>>, s, q, l, NoFlush)
        /\ s.header = "current" /\ Differs(r.todo) /\ Holds(Result(s.rows, r.todo), t.rows)
    BY <1>9 DEF Matching
  <2>2. /\ Differs(Tail(r.todo)) /\ w.what \in {"update", "delete", "append"}
        /\ Result(RowsAfter(s.rows, w), Tail(r.todo)) = Result(s.rows, r.todo)
    BY <1>1, <2>1, ResultStep DEF w
  <2>3. /\ y.augments = AugmentsWritten(s, w) /\ y.header = HeaderWritten(s, w)
        /\ y.rows = Trim(RowsWritten(s, w))
    BY <1>2, WrittenTab DEF y
  <2>4. y.augments = s.augments /\ y.header = "current" /\ y.rows = RowsAfter(s.rows, w)
    BY <2>1, <2>2, <2>3 DEF AugmentsWritten, HeaderWritten, RowsWritten, RowsAfter
  <2>5. \A x \in OpenWrites("tabs", t) : Done(t, x, s) => Done(t, x, y)
    BY <2>4, FullReplaceIs DEF OpenWrites, Done, AugWrite
  <2>6. Settled("tabs", t, <<>>, y, q, l, NoFlush)
    BY <1>4, <2>1, <2>5 DEF Settled, Fits
  <2>7. Matching(z, y, q, l)
    BY <2>1, <2>2, <2>4, <2>6 DEF Matching
  <2> QED BY <2>7 DEF ExportStage, y, w
<1> QED BY <1>5, <1>7, <1>8, <1>9 DEF ExportStage

\* A write of an import that is alone reaches the sheet.
LEMMA ImportLands ==
  ASSUME NEW r, RunOK(r), r.todo # <<>>, NEW s, SheetOK(s), NEW q, NEW l,
         r.kind = "import", ImportStage(r, s, q, l),
         NEW z, z.reads = r.reads, z.snap = r.snap, z.todo = Tail(r.todo)
  PROVE  ImportStage(z, Written(s, Head(r.todo)), q, l)
<1> DEFINE w == Head(r.todo)
           y == Written(s, w)
           t == r.snap
<1>1. PlanOK(t) /\ IsQueue(r.todo) /\ r.reads = <<>>
  BY RunIs
<1>2. /\ WriteOK(w) /\ IsQueue(Tail(r.todo)) /\ w \in Range(r.todo)
      /\ Range(r.todo) = {w} \union Range(Tail(r.todo))
  BY <1>1, QueueHead
<1> HIDE DEF w
<1>3. PICK m \in {"read", "stamped"} : Settled(m, t, r.todo, s, q, l, NoFlush)
  BY <1>1 DEF ImportStage, Reading
<1>4. Settled(m, t, z.todo, y, q, l, NoFlush)
  BY <1>1, <1>2, <1>3, SettledLands
<1> QED BY <1>1, <1>4 DEF ImportStage, w

\* It is queued instead.
LEMMA SettledFails ==
  ASSUME NEW m, NEW t, NEW todo, IsQueue(todo), todo # <<>>, NEW s, NEW q, IsQueue(q),
         NEW l, NEW l2 \in {l, l \union {Head(todo)}},
         Settled(m, t, todo, s, q, l, NoFlush)
  PROVE  Settled(m, t, Tail(todo), s, Append(q, Head(todo)), l2, NoFlush)
<1> DEFINE w == Head(todo)
<1>1. /\ WriteOK(w) /\ w \in Range(todo) /\ Range(todo) = {w} \union Range(Tail(todo))
  BY QueueHead
<1> HIDE DEF w
<1>2. Range(Append(q, w)) = Range(q) \union {w}
  BY <1>1, QueueAppend
<1>3. NoFlush.on = FALSE
  BY NoFlushIs
<1>4. l2 \subseteq l \union {w}
  BY DEF w
<1>5. Settled(m, t, Tail(todo), s, Append(q, w), l2, NoFlush)
  BY <1>1, <1>2, <1>3, <1>4 DEF Settled
<1> QED BY <1>5 DEF w

\* One is queued, and the stage stays.
LEMMA StageFails ==
  ASSUME NEW r, RunOK(r), r.todo # <<>>, Queueable(Head(r.todo)), NEW s, NEW q, IsQueue(q),
         NEW l, NEW l2 \in {l, l \union {Head(r.todo)}}, Stage(r, s, q, l),
         NEW z, z.kind = r.kind, z.reads = r.reads, z.snap = r.snap, z.todo = Tail(r.todo)
  PROVE  Stage(z, s, Append(q, Head(r.todo)), l2)
<1> DEFINE w == Head(r.todo)
           q2 == Append(q, w)
<1>1. IsQueue(r.todo) /\ r.kind \in {"export", "import"} /\ PlanOK(r.snap)
      /\ (r.kind = "import" => r.reads = <<>>)
  BY RunIs
<1>2. w.what \in {"augments", "all", "header", "ids"}
  BY DEF Queueable
<1> HIDE DEF q2
<1>3. ASSUME NEW m, Settled(m, r.snap, r.todo, s, q, l, NoFlush)
      PROVE  Settled(m, z.snap, z.todo, s, q2, l2, NoFlush)
  <2> DEFINE todo == r.todo
             t == r.snap
  <2>1. /\ IsQueue(todo) /\ todo # <<>> /\ l2 \in {l, l \union {Head(todo)}}
        /\ Settled(m, t, todo, s, q, l, NoFlush)
    BY <1>1, <1>3
  <2> HIDE DEF todo, t
  <2>2. Settled(m, t, Tail(todo), s, Append(q, Head(todo)), l2, NoFlush)
    BY <2>1, SettledFails
  <2> QED BY <2>2 DEF q2, todo, t
<1>4. CASE r.kind = "export"
  <2>1. ExportStage(r, s, q, l)
    BY <1>4 DEF Stage
  <2>2. ~Clearing(r, q, l)
    BY <1>1, <1>2, FullReplaceIs DEF Clearing
  <2>3. ~Matching(r, s, q, l)
    BY <1>1, <1>2, ResultStep DEF Matching
  <2>4. ExportStage(z, s, q2, l2)
    BY <1>3, <2>1, <2>2, <2>3 DEF ExportStage, Filling, Replacing
  <2> QED BY <1>4, <2>4 DEF Stage, q2
<1>5. CASE r.kind = "import"
  <2>1. ImportStage(r, s, q, l) /\ r.reads = <<>>
    BY <1>1, <1>5 DEF Stage
  <2>2. PICK m \in {"read", "stamped"} : Settled(m, r.snap, r.todo, s, q, l, NoFlush)
    BY <2>1 DEF ImportStage, Reading
  <2>3. ImportStage(z, s, q2, l2)
    BY <1>3, <2>1, <2>2 DEF ImportStage
  <2> QED BY <1>5, <2>3 DEF Stage, q2
<1> QED BY <1>1, <1>4, <1>5

\* A write given up before reaches the sheet after all.
LEMMA StageLate ==
  ASSUME NEW r, RunOK(r), NEW s, SheetOK(s), NEW q, NEW l, NEW w \in l, Stage(r, s, q, l)
  PROVE  Stage(r, Written(s, w), q, l \ {w})
<1> DEFINE y == Written(s, w)
           k == l \ {w}
           t == r.snap
<1>1. l # {} /\ k \subseteq l
  OBVIOUS
<1>2. ASSUME NEW m, NEW todo, Settled(m, t, todo, s, q, l, NoFlush), PlanOK(t)
      PROVE  Settled(m, t, todo, y, q, k, NoFlush)
  BY <1>1, <1>2, SettledLands
<1>3. CASE r.kind = "export"
  <2>1. PlanOK(t) /\ ExportStage(r, s, q, l)
    BY <1>3, RunIs DEF Stage
  <2>2. ~Clearing(r, q, l)
    BY <1>1 DEF Clearing
  <2>3. Filling(r, s, q, l) => Filling(r, y, q, k)
    BY <1>2, <2>1 DEF Filling
  <2>4. Replacing(r, s, q, l) => Replacing(r, y, q, k)
    BY <1>2, <2>1 DEF Replacing
  <2>5. ASSUME Matching(r, s, q, l) PROVE Matching(r, y, q, k)
    <3>1. Settled("tabs", t, <<>>, s, q, l, NoFlush)
      BY <2>5 DEF Matching
    <3>2. Settled("tabs", t, <<>>, y, q, k, NoFlush)
      BY <1>2, <2>1, <3>1
    <3>3. Fits("tabs", t, s) /\ w \in OpenWrites("tabs", t)
      BY <3>1 DEF Settled
    <3>4. w.what = "augments"
      BY <2>1, <3>3, FullReplaceIs DEF OpenWrites
    <3>5. y.rows = s.rows /\ y.header = s.header
      BY <2>1, <3>3, <3>4, LandsOnce
    <3> HIDE DEF y, k
    <3> QED BY <2>5, <3>2, <3>5 DEF Matching
  <2> HIDE DEF y, k
  <2>6. ExportStage(r, y, q, k)
    BY <2>1, <2>2, <2>3, <2>4, <2>5 DEF ExportStage
  <2> QED BY <1>3, <2>6 DEF Stage, y, k
<1>4. CASE r.kind = "import"
  <2>1. ImportStage(r, s, q, l) /\ ~Reading(r, s, q, l)
    BY <1>1, <1>4 DEF Stage, Reading
  <2>2. r.reads = <<>>
    BY <2>1 DEF ImportStage
  <2>3. PICK m \in {"read", "stamped"} : Settled(m, t, r.todo, s, q, l, NoFlush)
    BY <2>1 DEF ImportStage
  <2>4. PlanOK(t)
    BY <1>4, <2>2, RunIs
  <2>5. Settled(m, t, r.todo, y, q, k, NoFlush)
    BY <1>2, <2>3, <2>4
  <2> HIDE DEF y, k
  <2>6. ImportStage(r, y, q, k)
    BY <2>2, <2>5 DEF ImportStage
  <2> QED BY <1>4, <2>6 DEF Stage, y, k
<1>5. CASE r.kind \notin {"export", "import"}
  BY <1>5 DEF Stage
<1> QED BY <1>3, <1>4, <1>5

-----------------------------------------------------------------------------
\* An export or import begins, alone if nothing else is under way:
LEMMA StepStart ==
  ASSUME SheetsInv, NEW s \in Screens, NEW job, Start(s, job),
         DOMAIN job = RunParts, job.kind \in {"export", "import"},
         \A a \in BOOLEAN : RunOK([job EXCEPT !.alone = a]),
         queue = <<>> /\ late = {} => Stage(job, sheet, queue, late)
  PROVE  SheetsInv'
<1> DEFINE c == Active = {} /\ queue = <<>> /\ late = {} /\ ~flush.on
           z == [job EXCEPT !.alone = c]
           d == Disturbed(run)
<1>1. Typed /\ AloneOK /\ KnownOK
  BY DEF SheetsInv
<1>2. /\ run' = [d EXCEPT ![s] = z]
      /\ backup' = None /\ source' = None
      /\ UNCHANGED <<plan, sheet, queue, late, flush>>
  BY DEF Start
<1>3. /\ DOMAIN run = Screens /\ (\A x \in Screens : RunOK(run[x]))
      /\ flush.on \in BOOLEAN /\ (~flush.on => flush = NoFlush)
  BY <1>1 DEF Typed
<1>4. /\ DOMAIN d = Screens
      /\ \A x \in Screens : /\ RunOK(d[x]) /\ ~d[x].alone
                            /\ (run[x] = Resting <=> d[x] = Resting)
  BY <1>3, DisturbedRuns
<1>5. c \in BOOLEAN
  OBVIOUS
<1>6. z.alone = c /\ z.kind = job.kind /\ z.reads = job.reads /\ z.snap = job.snap
      /\ z.todo = job.todo
  BY Changes
<1>7. RunOK(z)
  BY <1>5
<1> HIDE DEF d, z
<1>8. /\ DOMAIN run' = Screens /\ run'[s] = z
      /\ \A o \in Screens \ {s} : run'[o] = d[o]
  BY <1>2, <1>4, RunChanges
<1>9. Typed'
  <2>1. \A x \in Screens : RunOK(run'[x])
    BY <1>4, <1>7, <1>8
  <2> QED BY <1>1, <1>2, <1>8, <2>1 DEF Typed
<1>10. AloneOK'
  <2> SUFFICES ASSUME NEW x \in Screens, run'[x].alone
               PROVE  /\ \A o \in Screens \ {x} : run'[o] = Resting
                      /\ flush' = NoFlush /\ backup' = None /\ source' = None
                      /\ Stage(run'[x], sheet', queue', late')
    BY DEF AloneOK, Stage
  <2>1. x = s /\ c
    BY <1>4, <1>6, <1>8
  <2>2. \A o \in Screens : run[o].kind = "none"
    BY <2>1 DEF Active
  <2>3. \A o \in Screens : run[o] = Resting
    BY <1>3, <2>2, RunIs
  <2>4. \A o \in Screens \ {s} : run'[o] = Resting
    BY <1>4, <1>8, <2>3
  <2>5. Stage(job, sheet, queue, late)
    BY <2>1
  <2>6. Stage(z, sheet, queue, late)
    BY <1>6, <2>5 DEF Stage, ExportStage, ImportStage, Clearing, Filling, Replacing, Matching,
                      Reading
  <2> QED BY <1>2, <1>3, <1>8, <2>1, <2>4, <2>6
<1>11. KnownOK'
  BY <1>2, StillNone
<1> QED BY <1>9, <1>10, <1>11 DEF SheetsInv

\* an export
LEMMA StepExport ==
  ASSUME SheetsInv, NEW s \in Screens, Export(s)
  PROVE  SheetsInv'
<1> DEFINE job == [Resting EXCEPT !.kind = "export", !.snap = plan, !.reads = <<"income">>,
                        !.todo = FullReplace(plan)]
<1>1. Start(s, job)
  BY DEF Export
<1>2. PlanOK(plan)
  BY DEF SheetsInv, Typed
<1>3. /\ DOMAIN job = RunParts /\ job.kind = "export" /\ job.snap = plan
      /\ job.reads = <<"income">> /\ job.todo = FullReplace(plan)
  BY RestingIs DEF RunParts
<1> HIDE DEF job
<1>4. ASSUME NEW a \in BOOLEAN PROVE RunOK([job EXCEPT !.alone = a])
  <2> DEFINE z == [job EXCEPT !.alone = a]
  <2>1. /\ DOMAIN z = RunParts /\ z.alone = a /\ z.kind = "export"
        /\ z.reads = <<"income">> /\ z.snap = plan /\ z.todo = FullReplace(plan)
    BY <1>3, Changes
  <2> HIDE DEF z
  <2>2. IsQueue(z.todo)
    BY <1>2, <2>1, FullReplaceIs
  <2>3. RunOK(z)
    BY <1>2, <2>1, <2>2 DEF RunOK, RunParts
  <2> QED BY <2>3 DEF z
<1>5. ASSUME queue = <<>>, late = {} PROVE Stage(job, sheet, queue, late)
  BY <1>3, <1>5 DEF Stage, ExportStage, Clearing
<1> QED BY <1>1, <1>3, <1>4, <1>5, StepStart

\* and an import.
LEMMA StepImport ==
  ASSUME SheetsInv, NEW s \in Screens, Import(s)
  PROVE  SheetsInv'
<1> DEFINE p == [augments |-> None, rows |-> <<>>]
           job == [Resting EXCEPT !.kind = "import", !.reads = <<"augments", "income">>,
                        !.snap = [augments |-> None, rows |-> <<>>]]
<1>1. Start(s, job)
  BY DEF Import
<1>2. p \in [augments : Augs, rows : Seq(Rows)]
  BY DEF Augs
<1>3. /\ DOMAIN job = RunParts /\ job.kind = "import" /\ job.snap = p
      /\ job.reads = <<"augments", "income">> /\ job.todo = <<>>
  BY RestingIs DEF RunParts
<1> HIDE DEF job, p
<1>4. ASSUME NEW a \in BOOLEAN PROVE RunOK([job EXCEPT !.alone = a])
  <2> DEFINE z == [job EXCEPT !.alone = a]
  <2>1. /\ DOMAIN z = RunParts /\ z.alone = a /\ z.kind = "import"
        /\ z.reads = <<"augments", "income">> /\ z.snap = p /\ z.todo = <<>>
    BY <1>3, Changes
  <2> HIDE DEF z
  <2>2. IsQueue(z.todo)
    BY <2>1, QueueNone
  <2>3. RunOK(z)
    BY <1>2, <2>1, <2>2 DEF RunOK, RunParts
  <2> QED BY <2>3 DEF z
<1>5. ASSUME queue = <<>>, late = {} PROVE Stage(job, sheet, queue, late)
  BY <1>3, <1>5 DEF Stage, ImportStage, Reading
<1> QED BY <1>1, <1>3, <1>4, <1>5, StepStart

\* A write reaches the sheet
LEMMA StepWriteLands ==
  ASSUME SheetsInv, NEW s \in Screens, WriteLands(s)
  PROVE  SheetsInv'
<1> DEFINE r == run[s]
           w == Head(r.todo)
           z == [r EXCEPT !.todo = Tail(r.todo)]
<1>1. Typed /\ AloneOK /\ KnownOK
  BY DEF SheetsInv
<1>2. /\ r.todo # <<>> /\ sheet' = Written(sheet, w)
      /\ run' = [run EXCEPT ![s] = z]
      /\ UNCHANGED <<plan, queue, late, flush, backup, source, budget>>
  BY Zenon DEF WriteLands
<1>3. /\ DOMAIN run = Screens /\ (\A x \in Screens : RunOK(run[x])) /\ SheetOK(sheet)
  BY <1>1 DEF Typed
<1>4. RunOK(r) /\ r # Resting
  BY <1>2, <1>3, RestingIs
<1> HIDE DEF r
<1>5. /\ RunOK(z) /\ z.kind = r.kind /\ z.reads = r.reads /\ z.snap = r.snap
      /\ z.alone = r.alone /\ z.todo = Tail(r.todo)
  BY <1>2, <1>4, TailTodo
<1>6. WriteOK(w) /\ SheetOK(sheet')
  <2>1. IsQueue(r.todo)
    BY <1>4, RunIs
  <2>2. WriteOK(w)
    BY <1>2, <2>1, QueueHead
  <2> HIDE DEF w
  <2> QED BY <1>2, <1>3, <2>2, WrittenTab
<1> HIDE DEF z
<1>7. /\ DOMAIN run' = Screens /\ run'[s] = z
      /\ \A o \in Screens \ {s} : run'[o] = run[o]
  BY <1>2, <1>3, RunChanges
<1>8. Typed'
  <2>1. \A x \in Screens : RunOK(run'[x])
    BY <1>3, <1>5, <1>7
  <2> HIDE DEF w
  <2> QED BY <1>1, <1>2, <1>6, <1>7, <2>1 DEF Typed
<1>9. AloneOK'
  <2>1. ASSUME z.alone PROVE Stage(z, sheet', queue', late')
    <3>1. Stage(r, sheet, queue, late)
      BY <1>1, <1>5, <2>1, AloneIs DEF r
    <3>2. r.kind = "export" => ExportStage(z, Written(sheet, w), queue, late)
      <4>1. ASSUME r.kind = "export" PROVE ExportStage(r, sheet, queue, late)
        BY <3>1, <4>1 DEF Stage
      <4> QED BY <1>2, <1>3, <1>4, <1>5, <4>1, ExportLands
    <3>3. r.kind = "import" => ImportStage(z, Written(sheet, w), queue, late)
      <4>1. ASSUME r.kind = "import" PROVE ImportStage(r, sheet, queue, late)
        BY <3>1, <4>1 DEF Stage
      <4> QED BY <1>2, <1>3, <1>4, <1>5, <4>1, ImportLands
    <3> HIDE DEF w
    <3> QED BY <1>2, <1>5, <3>2, <3>3 DEF Stage
  <2>2. r.alone = run[s].alone /\ run[s] # Resting
    BY <1>4 DEF r
  <2> QED BY <1>1, <1>2, <1>5, <1>7, <2>1, <2>2, AloneMoves
<1>10. KnownOK'
  <2>1. backup = None /\ source = None
    BY <1>1, <1>4, NoneKnown DEF r
  <2> QED BY <1>2, <2>1, StillNone
<1> QED BY <1>8, <1>9, <1>10 DEF SheetsInv

\* or fails, and is queued or thrown.
LEMMA StepWriteFails ==
  ASSUME SheetsInv, NEW s \in Screens, WriteFails(s)
  PROVE  SheetsInv'
<1> DEFINE r == run[s]
           w == Head(r.todo)
           z == [r EXCEPT !.todo = Tail(r.todo)]
<1>1. Typed /\ AloneOK /\ KnownOK
  BY DEF SheetsInv
<1>2. /\ r.todo # <<>> /\ late' \in {late, late \union {w}}
      /\ UNCHANGED <<plan, sheet, flush, backup, source>>
      /\ \/ /\ Queueable(w) /\ queue' = Append(queue, w)
            /\ run' = [run EXCEPT ![s] = z]
         \/ run' = [run EXCEPT ![s] = Resting] /\ UNCHANGED queue
  BY Zenon DEF WriteFails, FailsQueued, Enqueue
<1>3. /\ DOMAIN run = Screens /\ (\A x \in Screens : RunOK(run[x])) /\ IsQueue(queue)
      /\ \A x \in late : WriteOK(x)
  BY <1>1 DEF Typed
<1>4. RunOK(r) /\ r # Resting
  BY <1>2, <1>3, RestingIs
<1> HIDE DEF r
<1>5. /\ RunOK(z) /\ z.kind = r.kind /\ z.reads = r.reads /\ z.snap = r.snap
      /\ z.alone = r.alone /\ z.todo = Tail(r.todo)
  BY <1>2, <1>4, TailTodo
<1>6. WriteOK(w)
  <2>1. IsQueue(r.todo)
    BY <1>4, RunIs
  <2> QED BY <1>2, <2>1, QueueHead
<1>7. \A x \in late' : WriteOK(x)
  BY <1>2, <1>3, <1>6
<1>8. KnownOK'
  <2>1. backup = None /\ source = None
    BY <1>1, <1>4, NoneKnown DEF r
  <2> QED BY <1>2, <2>1, StillNone
<1>9. CASE Queueable(w) /\ queue' = Append(queue, w) /\ run' = [run EXCEPT ![s] = z]
  <2> HIDE DEF z
  <2>1. /\ DOMAIN run' = Screens /\ run'[s] = z
        /\ \A o \in Screens \ {s} : run'[o] = run[o]
    BY <1>3, <1>9, RunChanges
  <2>2. IsQueue(queue')
    BY <1>3, <1>6, <1>9, QueueAppend
  <2>3. \A x \in Screens : RunOK(run'[x])
    BY <1>3, <1>5, <2>1
  <2>4. Typed'
    BY <1>1, <1>2, <1>7, <2>1, <2>2, <2>3 DEF Typed
  <2>5. ASSUME z.alone PROVE Stage(z, sheet', queue', late')
    <3>1. Stage(r, sheet, queue, late)
      BY <1>1, <1>5, <2>5, AloneIs DEF r
    <3>2. Stage(z, sheet, Append(queue, Head(r.todo)), late')
      BY <1>2, <1>3, <1>4, <1>5, <1>9, <3>1, StageFails
    <3> QED BY <1>2, <1>9, <3>2
  <2>6. r.alone = run[s].alone /\ run[s] # Resting
    BY <1>4 DEF r
  <2>7. AloneOK'
    BY <1>1, <1>2, <1>5, <2>1, <2>5, <2>6, AloneMoves
  <2> QED BY <1>8, <2>4, <2>7 DEF SheetsInv
<1>10. CASE run' = [run EXCEPT ![s] = Resting] /\ UNCHANGED queue
  <2>1. /\ DOMAIN run' = Screens /\ run'[s] = Resting
        /\ \A o \in Screens \ {s} : run'[o] = run[o]
    BY <1>3, <1>10, RunChanges
  <2>2. \A x \in Screens : RunOK(run'[x])
    BY <1>3, <2>1, RestingIs
  <2> HIDE DEF w
  <2>3. Typed'
    BY <1>1, <1>2, <1>7, <1>10, <2>1, <2>2 DEF Typed
  <2>4. ~run'[s].alone /\ run[s] # Resting
    BY <1>4, <2>1, RestingIs DEF r
  <2>5. AloneOK'
    BY <1>1, <2>1, <2>4, AloneMoves
  <2> QED BY <1>8, <2>3, <2>5 DEF SheetsInv
<1> QED BY <1>2, <1>9, <1>10

\* What is settled by the end goes on to be: a write lands.
LEMMA StepLateLands ==
  ASSUME SheetsInv, LateLands
  PROVE  SheetsInv'
<1>1. Typed /\ AloneOK /\ KnownOK
  BY DEF SheetsInv
<1>2. PICK w \in late : /\ sheet' = Written(sheet, w) /\ late' = late \ {w}
                        /\ UNCHANGED <<plan, queue, run, flush, backup, source, budget>>
  BY DEF LateLands
<1>3. /\ DOMAIN run = Screens /\ (\A x \in Screens : RunOK(run[x])) /\ SheetOK(sheet)
      /\ IsQueue(queue) /\ (\A x \in late : WriteOK(x))
      /\ (backup # None => PlanOK(backup)) /\ (source # None => PlanOK(source))
  BY <1>1 DEF Typed
<1>4. SheetOK(sheet')
  BY <1>2, <1>3, WrittenTab
<1>5. Typed'
  <2>1. \A x \in late' : WriteOK(x)
    BY <1>2, <1>3
  <2> QED BY <1>1, <1>2, <1>4, <2>1 DEF Typed
<1>6. AloneOK'
  <2>1. ASSUME NEW s \in Screens, run[s].alone
        PROVE  Stage(run[s], sheet', queue, late')
    <3>1. Stage(run[s], sheet, queue, late)
      BY <1>1, <2>1, AloneIs
    <3>2. RunOK(run[s])
      BY <1>3
    <3> QED BY <1>2, <1>3, <3>1, <3>2, StageLate
  <2> QED BY <1>1, <1>2, <2>1 DEF AloneOK, Stage
<1>7. KnownOK'
  <2>1. ASSUME NEW m, NEW t, PlanOK(t), Settled(m, t, <<>>, sheet, queue, late, flush)
        PROVE  Settled(m, t, <<>>, sheet', queue', late', flush')
    <3>1. late' \subseteq late /\ flush' = flush /\ queue' = queue
      BY <1>2
    <3> QED BY <1>2, <1>3, <2>1, <3>1, SettledLands
  <2>2. ASSUME backup # None
        PROVE  \E m \in {"all", "diff"} : Settled(m, backup, <<>>, sheet', queue', late', flush')
    BY <1>1, <1>3, <2>1, <2>2 DEF KnownOK, Known
  <2>3. ASSUME source # None
        PROVE  \E m \in {"read", "stamped"} :
                 Settled(m, source, <<>>, sheet', queue', late', flush')
    BY <1>1, <1>3, <2>1, <2>3 DEF KnownOK, Known
  <2> QED BY <1>1, <1>2, <2>2, <2>3 DEF KnownOK, Known
<1> QED BY <1>5, <1>6, <1>7 DEF SheetsInv

\* An export or import that ends early.
LEMMA StepGivesUp ==
  ASSUME SheetsInv, NEW s \in Screens, run[s] # Resting,
         run' = [run EXCEPT ![s] = Resting],
         UNCHANGED <<plan, sheet, queue, late, flush, backup, source>>
  PROVE  SheetsInv'
<1>1. Typed /\ AloneOK /\ KnownOK
  BY DEF SheetsInv
<1>2. /\ DOMAIN run = Screens /\ (\A x \in Screens : RunOK(run[x]))
  BY <1>1 DEF Typed
<1>3. /\ DOMAIN run' = Screens /\ run'[s] = Resting
      /\ \A o \in Screens \ {s} : run'[o] = run[o]
  BY <1>2, RunChanges
<1>4. \A x \in Screens : RunOK(run'[x])
  BY <1>2, <1>3, RestingIs
<1>5. Typed'
  BY <1>1, <1>3, <1>4 DEF Typed
<1>6. ~run'[s].alone
  BY <1>3, RestingIs
<1>7. AloneOK'
  BY <1>1, <1>3, <1>6, AloneMoves
<1>8. KnownOK'
  BY <1>1, NoneKnown, StillNone
<1> QED BY <1>5, <1>7, <1>8 DEF SheetsInv

\* One that goes on without a write, to what it is next.
LEMMA StepGoesOn ==
  ASSUME SheetsInv, NEW s \in Screens, run[s] # Resting, NEW z, RunOK(z),
         run' = [run EXCEPT ![s] = z],
         UNCHANGED <<plan, sheet, queue, late, flush, backup, source>>,
         z.alone => run[s].alone,
         z.alone /\ Stage(run[s], sheet, queue, late) => Stage(z, sheet, queue, late)
  PROVE  SheetsInv'
<1>1. Typed /\ AloneOK /\ KnownOK
  BY DEF SheetsInv
<1>2. /\ DOMAIN run = Screens /\ (\A x \in Screens : RunOK(run[x]))
  BY <1>1 DEF Typed
<1>3. /\ DOMAIN run' = Screens /\ run'[s] = z
      /\ \A o \in Screens \ {s} : run'[o] = run[o]
  BY <1>2, RunChanges
<1>4. \A x \in Screens : RunOK(run'[x])
  BY <1>2, <1>3
<1>5. Typed'
  BY <1>1, <1>3, <1>4 DEF Typed
<1>6. ASSUME z.alone PROVE run[s].alone /\ Stage(z, sheet', queue', late')
  BY <1>1, <1>6, AloneIs
<1>7. AloneOK'
  BY <1>1, <1>3, <1>6, AloneMoves
<1>8. KnownOK'
  BY <1>1, NoneKnown, StillNone
<1> QED BY <1>5, <1>7, <1>8 DEF SheetsInv

\* A read fails.
LEMMA StepReadFails ==
  ASSUME SheetsInv, NEW s \in Screens, ReadFails(s)
  PROVE  SheetsInv'
<1>1. run[s] # Resting
  BY RestingIs DEF ReadFails
<1> QED BY <1>1, StepGivesUp DEF ReadFails

\* An export that has read the tab and found it as it should be.
ReadTo(r, todo, fits) ==
  [[[r EXCEPT !.reads = <<>>] EXCEPT !.todo = todo] EXCEPT !.alone = r.alone /\ fits]

\* What that is, field by field.
LEMMA ReadToIs ==
  ASSUME NEW r, DOMAIN r = RunParts, r.alone \in BOOLEAN, NEW todo, NEW fits \in BOOLEAN
  PROVE  LET z == ReadTo(r, todo, fits)
         IN  /\ DOMAIN z = RunParts /\ z.kind = r.kind /\ z.snap = r.snap /\ z.reads = <<>>
             /\ z.todo = todo /\ z.alone = (r.alone /\ fits) /\ z.alone \in BOOLEAN
<1> DEFINE a == r.alone /\ fits
           x == [r EXCEPT !.reads = <<>>]
           y == [x EXCEPT !.todo = todo]
           z == [y EXCEPT !.alone = a]
<1>1. a \in BOOLEAN
  OBVIOUS
<1>2. /\ DOMAIN x = RunParts /\ x.kind = r.kind /\ x.snap = r.snap /\ x.reads = <<>>
  BY Changes
<1> HIDE DEF x
<1>3. /\ DOMAIN y = RunParts /\ y.kind = r.kind /\ y.snap = r.snap /\ y.reads = <<>>
      /\ y.todo = todo
  BY <1>2, Changes
<1> HIDE DEF y
<1>4. /\ DOMAIN z = RunParts /\ z.kind = r.kind /\ z.snap = r.snap /\ z.reads = <<>>
      /\ z.todo = todo /\ z.alone = a
  BY <1>3, Changes
<1>5. ReadTo(r, todo, fits) = z
  BY Zenon DEF ReadTo, x, y
<1> QED BY <1>1, <1>4, <1>5, Zenon

\* An export reads the tab and finds out what to write.
LEMMA StepExportReads ==
  ASSUME SheetsInv, NEW s \in Screens, ExportReads(s)
  PROVE  SheetsInv'
<1> DEFINE r == run[s]
           p == r.snap
           all == <<AllWrite(p)>>
           To(todo, fits) == run' = [run EXCEPT ![s] = ReadTo(r, todo, fits)]
<1>1. /\ r.todo = <<>> /\ r.reads # <<>> /\ r.kind = "export"
      /\ UNCHANGED <<plan, sheet, queue, late, flush, backup, source>>
  BY DEF ExportReads, Reads
<1>2. \/ sheet.header = "none" /\ sheet.rows = <<>> /\ To(all, TRUE)
      \/ run' = [run EXCEPT ![s] = Resting]
      \/ sheet.header \in {"older", "nameless"} /\ To(all, Len(sheet.rows) <= Len(p.rows))
      \/ sheet.header = "current" /\ To(DiffWrites(ReadRows, p.rows), Len(sheet.rows) <= MaxRows)
  <2> DEFINE Raw(todo, fits) ==
               run' = [run EXCEPT ![s].reads = <<>>, ![s].todo = todo, ![s].alone = @ /\ fits]
  <2>1. \A todo, fits : Raw(todo, fits) => To(todo, fits)
    <3> SUFFICES ASSUME NEW todo, NEW fits, Raw(todo, fits) PROVE To(todo, fits)
      OBVIOUS
    <3> QED BY DEF ReadTo
  <2>2. \/ sheet.header = "none" /\ sheet.rows = <<>> /\ Raw(all, TRUE)
        \/ run' = [run EXCEPT ![s] = Resting]
        \/ sheet.header \in {"older", "nameless"} /\ Raw(all, Len(sheet.rows) <= Len(p.rows))
        \/ /\ sheet.header = "current"
           /\ Raw(DiffWrites(ReadRows, p.rows), Len(sheet.rows) <= MaxRows)
    BY Zenon DEF ExportReads, AllWrite
  <2> HIDE DEF Raw, To
  <2> QED BY <2>1, <2>2, Zenon
<1>3. RunOK(r) /\ r # Resting /\ SheetOK(sheet)
  BY <1>1, RestingIs DEF SheetsInv, Typed
<1> HIDE DEF r
<1>4. /\ PlanOK(p) /\ r.reads = <<"income">> /\ DOMAIN r = RunParts /\ r.alone \in BOOLEAN
  BY <1>1, <1>3, RunIs
<1>5. /\ sheet.rows \in Seq(Rows) /\ p.rows \in Seq(Rows) /\ Len(sheet.rows) \in Nat
      /\ Len(p.rows) \in Nat /\ MaxRows \in Nat
  BY <1>3, <1>4, SheetFields, PlanRows, SheetsAssumption
<1>6. ASSUME NEW todo, NEW fits \in BOOLEAN, To(todo, fits), IsQueue(todo),
             r.alone /\ fits /\ Settled("tabs", p, <<>>, sheet, queue, late, NoFlush)
               => ExportStage(ReadTo(r, todo, fits), sheet, queue, late)
      PROVE  SheetsInv'
  <2> DEFINE z == ReadTo(r, todo, fits)
  <2>1. /\ DOMAIN z = RunParts /\ z.kind = r.kind /\ z.snap = p /\ z.reads = <<>>
        /\ z.todo = todo /\ z.alone = (r.alone /\ fits) /\ z.alone \in BOOLEAN
    BY <1>4, ReadToIs
  <2>2. run' = [run EXCEPT ![s] = z]
    BY <1>6
  <2> HIDE DEF z
  <2>3. RunOK(z)
    BY <1>1, <1>4, <1>6, <2>1 DEF RunOK, RunParts
  <2>4. ASSUME z.alone, Stage(r, sheet, queue, late) PROVE Stage(z, sheet, queue, late)
    <3>1. ExportStage(r, sheet, queue, late) /\ r.alone /\ fits
      BY <1>1, <2>1, <2>4 DEF Stage
    <3>2. ~Clearing(r, queue, late)
      BY <1>1, <1>4, FullReplaceIs DEF Clearing
    <3>3. <<"income">> # <<>>
      OBVIOUS
    <3>4. Settled("tabs", p, <<>>, sheet, queue, late, NoFlush)
      BY <1>1, <1>4, <3>1, <3>2, <3>3 DEF ExportStage, Filling, Replacing, Matching
    <3>5. ExportStage(z, sheet, queue, late)
      BY <1>6, <3>1, <3>4 DEF z
    <3> QED BY <1>1, <2>1, <3>5 DEF Stage
  <2>5. z.alone => run[s].alone
    BY <2>1 DEF r
  <2> QED BY <1>1, <1>3, <2>2, <2>3, <2>4, <2>5, StepGoesOn DEF r
<1>7. ASSUME NEW fits \in BOOLEAN, To(all, fits), fits => Len(sheet.rows) <= Len(p.rows)
      PROVE  SheetsInv'
  <2>1. WriteOK(AllWrite(p)) /\ AllWrite(p).what = "all"
    BY <1>5 DEF AllWrite, WriteOK
  <2>2. IsQueue(all) /\ Range(all) = {AllWrite(p)}
    BY <2>1, QueueOne
  <2> HIDE DEF all
  <2>3. ASSUME r.alone, fits, Settled("tabs", p, <<>>, sheet, queue, late, NoFlush)
        PROVE  ExportStage(ReadTo(r, all, fits), sheet, queue, late)
    <3>1. Fits("all", p, sheet)
      BY <1>7, <2>3 DEF Fits
    <3>2. Settled("all", p, all, sheet, queue, late, NoFlush)
      BY <2>2, <2>3, <3>1, QueueNone, NoFlushIs DEF Settled, OpenWrites
    <3>3. ReadTo(r, all, fits).reads = <<>> /\ ReadTo(r, all, fits).snap = p
          /\ ReadTo(r, all, fits).todo = all
      BY <1>4, ReadToIs
    <3> QED BY <3>2, <3>3 DEF ExportStage, Replacing
  <2> QED BY <1>6, <1>7, <2>2, <2>3
<1>8. CASE sheet.header = "none" /\ sheet.rows = <<>> /\ To(all, TRUE)
  <2>1. Len(sheet.rows) <= Len(p.rows)
    BY <1>5, <1>8
  <2> HIDE DEF all, To
  <2> QED BY <1>7, <1>8, <2>1
<1>9. CASE run' = [run EXCEPT ![s] = Resting]
  BY <1>1, <1>3, <1>9, StepGivesUp DEF r
<1>10. CASE sheet.header \in {"older", "nameless"} /\ To(all, Len(sheet.rows) <= Len(p.rows))
  <2>1. (Len(sheet.rows) <= Len(p.rows)) \in BOOLEAN
    BY <1>5
  <2> DEFINE fits == Len(sheet.rows) <= Len(p.rows)
  <2>2. fits \in BOOLEAN /\ To(all, fits) /\ (fits => Len(sheet.rows) <= Len(p.rows))
    BY <1>10, <2>1
  <2> HIDE DEF all, To, fits
  <2> QED BY <1>7, <2>2
<1>11. CASE sheet.header = "current"
            /\ To(DiffWrites(ReadRows, p.rows), Len(sheet.rows) <= MaxRows)
  <2> DEFINE fits == Len(sheet.rows) <= MaxRows
             todo == DiffWrites(ReadRows, p.rows)
  <2>1. ReadRows \in Seq(Rows) /\ Len(ReadRows) <= MaxRows
        /\ (fits => ReadRows = sheet.rows)
    <3> DEFINE n == Len(sheet.rows)
               k == Min({MaxRows, n})
    <3>1. k = (IF n <= MaxRows THEN n ELSE MaxRows)
      <4> DEFINE S == {MaxRows, n}
      <4>1. k = CHOOSE x \in S : \A y \in S : x <= y
        BY DEF Min
      <4>2. \E x \in S : \A y \in S : x <= y
        BY <1>5
      <4> HIDE DEF S, k
      <4>3. k \in S /\ \A y \in S : k <= y
        BY <4>1, <4>2
      <4> QED BY <1>5, <4>3 DEF S
    <3>2. k \in 0 .. n /\ k <= MaxRows /\ (fits => k = n)
      BY <1>5, <3>1
    <3> HIDE DEF k
    <3>3. SubSeq(sheet.rows, 1, k) \in Seq(Rows) /\ Len(SubSeq(sheet.rows, 1, k)) = k
          /\ \A i \in 1 .. k : SubSeq(sheet.rows, 1, k)[i] = sheet.rows[i]
      BY <1>5, <3>2
    <3>4. ReadRows = SubSeq(sheet.rows, 1, k)
      BY DEF ReadRows, k
    <3>5. fits => ReadRows = sheet.rows
      BY <1>5, <3>2, <3>3, <3>4, SameRows
    <3> QED BY <3>2, <3>3, <3>4, <3>5
  <2>2. IsQueue(todo) /\ Differs(todo)
    BY <1>4, <2>1, DiffOK
  <2>3. ASSUME r.alone, fits, Settled("tabs", p, <<>>, sheet, queue, late, NoFlush)
        PROVE  ExportStage(ReadTo(r, todo, fits), sheet, queue, late)
    <3>1. Result(sheet.rows, todo) = Completed(sheet.rows, p.rows)
      BY <2>1, <2>3, DiffResult
    <3>2. Holds(Completed(sheet.rows, p.rows), p.rows)
      BY <1>4, <1>5, CompletedRows
    <3>3. fits \in BOOLEAN
      BY <1>5
    <3> HIDE DEF todo, fits
    <3>4. ReadTo(r, todo, fits).reads = <<>> /\ ReadTo(r, todo, fits).snap = p
          /\ ReadTo(r, todo, fits).todo = todo
      BY <1>4, <3>3, ReadToIs
    <3>5. Matching(ReadTo(r, todo, fits), sheet, queue, late)
      BY <1>11, <2>2, <2>3, <3>1, <3>2, <3>4 DEF Matching
    <3> QED BY <3>5 DEF ExportStage
  <2>4. fits \in BOOLEAN /\ To(todo, fits)
    BY <1>5, <1>11
  <2> HIDE DEF todo, fits, To
  <2> QED BY <1>6, <2>2, <2>3, <2>4
<1> QED BY <1>2, <1>8, <1>9, <1>10, <1>11

\* An import reads Augments
LEMMA StepImportReadsAugments ==
  ASSUME SheetsInv, NEW s \in Screens, ImportReadsAugments(s)
  PROVE  SheetsInv'
<1> DEFINE r == run[s]
           p == [r.snap EXCEPT !.augments = sheet.augments]
           x == [r EXCEPT !.reads = Tail(r.reads)]
           z == [x EXCEPT !.snap = p]
<1>1. /\ r.todo = <<>> /\ r.reads # <<>> /\ Head(r.reads) = "augments"
      /\ UNCHANGED <<plan, sheet, queue, late, flush, backup, source>>
  BY DEF ImportReadsAugments, Reads
<1>2. run' = [run EXCEPT ![s] = z]
  BY DEF ImportReadsAugments
<1>3. RunOK(r) /\ r # Resting /\ SheetOK(sheet)
  BY <1>1, RestingIs DEF SheetsInv, Typed
<1> HIDE DEF r
<1>4. r.kind = "import"
  <2>1. Head(<<"income">>) # "augments"
    OBVIOUS
  <2>2. r.kind # "none"
    BY <1>3, RunIs
  <2> QED BY <1>1, <1>3, <2>1, <2>2, RunIs
<1>5. /\ DOMAIN r = RunParts /\ r.alone \in BOOLEAN /\ IsQueue(r.todo)
      /\ r.snap \in [augments : Augs, rows : Seq(Rows)]
      /\ \/ r.reads \in {<<"augments", "income">>, <<"income">>}
         \/ r.reads = <<>>
  BY <1>3, <1>4, RunIs
<1>6. Tail(r.reads) = <<"income">>
  <2>1. Head(<<"income">>) # "augments" /\ Tail(<<"augments", "income">>) = <<"income">>
    OBVIOUS
  <2> QED BY <1>1, <1>5, <2>1
<1>7. p \in [augments : Augs, rows : Seq(Rows)] /\ p.augments = sheet.augments
  BY <1>3, <1>5, SheetFields
<1> HIDE DEF p
<1>8. /\ DOMAIN x = RunParts /\ x.kind = r.kind /\ x.snap = r.snap /\ x.reads = <<"income">>
      /\ x.todo = r.todo /\ x.alone = r.alone
  BY <1>5, <1>6, Changes
<1> HIDE DEF x
<1>9. /\ DOMAIN z = RunParts /\ z.kind = r.kind /\ z.snap = p /\ z.reads = <<"income">>
      /\ z.todo = r.todo /\ z.alone = r.alone
  BY <1>8, Changes
<1> HIDE DEF z
<1>10. RunOK(z)
  BY <1>1, <1>4, <1>5, <1>7, <1>9 DEF RunOK, RunParts
<1>11. ASSUME Stage(r, sheet, queue, late) PROVE Stage(z, sheet, queue, late)
  <2>1. Reading(r, sheet, queue, late)
    BY <1>1, <1>4, <1>11 DEF Stage, ImportStage
  <2>2. Reading(z, sheet, queue, late)
    BY <1>7, <1>9, <2>1 DEF Reading
  <2> QED BY <1>4, <1>9, <2>2 DEF Stage, ImportStage
<1>12. (z.alone => run[s].alone) /\ run[s] # Resting
  BY <1>3, <1>9 DEF r
<1> QED BY <1>1, <1>2, <1>10, <1>11, <1>12, StepGoesOn DEF r

\* or takes an error for a missing tab.
LEMMA StepImportSkipsAugments ==
  ASSUME SheetsInv, NEW s \in Screens, ImportSkipsAugments(s)
  PROVE  SheetsInv'
<1> DEFINE r == run[s]
           x == [r EXCEPT !.reads = Tail(r.reads)]
           z == [x EXCEPT !.alone = FALSE]
<1>1. /\ r.todo = <<>> /\ r.reads # <<>> /\ Head(r.reads) = "augments"
      /\ UNCHANGED <<plan, sheet, queue, late, flush, backup, source>>
  BY DEF ImportSkipsAugments, Reads
<1>2. run' = [run EXCEPT ![s] = z]
  BY DEF ImportSkipsAugments
<1>3. RunOK(r) /\ r # Resting
  BY <1>1, RestingIs DEF SheetsInv, Typed
<1> HIDE DEF r
<1>4. r.kind = "import"
  <2>1. Head(<<"income">>) # "augments"
    OBVIOUS
  <2>2. r.kind # "none"
    BY <1>3, RunIs
  <2> QED BY <1>1, <1>3, <2>1, <2>2, RunIs
<1>5. /\ DOMAIN r = RunParts /\ IsQueue(r.todo)
      /\ r.snap \in [augments : Augs, rows : Seq(Rows)]
      /\ \/ r.reads \in {<<"augments", "income">>, <<"income">>}
         \/ r.reads = <<>>
  BY <1>3, <1>4, RunIs
<1>6. Tail(r.reads) = <<"income">>
  <2>1. Head(<<"income">>) # "augments" /\ Tail(<<"augments", "income">>) = <<"income">>
    OBVIOUS
  <2> QED BY <1>1, <1>5, <2>1
<1>7. /\ DOMAIN x = RunParts /\ x.kind = r.kind /\ x.snap = r.snap /\ x.reads = <<"income">>
      /\ x.todo = r.todo
  BY <1>5, <1>6, Changes
<1> HIDE DEF x
<1>8. /\ DOMAIN z = RunParts /\ z.kind = r.kind /\ z.snap = r.snap /\ z.reads = <<"income">>
      /\ z.todo = r.todo /\ z.alone = FALSE
  BY <1>7, Changes
<1> HIDE DEF z
<1>9. RunOK(z)
  BY <1>1, <1>4, <1>5, <1>8 DEF RunOK, RunParts
<1>10. ~z.alone /\ run[s] # Resting
  BY <1>3, <1>8 DEF r
<1> QED BY <1>1, <1>2, <1>9, <1>10, StepGoesOn

\* What an import reads.
LEMMA ParsedRows ==
  ASSUME NEW s, SheetOK(s)
  PROVE  /\ Parsed(s) \in Seq(Rows)
         /\ \A i \in DOMAIN Parsed(s) : Parsed(s)[i].id \in IdsOf(s.rows) \union {NoId}
         /\ Blank \notin Range(s.rows) =>
              /\ Len(Parsed(s)) = Len(s.rows)
              /\ \A i \in DOMAIN s.rows : Parsed(s)[i].v = Layout[s.header][s.rows[i].v]
<1> DEFINE rows == s.rows
           all == [i \in DOMAIN rows |-> ReadAs(s, rows[i])]
           S == {i \in DOMAIN rows : rows[i] = Blank}
           n == Len(rows)
<1>1. /\ rows \in Seq(Rows) /\ n \in Nat /\ DOMAIN rows = 1 .. n
      /\ \A i \in 1 .. n : rows[i] \in Rows /\ rows[i] \in Range(rows)
      /\ s.header \in Headers
  BY SheetFields, Elements
<1>2. ASSUME NEW r \in Rows PROVE ReadAs(s, r) \in Rows /\ ReadAs(s, r).id \in {r.id, NoId}
  <2>1. r.v \in Cells /\ r.id \in Uuids \union OwnIds \union {NoId, Name}
    BY DEF Rows
  <2>2. Layout[s.header][r.v] \in Cells
    BY <1>1, <2>1, SheetsAssumption
  <2> QED BY <2>1, <2>2 DEF ReadAs, Rows
<1>3. Parsed(s) = Without(all, S)
  BY Zenon DEF Parsed
<1> HIDE DEF rows, n
<1>4. \A i \in 1 .. n : /\ ReadAs(s, rows[i]) \in Rows
                        /\ ReadAs(s, rows[i]).id \in IdsOf(rows) \union {NoId}
  BY <1>1, <1>2 DEF IdsOf
<1>5. all \in Seq(Rows) /\ DOMAIN all = 1 .. n /\ Len(all) = n
      /\ \A i \in 1 .. n : all[i] = ReadAs(s, rows[i])
  BY <1>1, <1>4
<1>6. /\ Parsed(s) \in Seq(Rows)
      /\ Range(Parsed(s)) = {all[i] : i \in DOMAIN all \ S}
      /\ S \intersect DOMAIN all = {} => Parsed(s) = all
  <2> HIDE DEF all, S
  <2> QED BY <1>3, <1>5, WithoutRows
<1>7. ASSUME NEW i \in DOMAIN Parsed(s) PROVE Parsed(s)[i].id \in IdsOf(rows) \union {NoId}
  <2>1. Parsed(s)[i] \in Range(Parsed(s))
    BY DEF Range
  <2>2. \A x \in Range(Parsed(s)) : \E j \in 1 .. n : x = all[j]
    BY <1>5, <1>6
  <2> QED BY <1>4, <1>5, <2>1, <2>2
<1>8. ASSUME Blank \notin Range(rows)
      PROVE  /\ Len(Parsed(s)) = n
             /\ \A i \in 1 .. n : Parsed(s)[i].v = Layout[s.header][rows[i].v]
  <2>1. \A i \in 1 .. n : rows[i] # Blank
    BY <1>1, <1>8
  <2>2. S \intersect DOMAIN all = {}
    BY <1>1, <2>1
  <2>3. \A i \in 1 .. n : ReadAs(s, rows[i]).v = Layout[s.header][rows[i].v]
    BY DEF ReadAs
  <2> QED BY <1>5, <1>6, <2>2, <2>3
<1> QED BY <1>1, <1>6, <1>7, <1>8 DEF rows, n

\* The rows with their new ids.
Identified(read, fresh) ==
  [i \in DOMAIN read |->
     IF i \in DOMAIN fresh THEN [read[i] EXCEPT !.id = fresh[i]] ELSE read[i]]

\* The rows of a plan: each has an id of its own.
LEMMA IdentifiedRows ==
  ASSUME NEW read \in Seq(Rows), NEW K, \A i \in DOMAIN read : read[i].id \in K \union {NoId},
         NEW fresh \in [Missing(read) -> OwnIds \ K],
         \A i, j \in DOMAIN fresh : i # j => fresh[i] # fresh[j]
  PROVE  /\ Identified(read, fresh) \in Seq(Rows) /\ Len(Identified(read, fresh)) = Len(read)
         /\ \A i \in DOMAIN read : Identified(read, fresh)[i].v = read[i].v
         /\ \A i \in DOMAIN read : Identified(read, fresh)[i].id # NoId
         /\ \A i, j \in DOMAIN read :
              Identified(read, fresh)[i].id = Identified(read, fresh)[j].id => i = j
         /\ Missing(read) = {} => Identified(read, fresh) = read
<1> DEFINE n == Len(read)
           M == Missing(read)
           rows == Identified(read, fresh)
<1>1. /\ n \in Nat /\ DOMAIN read = 1 .. n /\ \A i \in 1 .. n : read[i] \in Rows
  OBVIOUS
<1>2. /\ M \subseteq 1 .. n /\ DOMAIN fresh = M
      /\ \A i \in M : fresh[i] \in OwnIds \ K
      /\ \A i \in (1 .. n) \ M : read[i].id # NoId /\ First(read, i)
  BY <1>1 DEF Missing
<1>3. NoId \notin OwnIds
  BY SheetsAssumption
<1>4. \A i \in 1 .. n : rows[i] = IF i \in M THEN [read[i] EXCEPT !.id = fresh[i]] ELSE read[i]
  BY <1>1, <1>2 DEF Identified
<1>5. DOMAIN rows = 1 .. n /\ rows = [i \in 1 .. n |-> rows[i]]
  BY <1>1 DEF Identified
<1> HIDE DEF M, rows
<1>6. ASSUME NEW i \in 1 .. n
      PROVE  /\ rows[i] \in Rows /\ rows[i].v = read[i].v
             /\ rows[i].id = IF i \in M THEN fresh[i] ELSE read[i].id
  <2>1. read[i] \in Rows
    BY <1>1
  <2>2. CASE i \in M
    <3>1. rows[i] = [read[i] EXCEPT !.id = fresh[i]] /\ fresh[i] \in OwnIds
      BY <1>2, <1>4, <2>2
    <3> QED BY <2>1, <2>2, <3>1 DEF Rows
  <2>3. CASE i \notin M
    <3>1. rows[i] = read[i]
      BY <1>4, <2>3
    <3> QED BY <2>1, <2>3, <3>1
  <2> QED BY <2>2, <2>3
<1> HIDE DEF n
<1>7. rows \in Seq(Rows) /\ Len(rows) = n
  BY <1>1, <1>5, <1>6
<1>8. ASSUME NEW i \in 1 .. n PROVE rows[i].id # NoId
  <2>1. CASE i \in M
    BY <1>2, <1>3, <1>6, <2>1
  <2>2. CASE i \notin M
    BY <1>2, <1>6, <2>2
  <2> QED BY <2>1, <2>2
<1>9. ASSUME NEW i \in 1 .. n, NEW j \in 1 .. n, rows[i].id = rows[j].id
      PROVE  i = j
  <2>1. CASE i \in M /\ j \in M
    BY <1>2, <1>6, <1>9, <2>1
  <2>2. CASE i \notin M /\ j \notin M
    <3>1. read[i].id = read[j].id /\ First(read, i) /\ First(read, j)
      BY <1>2, <1>6, <1>9, <2>2
    <3>2. ~(i < j)
      <4> SUFFICES ASSUME i < j PROVE FALSE
        OBVIOUS
      <4>1. i \in 1 .. j - 1
        BY <1>1
      <4> QED BY <3>1, <4>1 DEF First
    <3>3. ~(j < i)
      <4> SUFFICES ASSUME j < i PROVE FALSE
        OBVIOUS
      <4>1. j \in 1 .. i - 1
        BY <1>1
      <4> QED BY <3>1, <4>1 DEF First
    <3> QED BY <1>1, <3>2, <3>3
  <2>3. \A k \in (1 .. n) \ M : read[k].id \in K
    BY <1>1, <1>2
  <2>4. CASE i \in M /\ j \notin M
    BY <1>2, <1>6, <1>9, <2>3, <2>4
  <2>5. CASE i \notin M /\ j \in M
    BY <1>2, <1>6, <1>9, <2>3, <2>5
  <2> QED BY <2>1, <2>2, <2>4, <2>5
<1>10. ASSUME M = {} PROVE rows = read
  <2>1. \A i \in 1 .. n : rows[i] = read[i]
    BY <1>4, <1>10
  <2> QED BY <1>1, <1>7, <2>1, SameRows DEF n
<1> QED BY <1>1, <1>6, <1>7, <1>8, <1>9, <1>10 DEF n, M, rows

\* An import that has read all.
ReadIn(r, rows, todo, fits) ==
  [[[[r EXCEPT !.reads = <<>>] EXCEPT !.snap = [r.snap EXCEPT !.rows = rows]]
      EXCEPT !.todo = todo] EXCEPT !.alone = r.alone /\ fits]

\* What that is, field by field.
LEMMA ReadInIs ==
  ASSUME NEW r, DOMAIN r = RunParts, r.alone \in BOOLEAN, NEW todo, NEW fits \in BOOLEAN,
         r.snap \in [augments : Augs, rows : Seq(Rows)], NEW rows \in Seq(Rows)
  PROVE  LET z == ReadIn(r, rows, todo, fits)
         IN  /\ DOMAIN z = RunParts /\ z.kind = r.kind /\ z.reads = <<>>
             /\ z.snap \in [augments : Augs, rows : Seq(Rows)]
             /\ z.snap.rows = rows /\ z.snap.augments = r.snap.augments
             /\ z.todo = todo /\ z.alone = (r.alone /\ fits) /\ z.alone \in BOOLEAN
<1> DEFINE a == r.alone /\ fits
           p == [r.snap EXCEPT !.rows = rows]
           v == [r EXCEPT !.reads = <<>>]
           x == [v EXCEPT !.snap = p]
           y == [x EXCEPT !.todo = todo]
           z == [y EXCEPT !.alone = a]
<1>1. a \in BOOLEAN
  OBVIOUS
<1>2. p \in [augments : Augs, rows : Seq(Rows)] /\ p.rows = rows
      /\ p.augments = r.snap.augments
  OBVIOUS
<1>3. /\ DOMAIN v = RunParts /\ v.kind = r.kind /\ v.reads = <<>>
  BY Changes
<1> HIDE DEF v, p
<1>4. /\ DOMAIN x = RunParts /\ x.kind = r.kind /\ x.reads = <<>> /\ x.snap = p
  BY <1>3, Changes
<1> HIDE DEF x
<1>5. /\ DOMAIN y = RunParts /\ y.kind = r.kind /\ y.snap = p /\ y.reads = <<>>
      /\ y.todo = todo
  BY <1>4, Changes
<1> HIDE DEF y
<1>6. /\ DOMAIN z = RunParts /\ z.kind = r.kind /\ z.snap = p /\ z.reads = <<>>
      /\ z.todo = todo /\ z.alone = a
  BY <1>5, Changes
<1>7. ReadIn(r, rows, todo, fits) = z
  BY Zenon DEF ReadIn, x, y, v, p
<1> HIDE DEF z, a
<1>8. /\ z.snap \in [augments : Augs, rows : Seq(Rows)] /\ z.snap.rows = rows
      /\ z.snap.augments = r.snap.augments /\ z.alone \in BOOLEAN
  BY <1>1, <1>2, <1>6
<1> QED BY <1>6, <1>7, <1>8, Zenon DEF a

\* An import reads the rows, gives ids to those that have none and is to write
\* them back.
LEMMA StepImportReadsIncome ==
  ASSUME SheetsInv, NEW s \in Screens, ImportReadsIncome(s)
  PROVE  SheetsInv'
<1> DEFINE r == run[s]
           read == Parsed(sheet)
           fits == \/ Missing(read) = {}
                   \/ /\ HasUuids(sheet) /\ Blank \notin Range(sheet.rows)
                      /\ \A i \in DOMAIN read : Layout["current"][sheet.rows[i].v] = read[i].v
<1>1. /\ r.todo = <<>> /\ r.reads # <<>> /\ Head(r.reads) = "income" /\ r.kind = "import"
      /\ UNCHANGED <<plan, sheet, queue, late, flush, backup, source>>
  BY DEF ImportReadsIncome, Reads
<1>2. PICK fresh \in [Missing(read) -> FreshIds] :
        /\ \A i, j \in DOMAIN fresh : i # j => fresh[i] # fresh[j]
        /\ run' = [run EXCEPT ![s] = ReadIn(r, Identified(read, fresh),
                                            UuidWrites(read, Identified(read, fresh)), fits)]
  <2>1. PICK fresh \in [Missing(read) -> FreshIds] :
          /\ \A i, j \in DOMAIN fresh : i # j => fresh[i] # fresh[j]
          /\ run' = [run EXCEPT ![s].reads = <<>>, ![s].snap.rows = Identified(read, fresh),
                                ![s].todo = UuidWrites(read, Identified(read, fresh)),
                                ![s].alone = @ /\ fits]
    BY Zenon DEF ImportReadsIncome, Identified
  <2> DEFINE Raw(rows, todo) ==
               run' = [run EXCEPT ![s].reads = <<>>, ![s].snap.rows = rows,
                                  ![s].todo = todo, ![s].alone = @ /\ fits]
             To(rows, todo) == run' = [run EXCEPT ![s] = ReadIn(r, rows, todo, fits)]
  <2> HIDE DEF fits, read
  <2>2. \A rows, todo : Raw(rows, todo) => To(rows, todo)
    <3> SUFFICES ASSUME NEW rows, NEW todo, Raw(rows, todo) PROVE To(rows, todo)
      OBVIOUS
    <3>1. DOMAIN run = Screens
      BY DEF SheetsInv, Typed
    <3> QED BY <3>1 DEF ReadIn
  <2> QED BY <2>1, <2>2
<1>3. RunOK(r) /\ r # Resting /\ SheetOK(sheet)
  BY <1>1, RestingIs DEF SheetsInv, Typed
<1> DEFINE rows == Identified(read, fresh)
           todo == UuidWrites(read, rows)
           z == ReadIn(r, rows, todo, fits)
<1>4. fits \in BOOLEAN
  OBVIOUS
<1> HIDE DEF r
<1>5. /\ DOMAIN r = RunParts /\ r.alone \in BOOLEAN
      /\ r.snap \in [augments : Augs, rows : Seq(Rows)]
      /\ r.reads \in {<<"augments", "income">>, <<"income">>}
  BY <1>1, <1>3, RunIs
<1>6. r.reads = <<"income">>
  <2>1. Head(<<"augments", "income">>) # "income"
    OBVIOUS
  <2> QED BY <1>1, <1>5, <2>1
<1>7. /\ read \in Seq(Rows)
      /\ \A i \in DOMAIN read : read[i].id \in IdsOf(sheet.rows) \union {NoId}
      /\ Blank \notin Range(sheet.rows) =>
           /\ Len(read) = Len(sheet.rows)
           /\ \A i \in DOMAIN sheet.rows : read[i].v = Layout[sheet.header][sheet.rows[i].v]
  BY <1>3, ParsedRows
<1> HIDE DEF read
<1>8. /\ rows \in Seq(Rows) /\ Len(rows) = Len(read)
      /\ \A i \in DOMAIN read : rows[i].v = read[i].v
      /\ \A i \in DOMAIN read : rows[i].id # NoId
      /\ \A i, j \in DOMAIN read : rows[i].id = rows[j].id => i = j
      /\ Missing(read) = {} => rows = read
  <2> DEFINE K == IdsOf(plan.rows) \union IdsOf(sheet.rows)
  <2>1. \A i \in DOMAIN read : read[i].id \in K \union {NoId}
    BY <1>7
  <2>2. fresh \in [Missing(read) -> OwnIds \ K]
    BY DEF FreshIds
  <2> HIDE DEF K
  <2>3. \A i, j \in DOMAIN fresh : i # j => fresh[i] # fresh[j]
    BY <1>2
  <2> QED BY <1>7, <2>1, <2>2, <2>3, IdentifiedRows
<1> HIDE DEF rows
<1>9. DOMAIN rows = DOMAIN read /\ DOMAIN read = 1 .. Len(read)
  BY <1>7, <1>8
<1> HIDE DEF fits
<1>10. /\ DOMAIN z = RunParts /\ z.kind = "import" /\ z.reads = <<>>
       /\ z.snap \in [augments : Augs, rows : Seq(Rows)]
       /\ z.snap.rows = rows /\ z.snap.augments = r.snap.augments
       /\ z.todo = todo /\ z.alone = (r.alone /\ fits) /\ z.alone \in BOOLEAN
  BY <1>1, <1>4, <1>5, <1>8, ReadInIs
<1>11. run' = [run EXCEPT ![s] = z]
  BY <1>2 DEF rows
<1> HIDE DEF z, todo
<1>12. PlanOK(z.snap)
  BY <1>8, <1>9, <1>10 DEF PlanOK, IsPlan
<1>13. todo = IF Missing(read) = {} THEN <<>> ELSE <<HeaderWrite, IdsWrite(z.snap)>>
  BY <1>10, Zenon DEF todo, UuidWrites, HeaderWrite, IdsWrite
<1>14. /\ HeaderWrite \in OpenWrites("stamped", z.snap)
       /\ IdsWrite(z.snap) \in OpenWrites("stamped", z.snap)
       /\ OpenWrites("stamped", z.snap) = {HeaderWrite, IdsWrite(z.snap)}
  BY DEF OpenWrites
<1>15. /\ WriteOK(HeaderWrite) /\ WriteOK(IdsWrite(z.snap))
  BY <1>12, <1>14, OpenOK
<1>16. /\ IsQueue(<<HeaderWrite, IdsWrite(z.snap)>>)
       /\ Range(<<HeaderWrite, IdsWrite(z.snap)>>) = {HeaderWrite, IdsWrite(z.snap)}
  BY <1>15, QueueTwo
<1>17. IsQueue(todo)
  BY <1>13, <1>16, QueueNone
<1>18. RunOK(z)
  BY <1>10, <1>12, <1>17 DEF RunOK, RunParts, PlanOK
<1>19. ASSUME z.alone, Stage(r, sheet, queue, late) PROVE Stage(z, sheet, queue, late)
  <2>1. Reading(r, sheet, queue, late)
    BY <1>1, <1>19 DEF Stage, ImportStage
  <2>2. <<"income">> # <<"augments", "income">>
    OBVIOUS
  <2>3. queue = <<>> /\ late = {} /\ r.snap.augments = sheet.augments
    BY <1>6, <2>1, <2>2 DEF Reading
  <2>4. fits
    BY <1>10, <1>19
  <2>5. CASE Missing(read) = {}
    <3>1. Fits("read", z.snap, sheet)
      BY <1>8, <1>10, <2>3, <2>5 DEF Fits, read
    <3>2. todo = <<>>
      BY <1>13, <2>5
    <3>3. Settled("read", z.snap, z.todo, sheet, queue, late, NoFlush)
      BY <1>10, <2>3, <3>1, <3>2, QueueNone, NoFlushIs DEF Settled, OpenWrites
    <3> QED BY <1>10, <3>3 DEF Stage, ImportStage
  <2>6. CASE Missing(read) # {}
    <3>1. /\ HasUuids(sheet) /\ Blank \notin Range(sheet.rows)
          /\ \A i \in DOMAIN read : Layout["current"][sheet.rows[i].v] = read[i].v
          /\ Len(read) = Len(sheet.rows)
          /\ \A i \in DOMAIN sheet.rows : read[i].v = Layout[sheet.header][sheet.rows[i].v]
      BY <1>7, <2>4, <2>6 DEF fits
    <3> DEFINE n == Len(read)
    <3>6. n \in Nat /\ DOMAIN read = 1 .. n /\ DOMAIN sheet.rows = 1 .. n
      BY <1>3, <1>7, <3>1, SheetFields
    <3>7. \A i \in 1 .. n : \A h \in {sheet.header, "current"} :
            Layout[h][sheet.rows[i].v] = rows[i].v
      BY <1>8, <3>1, <3>6
    <3>2. \A i \in DOMAIN sheet.rows : sheet.rows[i] # Blank
      BY <3>1 DEF Range
    <3>3. Fits("stamped", z.snap, sheet)
      BY <1>8, <1>10, <2>3, <3>1, <3>2, <3>6, <3>7 DEF Fits
    <3>4. Range(z.todo) = {HeaderWrite, IdsWrite(z.snap)}
      BY <1>10, <1>13, <1>16, <2>6
    <3>5. Settled("stamped", z.snap, z.todo, sheet, queue, late, NoFlush)
      BY <1>14, <2>3, <3>3, <3>4, QueueNone, NoFlushIs DEF Settled
    <3> QED BY <1>10, <3>5 DEF Stage, ImportStage
  <2> QED BY <2>5, <2>6
<1>20. (z.alone => run[s].alone) /\ run[s] # Resting
  BY <1>3, <1>10 DEF r
<1> QED BY <1>1, <1>11, <1>18, <1>19, <1>20, StepGoesOn DEF r

\* An export that is alone and has nothing left to do has made the sheet that
\* of the plan, but for what is queued; an import has read what is in it.
LEMMA ExportEnds ==
  ASSUME NEW r, r.kind = "export", r.todo = <<>>, r.reads = <<>>, NEW s, NEW q, NEW l,
         Stage(r, s, q, l)
  PROVE  \E m \in {"all", "diff"} : Settled(m, r.snap, <<>>, s, q, l, NoFlush)
<1>1. <<>> # <<"income">>
  OBVIOUS
<1>2. Replacing(r, s, q, l) \/ Matching(r, s, q, l)
  BY <1>1 DEF Stage, ExportStage, Clearing, Filling
<1>3. CASE Replacing(r, s, q, l)
  BY <1>3 DEF Replacing
<1>4. CASE Matching(r, s, q, l)
  <2>1. /\ Settled("tabs", r.snap, <<>>, s, q, l, NoFlush) /\ s.header = "current"
        /\ Holds(Result(s.rows, <<>>), r.snap.rows)
    BY <1>4 DEF Matching
  <2>2. Result(s.rows, <<>>) = s.rows
    BY DEF Result
  <2>3. Fits("diff", r.snap, s)
    BY <2>1, <2>2 DEF Fits
  <2>4. OpenWrites("tabs", r.snap) = OpenWrites("diff", r.snap)
    BY DEF OpenWrites
  <2>5. Settled("diff", r.snap, <<>>, s, q, l, NoFlush)
    BY <2>1, <2>3, <2>4 DEF Settled
  <2> QED BY <2>5
<1> QED BY <1>2, <1>3, <1>4

\* An import that is alone and done has read what is in the sheet.
LEMMA ImportEnds ==
  ASSUME NEW r, r.kind = "import", r.todo = <<>>, r.reads = <<>>, NEW s, NEW q, NEW l,
         Stage(r, s, q, l)
  PROVE  \E m \in {"read", "stamped"} : Settled(m, r.snap, <<>>, s, q, l, NoFlush)
<1>1. <<>> # <<"income">> /\ <<>> # <<"augments", "income">>
  OBVIOUS
<1> QED BY <1>1 DEF Stage, ImportStage, Reading

\* An export or import ends.
LEMMA StepFinish ==
  ASSUME SheetsInv, NEW s \in Screens, Finish(s)
  PROVE  SheetsInv'
<1> DEFINE r == run[s]
           known == IF r.alone THEN r.snap ELSE None
<1>1. Typed /\ AloneOK /\ KnownOK
  BY DEF SheetsInv
<1>2. /\ r.kind # "none" /\ r.todo = <<>> /\ r.reads = <<>>
      /\ run' = [run EXCEPT ![s] = Resting]
      /\ UNCHANGED <<sheet, queue, late, flush>>
      /\ r.kind = "export" => backup' = known /\ UNCHANGED <<plan, source>>
      /\ r.kind # "export" => plan' = r.snap /\ source' = known /\ UNCHANGED backup
  BY Zenon DEF Finish
<1>3. /\ DOMAIN run = Screens /\ (\A x \in Screens : RunOK(run[x])) /\ PlanOK(plan)
  BY <1>1 DEF Typed
<1>4. RunOK(r) /\ r # Resting
  BY <1>2, <1>3, RestingIs
<1>5. backup = None /\ source = None
  BY <1>1, <1>4, NoneKnown
<1>6. r.alone => /\ \A o \in Screens \ {s} : run[o] = Resting
                 /\ flush = NoFlush /\ Stage(r, sheet, queue, late)
  BY <1>1, AloneIs
<1> HIDE DEF r
<1>7. PlanOK(r.snap) /\ r.kind \in {"export", "import"} /\ r.alone \in BOOLEAN
  <2>1. <<>> # <<"income">> /\ <<>> # <<"augments", "income">>
    OBVIOUS
  <2> QED BY <1>2, <1>4, <2>1, RunIs
<1>8. known # None => r.alone /\ known = r.snap
  OBVIOUS
<1> HIDE DEF known
<1>9. PlanOK(plan') /\ (backup' # None => PlanOK(backup'))
      /\ (source' # None => PlanOK(source'))
  BY <1>2, <1>3, <1>5, <1>7, <1>8
<1>10. /\ DOMAIN run' = Screens /\ run'[s] = Resting
       /\ \A o \in Screens \ {s} : run'[o] = run[o]
  BY <1>2, <1>3, RunChanges
<1>11. \A x \in Screens : RunOK(run'[x])
  BY <1>3, <1>10, RestingIs
<1>12. Typed'
  BY <1>1, <1>2, <1>9, <1>10, <1>11 DEF Typed
<1>13. AloneOK'
  <2>1. ~run'[s].alone /\ run[s] # Resting
    BY <1>4, <1>10, RestingIs DEF r
  <2> QED BY <1>1, <1>10, <2>1, AloneMoves
<1>14. KnownOK'
  <2>1. ASSUME backup' # None
        PROVE  /\ \A x \in Screens : run'[x] = Resting
               /\ \E m \in {"all", "diff"} :
                    Settled(m, backup', <<>>, sheet', queue', late', flush')
    <3>1. r.kind = "export" /\ backup' = r.snap /\ r.alone
      BY <1>2, <1>5, <1>8, <2>1
    <3>2. \A x \in Screens : run'[x] = Resting
      BY <1>6, <1>10, <3>1
    <3>3. flush = NoFlush /\ Stage(r, sheet, queue, late)
      BY <1>6, <3>1
    <3>4. \E m \in {"all", "diff"} : Settled(m, r.snap, <<>>, sheet, queue, late, NoFlush)
      BY <1>2, <3>1, <3>3, ExportEnds
    <3> QED BY <1>2, <3>1, <3>2, <3>3, <3>4
  <2>2. ASSUME source' # None
        PROVE  /\ \A x \in Screens : run'[x] = Resting
               /\ \E m \in {"read", "stamped"} :
                    Settled(m, source', <<>>, sheet', queue', late', flush')
    <3>1. r.kind = "import" /\ source' = r.snap /\ r.alone
      BY <1>2, <1>5, <1>7, <1>8, <2>2
    <3>2. \A x \in Screens : run'[x] = Resting
      BY <1>6, <1>10, <3>1
    <3>3. flush = NoFlush /\ Stage(r, sheet, queue, late)
      BY <1>6, <3>1
    <3>4. \E m \in {"read", "stamped"} : Settled(m, r.snap, <<>>, sheet, queue, late, NoFlush)
      BY <1>2, <3>1, <3>3, ImportEnds
    <3> QED BY <1>2, <3>1, <3>2, <3>3, <3>4
  <2> QED BY <2>1, <2>2 DEF KnownOK, Known
<1> QED BY <1>12, <1>13, <1>14 DEF SheetsInv

-----------------------------------------------------------------------------
\* The flush takes the queue: what is settled stays so.
LEMMA SettledTaken ==
  ASSUME NEW m, NEW t, NEW s, NEW q, NEW l, NEW f, f.items = q, f.left = <<>>,
         Settled(m, t, <<>>, s, q, l, NoFlush)
  PROVE  Settled(m, t, <<>>, s, q, l, f)
<1>1. Range(f.items) = Range(q) /\ Range(f.left) = {} /\ Range(<<>>) = {}
  BY QueueNone
<1>2. /\ Fits(m, t, s) /\ Range(q) \union l \subseteq OpenWrites(m, t)
      /\ \A w \in OpenWrites(m, t) : Done(t, w, s) \/ w \in Range(q)
  BY <1>1 DEF Settled
<1> QED BY <1>1, <1>2 DEF Settled

\* A flush begins
LEMMA StepFlush ==
  ASSUME SheetsInv, Flush
  PROVE  SheetsInv'
<1>1. Typed /\ AloneOK /\ KnownOK
  BY DEF SheetsInv
<1>2. /\ ~flush.on /\ flush' = [on |-> TRUE, items |-> queue, left |-> <<>>]
      /\ run' = Disturbed(run) /\ UNCHANGED <<plan, sheet, queue, late, backup, source>>
  BY DEF Flush
<1>3. /\ DOMAIN run = Screens /\ (\A x \in Screens : RunOK(run[x])) /\ IsQueue(queue)
      /\ flush = NoFlush
  BY <1>1, <1>2 DEF Typed
<1>4. /\ DOMAIN run' = Screens
      /\ \A x \in Screens : /\ RunOK(run'[x]) /\ ~run'[x].alone
                            /\ (run[x] = Resting <=> run'[x] = Resting)
  BY <1>2, <1>3, DisturbedRuns
<1>5. /\ DOMAIN flush' = {"on", "items", "left"} /\ flush'.on = TRUE
      /\ flush'.items = queue /\ flush'.left = <<>>
  BY <1>2
<1>6. Typed'
  BY <1>1, <1>2, <1>3, <1>4, <1>5, QueueNone DEF Typed
<1>7. AloneOK'
  BY <1>4, NoneAlone
<1>8. KnownOK'
  <2>1. ASSUME NEW m, NEW t, Settled(m, t, <<>>, sheet, queue, late, flush)
        PROVE  Settled(m, t, <<>>, sheet', queue', late', flush')
    BY <1>2, <1>3, <1>5, <2>1, SettledTaken
  <2>2. backup' = backup /\ source' = source
    BY <1>2
  <2> QED BY <1>1, <1>4, <2>1, <2>2 DEF KnownOK, Known
<1> QED BY <1>6, <1>7, <1>8 DEF SheetsInv

\* A write of the flush fails: it is kept for later, and may land after all.
LEMMA SettledKept ==
  ASSUME NEW m, NEW t, NEW s, NEW q, NEW l, NEW f, IsQueue(f.items), IsQueue(f.left),
         f.items # <<>>, Settled(m, t, <<>>, s, q, l, f),
         NEW l2 \in {l, l \union {Head(f.items)}},
         NEW g, g.on = f.on, g.items = Tail(f.items), g.left = Append(f.left, Head(f.items))
  PROVE  Settled(m, t, <<>>, s, q, l2, g)
<1> DEFINE w == Head(f.items)
<1>1. /\ WriteOK(w) /\ Range(f.items) = {w} \union Range(g.items)
      /\ Range(g.left) = Range(f.left) \union {w}
  BY QueueHead, QueueAppend
<1>2. l2 \subseteq l \union {w}
  OBVIOUS
<1> HIDE DEF w
<1>3. Range(g.items) \union Range(g.left) = Range(f.items) \union Range(f.left)
  BY <1>1
<1>4. /\ Fits(m, t, s)
      /\ Range(q) \union l \union Range(<<>>) \union Range(f.items) \union Range(f.left)
           \subseteq OpenWrites(m, t)
      /\ \A x \in OpenWrites(m, t) : Done(t, x, s) \/ x \in Range(q) \union Range(<<>>)
      /\ f.on => \A x \in Range(q) : Done(t, x, s) \/ x \in Range(f.items) \union Range(f.left)
  BY DEF Settled
<1>5. Range(q) \union l2 \union Range(<<>>) \union Range(g.items) \union Range(g.left)
        \subseteq OpenWrites(m, t)
  BY <1>1, <1>2, <1>3, <1>4
<1>6. g.on => \A x \in Range(q) : Done(t, x, s) \/ x \in Range(g.items) \union Range(g.left)
  BY <1>3, <1>4
<1> QED BY <1>4, <1>5, <1>6 DEF Settled

\* A flush under way leaves nobody alone.
LEMMA NoneAloneInFlush ==
  ASSUME Typed, AloneOK, flush.items # <<>>
  PROVE  flush.on = TRUE /\ \A s \in Screens : ~run[s].alone
<1>1. flush # NoFlush /\ flush.on \in BOOLEAN /\ (~flush.on => flush = NoFlush)
  BY NoFlushIs DEF Typed
<1> QED BY <1>1, AloneIs

\* writes one of the queue or keeps it
LEMMA StepFlushWrites ==
  ASSUME SheetsInv, FlushWrites
  PROVE  SheetsInv'
<1> DEFINE w == Head(flush.items)
           kept == [flush EXCEPT !.items = Tail(flush.items)]
           put == [flush EXCEPT !.items = Tail(flush.items), !.left = Append(flush.left, w)]
<1>1. Typed /\ AloneOK /\ KnownOK
  BY DEF SheetsInv
<1>2. /\ flush.items # <<>> /\ UNCHANGED <<plan, queue, run, backup, source>>
      /\ \/ sheet' = Written(sheet, w) /\ flush' = kept /\ UNCHANGED late
         \/ flush' = put /\ late' \in {late, late \union {w}} /\ UNCHANGED sheet
  BY Zenon DEF FlushWrites
<1>3. /\ DOMAIN flush = {"on", "items", "left"} /\ IsQueue(flush.items) /\ IsQueue(flush.left)
      /\ SheetOK(sheet) /\ (\A x \in late : WriteOK(x))
      /\ (backup # None => PlanOK(backup)) /\ (source # None => PlanOK(source))
  BY <1>1 DEF Typed
<1>4. /\ WriteOK(w) /\ IsQueue(Tail(flush.items)) /\ w \in Range(flush.items)
      /\ Range(flush.items) = {w} \union Range(Tail(flush.items))
      /\ IsQueue(Append(flush.left, w))
  BY <1>2, <1>3, QueueHead, QueueAppend
<1>5. flush.on = TRUE /\ \A s \in Screens : ~run[s].alone
  BY <1>1, <1>2, NoneAloneInFlush
<1>6. /\ DOMAIN kept = {"on", "items", "left"} /\ kept.on = TRUE
      /\ kept.items = Tail(flush.items) /\ kept.left = flush.left
      /\ DOMAIN put = {"on", "items", "left"} /\ put.on = TRUE
      /\ put.items = Tail(flush.items) /\ put.left = Append(flush.left, w)
  <2>1. DOMAIN flush = {"on", "items", "left"} /\ flush.on = TRUE
    BY <1>3, <1>5
  <2> QED BY <2>1
<1> HIDE DEF kept, put
<1>7. AloneOK'
  BY <1>2, <1>5, NoneAlone
<1>8. Typed'
  <2>1. SheetOK(sheet') /\ \A x \in late' : WriteOK(x)
    BY <1>2, <1>3, <1>4, WrittenTab
  <2>2. /\ DOMAIN flush' = {"on", "items", "left"} /\ flush'.on = TRUE
        /\ IsQueue(flush'.items) /\ IsQueue(flush'.left)
    BY <1>2, <1>3, <1>4, <1>6
  <2> HIDE DEF w
  <2> QED BY <1>1, <1>2, <2>1, <2>2 DEF Typed
<1>9. ASSUME NEW m, NEW t, PlanOK(t), Settled(m, t, <<>>, sheet, queue, late, flush)
      PROVE  Settled(m, t, <<>>, sheet', queue', late', flush')
  <2>1. CASE sheet' = Written(sheet, w) /\ flush' = kept /\ UNCHANGED late
    <3> HIDE DEF w
    <3>1. Settled(m, t, <<>>, Written(sheet, w), queue, late, kept)
      BY <1>3, <1>4, <1>5, <1>6, <1>9, SettledLands
    <3> QED BY <1>2, <2>1, <3>1
  <2>2. CASE flush' = put /\ late' \in {late, late \union {w}} /\ UNCHANGED sheet
    <3>1. Settled(m, t, <<>>, sheet, queue, late', put)
      BY <1>2, <1>3, <1>5, <1>6, <1>9, <2>2, SettledKept
    <3> QED BY <1>2, <2>2, <3>1
  <2> QED BY <1>2, <2>1, <2>2
<1>10. KnownOK'
  <2>1. ASSUME backup # None
        PROVE  \E m \in {"all", "diff"} : Settled(m, backup, <<>>, sheet', queue', late', flush')
    BY <1>1, <1>3, <1>9, <2>1 DEF KnownOK, Known
  <2>2. ASSUME source # None
        PROVE  \E m \in {"read", "stamped"} :
                 Settled(m, source, <<>>, sheet', queue', late', flush')
    BY <1>1, <1>3, <1>9, <2>2 DEF KnownOK, Known
  <2> HIDE DEF w
  <2> QED BY <1>1, <1>2, <2>1, <2>2 DEF KnownOK, Known
<1> QED BY <1>7, <1>8, <1>10 DEF SheetsInv

\* The flush puts back what it could not write: the rest is done.
LEMMA SettledEnds ==
  ASSUME NEW m, NEW t, NEW s, NEW q, NEW l, NEW f, f.on = TRUE, f.items = <<>>,
         Settled(m, t, <<>>, s, q, l, f)
  PROVE  Settled(m, t, <<>>, s, f.left, l, NoFlush)
<1>1. /\ Range(f.items) = {} /\ Range(<<>>) = {} /\ NoFlush.on = FALSE
      /\ Range(NoFlush.items) = {} /\ Range(NoFlush.left) = {}
  BY QueueNone, NoFlushIs
<1>2. /\ Fits(m, t, s) /\ Range(f.left) \union l \subseteq OpenWrites(m, t)
      /\ \A w \in OpenWrites(m, t) : Done(t, w, s) \/ w \in Range(q)
      /\ \A w \in Range(q) : Done(t, w, s) \/ w \in Range(f.left)
  BY <1>1 DEF Settled
<1>3. \A w \in OpenWrites(m, t) : Done(t, w, s) \/ w \in Range(f.left)
  BY <1>2
<1> QED BY <1>1, <1>2, <1>3 DEF Settled

\* and ends.
LEMMA StepFlushEnds ==
  ASSUME SheetsInv, FlushEnds
  PROVE  SheetsInv'
<1>1. Typed /\ AloneOK /\ KnownOK
  BY DEF SheetsInv
<1>2. /\ flush.on /\ flush.items = <<>> /\ queue' = flush.left /\ flush' = NoFlush
      /\ UNCHANGED <<plan, sheet, late, run, backup, source>>
  BY DEF FlushEnds
<1>3. IsQueue(flush.left) /\ flush.on = TRUE
  BY <1>1, <1>2 DEF Typed
<1>4. Typed'
  BY <1>1, <1>2, <1>3, NoFlushIs, QueueNone DEF Typed
<1>5. \A s \in Screens : ~run'[s].alone
  <2>1. flush # NoFlush
    BY <1>3, NoFlushIs
  <2> QED BY <1>1, <1>2, <2>1, AloneIs
<1>6. AloneOK'
  BY <1>5, NoneAlone
<1>7. KnownOK'
  <2>1. ASSUME NEW m, NEW t, Settled(m, t, <<>>, sheet, queue, late, flush)
        PROVE  Settled(m, t, <<>>, sheet', queue', late', flush')
    BY <1>2, <1>3, <2>1, SettledEnds
  <2>2. backup' = backup /\ source' = source /\ run' = run
    BY <1>2
  <2> QED BY <1>1, <2>1, <2>2 DEF KnownOK, Known
<1> QED BY <1>4, <1>6, <1>7 DEF SheetsInv

\* The page is closed during a flush: the queue is still all there.
LEMMA SettledClosed ==
  ASSUME NEW m, NEW t, NEW s, NEW q, NEW l, NEW f, Settled(m, t, <<>>, s, q, l, f)
  PROVE  Settled(m, t, <<>>, s, q, l, NoFlush)
<1>1. /\ NoFlush.on = FALSE /\ Range(NoFlush.items) = {} /\ Range(NoFlush.left) = {}
  BY QueueNone, NoFlushIs
<1>2. /\ Fits(m, t, s)
      /\ Range(q) \union l \union Range(<<>>) \union Range(f.items) \union Range(f.left)
           \subseteq OpenWrites(m, t)
      /\ \A x \in OpenWrites(m, t) : Done(t, x, s) \/ x \in Range(q) \union Range(<<>>)
  BY DEF Settled
<1> QED BY <1>1, <1>2 DEF Settled

\* The page is closed.
LEMMA StepClose ==
  ASSUME SheetsInv, Close
  PROVE  SheetsInv'
<1>1. Typed /\ AloneOK /\ KnownOK
  BY DEF SheetsInv
<1>2. /\ run' = [s \in Screens |-> Resting] /\ flush' = NoFlush
      /\ UNCHANGED <<plan, sheet, queue, late, backup, source>>
  BY DEF Close
<1>3. /\ DOMAIN run' = Screens
      /\ \A s \in Screens : run'[s] = Resting /\ ~run'[s].alone /\ RunOK(run'[s])
  BY <1>2, RestingIs
<1>4. Typed'
  BY <1>1, <1>2, <1>3, NoFlushIs, QueueNone DEF Typed
<1>5. AloneOK'
  BY <1>3, NoneAlone
<1>6. KnownOK'
  <2>1. ASSUME NEW m, NEW t, Settled(m, t, <<>>, sheet, queue, late, flush)
        PROVE  Settled(m, t, <<>>, sheet', queue', late', flush')
    BY <1>2, <2>1, SettledClosed
  <2>2. backup' = backup /\ source' = source
    BY <1>2
  <2> QED BY <1>1, <1>3, <2>1, <2>2 DEF KnownOK, Known
<1> QED BY <1>4, <1>5, <1>6 DEF SheetsInv

\* What the user may make of the plan and of the spreadsheet.
LEMMA UserMakes ==
  /\ \A p \in Plans : PlanOK(p)
  /\ \A t \in Tables : SheetOK(t)
<1>1. /\ Plans \subseteq [augments : Values, rows : Seq(Rows)]
      /\ Tables \subseteq [augments : Values \union {None}, header : Headers, rows : Seq(Rows)]
      /\ \A p \in Plans : IsPlan(p)
      /\ \A t \in Tables : t.rows = <<>> \/ t.rows[Len(t.rows)] # Blank
  BY SheetsAssumption
<1>2. ASSUME NEW p \in Plans PROVE PlanOK(p)
  <2>1. p \in [augments : Values, rows : Seq(Rows)]
    BY <1>1
  <2>2. p \in [augments : Augs, rows : Seq(Rows)]
    BY <2>1 DEF Augs
  <2> QED BY <1>1, <2>2 DEF PlanOK
<1>3. ASSUME NEW t \in Tables PROVE SheetOK(t)
  BY <1>1 DEF SheetOK, Augs, Trimmed
<1> QED BY <1>2, <1>3

\* The user works on the plan
LEMMA StepEditPlan ==
  ASSUME SheetsInv, EditPlan
  PROVE  SheetsInv'
<1>1. Typed /\ AloneOK /\ KnownOK
  BY DEF SheetsInv
<1>2. plan' \in Plans /\ UNCHANGED <<sheet, queue, late, run, flush, backup, source>>
  BY DEF EditPlan
<1>3. PlanOK(plan')
  BY <1>2, UserMakes
<1>4. Typed'
  BY <1>1, <1>2, <1>3 DEF Typed
<1>5. AloneOK'
  BY <1>1, <1>2 DEF AloneOK
<1>6. KnownOK'
  BY <1>1, <1>2 DEF KnownOK
<1> QED BY <1>4, <1>5, <1>6 DEF SheetsInv

\* Whatever is under way is disturbed, and nothing is known any more.
LEMMA StepDisturbs ==
  ASSUME SheetsInv, SheetOK(sheet'), IsQueue(queue'),
         run' = Disturbed(run), backup' = None, source' = None,
         UNCHANGED <<plan, late, flush>>
  PROVE  SheetsInv'
<1>1. Typed /\ AloneOK /\ KnownOK
  BY DEF SheetsInv
<1>2. DOMAIN run = Screens /\ \A s \in Screens : RunOK(run[s])
  BY <1>1 DEF Typed
<1>3. DOMAIN run' = Screens /\ \A s \in Screens : RunOK(run'[s]) /\ ~run'[s].alone
  BY <1>2, DisturbedRuns
<1>4. Typed'
  BY <1>1, <1>3 DEF Typed
<1> QED BY <1>3, <1>4, NoneAlone, StillNone DEF SheetsInv

\* or in the spreadsheet
LEMMA StepEditSheet ==
  ASSUME SheetsInv, EditSheet
  PROVE  SheetsInv'
<1>1. sheet' \in Tables /\ run' = Disturbed(run) /\ backup' = None /\ source' = None
      /\ UNCHANGED <<plan, queue, late, flush>>
  BY DEF EditSheet
<1>2. SheetOK(sheet') /\ IsQueue(queue')
  BY <1>1, UserMakes DEF SheetsInv, Typed
<1> QED BY <1>1, <1>2, StepDisturbs

\* or unlinks it.
LEMMA StepUnlink ==
  ASSUME SheetsInv, Unlink
  PROVE  SheetsInv'
<1>1. queue' = <<>> /\ run' = Disturbed(run) /\ backup' = None /\ source' = None
      /\ UNCHANGED <<plan, sheet, late, flush>>
  BY DEF Unlink
<1>2. SheetOK(sheet') /\ IsQueue(queue')
  BY <1>1, QueueNone DEF SheetsInv, Typed
<1> QED BY <1>1, <1>2, StepDisturbs

\* The invariant holds at first
LEMMA SheetsStarts ==
  ASSUME SheetsInit
  PROVE  SheetsInv
<1>1. /\ plan \in Plans /\ sheet \in Tables /\ queue = <<>> /\ late = {}
      /\ run = [s \in Screens |-> Resting] /\ flush = NoFlush
      /\ backup = None /\ source = None
  BY DEF SheetsInit
<1>2. PlanOK(plan) /\ SheetOK(sheet)
  BY <1>1, UserMakes
<1>3. /\ DOMAIN run = Screens
      /\ \A s \in Screens : run[s] = Resting /\ ~run[s].alone /\ RunOK(run[s])
  BY <1>1, RestingIs
<1>4. Typed
  BY <1>1, <1>2, <1>3, NoFlushIs, QueueNone DEF Typed
<1>5. AloneOK
  BY <1>3 DEF AloneOK
<1>6. KnownOK
  BY <1>1 DEF KnownOK, Known
<1> QED BY <1>4, <1>5, <1>6 DEF SheetsInv

\* and every step keeps it.
LEMMA SheetsSteps ==
  ASSUME SheetsInv, [SheetsNext]_sheetsVars
  PROVE  SheetsInv'
<1>1. CASE UNCHANGED sheetsVars
  <2>1. /\ UNCHANGED <<plan, sheet, queue, late, run, flush, backup, source>>
    BY <1>1 DEF sheetsVars
  <2>2. Typed'
    BY <2>1 DEF SheetsInv, Typed
  <2>3. AloneOK'
    BY <2>1 DEF SheetsInv, AloneOK
  <2>4. KnownOK'
    BY <2>1 DEF SheetsInv, KnownOK
  <2> QED BY <2>2, <2>3, <2>4 DEF SheetsInv
<1>2. ASSUME NEW s \in Screens, Export(s) PROVE SheetsInv'
  BY <1>2, StepExport
<1>3. ASSUME NEW s \in Screens, Import(s) PROVE SheetsInv'
  BY <1>3, StepImport
<1>4. ASSUME NEW s \in Screens, WriteLands(s) PROVE SheetsInv'
  BY <1>4, StepWriteLands
<1>5. ASSUME NEW s \in Screens, WriteFails(s) PROVE SheetsInv'
  BY <1>5, StepWriteFails
<1>6. ASSUME NEW s \in Screens, ExportReads(s) PROVE SheetsInv'
  BY <1>6, StepExportReads
<1>7. ASSUME NEW s \in Screens, ImportReadsAugments(s) PROVE SheetsInv'
  BY <1>7, StepImportReadsAugments
<1>8. ASSUME NEW s \in Screens, ImportSkipsAugments(s) PROVE SheetsInv'
  BY <1>8, StepImportSkipsAugments
<1>9. ASSUME NEW s \in Screens, ImportReadsIncome(s) PROVE SheetsInv'
  BY <1>9, StepImportReadsIncome
<1>10. ASSUME NEW s \in Screens, ReadFails(s) PROVE SheetsInv'
  BY <1>10, StepReadFails
<1>11. ASSUME NEW s \in Screens, Finish(s) PROVE SheetsInv'
  BY <1>11, StepFinish
<1>12. CASE LateLands
  BY <1>12, StepLateLands
<1>13. CASE Flush
  BY <1>13, StepFlush
<1>14. CASE FlushWrites
  BY <1>14, StepFlushWrites
<1>15. CASE FlushEnds
  BY <1>15, StepFlushEnds
<1>16. CASE EditPlan
  BY <1>16, StepEditPlan
<1>17. CASE EditSheet
  BY <1>17, StepEditSheet
<1>18. CASE Close
  BY <1>18, StepClose
<1>19. CASE Unlink
  BY <1>19, StepUnlink
<1> QED BY <1>1, <1>2, <1>3, <1>4, <1>5, <1>6, <1>7, <1>8, <1>9, <1>10, <1>11, <1>12,
           <1>13, <1>14, <1>15, <1>16, <1>17, <1>18, <1>19 DEF SheetsNext

-----------------------------------------------------------------------------
\* In every state of the spreadsheet backup (frontend/src/lib/sheets/sync.ts)
\* the plan and the tabs have their shape, an export or import that nothing has
\* crossed is at a stage from which the writes left complete it, and what is
\* known of the spreadsheet is borne out by the writes that have reached it and
\* those in the queue, in whatever order the late ones land.
THEOREM SheetsInvariant == SheetsSpec => []SheetsInv
<1>1. SheetsInit => SheetsInv
  BY SheetsStarts
<1>2. SheetsInv /\ [SheetsNext]_sheetsVars => SheetsInv'
  BY SheetsSteps
<1> QED BY <1>1, <1>2, PTL DEF SheetsSpec

\* The writes an export left in the queue (writeWithQueue, flushQueue) bring
\* the spreadsheet to the exported plan, each row once, whatever was in the
\* tabs before, however often flushes fail, requests are applied late and the
\* page is closed.
THEOREM BackupOwed == SheetsSpec => []BackupIsOwed
<1>1. ASSUME SheetsInv PROVE BackupIsOwed
  <2>1. /\ SheetOK(sheet) /\ IsQueue(queue) /\ (backup # None => PlanOK(backup))
        /\ (backup # None =>
              \E m \in {"all", "diff"} : Settled(m, backup, <<>>, sheet, queue, late, flush))
    BY <1>1 DEF SheetsInv, Typed, KnownOK, Known
  <2>2. ASSUME backup # None
        PROVE  Owed.augments = backup.augments /\ Owed.header = "current"
               /\ Holds(Owed.rows, backup.rows)
    BY <2>1, <2>2, OwedHolds
  <2> QED BY <2>2 DEF BackupIsOwed, Holds
<1> QED BY <1>1, SheetsInvariant, PTL

\* Importing again after an import gives the same plan, with the ids the first
\* import made and wrote back (writeUuidColumnsToSheets), once what is queued
\* has been written: of the tabs with a header of today's columns in their order.
\* An import that made ids of a tab with other columns is the exception of the
\* property.
THEOREM ImportStable == SheetsSpec => []ImportIsStable
<1>1. ASSUME SheetsInv PROVE ImportIsStable
  <2>1. /\ SheetOK(sheet) /\ IsQueue(queue) /\ (source # None => PlanOK(source))
        /\ (source # None =>
              \E m \in {"read", "stamped"} : Settled(m, source, <<>>, sheet, queue, late, flush))
    BY <1>1 DEF SheetsInv, Typed, KnownOK, Known
  <2>2. ASSUME source # None
        PROVE  Owed.augments = source.augments /\ Parsed(Owed) = source.rows
    BY <2>1, <2>2, OwedHolds
  <2> QED BY <2>2 DEF ImportIsStable
<1> QED BY <1>1, SheetsInvariant, PTL
=============================================================================
