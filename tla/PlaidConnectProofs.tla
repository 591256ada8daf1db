----------------------- MODULE PlaidConnectProofs -----------------------
(***************************************************************************)
(* Proofs about linking and removing banks, for any numbers of items,      *)
(* requests, removals, faults, and any cap and threshold.                  *)
(*                                                                         *)
(* The argument: the link intent lets one request work on an item, and     *)
(* only before Plaid knows of it.  Hence the token of an item is stored by *)
(* one request, in one row, and whatever removes the item at Plaid finds   *)
(* the token there, which means that it works on that row.  A request that *)
(* is alone on its row is the only one to write it.                        *)
(***************************************************************************)
EXTENDS PlaidConnect, FiniteSetTheorems, TLAPS

Exchanging(r) == request[r].doing = "exchange"

\* Two requests that exchange tokens exchange those of two items.
OneWorker ==
  \A q, r \in Requests :
    Exchanging(q) /\ Exchanging(r) /\ request[q].item = request[r].item => q = r

\* An item that is exchanged has its intent, and Plaid knows of no other.
Started ==
  /\ \A r \in Requests : Exchanging(r) =>
       request[r].item \in Items /\ intent[request[r].item] # "none"
  /\ \A i \in Items : intent[i] = "none" => plaid[i] = "none"

Early == {"check", "probe", "exchange"}

\* Plaid does not know of an item before its exchange, and so its token is in no
\* row; afterwards it is live until the token is stored.
NotYetKnown ==
  /\ \A r \in Requests : Exchanging(r) /\ request[r].at \in Early =>
       plaid[request[r].item] = "none"
  /\ \A j \in Items : token[j] # NoItem => plaid[token[j]] # "none"
  /\ \A r \in Requests : Is(r, "exchange", "store") =>
       /\ plaid[request[r].item] = "live"
       /\ \A j \in Items : token[j] # request[r].item

\* A token is in one row, the one its exchange works on.
OneRow ==
  /\ \A j, k \in Items : token[j] # NoItem /\ token[j] = token[k] => j = k
  /\ \A r \in Requests, j \in Items :
       Exchanging(r) /\ token[j] = request[r].item => request[r].row = j

ExchangeInv == OneWorker /\ Started /\ NotYetKnown /\ OneRow

\* What a request read of the breaker was sound, and so is what it makes of it.
SawSound == BreakerSound(breaker) /\ \A r \in Requests : BreakerSound(request[r].saw)

Stages == {"store", "replace", "accounts", "count", "status", "complete", "succeed"}

Pending ==
  {r \in Requests : /\ Exchanging(r) /\ IsNew(r)
                    /\ request[r].at \in {"store", "replace", "accounts", "count"}}

\* Whoever may still be counted passed the cap before.
Counted ==
  /\ \A r \in Requests : Is(r, "exchange", "count") => IsNew(r)
  /\ connects + Cardinality(Pending) < WeeklyCap + Cardinality(Requests)

\* Of two requests on one row neither is alone.
Alone ==
  \A q, r \in Requests :
    q # r /\ request[q].row = request[r].row /\ request[r].row # NoItem
      => ~request[q].alone

\* A request has its row when it writes.
HasRow ==
  \A r \in Requests :
    \/ Exchanging(r) /\ request[r].at \in Stages
    \/ request[r].doing \in Removals
    => request[r].row \in Items

\* What an exchange that is alone on its row has written is still there.
Written ==
  \A r \in Requests : Exchanging(r) /\ request[r].alone =>
    LET i == request[r].item
        j == request[r].row
    IN /\ request[r].at \in Stages => plaid[i] = "live"
       /\ request[r].at \in Stages \ {"store"} => token[j] = i
       /\ request[r].at \in {"count", "status", "complete"} => accounts[j] = i
       /\ request[r].at = "complete" => status[j] = "healthy"

\* And what a removal has erased is still gone.
Erased ==
  \A r \in Requests :
    request[r].doing \in {"remove", "disconnect"} /\ request[r].alone =>
      LET j == request[r].row
      IN /\ request[r].at \in {"token", "status"} => accounts[j] = NoItem
         /\ request[r].at = "status" => token[j] = NoItem
         /\ request[r].at \in {"accounts", "token"} /\ request[r].item = NoItem
              => token[j] = NoItem

\* r is going to delete the token of row j, whichever it is.
Deletes(r, j) ==
  /\ request[r].row = j
  /\ \/ request[r].doing = "revoked" /\ request[r].at = "token"
     \/ /\ request[r].doing \in {"remove", "disconnect"}
        /\ request[r].at \in {"accounts", "token"}
        /\ request[r].doing = "disconnect" \/ request[r].item # NoItem

Doomed ==
  faults = 0 =>
    \A j \in Items : token[j] # NoItem /\ plaid[token[j]] = "removed" =>
      \E r \in Requests : Deletes(r, j)

IndInv ==
  /\ TypeOK /\ ExchangeInv /\ SawSound /\ Alone /\ HasRow /\ Written /\ Erased
  /\ Doomed

\* What a step of r does to the requests, field by field.
Apart(r) == \A q \in Requests \ {r} : request'[q] = request[q]

MovesTo(r, where) ==
  /\ Apart(r)
  /\ request'[r].at = where
  /\ request'[r].doing = request[r].doing
  /\ request'[r].row = request[r].row
  /\ request'[r].item = request[r].item
  /\ request'[r].saw = request[r].saw
  /\ request'[r].alone = request[r].alone

Leaves(r) ==
  /\ Apart(r)
  /\ request'[r].at = "-"
  /\ request'[r].doing = "idle"
  /\ request'[r].row = NoItem
  /\ request'[r].item = NoItem
  /\ request'[r].saw = NewBreaker

Typed == request' \in [Requests -> RequestRecords]

\* The breaker operators stay within Breakers, and keep it sound.
LEMMA BreakerFacts ==
  /\ NewBreaker \in Breakers /\ BreakerSound(NewBreaker)
  /\ \A b \in Breakers :
       /\ HalfOpened(b) \in Breakers /\ BreakerSound(HalfOpened(b))
       /\ AfterFailure(b) \in Breakers
       /\ BreakerSound(b) => BreakerSound(AfterFailure(b))
       /\ \A o \in Older(b) : o \in Breakers /\ (BreakerSound(b) => BreakerSound(o))
<1> USE BreakerAssumption DEF Breakers, BreakerSound
<1>1. NewBreaker \in Breakers /\ BreakerSound(NewBreaker)
  BY DEF NewBreaker
<1>2. ASSUME NEW b \in Breakers
      PROVE  /\ HalfOpened(b) \in Breakers /\ BreakerSound(HalfOpened(b))
             /\ AfterFailure(b) \in Breakers
             /\ BreakerSound(b) => BreakerSound(AfterFailure(b))
             /\ \A o \in Older(b) : o \in Breakers /\ (BreakerSound(b) => BreakerSound(o))
  <2>1. HalfOpened(b) \in Breakers /\ BreakerSound(HalfOpened(b))
    BY DEF HalfOpened
  <2>2. FailuresCounted(b) \in 0 .. Threshold
    BY DEF FailuresCounted
  <2>3. AfterFailure(b) \in Breakers
    BY <2>2 DEF AfterFailure
  <2>4. BreakerSound(b) => BreakerSound(AfterFailure(b))
    BY <2>2 DEF AfterFailure, FailuresOpen
  <2>5. \A o \in Older(b) : o \in Breakers /\ (BreakerSound(b) => BreakerSound(o))
    BY DEF Older
  <2> QED BY <2>1, <2>3, <2>4, <2>5
<1> QED BY <1>1, <1>2

\* What Goes does, field by field.
LEMMA GoesFacts ==
  ASSUME TypeOK, NEW r \in Requests, NEW where \in Places, Goes(r, where)
  PROVE  MovesTo(r, where) /\ Typed
<1>1. request[r] \in RequestRecords
  BY DEF TypeOK
<1>2. request' = [request EXCEPT ![r] = [request[r] EXCEPT !.at = where]]
  BY DEF Goes
<1>3. [request[r] EXCEPT !.at = where] \in RequestRecords
  BY <1>1 DEF RequestRecords
<1> QED BY <1>1, <1>2, <1>3 DEF TypeOK, MovesTo, Apart, Typed, RequestRecords

\* What Answered does, field by field.
LEMMA AnsweredFacts ==
  ASSUME TypeOK, NEW r \in Requests, Answered(r)
  PROVE  Leaves(r) /\ Typed
<1>1. Idle \in RequestRecords
  BY BreakerFacts DEF Idle, RequestRecords, Places
<1> QED BY <1>1 DEF TypeOK, Leaves, Apart, Typed, Answered, Idle

\* Whoever crashes works on nothing any more.
LEMMA CrashStep ==
  ASSUME IndInv, NEW r \in Requests, Crash(r)
  PROVE  IndInv'
<1> USE PlaidConnectAssumption, BreakerFacts DEF IndInv, Crash, rows, mail
<1>1. Leaves(r) /\ Typed
  BY AnsweredFacts
<1>2. TypeOK'
  BY <1>1 DEF TypeOK, ExchangeInv, Started, Exchanging, AfterSuccess, Typed, Fault,
     Apart, Leaves
<1>3. ExchangeInv'
  BY <1>1 DEF TypeOK, ExchangeInv, OneWorker, Started, NotYetKnown, OneRow, Is,
     Exchanging, Early, Fault, Apart, Leaves
<1>4. SawSound' /\ Alone' /\ HasRow'
  BY <1>1 DEF TypeOK, SawSound, Alone, HasRow, Stages, Exchanging, Removals,
     AfterSuccess, Fault, Apart, Leaves
<1>5. Written' /\ Erased'
  BY <1>1 DEF TypeOK, OneWorker, NotYetKnown, OneRow, Early, Alone, HasRow, Written,
     Erased, Stages, Exchanging, Is, Removals, Fault, Apart, Leaves
<1>6. Doomed'
  BY <1>1 DEF TypeOK, Doomed, Deletes, NotYetKnown, OneRow, Exchanging, Fault, Apart,
     Leaves
<1> QED BY <1>2, <1>3, <1>4, <1>5, <1>6

\* The request ends before Plaid knows of its item.
LEMMA FindDuplicateStep ==
  ASSUME IndInv, NEW r \in Requests, FindDuplicate(r)
  PROVE  IndInv'
<1> USE PlaidConnectAssumption, BreakerFacts DEF IndInv, FindDuplicate, rows, mail
<1>1. Leaves(r) /\ Typed
  BY AnsweredFacts
<1>2. TypeOK'
  BY <1>1 DEF TypeOK, ExchangeInv, Started, Exchanging, AfterSuccess, Typed, Is, Apart,
     Leaves
<1>3. ExchangeInv'
  BY <1>1 DEF TypeOK, ExchangeInv, OneWorker, Started, NotYetKnown, OneRow, Is,
     Exchanging, Early, Apart, Leaves
<1>4. SawSound' /\ Alone' /\ HasRow'
  BY <1>1 DEF TypeOK, SawSound, Alone, HasRow, Stages, Exchanging, Removals,
     AfterSuccess, Is, Apart, Leaves
<1>5. Written' /\ Erased'
  BY <1>1 DEF TypeOK, OneWorker, NotYetKnown, OneRow, Early, Alone, HasRow, Written,
     Erased, Stages, Exchanging, Is, Removals, Apart, Leaves
<1>6. Doomed'
  BY <1>1 DEF TypeOK, Doomed, Deletes, NotYetKnown, OneRow, Exchanging, Is, Apart,
     Leaves
<1> QED BY <1>2, <1>3, <1>4, <1>5, <1>6

\* The breaker is half open, whatever it was.
LEMMA ProbeStep ==
  ASSUME IndInv, NEW r \in Requests, Probe(r)
  PROVE  IndInv'
<1> USE PlaidConnectAssumption, BreakerFacts DEF IndInv, Probe, rows, mail
<1>1. PICK where \in Places : Goes(r, where)
  BY DEF Places
<1>2. MovesTo(r, where) /\ Typed
  BY <1>1, GoesFacts
<1>3. TypeOK'
  BY <1>1, <1>2 DEF TypeOK, ExchangeInv, Started, Exchanging, AfterSuccess, Typed, Is, Apart,
     MovesTo, Goes
<1>4. ExchangeInv'
  BY <1>1, <1>2 DEF TypeOK, ExchangeInv, OneWorker, Started, NotYetKnown, OneRow, Is,
     Exchanging, Early, Apart, MovesTo, Goes
<1>5. SawSound' /\ Alone' /\ HasRow'
  BY <1>1, <1>2 DEF TypeOK, SawSound, Alone, HasRow, Stages, Exchanging, Removals,
     AfterSuccess, Is, Apart, MovesTo, Goes
<1>6. Written' /\ Erased'
  BY <1>1, <1>2 DEF TypeOK, OneWorker, NotYetKnown, OneRow, Early, Alone, HasRow, Written,
     Erased, Stages, Exchanging, Is, Removals, Apart, MovesTo, Goes
<1>7. Doomed'
  BY <1>1, <1>2 DEF TypeOK, Doomed, Deletes, NotYetKnown, OneRow, Exchanging, Is, Apart,
     MovesTo, Goes
<1> QED BY <1>3, <1>4, <1>5, <1>6, <1>7

\* Only the accounts of a row that is being reconnected go.
LEMMA DropOldAccountsStep ==
  ASSUME IndInv, NEW r \in Requests, DropOldAccounts(r)
  PROVE  IndInv'
<1> USE PlaidConnectAssumption, BreakerFacts DEF IndInv, DropOldAccounts, rows, mail
<1>1. PICK where \in Places : Goes(r, where)
  BY DEF Places
<1>2. MovesTo(r, where) /\ Typed
  BY <1>1, GoesFacts
<1>3. TypeOK'
  BY <1>1, <1>2 DEF TypeOK, ExchangeInv, Started, Exchanging, AfterSuccess, Typed, Is, Apart,
     MovesTo, Goes
<1>4. ExchangeInv'
  BY <1>1, <1>2 DEF TypeOK, ExchangeInv, OneWorker, Started, NotYetKnown, OneRow, Is,
     Exchanging, Early, Apart, MovesTo, Goes
<1>5. SawSound' /\ Alone' /\ HasRow'
  BY <1>1, <1>2 DEF TypeOK, SawSound, Alone, HasRow, Stages, Exchanging, Removals,
     AfterSuccess, Is, Apart, MovesTo, Goes
<1>6. Written' /\ Erased'
  BY <1>1, <1>2 DEF TypeOK, OneWorker, NotYetKnown, OneRow, Early, Alone, HasRow, Written,
     Erased, Stages, Exchanging, Is, Removals, Apart, MovesTo, Goes
<1>7. Doomed'
  BY <1>1, <1>2 DEF TypeOK, Doomed, Deletes, NotYetKnown, OneRow, Exchanging, Is, Apart,
     MovesTo, Goes
<1> QED BY <1>3, <1>4, <1>5, <1>6, <1>7

\* The accounts come after the token, and are of the same item.
LEMMA SaveAccountsStep ==
  ASSUME IndInv, NEW r \in Requests, SaveAccounts(r)
  PROVE  IndInv'
<1> USE PlaidConnectAssumption, BreakerFacts DEF IndInv, SaveAccounts, rows, mail
<1>1. PICK where \in Places : Goes(r, where)
  BY DEF Places
<1>2. MovesTo(r, where) /\ Typed
  BY <1>1, GoesFacts
<1>3. TypeOK'
  BY <1>1, <1>2 DEF TypeOK, ExchangeInv, Started, Exchanging, AfterSuccess, Typed, Is, IsNew,
     Apart, MovesTo, Goes
<1>4. ExchangeInv'
  BY <1>1, <1>2 DEF TypeOK, ExchangeInv, OneWorker, Started, NotYetKnown, OneRow, Is,
     Exchanging, Early, IsNew, Apart, MovesTo, Goes
<1>5. SawSound' /\ Alone' /\ HasRow'
  BY <1>1, <1>2 DEF TypeOK, SawSound, Alone, HasRow, Stages, Exchanging, Removals,
     AfterSuccess, Is, IsNew, Apart, MovesTo, Goes
<1>6. Written' /\ Erased'
  BY <1>1, <1>2 DEF TypeOK, OneWorker, NotYetKnown, OneRow, Early, Alone, HasRow, Written,
     Erased, Stages, Exchanging, Is, Removals, IsNew, Apart, MovesTo, Goes
<1>7. Doomed'
  BY <1>1, <1>2 DEF TypeOK, Doomed, Deletes, NotYetKnown, OneRow, Exchanging, Is, IsNew,
     Apart, MovesTo, Goes
<1> QED BY <1>3, <1>4, <1>5, <1>6, <1>7

\* Counting touches neither rows nor items.
LEMMA CountConnectionStep ==
  ASSUME IndInv, NEW r \in Requests, CountConnection(r)
  PROVE  IndInv'
<1> USE PlaidConnectAssumption, BreakerFacts DEF IndInv, CountConnection, rows, mail
<1>1. PICK where \in Places : Goes(r, where)
  BY DEF Places
<1>2. MovesTo(r, where) /\ Typed
  BY <1>1, GoesFacts
<1>3. TypeOK'
  BY <1>1, <1>2 DEF TypeOK, ExchangeInv, Started, Exchanging, AfterSuccess, Typed, Is, Apart,
     MovesTo, Goes
<1>4. ExchangeInv'
  BY <1>1, <1>2 DEF TypeOK, ExchangeInv, OneWorker, Started, NotYetKnown, OneRow, Is,
     Exchanging, Early, Apart, MovesTo, Goes
<1>5. SawSound' /\ Alone' /\ HasRow'
  BY <1>1, <1>2 DEF TypeOK, SawSound, Alone, HasRow, Stages, Exchanging, Removals,
     AfterSuccess, Is, Apart, MovesTo, Goes
<1>6. Written' /\ Erased'
  BY <1>1, <1>2 DEF TypeOK, OneWorker, NotYetKnown, OneRow, Early, Alone, HasRow, Written,
     Erased, Stages, Exchanging, Is, Removals, Apart, MovesTo, Goes
<1>7. Doomed'
  BY <1>1, <1>2 DEF TypeOK, Doomed, Deletes, NotYetKnown, OneRow, Exchanging, Is, Apart,
     MovesTo, Goes
<1> QED BY <1>3, <1>4, <1>5, <1>6, <1>7

\* Healthy is what Written asks of the row from here on.
LEMMA SetHealthyStep ==
  ASSUME IndInv, NEW r \in Requests, SetHealthy(r)
  PROVE  IndInv'
<1> USE PlaidConnectAssumption, BreakerFacts DEF IndInv, SetHealthy, rows, mail
<1>1. PICK where \in Places : Goes(r, where)
  BY DEF Places
<1>2. MovesTo(r, where) /\ Typed
  BY <1>1, GoesFacts
<1>3. TypeOK'
  BY <1>1, <1>2 DEF TypeOK, ExchangeInv, Started, Exchanging, AfterSuccess, Typed, Is, Apart,
     MovesTo, Goes
<1>4. ExchangeInv'
  BY <1>1, <1>2 DEF TypeOK, ExchangeInv, OneWorker, Started, NotYetKnown, OneRow, Is,
     Exchanging, Early, Apart, MovesTo, Goes
<1>5. SawSound' /\ Alone' /\ HasRow'
  BY <1>1, <1>2 DEF TypeOK, SawSound, Alone, HasRow, Stages, Exchanging, Removals,
     AfterSuccess, Is, Apart, MovesTo, Goes
<1>6. Written' /\ Erased'
  BY <1>1, <1>2 DEF TypeOK, OneWorker, NotYetKnown, OneRow, Early, Alone, HasRow, Written,
     Erased, Stages, Exchanging, Is, Removals, Apart, MovesTo, Goes
<1>7. Doomed'
  BY <1>1, <1>2 DEF TypeOK, Doomed, Deletes, NotYetKnown, OneRow, Exchanging, Is, Apart,
     MovesTo, Goes
<1> QED BY <1>3, <1>4, <1>5, <1>6, <1>7

\* The intent is there already, and is not forgotten.
LEMMA CompleteIntentStep ==
  ASSUME IndInv, NEW r \in Requests, CompleteIntent(r)
  PROVE  IndInv'
<1> USE PlaidConnectAssumption, BreakerFacts DEF IndInv, CompleteIntent, rows, mail
<1>1. PICK where \in Places : Goes(r, where)
  BY DEF Places
<1>2. MovesTo(r, where) /\ Typed
  BY <1>1, GoesFacts
<1>3. TypeOK'
  BY <1>1, <1>2 DEF TypeOK, ExchangeInv, Started, Exchanging, AfterSuccess, Typed, Is, Apart,
     MovesTo, Goes
<1>4. ExchangeInv'
  BY <1>1, <1>2 DEF TypeOK, ExchangeInv, OneWorker, Started, NotYetKnown, OneRow, Is,
     Exchanging, Early, Apart, MovesTo, Goes
<1>5. SawSound' /\ Alone' /\ HasRow'
  BY <1>1, <1>2 DEF TypeOK, SawSound, Alone, HasRow, Stages, Exchanging, Removals,
     AfterSuccess, Is, Apart, MovesTo, Goes
<1>6. Written' /\ Erased'
  BY <1>1, <1>2 DEF TypeOK, OneWorker, NotYetKnown, OneRow, Early, Alone, HasRow, Written,
     Erased, Stages, Exchanging, Is, Removals, Apart, MovesTo, Goes
<1>7. Doomed'
  BY <1>1, <1>2 DEF TypeOK, Doomed, Deletes, NotYetKnown, OneRow, Exchanging, Is, Apart,
     MovesTo, Goes
<1> QED BY <1>3, <1>4, <1>5, <1>6, <1>7

\* The breaker is new, and the request ends.
LEMMA SucceedStep ==
  ASSUME IndInv, NEW r \in Requests, Succeed(r)
  PROVE  IndInv'
<1> USE PlaidConnectAssumption, BreakerFacts DEF IndInv, Succeed, rows, mail
<1>1. Leaves(r) /\ Typed
  BY AnsweredFacts
<1>2. TypeOK'
  BY <1>1 DEF TypeOK, ExchangeInv, Started, Exchanging, AfterSuccess, Typed, Is, Apart,
     Leaves
<1>3. ExchangeInv'
  BY <1>1 DEF TypeOK, ExchangeInv, OneWorker, Started, NotYetKnown, OneRow, Is,
     Exchanging, Early, Apart, Leaves
<1>4. SawSound' /\ Alone' /\ HasRow'
  BY <1>1 DEF TypeOK, SawSound, Alone, HasRow, Stages, Exchanging, Removals,
     AfterSuccess, Is, Apart, Leaves
<1>5. Written' /\ Erased'
  BY <1>1 DEF TypeOK, OneWorker, NotYetKnown, OneRow, Early, Alone, HasRow, Written,
     Erased, Stages, Exchanging, Is, Removals, Apart, Leaves
<1>6. Doomed'
  BY <1>1 DEF TypeOK, Doomed, Deletes, NotYetKnown, OneRow, Exchanging, Is, Apart,
     Leaves
<1> QED BY <1>2, <1>3, <1>4, <1>5, <1>6

\* A request that gives up has nothing left to promise.
LEMMA QueryFailsStep ==
  ASSUME IndInv, NEW r \in Requests, QueryFails(r)
  PROVE  IndInv'
<1> USE PlaidConnectAssumption, BreakerFacts DEF IndInv, QueryFails, rows, mail
<1>1. PICK where \in Places : Goes(r, where)
  BY DEF Places
<1>2. MovesTo(r, where) /\ Typed
  BY <1>1, GoesFacts
<1>3. TypeOK'
  BY <1>1, <1>2 DEF TypeOK, ExchangeInv, Started, Exchanging, AfterSuccess, Typed, Fault,
     Apart, MovesTo, Goes
<1>4. ExchangeInv'
  BY <1>1, <1>2 DEF TypeOK, ExchangeInv, OneWorker, Started, NotYetKnown, OneRow, Is,
     Exchanging, Early, Fault, Apart, MovesTo, Goes
<1>5. SawSound' /\ Alone' /\ HasRow'
  BY <1>1, <1>2 DEF TypeOK, SawSound, Alone, HasRow, Stages, Exchanging, Removals,
     AfterSuccess, Fault, Apart, MovesTo, Goes
<1>6. Written' /\ Erased'
  BY <1>1, <1>2 DEF TypeOK, OneWorker, NotYetKnown, OneRow, Early, Alone, HasRow, Written,
     Erased, Stages, Exchanging, Is, Removals, Fault, Apart, MovesTo, Goes
<1>7. Doomed'
  BY <1>1, <1>2 DEF TypeOK, Doomed, Deletes, NotYetKnown, OneRow, Exchanging, Fault, Apart,
     MovesTo, Goes
<1> QED BY <1>3, <1>4, <1>5, <1>6, <1>7

\* A failed intent is an intent still.
LEMMA GiveUpStep ==
  ASSUME IndInv, NEW r \in Requests, GiveUp(r)
  PROVE  IndInv'
<1> USE PlaidConnectAssumption, BreakerFacts DEF IndInv, GiveUp, rows, mail
<1>1. Leaves(r) /\ Typed
  BY AnsweredFacts
<1>2. TypeOK'
  BY <1>1 DEF TypeOK, ExchangeInv, Started, Exchanging, AfterSuccess, Typed, Is, Apart,
     Leaves
<1>3. ExchangeInv'
  BY <1>1 DEF TypeOK, ExchangeInv, OneWorker, Started, NotYetKnown, OneRow, Is,
     Exchanging, Early, Apart, Leaves
<1>4. SawSound' /\ Alone' /\ HasRow'
  BY <1>1 DEF TypeOK, SawSound, Alone, HasRow, Stages, Exchanging, Removals,
     AfterSuccess, Is, Apart, Leaves
<1>5. Written' /\ Erased'
  BY <1>1 DEF TypeOK, OneWorker, NotYetKnown, OneRow, Early, Alone, HasRow, Written,
     Erased, Stages, Exchanging, Is, Removals, Apart, Leaves
<1>6. Doomed'
  BY <1>1 DEF TypeOK, Doomed, Deletes, NotYetKnown, OneRow, Exchanging, Is, Apart,
     Leaves
<1> QED BY <1>2, <1>3, <1>4, <1>5, <1>6

\* Only a revocation goes on, which promises nothing after a fault.
LEMMA SwallowFailureStep ==
  ASSUME IndInv, NEW r \in Requests, SwallowFailure(r)
  PROVE  IndInv'
<1> USE PlaidConnectAssumption, BreakerFacts DEF IndInv, SwallowFailure, rows, mail
<1>1. PICK where \in Places : Goes(r, where)
  BY DEF Places
<1>2. MovesTo(r, where) /\ Typed
  BY <1>1, GoesFacts
<1>3. TypeOK'
  BY <1>1, <1>2 DEF TypeOK, ExchangeInv, Started, Exchanging, AfterSuccess, Typed, Fault,
     Removals, Apart, MovesTo, Goes
<1>4. ExchangeInv'
  BY <1>1, <1>2 DEF TypeOK, ExchangeInv, OneWorker, Started, NotYetKnown, OneRow, Is,
     Exchanging, Early, Fault, Removals, Apart, MovesTo, Goes
<1>5. SawSound' /\ Alone' /\ HasRow'
  BY <1>1, <1>2 DEF TypeOK, SawSound, Alone, HasRow, Stages, Exchanging, Removals,
     AfterSuccess, Fault, Apart, MovesTo, Goes
<1>6. Written' /\ Erased'
  BY <1>1, <1>2 DEF TypeOK, OneWorker, NotYetKnown, OneRow, Early, Alone, HasRow, Written,
     Erased, Stages, Exchanging, Is, Removals, Fault, Apart, MovesTo, Goes
<1>7. Doomed'
  BY <1>1, <1>2 DEF TypeOK, Doomed, Deletes, NotYetKnown, OneRow, Exchanging, Fault, Removals,
     Apart, MovesTo, Goes
<1> QED BY <1>3, <1>4, <1>5, <1>6, <1>7

\* The accounts of the row are gone, as Erased asks from here on.
LEMMA DropAccountsStep ==
  ASSUME IndInv, NEW r \in Requests, DropAccounts(r)
  PROVE  IndInv'
<1> USE PlaidConnectAssumption, BreakerFacts DEF IndInv, DropAccounts, rows, mail
<1>1. PICK where \in Places : Goes(r, where)
  BY DEF Places
<1>2. MovesTo(r, where) /\ Typed
  BY <1>1, GoesFacts
<1>3. TypeOK'
  BY <1>1, <1>2 DEF TypeOK, ExchangeInv, Started, Exchanging, AfterSuccess, Typed, Removals,
     Apart, MovesTo, Goes
<1>4. ExchangeInv'
  BY <1>1, <1>2 DEF TypeOK, ExchangeInv, OneWorker, Started, NotYetKnown, OneRow, Is,
     Exchanging, Early, Removals, Apart, MovesTo, Goes
<1>5. SawSound' /\ Alone' /\ HasRow'
  BY <1>1, <1>2 DEF TypeOK, SawSound, Alone, HasRow, Stages, Exchanging, Removals,
     AfterSuccess, Apart, MovesTo, Goes
<1>6. Written' /\ Erased'
  BY <1>1, <1>2 DEF TypeOK, OneWorker, NotYetKnown, OneRow, Early, Alone, HasRow, Written,
     Erased, Stages, Exchanging, Is, Removals, Apart, MovesTo, Goes
<1>7. Doomed'
  BY <1>1, <1>2 DEF TypeOK, Doomed, Deletes, NotYetKnown, OneRow, Exchanging, Removals, Apart,
     MovesTo, Goes
<1> QED BY <1>3, <1>4, <1>5, <1>6, <1>7

\* The removal ends; its row is not what another one, alone, relies on.
LEMMA WriteStatusStep ==
  ASSUME IndInv, NEW r \in Requests, WriteStatus(r)
  PROVE  IndInv'
<1> USE PlaidConnectAssumption, BreakerFacts DEF IndInv, WriteStatus, rows, mail
<1>1. Leaves(r) /\ Typed
  BY AnsweredFacts
<1>2. TypeOK'
  BY <1>1 DEF TypeOK, ExchangeInv, Started, Exchanging, AfterSuccess, Typed,
     StatusAfter, Removals, Apart, Leaves
<1>3. ExchangeInv'
  BY <1>1 DEF TypeOK, ExchangeInv, OneWorker, Started, NotYetKnown, OneRow, Is,
     Exchanging, Early, StatusAfter, Removals, Apart, Leaves
<1>4. SawSound' /\ Alone' /\ HasRow'
  BY <1>1 DEF TypeOK, SawSound, Alone, HasRow, Stages, Exchanging, Removals,
     AfterSuccess, StatusAfter, Apart, Leaves
<1>5. Written' /\ Erased'
  BY <1>1 DEF TypeOK, OneWorker, NotYetKnown, OneRow, Early, Alone, HasRow, Written,
     Erased, Stages, Exchanging, Is, Removals, StatusAfter, Apart, Leaves
<1>6. Doomed'
  BY <1>1 DEF TypeOK, Doomed, Deletes, NotYetKnown, OneRow, Exchanging, StatusAfter,
     Removals, Apart, Leaves
<1> QED BY <1>2, <1>3, <1>4, <1>5, <1>6

\* A breaker that lets nobody through ends the request, any other moves it on.
LEMMA AskBreakerStep ==
  ASSUME IndInv, NEW r \in Requests, AskBreaker(r)
  PROVE  IndInv'
<1> USE PlaidConnectAssumption, BreakerFacts DEF IndInv, AskBreaker, Is, rows, mail
<1>1. /\ Leaves(r) \/ MovesTo(r, "probe") \/ MovesTo(r, "exchange")
      /\ Typed
  BY GoesFacts, AnsweredFacts DEF Places
<1>2. TypeOK'
  BY <1>1 DEF TypeOK, Typed
<1>3. ExchangeInv'
  BY <1>1 DEF TypeOK, ExchangeInv, OneWorker, Started, NotYetKnown, OneRow, Exchanging,
              Early, Apart, Leaves, MovesTo
<1>4. SawSound' /\ Alone' /\ HasRow'
  BY <1>1 DEF TypeOK, SawSound, Alone, HasRow, Stages, Exchanging, Removals, Apart, Leaves,
              MovesTo
<1>5. Written' /\ Erased'
  BY <1>1 DEF TypeOK, Written, Erased, Stages, Exchanging, Removals, Apart, Leaves, MovesTo
<1>6. Doomed'
  BY <1>1 DEF TypeOK, Doomed, Deletes, Apart, Leaves, MovesTo
<1> QED BY <1>2, <1>3, <1>4, <1>5, <1>6

\* The intent was not there, so nobody works on the item and Plaid does not know it.
LEMMA StartExchangeStep ==
  ASSUME IndInv, NEW r \in Requests, NEW i \in Items, StartExchange(r, i)
  PROVE  IndInv'
<1> USE PlaidConnectAssumption, BreakerFacts DEF IndInv, StartExchange, Ready, rows, mail
<1>1. /\ Apart(r)
      /\ request'[r].doing = "exchange" /\ request'[r].at = "check"
      /\ request'[r].row = NoItem /\ request'[r].item = i
      /\ request'[r].saw = NewBreaker
      /\ Typed
  BY DEF TypeOK, Idle, Apart, Typed, RequestRecords, Places
<1>2. TypeOK'
  BY <1>1 DEF TypeOK, Typed
<1>3. ExchangeInv'
  BY <1>1 DEF TypeOK, ExchangeInv, OneWorker, Started, NotYetKnown, OneRow, Exchanging,
              Early, Is, Apart
<1>4. SawSound' /\ Alone' /\ HasRow'
  BY <1>1 DEF TypeOK, SawSound, Alone, HasRow, Stages, Exchanging, Removals, Apart
<1>5. Written' /\ Erased'
  BY <1>1 DEF TypeOK, Written, Erased, Stages, Exchanging, Apart
<1>6. request[r].doing = "idle"
  BY DEF Idle
<1>7. Doomed'
  BY <1>1, <1>6 DEF TypeOK, Doomed, Deletes, Apart
<1> QED BY <1>2, <1>3, <1>4, <1>5, <1>7

\* A request takes a row, and others that have it are no longer alone.
TakesRow(r, j) ==
  /\ request'[r].row = j
  /\ request'[r].alone => \A q \in Requests \ {r} : request[q].row # j
  /\ \A q \in Requests \ {r} :
       /\ request'[q].doing = request[q].doing
       /\ request'[q].at = request[q].at
       /\ request'[q].row = request[q].row
       /\ request'[q].item = request[q].item
       /\ request'[q].saw = request[q].saw
       /\ request'[q].alone => request[q].alone /\ request[q].row # j

\* The same of WorksOn.
LEMMA WorksOnFacts ==
  ASSUME TypeOK, NEW r \in Requests, NEW j \in Items, NEW new \in RequestRecords,
         WorksOn(r, j, new)
  PROVE  /\ TakesRow(r, j) /\ Typed
         /\ request'[r].doing = new.doing /\ request'[r].at = new.at
         /\ request'[r].item = new.item /\ request'[r].saw = new.saw
<1> DEFINE others == {q \in Requests \ {r} : request[q].row = j}
<1>1. request' = [q \in Requests |->
         IF q = r THEN [new EXCEPT !.row = j, !.alone = others = {}]
         ELSE IF q \in others THEN [request[q] EXCEPT !.alone = FALSE]
         ELSE request[q]]
  BY DEF WorksOn
<1>2. /\ request'[r] = [new EXCEPT !.row = j, !.alone = others = {}]
      /\ \A q \in others : request'[q] = [request[q] EXCEPT !.alone = FALSE]
      /\ \A q \in (Requests \ {r}) \ others : request'[q] = request[q]
  BY <1>1
<1>3. \A q \in Requests : request[q] \in RequestRecords
  BY DEF TypeOK
<1>4. request'[r] \in RequestRecords
  BY <1>2 DEF RequestRecords
<1>5. ASSUME NEW q \in Requests \ {r}
      PROVE  /\ request'[q] \in RequestRecords
             /\ request'[q].doing = request[q].doing
             /\ request'[q].at = request[q].at
             /\ request'[q].row = request[q].row
             /\ request'[q].item = request[q].item
             /\ request'[q].saw = request[q].saw
             /\ request'[q].alone => request[q].alone /\ request[q].row # j
  <2>1. request[q] \in RequestRecords
    BY <1>3
  <2>2. CASE q \in others
    <3>1. request'[q] = [request[q] EXCEPT !.alone = FALSE]
      BY <1>2, <2>2
    <3> QED BY <2>1, <3>1 DEF RequestRecords
  <2>3. CASE q \notin others
    BY <1>2, <2>1, <2>3
  <2> QED BY <2>2, <2>3
<1>6. Typed
  BY <1>1, <1>4, <1>5 DEF Typed
<1>7. /\ request'[r].row = j
      /\ request'[r].alone = (others = {})
      /\ request'[r].doing = new.doing /\ request'[r].at = new.at
      /\ request'[r].item = new.item /\ request'[r].saw = new.saw
  BY <1>2 DEF RequestRecords
<1> QED BY <1>5, <1>6, <1>7 DEF TakesRow

\* Whoever takes a row is alone on it only if nobody else has it.
LEMMA TakesRowAlone ==
  ASSUME Alone, NEW r \in Requests, NEW j \in Items, TakesRow(r, j)
  PROVE  Alone'
BY PlaidConnectAssumption DEF Alone, TakesRow

\* The item becomes live: nobody else works on it and no row has its token.
LEMMA ExchangeStepInv ==
  ASSUME IndInv, NEW r \in Requests, Exchange(r)
  PROVE  IndInv'
<1> USE PlaidConnectAssumption, BreakerFacts DEF IndInv, rows, mail
<1> DEFINE i == request[r].item
           new == [request[r] EXCEPT !.at = "store"]
<1>1. /\ Is(r, "exchange", "exchange") /\ Exchanging(r) /\ i \in Items
      /\ plaid[i] = "none" /\ intent[i] # "none"
      /\ request[r] \in RequestRecords
  BY DEF Exchange, Is, Exchanging, ExchangeInv, Started, NotYetKnown, Early, TypeOK
<1>2. /\ plaid' = [plaid EXCEPT ![i] = "live"]
      /\ UNCHANGED <<token, accounts, status, connects, breaker, sent, seen, faults, ops>>
  BY DEF Exchange
<1>3. CASE \E j \in Items : WorksOn(r, j, new) /\ UNCHANGED intent
  <2>1. PICK j \in Items : WorksOn(r, j, new) /\ UNCHANGED intent
    BY <1>3
  <2>2. /\ new \in RequestRecords /\ new.at = "store" /\ new.doing = "exchange"
        /\ new.item = i /\ new.saw = request[r].saw
    BY <1>1 DEF RequestRecords, Places, Is
  <2>3. /\ TakesRow(r, j) /\ Typed
        /\ request'[r].doing = "exchange" /\ request'[r].at = "store"
        /\ request'[r].item = i /\ request'[r].saw = request[r].saw
    BY <2>1, <2>2, WorksOnFacts
  <2>4. TypeOK'
    BY <1>1, <1>2, <2>1, <2>3 DEF TypeOK, Typed
  <2>5. ExchangeInv'
    BY <1>1, <1>2, <2>1, <2>3
    DEF TypeOK, ExchangeInv, OneWorker, Started, NotYetKnown, OneRow, Exchanging, Early,
        Is, TakesRow
  <2>6. SawSound' /\ Alone' /\ HasRow'
    BY <1>1, <1>2, <2>3, TakesRowAlone
    DEF TypeOK, SawSound, HasRow, Stages, Exchanging, Removals, TakesRow
  <2>7. Written' /\ Erased'
    BY <1>1, <1>2, <2>3
    DEF TypeOK, Written, Erased, Stages, Exchanging, TakesRow, ExchangeInv, OneWorker
  <2>8. Doomed'
    BY <1>1, <1>2, <2>3
    DEF TypeOK, Doomed, Deletes, TakesRow, ExchangeInv, NotYetKnown, Is
  <2> QED BY <2>4, <2>5, <2>6, <2>7, <2>8
<1>4. CASE Answered(r) /\ intent' = [intent EXCEPT ![i] = "failed"]
  <2>1. Leaves(r) /\ Typed
    BY <1>4, AnsweredFacts
  <2>2. TypeOK'
    BY <1>1, <1>2, <1>4, <2>1 DEF TypeOK, Typed
  <2>3. ExchangeInv'
    BY <1>1, <1>2, <1>4, <2>1
    DEF TypeOK, ExchangeInv, OneWorker, Started, NotYetKnown, OneRow, Exchanging, Early,
        Is, Apart, Leaves
  <2>4. SawSound' /\ Alone' /\ HasRow'
    BY <1>1, <1>2, <2>1
    DEF TypeOK, SawSound, Alone, HasRow, Stages, Exchanging, Removals, Apart, Leaves
  <2>5. Written' /\ Erased'
    BY <1>1, <1>2, <2>1
    DEF TypeOK, Written, Erased, Stages, Exchanging, Apart, Leaves, ExchangeInv, OneWorker
  <2>6. Doomed'
    <3>1. \A q \in Requests, j \in Items : Deletes(q, j) => Deletes(q, j)'
      BY <1>1, <2>1 DEF Deletes, Is, Apart, Leaves
    <3> QED BY <1>1, <1>2, <3>1 DEF TypeOK, Doomed
  <2> QED BY <2>2, <2>3, <2>4, <2>5, <2>6
<1>5. ASSUME NEW j \in Rows \ {i}, WorksOn(r, j, new), UNCHANGED intent
      PROVE  IndInv'
  BY <1>3, <1>5 DEF Rows
<1>6. ASSUME WorksOn(r, i, new), UNCHANGED intent
      PROVE  IndInv'
  BY <1>1, <1>3, <1>6
<1> QED BY <1>4, <1>5, <1>6, Zenon DEF Exchange

\* The token of a live item, which no other row has.
LEMMA StoreTokenStep ==
  ASSUME IndInv, NEW r \in Requests, StoreToken(r)
  PROVE  IndInv'
<1> USE PlaidConnectAssumption, BreakerFacts DEF IndInv, rows, mail
<1> DEFINE i == request[r].item
           k == request[r].row
<1>1. /\ Is(r, "exchange", "store") /\ Exchanging(r) /\ i \in Items /\ k \in Items
      /\ plaid[i] = "live" /\ \A j \in Items : token[j] # i
  BY DEF StoreToken, Is, Exchanging, ExchangeInv, Started, NotYetKnown, HasRow, Stages
<1>2. /\ token' = [token EXCEPT ![k] = i]
      /\ UNCHANGED <<plaid, accounts, status, intent, connects, breaker, sent, seen,
                     faults, ops>>
  BY DEF StoreToken
<1>3. Typed /\ (MovesTo(r, "accounts") \/ MovesTo(r, "replace"))
  BY GoesFacts DEF StoreToken, Places
<1>4. TypeOK'
  BY <1>1, <1>2, <1>3 DEF TypeOK, Typed
<1>5. OneWorker' /\ Started'
  BY <1>1, <1>2, <1>3
  DEF TypeOK, ExchangeInv, OneWorker, Started, Exchanging, Apart, MovesTo
<1>6. NotYetKnown'
  <2>1. \A q \in Requests : Exchanging(q) /\ q # r => request[q].item # i
    BY <1>1 DEF ExchangeInv, OneWorker
  <2>2. \A j \in Items : token'[j] = token[j] \/ token'[j] = i
    BY <1>1, <1>2 DEF TypeOK
  <2> QED BY <1>1, <1>2, <1>3, <2>1, <2>2
          DEF ExchangeInv, NotYetKnown, Exchanging, Early, Is, Apart, MovesTo
<1>7. OneRow'
  BY <1>1, <1>2, <1>3
  DEF TypeOK, ExchangeInv, OneWorker, OneRow, Exchanging, Apart, MovesTo
<1>8. SawSound' /\ Alone' /\ HasRow'
  BY <1>1, <1>2, <1>3
  DEF TypeOK, SawSound, Alone, HasRow, Stages, Exchanging, Removals, Apart, MovesTo
<1>9. Written' /\ Erased'
  <2>1. \A q \in Requests \ {r} : request[q].alone => request[q].row # k
    BY <1>1 DEF Alone
  <2>2. Written'
    BY <1>1, <1>2, <1>3, <2>1
    DEF TypeOK, Written, Stages, Exchanging, Is, Apart, MovesTo
  <2>3. Erased'
    BY <1>1, <1>2, <1>3, <2>1
    DEF TypeOK, Erased, HasRow, Removals, Exchanging, Is, Apart, MovesTo
  <2> QED BY <2>2, <2>3
<1>10. Doomed'
  <2>1. \A q \in Requests, j \in Items : Deletes(q, j) => Deletes(q, j)'
    BY <1>1, <1>3 DEF Deletes, Is, Apart, MovesTo
  <2>2. \A j \in Items : token'[j] = token[j] \/ token'[j] = i
    BY <1>1, <1>2 DEF TypeOK
  <2> QED BY <1>1, <1>2, <2>1, <2>2 DEF Doomed
<1> QED BY <1>4, <1>5, <1>6, <1>7, <1>8, <1>9, <1>10 DEF ExchangeInv

\* Plaid may have made the item.
LEMMA PlaidFailsStep ==
  ASSUME IndInv, NEW r \in Requests, PlaidFails(r)
  PROVE  IndInv'
<1> USE PlaidConnectAssumption, BreakerFacts DEF IndInv, rows, mail
<1> DEFINE i == request[r].item
<1>1. /\ Is(r, "exchange", "exchange") /\ Exchanging(r) /\ i \in Items
      /\ plaid[i] = "none" /\ intent[i] # "none"
      /\ request[r] \in RequestRecords
  BY DEF PlaidFails, Is, Exchanging, ExchangeInv, Started, NotYetKnown, Early, TypeOK
<1>2. PICK made \in {"none", "live"} : plaid' = [plaid EXCEPT ![i] = made]
  BY DEF PlaidFails
<1>3. /\ UNCHANGED <<token, accounts, status, intent, connects, breaker, sent, seen, ops>>
      /\ faults' \in 0 .. MaxFaults /\ faults' # 0
  BY DEF PlaidFails, Fault, TypeOK
<1>4. /\ Apart(r) /\ Typed
      /\ request'[r].doing = "exchange" /\ request'[r].at = "failing"
      /\ request'[r].row = request[r].row /\ request'[r].item = i
      /\ request'[r].saw = breaker /\ request'[r].alone = request[r].alone
  <2>1. [request[r] EXCEPT !.at = "failing", !.saw = breaker] \in RequestRecords
    BY <1>1 DEF TypeOK, RequestRecords, Places
  <2>2. request' = [request EXCEPT ![r] =
                      [request[r] EXCEPT !.at = "failing", !.saw = breaker]]
    BY DEF PlaidFails
  <2> QED BY <1>1, <2>1, <2>2 DEF TypeOK, Apart, Typed, RequestRecords, Is
<1>5. TypeOK'
  BY <1>1, <1>2, <1>3, <1>4 DEF TypeOK, Typed
<1>6. ExchangeInv'
  BY <1>1, <1>2, <1>3, <1>4
  DEF TypeOK, ExchangeInv, OneWorker, Started, NotYetKnown, OneRow, Exchanging, Early, Is,
      Apart
<1>7. SawSound' /\ Alone' /\ HasRow'
  BY <1>1, <1>3, <1>4
  DEF TypeOK, SawSound, Alone, HasRow, Stages, Exchanging, Removals, Apart
<1>8. Written' /\ Erased'
  BY <1>1, <1>2, <1>3, <1>4
  DEF TypeOK, Written, Erased, Stages, Exchanging, Apart, ExchangeInv, OneWorker
<1>9. Doomed'
  BY <1>3 DEF Doomed
<1> QED BY <1>5, <1>6, <1>7, <1>8, <1>9

\* What was read of the breaker is sound, and so is what is written.
LEMMA RecordFailureStep ==
  ASSUME IndInv, NEW r \in Requests, RecordFailure(r)
  PROVE  IndInv'
<1> USE PlaidConnectAssumption, BreakerFacts DEF IndInv, RecordFailure, Is, rows, mail
<1>1. request[r] \in RequestRecords
  BY DEF TypeOK
<1>2. /\ Apart(r) /\ Typed
      /\ request'[r].doing = "exchange" /\ request'[r].at = "giveup"
      /\ request'[r].row = request[r].row /\ request'[r].item = request[r].item
      /\ request'[r].saw = NewBreaker /\ request'[r].alone = request[r].alone
  <2>1. [request[r] EXCEPT !.at = "giveup", !.saw = NewBreaker] \in RequestRecords
    BY <1>1 DEF RequestRecords, Places
  <2>2. request' = [request EXCEPT ![r] =
                      [request[r] EXCEPT !.at = "giveup", !.saw = NewBreaker]]
    OBVIOUS
  <2> QED BY <1>1, <2>1, <2>2 DEF TypeOK, Apart, Typed, RequestRecords
<1>3. request[r].saw \in Breakers
  BY <1>1 DEF RequestRecords
<1>4. TypeOK'
  BY <1>2, <1>3 DEF TypeOK, Typed
<1>5. ExchangeInv'
  BY <1>2 DEF TypeOK, ExchangeInv, OneWorker, Started, NotYetKnown, OneRow, Exchanging,
              Early, Apart
<1>6. SawSound' /\ Alone' /\ HasRow'
  BY <1>2, <1>3 DEF TypeOK, SawSound, Alone, HasRow, Stages, Exchanging, Removals, Apart
<1>7. Written' /\ Erased'
  BY <1>2 DEF TypeOK, Written, Erased, Stages, Exchanging, Apart
<1>8. Doomed'
  BY <1>2 DEF TypeOK, Doomed, Deletes, Apart
<1> QED BY <1>4, <1>5, <1>6, <1>7, <1>8

(***************************************************************************)
(* Removals.                                                               *)
(***************************************************************************)

\* The token of row j is removed at Plaid, if that works.
LEMMA RemovedFacts ==
  ASSUME TypeOK, NEW j \in Items, RemovedAtPlaid(j)
  PROVE  /\ \A i \in Items : plaid'[i] = plaid[i]
                             \/ (i = token[j] /\ plaid'[i] = "removed")
         /\ plaid' \in [Items -> {"none", "live", "removed"}]
         /\ faults' \in 0 .. MaxFaults
         /\ faults' = 0 => faults = 0
         /\ token[j] = NoItem => plaid' = plaid
BY PlaidConnectAssumption DEF TypeOK, RemovedAtPlaid, Fault

\* Plaid knew of every item whose token is in a row, and forgets none.
LEMMA RemovedKnown ==
  ASSUME TypeOK, NotYetKnown, OneRow, NEW j \in Items, RemovedAtPlaid(j)
  PROVE  /\ \A i \in Items : plaid[i] = "none" <=> plaid'[i] = "none"
         /\ \A r \in Requests : Is(r, "exchange", "store") /\ request[r].item \in Items =>
              plaid'[request[r].item] = "live"
<1>1. \A i \in Items : i = token[j] => plaid[i] # "none"
  BY PlaidConnectAssumption DEF NotYetKnown
<1> QED BY <1>1, RemovedFacts DEF NotYetKnown

\* A removal takes the row, and its item goes at Plaid with the token in its hand.
LEMMA BeginRemovalStep ==
  ASSUME IndInv, NEW r \in Requests, NEW j \in Items, NEW how \in {"remove", "disconnect"},
         BeginRemoval(r, j, how)
  PROVE  IndInv'
<1> USE PlaidConnectAssumption, BreakerFacts DEF IndInv, rows, mail
<1> DEFINE new == [Idle EXCEPT !.doing = how, !.at = "accounts", !.item = token[j]]
<1>1. /\ RemovedAtPlaid(j)
      /\ ops' \in 0 .. MaxOps
      /\ request[r].doing = "idle"
      /\ UNCHANGED <<token, accounts, status, intent, connects, breaker, sent, seen>>
  BY DEF BeginRemoval, Ready, Idle, Op, TypeOK
<1>2. /\ new \in RequestRecords
      /\ new.doing = how /\ new.at = "accounts" /\ new.item = token[j]
      /\ new.saw = NewBreaker
  BY DEF TypeOK, Idle, RequestRecords, Places, Removals
<1>3. WorksOn(r, j, new)
  BY DEF BeginRemoval
<1> HIDE DEF new
<1>4. /\ TakesRow(r, j) /\ Typed
      /\ request'[r].doing = how /\ request'[r].at = "accounts"
      /\ request'[r].item = token[j] /\ request'[r].saw = NewBreaker
  BY <1>2, <1>3, WorksOnFacts
<1>5. TypeOK'
  BY <1>1, <1>4, RemovedFacts DEF TypeOK, Typed
<1>6. ExchangeInv'
  <2>1. /\ \A i \in Items : plaid[i] = "none" <=> plaid'[i] = "none"
        /\ \A q \in Requests : Is(q, "exchange", "store") /\ request[q].item \in Items =>
             plaid'[request[q].item] = "live"
    BY <1>1, RemovedKnown DEF ExchangeInv
  <2>2. \A q \in Requests : Exchanging(q)' => q # r /\ Exchanging(q)
    BY <1>4 DEF Exchanging, TakesRow
  <2>3. OneWorker' /\ Started'
    BY <1>1, <1>4, <2>1, <2>2 DEF ExchangeInv, OneWorker, Started, Exchanging, TakesRow
  <2>4. NotYetKnown'
    BY <1>1, <1>4, <2>1, <2>2
    DEF TypeOK, ExchangeInv, Started, NotYetKnown, Exchanging, Early, Is, TakesRow
  <2>5. OneRow'
    BY <1>1, <1>4, <2>2 DEF ExchangeInv, OneRow, Exchanging, TakesRow
  <2> QED BY <2>3, <2>4, <2>5 DEF ExchangeInv
<1>7. SawSound' /\ Alone' /\ HasRow'
  BY <1>1, <1>4, TakesRowAlone
  DEF SawSound, HasRow, Stages, Exchanging, Removals, TakesRow
<1>8. Written'
  <2> SUFFICES ASSUME NEW q \in Requests, q # r, Exchanging(q), request[q].alone,
                      request[q].row # j, request[q].at \in Stages
               PROVE  plaid'[request[q].item] = "live"
    BY <1>1, <1>4 DEF Written, Exchanging, Stages, TakesRow
  <2>1. plaid[request[q].item] = "live" /\ request[q].item \in Items
    BY DEF Written, ExchangeInv, Started
  <2>2. token[j] # request[q].item
    BY DEF ExchangeInv, OneRow
  <2> QED BY <1>1, <2>1, <2>2, RemovedFacts
<1>9. Erased'
  BY <1>1, <1>4 DEF Erased, TakesRow
<1>10. Doomed'
  <2> SUFFICES ASSUME faults' = 0, NEW k \in Items, token[k] # NoItem,
                      plaid'[token[k]] = "removed"
               PROVE  \E q \in Requests : Deletes(q, k)'
    BY <1>1 DEF Doomed
  <2>1. token[k] \in Items /\ faults = 0
    BY <1>1, RemovedFacts DEF TypeOK
  <2>2. CASE plaid[token[k]] = "removed"
    <3>1. PICK q \in Requests : Deletes(q, k)
      BY <2>1, <2>2 DEF Doomed
    <3>2. q # r
      BY <1>1, <3>1 DEF Deletes
    <3> QED BY <1>4, <3>1, <3>2 DEF Deletes, TakesRow
  <2>3. CASE token[k] = token[j]
    <3>1. k = j
      BY <2>3 DEF ExchangeInv, OneRow
    <3> QED BY <1>4, <3>1 DEF Deletes, TakesRow
  <2> QED BY <1>1, <2>1, <2>2, <2>3, RemovedFacts
<1> QED BY <1>5, <1>6, <1>7, <1>8, <1>9, <1>10

\* A webhook takes the row, or is dropped without an owner.
LEMMA DeliverStep ==
  ASSUME IndInv, NEW r \in Requests, NEW e \in Webhooks, Deliver(r, e)
  PROVE  IndInv'
<1> USE PlaidConnectAssumption, BreakerFacts DEF IndInv, rows, mail
<1> DEFINE new == [Idle EXCEPT !.doing = e.code,
                     !.at = IF e.code = "revoked" THEN "check" ELSE "status"]
<1>1. /\ e.code \in {"revoked", "login", "repaired"} /\ e.item \in Items
      /\ seen' \subseteq sent
      /\ request[r].doing = "idle"
      /\ UNCHANGED <<plaid, token, accounts, status, intent, connects, breaker, sent,
                     faults, ops>>
  BY DEF Deliver, Ready, Idle, Webhooks, TypeOK
<1>2. CASE UNCHANGED request
  BY <1>1, <1>2
  DEF TypeOK, ExchangeInv, OneWorker, Started, NotYetKnown, OneRow, SawSound, Alone,
      HasRow, Written, Erased, Doomed, Deletes, Exchanging, Is
<1>3. CASE WorksOn(r, e.item, new)
  <2>1. /\ new \in RequestRecords
        /\ new.doing = e.code /\ new.at \in {"check", "status"} /\ new.item = NoItem
        /\ new.saw = NewBreaker
    BY <1>1 DEF Idle, RequestRecords, Places, Removals
  <2> HIDE DEF new
  <2>2. /\ TakesRow(r, e.item) /\ Typed
        /\ request'[r].doing \in {"revoked", "login", "repaired"}
        /\ request'[r].at \in {"check", "status"}
        /\ request'[r].item = NoItem /\ request'[r].saw = NewBreaker
    BY <1>1, <1>3, <2>1, WorksOnFacts
  <2>3. TypeOK'
    BY <1>1, <2>2 DEF TypeOK, Typed
  <2>4. ExchangeInv'
    BY <1>1, <2>2
    DEF ExchangeInv, OneWorker, Started, NotYetKnown, OneRow, Exchanging, Early, Is, TakesRow
  <2>5. SawSound' /\ Alone' /\ HasRow'
    BY <1>1, <2>2, TakesRowAlone
    DEF SawSound, HasRow, Stages, Exchanging, Removals, TakesRow
  <2>6. Written' /\ Erased'
    BY <1>1, <2>2 DEF Written, Erased, Stages, Exchanging, TakesRow
  <2>7. \A q \in Requests, j \in Items : Deletes(q, j) => Deletes(q, j)'
    BY <1>1, <2>2 DEF Deletes, TakesRow
  <2>8. Doomed'
    BY <1>1, <2>7 DEF Doomed
  <2> QED BY <2>3, <2>4, <2>5, <2>6, <2>8
<1> QED BY <1>2, <1>3 DEF Deliver

\* The webhook's handler removes the item with the token it reads, and goes on to
\* delete the token.
LEMMA RevokeAtPlaidStep ==
  ASSUME IndInv, NEW r \in Requests, RevokeAtPlaid(r)
  PROVE  IndInv'
<1> USE PlaidConnectAssumption, BreakerFacts DEF IndInv, rows, mail
<1> DEFINE j == request[r].row
<1>1. /\ RemovedAtPlaid(j) /\ j \in Items
      /\ request[r].doing = "revoked" /\ request[r].at = "check"
      /\ request[r] \in RequestRecords
      /\ UNCHANGED <<token, accounts, status, intent, connects, breaker, sent, seen, ops>>
  BY DEF RevokeAtPlaid, Is, HasRow, Removals, TypeOK
<1>2. /\ Apart(r) /\ Typed
      /\ request'[r].doing = "revoked" /\ request'[r].at = "token"
      /\ request'[r].row = j /\ request'[r].saw = request[r].saw
      /\ request'[r].alone = request[r].alone
  <2>1. [request[r] EXCEPT !.at = "token", !.item = token[j]] \in RequestRecords
    BY <1>1 DEF TypeOK, RequestRecords, Places
  <2>2. request' = [request EXCEPT ![r] =
                      [request[r] EXCEPT !.at = "token", !.item = token[j]]]
    BY DEF RevokeAtPlaid
  <2> QED BY <1>1, <2>1, <2>2 DEF TypeOK, Apart, Typed, RequestRecords
<1>3. TypeOK'
  BY <1>1, <1>2, RemovedFacts DEF TypeOK, Typed
<1>4. ExchangeInv'
  <2>1. /\ \A i \in Items : plaid[i] = "none" <=> plaid'[i] = "none"
        /\ \A q \in Requests : Is(q, "exchange", "store") /\ request[q].item \in Items =>
             plaid'[request[q].item] = "live"
    BY <1>1, RemovedKnown DEF ExchangeInv
  <2>2. \A q \in Requests : Exchanging(q)' => q # r /\ Exchanging(q)
    BY <1>2 DEF Exchanging, Apart
  <2>3. OneWorker' /\ Started'
    BY <1>1, <1>2, <2>1, <2>2 DEF ExchangeInv, OneWorker, Started, Exchanging, Apart
  <2>4. NotYetKnown'
    BY <1>1, <1>2, <2>1, <2>2
    DEF TypeOK, ExchangeInv, Started, NotYetKnown, Exchanging, Early, Is, Apart
  <2>5. OneRow'
    BY <1>1, <1>2, <2>2 DEF ExchangeInv, OneRow, Exchanging, Apart
  <2> QED BY <2>3, <2>4, <2>5 DEF ExchangeInv
<1>5. SawSound' /\ Alone' /\ HasRow'
  BY <1>1, <1>2 DEF SawSound, Alone, HasRow, Stages, Exchanging, Removals, Apart
<1>6. Written'
  <2> SUFFICES ASSUME NEW q \in Requests, q # r, Exchanging(q), request[q].alone,
                      request[q].at \in Stages
               PROVE  plaid'[request[q].item] = "live"
    BY <1>1, <1>2 DEF Written, Exchanging, Stages, Apart
  <2>1. plaid[request[q].item] = "live" /\ request[q].item \in Items
    BY DEF Written, ExchangeInv, Started
  <2>2. request[q].row # j
    BY <1>1 DEF Alone
  <2>3. token[j] # request[q].item
    BY <1>1, <2>2 DEF ExchangeInv, OneRow
  <2> QED BY <1>1, <2>1, <2>3, RemovedFacts
<1>7. Erased'
  BY <1>1, <1>2 DEF Erased, Apart
<1>8. Doomed'
  <2> SUFFICES ASSUME faults' = 0, NEW k \in Items, token[k] # NoItem,
                      plaid'[token[k]] = "removed"
               PROVE  \E q \in Requests : Deletes(q, k)'
    BY <1>1 DEF Doomed
  <2>1. token[k] \in Items /\ faults = 0
    BY <1>1, RemovedFacts DEF TypeOK
  <2>2. CASE plaid[token[k]] = "removed"
    <3>1. PICK q \in Requests : Deletes(q, k)
      BY <2>1, <2>2 DEF Doomed
    <3>2. q # r
      BY <1>1, <3>1 DEF Deletes
    <3> QED BY <1>2, <3>1, <3>2 DEF Deletes, Apart
  <2>3. CASE token[k] = token[j]
    <3>1. k = j
      BY <1>1, <2>3 DEF ExchangeInv, OneRow
    <3> QED BY <1>2, <3>1 DEF Deletes
  <2> QED BY <1>1, <2>1, <2>2, <2>3, RemovedFacts
<1> QED BY <1>3, <1>4, <1>5, <1>6, <1>7, <1>8

\* The token of the row is deleted, or there was none when the removal began.
LEMMA DropTokenStep ==
  ASSUME IndInv, NEW r \in Requests, DropToken(r)
  PROVE  IndInv'
<1> USE PlaidConnectAssumption, BreakerFacts DEF IndInv, rows, mail
<1> DEFINE j == request[r].row
<1>1. /\ request[r].doing \in Removals /\ request[r].at = "token" /\ j \in Items
      /\ UNCHANGED <<plaid, accounts, status, intent, connects, breaker, sent, seen,
                     faults, ops>>
  BY DEF DropToken, HasRow
<1>2. /\ Leaves(r) \/ MovesTo(r, "accounts") \/ MovesTo(r, "status")
      /\ request[r].doing # "revoked" => Leaves(r) \/ MovesTo(r, "status")
      /\ Typed
  BY <1>1, GoesFacts, AnsweredFacts DEF DropToken, AfterToken, Places
<1>3. \/ token' = [token EXCEPT ![j] = NoItem]
      \/ token' = token /\ request[r].doing = "remove" /\ request[r].item = NoItem
  BY DEF DropToken
<1>4. \A k \in Items : token'[k] = token[k] \/ (k = j /\ token'[k] = NoItem)
  BY <1>3 DEF TypeOK
<1>5. TypeOK'
  BY <1>1, <1>2, <1>3 DEF TypeOK, Typed
<1>6. ExchangeInv'
  <2>1. \A q \in Requests : Exchanging(q)' => q # r /\ Exchanging(q)
    BY <1>1, <1>2 DEF Exchanging, Removals, Apart, Leaves, MovesTo
  <2>2. \A q \in Requests : q # r => request'[q] = request[q]
    BY <1>2 DEF Apart, Leaves, MovesTo
  <2>3. OneWorker' /\ Started'
    BY <1>1, <2>1, <2>2 DEF ExchangeInv, OneWorker, Started, Exchanging
  <2>4. NotYetKnown'
    BY <1>1, <1>4, <2>1, <2>2
    DEF ExchangeInv, Started, NotYetKnown, Exchanging, Early, Is
  <2>5. OneRow'
    BY <1>4, <2>1, <2>2 DEF ExchangeInv, Started, OneRow, Exchanging
  <2> QED BY <2>3, <2>4, <2>5 DEF ExchangeInv
<1>7. SawSound' /\ Alone' /\ HasRow'
  BY <1>1, <1>2
  DEF SawSound, Alone, HasRow, Stages, Exchanging, Removals, Apart, Leaves, MovesTo
<1>8. Written'
  BY <1>1, <1>2, <1>4
  DEF Written, Alone, HasRow, Stages, Exchanging, Removals, Apart, Leaves, MovesTo
<1>9. Erased'
  <2>1. \A q \in Requests : q # r => request'[q] = request[q]
    BY <1>2 DEF Apart, Leaves, MovesTo
  <2>2. request[r].alone /\ request[r].doing # "revoked"
          => accounts[j] = NoItem /\ token'[j] = NoItem
    BY <1>1, <1>3 DEF Erased, Removals, TypeOK
  <2> QED BY <1>1, <1>2, <1>4, <2>1, <2>2
          DEF Erased, HasRow, Removals, Leaves, MovesTo
<1>10. Doomed'
  <2> SUFFICES ASSUME faults = 0, NEW k \in Items, token'[k] # NoItem,
                      plaid[token'[k]] = "removed"
               PROVE  \E q \in Requests : Deletes(q, k)'
    BY <1>1 DEF Doomed
  <2>1. PICK q \in Requests : Deletes(q, k)
    BY <1>4 DEF Doomed
  <2>2. q # r
    BY <1>1, <1>3, <2>1 DEF Deletes, TypeOK
  <2> QED BY <1>2, <2>1, <2>2 DEF Deletes, Apart, Leaves, MovesTo
<1> QED BY <1>5, <1>6, <1>7, <1>8, <1>9, <1>10

\* An event waits; nobody works on it yet.
LEMMA HappensStep ==
  ASSUME IndInv, NEW i \in Items, NEW code \in {"revoked", "login", "repaired"},
         Happens(i, code)
  PROVE  IndInv'
<1> USE DEF IndInv, rows
<1>1. /\ UNCHANGED <<plaid, token, accounts, status, intent, connects, breaker, request,
                     seen, faults>>
      /\ sent' = sent \union {[code |-> code, item |-> i]}
      /\ ops' \in 0 .. MaxOps
  BY PlaidConnectAssumption DEF Happens, Op, TypeOK
<1>2. TypeOK'
  BY <1>1 DEF TypeOK, Webhooks
<1>3. ExchangeInv'
  BY <1>1
  DEF ExchangeInv, OneWorker, Started, NotYetKnown, OneRow, Exchanging, Early, Is
<1>4. SawSound' /\ Alone' /\ HasRow' /\ Written' /\ Erased' /\ Doomed'
  BY <1>1
  DEF SawSound, Alone, HasRow, Written, Erased, Doomed, Deletes, Exchanging, Stages, Is
<1> QED BY <1>2, <1>3, <1>4

\* A sound breaker ages into a sound one.
LEMMA TimePassesStep ==
  ASSUME IndInv, TimePasses
  PROVE  IndInv'
<1> USE DEF IndInv, rows, mail
<1>1. /\ UNCHANGED <<plaid, token, accounts, status, intent, connects, request, sent,
                     seen, faults, ops>>
      /\ breaker' \in Breakers /\ BreakerSound(breaker)'
  BY BreakerFacts DEF TimePasses, TypeOK, SawSound
<1>2. TypeOK'
  BY <1>1 DEF TypeOK
<1>3. ExchangeInv'
  BY <1>1
  DEF ExchangeInv, OneWorker, Started, NotYetKnown, OneRow, Exchanging, Early, Is
<1>4. SawSound' /\ Alone' /\ HasRow' /\ Written' /\ Erased' /\ Doomed'
  BY <1>1
  DEF SawSound, Alone, HasRow, Written, Erased, Doomed, Deletes, Exchanging, Stages, Is
<1> QED BY <1>2, <1>3, <1>4

\* Nothing changes.
LEMMA StutterStep ==
  ASSUME IndInv, UNCHANGED vars
  PROVE  IndInv'
<1> USE DEF IndInv, vars, rows, mail
<1>1. TypeOK'
  BY DEF TypeOK
<1>2. ExchangeInv'
  BY DEF ExchangeInv, OneWorker, Started, NotYetKnown, OneRow, Exchanging, Early, Is
<1>3. SawSound' /\ Alone' /\ HasRow' /\ Written' /\ Erased' /\ Doomed'
  BY DEF SawSound, Alone, HasRow, Written, Erased, Doomed, Deletes, Exchanging, Stages,
         Is
<1> QED BY <1>1, <1>2, <1>3

\* Nobody works and there are no rows.
LEMMA InitInv == Init => IndInv
<1> SUFFICES ASSUME Init PROVE IndInv
  OBVIOUS
<1> USE PlaidConnectAssumption, BreakerFacts DEF Init, Idle
<1>1. TypeOK
  BY DEF TypeOK, RequestRecords, Places
<1>2. ExchangeInv
  BY DEF ExchangeInv, OneWorker, Started, NotYetKnown, OneRow, Exchanging, Early, Is
<1>3. SawSound /\ Alone /\ HasRow /\ Written /\ Erased /\ Doomed
  BY DEF SawSound, Alone, HasRow, Written, Erased, Doomed, Deletes, Exchanging, Stages,
         Is, Removals
<1> QED BY <1>1, <1>2, <1>3 DEF IndInv

\* Every step keeps the invariant.
LEMMA StepInv == IndInv /\ [Next]_vars => IndInv'
<1> SUFFICES ASSUME IndInv, [Next]_vars PROVE IndInv'
  OBVIOUS
<1>1. ASSUME NEW r \in Requests, ExchangeStep(r) PROVE IndInv'
  BY <1>1, StartExchangeStep, FindDuplicateStep, AskBreakerStep, ProbeStep,
     ExchangeStepInv, StoreTokenStep, DropOldAccountsStep, SaveAccountsStep,
     CountConnectionStep, SetHealthyStep, CompleteIntentStep, SucceedStep,
     PlaidFailsStep, RecordFailureStep, QueryFailsStep, GiveUpStep
  DEF ExchangeStep
<1>2. ASSUME NEW r \in Requests, RemovalStep(r) PROVE IndInv'
  BY <1>2, BeginRemovalStep, DeliverStep, RevokeAtPlaidStep, DropAccountsStep,
     DropTokenStep, WriteStatusStep, SwallowFailureStep
  DEF RemovalStep
<1>3. ASSUME NEW r \in Requests, Crash(r) PROVE IndInv'
  BY <1>3, CrashStep
<1> QED BY <1>1, <1>2, <1>3, HappensStep, TimePassesStep, StutterStep DEF Next

(***************************************************************************)
(* The weekly cap.                                                         *)
(***************************************************************************)

\* The other requests stay where they are.
Keeps(r) ==
  \A q \in Requests \ {r} :
    /\ request'[q].doing = request[q].doing
    /\ request'[q].at = request[q].at
    /\ request'[q].row = request[q].row
    /\ request'[q].item = request[q].item

\* Nothing is counted, and r does not come to be counted.
LEMMA KeepsCounted ==
  ASSUME Counted, TypeOK, NEW r \in Requests, Keeps(r), connects' = connects,
         (r \in Pending)' => r \in Pending,
         Is(r, "exchange", "count")' => IsNew(r)'
  PROVE  Counted'
<1>1. \A q \in Requests : Is(q, "exchange", "count")' => IsNew(q)'
  BY DEF Counted, Keeps, Is, IsNew
<1>2. Pending' \subseteq Pending
  BY DEF Pending, Keeps, Exchanging, IsNew
<1>3. IsFiniteSet(Pending)
  BY PlaidConnectAssumption, FS_Subset DEF Pending
<1>4. Cardinality(Pending') <= Cardinality(Pending) /\ Cardinality(Pending') \in Nat
  BY <1>2, <1>3, FS_Subset, FS_CardinalityType
<1>5. Cardinality(Requests) \in Nat /\ Cardinality(Pending) \in Nat
  BY <1>3, PlaidConnectAssumption, FS_CardinalityType
<1> QED BY <1>1, <1>4, <1>5, PlaidConnectAssumption DEF Counted, TypeOK

\* Below the cap there is room for every request there is.
LEMMA ExchangeCounted ==
  ASSUME IndInv, Counted, NEW r \in Requests, Exchange(r)
  PROVE  Counted'
<1> USE DEF IndInv
<1> DEFINE new == [request[r] EXCEPT !.at = "store"]
<1>1. /\ Is(r, "exchange", "exchange") /\ request[r].item \in Items
      /\ request[r] \in RequestRecords /\ connects' = connects
  BY DEF Exchange, Is, ExchangeInv, Started, Exchanging, TypeOK
<1>2. /\ new \in RequestRecords /\ new.doing = "exchange" /\ new.at = "store"
      /\ new.item = request[r].item
  BY <1>1 DEF RequestRecords, Places, Is
<1> HIDE DEF new
<1>3. ASSUME NEW j \in Items, WorksOn(r, j, new)
      PROVE  /\ Keeps(r) /\ request'[r].doing = "exchange" /\ request'[r].at = "store"
             /\ request'[r].item = request[r].item /\ request'[r].row = j
  BY <1>2, <1>3, WorksOnFacts DEF Keeps, TakesRow
<1>4. ASSUME NEW j \in Rows \ {request[r].item}, WorksOn(r, j, new)
      PROVE  Counted'
  <2>1. j \in Items /\ j # request[r].item
    BY DEF Rows
  <2> QED BY <1>1, <1>3, <1>4, <2>1, KeepsCounted DEF Pending, IsNew, Is
<1>5. ASSUME ~CapReached, WorksOn(r, request[r].item, new)
      PROVE  Counted'
  <2>1. \A q \in Requests : Is(q, "exchange", "count")' => IsNew(q)'
    BY <1>1, <1>3, <1>5 DEF Counted, Keeps, Is, IsNew
  <2>2. Pending' \subseteq Requests
    BY DEF Pending
  <2>3. /\ Cardinality(Pending') <= Cardinality(Requests)
        /\ Cardinality(Pending') \in Nat /\ Cardinality(Requests) \in Nat
    BY <2>2, PlaidConnectAssumption, FS_Subset, FS_CardinalityType
  <2>4. connects < WeeklyCap
    BY <1>5, PlaidConnectAssumption DEF CapReached, TypeOK
  <2> QED BY <1>1, <2>1, <2>3, <2>4, PlaidConnectAssumption DEF Counted, TypeOK
<1>6. ASSUME Answered(r)
      PROVE  Counted'
  <2>1. Leaves(r)
    BY <1>6, AnsweredFacts
  <2> QED BY <1>1, <2>1, KeepsCounted
          DEF Leaves, Apart, Keeps, Pending, Exchanging, Is
<1> QED BY <1>4, <1>5, <1>6, Zenon DEF Exchange, new

\* Who is counted was pending, and is not any more.
LEMMA CountConnectionCounted ==
  ASSUME IndInv, Counted, NEW r \in Requests, CountConnection(r)
  PROVE  Counted'
<1> USE DEF IndInv
<1>1. /\ Is(r, "exchange", "count") /\ IsNew(r) /\ connects' = connects + 1
      /\ MovesTo(r, "status")
  BY GoesFacts DEF CountConnection, Counted, Places
<1>2. r \in Pending
  BY <1>1 DEF Pending, Is, Exchanging
<1>3. Pending' \subseteq Pending \ {r}
  BY <1>1 DEF Pending, MovesTo, Apart, Exchanging, IsNew
<1>4. IsFiniteSet(Pending)
  BY PlaidConnectAssumption, FS_Subset DEF Pending
<1>5. /\ IsFiniteSet(Pending \ {r})
      /\ Cardinality(Pending \ {r}) = Cardinality(Pending) - 1
  BY <1>2, <1>4, FS_RemoveElement
<1>6. /\ Cardinality(Pending') <= Cardinality(Pending) - 1
      /\ Cardinality(Pending') \in Nat
  BY <1>3, <1>5, FS_Subset, FS_CardinalityType
<1>7. Cardinality(Requests) \in Nat /\ Cardinality(Pending) \in Nat
  BY <1>4, PlaidConnectAssumption, FS_CardinalityType
<1>8. \A q \in Requests : Is(q, "exchange", "count")' => IsNew(q)'
  BY <1>1 DEF Counted, MovesTo, Apart, Is, IsNew
<1> QED BY <1>1, <1>6, <1>7, <1>8, PlaidConnectAssumption DEF Counted, TypeOK

\* A removal counts nothing, and is no exchange.
LEMMA RemovalCounted ==
  ASSUME IndInv, Counted, NEW r \in Requests, RemovalStep(r)
  PROVE  Counted'
<1> USE DEF IndInv
<1>1. connects' = connects
  BY DEF RemovalStep, BeginRemoval, Deliver, RevokeAtPlaid, DropAccounts, DropToken,
         WriteStatus, SwallowFailure
<1>2. SUFFICES (Keeps(r) /\ ~Exchanging(r)') \/ request' = request
  <2>1. ASSUME Keeps(r), ~Exchanging(r)' PROVE Counted'
    BY <1>1, <2>1, KeepsCounted DEF Pending, Is, Exchanging
  <2>2. ASSUME request' = request PROVE Counted'
    <3>1. (r \in Pending)' => r \in Pending
      BY <2>2 DEF Pending, Exchanging, IsNew
    <3>2. Is(r, "exchange", "count")' => IsNew(r)'
      BY <2>2 DEF Counted, Is, IsNew
    <3>3. Keeps(r)
      BY <2>2 DEF Keeps
    <3> QED BY <1>1, <3>1, <3>2, <3>3, KeepsCounted
  <2> QED BY <2>1, <2>2
<1>3. ASSUME NEW j \in Items, NEW how \in {"remove", "disconnect"}, BeginRemoval(r, j, how)
      PROVE  Keeps(r) /\ ~Exchanging(r)'
  <2> DEFINE new == [Idle EXCEPT !.doing = how, !.at = "accounts", !.item = token[j]]
  <2>1. new \in RequestRecords /\ new.doing = how
    BY BreakerFacts DEF TypeOK, Idle, RequestRecords, Places, Removals
  <2>2. WorksOn(r, j, new)
    BY <1>3 DEF BeginRemoval
  <2> HIDE DEF new
  <2> QED BY <2>1, <2>2, WorksOnFacts DEF Keeps, TakesRow, Exchanging
<1>4. ASSUME NEW e \in Webhooks, Deliver(r, e)
      PROVE  (Keeps(r) /\ ~Exchanging(r)') \/ request' = request
  <2> DEFINE new == [Idle EXCEPT !.doing = e.code,
                       !.at = IF e.code = "revoked" THEN "check" ELSE "status"]
  <2>1. e.item \in Items /\ new \in RequestRecords /\ new.doing = e.code
        /\ e.code # "exchange"
    BY BreakerFacts DEF Webhooks, TypeOK, Idle, RequestRecords, Places, Removals
  <2>2. WorksOn(r, e.item, new) \/ request' = request
    BY <1>4 DEF Deliver
  <2> HIDE DEF new
  <2> QED BY <2>1, <2>2, WorksOnFacts DEF Keeps, TakesRow, Exchanging
<1>5. ASSUME RevokeAtPlaid(r)
      PROVE  Keeps(r) /\ ~Exchanging(r)'
  BY <1>5 DEF RevokeAtPlaid, Is, Keeps, Exchanging, TypeOK, RequestRecords
<1>6. ASSUME DropAccounts(r) \/ SwallowFailure(r) \/ DropToken(r)
      PROVE  Keeps(r) /\ ~Exchanging(r)'
  <2>1. /\ request[r].doing # "exchange"
        /\ Answered(r) \/ \E where \in Places : Goes(r, where)
    BY <1>6 DEF DropAccounts, SwallowFailure, DropToken, AfterToken, Removals, Places
  <2> QED BY <2>1, AnsweredFacts, GoesFacts DEF Keeps, Apart, Leaves, MovesTo, Exchanging
<1>7. ASSUME WriteStatus(r)
      PROVE  Keeps(r) /\ ~Exchanging(r)'
  BY <1>7, AnsweredFacts DEF WriteStatus, Keeps, Apart, Leaves, Exchanging
<1> QED BY <1>3, <1>4, <1>5, <1>6, <1>7 DEF RemovalStep

\* The other steps of an exchange leave it counted once, or not at all.
LEMMA ExchangeStepCounted ==
  ASSUME IndInv, Counted, NEW r \in Requests, ExchangeStep(r)
  PROVE  Counted'
<1> USE DEF IndInv
<1>1. ASSUME NEW i \in Items, StartExchange(r, i)
      PROVE  Counted'
  <2>1. /\ Apart(r) /\ request'[r].at = "check" /\ connects' = connects
    BY <1>1 DEF StartExchange, TypeOK, Apart, Idle
  <2> QED BY <2>1, KeepsCounted DEF Keeps, Apart, Pending, Is
<1>2. ASSUME FindDuplicate(r) \/ AskBreaker(r) \/ Probe(r) \/ Succeed(r) \/ GiveUp(r)
             \/ QueryFails(r) \/ SetHealthy(r) \/ CompleteIntent(r)
      PROVE  Counted'
  <2>1. /\ connects' = connects
        /\ \/ Answered(r)
           \/ \E where \in Places \ {"store", "replace", "accounts", "count"} :
                Goes(r, where)
    BY <1>2 DEF FindDuplicate, AskBreaker, Probe, Succeed, GiveUp, QueryFails, SetHealthy,
                CompleteIntent, Places
  <2>2. /\ Apart(r)
        /\ request'[r].at \notin {"store", "replace", "accounts", "count"}
    BY <2>1, AnsweredFacts, GoesFacts DEF Leaves, MovesTo
  <2> QED BY <2>1, <2>2, KeepsCounted DEF Keeps, Apart, Pending, Is
<1>3. ASSUME StoreToken(r) \/ DropOldAccounts(r)
      PROVE  Counted'
  <2>1. /\ Exchanging(r) /\ request[r].at \in {"store", "replace"}
        /\ connects' = connects
        /\ MovesTo(r, "accounts") \/ MovesTo(r, "replace")
    BY <1>3, GoesFacts DEF StoreToken, DropOldAccounts, Is, Exchanging, Places
  <2> QED BY <2>1, KeepsCounted DEF Keeps, Apart, MovesTo, Pending, Is, IsNew
<1>4. ASSUME SaveAccounts(r)
      PROVE  Counted'
  <2>1. /\ Exchanging(r) /\ request[r].at = "accounts" /\ connects' = connects
        /\ (IsNew(r) /\ MovesTo(r, "count")) \/ MovesTo(r, "status")
    BY <1>4, GoesFacts DEF SaveAccounts, Is, Exchanging, Places
  <2> QED BY <2>1, KeepsCounted DEF Keeps, Apart, MovesTo, Pending, Exchanging, Is, IsNew
<1>5. ASSUME PlaidFails(r) \/ RecordFailure(r)
      PROVE  Counted'
  <2>1. /\ Apart(r) /\ request'[r].at \in {"failing", "giveup"} /\ connects' = connects
    BY <1>5 DEF PlaidFails, RecordFailure, TypeOK, RequestRecords, Apart
  <2> QED BY <2>1, KeepsCounted DEF Keeps, Apart, Pending, Is
<1> QED BY <1>1, <1>2, <1>3, <1>4, <1>5, ExchangeCounted, CountConnectionCounted
        DEF ExchangeStep

\* No step lets too many pass.
LEMMA StepCounted == IndInv /\ Counted /\ [Next]_vars => Counted'
<1> SUFFICES ASSUME IndInv, Counted, [Next]_vars PROVE Counted'
  OBVIOUS
<1>1. ASSUME NEW r \in Requests, Crash(r) PROVE Counted'
  <2>1. Leaves(r) /\ connects' = connects
    BY <1>1, AnsweredFacts DEF Crash, IndInv
  <2> QED BY <2>1, KeepsCounted DEF IndInv, Leaves, Apart, Keeps, Pending, Exchanging, Is
<1>2. ASSUME request' = request, connects' = connects PROVE Counted'
  <2>1. Pending' = Pending
    BY <1>2 DEF Pending, Exchanging, IsNew
  <2> QED BY <1>2, <2>1 DEF Counted, Is, IsNew
<1> QED BY <1>1, <1>2, ExchangeStepCounted, RemovalCounted
        DEF Next, Happens, TimePasses, vars

\* Nobody is pending.
LEMMA InitCounted == Init => Counted
<1> SUFFICES ASSUME Init PROVE Counted
  OBVIOUS
<1>1. Pending = {}
  BY DEF Init, Idle, Pending, Exchanging
<1>2. \A r \in Requests : ~Is(r, "exchange", "count")
  BY DEF Init, Idle, Is
<1>3. Cardinality(Pending) = 0 /\ Cardinality(Requests) \in Nat
  BY <1>1, PlaidConnectAssumption, FS_EmptySet, FS_CardinalityType
<1> QED BY <1>2, <1>3, PlaidConnectAssumption DEF Init, Counted

(***************************************************************************)
(* Theorems.                                                               *)
(***************************************************************************)

\* The invariant holds in every state.
LEMMA Inductive == Spec => [](IndInv /\ Counted)
<1> QED BY InitInv, StepInv, InitCounted, StepCounted, PTL DEF Spec

\* Every variable keeps its type: no handler writes a row, an intent or a breaker
\* that the others do not know.
THEOREM TypeCorrect == Spec => []TypeOK
<1>1. IndInv => TypeOK
  BY DEF IndInv
<1> QED BY <1>1, Inductive, PTL

\* A public token is exchanged once: the intent lets one request work on it, and
\* none after Plaid has made the item (POST /exchange-token).
THEOREM ExchangesOnce == Spec => []ExchangedOnce
<1>1. IndInv => ExchangedOnce
  BY DEF IndInv, ExchangeInv, OneWorker, NotYetKnown, Exchanging, Early, ExchangedOnce,
         Working
<1> QED BY <1>1, Inductive, PTL

\* However recordPlaidCircuitFailure, the probe and the reset cross, the breaker is
\* not closed with the failures that open it, nor open without an end.
THEOREM BreakerWorks == Spec => []BreakerNeverStuck
<1>1. IndInv => BreakerNeverStuck
  BY DEF IndInv, SawSound, BreakerNeverStuck
<1> QED BY <1>1, Inductive, PTL

\* The weekly cap is passed by less than the number of requests at once.
THEOREM CapHolds == Spec => []CapOverrun
<1>1. ASSUME IndInv, Counted PROVE CapOverrun
  <2>1. Pending \subseteq Requests
    BY DEF Pending
  <2>2. Cardinality(Pending) \in Nat /\ Cardinality(Requests) \in Nat
    BY <2>1, PlaidConnectAssumption, FS_Subset, FS_CardinalityType
  <2> QED BY <1>1, <2>2, PlaidConnectAssumption DEF IndInv, TypeOK, Counted, CapOverrun
<1> QED BY <1>1, Inductive, PTL

\* A removal or disconnection that ends and had its row to itself leaves neither
\* token nor accounts.
THEOREM RemovalsErase == Spec => RemovalErases
<1>1. ASSUME IndInv, Next, NEW r \in Requests,
             request[r].doing \in {"remove", "disconnect"}, request[r].at = "status",
             request[r].alone, status' # status
      PROVE  token'[request[r].row] = NoItem /\ accounts'[request[r].row] = NoItem
  <2>1. UNCHANGED <<token, accounts>>
    BY <1>1 DEF Next, ExchangeStep, RemovalStep, Crash, Happens, TimePasses, rows,
         StartExchange, FindDuplicate, AskBreaker, Probe, Exchange, StoreToken,
         DropOldAccounts, SaveAccounts, CountConnection, SetHealthy, CompleteIntent,
         Succeed, PlaidFails, RecordFailure, QueryFails, GiveUp, BeginRemoval, Deliver,
         RevokeAtPlaid, DropAccounts, DropToken, WriteStatus, SwallowFailure
  <2>2. token[request[r].row] = NoItem /\ accounts[request[r].row] = NoItem
    BY <1>1 DEF IndInv, Erased
  <2> QED BY <2>1, <2>2
<1>2. IndInv /\ [Next]_vars =>
        [\A r \in Requests :
           /\ request[r].doing \in {"remove", "disconnect"} /\ request[r].at = "status"
           /\ request[r].alone
           /\ status' # status /\ request'[r] = Idle
           => LET j == request[r].row IN token'[j] = NoItem /\ accounts'[j] = NoItem]_vars
  BY <1>1
<1> QED BY <1>2, Inductive, PTL DEF Spec, RemovalErases

\* An exchange that completes its intent and had its row to itself has connected
\* its own item.
THEOREM CompletedConnects == Spec => CompletedIsConnected
<1>1. ASSUME IndInv, NEW r \in Requests, Is(r, "exchange", "complete"), request[r].alone
      PROVE  LET i == request[r].item
                 j == request[r].row
             IN /\ token[j] = i /\ accounts[j] = i /\ status[j] = "healthy"
                /\ plaid[i] = "live"
  BY <1>1 DEF IndInv, Written, Exchanging, Is, Stages
<1>2. IndInv /\ [Next]_vars =>
        [\A r \in Requests :
           /\ Is(r, "exchange", "complete") /\ request[r].alone
           /\ intent'[request[r].item] = "completed"
           => LET i == request[r].item
                  j == request[r].row
              IN /\ token[j] = i /\ accounts[j] = i /\ status[j] = "healthy"
                 /\ plaid[i] = "live"]_vars
  BY <1>1
<1> QED BY <1>2, Inductive, PTL DEF Spec, CompletedIsConnected

\* Without a fault, the token of an item that Plaid has removed is in a row only as
\* long as a removal is going to delete it.
THEOREM RemovedTokensGo == Spec => []RemovedTokenGoes
<1>1. IndInv => RemovedTokenGoes
  BY DEF IndInv, Doomed, Deletes, Removals, RemovedTokenGoes
<1> QED BY <1>1, Inductive, PTL

\* Removals are complete: both of the above.
THEOREM RemovalsAreComplete == Spec => RemovalsComplete
BY RemovalsErase, RemovedTokensGo, PTL DEF RemovalsComplete

\* A connection is whole or gone.
THEOREM ConnectionsStayWhole == Spec => ConnectionsAreWhole
BY RemovalsAreComplete, CompletedConnects DEF ConnectionsAreWhole
======
