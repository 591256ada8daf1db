---------------------------- MODULE PlaidConnect ----------------------------
(***************************************************************************)
(* Linking banks and removing them (backend/routes/plaidRoutes.js): the    *)
(* exchange of a public token, guarded by its link intent, and the ways an *)
(* item goes: removed or disconnected by the user, revoked at the bank.    *)
(*                                                                         *)
(* Link hands out a public token; Plaid makes an item of it when it is     *)
(* exchanged, once.  An item stands for its public token, its link intent, *)
(* its access token, its item_id and its accounts.  A row is named by an   *)
(* item_id too, and may hold the access token of another item: the one the *)
(* user reconnected with.  Which items are of one bank, and have the same  *)
(* accounts, is not said: they may always be, or not.                      *)
(*                                                                         *)
(* A step of a request is an await that others can see.  The seven days of *)
(* the weekly cap do not pass.                                             *)
(***************************************************************************)
EXTENDS PlaidBreaker, FiniteSets

CONSTANTS
  Items,      \* the public tokens the user gets from Link
  NoItem,     \* no item
  Requests,   \* requests the backend works on at once
  WeeklyCap,  \* PLAID_NEW_CONNECTIONS_PER_7_DAYS
  MaxFaults,  \* how many errors and crashes happen (bound)
  MaxOps      \* how many removals and webhooks there are (bound)

ASSUME PlaidConnectAssumption ==
  /\ NoItem \notin Items
  /\ IsFiniteSet(Requests)
  /\ WeeklyCap \in Nat \ {0}
  /\ MaxFaults \in Nat
  /\ MaxOps \in Nat

VARIABLES
  plaid,     \* plaid[i]: what Plaid knows of i
  token,     \* token[j]: whose access token the row j of plaid_tokens holds
  accounts,  \* accounts[j]: whose accounts have j as plaid_item_id
  status,    \* status[j]: plaid_item_status, or "none"
  intent,    \* intent[i]: plaid_link_intents, or "none"
  connects,  \* events of new connections
  breaker,   \* the row of plaid_circuit_breaker
  request,   \* request[r]: what r is at
  sent,      \* the webhooks Plaid sent
  seen,      \* plaid_webhook_events
  faults,    \* errors and crashes so far
  ops        \* removals and webhooks so far

rows == <<token, accounts, status>>
mail == <<sent, seen>>
vars == <<plaid, rows, intent, connects, breaker, request, mail, faults, ops>>

Webhooks == [code : {"revoked", "login", "repaired"}, item : Items]

\* A request has the row it works on and the item it works for: the one that is
\* exchanged, or the one whose token was read.  saw is the breaker it read.
\* alone says that no other request worked on that row meanwhile.
Idle == [doing |-> "idle", at |-> "-", row |-> NoItem, item |-> NoItem,
         saw |-> NewBreaker, alone |-> TRUE]

Removals == {"remove", "disconnect", "revoked"}

Places ==
  {"-", "check", "probe", "exchange", "store", "replace", "accounts", "token", "count",
   "status", "complete", "succeed", "failing", "giveup"}

RequestRecords ==
  [doing : {"idle", "exchange", "login", "repaired"} \union Removals, at : Places,
   row : Items \union {NoItem}, item : Items \union {NoItem},
   saw : Breakers, alone : BOOLEAN]

TypeOK ==
  /\ plaid \in [Items -> {"none", "live", "removed"}]
  /\ token \in [Items -> Items \union {NoItem}]
  /\ accounts \in [Items -> Items \union {NoItem}]
  /\ status \in [Items ->
       {"none", "healthy", "action_required", "revoked", "disconnected"}]
  /\ intent \in [Items -> {"none", "started", "completed", "failed"}]
  /\ connects \in Nat
  /\ breaker \in Breakers
  /\ request \in [Requests -> RequestRecords]
  /\ sent \subseteq Webhooks /\ seen \subseteq sent
  /\ faults \in 0 .. MaxFaults
  /\ ops \in 0 .. MaxOps

Init ==
  /\ plaid = [i \in Items |-> "none"]
  /\ token = [i \in Items |-> NoItem]
  /\ accounts = [i \in Items |-> NoItem]
  /\ status = [i \in Items |-> "none"]
  /\ intent = [i \in Items |-> "none"]
  /\ connects = 0
  /\ breaker = NewBreaker
  /\ request = [r \in Requests |-> Idle]
  /\ sent = {} /\ seen = {}
  /\ faults = 0
  /\ ops = 0

-----------------------------------------------------------------------------
(* Requests.                                                               *)

Is(r, what, where) == request[r].doing = what /\ request[r].at = where

Goes(r, where) == request' = [request EXCEPT ![r].at = where]

Answered(r) == request' = [request EXCEPT ![r] = Idle]

Fault == faults < MaxFaults /\ faults' = faults + 1

\* r works on row j from now on, as new says.
WorksOn(r, j, new) ==
  LET others == {q \in Requests \ {r} : request[q].row = j}
  IN request' = [q \in Requests |->
       IF q = r THEN [new EXCEPT !.row = j, !.alone = others = {}]
       ELSE IF q \in others THEN [request[q] EXCEPT !.alone = FALSE]
       ELSE request[q]]

\* The process stops, or a query of a removal or a webhook fails: r ends there.
Crash(r) ==
  /\ request[r] # Idle
  /\ Fault
  /\ Answered(r)
  /\ UNCHANGED <<plaid, rows, intent, connects, breaker, mail, ops>>

TimePasses ==
  /\ breaker' \in Older(breaker) \ {breaker}
  /\ UNCHANGED <<plaid, rows, intent, connects, request, mail, faults, ops>>

-----------------------------------------------------------------------------
(* POST /api/plaid/exchange-token.                                         *)

Ready(r) == request[r] = Idle

\* A link intent that failed may be tried again.
RetryingStart(r, i) ==
  /\ Ready(r)
  /\ intent[i] \in {"none", "failed"}
  /\ intent' = [intent EXCEPT ![i] = "started"]
  /\ request' = [request EXCEPT ![r] = [Idle EXCEPT
                   !.doing = "exchange", !.at = "check", !.item = i]]
  /\ UNCHANGED <<plaid, rows, connects, breaker, mail, faults, ops>>

\* The intent is inserted.  When it is there already the request is answered
\* from its row, and changes nothing.
StartExchange(r, i) ==
  /\ Ready(r)
  /\ intent[i] = "none"
  /\ intent' = [intent EXCEPT ![i] = "started"]
  /\ request' = [request EXCEPT ![r] = [Idle EXCEPT
                   !.doing = "exchange", !.at = "check", !.item = i]]
  /\ UNCHANGED <<plaid, rows, connects, breaker, mail, faults, ops>>

\* An item with a token, and Plaid answers for it, may turn out to be of the bank:
\* the same institution, and accounts of the same names and masks.  One that Plaid
\* does not answer for is passed over.
MayBeDuplicate(j) == token[j] # NoItem /\ plaid[token[j]] = "live"

\* The bank is connected already.
FindDuplicate(r) ==
  /\ Is(r, "exchange", "check")
  /\ \E j \in Items : MayBeDuplicate(j)
  /\ intent' = [intent EXCEPT ![request[r].item] = "completed"]
  /\ Answered(r)
  /\ UNCHANGED <<plaid, rows, connects, breaker, mail, faults, ops>>

\* The answer 503 leaves the intent started.
AskBreaker(r) ==
  /\ Is(r, "exchange", "check")
  /\ IF Refuses(breaker) THEN Answered(r)
     ELSE Goes(r, IF Opens(breaker) THEN "probe" ELSE "exchange")
  /\ UNCHANGED <<plaid, rows, intent, connects, breaker, mail, faults, ops>>

\* Whatever the breaker has become meanwhile.
Probe(r) ==
  /\ Is(r, "exchange", "probe")
  /\ breaker' = HalfOpened(breaker)
  /\ Goes(r, "exchange")
  /\ UNCHANGED <<plaid, rows, intent, connects, mail, faults, ops>>

\* What the user may ask to reconnect, and among it the orphans: accounts without
\* a token, which those of the new item may match.
Rows == {j \in Items : accounts[j] # NoItem \/ status[j] # "none"}

LateCapReached == connects > WeeklyCap

CapReached == connects >= WeeklyCap

\* itemPublicTokenExchange and accountsGet, and what is decided on: the row the
\* user asked to reconnect, an orphan, or a new row unless the cap is reached.
Exchange(r) ==
  /\ Is(r, "exchange", "exchange")
  /\ LET i == request[r].item IN
       /\ plaid' = [plaid EXCEPT ![i] = "live"]
       /\ \/ /\ \E j \in Rows \ {i} : WorksOn(r, j, [request[r] EXCEPT !.at = "store"])
             /\ UNCHANGED intent
          \/ /\ ~CapReached
             /\ WorksOn(r, i, [request[r] EXCEPT !.at = "store"])
             /\ UNCHANGED intent
          \/ /\ CapReached
             /\ intent' = [intent EXCEPT ![i] = "failed"]
             /\ Answered(r)
  /\ UNCHANGED <<rows, connects, breaker, mail, faults, ops>>

IsNew(r) == request[r].row = request[r].item

\* storeToken replaces whatever token the row has.
StoreToken(r) ==
  /\ Is(r, "exchange", "store")
  /\ token' = [token EXCEPT ![request[r].row] = request[r].item]
  /\ \/ Goes(r, "accounts")
     \/ ~IsNew(r) /\ Goes(r, "replace")
  /\ UNCHANGED <<plaid, accounts, status, intent, connects, breaker, mail, faults, ops>>

\* The accounts of the row the user asked to reconnect are deleted; those of an
\* orphan are updated in place.
DropOldAccounts(r) ==
  /\ Is(r, "exchange", "replace")
  /\ accounts' = [accounts EXCEPT ![request[r].row] = NoItem]
  /\ Goes(r, "accounts")
  /\ UNCHANGED <<plaid, token, status, intent, connects, breaker, mail, faults, ops>>

\* The accounts of a reconnected row stay as they are.
StaleSaveAccounts(r) ==
  /\ Is(r, "exchange", "accounts")
  /\ accounts' = IF IsNew(r) THEN [accounts EXCEPT ![request[r].row] = request[r].item]
                             ELSE accounts
  /\ Goes(r, IF IsNew(r) THEN "count" ELSE "status")
  /\ UNCHANGED <<plaid, token, status, intent, connects, breaker, mail, faults, ops>>

SaveAccounts(r) ==
  /\ Is(r, "exchange", "accounts")
  /\ accounts' = [accounts EXCEPT ![request[r].row] = request[r].item]
  /\ Goes(r, IF IsNew(r) THEN "count" ELSE "status")
  /\ UNCHANGED <<plaid, token, status, intent, connects, breaker, mail, faults, ops>>

\* The event of a new connection; a reconnection is not counted.
CountConnection(r) ==
  /\ Is(r, "exchange", "count")
  /\ connects' = connects + 1
  /\ Goes(r, "status")
  /\ UNCHANGED <<plaid, rows, intent, breaker, mail, faults, ops>>

SetHealthy(r) ==
  /\ Is(r, "exchange", "status")
  /\ status' = [status EXCEPT ![request[r].row] = "healthy"]
  /\ Goes(r, "complete")
  /\ UNCHANGED <<plaid, token, accounts, intent, connects, breaker, mail, faults, ops>>

CompleteIntent(r) ==
  /\ Is(r, "exchange", "complete")
  /\ intent' = [intent EXCEPT ![request[r].item] = "completed"]
  /\ Goes(r, "succeed")
  /\ UNCHANGED <<plaid, rows, connects, breaker, mail, faults, ops>>

Succeed(r) ==
  /\ Is(r, "exchange", "succeed")
  /\ breaker' = AfterSuccess
  /\ Answered(r)
  /\ UNCHANGED <<plaid, rows, intent, connects, mail, faults, ops>>

\* Plaid fails: the item may have been made.  The breaker is read.
PlaidFails(r) ==
  /\ Is(r, "exchange", "exchange")
  /\ Fault
  /\ \E made \in {"none", "live"} : plaid' = [plaid EXCEPT ![request[r].item] = made]
  /\ request' = [request EXCEPT ![r].at = "failing", ![r].saw = breaker]
  /\ UNCHANGED <<rows, intent, connects, breaker, mail, ops>>

RecordFailure(r) ==
  /\ Is(r, "exchange", "failing")
  /\ breaker' = AfterFailure(request[r].saw)
  /\ request' = [request EXCEPT ![r].at = "giveup", ![r].saw = NewBreaker]
  /\ UNCHANGED <<plaid, rows, intent, connects, mail, faults, ops>>

\* A query fails.  Plaid did nothing, so that the breaker is left alone.
QueryFails(r) ==
  /\ request[r].doing = "exchange"
  /\ request[r].at \in {"check", "probe", "store", "replace", "accounts", "count",
                       "status", "complete", "succeed"}
  /\ Fault
  /\ Goes(r, "giveup")
  /\ UNCHANGED <<plaid, rows, intent, connects, breaker, mail, ops>>

\* Whatever the intent was, a completed one included.
GiveUp(r) ==
  /\ Is(r, "exchange", "giveup")
  /\ intent' = [intent EXCEPT ![request[r].item] = "failed"]
  /\ Answered(r)
  /\ UNCHANGED <<plaid, rows, connects, breaker, mail, faults, ops>>

ExchangeStep(r) ==
  \/ \E i \in Items : StartExchange(r, i)
  \/ FindDuplicate(r) \/ AskBreaker(r) \/ Probe(r) \/ Exchange(r)
  \/ StoreToken(r) \/ DropOldAccounts(r) \/ SaveAccounts(r)
  \/ CountConnection(r) \/ SetHealthy(r)
  \/ CompleteIntent(r) \/ Succeed(r)
  \/ PlaidFails(r) \/ RecordFailure(r) \/ QueryFails(r) \/ GiveUp(r)

-----------------------------------------------------------------------------
(* POST /api/plaid/remove-item and /api/plaid/disconnect, and the webhooks *)
(* of Plaid.                                                               *)

Op == ops < MaxOps /\ ops' = ops + 1

\* itemRemove is called with the token of j; its failure is only logged.
RemovedAtPlaid(j) ==
  IF token[j] = NoItem THEN UNCHANGED <<plaid, faults>>
  ELSE \/ plaid' = [plaid EXCEPT ![token[j]] = "removed"] /\ UNCHANGED faults
       \/ Fault /\ UNCHANGED plaid

\* The token is read and the item is removed at Plaid.
BeginRemoval(r, j, how) ==
  /\ Ready(r)
  /\ Op
  /\ IF how = "remove" THEN accounts[j] # NoItem \/ status[j] # "none" \/ token[j] # NoItem
                       ELSE token[j] # NoItem
  /\ WorksOn(r, j, [Idle EXCEPT !.doing = how, !.at = "accounts", !.item = token[j]])
  /\ RemovedAtPlaid(j)
  /\ UNCHANGED <<rows, intent, connects, breaker, mail>>

\* Plaid tells of item i: each event once, delivered in any order.
Happens(i, code) ==
  /\ plaid[i] = "live"
  /\ [code |-> code, item |-> i] \notin sent
  /\ Op
  /\ sent' = sent \union {[code |-> code, item |-> i]}
  /\ UNCHANGED <<plaid, rows, intent, connects, breaker, request, seen, faults>>

\* The owner is looked up by the item_id of the row, and the event is recorded;
\* without an owner nothing else happens.  A delivery that is recorded already
\* is answered and changes nothing.
Deliver(r, e) ==
  /\ Ready(r)
  /\ e \in sent \ seen
  /\ seen' = seen \union {e}
  /\ IF token[e.item] = NoItem THEN UNCHANGED request
     ELSE WorksOn(r, e.item, [Idle EXCEPT !.doing = e.code,
            !.at = IF e.code = "revoked" THEN "check" ELSE "status"])
  /\ UNCHANGED <<plaid, rows, intent, connects, breaker, sent, faults, ops>>

RevokeAtPlaid(r) ==
  /\ Is(r, "revoked", "check")
  /\ RemovedAtPlaid(request[r].row)
  /\ request' = [request EXCEPT ![r].at = "token", ![r].item = token[request[r].row]]
  /\ UNCHANGED <<rows, intent, connects, breaker, mail, ops>>

\* The webhook's handler goes on when it cannot delete the token or the accounts.
SwallowFailure(r) ==
  /\ request[r].doing = "revoked" /\ request[r].at \in {"token", "accounts"}
  /\ Fault
  /\ Goes(r, IF request[r].at = "token" THEN "accounts" ELSE "status")
  /\ UNCHANGED <<plaid, rows, intent, connects, breaker, mail, ops>>

\* The accounts go first when the user removes, the token when the bank revokes.
DropAccounts(r) ==
  /\ request[r].doing \in Removals /\ request[r].at = "accounts"
  /\ accounts' = [accounts EXCEPT ![request[r].row] = NoItem]
  /\ Goes(r, IF request[r].doing = "revoked" THEN "status" ELSE "token")
  /\ UNCHANGED <<plaid, token, status, intent, connects, breaker, mail, faults, ops>>

AfterToken(r) == IF request[r].doing = "revoked" THEN "accounts" ELSE "status"

\* removeToken throws when there is no row: the request of the user ends there,
\* unless it found no token either and does not call it.
DropToken(r) ==
  /\ request[r].doing \in Removals /\ request[r].at = "token"
  /\ LET j == request[r].row IN
       IF request[r].doing = "remove" /\ request[r].item = NoItem
         THEN Goes(r, "status") /\ UNCHANGED token
         ELSE /\ token' = [token EXCEPT ![j] = NoItem]
              /\ IF token[j] = NoItem /\ request[r].doing # "revoked"
                   THEN Answered(r) ELSE Goes(r, AfterToken(r))
  /\ UNCHANGED <<plaid, accounts, status, intent, connects, breaker, mail, faults, ops>>

StatusAfter(doing) ==
  CASE doing = "remove"     -> "none"
    [] doing = "disconnect" -> "disconnected"
    [] doing = "revoked"    -> "revoked"
    [] doing = "login"      -> "action_required"
    [] doing = "repaired"   -> "healthy"

WriteStatus(r) ==
  /\ request[r].doing \in Removals \union {"login", "repaired"}
  /\ request[r].at = "status"
  /\ status' = [status EXCEPT ![request[r].row] = StatusAfter(request[r].doing)]
  /\ Answered(r)
  /\ UNCHANGED <<plaid, token, accounts, intent, connects, breaker, mail, faults, ops>>

RemovalStep(r) ==
  \/ \E j \in Items, how \in {"remove", "disconnect"} : BeginRemoval(r, j, how)
  \/ \E e \in Webhooks : Deliver(r, e)
  \/ RevokeAtPlaid(r) \/ DropAccounts(r) \/ DropToken(r) \/ WriteStatus(r)
  \/ SwallowFailure(r)

Next ==
  \/ \E r \in Requests : ExchangeStep(r) \/ RemovalStep(r) \/ Crash(r)
  \/ \E i \in Items, code \in {"revoked", "login", "repaired"} : Happens(i, code)
  \/ TimePasses

Spec == Init /\ [][Next]_vars

-----------------------------------------------------------------------------
(* Properties.                                                             *)

Working(i) == {r \in Requests : request[r].doing = "exchange" /\ request[r].item = i}

\* A public token is exchanged once, whatever is retried and however requests
\* overlap: one request works on it, and none starts when it has been exchanged.
ExchangedOnce ==
  \A i \in Items :
    /\ \A q, r \in Working(i) : q = r
    /\ \A r \in Working(i) :
         request[r].at \in {"check", "probe", "exchange"} => plaid[i] = "none"

\* The breaker never gets stuck, whatever failures and successes crossed: it is
\* not closed with the failures that open it, nor open for ever.
BreakerNeverStuck == BreakerSound(breaker)

\* The cap is read before the connection is counted, so that requests at once
\* may all pass it; no more than that pass, however many items are linked.
CapOverrun == connects < WeeklyCap + Cardinality(Requests)

\* A removal or a disconnection that ends, and had its row to itself, leaves
\* neither token nor accounts, whatever failed or crashed before it.
RemovalErases ==
  [][\A r \in Requests :
       /\ request[r].doing \in {"remove", "disconnect"} /\ request[r].at = "status"
       /\ request[r].alone
       /\ status' # status /\ request'[r] = Idle
       => LET j == request[r].row IN token'[j] = NoItem /\ accounts'[j] = NoItem]_vars

\* An exchange that is reported as completed, and had its row to itself, has
\* connected its own item: its token and its accounts are in the row, the row is
\* healthy, and Plaid has the item.
CompletedIsConnected ==
  [][\A r \in Requests :
       /\ Is(r, "exchange", "complete") /\ request[r].alone
       /\ intent'[request[r].item] = "completed"
       => LET i == request[r].item
              j == request[r].row
          IN /\ token[j] = i /\ accounts[j] = i /\ status[j] = "healthy"
             /\ plaid[i] = "live"]_vars

\* Without an error or a crash, a token that Plaid has removed is in a row only
\* as long as a removal is still going to delete it, even when the row is
\* reconnected, disconnected and revoked at once.
RemovedTokenGoes ==
  faults = 0 =>
    \A j \in Items :
      token[j] # NoItem /\ plaid[token[j]] = "removed" =>
        \E r \in Requests :
          /\ request[r].doing \in Removals /\ request[r].row = j
          /\ request[r].at \in {"accounts", "token"}

\* So removals are complete, one by one and taken together: each erases its row,
\* and no step leaves a row with a removed token that nothing will clear.
RemovalsComplete == RemovalErases /\ [][RemovedTokenGoes']_vars

\* A connection is whole or gone: what is completed is connected, and what is removed
\* or disconnected leaves nothing, however exchanges, removals and webhooks cross.
ConnectionsAreWhole == RemovalsComplete /\ CompletedIsConnected
=============================================================================
