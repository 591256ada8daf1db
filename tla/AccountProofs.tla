---------------------------- MODULE AccountProofs ----------------------------
(***************************************************************************)
(* For any users, codes and requests: invite codes are spent once, nothing *)
(* of a deleted user is left, the portal reaches what was paid for, and    *)
(* the connection to Google is the one made last.                          *)
(*                                                                         *)
(* The argument for the first two: a code names its redeemer as long as    *)
(* the redeemer is there, and is redeemed only when it names nobody; every *)
(* write of a user's row is either refused for a user who is gone or       *)
(* changes only a row that is there.  For the others, see Checkout and The *)
(* connection to Google below.                                             *)
(***************************************************************************)
EXTENDS Account, TLAPS

Rows ==
  /\ auth \subseteq Users /\ states \subseteq auth
  /\ DOMAIN connection = Users /\ DOMAIN waiting = Users
  /\ redeemedBy \in [Codes -> auth \union {NoUser}]
  /\ redeemers \in [Codes -> SUBSET Users]

\* Who is gone has no row.
Erased == \A u \in Users \ auth : connection[u] = NoRow /\ waiting[u] = "none"

\* A code names those of its redeemers that are there.
NamesRedeemer == \A c \in Codes : \A u \in redeemers[c] \intersect auth : redeemedBy[c] = u

IndInv == Rows /\ Erased /\ NamesRedeemer

\* What the invariant is about; most actions leave it alone.
rowVars == <<auth, states, connection, waiting, redeemedBy, redeemers>>

\* What leaves the rows alone keeps the invariant.
LEMMA RowsUnchanged == IndInv /\ UNCHANGED rowVars => IndInv'
BY DEF IndInv, Rows, Erased, NamesRedeemer, rowVars

\* It holds at first
LEMMA Initially == Init => IndInv
BY DEF Init, IndInv, Rows, Erased, NamesRedeemer

\* Redemption, the waitlist and the codes.
LEMMA InviteSteps ==
  ASSUME IndInv, NEW u, NEW c, NEW r,
         \/ u \in Users /\ JoinWaitlist(u)
         \/ c \in Codes /\ (IssueInvite(c) \/ InviteExpires(c))
         \/ u \in Users /\ c \in Codes /\ Redeem(r, u, c)
         \/ MarkInvited(r)
  PROVE  IndInv'
<1>1. CASE u \in Users /\ JoinWaitlist(u)
  BY <1>1 DEF JoinWaitlist, IndInv, Rows, Erased, NamesRedeemer, googleVars
<1>2. CASE IssueInvite(c) \/ InviteExpires(c)
  BY <1>2, RowsUnchanged DEF IssueInvite, InviteExpires, rowVars, googleVars
<1>3. CASE u \in Users /\ c \in Codes /\ Redeem(r, u, c)
  <2>1. u \in auth /\ redeemedBy[c] = NoUser
    BY <1>3 DEF Redeem, Begin
  <2>2. redeemers[c] \intersect auth = {}
    BY <1>3, <2>1, AccountAssumption DEF IndInv, Rows, NamesRedeemer
  <2> QED
    BY <1>3, <2>1, <2>2 DEF Redeem, IndInv, Rows, Erased, NamesRedeemer, googleVars
<1>4. CASE MarkInvited(r)
  BY <1>4 DEF MarkInvited, IndInv, Rows, Erased, NamesRedeemer, googleVars
<1> QED BY <1>1, <1>2, <1>3, <1>4

\* The connection to Google.
LEMMA GoogleSteps ==
  ASSUME IndInv, NEW r, NEW u,
         \/ Authorize(u) \/ StateExpires(u) \/ Callback(r, u)
         \/ StoreConnection(r) \/ StoreRefreshed(r) \/ RemoveLost(r)
         \/ Disconnect(u) \/ TokenExpires(u)
  PROVE  IndInv'
<1> USE DEF IndInv, Rows, Erased, NamesRedeemer, inviteVars
<1>1. CASE Authorize(u)
  BY <1>1 DEF Authorize
<1>2. CASE StateExpires(u)
  BY <1>2 DEF StateExpires
<1>3. CASE Callback(r, u)
  <2>1. states' = states \ {u} /\ UNCHANGED <<auth, inviteVars, connection>>
    BY <1>3, Zenon DEF Callback
  <2> QED BY <2>1
<1>4. CASE StoreConnection(r)
  BY <1>4 DEF StoreConnection, StoreTokens
<1>5. CASE StoreRefreshed(r)
  BY <1>5 DEF StoreRefreshed, StoreTokens
<1>6. CASE RemoveLost(r)
  BY <1>6 DEF RemoveLost, RemoveTokens
<1>7. CASE Disconnect(u)
  BY <1>7 DEF Disconnect, RemoveTokens
<1>8. CASE TokenExpires(u)
  <2>1. /\ connection[u].fresh
        /\ connection' = [connection EXCEPT ![u].fresh = FALSE]
        /\ UNCHANGED <<auth, inviteVars, states>>
    BY <1>8, Zenon DEF TokenExpires
  <2>2. \A v \in Users \ auth : v # u
    BY <2>1 DEF NoRow
  <2>3. DOMAIN connection' = Users /\ \A v \in Users \ auth : connection'[v] = NoRow
    BY <2>1, <2>2, Zenon
  <2> QED BY <2>1, <2>3
<1> QED BY <1>1, <1>2, <1>3, <1>4, <1>5, <1>6, <1>7, <1>8

\* The deletion.
LEMMA DeletionSteps ==
  ASSUME IndInv, NEW r, (\E t \in Tables : DeleteRows(r, t)) \/ DeleteUser(r)
  PROVE  IndInv'
<1>1. CASE \E t \in Tables : DeleteRows(r, t)
  <2> PICK t \in Tables : DeleteRows(r, t)
    BY <1>1
  <2>1. /\ connection' = IF t = "google_sheets_tokens"
                         THEN [connection EXCEPT ![request[r].user] = NoRow] ELSE connection
        /\ states' = IF t = "oauth_states" THEN states \ {request[r].user} ELSE states
        /\ waiting' = IF t = "waitlist" THEN [waiting EXCEPT ![request[r].user] = "none"]
                      ELSE waiting
        /\ UNCHANGED <<auth, redeemedBy, redeemers>>
    BY Zenon DEF DeleteRows
  <2> QED BY <2>1 DEF IndInv, Rows, Erased, NamesRedeemer
<1>2. CASE DeleteUser(r)
  <2> DEFINE u == request[r].user
  <2>1. /\ auth' = auth \ {u} /\ states' = states \ {u}
        /\ redeemedBy' = [c \in Codes |-> IF redeemedBy[c] = u THEN NoUser
                                          ELSE redeemedBy[c]]
        /\ waiting' = [waiting EXCEPT ![u] = "none"]
        /\ connection' = [connection EXCEPT ![u] = NoRow]
        /\ redeemers' = redeemers
    BY <1>2 DEF DeleteUser, RemoveTokens
  <2> HIDE DEF u
  <2>2. Rows'
    BY <2>1 DEF IndInv, Rows
  <2>3. Erased'
    BY <2>1 DEF IndInv, Rows, Erased
  <2>4. NamesRedeemer'
    BY <2>1 DEF IndInv, Rows, NamesRedeemer
  <2> QED BY <2>2, <2>3, <2>4 DEF IndInv
<1> QED BY <1>1, <1>2

\* All other actions leave the rows alone.
LEMMA OtherSteps ==
  ASSUME IndInv, NEW r, NEW u,
         \/ BeginCheckout(r, u) \/ BeginDeletion(r, u)
         \/ (\E kind \in {"use", "report"} : ReadTokens(r, u, kind))
         \/ ReadCustomer(r) \/ CreateCustomer(r) \/ SaveCustomer(r) \/ CreateSession(r)
         \/ Exchange(r) \/ Refresh(r) \/ RefreshFails(r) \/ Throw(r)
         \/ (\E s \in sessions : Pay(s)) \/ (\E e \in events : LinkCustomer(e))
         \/ (\E g \in 1 .. grants : Revoke(g))
  PROVE  IndInv'
<1> UNCHANGED rowVars
  BY DEF BeginCheckout, BeginDeletion, ReadTokens, ReadCustomer, CreateCustomer,
       SaveCustomer, CreateSession, Exchange, Refresh, RefreshFails, Throw, Pay,
       LinkCustomer, Revoke, rowVars, inviteVars, googleVars
<1> QED BY RowsUnchanged

\* and always.
LEMMA Inductive == Spec => []IndInv
<1>1. IndInv /\ [Next]_vars => IndInv'
  <2> SUFFICES ASSUME IndInv, [Next]_vars PROVE IndInv'
    OBVIOUS
  <2>1. CASE UNCHANGED vars
    BY <2>1, RowsUnchanged DEF vars, rowVars, inviteVars, googleVars
  <2>2. CASE Next
    BY <2>2, InviteSteps, GoogleSteps, DeletionSteps, OtherSteps DEF Next
  <2> QED BY <2>1, <2>2
<1> QED BY Initially, <1>1, PTL DEF Spec

\* A code is spent once, and again only after its redeemer's deletion.
THEOREM InvitesSpentOnce == Spec => []InvitesAreSpentOnce
<1>1. IndInv => InvitesAreSpentOnce
  BY DEF IndInv, NamesRedeemer, Rows, InvitesAreSpentOnce
<1> QED BY <1>1, Inductive, PTL

\* Nothing of a deleted user is left or comes back.
THEOREM DeletionsLeaveNothing == Spec => []DeletedLeavesNothing
<1>1. IndInv => DeletedLeavesNothing
  BY AccountAssumption DEF IndInv, Rows, Erased, DeletedLeavesNothing, Invited
<1> QED BY <1>1, Inductive, PTL
-----------------------------------------------------------------------------
(***************************************************************************)
(* Type correctness, on which the two invariants below rest: a request     *)
(* holds a customer, or a consent, that has been given out.                *)
(***************************************************************************)

Kinds == {"none", "redeem", "checkout", "connect", "use", "report", "delete"}
Places == {"none", "waitlist", "customer", "create", "save", "session", "exchange",
           "store", "refresh", "store refreshed", "remove", "rows"}

Requesting ==
  request \in [Requests -> [kind : Kinds, user : Users \union {NoUser}, at : Places,
                            saw : Nat, todo : SUBSET Tables]]

\* Request r is now at this place for this user with what it saw; the others
\* are where they were.
Becomes(r, user, at, saw) ==
  /\ request'[r].user = user /\ request'[r].at = at /\ request'[r].saw = saw
  /\ \A q \in Requests \ {r} : request'[q] = request[q]

\* A request that moves goes to none of these places.
NotTo(places) ==
  \A q \in Requests : request'[q] = request[q] \/ request'[q].at \notin places

CheckoutPlaces == {"create", "save", "session"}
GooglePlaces == {"store", "refresh", "store refreshed", "remove"}

\* What becomes of a request: it begins
LEMMA BeginBecomes ==
  ASSUME Requesting, auth \subseteq Users,
         NEW r \in Requests, NEW u, NEW kind \in Kinds, NEW at \in Places, NEW saw \in Nat,
         NEW todo \in SUBSET Tables, Begin(r, u, kind, at, saw, todo)
  PROVE  Requesting' /\ Becomes(r, u, at, saw) /\ request[r] = Idle /\ u \in auth
         /\ left > 0 /\ left' = left - 1 /\ faults' = faults
BY DEF Requesting, Begin, Becomes

\* goes on
LEMMA GoOnBecomes ==
  ASSUME Requesting, NEW r \in Requests, NEW at \in Places, NEW saw \in Nat, GoOn(r, at, saw)
  PROVE  Requesting' /\ Becomes(r, request[r].user, at, saw) /\ UNCHANGED bounds
<1>1. request' = [request EXCEPT ![r] = [@ EXCEPT !.at = at, !.saw = saw]]
  BY DEF GoOn
<1> QED BY <1>1 DEF Requesting, Becomes, GoOn

\* and ends.
LEMMA IdleBecomes ==
  ASSUME Requesting, NEW r \in Requests, request' = [request EXCEPT ![r] = Idle]
  PROVE  Requesting' /\ Becomes(r, NoUser, "none", 0)
BY DEF Requesting, Becomes, Idle, Kinds, Places

-----------------------------------------------------------------------------
(* Checkout.  A user for whom no two customers were made at once has one   *)
(* customer: every session, payment and event of the user is for the one   *)
(* of the profile, and while one is being made there is none of them.      *)

Purchases == [user : Users \union {NoUser}, customer : 1 .. Len(customers)]

StripeTyped ==
  /\ auth \subseteq Users
  /\ customer \in [Users -> 0 .. Len(customers)]
  /\ customers \in Seq(Users \union {NoUser})
  /\ sessions \subseteq Purchases /\ subs \subseteq Purchases /\ events \subseteq Purchases
  /\ \A q \in Requests : request[q].at \in {"save", "session"}
                         => request[q].saw \in 1 .. Len(customers)

OneCustomer ==
  \A u \in auth \ crossed :
    /\ \A p, q \in MakingCustomer(u) : p = q
    /\ customer[u] # 0 => MakingCustomer(u) = {}
    /\ \A s \in sessions \union subs \union events : s.user = u => s.customer = customer[u]
    /\ \A q \in Requests : request[q].user = u /\ request[q].at = "session"
                           => request[q].saw = customer[u]

StripeInv == StripeTyped /\ OneCustomer

\* A request that goes anywhere but on with a checkout disturbs nothing.
LEMMA CheckoutUndisturbed ==
  ASSUME StripeInv, NotTo(CheckoutPlaces), auth' \subseteq auth, UNCHANGED stripeVars
  PROVE  StripeInv'
<1>1. StripeTyped'
  BY DEF StripeInv, StripeTyped, NotTo, CheckoutPlaces, stripeVars, Purchases
<1>2. \A u : MakingCustomer(u)' \subseteq MakingCustomer(u)
  BY DEF MakingCustomer, NotTo, CheckoutPlaces
<1>3. OneCustomer'
  BY <1>2 DEF StripeInv, OneCustomer, NotTo, CheckoutPlaces, stripeVars
<1> QED BY <1>1, <1>3 DEF StripeInv

\* The profile is read: only a user without a customer begins to make one, and
\* only while none is being made, or the two cross.
LEMMA ReadingCustomer ==
  ASSUME StripeInv, Requesting, NEW r \in Requests, ReadCustomer(r)
  PROVE  StripeInv' /\ Requesting' /\ NotTo(GooglePlaces)
<1> DEFINE u == request[r].user
           seen == IF u \in auth THEN customer[u] ELSE 0
           at == IF seen = 0 THEN "create" ELSE "session"
<1>1. /\ GoOn(r, at, seen)
      /\ crossed' = IF seen = 0 /\ MakingCustomer(u) # {} THEN crossed \union {u} ELSE crossed
      /\ UNCHANGED <<auth, customer, customers, sessions, subs, events>>
      /\ request[r].at = "customer"
  BY DEF ReadCustomer, At
<1>2. at \in Places /\ at \in {"create", "session"} /\ (at = "create" <=> seen = 0)
  BY DEF Places
<1>3. /\ seen \in Nat /\ seen \in 0 .. Len(customers)
      /\ u \in auth => seen = customer[u]
      /\ u \notin auth => seen = 0
  <2>1. Len(customers) \in Nat
    BY DEF StripeInv, StripeTyped
  <2> QED BY <2>1 DEF StripeInv, StripeTyped
<1> HIDE DEF at, seen
<1>4. Requesting' /\ Becomes(r, u, at, seen)
  BY <1>1, <1>2, <1>3, GoOnBecomes
<1>5. StripeTyped'
  BY <1>1, <1>2, <1>3, <1>4 DEF StripeInv, StripeTyped, Becomes, Purchases
<1>6. ASSUME NEW v \in auth \ crossed', v # u
      PROVE  MakingCustomer(v)' = MakingCustomer(v)
  BY <1>4, <1>6 DEF MakingCustomer, Becomes
<1>7. ASSUME u \in auth \ crossed'
      PROVE  IF seen = 0 THEN MakingCustomer(u) = {} /\ MakingCustomer(u)' = {r}
             ELSE MakingCustomer(u)' = {}
  BY <1>1, <1>2, <1>3, <1>4, <1>7 DEF MakingCustomer, Becomes, StripeInv, OneCustomer
<1>8. OneCustomer'
  BY <1>1, <1>2, <1>3, <1>4, <1>6, <1>7 DEF StripeInv, OneCustomer, Becomes
<1> QED BY <1>2, <1>4, <1>5, <1>8 DEF StripeInv, NotTo, GooglePlaces, Becomes

\* The steps of a checkout: a customer is made at Stripe
LEMMA CreatingCustomer ==
  ASSUME StripeInv, Requesting, NEW r \in Requests, CreateCustomer(r)
  PROVE  StripeInv' /\ Requesting' /\ NotTo(GooglePlaces)
<1> DEFINE u == request[r].user
           new == Len(customers) + 1
<1>1. /\ request[r].at = "create" /\ u \in Users \union {NoUser}
      /\ customers' = Append(customers, u)
      /\ GoOn(r, "save", new)
      /\ UNCHANGED <<auth, customer, sessions, subs, events, crossed>>
  BY DEF CreateCustomer, At, Requesting
<1>2. Len(customers) \in Nat /\ new \in Nat /\ Len(customers') = new
      /\ customers' \in Seq(Users \union {NoUser})
  BY <1>1 DEF StripeInv, StripeTyped
<1> HIDE DEF new
<1>3. Requesting' /\ Becomes(r, u, "save", new)
  BY <1>1, <1>2, GoOnBecomes DEF Places
<1>4. \A n \in 0 .. Len(customers) : n \in 0 .. Len(customers')
  BY <1>2 DEF new
<1>5. new \in 1 .. Len(customers') /\ Purchases \subseteq Purchases'
  BY <1>2 DEF new, Purchases
<1>6. \A q \in Requests : request'[q].at \in {"save", "session"}
                          => request'[q].saw \in 1 .. Len(customers')
  <2> SUFFICES ASSUME NEW q \in Requests, request'[q].at \in {"save", "session"}
               PROVE  request'[q].saw \in 1 .. Len(customers')
    OBVIOUS
  <2>1. CASE q = r
    BY <2>1, <1>3, <1>5 DEF Becomes
  <2>2. CASE q # r
    BY <2>2, <1>2, <1>3 DEF Becomes, new, StripeInv, StripeTyped
  <2> QED BY <2>1, <2>2
<1>7. customer' \in [Users -> 0 .. Len(customers')]
  BY <1>1, <1>4 DEF StripeInv, StripeTyped
<1>8. StripeTyped'
  BY <1>1, <1>2, <1>5, <1>6, <1>7 DEF StripeInv, StripeTyped
<1>9. \A v : MakingCustomer(v)' = MakingCustomer(v)
  BY <1>1, <1>3 DEF MakingCustomer, Becomes
<1>10. OneCustomer'
  BY <1>1, <1>3, <1>9 DEF StripeInv, OneCustomer, Becomes
<1> QED BY <1>3, <1>8, <1>10 DEF StripeInv, NotTo, GooglePlaces, Becomes

\* and saved with the profile
LEMMA SavingCustomer ==
  ASSUME StripeInv, Requesting, NEW r \in Requests, SaveCustomer(r)
  PROVE  StripeInv' /\ Requesting' /\ NotTo(GooglePlaces)
<1> DEFINE u == request[r].user
           c == request[r].saw
<1>1. /\ request[r].at = "save"
      /\ customer' = IF u \in auth THEN [customer EXCEPT ![u] = c] ELSE customer
      /\ GoOn(r, "session", c)
      /\ UNCHANGED <<auth, customers, sessions, subs, events, crossed>>
  BY DEF SaveCustomer, At
<1>2. Len(customers) \in Nat /\ c \in 1 .. Len(customers) /\ c \in Nat /\ c # 0
  BY <1>1 DEF StripeInv, StripeTyped
<1> HIDE DEF c
<1>3. Requesting' /\ Becomes(r, u, "session", c)
  BY <1>1, <1>2, GoOnBecomes DEF Places
<1>4. StripeTyped'
  <2>1. customer' \in [Users -> 0 .. Len(customers)] /\ Purchases' = Purchases
    BY <1>1, <1>2 DEF StripeInv, StripeTyped, Purchases
  <2>2. \A q \in Requests : request'[q].at \in {"save", "session"}
                           => request'[q].saw \in 1 .. Len(customers)
    BY <1>2, <1>3 DEF StripeInv, StripeTyped, Becomes
  <2> QED BY <1>1, <2>1, <2>2 DEF StripeInv, StripeTyped
<1>5. r \in MakingCustomer(u)
  BY <1>1 DEF MakingCustomer
<1>6. ASSUME NEW v \in auth \ crossed, v # u
      PROVE  MakingCustomer(v)' = MakingCustomer(v)
  BY <1>3, <1>6 DEF MakingCustomer, Becomes
<1>7. ASSUME u \in auth \ crossed
      PROVE  MakingCustomer(u)' = {} /\ customer[u] = 0
  BY <1>1, <1>3, <1>5, <1>7 DEF MakingCustomer, Becomes, StripeInv, OneCustomer
<1>8. ASSUME u \in auth \ crossed
      PROVE  /\ ~\E s \in sessions \union subs \union events : s.user = u
             /\ ~\E q \in Requests : request[q].user = u /\ request[q].at = "session"
  <2>1. customer[u] = 0 /\ Len(customers) \in Nat
    BY <1>7, <1>8, <1>2
  <2>2. \A s \in sessions \union subs \union events : s.user = u => s.customer = 0
    BY <1>8, <2>1 DEF StripeInv, OneCustomer
  <2>3. \A s \in sessions \union subs \union events : s.customer # 0
    BY <2>1 DEF StripeInv, StripeTyped, Purchases
  <2> QED BY <1>8, <2>1, <2>2, <2>3 DEF StripeInv, StripeTyped, OneCustomer
<1>9. OneCustomer'
  <2> SUFFICES ASSUME NEW v \in auth \ crossed
               PROVE  /\ \A p, q \in MakingCustomer(v)' : p = q
                      /\ customer'[v] # 0 => MakingCustomer(v)' = {}
                      /\ \A s \in sessions \union subs \union events :
                           s.user = v => s.customer = customer'[v]
                      /\ \A q \in Requests : request'[q].user = v /\ request'[q].at = "session"
                                             => request'[q].saw = customer'[v]
    BY <1>1 DEF OneCustomer
  <2>1. CASE v = u
    <3>1. customer'[u] = c
      BY <1>1, <2>1 DEF StripeInv, StripeTyped
    <3>2. ASSUME NEW q \in Requests, request'[q].user = u, request'[q].at = "session"
          PROVE  q = r
      BY <1>3, <1>8, <2>1, <3>2 DEF Becomes
    <3> QED BY <1>3, <1>7, <1>8, <2>1, <3>1, <3>2 DEF Becomes
  <2>2. CASE v # u
    <3>1. customer'[v] = customer[v] /\ MakingCustomer(v)' = MakingCustomer(v)
      BY <1>1, <1>6, <2>2 DEF StripeInv, StripeTyped
    <3> QED BY <1>3, <2>2, <3>1 DEF Becomes, StripeInv, OneCustomer
  <2> QED BY <2>1, <2>2
<1> QED BY <1>3, <1>4, <1>9 DEF StripeInv, NotTo, GooglePlaces, Becomes

\* and a session is made for it.
LEMMA CreatingSession ==
  ASSUME StripeInv, Requesting, NEW r \in Requests, CreateSession(r)
  PROVE  StripeInv' /\ Requesting' /\ NotTo(GooglePlaces)
<1> DEFINE new == [user |-> request[r].user, customer |-> request[r].saw]
<1>1. /\ request[r].at = "session"
      /\ sessions' = sessions \union {new}
      /\ request' = [request EXCEPT ![r] = Idle]
      /\ UNCHANGED <<auth, customer, customers, subs, events, crossed>>
  BY DEF CreateSession, At, End
<1>2. Requesting' /\ Becomes(r, NoUser, "none", 0)
  BY <1>1, IdleBecomes
<1>3. /\ new \in Purchases
      /\ new.user = request[r].user /\ new.customer = request[r].saw
  BY <1>1 DEF StripeInv, StripeTyped, Requesting, Purchases
<1> HIDE DEF new
<1>4. StripeTyped'
  BY <1>1, <1>2, <1>3 DEF StripeInv, StripeTyped, Becomes, Purchases
<1>5. \A u : MakingCustomer(u)' \subseteq MakingCustomer(u)
  BY <1>2 DEF MakingCustomer, Becomes
<1>6. OneCustomer'
  BY <1>1, <1>2, <1>3, <1>5 DEF StripeInv, OneCustomer, Becomes
<1> QED BY <1>2, <1>4, <1>6 DEF StripeInv, NotTo, GooglePlaces, Becomes

\* What was ordered is paid, and the event of it links the customer the profile
\* has, unless two were made.
LEMMA PayingSteps ==
  ASSUME StripeInv, (\E s \in sessions : Pay(s)) \/ (\E e \in events : LinkCustomer(e))
  PROVE  StripeInv' /\ UNCHANGED request
<1>1. CASE \E s \in sessions : Pay(s)
  <2> PICK s \in sessions : Pay(s)
    BY <1>1
  <2>1. /\ sessions' = sessions \ {s} /\ subs' = subs \union {s} /\ events' = events \union {s}
        /\ UNCHANGED <<auth, customer, customers, crossed, request>>
    BY DEF Pay
  <2>2. StripeTyped'
    BY <2>1 DEF StripeInv, StripeTyped, Purchases
  <2>3. OneCustomer'
    BY <2>1 DEF StripeInv, OneCustomer, MakingCustomer
  <2> QED BY <2>1, <2>2, <2>3 DEF StripeInv
<1>2. CASE \E e \in events : LinkCustomer(e)
  <2> PICK e \in events : LinkCustomer(e)
    BY <1>2
  <2>1. /\ events' = events \ {e}
        /\ customer' = IF e.user \in auth THEN [customer EXCEPT ![e.user] = e.customer]
                       ELSE customer
        /\ UNCHANGED <<auth, customers, sessions, subs, crossed, request>>
    BY DEF LinkCustomer
  <2>2. Len(customers) \in Nat /\ e.customer \in 1 .. Len(customers)
    BY DEF StripeInv, StripeTyped, Purchases
  <2>3. StripeTyped'
    BY <2>1, <2>2 DEF StripeInv, StripeTyped, Purchases
  <2>4. \A v \in auth \ crossed : customer'[v] = customer[v]
    BY <2>1 DEF StripeInv, StripeTyped, OneCustomer
  <2>5. OneCustomer'
    BY <2>1, <2>4 DEF StripeInv, OneCustomer, MakingCustomer
  <2> QED BY <2>1, <2>3, <2>5 DEF StripeInv
<1> QED BY <1>1, <1>2

-----------------------------------------------------------------------------
(* The connection to Google.  A request that is to remove the row has seen *)
(* the consent refused, or an error; one that stores a refreshed token     *)
(* writes the row it has read, or the user is marked as overtaken.         *)

GoogleTyped ==
  /\ auth \subseteq Users /\ states \subseteq Users
  /\ grants \in Nat /\ revoked \subseteq 1 .. grants /\ faults \in Nat
  /\ connection \in [Users -> [grant : 0 .. grants, fresh : BOOLEAN]]
  /\ wanted \in [Users -> 0 .. grants]
  /\ \A q \in Requests : request[q].at \in GooglePlaces
                         => request[q].saw \in 1 .. grants

LostForAReason ==
  \A q \in Requests : request[q].at = "remove" => request[q].saw \in revoked \/ faults > 0

GoogleInv == GoogleTyped /\ LostForAReason /\ ConnectionIsLast

\* What touches no connection loses none.
LEMMA ReasonKept ==
  ASSUME GoogleInv, NotTo(GooglePlaces), UNCHANGED revoked, faults > 0 => faults' > 0
  PROVE  LostForAReason'
BY DEF GoogleInv, LostForAReason, NotTo, GooglePlaces

\* A request that goes anywhere but on with a connection disturbs nothing.
LEMMA GoogleUndisturbed ==
  ASSUME GoogleInv, NotTo(GooglePlaces), auth' \subseteq auth, UNCHANGED googleVars,
         faults' \in Nat, faults > 0 => faults' > 0
  PROVE  GoogleInv'
<1>1. GoogleTyped'
  BY DEF GoogleInv, GoogleTyped, NotTo, googleVars
<1>2. LostForAReason'
  BY ReasonKept DEF googleVars
<1>3. ConnectionIsLast'
  BY DEF GoogleInv, ConnectionIsLast, googleVars
<1> QED BY <1>1, <1>2, <1>3 DEF GoogleInv

\* One that does but leaves the row alone is to keep to what it may hold.
LEMMA GoogleRowAlone ==
  ASSUME GoogleInv, NEW r, NEW user, NEW at, NEW saw, Becomes(r, user, at, saw),
         saw \in 1 .. grants,
         at = "remove" => saw \in revoked \/ faults' > 0,
         UNCHANGED <<auth, googleVars>>, faults' \in Nat, faults > 0 => faults' > 0
  PROVE  GoogleInv'
<1>1. GoogleTyped'
  BY DEF GoogleInv, GoogleTyped, Becomes, googleVars
<1>2. LostForAReason'
  BY DEF GoogleInv, LostForAReason, Becomes, googleVars
<1>3. ConnectionIsLast'
  BY DEF GoogleInv, ConnectionIsLast, googleVars
<1> QED BY <1>1, <1>2, <1>3 DEF GoogleInv

\* A row that is not there.
LEMMA NoRowTyped ==
  GoogleInv => NoRow.grant = 0 /\ NoRow \in [grant : 0 .. grants, fresh : BOOLEAN]
<1>1. GoogleInv => grants \in Nat
  BY DEF GoogleInv, GoogleTyped
<1>2. grants \in Nat => 0 \in 0 .. grants
  OBVIOUS
<1> QED BY <1>1, <1>2 DEF NoRow

\* What is in flight, for a request that ends.
LEMMA GoogleEnds ==
  ASSUME GoogleInv, NEW r, Becomes(r, NoUser, "none", 0),
         UNCHANGED <<grants, revoked>>, faults > 0 => faults' > 0
  PROVE  /\ \A q \in Requests :
              request'[q].at \in GooglePlaces
              => request'[q].saw \in 1 .. grants'
         /\ LostForAReason'
BY DEF GoogleInv, GoogleTyped, LostForAReason, Becomes, GooglePlaces

\* The states, the consents and the disconnection.
LEMMA ConsentSteps ==
  ASSUME GoogleInv, NEW u, Authorize(u) \/ StateExpires(u) \/ Disconnect(u) \/ TokenExpires(u)
                           \/ \E g \in 1 .. grants : Revoke(g)
  PROVE  GoogleInv' /\ UNCHANGED request
<1> USE DEF GoogleInv, GoogleTyped, LostForAReason, ConnectionIsLast
<1>1. CASE Authorize(u)
  BY <1>1 DEF Authorize, bounds
<1>2. CASE StateExpires(u)
  BY <1>2 DEF StateExpires, bounds
<1>3. CASE Disconnect(u)
  <2>1. /\ u \in auth
        /\ connection' = [connection EXCEPT ![u] = NoRow]
        /\ wanted' = [wanted EXCEPT ![u] = 0]
        /\ overtaken' = overtaken \ {u}
        /\ UNCHANGED <<auth, states, grants, revoked, request, faults>>
    BY <1>3 DEF Disconnect, RemoveTokens, bounds
  <2> QED BY <2>1, NoRowTyped
<1>4. CASE TokenExpires(u)
  <2>1. /\ connection[u].fresh
        /\ connection' = [connection EXCEPT ![u].fresh = FALSE]
        /\ UNCHANGED <<auth, states, grants, revoked, wanted, overtaken, request, faults>>
    BY <1>4, Zenon DEF TokenExpires, bounds
  <2>2. connection' = [connection EXCEPT ![u] = [@ EXCEPT !.fresh = FALSE]]
    BY <2>1
  <2>3. connection[u] # NoRow
    <3>1. NoRow.fresh = FALSE
      BY DEF NoRow
    <3> QED BY <2>1, <3>1, Zenon
  <2>4. /\ connection' \in [Users -> [grant : 0 .. grants, fresh : BOOLEAN]]
        /\ \A v \in Users : connection'[v].grant = connection[v].grant
        /\ \A v \in Users : connection[v] = NoRow => connection'[v] = NoRow
    BY <2>2, <2>3
  <2> QED BY <2>1, <2>4
<1>5. CASE \E g \in 1 .. grants : Revoke(g)
  <2>1. PICK g \in 1 .. grants : Revoke(g)
    BY <1>5
  <2>2. /\ revoked' = revoked \union {g}
        /\ UNCHANGED <<auth, states, connection, grants, wanted, overtaken, request, faults>>
    BY <2>1 DEF Revoke, bounds
  <2> QED BY <2>2
<1> QED BY <1>1, <1>2, <1>3, <1>4, <1>5

\* The consent comes back
LEMMA CallingBack ==
  ASSUME GoogleInv, Requesting, NEW r \in Requests, NEW u \in Users, Callback(r, u)
  PROVE  GoogleInv' /\ Requesting' /\ NotTo(CheckoutPlaces)
<1> DEFINE new == [Idle EXCEPT !.kind = "connect", !.user = u, !.at = "exchange"]
<1>1. /\ request' = [request EXCEPT ![r] = new]
      /\ states' = states \ {u}
      /\ UNCHANGED <<auth, connection, grants, revoked, wanted, overtaken, faults>>
  BY Zenon DEF Callback
<1>2. /\ new \in [kind : Kinds, user : Users \union {NoUser}, at : Places, saw : Nat,
                  todo : SUBSET Tables]
      /\ new.user = u /\ new.at = "exchange" /\ new.saw = 0
  <2>1. /\ Idle \in [kind : Kinds, user : Users \union {NoUser}, at : Places, saw : Nat,
                     todo : SUBSET Tables]
        /\ Idle.saw = 0
    BY DEF Idle, Kinds, Places
  <2>2. "connect" \in Kinds /\ "exchange" \in Places
    BY DEF Kinds, Places
  <2> QED BY <2>1, <2>2
<1> HIDE DEF new
<1>3. Requesting' /\ Becomes(r, u, "exchange", 0)
  BY <1>1, <1>2 DEF Requesting, Becomes
<1>4. GoogleTyped'
  BY <1>1, <1>3 DEF GoogleInv, GoogleTyped, Becomes, GooglePlaces
<1>5. LostForAReason' /\ ConnectionIsLast'
  BY <1>1, <1>3 DEF GoogleInv, LostForAReason, ConnectionIsLast, Becomes
<1> QED BY <1>3, <1>4, <1>5 DEF GoogleInv, NotTo, CheckoutPlaces, Becomes

\* and is exchanged for tokens, which replace those there were.
LEMMA Exchanging ==
  ASSUME GoogleInv, Requesting, NEW r \in Requests, Exchange(r)
  PROVE  GoogleInv' /\ Requesting' /\ NotTo(CheckoutPlaces)
<1> DEFINE new == grants + 1
<1>1. /\ grants' = new /\ GoOn(r, "store", new)
      /\ UNCHANGED <<auth, states, connection, revoked, wanted, overtaken, faults>>
  BY DEF Exchange, GoOn, bounds
<1>2. new \in Nat /\ grants \in Nat /\ new \in 1 .. grants'
      /\ 0 .. grants \subseteq 0 .. grants' /\ 1 .. grants \subseteq 1 .. grants'
  <2>1. grants \in Nat
    BY DEF GoogleInv, GoogleTyped
  <2> QED BY <1>1, <2>1
<1> HIDE DEF new
<1>3. Requesting' /\ Becomes(r, request[r].user, "store", new)
  BY <1>1, <1>2, GoOnBecomes DEF Places
<1>4. /\ connection' \in [Users -> [grant : 0 .. grants', fresh : BOOLEAN]]
      /\ wanted' \in [Users -> 0 .. grants']
  BY <1>1, <1>2 DEF GoogleInv, GoogleTyped
<1>5. \A q \in Requests : request'[q].at \in GooglePlaces
                          => request'[q].saw \in 1 .. grants'
  BY <1>2, <1>3 DEF GoogleInv, GoogleTyped, Becomes
<1>6. GoogleTyped'
  BY <1>1, <1>2, <1>4, <1>5 DEF GoogleInv, GoogleTyped
<1>7. LostForAReason' /\ ConnectionIsLast'
  BY <1>1, <1>3 DEF GoogleInv, LostForAReason, ConnectionIsLast, Becomes
<1> QED BY <1>3, <1>6, <1>7 DEF GoogleInv, NotTo, CheckoutPlaces, Becomes

\* The upsert of a callback, of a refresh and the removal.
LEMMA StoringSteps ==
  ASSUME GoogleInv, Requesting, NEW r \in Requests,
         StoreConnection(r) \/ StoreRefreshed(r) \/ RemoveLost(r)
  PROVE  GoogleInv' /\ Requesting' /\ NotTo(CheckoutPlaces)
<1> DEFINE u == request[r].user
           g == request[r].saw
<1>1. /\ request' = [request EXCEPT ![r] = Idle]
      /\ UNCHANGED <<auth, states, grants, revoked, faults>>
  BY DEF StoreConnection, StoreRefreshed, RemoveLost, End, bounds
<1>2. Requesting' /\ Becomes(r, NoUser, "none", 0) /\ NotTo(CheckoutPlaces)
  BY <1>1, IdleBecomes DEF NotTo, CheckoutPlaces, Becomes
<1>3. g \in 1 .. grants /\ g # 0 /\ g \in 0 .. grants
  <2>1. request[r].at \in {"store", "store refreshed", "remove"}
    BY DEF StoreConnection, StoreRefreshed, RemoveLost, At
  <2>2. g \in 1 .. grants /\ grants \in Nat
    BY <2>1 DEF GoogleInv, GoogleTyped, GooglePlaces
  <2> QED BY <2>2
<1>4. faults \in Nat
  BY DEF GoogleInv, GoogleTyped
<1>5. /\ \A q \in Requests :
           request'[q].at \in GooglePlaces
           => request'[q].saw \in 1 .. grants'
      /\ LostForAReason'
  BY <1>1, <1>2, <1>4, GoogleEnds
<1> DEFINE row == [grant |-> g, fresh |-> TRUE]
<1>6. row \in [grant : 0 .. grants, fresh : BOOLEAN] /\ row.grant = g
  BY <1>3
<1>7. NoRow \in [grant : 0 .. grants, fresh : BOOLEAN] /\ NoRow.grant = 0
  BY NoRowTyped
<1> HIDE DEF row
<1>8. CASE StoreConnection(r)
  <2>1. /\ connection' = IF u \in auth THEN [connection EXCEPT ![u] = row] ELSE connection
        /\ wanted' = [wanted EXCEPT ![u] = IF u \in auth THEN g ELSE 0]
        /\ overtaken' = overtaken \ {u}
    BY <1>8 DEF StoreConnection, StoreTokens, row
  <2>2. GoogleTyped'
    <3>1. connection' \in [Users -> [grant : 0 .. grants, fresh : BOOLEAN]]
      BY <1>6, <2>1 DEF GoogleInv, GoogleTyped
    <3>2. wanted' \in [Users -> 0 .. grants]
      <4>1. grants \in Nat /\ wanted \in [Users -> 0 .. grants]
        BY DEF GoogleInv, GoogleTyped
      <4>2. (IF u \in auth THEN g ELSE 0) \in 0 .. grants
        BY <1>3, <4>1
      <4> QED BY <2>1, <4>1, <4>2
    <3> QED BY <1>1, <1>5, <3>1, <3>2 DEF GoogleInv, GoogleTyped
  <2>3. ConnectionIsLast'
    BY <1>1, <1>6, <2>1 DEF GoogleInv, GoogleTyped, ConnectionIsLast
  <2> QED BY <1>2, <1>5, <2>2, <2>3 DEF GoogleInv
<1>9. CASE StoreRefreshed(r)
  <2>1. /\ connection' = IF u \in auth THEN [connection EXCEPT ![u] = row] ELSE connection
        /\ overtaken' = IF connection[u].grant # g THEN overtaken \union {u} ELSE overtaken
        /\ wanted' = wanted
    BY <1>9 DEF StoreRefreshed, StoreTokens, Stale, row
  <2>2. GoogleTyped'
    BY <1>1, <1>3, <1>5, <1>6, <2>1 DEF GoogleInv, GoogleTyped
  <2>3. ConnectionIsLast'
    BY <1>1, <1>3, <1>6, <1>7, <2>1 DEF GoogleInv, GoogleTyped, ConnectionIsLast
  <2> QED BY <1>2, <1>5, <2>2, <2>3 DEF GoogleInv
<1>10. CASE RemoveLost(r)
  <2>1. /\ request[r].at = "remove"
        /\ connection' = [connection EXCEPT ![u] = NoRow]
        /\ overtaken' = IF connection[u].grant # g THEN overtaken \union {u} ELSE overtaken
        /\ wanted' = wanted
    BY <1>10 DEF RemoveLost, RemoveTokens, Stale
  <2>2. GoogleTyped'
    BY <1>1, <1>5, <1>7, <2>1 DEF GoogleInv, GoogleTyped
  <2>3. g \in revoked \/ faults > 0
    BY <2>1 DEF GoogleInv, LostForAReason
  <2>4. ConnectionIsLast'
    BY <1>1, <1>3, <1>7, <2>1, <2>3 DEF GoogleInv, GoogleTyped, ConnectionIsLast
  <2> QED BY <1>2, <1>5, <2>2, <2>4 DEF GoogleInv
<1> QED BY <1>8, <1>9, <1>10

\* The refresh of tokens, up to what it does to the row.
LEMMA RefreshingSteps ==
  ASSUME GoogleInv, Requesting, NEW r \in Requests, left \in Nat,
         \/ \E u \in Users : \E kind \in {"use", "report"} : ReadTokens(r, u, kind)
         \/ Refresh(r) \/ RefreshFails(r)
  PROVE  GoogleInv' /\ Requesting' /\ left' \in Nat /\ NotTo(CheckoutPlaces)
<1>1. faults \in Nat /\ auth \subseteq Users
  BY DEF GoogleInv, GoogleTyped
<1>2. CASE \E u \in Users : \E kind \in {"use", "report"} : ReadTokens(r, u, kind)
  <2> PICK u \in Users, kind \in {"use", "report"} : ReadTokens(r, u, kind)
    BY <1>2
  <2> DEFINE g == connection[u].grant
  <2>1. /\ connection[u] # NoRow /\ ~connection[u].fresh
        /\ Begin(r, u, kind, "refresh", g, {})
        /\ UNCHANGED <<auth, googleVars>>
    BY DEF ReadTokens
  <2>2. connection[u] \in [grant : 0 .. grants, fresh : BOOLEAN] /\ grants \in Nat
    BY DEF GoogleInv, GoogleTyped
  <2>3. g # 0
    BY <2>1, <2>2 DEF NoRow
  <2>4. g \in 1 .. grants /\ g \in Nat
    BY <2>2, <2>3
  <2> HIDE DEF g
  <2>5. kind \in Kinds /\ "refresh" \in Places /\ {} \in SUBSET Tables
    BY DEF Kinds, Places
  <2>6. /\ Requesting' /\ Becomes(r, u, "refresh", g)
        /\ left > 0 /\ left' = left - 1 /\ faults' = faults
    BY <1>1, <2>1, <2>4, <2>5, BeginBecomes
  <2>7. GoogleInv'
    BY <1>1, <2>1, <2>4, <2>6, GoogleRowAlone
  <2> QED BY <2>6, <2>7 DEF NotTo, CheckoutPlaces, Becomes
<1>3. CASE Refresh(r)
  <2>1. /\ request[r].at = "refresh"
        /\ GoOn(r, "store refreshed", request[r].saw)
        /\ UNCHANGED <<auth, googleVars, left, faults>>
    BY <1>3 DEF Refresh, GoOn, bounds
  <2>2. request[r].saw \in 1 .. grants /\ request[r].saw \in Nat
    BY <2>1 DEF GoogleInv, GoogleTyped, GooglePlaces, Requesting
  <2>3. Requesting' /\ Becomes(r, request[r].user, "store refreshed", request[r].saw)
    BY <2>1, <2>2, GoOnBecomes DEF Places
  <2>4. GoogleInv'
    BY <1>1, <2>1, <2>2, <2>3, GoogleRowAlone
  <2> QED BY <2>1, <2>3, <2>4 DEF NotTo, CheckoutPlaces, Becomes
<1>4. CASE RefreshFails(r)
  <2>1. /\ request[r].at = "refresh"
        /\ request' = [request EXCEPT ![r] = IF request[r].kind = "report"
                                             THEN [@ EXCEPT !.at = "remove"] ELSE Idle]
        /\ \/ request[r].saw \in revoked /\ UNCHANGED <<left, faults>>
           \/ faults' = faults + 1 /\ left' = left
        /\ UNCHANGED <<auth, googleVars>>
    BY <1>4, Zenon DEF RefreshFails, Spare, bounds
  <2>2. /\ faults' \in Nat /\ left' \in Nat
        /\ (faults > 0 => faults' > 0) /\ faults' >= faults
        /\ request[r].saw \in revoked \/ faults' > 0
    BY <1>1, <2>1
  <2>3. CASE request[r].kind = "report"
    <3>1. request' = [request EXCEPT ![r] = [@ EXCEPT !.at = "remove"]]
      BY <2>1, <2>3, Zenon
    <3>2. Requesting' /\ Becomes(r, request[r].user, "remove", request[r].saw)
      BY <3>1 DEF Requesting, Becomes, Places
    <3>3. request[r].saw \in 1 .. grants
      BY <2>1 DEF GoogleInv, GoogleTyped, GooglePlaces
    <3>4. GoogleInv'
      BY <2>1, <2>2, <3>2, <3>3, GoogleRowAlone
    <3> QED BY <2>2, <3>2, <3>4 DEF NotTo, CheckoutPlaces, Becomes
  <2>4. CASE request[r].kind # "report"
    <3>1. request' = [request EXCEPT ![r] = Idle]
      BY <2>1, <2>4, Zenon
    <3>2. Requesting' /\ Becomes(r, NoUser, "none", 0)
      BY <3>1, IdleBecomes
    <3>3. NotTo(GooglePlaces) /\ NotTo(CheckoutPlaces)
      BY <3>2 DEF NotTo, GooglePlaces, CheckoutPlaces, Becomes
    <3>4. GoogleInv'
      BY <2>1, <2>2, <3>3, GoogleUndisturbed
    <3> QED BY <2>2, <3>2, <3>3, <3>4
  <2> QED BY <2>3, <2>4
<1> QED BY <1>2, <1>3, <1>4

\* The deletion: an emptied row is one the user does not want, and who is gone
\* is not asked about.
LEMMA ErasingSteps ==
  ASSUME GoogleInv, Requesting, NEW r \in Requests,
         (\E t \in Tables : DeleteRows(r, t)) \/ DeleteUser(r)
  PROVE  /\ GoogleInv' /\ Requesting' /\ NotTo(CheckoutPlaces)
         /\ auth' \subseteq auth /\ UNCHANGED <<stripeVars, left>>
<1> DEFINE u == request[r].user
<1>1. NoRow \in [grant : 0 .. grants, fresh : BOOLEAN] /\ NoRow.grant = 0
  BY NoRowTyped
<1>2. request[r].at = "rows"
  BY DEF DeleteRows, DeleteUser, At
<1>3. CASE \E t \in Tables : DeleteRows(r, t)
  <2> PICK t \in Tables : DeleteRows(r, t)
    BY <1>3
  <2>1. /\ connection' = IF t = "google_sheets_tokens" THEN [connection EXCEPT ![u] = NoRow]
                         ELSE connection
        /\ wanted' = IF t = "google_sheets_tokens" THEN [wanted EXCEPT ![u] = 0] ELSE wanted
        /\ states' = IF t = "oauth_states" THEN states \ {u} ELSE states
        /\ request' = [request EXCEPT ![r].todo = @ \ {t}]
        /\ UNCHANGED <<auth, stripeVars, grants, revoked, overtaken, left, faults>>
    BY Zenon DEF DeleteRows, bounds
  <2>2. request' = [request EXCEPT ![r] = [@ EXCEPT !.todo = request[r].todo \ {t}]]
    BY <2>1, Zenon
  <2>3. Requesting' /\ Becomes(r, u, "rows", request[r].saw)
    BY <1>2, <2>2 DEF Requesting, Becomes
  <2>4. NotTo(CheckoutPlaces) /\ NotTo(GooglePlaces)
    BY <2>3 DEF NotTo, GooglePlaces, CheckoutPlaces, Becomes
  <2>5. connection' \in [Users -> [grant : 0 .. grants, fresh : BOOLEAN]]
    BY <1>1, <2>1 DEF GoogleInv, GoogleTyped
  <2>6. wanted' \in [Users -> 0 .. grants]
    <3>1. wanted \in [Users -> 0 .. grants] /\ grants \in Nat
      BY DEF GoogleInv, GoogleTyped
    <3>2. 0 \in 0 .. grants
      BY <3>1
    <3> QED BY <2>1, <3>1, <3>2
  <2>7. GoogleTyped'
    BY <2>1, <2>4, <2>5, <2>6 DEF GoogleInv, GoogleTyped, NotTo
  <2>8. LostForAReason'
    BY <2>1, <2>4, ReasonKept
  <2>9. ConnectionIsLast'
    BY <1>1, <2>1 DEF GoogleInv, GoogleTyped, ConnectionIsLast
  <2> QED BY <2>1, <2>3, <2>4, <2>7, <2>8, <2>9 DEF GoogleInv
<1>4. CASE DeleteUser(r)
  <2>1. /\ auth' = auth \ {u} /\ states' = states \ {u}
        /\ connection' = [connection EXCEPT ![u] = NoRow]
        /\ wanted' = [wanted EXCEPT ![u] = 0]
        /\ request' = [request EXCEPT ![r] = Idle]
        /\ UNCHANGED <<stripeVars, grants, revoked, overtaken, left, faults>>
    BY <1>4 DEF DeleteUser, RemoveTokens, End, bounds
  <2>2. Requesting' /\ Becomes(r, NoUser, "none", 0)
    BY <2>1, IdleBecomes
  <2>3. NotTo(CheckoutPlaces) /\ NotTo(GooglePlaces)
    BY <2>2 DEF NotTo, GooglePlaces, CheckoutPlaces, Becomes
  <2>4. /\ auth' \subseteq Users /\ states' \subseteq Users
        /\ connection' \in [Users -> [grant : 0 .. grants, fresh : BOOLEAN]]
    BY <1>1, <2>1 DEF GoogleInv, GoogleTyped
  <2>5. wanted' \in [Users -> 0 .. grants]
    <3>1. wanted \in [Users -> 0 .. grants] /\ grants \in Nat
      BY DEF GoogleInv, GoogleTyped
    <3>2. 0 \in 0 .. grants
      BY <3>1
    <3> QED BY <2>1, <3>1, <3>2
  <2>6. GoogleTyped'
    BY <2>1, <2>3, <2>4, <2>5 DEF GoogleInv, GoogleTyped, NotTo
  <2>7. LostForAReason'
    BY <2>1, <2>3, ReasonKept
  <2>8. ConnectionIsLast'
    BY <2>1 DEF GoogleInv, GoogleTyped, ConnectionIsLast
  <2> QED BY <2>1, <2>2, <2>3, <2>6, <2>7, <2>8 DEF GoogleInv
<1> QED BY <1>3, <1>4

-----------------------------------------------------------------------------
(* All of it together. *)

Whole == Requesting /\ left \in Nat /\ StripeInv /\ GoogleInv

\* A request that begins or ends elsewhere, or none that moves.
LEMMA WholeUndisturbed ==
  ASSUME Whole, Requesting', left' \in Nat, NotTo(CheckoutPlaces), NotTo(GooglePlaces),
         UNCHANGED <<auth, stripeVars, googleVars>>, faults' \in Nat, faults > 0 => faults' > 0
  PROVE  Whole'
BY CheckoutUndisturbed, GoogleUndisturbed DEF Whole

\* A step of a checkout keeps the whole of it
LEMMA WholeByCheckout ==
  ASSUME Whole, StripeInv', Requesting', NotTo(GooglePlaces),
         UNCHANGED <<auth, googleVars, bounds>>
  PROVE  Whole'
<1>1. faults \in Nat
  BY DEF Whole, GoogleInv, GoogleTyped
<1> QED BY <1>1, GoogleUndisturbed DEF Whole, bounds

\* and so does one of a connection.
LEMMA WholeByGoogle ==
  ASSUME Whole, GoogleInv', Requesting', left' \in Nat, NotTo(CheckoutPlaces),
         auth' \subseteq auth, UNCHANGED stripeVars
  PROVE  Whole'
BY CheckoutUndisturbed DEF Whole

\* Requests that begin
LEMMA BeginningSteps ==
  ASSUME Whole, NEW r \in Requests, NEW u \in Users,
         (\E c \in Codes : Redeem(r, u, c)) \/ BeginCheckout(r, u) \/ BeginDeletion(r, u)
  PROVE  Whole'
<1>1. PICK kind \in {"redeem", "checkout", "delete"}, at \in {"waitlist", "customer", "rows"},
           todo \in {{}, Tables} :
        Begin(r, u, kind, at, 0, todo) /\ UNCHANGED <<auth, stripeVars, googleVars>>
  BY DEF Redeem, BeginCheckout, BeginDeletion
<1>2. kind \in Kinds /\ at \in Places /\ at \notin CheckoutPlaces /\ at \notin GooglePlaces
  BY DEF Kinds, Places, CheckoutPlaces, GooglePlaces
<1>3. /\ Requesting' /\ Becomes(r, u, at, 0)
      /\ left > 0 /\ left' = left - 1 /\ faults' = faults
  BY <1>1, <1>2, BeginBecomes DEF Whole, StripeInv, StripeTyped
<1>4. NotTo(CheckoutPlaces) /\ NotTo(GooglePlaces)
  BY <1>2, <1>3 DEF NotTo, Becomes
<1>5. left' \in Nat /\ faults' \in Nat
  BY <1>3 DEF Whole, GoogleInv, GoogleTyped
<1> QED BY <1>1, <1>3, <1>4, <1>5, WholeUndisturbed

\* requests that end
LEMMA EndingSteps ==
  ASSUME Whole, NEW r \in Requests, MarkInvited(r) \/ Throw(r)
  PROVE  Whole'
<1>1. /\ request' = [request EXCEPT ![r] = Idle]
      /\ UNCHANGED <<auth, stripeVars, googleVars, left>>
      /\ faults' \in {faults, faults + 1}
  BY DEF MarkInvited, Throw, End, Spare, bounds
<1>2. Requesting' /\ Becomes(r, NoUser, "none", 0)
  BY <1>1, IdleBecomes DEF Whole
<1>3. NotTo(CheckoutPlaces) /\ NotTo(GooglePlaces)
  BY <1>2 DEF NotTo, GooglePlaces, CheckoutPlaces, Becomes
<1>4. faults \in Nat
  BY DEF Whole, GoogleInv, GoogleTyped
<1>5. left' \in Nat /\ faults' \in Nat /\ (faults > 0 => faults' > 0)
  BY <1>1, <1>4 DEF Whole
<1> QED BY <1>1, <1>2, <1>3, <1>5, WholeUndisturbed

\* and steps that leave users and requests alone.
LEMMA RestingSteps ==
  ASSUME Whole, UNCHANGED <<auth, stripeVars, googleVars, request, bounds>>
  PROVE  Whole'
<1>1. NotTo(CheckoutPlaces) /\ NotTo(GooglePlaces) /\ Requesting'
  BY DEF NotTo, Whole, Requesting
<1>2. faults \in Nat
  BY DEF Whole, GoogleInv, GoogleTyped
<1> QED BY <1>1, <1>2, WholeUndisturbed DEF Whole, bounds

\* The whole invariant holds at first
LEMMA WholeInitially == Init => Whole
<1> SUFFICES ASSUME Init PROVE Whole
  OBVIOUS
<1>1. /\ auth = Users /\ customer = [u \in Users |-> 0] /\ customers = <<>>
      /\ sessions = {} /\ subs = {} /\ events = {} /\ crossed = {} /\ states = {}
      /\ connection = [u \in Users |-> NoRow] /\ grants = 0 /\ revoked = {}
      /\ wanted = [u \in Users |-> 0] /\ overtaken = {}
      /\ request = [r \in Requests |-> Idle] /\ left = MaxRequests /\ faults = 0
  BY DEF Init
<1>2. /\ Idle \in [kind : Kinds, user : Users \union {NoUser}, at : Places, saw : Nat,
                   todo : SUBSET Tables]
      /\ Idle.at = "none" /\ Idle.user = NoUser
  BY DEF Idle, Kinds, Places
<1>3. Requesting /\ left \in Nat
  BY <1>1, <1>2, AccountAssumption DEF Requesting
<1>4. StripeTyped
  <2>1. Len(customers) = 0 /\ customers \in Seq(Users \union {NoUser})
    BY <1>1
  <2> QED BY <1>1, <1>2, <2>1 DEF StripeTyped
<1>5. OneCustomer
  BY <1>1, <1>2 DEF OneCustomer, MakingCustomer
<1>6. NoRow \in [grant : 0 .. grants, fresh : BOOLEAN] /\ NoRow.grant = 0
  <2>1. 0 \in 0 .. grants
    BY <1>1
  <2> QED BY <2>1 DEF NoRow
<1>7. GoogleTyped
  BY <1>1, <1>2, <1>6 DEF GoogleTyped, GooglePlaces
<1>8. LostForAReason /\ ConnectionIsLast
  BY <1>1, <1>2, <1>6 DEF LostForAReason, ConnectionIsLast
<1> QED BY <1>3, <1>4, <1>5, <1>7, <1>8 DEF Whole, StripeInv, GoogleInv

\* and always.
LEMMA WholeInductive == Spec => []Whole
<1>1. ASSUME Whole, [Next]_vars PROVE Whole'
  <2>1. CASE UNCHANGED vars
    BY <2>1, RestingSteps, <1>1 DEF vars, bounds
  <2>2. CASE \E u \in Users : JoinWaitlist(u)
    BY <1>1, <2>2, RestingSteps DEF JoinWaitlist
  <2>3. CASE \E u \in Users : Authorize(u) \/ StateExpires(u) \/ Disconnect(u) \/ TokenExpires(u)
    <3>1. UNCHANGED <<auth, stripeVars, request, bounds>>
      BY <2>3 DEF Authorize, StateExpires, Disconnect, TokenExpires
    <3>2. GoogleInv'
      BY <1>1, <2>3, ConsentSteps DEF Whole
    <3> QED BY <1>1, <3>1, <3>2, WholeByGoogle DEF Whole, NotTo, Requesting, bounds
  <2>4. CASE \E c \in Codes : IssueInvite(c) \/ InviteExpires(c)
    BY <1>1, <2>4, RestingSteps DEF IssueInvite, InviteExpires
  <2>5. CASE \E r \in Requests, u \in Users :
               (\E c \in Codes : Redeem(r, u, c)) \/ BeginCheckout(r, u) \/ BeginDeletion(r, u)
    BY <1>1, <2>5, BeginningSteps
  <2>6. CASE \E r \in Requests, u \in Users : Callback(r, u)
    <3> PICK r \in Requests, u \in Users : Callback(r, u)
      BY <2>6
    <3>1. UNCHANGED <<auth, stripeVars>> /\ left > 0 /\ left' = left - 1
      BY Zenon DEF Callback
    <3>2. left' \in Nat
      BY <1>1, <3>1 DEF Whole
    <3> QED BY <1>1, <3>1, <3>2, CallingBack, WholeByGoogle DEF Whole
  <2>7. CASE \E r \in Requests :
               \/ \E u \in Users : \E kind \in {"use", "report"} : ReadTokens(r, u, kind)
               \/ Refresh(r) \/ RefreshFails(r)
    <3>1. UNCHANGED <<auth, stripeVars>>
      BY <2>7 DEF ReadTokens, Refresh, RefreshFails
    <3> QED BY <1>1, <2>7, <3>1, RefreshingSteps, WholeByGoogle DEF Whole
  <2>8. CASE \E r \in Requests : MarkInvited(r) \/ Throw(r)
    BY <1>1, <2>8, EndingSteps
  <2>9. CASE \E r \in Requests :
               ReadCustomer(r) \/ CreateCustomer(r) \/ SaveCustomer(r) \/ CreateSession(r)
    <3>1. UNCHANGED <<auth, googleVars, bounds>>
      BY <2>9 DEF ReadCustomer, CreateCustomer, SaveCustomer, CreateSession, GoOn, End
    <3> QED BY <1>1, <2>9, <3>1, ReadingCustomer, CreatingCustomer, SavingCustomer,
               CreatingSession, WholeByCheckout DEF Whole
  <2>10. CASE \E r \in Requests :
                Exchange(r) \/ StoreConnection(r) \/ StoreRefreshed(r) \/ RemoveLost(r)
    <3>1. UNCHANGED <<auth, stripeVars, bounds>>
      BY <2>10 DEF Exchange, StoreConnection, StoreRefreshed, RemoveLost, GoOn, End
    <3> QED BY <1>1, <2>10, <3>1, Exchanging, StoringSteps, WholeByGoogle DEF Whole, bounds
  <2>11. CASE \E r \in Requests : (\E t \in Tables : DeleteRows(r, t)) \/ DeleteUser(r)
    BY <1>1, <2>11, ErasingSteps, WholeByGoogle DEF Whole
  <2>12. CASE (\E s \in sessions : Pay(s)) \/ (\E e \in events : LinkCustomer(e))
    <3>1. UNCHANGED <<auth, googleVars, bounds>>
      BY <2>12 DEF Pay, LinkCustomer
    <3> QED BY <1>1, <2>12, <3>1, PayingSteps, WholeByCheckout DEF Whole, NotTo, Requesting
  <2>13. CASE \E g \in 1 .. grants : Revoke(g)
    <3>1. UNCHANGED <<auth, stripeVars, request, bounds>>
      BY <2>13 DEF Revoke
    <3>2. GoogleInv'
      BY <1>1, <2>13, ConsentSteps DEF Whole
    <3> QED BY <1>1, <3>1, <3>2, WholeByGoogle DEF Whole, NotTo, Requesting, bounds
  <2> QED BY <1>1, <2>1, <2>2, <2>3, <2>4, <2>5, <2>6, <2>7, <2>8, <2>9, <2>10, <2>11,
             <2>12, <2>13 DEF Next
<1> QED BY WholeInitially, <1>1, PTL DEF Spec

\* Whatever order checkouts, errors and events come in, the portal reaches what
\* was paid for, unless two customers were made at once.
THEOREM PortalReachesPaid == Spec => []PortalReaches
<1>1. Whole => PortalReaches
  BY DEF Whole, StripeInv, OneCustomer, PortalReaches, Portal
<1> QED BY <1>1, WholeInductive, PTL

\* The connection is the one made last, unless a refresh overtook it.
THEOREM ConnectionStaysLast == Spec => []ConnectionIsLast
<1>1. Whole => ConnectionIsLast
  BY DEF Whole, GoogleInv
<1> QED BY <1>1, WholeInductive, PTL

Waitlist ==
  /\ invite \in [Codes -> {"none", "valid", "expired"}]
  /\ waiting \in [Users -> {"none", "waiting", "invited"}]

\* Who is on the waitlist is a user.
LEMMA WaitlistTyped == Spec => []Waitlist
<1>1. Init => Waitlist
  BY DEF Init, Waitlist
<1>2. ASSUME Waitlist, [Next]_vars PROVE Waitlist'
  <2>2. CASE \E u \in Users : JoinWaitlist(u)
    BY <1>2, <2>2 DEF JoinWaitlist, Waitlist
  <2>3. CASE \E c \in Codes : IssueInvite(c) \/ InviteExpires(c)
    BY <1>2, <2>3 DEF IssueInvite, InviteExpires, Waitlist
  <2>4. CASE \E r \in Requests : MarkInvited(r)
    BY <1>2, <2>4 DEF MarkInvited, Waitlist
  <2>5. CASE \E r \in Requests : \E t \in Tables : DeleteRows(r, t)
    <3> PICK r \in Requests, t \in Tables : DeleteRows(r, t)
      BY <2>5
    <3>1. /\ waiting' = IF t = "waitlist" THEN [waiting EXCEPT ![request[r].user] = "none"]
                        ELSE waiting
          /\ invite' = invite
      BY Zenon DEF DeleteRows
    <3> QED BY <1>2, <3>1 DEF Waitlist
  <2>6. CASE \E r \in Requests : DeleteUser(r)
    BY <1>2, <2>6 DEF DeleteUser, Waitlist
  <2>7. CASE \E r \in Requests, u \in Users :
               \/ \E c \in Codes : Redeem(r, u, c)
               \/ BeginCheckout(r, u) \/ Callback(r, u) \/ BeginDeletion(r, u)
               \/ \E kind \in {"use", "report"} : ReadTokens(r, u, kind)
    <3>1. UNCHANGED <<invite, waiting>>
      BY <2>7, Zenon DEF Redeem, BeginCheckout, Callback, BeginDeletion, ReadTokens, inviteVars
    <3> QED BY <1>2, <3>1 DEF Waitlist
  <2>8. CASE \E r \in Requests :
               \/ ReadCustomer(r) \/ CreateCustomer(r) \/ SaveCustomer(r) \/ CreateSession(r)
               \/ Exchange(r) \/ StoreConnection(r) \/ Refresh(r) \/ StoreRefreshed(r)
               \/ RefreshFails(r) \/ RemoveLost(r) \/ Throw(r)
    <3>1. UNCHANGED <<invite, waiting>>
      BY <2>8 DEF ReadCustomer, CreateCustomer, SaveCustomer, CreateSession, Exchange,
           StoreConnection, Refresh, StoreRefreshed, RefreshFails, RemoveLost, Throw, inviteVars
    <3> QED BY <1>2, <3>1 DEF Waitlist
  <2>9. CASE \/ (\E s \in sessions : Pay(s)) \/ (\E e \in events : LinkCustomer(e))
             \/ (\E g \in 1 .. grants : Revoke(g))
             \/ (\E u \in Users : Authorize(u) \/ StateExpires(u) \/ Disconnect(u)
                                  \/ TokenExpires(u))
    <3>1. UNCHANGED <<invite, waiting>>
      BY <2>9 DEF Pay, LinkCustomer, Revoke, Authorize, StateExpires, Disconnect,
           TokenExpires, inviteVars
    <3> QED BY <1>2, <3>1 DEF Waitlist
  <2>10. CASE UNCHANGED vars
    <3>1. UNCHANGED <<invite, waiting>>
      BY <2>10 DEF vars, inviteVars
    <3> QED BY <1>2, <3>1 DEF Waitlist
  <2> QED BY <1>2, <2>2, <2>3, <2>4, <2>5, <2>6, <2>7, <2>8, <2>9, <2>10 DEF Next
<1> QED BY <1>1, <1>2, PTL DEF Spec

\* Every customer, consent and redeemer that is named has been given out.
THEOREM TypeCorrect == Spec => []TypeOK
<1>1. Whole /\ Waitlist /\ IndInv => TypeOK
  <2> SUFFICES ASSUME Whole, Waitlist, IndInv PROVE TypeOK
    OBVIOUS
  <2>1. redeemedBy \in [Codes -> Users \union {NoUser}]
    BY DEF IndInv, Rows
  <2>2. auth \subseteq Users /\ customer \in [Users -> 0 .. Len(customers)]
    BY DEF Whole, StripeInv, StripeTyped
  <2>3. /\ states \subseteq Users /\ revoked \subseteq 1 .. grants
        /\ connection \in [Users -> [grant : 0 .. grants, fresh : BOOLEAN]]
        /\ wanted \in [Users -> 0 .. grants]
    BY DEF Whole, GoogleInv, GoogleTyped
  <2> QED BY <2>1, <2>2, <2>3 DEF TypeOK, Waitlist
<1> QED BY <1>1, WholeInductive, WaitlistTyped, Inductive, PTL
=============================================================================
