------------------------------ MODULE Account ------------------------------
(***************************************************************************)
(* A user's account on the server: invite codes and the waitlist           *)
(* (backend/routes/entitlementRoutes.js), checkout and Stripe's customers  *)
(* (stripeRoutes.js), the connection to Google (googleRoutes.js,           *)
(* storage/googleTokens.js, lib/oauthState.js) and the deletion of it all  *)
(* (privacyRoutes.js, with the foreign keys of the migrations).            *)
(*                                                                         *)
(* Requests run concurrently, and each query and each call to Stripe or    *)
(* Google is a step.  There is one price, in the catalogue; checkout needs *)
(* an invite and the users are not administrators.  What a subscription    *)
(* entitles to is in Billing, what becomes of Plaid's items in             *)
(* PlaidLifecycle; ids of users are not used again.                        *)
(***************************************************************************)
EXTENDS Naturals, Sequences, FiniteSets

CONSTANTS
  Users,
  Codes,        \* invite codes
  Requests,     \* requests under way at once
  NoUser,
  MaxRequests,  \* requests of several steps (bound)
  MaxGrants,    \* consents given at Google (bound)
  MaxFaults     \* errors and crashes (bound)

ASSUME AccountAssumption ==
  /\ NoUser \notin Users
  /\ {MaxRequests, MaxGrants, MaxFaults} \subseteq Nat

VARIABLES
  auth,        \* auth.users, each with its row in profiles: who can sign in
  customer,    \* profiles.stripe_customer_id, or 0
  invite,      \* each code: not issued yet, valid or expired
  redeemedBy,  \* invites.redeemed_by
  waiting,     \* the user's row of waitlist, "none" without
  customers,   \* the owner of each of Stripe's customers, in order
  sessions,    \* the checkout sessions that are open: [user, customer]
  subs,        \* the subscriptions that were paid for: [user, customer]
  events,      \* checkout.session.completed, not handled yet: [user, customer]
  states,      \* the users with a row in oauth_states that can be consumed
  connection,  \* the user's row of google_sheets_tokens
  grants,      \* how many consents were given at Google
  revoked,     \* those that do not hold any more
  request,     \* what each request is doing
  left, faults,
  wanted,      \* the consent the user connected with last, 0 once disconnected
  redeemers,   \* who ever redeemed a code
  crossed,     \* users for whom two customers were being made at once
  overtaken    \* users whose row a refresh wrote that had read another one

inviteVars == <<invite, redeemedBy, waiting, redeemers>>
stripeVars == <<customer, customers, sessions, subs, events, crossed>>
googleVars == <<states, connection, grants, revoked, wanted, overtaken>>
bounds == <<left, faults>>
vars == <<auth, inviteVars, stripeVars, googleVars, request, bounds>>

NoRow == [grant |-> 0, fresh |-> FALSE]

Idle == [kind |-> "none", user |-> NoUser, at |-> "none", saw |-> 0, todo |-> {}]

\* The tables a deletion empties itself.  The one of profiles has no column
\* user_id, the error is taken for a missing table, and only the foreign key
\* removes the profile.
Tables == {"google_sheets_tokens", "oauth_states", "waitlist"}

Init ==
  /\ auth = Users
  /\ customer = [u \in Users |-> 0]
  /\ invite = [c \in Codes |-> "none"]
  /\ redeemedBy = [c \in Codes |-> NoUser]
  /\ waiting = [u \in Users |-> "none"]
  /\ redeemers = [c \in Codes |-> {}]
  /\ customers = <<>> /\ sessions = {} /\ subs = {} /\ events = {}
  /\ crossed = {}
  /\ states = {}
  /\ connection = [u \in Users |-> NoRow]
  /\ grants = 0 /\ revoked = {}
  /\ wanted = [u \in Users |-> 0]
  /\ overtaken = {}
  /\ request = [r \in Requests |-> Idle]
  /\ left = MaxRequests /\ faults = 0

-----------------------------------------------------------------------------
(* Requests. *)

\* requireAuth asks the auth server: who was deleted is turned away.
Begin(r, u, kind, at, saw, todo) ==
  /\ request[r] = Idle
  /\ u \in auth
  /\ left > 0 /\ left' = left - 1
  /\ request' = [request EXCEPT ![r] = [kind |-> kind, user |-> u, at |-> at,
                                       saw |-> saw, todo |-> todo]]
  /\ UNCHANGED faults

At(r, kind, at) == request[r].kind = kind /\ request[r].at = at

GoOn(r, at, saw) ==
  /\ request' = [request EXCEPT ![r].at = at, ![r].saw = saw]
  /\ UNCHANGED bounds

End(r) == request' = [request EXCEPT ![r] = Idle] /\ UNCHANGED bounds

Spare == faults < MaxFaults /\ faults' = faults + 1 /\ UNCHANGED left

\* An error or a crash: what follows is not done.  An error of deleteUser is
\* not looked at, and the user, whose rows are gone, reads that all is deleted.
Throw(r) ==
  /\ request[r] # Idle
  /\ Spare
  /\ request' = [request EXCEPT ![r] = Idle]
  /\ UNCHANGED <<auth, inviteVars, stripeVars, googleVars>>

-----------------------------------------------------------------------------
(* Invites and the waitlist. *)

\* An upsert that leaves a row as it is.
JoinWaitlist(u) ==
  /\ u \in auth /\ waiting[u] = "none"
  /\ waiting' = [waiting EXCEPT ![u] = "waiting"]
  /\ UNCHANGED <<auth, invite, redeemedBy, redeemers, stripeVars, googleVars, request, bounds>>

\* An administrator issues a code, and each code once: it is random.
IssueInvite(c) ==
  /\ invite[c] = "none"
  /\ invite' = [invite EXCEPT ![c] = "valid"]
  /\ UNCHANGED <<auth, redeemedBy, waiting, redeemers, stripeVars, googleVars, request, bounds>>

InviteExpires(c) ==
  /\ invite[c] = "valid"
  /\ invite' = [invite EXCEPT ![c] = "expired"]
  /\ UNCHANGED <<auth, redeemedBy, waiting, redeemers, stripeVars, googleVars, request, bounds>>

\* WRONG variant: the update does not check that nobody has redeemed the code.
RedeemTwice(r, u, c) ==
  /\ Begin(r, u, "redeem", "waitlist", 0, {})
  /\ invite[c] = "valid"
  /\ redeemedBy' = [redeemedBy EXCEPT ![c] = u]
  /\ redeemers' = [redeemers EXCEPT ![c] = @ \union {u}]
  /\ UNCHANGED <<auth, invite, waiting, stripeVars, googleVars>>

\* One update of the code, if nobody has redeemed it and it has not expired.
Redeem(r, u, c) ==
  /\ Begin(r, u, "redeem", "waitlist", 0, {})
  /\ invite[c] = "valid" /\ redeemedBy[c] = NoUser
  /\ redeemedBy' = [redeemedBy EXCEPT ![c] = u]
  /\ redeemers' = [redeemers EXCEPT ![c] = @ \union {u}]
  /\ UNCHANGED <<auth, invite, waiting, stripeVars, googleVars>>

MarkInvited(r) ==
  /\ At(r, "redeem", "waitlist")
  /\ LET u == request[r].user IN
       waiting' = [waiting EXCEPT ![u] = IF @ = "none" THEN @ ELSE "invited"]
  /\ End(r)
  /\ UNCHANGED <<auth, invite, redeemedBy, redeemers, stripeVars, googleVars>>

Invited(u) == \E c \in Codes : redeemedBy[c] = u

-----------------------------------------------------------------------------
(* Checkout. *)

\* The invite is checked and the price resolved.
BeginCheckout(r, u) ==
  /\ Invited(u)
  /\ Begin(r, u, "checkout", "customer", 0, {})
  /\ UNCHANGED <<auth, inviteVars, stripeVars, googleVars>>

MakingCustomer(u) == {q \in Requests : request[q].user = u
                                       /\ request[q].at \in {"create", "save"}}

\* getOrCreateStripeCustomerIdForUser: the profile is read.
ReadCustomer(r) ==
  /\ At(r, "checkout", "customer")
  /\ LET u == request[r].user
         seen == IF u \in auth THEN customer[u] ELSE 0
     IN  /\ GoOn(r, IF seen = 0 THEN "create" ELSE "session", seen)
         /\ crossed' = IF seen = 0 /\ MakingCustomer(u) # {} THEN crossed \union {u}
                       ELSE crossed
  /\ UNCHANGED <<auth, inviteVars, customer, customers, sessions, subs, events, googleVars>>

CreateCustomer(r) ==
  /\ At(r, "checkout", "create")
  /\ customers' = Append(customers, request[r].user)
  /\ GoOn(r, "save", Len(customers) + 1)
  /\ UNCHANGED <<auth, inviteVars, customer, sessions, subs, events, crossed, googleVars>>

\* WRONG variant: the new customer is left to the webhook to save.
ForgetCustomer(r) ==
  /\ At(r, "checkout", "save")
  /\ GoOn(r, "session", request[r].saw)
  /\ UNCHANGED <<auth, inviteVars, stripeVars, googleVars>>

\* An update, which finds no row if the profile was deleted meanwhile.
SaveCustomer(r) ==
  /\ At(r, "checkout", "save")
  /\ LET u == request[r].user IN
       customer' = IF u \in auth THEN [customer EXCEPT ![u] = request[r].saw] ELSE customer
  /\ GoOn(r, "session", request[r].saw)
  /\ UNCHANGED <<auth, inviteVars, customers, sessions, subs, events, crossed, googleVars>>

CreateSession(r) ==
  /\ At(r, "checkout", "session")
  /\ sessions' = sessions \union {[user |-> request[r].user, customer |-> request[r].saw]}
  /\ End(r)
  /\ UNCHANGED <<auth, inviteVars, customer, customers, subs, events, crossed, googleVars>>

\* The user pays at Stripe, which sends an event.
Pay(s) ==
  /\ s \in sessions
  /\ sessions' = sessions \ {s}
  /\ subs' = subs \union {s}
  /\ events' = events \union {s}
  /\ UNCHANGED <<auth, inviteVars, customer, customers, crossed, googleVars, request, bounds>>

\* handleCheckoutCompleted: the session names the user.  Events come in any
\* order.
LinkCustomer(e) ==
  /\ e \in events
  /\ events' = events \ {e}
  /\ customer' = IF e.user \in auth THEN [customer EXCEPT ![e.user] = e.customer]
                 ELSE customer
  /\ UNCHANGED <<auth, inviteVars, customers, sessions, subs, crossed, googleVars,
                 request, bounds>>

\* The customer whose subscriptions the user manages in the portal, or 0: the
\* request is refused.
Portal(u) == customer[u]

-----------------------------------------------------------------------------
(* The connection to Google. *)

\* A user may hold several states; the model counts whether there is one.
Authorize(u) ==
  /\ u \in auth \ states
  /\ states' = states \union {u}
  /\ UNCHANGED <<auth, inviteVars, stripeVars, connection, grants, revoked,
                 wanted, overtaken, request, bounds>>

StateExpires(u) ==
  /\ u \in states
  /\ states' = states \ {u}
  /\ UNCHANGED <<auth, inviteVars, stripeVars, connection, grants, revoked,
                 wanted, overtaken, request, bounds>>

\* The browser comes back from Google: the state is consumed by one update.
Callback(r, u) ==
  /\ u \in states
  /\ request[r] = Idle
  /\ left > 0 /\ left' = left - 1 /\ UNCHANGED faults
  /\ request' = [request EXCEPT ![r] = [Idle EXCEPT !.kind = "connect", !.user = u,
                                                  !.at = "exchange"]]
  /\ states' = states \ {u}
  /\ UNCHANGED <<auth, inviteVars, stripeVars, connection, grants, revoked,
                 wanted, overtaken>>

\* The code is exchanged; each consent has tokens of its own.
Exchange(r) ==
  /\ At(r, "connect", "exchange")
  /\ grants < MaxGrants /\ grants' = grants + 1
  /\ GoOn(r, "store", grants + 1)
  /\ UNCHANGED <<auth, inviteVars, stripeVars, states, connection, revoked,
                 wanted, overtaken>>

\* WRONG variant: a table without the foreign key.
StoreAnyway(u, grant) ==
  connection' = [connection EXCEPT ![u] = [grant |-> grant, fresh |-> TRUE]]

\* An upsert, which the foreign key refuses for a user who is gone.
StoreTokens(u, grant) ==
  connection' = IF u \in auth THEN [connection EXCEPT ![u] = [grant |-> grant, fresh |-> TRUE]]
                ELSE connection

StoreConnection(r) ==
  /\ At(r, "connect", "store")
  /\ LET u == request[r].user IN
       /\ StoreTokens(u, request[r].saw)
       /\ wanted' = [wanted EXCEPT ![u] = IF u \in auth THEN request[r].saw ELSE 0]
       /\ overtaken' = overtaken \ {u}
  /\ End(r)
  /\ UNCHANGED <<auth, inviteVars, stripeVars, states, grants, revoked>>

\* getValidGoogleTokens, by a route that uses the tokens or by the one that
\* reports on them: tokens that have expired are refreshed.
ReadTokens(r, u, kind) ==
  /\ connection[u] # NoRow /\ ~connection[u].fresh
  /\ Begin(r, u, kind, "refresh", connection[u].grant, {})
  /\ UNCHANGED <<auth, inviteVars, stripeVars, googleVars>>

Refresh(r) ==
  /\ request[r].at = "refresh" /\ request[r].saw \notin revoked
  /\ GoOn(r, "store refreshed", request[r].saw)
  /\ UNCHANGED <<auth, inviteVars, stripeVars, googleVars>>

\* The user's connection is not the one the request has read.
Stale(r) == connection[request[r].user].grant # request[r].saw

\* What was read, with the new access token, is stored over what is there.
StoreRefreshed(r) ==
  /\ request[r].at = "store refreshed"
  /\ LET u == request[r].user IN
       /\ StoreTokens(u, request[r].saw)
       /\ overtaken' = IF Stale(r) THEN overtaken \union {u} ELSE overtaken
  /\ End(r)
  /\ UNCHANGED <<auth, inviteVars, stripeVars, states, grants, revoked, wanted>>

\* WRONG variant: whatever has expired is taken for lost, without an error.
RefreshFailsAndRemoves(r) ==
  /\ request[r].at = "refresh"
  /\ GoOn(r, "remove", request[r].saw)
  /\ UNCHANGED <<auth, inviteVars, stripeVars, googleVars>>

\* Google refuses, or fails: the reporting route takes the connection for lost.
RefreshFails(r) ==
  /\ request[r].at = "refresh"
  /\ LET goesOn == request[r].kind = "report" IN
       /\ request' = [request EXCEPT ![r] = IF goesOn THEN [@ EXCEPT !.at = "remove"]
                                            ELSE Idle]
       /\ IF request[r].saw \in revoked THEN UNCHANGED bounds ELSE Spare
  /\ UNCHANGED <<auth, inviteVars, stripeVars, googleVars>>

RemoveTokens(u) == connection' = [connection EXCEPT ![u] = NoRow]

RemoveLost(r) ==
  /\ request[r].at = "remove"
  /\ LET u == request[r].user IN
       /\ RemoveTokens(u)
       /\ overtaken' = IF Stale(r) THEN overtaken \union {u} ELSE overtaken
  /\ End(r)
  /\ UNCHANGED <<auth, inviteVars, stripeVars, states, grants, revoked, wanted>>

Disconnect(u) ==
  /\ u \in auth /\ connection[u] # NoRow
  /\ RemoveTokens(u)
  /\ wanted' = [wanted EXCEPT ![u] = 0]
  /\ overtaken' = overtaken \ {u}
  /\ UNCHANGED <<auth, inviteVars, stripeVars, states, grants, revoked,
                 request, bounds>>

TokenExpires(u) ==
  /\ connection[u].fresh
  /\ connection' = [connection EXCEPT ![u].fresh = FALSE]
  /\ UNCHANGED <<auth, inviteVars, stripeVars, states, grants, revoked,
                 wanted, overtaken, request, bounds>>

\* The user withdraws the consent in the Google account.
Revoke(g) ==
  /\ g \in 1 .. grants /\ g \notin revoked
  /\ revoked' = revoked \union {g}
  /\ UNCHANGED <<auth, inviteVars, stripeVars, states, connection, grants,
                 wanted, overtaken, request, bounds>>

-----------------------------------------------------------------------------
(* Deletion. *)

BeginDeletion(r, u) ==
  /\ Begin(r, u, "delete", "rows", 0, Tables)
  /\ UNCHANGED <<auth, inviteVars, stripeVars, googleVars>>

\* The queries of Promise.all, in any order.
DeleteRows(r, t) ==
  /\ At(r, "delete", "rows") /\ t \in request[r].todo
  /\ LET u == request[r].user IN
       /\ connection' = IF t = "google_sheets_tokens"
                        THEN [connection EXCEPT ![u] = NoRow] ELSE connection
       /\ wanted' = IF t = "google_sheets_tokens" THEN [wanted EXCEPT ![u] = 0] ELSE wanted
       /\ states' = IF t = "oauth_states" THEN states \ {u} ELSE states
       /\ waiting' = IF t = "waitlist" THEN [waiting EXCEPT ![u] = "none"] ELSE waiting
  /\ request' = [request EXCEPT ![r].todo = @ \ {t}]
  /\ UNCHANGED <<auth, invite, redeemedBy, redeemers, stripeVars, grants,
                 revoked, overtaken, bounds>>

\* The auth user goes, and by the foreign keys whatever rows there are again;
\* a code keeps its row without a redeemer.
DeleteUser(r) ==
  /\ At(r, "delete", "rows") /\ request[r].todo = {}
  /\ LET u == request[r].user IN
       /\ auth' = auth \ {u}
       /\ redeemedBy' = [c \in Codes |-> IF redeemedBy[c] = u THEN NoUser
                                         ELSE redeemedBy[c]]
       /\ waiting' = [waiting EXCEPT ![u] = "none"]
       /\ states' = states \ {u}
       /\ RemoveTokens(u)
       /\ wanted' = [wanted EXCEPT ![u] = 0]
  /\ End(r)
  /\ UNCHANGED <<invite, redeemers, stripeVars, grants, revoked, overtaken>>

Next ==
  \/ \E u \in Users :
       \/ JoinWaitlist(u) \/ Authorize(u) \/ StateExpires(u)
       \/ Disconnect(u) \/ TokenExpires(u)
  \/ \E c \in Codes : IssueInvite(c) \/ InviteExpires(c)
  \/ \E r \in Requests, u \in Users :
       \/ \E c \in Codes : Redeem(r, u, c)
       \/ BeginCheckout(r, u) \/ Callback(r, u) \/ BeginDeletion(r, u)
       \/ \E kind \in {"use", "report"} : ReadTokens(r, u, kind)
  \/ \E r \in Requests :
       \/ MarkInvited(r)
       \/ ReadCustomer(r) \/ CreateCustomer(r) \/ SaveCustomer(r) \/ CreateSession(r)
       \/ Exchange(r) \/ StoreConnection(r)
       \/ Refresh(r) \/ StoreRefreshed(r) \/ RefreshFails(r) \/ RemoveLost(r)
       \/ (\E t \in Tables : DeleteRows(r, t)) \/ DeleteUser(r)
       \/ Throw(r)
  \/ \E s \in sessions : Pay(s)
  \/ \E e \in events : LinkCustomer(e)
  \/ \E g \in 1 .. grants : Revoke(g)

Spec == Init /\ [][Next]_vars

-----------------------------------------------------------------------------
(* Properties. *)

TypeOK ==
  /\ auth \subseteq Users
  /\ customer \in [Users -> 0 .. Len(customers)]
  /\ invite \in [Codes -> {"none", "valid", "expired"}]
  /\ redeemedBy \in [Codes -> Users \union {NoUser}]
  /\ waiting \in [Users -> {"none", "waiting", "invited"}]
  /\ states \subseteq Users
  /\ connection \in [Users -> [grant : 0 .. grants, fresh : BOOLEAN]]
  /\ revoked \subseteq 1 .. grants
  /\ wanted \in [Users -> 0 .. grants]

\* Of the users who ever redeemed a code all but one are gone, however requests
\* cross: a code is spent once, and again only after its redeemer's deletion.
InvitesAreSpentOnce ==
  \A c \in Codes : \A u, v \in redeemers[c] : u # v => {u, v} \ auth # {}

\* Whatever order checkouts, errors and webhooks come in, a user who pays finds
\* the subscription in the portal, unless two checkouts made a customer each.
PortalReaches ==
  \A s \in subs : s.user \in auth \ crossed => Portal(s.user) = s.customer

\* The row holds the connection the user made last, and none after the user
\* disconnected; it is lost only with its consent or by an error.  Except that
\* a refresh that was under way meanwhile puts back what it had read, or
\* removes what it had not.
ConnectionIsLast ==
  \A u \in auth \ overtaken :
    \/ connection[u].grant = wanted[u]
    \/ connection[u] = NoRow /\ (wanted[u] \in revoked \/ faults > 0)

\* Nothing of a deleted user is left or comes back, whatever requests of the
\* user were under way.
DeletedLeavesNothing ==
  \A u \in Users \ auth :
    /\ connection[u] = NoRow /\ u \notin states
    /\ waiting[u] = "none" /\ ~Invited(u)
=============================================================================
