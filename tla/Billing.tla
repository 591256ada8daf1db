------------------------------ MODULE Billing ------------------------------
(***************************************************************************)
(* A user's subscription: the Stripe webhook                               *)
(* (backend/lib/stripeWebhookHandlers.js), the tier it resolves            *)
(* (backend/lib/entitlements.js), the sweep that ends the grace period     *)
(* (backend/lib/entitlementSweeps.js), and the Plaid items that both       *)
(* suspend and restore (PlaidLifecycle).                                   *)
(*                                                                         *)
(* Stripe tells of each change of the subscription by events that carry    *)
(* the subscription as it was then.  It may deliver them in any order and  *)
(* more than once, and goes on until a delivery is answered with success.  *)
(*                                                                         *)
(* The price is one of the catalogue, of one paid tier, and the events     *)
(* name their user; checkout.session.completed only records identifiers.   *)
(* Days do not pass while an event or a sweep is being handled.  The       *)
(* retention sweep, which only takes items away that are suspended, is     *)
(* left to PlaidLifecycle.                                                 *)
(***************************************************************************)
EXTENDS PlaidLifecycle, Sequences

CONSTANTS
  Handlers,     \* requests that deliver an event
  GraceSweeps,  \* runs of the grace sweep for the user
  GraceDays,    \* GRACE_PERIOD_DAYS
  MaxChanges    \* how often the subscription changes (bound)

Actors == Handlers \union GraceSweeps

\* They are who suspends and restores the user.
ASSUME BillingAssumption ==
  /\ Tasks = Actors
  /\ Handlers \intersect GraceSweeps = {}
  /\ GraceDays \in Nat \ {0}
  /\ MaxChanges \in Nat

VARIABLES
  subscription,  \* the status of the subscription at Stripe
  events,        \* the events about it, in the order they happened
  outcome,       \* outcome[e]: column outcome of stripe_events, "absent" without a row
  status,        \* profiles.subscription_status
  tier,          \* profiles.plan_tier
  grace,         \* days left until profiles.grace_expires_at, or NoGrace
  stage,         \* stage[p]: where handler or grace sweep p is
  event,         \* event[h]: the event handler h is at
  read,          \* read[h]: the profile as h read it
  applied,       \* the last event of those whose effect is in the profile
  disorder,      \* an event was applied after a later one
  overtaken,     \* a clock was cleared that another handler had read and yet to use
  crossed,       \* a tier was written by one who had not seen another's writing
                 \* of it, or whose items another was still about to go through
  late           \* a sweep downgraded a user who had paid since it was listed

profile == <<status, tier, grace>>
order == <<applied, disorder, overtaken>>
plaidVars == vars
billingVars == <<subscription, events, outcome, profile, stage, event, read,
                 order, crossed, late, plaidVars>>

\* grace_expires_at is null.
NoGrace == GraceDays + 1

\* The kinds of events, and the status that those of a subscription carry.
Failed == [type |-> "invoice.payment_failed", status |-> "none"]
Paid == [type |-> "invoice.paid", status |-> "none"]
Changed(s) == [type |-> "customer.subscription", status |-> s]

\* No profile was read.
Unread == [status |-> "none", tier |-> "none", grace |-> NoGrace]

BillingInit ==
  /\ subscription = "active"
  /\ events = <<>>
  /\ outcome = [e \in 1 .. 2 * MaxChanges |-> "absent"]
  /\ status = "active"
  /\ tier = "paid"
  /\ grace = NoGrace
  /\ stage = [p \in Actors |-> "idle"]
  /\ event = [h \in Handlers |-> 0]
  /\ read = [h \in Handlers |-> Unread]
  /\ applied = 0
  /\ disorder = FALSE
  /\ overtaken = FALSE
  /\ crossed = FALSE
  /\ late = FALSE
  /\ Init

-----------------------------------------------------------------------------
(***************************************************************************)
(* Stripe.                                                                 *)
(***************************************************************************)

\* What Stripe sends when the subscription goes from one status to another.
EventsOf(s) ==
  CASE s = "past_due" -> <<Failed, Changed(s)>>
    [] s = "active"   -> <<Paid, Changed(s)>>
    [] s = "canceled" -> <<Changed(s)>>

SubscriptionChanges(s) ==
  /\ Len(events) <= 2 * MaxChanges - 2
  /\ s # subscription
  /\ subscription = "canceled" => s = "active"
  /\ subscription' = s
  /\ events' = events \o EventsOf(s)
  /\ UNCHANGED <<outcome, profile, stage, event, read, order, crossed, late, plaidVars>>

-----------------------------------------------------------------------------
(***************************************************************************)
(* A delivery.                                                             *)
(***************************************************************************)

GoTo(p, s) == stage' = [stage EXCEPT ![p] = s]

\* The handler has ended.
Forget(h) ==
  /\ event' = [event EXCEPT ![h] = 0]
  /\ read' = [read EXCEPT ![h] = Unread]

\* The event is recorded, before anything is done about it.
Receive(h, e) ==
  /\ stage[h] = "idle"
  /\ outcome[e] = "absent"
  /\ outcome' = [outcome EXCEPT ![e] = "received"]
  /\ event' = [event EXCEPT ![h] = e]
  /\ GoTo(h, "received")
  /\ UNCHANGED <<subscription, events, profile, read, order, crossed, late, plaidVars>>

\* It was recorded before, whatever became of it: success is answered.
Replay(e) ==
  /\ outcome[e] # "absent"
  /\ UNCHANGED billingVars

\* The profile is read.
LoadProfile(h) ==
  /\ stage[h] = "received" /\ events[event[h]].type # "invoice.paid"
  /\ read' = [read EXCEPT ![h] = [status |-> status, tier |-> tier, grace |-> grace]]
  /\ GoTo(h, "loaded")
  /\ UNCHANGED <<subscription, events, outcome, profile, event, order, crossed, late,
                 plaidVars>>

\* WRONG variant: every payment failure starts a grace period.
GraceRestarts(r) == GraceDays

\* The grace period of a profile that enters past_due or is there already.
GraceOf(r) ==
  IF r.status = "past_due" /\ r.grace # NoGrace THEN r.grace ELSE GraceDays

\* resolveTierFromSubscription.
TierOf(s, g) ==
  IF s = "active" \/ (s = "past_due" /\ g \notin {0, NoGrace}) THEN "paid" ELSE "free"

\* The changed tier has something done about the user's items, by p.
AfterTier(p, before, after) ==
  GoTo(p, CASE before = after -> "done"
            [] before # after /\ after = "free" -> "suspend"
            [] before # after /\ after = "paid" -> "restore")

\* Somebody else wrote the tier and is not through with the items yet.
Unsettled(p) == \E q \in Actors \ {p} : stage[q] \in {"suspend", "restore", "looping"}

\* Handler h has written the profile.
Apply(h) ==
  /\ applied' = IF event[h] > applied THEN event[h] ELSE applied
  /\ disorder' = (disorder \/ event[h] < applied)
  /\ overtaken' =
       \/ overtaken
       \/ grace' = NoGrace /\ \E k \in Handlers \ {h} : stage[k] = "loaded"

\* WRONG variant: the tier before is the one just written.
ApplyChangedNoTransition(h) ==
  /\ stage[h] = "loaded" /\ events[event[h]].type = "customer.subscription"
  /\ status' = events[event[h]].status
  /\ grace' = IF status' = "past_due" THEN GraceOf(read[h]) ELSE NoGrace
  /\ tier' = TierOf(status', grace')
  /\ AfterTier(h, tier', tier')
  /\ crossed' = (crossed \/ read[h].tier # tier \/ Unsettled(h))
  /\ Apply(h)
  /\ UNCHANGED <<subscription, events, outcome, event, read, late, plaidVars>>

\* WRONG variant: the grace period survives the recovery.
ApplyChangedKeepsGrace(h) ==
  /\ stage[h] = "loaded" /\ events[event[h]].type = "customer.subscription"
  /\ status' = events[event[h]].status
  /\ grace' = GraceOf(read[h])
  /\ tier' = TierOf(status', grace')
  /\ AfterTier(h, read[h].tier, tier')
  /\ crossed' = (crossed \/ read[h].tier # tier \/ Unsettled(h))
  /\ Apply(h)
  /\ UNCHANGED <<subscription, events, outcome, event, read, late, plaidVars>>

\* customer.subscription.created, updated, deleted: the status is the one the
\* event carries, the grace period depends on the profile as it was read.
ApplyChanged(h) ==
  /\ stage[h] = "loaded" /\ events[event[h]].type = "customer.subscription"
  /\ status' = events[event[h]].status
  /\ grace' = IF status' = "past_due" THEN GraceOf(read[h]) ELSE NoGrace
  /\ tier' = TierOf(status', grace')
  /\ AfterTier(h, read[h].tier, tier')
  /\ crossed' = (crossed \/ read[h].tier # tier \/ Unsettled(h))
  /\ Apply(h)
  /\ UNCHANGED <<subscription, events, outcome, event, read, late, plaidVars>>

\* invoice.payment_failed: past_due, with the tier as it is.
ApplyFailed(h) ==
  /\ stage[h] = "loaded" /\ events[event[h]].type = "invoice.payment_failed"
  /\ status' = "past_due"
  /\ grace' = GraceOf(read[h])
  /\ GoTo(h, "done")
  /\ Apply(h)
  /\ UNCHANGED <<subscription, events, outcome, tier, event, read, crossed, late,
                 plaidVars>>

\* invoice.paid: the grace period is cleared, with the status as it is.  The
\* profile is not read.
ApplyPaid(h) ==
  /\ stage[h] = "received" /\ events[event[h]].type = "invoice.paid"
  /\ grace' = NoGrace
  /\ GoTo(h, "done")
  /\ Apply(h)
  /\ UNCHANGED <<subscription, events, outcome, status, tier, event, read, crossed,
                 late, plaidVars>>

\* The outcome is recorded and success answered.
Acknowledge(h) ==
  /\ stage[h] = "done"
  /\ outcome' = [outcome EXCEPT ![event[h]] = "processed"]
  /\ Forget(h)
  /\ GoTo(h, "idle")
  /\ UNCHANGED <<subscription, events, profile, order, crossed, late, plaidVars>>

-----------------------------------------------------------------------------
(***************************************************************************)
(* The grace sweep.                                                        *)
(***************************************************************************)

\* The user is in the list: past_due, out of grace, and not downgraded yet.
List(g) ==
  /\ stage[g] = "idle"
  /\ status = "past_due" /\ grace = 0 /\ tier # "free"
  /\ GoTo(g, "listed")
  /\ UNCHANGED <<subscription, events, outcome, profile, event, read, order, crossed,
                 late, plaidVars>>

\* The tier is written whatever became of the profile since it was listed.
Downgrade(g) ==
  /\ stage[g] = "listed"
  /\ tier' = "free"
  /\ GoTo(g, "suspend")
  /\ crossed' = (crossed \/ Unsettled(g))
  /\ late' = (late \/ status = "active")
  /\ UNCHANGED <<subscription, events, outcome, status, grace, event, read, order,
                 plaidVars>>

-----------------------------------------------------------------------------
(***************************************************************************)
(* What a change of the tier does to the items.                            *)
(***************************************************************************)

untouched ==
  <<subscription, events, outcome, profile, event, read, order,
    crossed, late>>

StartLoop(p) ==
  /\ \/ stage[p] = "suspend" /\ StartSuspend(p)
     \/ stage[p] = "restore" /\ StartRestore(p)
  /\ GoTo(p, "looping")
  /\ UNCHANGED untouched

LoopStep(p) ==
  /\ \/ \E i \in Items : Suspend(p, i) \/ Restore(p, i)
     \/ CatchUp(p)
  /\ UNCHANGED <<stage, untouched>>

EndLoop(p) ==
  /\ Finish(p)
  /\ GoTo(p, IF p \in Handlers THEN "done" ELSE "idle")
  /\ UNCHANGED untouched

-----------------------------------------------------------------------------
(***************************************************************************)
(* Errors and crashes.                                                     *)
(***************************************************************************)

\* The error or crash ends what p was doing, in a loop or outside of one.
Stop(p) ==
  /\ stage[p] # "idle"
  /\ GoTo(p, "idle")
  /\ \/ Abandon(p)
     \/ /\ task[p] = "none"
        /\ faults < MaxFaults /\ faults' = faults + 1
        /\ UNCHANGED <<rows, live, behind, loops, history>>

\* Some query of handler h throws: the event is marked as an error and
\* failure answered; or the process stops, and the event stays received.
Throw(h) ==
  /\ Stop(h)
  /\ \/ stage[h] # "done" /\ outcome' = [outcome EXCEPT ![event[h]] = "error"]
     \/ UNCHANGED outcome
  /\ Forget(h)
  /\ UNCHANGED <<subscription, events, profile, order, crossed, late>>

\* The sweep logs the error and has no more users.
SweepThrows(g) == Stop(g) /\ UNCHANGED untouched

-----------------------------------------------------------------------------
(***************************************************************************)
(* Time.                                                                   *)
(***************************************************************************)

AtRest == \A p \in Actors : stage[p] = "idle"

DayPasses ==
  /\ AtRest
  /\ grace' = IF grace \in {0, NoGrace} THEN grace ELSE grace - 1
  /\ Tick
  /\ UNCHANGED <<subscription, events, outcome, status, tier, stage, event, read,
                 order, crossed, late>>

HandlerStep(h) ==
  \/ LoadProfile(h)
  \/ ApplyChanged(h) \/ ApplyFailed(h) \/ ApplyPaid(h)
  \/ StartLoop(h) \/ LoopStep(h) \/ EndLoop(h)
  \/ Acknowledge(h)

GraceStep(g) == List(g) \/ Downgrade(g) \/ StartLoop(g) \/ LoopStep(g) \/ EndLoop(g)

BillingNext ==
  \/ \E s \in {"active", "past_due", "canceled"} : SubscriptionChanges(s)
  \/ \E e \in DOMAIN events : Replay(e) \/ \E h \in Handlers : Receive(h, e)
  \/ \E h \in Handlers : HandlerStep(h) \/ Throw(h)
  \/ \E g \in GraceSweeps : GraceStep(g) \/ SweepThrows(g)
  \/ DayPasses

\* Stripe delivers each event until it is acknowledged; handlers and sweeps go
\* on; days pass.
BillingFairness ==
  /\ \A e \in 1 .. 2 * MaxChanges :
       WF_billingVars(e \in DOMAIN events /\ \E h \in Handlers : Receive(h, e))
  /\ \A h \in Handlers : WF_billingVars(HandlerStep(h))
  /\ \A g \in GraceSweeps : WF_billingVars(GraceStep(g))
  /\ WF_billingVars(DayPasses)

BillingSpec == BillingInit /\ [][BillingNext]_billingVars
BillingFairSpec == BillingSpec /\ BillingFairness

-----------------------------------------------------------------------------
(***************************************************************************)
(* Properties.                                                             *)
(***************************************************************************)

BillingTypeOK ==
  /\ \A e \in DOMAIN outcome :
       /\ outcome[e] \in {"absent", "received", "processed", "error"}
       /\ outcome[e] # "absent" => e \in DOMAIN events
  /\ status \in {"active", "past_due", "canceled"}
  /\ tier \in {"paid", "free"}
  /\ grace \in 0 .. NoGrace
  /\ \A h \in Handlers : event[h] = 0 <=> stage[h] = "idle"
  /\ \A p \in Actors : task[p] # "none" => stage[p] = "looping"
  /\ TypeOK

Unhampered == faults = 0 /\ ~crossed

\* The items are suspended exactly when the user is on the free tier, whatever
\* the order of the events and however they interleave with one another and
\* with the sweeps, unless two writings of the tier crossed.
ItemsFollowTier ==
  AtRest /\ Unhampered => \A i \in token : i \in suspended <=> tier = "free"

\* Once all events are handled, in the order they happened, the profile says
\* what Stripe says, with duplicates and interleaved handlers, but for a sweep
\* that came late.
ProfileFollowsStripe ==
  /\ AtRest /\ faults = 0 /\ ~disorder
  /\ \A e \in DOMAIN events : outcome[e] = "processed"
  => /\ status = subscription
     /\ subscription = "active" => grace = NoGrace /\ (tier = "paid" \/ late)
     /\ subscription = "canceled" => tier = "free"

\* The 7-day clock starts once: while the user stays past_due it runs down or
\* is cleared, whichever of the events that start it come, how often and in
\* which order, unless a handler went on with a clock that another had cleared.
GraceNeverExtended ==
  [][status = "past_due" /\ status' = "past_due" /\ grace # NoGrace /\ ~overtaken'
     => grace' \in 0 .. grace \union {NoGrace}]_billingVars

\* Each event is handled in the end, who stays past_due is downgraded, and who
\* pays has the paid tier and all items again: unless an error lost an event,
\* which Stripe's retry does not bring back, an event out of order lost the
\* clock, or a late sweep or two handlers that crossed came in between.
EventsHandled ==
  \A e \in 1 .. 2 * MaxChanges :
    e \in DOMAIN events ~> outcome[e] = "processed" \/ faults > 0

UnpaidIsDowngraded ==
  subscription = "past_due" ~>
    (tier = "free" \/ subscription # "past_due" \/ faults > 0 \/ disorder)

PaidIsRestored ==
  subscription = "active" ~>
    \/ tier = "paid" /\ suspended = {}
    \/ subscription # "active" \/ ~Unhampered \/ disorder \/ late

EventsTakeEffect == EventsHandled /\ UnpaidIsDowngraded /\ PaidIsRestored
=============================================================================
