---------------------------- MODULE ProviderEvents ----------------------------
(* Durable provider events (providers.ts) and their reviewed recovery        *)
(* (stripe-event-recovery.ts): one billing customer whose subscription       *)
(* changes at Stripe, each change announced by an event, and one received    *)
(* email. Events arrive late, twice and out of order. Workers claim them     *)
(* under leases, process every part of them, and settle them.                *)
EXTENDS Naturals, Sequences, FiniteSets

CONSTANTS
  Couriers,           \* concurrent invocations of tickProviders
  MaxChanges,         \* bound on the changes at the provider
  WithCheckout,       \* the changes whose event completes a Checkout
  Routes,             \* the routes the email was delivered to
  MaxEventAttempts,   \* attempts before an event is failed (5 in the code)
  MaxReviews,         \* bound on the inspections operators act on
  MaxYields           \* bound on invocations whose budget ends

ASSUME EventsAssumption ==
  /\ MaxChanges \in Nat /\ WithCheckout \subseteq 1..MaxChanges
  /\ MaxEventAttempts \in Nat \ {0} /\ {MaxReviews, MaxYields} \subseteq Nat

VARIABLES
  provider,     \* whose events these are, "stripe" or "resend": fixed
  changed,      \* changes made at the provider; its current state is known by their number
  inbox,        \* events as stored, by created_at
  event,        \* provider_events: [status, attempts, lease, token]; token 0 is NULL
  claimed,      \* claims of each event: the source of tokens
  applied,      \* the provider state that subscriptions and workspaces.plan reflect
  evidence,     \* events with a row in checkout_contract_receipts
  received,     \* items with a row in intake_events
  closedRoutes, \* routes disabled, or whose parser is archived
  customerLock, \* who holds the subscriptions row FOR UPDATE, a set
  courier,      \* a worker: [at, event, token, todo, failed, seen]
  reviews,      \* inspections an operator may act on: <<event, digest>>
  generation,   \* recoveries of each event in audit_events
  spent,        \* attempts each event has used up, over all its budgets
  reviewed,     \* the failures, by number of claims, an operator has inspected
  yields

providerVars == <<provider, changed, closedRoutes>>
effectVars == <<applied, evidence, received>>
operatorVars == <<reviews, generation, reviewed>>
eventsVars ==
  <<providerVars, inbox, event, claimed, effectVars, customerLock, courier, operatorVars, spent, yields>>

Email == 0
Events == 0..MaxChanges
Items == Routes \X {"body", "attachment"}
Route(i) == i[1]
Reconciling == <<"stripe", "reconcile">>
Capturing == <<"stripe", "capture">>
Idle == [at |-> "idle", event |-> Email, token |-> 0, todo |-> {}, failed |-> FALSE, seen |-> 0]
Fresh == [status |-> "absent", attempts |-> 0, lease |-> "none", token |-> 0]

EventsInit ==
  /\ provider \in {"stripe", "resend"} /\ changed = 0 /\ closedRoutes = {} /\ inbox = <<>>
  /\ event = [e \in Events |-> Fresh] /\ claimed = [e \in Events |-> 0]
  /\ applied = 0 /\ evidence = {} /\ received = {}
  /\ customerLock = {} /\ courier = [w \in Couriers |-> Idle]
  /\ reviews = {} /\ generation = [e \in Events |-> 0] /\ reviewed = [e \in Events |-> {}]
  /\ spent = [e \in Events |-> 0] /\ yields = 0

(***************************************************************************)
(* The providers, and the webhooks.                                        *)
(***************************************************************************)
ChangeSubscription ==
  /\ provider = "stripe" /\ changed < MaxChanges /\ changed' = changed + 1
  /\ UNCHANGED <<provider, closedRoutes, inbox, event, claimed, effectVars, customerLock, courier, operatorVars, spent, yields>>

CloseRoute(r) ==
  /\ provider = "resend" /\ r \notin closedRoutes /\ closedRoutes' = closedRoutes \cup {r}
  /\ UNCHANGED <<provider, changed, inbox, event, claimed, effectVars, customerLock, courier, operatorVars, spent, yields>>

\* storeProviderEvent: on conflict do nothing.
StoreEvent(e) ==
  /\ IF provider = "resend" THEN e = Email ELSE e \in 1..changed
  /\ event[e].status = "absent"
  /\ event' = [event EXCEPT ![e].status = "queued"] /\ inbox' = Append(inbox, e)
  /\ UNCHANGED <<providerVars, claimed, effectVars, customerLock, courier, operatorVars, spent, yields>>

(***************************************************************************)
(* tickProviders.                                                          *)
(***************************************************************************)
Exhausted(e) ==
  event[e].status = "processing" /\ event[e].lease = "expired" /\ event[e].attempts >= MaxEventAttempts

FailExhaustedEvents ==
  /\ \E e \in Events : Exhausted(e)
  /\ event' = [e \in Events |->
       IF Exhausted(e) THEN [event[e] EXCEPT !.status = "failed", !.lease = "none", !.token = 0] ELSE event[e]]
  /\ UNCHANGED <<providerVars, inbox, claimed, effectVars, customerLock, courier, operatorVars, spent, yields>>

\* Backoffs are any length of time.
Claimable(e) ==
  /\ event[e].attempts < MaxEventAttempts
  /\ event[e].status \in {"queued", "retry"} \/ (event[e].status = "processing" /\ event[e].lease = "expired")

\* What an event asks for: of an email, the items of the routes that are open.
PartsOf(e) ==
  IF e = Email THEN {i \in Items : Route(i) \notin closedRoutes}
  ELSE {Reconciling} \cup (IF e \in WithCheckout THEN {Capturing} ELSE {})

\* The oldest that can be claimed; an email is retrieved first.
ClaimEvent(w) == \E k \in DOMAIN inbox :
  LET e == inbox[k]
  IN /\ courier[w].at = "idle" /\ Claimable(e) /\ \A j \in 1..(k - 1) : ~Claimable(inbox[j])
     /\ claimed' = [claimed EXCEPT ![e] = @ + 1] /\ spent' = [spent EXCEPT ![e] = @ + 1]
     /\ event' = [event EXCEPT ![e] = [status |-> "processing", attempts |-> @.attempts + 1,
                                       lease |-> "live", token |-> claimed'[e]]]
     /\ courier' = [courier EXCEPT ![w] =
          [at |-> IF e = Email THEN "claimed" ELSE "working", event |-> e, token |-> claimed'[e],
           todo |-> IF e = Email THEN {} ELSE PartsOf(e), failed |-> FALSE, seen |-> 0]]
     /\ UNCHANGED <<providerVars, inbox, effectVars, customerLock, operatorVars, yields>>

Owns(w) == event[courier[w].event].token = courier[w].token

RenewLease(w) ==
  /\ courier[w].at # "idle" /\ Owns(w) /\ event[courier[w].event].lease = "expired"
  /\ event' = [event EXCEPT ![courier[w].event].lease = "live"]
  /\ UNCHANGED <<providerVars, inbox, claimed, effectVars, customerLock, courier, operatorVars, spent, yields>>

ExpireLease(e) ==
  /\ event[e].lease = "live" /\ event' = [event EXCEPT ![e].lease = "expired"]
  /\ UNCHANGED <<providerVars, inbox, claimed, effectVars, customerLock, courier, operatorVars, spent, yields>>

RetrieveEmail(w) ==
  /\ courier[w].at = "claimed"
  /\ \/ courier' = [courier EXCEPT ![w].at = "working", ![w].todo = PartsOf(Email)]
     \/ courier' = [courier EXCEPT ![w].at = "settling", ![w].failed = TRUE]
  /\ UNCHANGED <<providerVars, inbox, event, claimed, effectVars, customerLock, operatorVars, spent, yields>>

Tried(w, part, ok) ==
  courier' = [courier EXCEPT ![w].todo = @ \ {part}, ![w].failed = @ \/ ~ok, ![w].seen = 0]

\* captureCheckoutCompletion; a failure is remembered while the other part goes on.
Capture(w) ==
  /\ courier[w].at = "working" /\ Capturing \in courier[w].todo
  /\ \/ evidence' = evidence \cup {courier[w].event} /\ Tried(w, Capturing, TRUE)
     \/ UNCHANGED evidence /\ Tried(w, Capturing, FALSE)
  /\ UNCHANGED <<providerVars, inbox, event, claimed, applied, received, customerLock, operatorVars, spent, yields>>

\* reconcileStripeCustomer: the row lock, then the list at the provider, then the writes.
LockCustomer(w) ==
  /\ courier[w].at = "working" /\ Reconciling \in courier[w].todo /\ customerLock = {}
  /\ customerLock' = {w}
  /\ UNCHANGED <<providerVars, inbox, event, claimed, effectVars, courier, operatorVars, spent, yields>>

\* The list is requested before the lock is held.
AnyTime(w) == TRUE

MayList(w) == w \in customerLock

ListSubscriptions(w) ==
  /\ courier[w].at = "working" /\ Reconciling \in courier[w].todo /\ courier[w].seen = 0 /\ MayList(w)
  /\ courier' = [courier EXCEPT ![w].seen = changed]
  /\ UNCHANGED <<providerVars, inbox, event, claimed, effectVars, customerLock, operatorVars, spent, yields>>

WritePlan(w) ==
  /\ w \in customerLock /\ courier[w].seen # 0
  /\ applied' = courier[w].seen /\ customerLock' = {} /\ Tried(w, Reconciling, TRUE)
  /\ UNCHANGED <<providerVars, inbox, event, claimed, evidence, received, operatorVars, spent, yields>>

ReconcileFails(w) ==
  /\ courier[w].at = "working" /\ Reconciling \in courier[w].todo
  /\ customerLock' = customerLock \ {w} /\ Tried(w, Reconciling, FALSE)
  /\ UNCHANGED <<providerVars, inbox, event, claimed, effectVars, operatorVars, spent, yields>>

\* processResendEvent: an item with a receipt is not decoded again. Acceptance and permanent
\* rejection leave one; a failure may hide either, and leaves the other items their turn.
TakeItem(w, i) ==
  /\ courier[w].at = "working" /\ i \in courier[w].todo \cap Items
  /\ \/ received' = received \cup {i} /\ \E ok \in BOOLEAN : (i \in received => ok) /\ Tried(w, i, ok)
     \/ i \notin received /\ UNCHANGED received /\ Tried(w, i, FALSE)
  /\ UNCHANGED <<providerVars, inbox, event, claimed, applied, evidence, customerLock, operatorVars, spent, yields>>

\* Only the end of the loop is reported.
Forgotten(w) == IF courier[w].todo # {} THEN "yielded" ELSE "ok"

\* What an invocation reports: a failure of any part, even when its budget ended later.
Outcome(w) ==
  IF courier[w].failed THEN "failed" ELSE IF courier[w].todo # {} THEN "yielded" ELSE "ok"

\* The budget ends between items of an email; an aggregate limit or a lost database also stops it.
StopEarly(w) ==
  /\ courier[w].at = "working" /\ courier[w].event = Email /\ courier[w].todo # {}
  /\ \/ yields < MaxYields /\ yields' = yields + 1 /\ courier' = [courier EXCEPT ![w].at = "settling"]
     \/ UNCHANGED yields /\ courier' = [courier EXCEPT ![w].at = "settling", ![w].failed = TRUE]
  /\ UNCHANGED <<providerVars, inbox, event, claimed, effectVars, customerLock, operatorVars, spent>>

\* The last update, fenced by the token; a continuation gives its attempt back.
Settle(w) ==
  LET e == courier[w].event
      free == [event[e] EXCEPT !.lease = "none", !.token = 0]
  IN /\ courier[w].at = "settling" \/ (courier[w].at = "working" /\ courier[w].todo = {})
     /\ courier' = [courier EXCEPT ![w] = Idle]
     /\ event' = IF ~Owns(w) THEN event ELSE [event EXCEPT ![e] =
          CASE Outcome(w) = "ok" -> [free EXCEPT !.status = "completed"]
            [] Outcome(w) = "yielded" -> [free EXCEPT !.status = "retry", !.attempts = @ - 1]
            [] OTHER -> [free EXCEPT !.status = IF free.attempts >= MaxEventAttempts THEN "failed" ELSE "retry"]]
     /\ spent' = IF Owns(w) /\ Outcome(w) = "yielded" THEN [spent EXCEPT ![e] = @ - 1] ELSE spent
     /\ UNCHANGED <<providerVars, inbox, claimed, effectVars, customerLock, operatorVars, yields>>

StopCourier(w) ==
  /\ courier[w].at # "idle" /\ courier' = [courier EXCEPT ![w] = Idle]
  /\ customerLock' = customerLock \ {w}
  /\ UNCHANGED <<providerVars, inbox, event, claimed, effectVars, operatorVars, spent, yields>>

(***************************************************************************)
(* Reviewed recovery of a failed Stripe event.                             *)
(***************************************************************************)
ShownColumns(e) == [row |-> event[e], subscription |-> applied]

\* The digest of an inspection; the claims stand for the row version.
Digest(e) ==
  [row |-> event[e], subscription |-> applied, version |-> claimed[e], generation |-> generation[e]]

Eligible(e) == event[e].status = "failed" /\ event[e].attempts >= MaxEventAttempts /\ event[e].token = 0

Inspect(e) ==
  /\ e # Email /\ Eligible(e) /\ Cardinality(reviews) < MaxReviews
  /\ reviews' = reviews \cup {<<e, Digest(e)>>}
  /\ reviewed' = [reviewed EXCEPT ![e] = @ \cup {claimed[e]}]
  /\ UNCHANGED <<providerVars, inbox, event, claimed, effectVars, customerLock, courier, generation, spent, yields>>

\* Both rows are locked, so a reconciliation under way is waited for.
Recover(e) ==
  /\ customerLock = {} /\ <<e, Digest(e)>> \in reviews /\ Eligible(e)
  /\ event' = [event EXCEPT ![e] = [Fresh EXCEPT !.status = "retry"]]
  /\ generation' = [generation EXCEPT ![e] = @ + 1]
  /\ UNCHANGED <<providerVars, inbox, claimed, effectVars, customerLock, courier, reviews, reviewed, spent, yields>>

EventsNext ==
  \/ ChangeSubscription \/ FailExhaustedEvents \/ \E r \in Routes : CloseRoute(r)
  \/ \E e \in Events : StoreEvent(e) \/ ExpireLease(e) \/ Inspect(e) \/ Recover(e)
  \/ \E w \in Couriers :
       \/ ClaimEvent(w) \/ RenewLease(w) \/ RetrieveEmail(w) \/ Capture(w) \/ LockCustomer(w) \/ ListSubscriptions(w)
       \/ WritePlan(w) \/ ReconcileFails(w) \/ StopEarly(w) \/ Settle(w) \/ StopCourier(w)
       \/ \E i \in Items : TakeItem(w, i)

EventsSpec == EventsInit /\ [][EventsNext]_eventsVars

(***************************************************************************)
(* Properties.                                                             *)
(***************************************************************************)
\* Types, and that a reconciliation's lock is held by at most one worker.
EventsTypeOK ==
  /\ provider \in {"stripe", "resend"} /\ changed \in 0..MaxChanges /\ applied \in 0..changed
  /\ event \in [Events -> [status : {"absent", "queued", "processing", "retry", "completed", "failed"},
                           attempts : 0..MaxEventAttempts, lease : {"none", "live", "expired"}, token : Nat]]
  /\ \A e \in Events : event[e].status = "processing" <=> event[e].lease # "none"
  /\ evidence \subseteq WithCheckout /\ received \subseteq Items
  /\ \A u, w \in customerLock : u = w

\* However events of one customer are reordered or retried, the stored plan never goes back
\* to an earlier state of the provider ("Reconcile current provider state under the customer
\* lock, including older event deliveries").
PlanNeverGoesBack == [][applied' >= applied]_eventsVars

\* A completed event is complete in every part ("Neither completion evidence nor entitlement
\* reconciliation can starve the other"): the plan is at least as new as the change it
\* announced, its Checkout is evidenced, every item of an open route has its receipt.
CompletedIsWhole ==
  \A e \in Events : event[e].status = "completed" =>
    IF e = Email THEN \A i \in Items : i \in received \/ Route(i) \in closedRoutes
    ELSE e <= applied /\ (e \in WithCheckout => e \in evidence)

\* "One explicit reviewed request grants a fresh bounded five-attempt worker budget on the SAME
\* event": an event is tried no more often than its first budget and one for each failure that
\* was inspected allow, though operators hold old inspections and workers lose their leases.
BudgetIsReviewed ==
  \A e \in Events : spent[e] <= MaxEventAttempts * (1 + Cardinality(reviewed[e]))
=============================================================================
