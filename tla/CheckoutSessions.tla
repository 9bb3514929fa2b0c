--------------------------- MODULE CheckoutSessions ---------------------------
(* POST /api/billing/checkout (providers.ts, checkout-contracts.ts): requests *)
(* of one workspace for a plan. A reservation is committed under the billing  *)
(* lock before the Session is created at Stripe, outside every transaction.   *)
EXTENDS Naturals

CONSTANTS
  Checkouts,        \* requests
  CheckoutPlans,
  MaxReservations   \* bound on reservations, so on Sessions

ASSUME CheckoutAssumption == MaxReservations \in Nat

VARIABLES
  checkout,       \* a request: [at, plan, request]
  billingLock,    \* requests inside their transaction: at most one
  reservation,    \* billing_checkouts: [request, plan, bound]; request 0 when there is no row
  reservations,   \* request_ids given out
  stripeSession,  \* Stripe's Sessions, by idempotency key: none, open, complete, expired
  subscribed      \* Stripe lists a subscription that is not canceled

checkoutVars == <<checkout, billingLock, reservation, reservations, stripeSession, subscribed>>

Key == 1..MaxReservations
Begun == [at |-> "idle", plan |-> "none", request |-> 0]

CheckoutInit ==
  /\ checkout = [r \in Checkouts |-> Begun] /\ billingLock = {}
  /\ reservation = [request |-> 0, plan |-> "none", bound |-> FALSE] /\ reservations = 0
  /\ stripeSession = [k \in Key |-> "none"] /\ subscribed = FALSE

Step(r, place) == checkout' = [checkout EXCEPT ![r].at = place]

\* The transaction ends, whatever the answer.
Answer(r, place) == Step(r, place) /\ billingLock' = billingLock \ {r}

BeginCheckout(r, plan) ==
  /\ checkout[r].at = "idle" /\ billingLock = {}
  /\ checkout' = [checkout EXCEPT ![r] = [at |-> "listing", plan |-> plan, request |-> 0]]
  /\ billingLock' = {r}
  /\ UNCHANGED <<reservation, reservations, stripeSession, subscribed>>

\* An existing subscription is managed in the portal.
ListActive(r) ==
  /\ checkout[r].at = "listing"
  /\ IF subscribed THEN Answer(r, "done") ELSE Step(r, "resuming") /\ UNCHANGED billingLock
  /\ UNCHANGED <<reservation, reservations, stripeSession, subscribed>>

BoundAndOpen == reservation.bound /\ stripeSession[reservation.request] = "open"

\* Whatever is not known to be payable may be replaced.
NotKnownOpen == ~BoundAndOpen

\* No row, or a Session that is over; a reservation not yet bound may become one.
Replaceable == reservation.request = 0 \/ (reservation.bound /\ ~BoundAndOpen)

\* A bound Session that is open is returned or, for another plan, to be expired.
Resume(r) ==
  /\ checkout[r].at = "resuming" /\ BoundAndOpen
  /\ IF reservation.plan = checkout[r].plan
     THEN Answer(r, "done")
     ELSE Step(r, "expiring") /\ UNCHANGED billingLock
  /\ UNCHANGED <<reservation, reservations, stripeSession, subscribed>>

\* A reservation not yet bound is retried for its plan and refuses any other.
Retry(r) ==
  /\ checkout[r].at = "resuming" /\ reservation.request # 0 /\ ~reservation.bound
  /\ IF reservation.plan = checkout[r].plan
     THEN checkout' = [checkout EXCEPT ![r].at = "creating", ![r].request = reservation.request]
     ELSE Step(r, "done")
  /\ billingLock' = {}
  /\ UNCHANGED <<reservation, reservations, stripeSession, subscribed>>

\* A new request_id takes the row.
ReserveCheckout(r) ==
  /\ reservations < MaxReservations
  /\ \/ checkout[r].at = "resuming" /\ Replaceable
     \/ checkout[r].at = "reserving"
  /\ reservations' = reservations + 1
  /\ reservation' = [request |-> reservations', plan |-> checkout[r].plan, bound |-> FALSE]
  /\ checkout' = [checkout EXCEPT ![r].at = "creating", ![r].request = reservations']
  /\ billingLock' = {}
  /\ UNCHANGED <<stripeSession, subscribed>>

\* Stripe refuses to expire a Session that is no longer open.
ExpireSession(r) ==
  /\ checkout[r].at = "expiring"
  /\ IF stripeSession[reservation.request] = "open"
     THEN /\ stripeSession' = [stripeSession EXCEPT ![reservation.request] = "expired"]
          /\ Step(r, "reserving") /\ UNCHANGED billingLock
     ELSE Answer(r, "done") /\ UNCHANGED stripeSession
  /\ UNCHANGED <<reservation, reservations, subscribed>>

\* A key used before returns its Session, whatever became of it.
Created(k) == stripeSession' = IF stripeSession[k] = "none" THEN [stripeSession EXCEPT ![k] = "open"] ELSE stripeSession

CreateSession(r) ==
  /\ checkout[r].at = "creating" /\ Created(checkout[r].request)
  /\ Step(r, "binding")
  /\ UNCHANGED <<billingLock, reservation, reservations, subscribed>>

\* The second transaction: only the reservation the Session was created for.
BindSession(r) ==
  /\ checkout[r].at = "binding" /\ Step(r, "done")
  /\ reservation' = IF reservation.request = checkout[r].request THEN [reservation EXCEPT !.bound = TRUE] ELSE reservation
  /\ UNCHANGED <<billingLock, reservations, stripeSession, subscribed>>

\* An error or a lost answer, of Stripe or of a commit; a Session may exist that no row knows.
StopCheckout(r) ==
  /\ checkout[r].at \notin {"idle", "done"} /\ Answer(r, "done")
  /\ UNCHANGED <<reservation, reservations, stripeSession, subscribed>>

AskAgain(r) ==
  /\ checkout[r].at = "done" /\ checkout' = [checkout EXCEPT ![r] = Begun]
  /\ UNCHANGED <<billingLock, reservation, reservations, stripeSession, subscribed>>

\* The customer, and time, at Stripe.
Pay(k) ==
  /\ stripeSession[k] = "open" /\ stripeSession' = [stripeSession EXCEPT ![k] = "complete"] /\ subscribed' = TRUE
  /\ UNCHANGED <<checkout, billingLock, reservation, reservations>>

Lapsed(k) ==
  /\ stripeSession[k] = "open" /\ stripeSession' = [stripeSession EXCEPT ![k] = "expired"]
  /\ UNCHANGED <<checkout, billingLock, reservation, reservations, subscribed>>

Cancel ==
  /\ subscribed /\ subscribed' = FALSE
  /\ UNCHANGED <<checkout, billingLock, reservation, reservations, stripeSession>>

CheckoutNext ==
  \/ \E r \in Checkouts :
       \/ \E plan \in CheckoutPlans : BeginCheckout(r, plan)
       \/ ListActive(r) \/ Resume(r) \/ Retry(r) \/ ReserveCheckout(r) \/ ExpireSession(r)
       \/ CreateSession(r) \/ BindSession(r) \/ StopCheckout(r) \/ AskAgain(r)
  \/ \E k \in Key : Pay(k) \/ Lapsed(k)
  \/ Cancel

CheckoutSpec == CheckoutInit /\ [][CheckoutNext]_checkoutVars

(***************************************************************************)
(* Properties.                                                             *)
(***************************************************************************)
CheckoutTypeOK ==
  /\ checkout \in [Checkouts -> [at : {"idle", "listing", "resuming", "expiring", "reserving", "creating", "binding", "done"},
                                 plan : CheckoutPlans \cup {"none"}, request : 0..MaxReservations]]
  /\ billingLock \subseteq Checkouts /\ reservations \in 0..MaxReservations
  /\ reservation \in [request : 0..reservations, plan : CheckoutPlans \cup {"none"}, bound : BOOLEAN]
  /\ stripeSession \in [Key -> {"none", "open", "complete", "expired"}] /\ subscribed \in BOOLEAN

\* A workspace never has two Sessions a customer could pay, whatever requests overlap, change
\* plan, lose an answer of Stripe or come back late ("Persist the nonce before external
\* creation; retry the same mode-bound Session after a lost response").
OneOpenSession == \A j, k \in Key : stripeSession[j] = "open" /\ stripeSession[k] = "open" => j = k
=============================================================================
