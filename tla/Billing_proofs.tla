--------------------------- MODULE Billing_proofs ---------------------------
(* Proofs about billing: Checkout Sessions (CheckoutSessions) for any number  *)
(* of requests, plans and reservations, and provider events (ProviderEvents)  *)
(* for any number of workers, changes, routes, attempts and reviews.          *)
EXTENDS ProviderEvents, CheckoutSessions, SequenceTheorems, FiniteSetTheorems, TLAPS

-----------------------------------------------------------------------------
(***************************************************************************)
(* CheckoutSessions: types, and that there is never a second Session to pay. *)
(***************************************************************************)
USE DEF Key

\* The request that is inside the transaction, and the row it has seen there.
InTransaction == {"listing", "resuming", "expiring", "reserving"}

Requests ==
  [at : InTransaction \cup {"idle", "creating", "binding", "done"},
   plan : CheckoutPlans \cup {"none"}, request : 0..MaxReservations]

LockInv ==
  /\ \A r \in Checkouts : checkout[r].at \in InTransaction <=> r \in billingLock
  /\ \A q, r \in billingLock : q = r

\* Only the latest reservation can still have an open Session: an earlier one was replaced
\* when its Session was bound and over, and a Session that is over stays so.
SessionsInv ==
  /\ reservation.request = reservations
  /\ \A k \in Key :
       /\ k > reservations => stripeSession[k] = "none"
       /\ k < reservations => stripeSession[k] \in {"complete", "expired"}
  /\ reservation.bound => reservations # 0 /\ stripeSession[reservations] # "none"

\* What a request knows of the Session it creates, binds or replaces.
RequestInv ==
  \A r \in Checkouts :
    /\ checkout[r].at \in {"creating", "binding"} => checkout[r].request \in 1..reservations
    /\ checkout[r].at = "binding" => stripeSession[checkout[r].request] # "none"
    /\ checkout[r].at \in {"expiring", "reserving"} => reservation.bound
    /\ checkout[r].at = "reserving" => stripeSession[reservations] = "expired"

CheckoutInv == CheckoutTypeOK /\ LockInv /\ SessionsInv /\ RequestInv

-----------------------------------------------------------------------------
\* A request that goes on to create the Session of reservation n.
LEMMA GoesOn ==
  ASSUME checkout \in [Checkouts -> Requests], NEW r \in Checkouts, NEW n \in 1..MaxReservations,
         checkout' = [checkout EXCEPT ![r].at = "creating", ![r].request = n]
  PROVE  /\ checkout' \in [Checkouts -> Requests]
         /\ checkout'[r].at = "creating" /\ checkout'[r].request = n
         /\ \A q \in Checkouts \ {r} : checkout'[q] = checkout[q]
<1>1. /\ checkout[r] \in Requests /\ checkout'[r] = [[checkout[r] EXCEPT !.at = "creating"] EXCEPT !.request = n]
      /\ \A q \in Checkouts \ {r} : checkout'[q] = checkout[q]
  OBVIOUS
<1>2. checkout'[r] = [at |-> "creating", plan |-> checkout[r].plan, request |-> n]
  BY <1>1 DEF Requests
<1>3. checkout'[r] \in Requests
  BY <1>1, <1>2, CheckoutAssumption DEF Requests, InTransaction
<1> QED
  BY <1>1, <1>2, <1>3

LEMMA CheckoutInitial == CheckoutInit => CheckoutInv
<1> SUFFICES ASSUME CheckoutInit PROVE CheckoutInv
  OBVIOUS
<1> USE CheckoutAssumption DEF CheckoutInit, Begun
<1>2. CheckoutTypeOK
  <2>1. checkout \in [Checkouts -> [at : {"idle", "listing", "resuming", "expiring", "reserving", "creating", "binding", "done"},
                                    plan : CheckoutPlans \cup {"none"}, request : 0..MaxReservations]]
    OBVIOUS
  <2>2. reservation \in [request : 0..reservations, plan : CheckoutPlans \cup {"none"}, bound : BOOLEAN]
    OBVIOUS
  <2>3. billingLock \subseteq Checkouts /\ reservations \in 0..MaxReservations
    OBVIOUS
  <2>4. stripeSession \in [Key -> {"none", "open", "complete", "expired"}] 
    OBVIOUS
  <2>5. subscribed \in BOOLEAN
    OBVIOUS
  <2> QED
    BY <2>1, <2>2, <2>3, <2>4, <2>5 DEF CheckoutTypeOK
<1>3. LockInv
  BY DEF LockInv, InTransaction
<1>4. SessionsInv
  BY DEF SessionsInv
<1>5. RequestInv
  BY DEF RequestInv
<1> QED
  BY <1>2, <1>3, <1>4, <1>5 DEF CheckoutInv

\* Every action preserves the invariant.
LEMMA CheckoutStep ==
  ASSUME CheckoutInv, [CheckoutNext]_checkoutVars
  PROVE  CheckoutInv'
<1> USE CheckoutAssumption DEF CheckoutInv
<1>1. ASSUME NEW r \in Checkouts, NEW plan \in CheckoutPlans, BeginCheckout(r, plan) PROVE CheckoutInv'
  <2>1. CheckoutTypeOK'
    BY <1>1 DEF BeginCheckout, CheckoutTypeOK
  <2>2. LockInv'
    BY <1>1 DEF BeginCheckout, LockInv, CheckoutTypeOK, InTransaction
  <2>3. SessionsInv'
    BY <1>1 DEF BeginCheckout, SessionsInv, RequestInv, CheckoutTypeOK, LockInv, InTransaction
  <2>4. RequestInv'
    BY <1>1 DEF BeginCheckout, RequestInv, SessionsInv, CheckoutTypeOK, LockInv, InTransaction
  <2> QED
    BY <2>1, <2>2, <2>3, <2>4
<1>2. ASSUME NEW r \in Checkouts, ListActive(r) PROVE CheckoutInv'
  <2>0. PICK place \in {"resuming", "done"} :
          /\ checkout' = [checkout EXCEPT ![r].at = place] /\ checkout[r].at = "listing"
          /\ billingLock' = IF place = "done" THEN billingLock \ {r} ELSE billingLock
          /\ UNCHANGED <<reservation, reservations, stripeSession, subscribed>>
    BY <1>2 DEF ListActive, Answer, Step
  <2>1. CheckoutTypeOK'
    BY <1>2, <2>0 DEF CheckoutTypeOK
  <2>2. LockInv'
    BY <1>2, <2>0 DEF LockInv, CheckoutTypeOK, InTransaction
  <2>3. SessionsInv'
    BY <1>2, <2>0 DEF SessionsInv, RequestInv, CheckoutTypeOK, LockInv, InTransaction
  <2>4. RequestInv'
    BY <1>2, <2>0 DEF RequestInv, SessionsInv, CheckoutTypeOK, LockInv, InTransaction
  <2> QED
    BY <2>1, <2>2, <2>3, <2>4
<1>3. ASSUME NEW r \in Checkouts, Resume(r) PROVE CheckoutInv'
  <2>0. PICK place \in {"expiring", "done"} :
          /\ checkout' = [checkout EXCEPT ![r].at = place] /\ checkout[r].at = "resuming"
          /\ billingLock' = IF place = "done" THEN billingLock \ {r} ELSE billingLock
          /\ reservation.bound /\ UNCHANGED <<reservation, reservations, stripeSession, subscribed>>
    BY <1>3 DEF Resume, BoundAndOpen, Answer, Step
  <2>1. CheckoutTypeOK'
    BY <1>3, <2>0 DEF CheckoutTypeOK
  <2>2. LockInv'
    BY <1>3, <2>0 DEF LockInv, CheckoutTypeOK, InTransaction
  <2>3. SessionsInv'
    BY <1>3, <2>0 DEF SessionsInv, RequestInv, CheckoutTypeOK, LockInv, InTransaction
  <2>4. RequestInv'
    BY <1>3, <2>0 DEF RequestInv, SessionsInv, CheckoutTypeOK, LockInv, InTransaction
  <2> QED
    BY <2>1, <2>2, <2>3, <2>4
<1>4. ASSUME NEW r \in Checkouts, Retry(r) PROVE CheckoutInv'
  <2>0. /\ checkout[r].at = "resuming" /\ reservation.request # 0 /\ billingLock' = {}
        /\ UNCHANGED <<reservation, reservations, stripeSession, subscribed>>
    BY <1>4 DEF Retry
  <2>1. CASE checkout' = [checkout EXCEPT ![r].at = "creating", ![r].request = reservation.request]
    <3>1. CheckoutTypeOK'
      <4>1. checkout \in [Checkouts -> Requests] /\ reservation.request \in 1..MaxReservations
        BY <2>0 DEF CheckoutTypeOK, Requests, InTransaction
      <4>2. checkout' \in [Checkouts -> Requests]
        BY <2>1, <4>1, GoesOn
      <4> QED
        BY <2>0, <4>2 DEF CheckoutTypeOK, Requests, InTransaction
    <3>2. LockInv'
      BY <2>0, <2>1 DEF LockInv, CheckoutTypeOK, InTransaction
    <3>3. SessionsInv' /\ RequestInv'
      BY <2>0, <2>1 DEF SessionsInv, RequestInv, CheckoutTypeOK, LockInv, InTransaction
    <3> QED
      BY <3>1, <3>2, <3>3
  <2>2. CASE checkout' = [checkout EXCEPT ![r].at = "done"]
    <3>1. CheckoutTypeOK'
      BY <2>0, <2>2 DEF CheckoutTypeOK
    <3>2. LockInv'
      BY <2>0, <2>2 DEF LockInv, CheckoutTypeOK, InTransaction
    <3>3. SessionsInv' /\ RequestInv'
      BY <2>0, <2>2 DEF SessionsInv, RequestInv, CheckoutTypeOK, LockInv, InTransaction
    <3> QED
      BY <3>1, <3>2, <3>3
  <2> QED
    BY <1>4, <2>1, <2>2 DEF Retry, Step
<1>5. ASSUME NEW r \in Checkouts, ReserveCheckout(r) PROVE CheckoutInv'
  <2>0. /\ reservations' \in 1..MaxReservations /\ reservations' = reservations + 1
        /\ reservation' = [request |-> reservations', plan |-> checkout[r].plan, bound |-> FALSE]
        /\ checkout[r].at \in {"resuming", "reserving"} /\ UNCHANGED <<stripeSession, subscribed>>
        /\ checkout' = [checkout EXCEPT ![r].at = "creating", ![r].request = reservations'] /\ billingLock' = {}
    BY <1>5 DEF ReserveCheckout, CheckoutTypeOK
  <2>9. reservation' \in [request : 0..reservations', plan : CheckoutPlans \cup {"none"}, bound : BOOLEAN]
    BY <2>0 DEF CheckoutTypeOK
  <2>1. CheckoutTypeOK'
    <3>1. checkout \in [Checkouts -> Requests]
      BY DEF CheckoutTypeOK, Requests, InTransaction
    <3>2. checkout' \in [Checkouts -> Requests]
      BY <2>0, <3>1, GoesOn
    <3> QED
      BY <2>0, <2>9, <3>2 DEF CheckoutTypeOK, Requests, InTransaction
  <2>2. LockInv'
    BY <1>5 DEF ReserveCheckout, Replaceable, BoundAndOpen, LockInv, CheckoutTypeOK, InTransaction
  <2>3. SessionsInv'
    BY <1>5 DEF ReserveCheckout, Replaceable, BoundAndOpen, SessionsInv, RequestInv, CheckoutTypeOK, LockInv, InTransaction
  <2>4. RequestInv'
    BY <1>5 DEF ReserveCheckout, Replaceable, BoundAndOpen, RequestInv, SessionsInv, CheckoutTypeOK, LockInv, InTransaction
  <2> QED
    BY <2>1, <2>2, <2>3, <2>4
<1>6. ASSUME NEW r \in Checkouts, ExpireSession(r) PROVE CheckoutInv'
  <2>0. PICK place \in {"reserving", "done"} :
          /\ checkout' = [checkout EXCEPT ![r].at = place] /\ checkout[r].at = "expiring"
          /\ billingLock' = IF place = "done" THEN billingLock \ {r} ELSE billingLock
          /\ stripeSession' = IF place = "done" THEN stripeSession
                              ELSE [stripeSession EXCEPT ![reservation.request] = "expired"]
          /\ UNCHANGED <<reservation, reservations, subscribed>>
    BY <1>6 DEF ExpireSession, Answer, Step
  <2>1. CheckoutTypeOK'
    BY <1>6, <2>0 DEF CheckoutTypeOK
  <2>2. LockInv'
    BY <1>6, <2>0 DEF LockInv, CheckoutTypeOK, InTransaction
  <2>3. SessionsInv'
    BY <1>6, <2>0 DEF SessionsInv, RequestInv, CheckoutTypeOK, LockInv, InTransaction
  <2>4. RequestInv'
    BY <1>6, <2>0 DEF RequestInv, SessionsInv, CheckoutTypeOK, LockInv, InTransaction
  <2> QED
    BY <2>1, <2>2, <2>3, <2>4
<1>7. ASSUME NEW r \in Checkouts, CreateSession(r) PROVE CheckoutInv'
  <2>1. CheckoutTypeOK'
    BY <1>7 DEF CreateSession, Created, Step, CheckoutTypeOK
  <2>2. LockInv'
    BY <1>7 DEF CreateSession, Created, Step, LockInv, CheckoutTypeOK, InTransaction
  <2>3. SessionsInv'
    BY <1>7 DEF CreateSession, Created, Step, SessionsInv, RequestInv, CheckoutTypeOK, LockInv, InTransaction
  <2>4. RequestInv'
    BY <1>7 DEF CreateSession, Created, Step, RequestInv, SessionsInv, CheckoutTypeOK, LockInv, InTransaction
  <2> QED
    BY <2>1, <2>2, <2>3, <2>4
<1>8. ASSUME NEW r \in Checkouts, BindSession(r) PROVE CheckoutInv'
  <2>1. CheckoutTypeOK'
    BY <1>8 DEF BindSession, Step, CheckoutTypeOK
  <2>2. LockInv'
    BY <1>8 DEF BindSession, Step, LockInv, CheckoutTypeOK, InTransaction
  <2>3. SessionsInv'
    BY <1>8 DEF BindSession, Step, SessionsInv, RequestInv, CheckoutTypeOK, LockInv, InTransaction
  <2>4. RequestInv'
    BY <1>8 DEF BindSession, Step, RequestInv, SessionsInv, CheckoutTypeOK, LockInv, InTransaction
  <2> QED
    BY <2>1, <2>2, <2>3, <2>4
<1>9. ASSUME NEW r \in Checkouts, StopCheckout(r) PROVE CheckoutInv'
  <2>1. CheckoutTypeOK'
    BY <1>9 DEF StopCheckout, Answer, Step, CheckoutTypeOK
  <2>2. LockInv'
    BY <1>9 DEF StopCheckout, Answer, Step, LockInv, CheckoutTypeOK, InTransaction
  <2>3. SessionsInv'
    BY <1>9 DEF StopCheckout, Answer, Step, SessionsInv, RequestInv, CheckoutTypeOK, LockInv, InTransaction
  <2>4. RequestInv'
    BY <1>9 DEF StopCheckout, Answer, Step, RequestInv, SessionsInv, CheckoutTypeOK, LockInv, InTransaction
  <2> QED
    BY <2>1, <2>2, <2>3, <2>4
<1>10. ASSUME NEW r \in Checkouts, AskAgain(r) PROVE CheckoutInv'
  <2>1. CheckoutTypeOK'
    BY <1>10 DEF AskAgain, Begun, CheckoutTypeOK
  <2>2. LockInv'
    BY <1>10 DEF AskAgain, Begun, LockInv, CheckoutTypeOK, InTransaction
  <2>3. SessionsInv'
    BY <1>10 DEF AskAgain, Begun, SessionsInv, RequestInv, CheckoutTypeOK, LockInv, InTransaction
  <2>4. RequestInv'
    BY <1>10 DEF AskAgain, Begun, RequestInv, SessionsInv, CheckoutTypeOK, LockInv, InTransaction
  <2> QED
    BY <2>1, <2>2, <2>3, <2>4
<1>11. ASSUME NEW k \in Key, Pay(k) \/ Lapsed(k) PROVE CheckoutInv'
  <2>1. CheckoutTypeOK'
    BY <1>11 DEF Pay, Lapsed, CheckoutTypeOK
  <2>2. LockInv'
    BY <1>11 DEF Pay, Lapsed, LockInv, CheckoutTypeOK, InTransaction
  <2>3. SessionsInv'
    BY <1>11 DEF Pay, Lapsed, SessionsInv, RequestInv, CheckoutTypeOK, LockInv, InTransaction
  <2>4. RequestInv'
    BY <1>11 DEF Pay, Lapsed, RequestInv, SessionsInv, CheckoutTypeOK, LockInv, InTransaction
  <2> QED
    BY <2>1, <2>2, <2>3, <2>4
<1>12. CASE Cancel
  <2>1. CheckoutTypeOK'
    BY <1>12 DEF Cancel, CheckoutTypeOK
  <2>2. LockInv'
    BY <1>12 DEF Cancel, LockInv, CheckoutTypeOK, InTransaction
  <2>3. SessionsInv'
    BY <1>12 DEF Cancel, SessionsInv, RequestInv, CheckoutTypeOK, LockInv, InTransaction
  <2>4. RequestInv'
    BY <1>12 DEF Cancel, RequestInv, SessionsInv, CheckoutTypeOK, LockInv, InTransaction
  <2> QED
    BY <2>1, <2>2, <2>3, <2>4
<1>13. CASE UNCHANGED checkoutVars
  <2>1. CheckoutTypeOK'
    BY <1>13 DEF checkoutVars, CheckoutTypeOK
  <2>2. LockInv'
    BY <1>13 DEF checkoutVars, LockInv, CheckoutTypeOK, InTransaction
  <2>3. SessionsInv'
    BY <1>13 DEF checkoutVars, SessionsInv, RequestInv, CheckoutTypeOK, LockInv, InTransaction
  <2>4. RequestInv'
    BY <1>13 DEF checkoutVars, RequestInv, SessionsInv, CheckoutTypeOK, LockInv, InTransaction
  <2> QED
    BY <2>1, <2>2, <2>3, <2>4
<1> QED
  BY <1>1, <1>2, <1>3, <1>4, <1>5, <1>6, <1>7, <1>8, <1>9, <1>10, <1>11, <1>12, <1>13 DEF CheckoutNext

-----------------------------------------------------------------------------
\* The invariant holds in every reachable state.
THEOREM CheckoutReached == CheckoutSpec => []CheckoutInv
<1>1. CheckoutInv /\ [CheckoutNext]_checkoutVars => CheckoutInv'
  BY CheckoutStep
<1> QED
  BY CheckoutInitial, <1>1, PTL DEF CheckoutSpec

\* A workspace never has two Sessions a customer could pay: of all the Sessions that requests
\* in any number create, replace, pay or let lapse, only that of the latest reservation can be
\* open, since a reservation is replaced only once its own Session is bound and over.
THEOREM OneSession == CheckoutSpec => []OneOpenSession
<1>1. CheckoutInv => OneOpenSession
  <2> SUFFICES ASSUME CheckoutInv, NEW j \in Key, NEW k \in Key, stripeSession[j] = "open", stripeSession[k] = "open"
               PROVE  j = k
    BY DEF OneOpenSession
  <2>1. ~(j > reservations) /\ ~(j < reservations) /\ ~(k > reservations) /\ ~(k < reservations)
    BY DEF CheckoutInv, SessionsInv
  <2> QED
    BY <2>1, CheckoutAssumption DEF CheckoutInv, CheckoutTypeOK
<1> QED
  BY CheckoutReached, <1>1, PTL

-----------------------------------------------------------------------------
(***************************************************************************)
(* ProviderEvents: the plan never goes back, completed events are whole, and *)
(* every further budget was reviewed.                                      *)
(***************************************************************************)
Parts == Items \cup {Reconciling, Capturing}
CourierRows ==
  [at : {"idle", "claimed", "working", "settling"}, event : Events, token : Nat, todo : SUBSET Parts,
   failed : BOOLEAN, seen : Nat]

\* Rows: a token means a claim that counts, and each budget was used up but for the present one.
RowInv(e) ==
  /\ event[e].token # 0 => event[e].status = "processing"
  /\ event[e].status = "processing" => event[e].attempts # 0
  /\ event[e].status = "completed" =>
       IF e = Email THEN \A i \in Items : i \in received \/ Route(i) \in closedRoutes
       ELSE e <= applied /\ (e \in WithCheckout => e \in evidence)
  /\ spent[e] = event[e].attempts + MaxEventAttempts * generation[e]
  /\ reviewed[e] \subseteq 0..claimed[e]

\* Failures inspected: every recovery used up one of them, and the present claim is not yet among those.
Behind(e) == reviewed[e] \ (IF event[e].attempts = 0 THEN {} ELSE {claimed[e]})
ReviewInv(e) ==
  /\ e = Email => generation[e] = 0
  /\ e # Email => generation[e] <= Cardinality(Behind(e))

\* What a worker knows. A list from the provider is as new as the plan while the lock is held.
CourierInv(w) ==
  /\ courier[w].at # "idle" => courier[w].token # 0
  /\ courier[w].at \in {"claimed", "settling"} => courier[w].event = Email
  /\ courier[w].event = Email => courier[w].todo \subseteq Items
  /\ courier[w].event # Email => courier[w].todo \subseteq {Reconciling, Capturing} /\ courier[w].event <= changed
  /\ Capturing \in courier[w].todo => courier[w].event \in WithCheckout
  /\ w \in customerLock => courier[w].at = "working" /\ Reconciling \in courier[w].todo
  /\ courier[w].seen # 0 =>
       /\ w \in customerLock /\ applied <= courier[w].seen
       /\ courier[w].event <= courier[w].seen /\ courier[w].seen <= changed

\* Unless something failed, what is no longer to do is done.
PartsInv(w) ==
  courier[w].at \in {"working", "settling"} /\ ~courier[w].failed =>
    /\ courier[w].event = Email =>
         \A i \in Items : i \in courier[w].todo \/ i \in received \/ Route(i) \in closedRoutes
    /\ courier[w].event # Email =>
         /\ Reconciling \in courier[w].todo \/ courier[w].event <= applied
         /\ courier[w].event \in WithCheckout => Capturing \in courier[w].todo \/ courier[w].event \in evidence

EventsTyped ==
  /\ EventsTypeOK /\ customerLock \subseteq Couriers /\ courier \in [Couriers -> CourierRows]
  /\ inbox \in Seq(Events) /\ \A k \in DOMAIN inbox : inbox[k] <= changed
  /\ claimed \in [Events -> Nat] /\ generation \in [Events -> Nat] /\ reviewed \in [Events -> SUBSET Nat]
  /\ spent \in [Events -> Nat]
  /\ \A r \in reviews : r[1] \in Events /\ r[1] # Email /\ r[2].version \in reviewed[r[1]]

EventsInv ==
  /\ EventsTyped
  /\ \A e \in Events : RowInv(e) /\ ReviewInv(e)
  /\ \A w \in Couriers : CourierInv(w) /\ PartsInv(w)

EventRows ==
  [status : {"absent", "queued", "processing", "retry", "completed", "failed"},
   attempts : 0..MaxEventAttempts, lease : {"none", "live", "expired"}, token : Nat]

\* What the steps of others leave alone.
Grows ==
  /\ changed' \in Nat /\ changed <= changed' /\ applied' \in Nat /\ applied <= applied'
  /\ closedRoutes \subseteq closedRoutes' /\ evidence \subseteq evidence' /\ received \subseteq received'
SameRow(e) ==
  /\ event'[e] = event[e] /\ spent'[e] = spent[e] /\ generation'[e] = generation[e]
  /\ claimed'[e] = claimed[e] /\ reviewed'[e] = reviewed[e]
SameCourier(w) ==
  /\ courier'[w] = courier[w] /\ (w \in customerLock' <=> w \in customerLock)
  /\ w \in customerLock => applied' = applied

LEMMA EventFacts ==
  /\ Reconciling # Capturing /\ Reconciling \notin Items /\ Capturing \notin Items
  /\ Email = 0 /\ Email \in Events /\ Events \subseteq Nat /\ Idle \in CourierRows
  /\ MaxChanges \in Nat /\ MaxEventAttempts \in Nat /\ MaxEventAttempts # 0 /\ 0 \in 0..MaxEventAttempts
<1>1. Reconciling # Capturing /\ Reconciling \notin Items /\ Capturing \notin Items
  BY DEF Reconciling, Capturing, Items
<1>2. Email = 0 /\ Email \in Events /\ Events \subseteq Nat
  BY EventsAssumption DEF Email, Events
<1>3. Idle \in CourierRows
  BY <1>2 DEF Idle, CourierRows
<1>4. MaxChanges \in Nat /\ MaxEventAttempts \in Nat /\ MaxEventAttempts # 0 /\ 0 \in 0..MaxEventAttempts
  BY EventsAssumption
<1> QED
  BY <1>1, <1>2, <1>3, <1>4

\* Budgets: MaxEventAttempts for each recovery.
LEMMA Budgets ==
  /\ \A g \in Nat : MaxEventAttempts * g \in Nat /\ MaxEventAttempts * (g + 1) = MaxEventAttempts * g + MaxEventAttempts
  /\ \A g, c \in Nat : g <= c => MaxEventAttempts * g <= MaxEventAttempts * c
<1>1. \A m, g \in Nat : m * g \in Nat /\ m * (g + 1) = m * g + m
  OBVIOUS
<1>2. ASSUME NEW m \in Nat, NEW g \in Nat, NEW c \in Nat, g <= c PROVE m * g <= m * c
  <2>1. PICK d \in Nat : c = g + d
    <3>1. c - g \in Nat /\ c = g + (c - g)
      BY <1>2
    <3> QED
      BY <3>1
  <2>2. m * c = m * g + m * d /\ m * d \in Nat /\ m * g \in Nat
    BY <2>1
  <2> QED
    BY <2>2
<1> QED
  BY <1>1, <1>2, EventFacts

LEMMA EventTypes ==
  ASSUME EventsInv
  PROVE  /\ event \in [Events -> EventRows] /\ changed \in Nat /\ applied \in Nat /\ applied <= changed /\ changed <= MaxChanges
         /\ courier \in [Couriers -> CourierRows] /\ claimed \in [Events -> Nat] /\ generation \in [Events -> Nat]
         /\ reviewed \in [Events -> SUBSET Nat] /\ spent \in [Events -> Nat]
BY EventFacts DEF EventsInv, EventsTyped, EventsTypeOK, EventRows

\* Of a failure inspected there are finitely many.
LEMMA ReviewsFinite ==
  ASSUME EventsInv, NEW e \in Events
  PROVE  /\ IsFiniteSet(reviewed[e]) /\ Cardinality(reviewed[e]) \in Nat
         /\ IsFiniteSet(Behind(e)) /\ Cardinality(Behind(e)) \in Nat /\ Cardinality(Behind(e)) <= Cardinality(reviewed[e])
<1>1. IsFiniteSet(0..claimed[e]) /\ reviewed[e] \subseteq 0..claimed[e]
  <2>1. 0 \in Int /\ claimed[e] \in Int
    BY EventTypes
  <2>2. IsFiniteSet(0..claimed[e])
    BY <2>1, FS_Interval
  <2> QED
    BY <2>2 DEF EventsInv, RowInv
<1>2. IsFiniteSet(reviewed[e]) /\ Behind(e) \subseteq reviewed[e]
  BY <1>1, FS_Subset DEF Behind
<1> QED
  BY <1>2, FS_Subset, FS_CardinalityType

LEMMA RowStays ==
  ASSUME EventsInv, Grows, NEW e \in Events, SameRow(e)
  PROVE  RowInv(e)' /\ ReviewInv(e)'
<1>1. e \in Nat /\ applied \in Nat
  BY EventFacts, EventTypes
<1>2. RowInv(e)'
  BY <1>1 DEF EventsInv, RowInv, Grows, SameRow
<1>3. ReviewInv(e)'
  BY DEF EventsInv, ReviewInv, Behind, SameRow
<1> QED
  BY <1>2, <1>3

LEMMA CourierStays ==
  ASSUME EventsInv, Grows, NEW w \in Couriers, SameCourier(w)
  PROVE  CourierInv(w)' /\ PartsInv(w)'
<1>1. courier[w] \in CourierRows /\ courier[w].event \in Nat /\ courier[w].seen \in Nat /\ applied \in Nat /\ changed \in Nat
  BY EventFacts, EventTypes DEF CourierRows
<1>2. CourierInv(w) /\ PartsInv(w)
  BY DEF EventsInv
<1>3. CourierInv(w)'
  BY <1>1, <1>2 DEF CourierInv, Grows, SameCourier
<1>4. PartsInv(w)'
  BY <1>1, <1>2 DEF PartsInv, Grows, SameCourier
<1> QED
  BY <1>3, <1>4

\* The step of a worker that leaves the events alone.
LEMMA CourierStep ==
  ASSUME EventsInv, Grows, NEW w \in Couriers,
         UNCHANGED <<provider, changed, inbox, event, claimed, operatorVars, spent>>,
         applied' <= changed, evidence' \subseteq WithCheckout, received' \subseteq Items,
         customerLock' \subseteq Couriers, \A u, v \in customerLock' : u = v,
         courier' \in [Couriers -> CourierRows],
         \A u \in Couriers \ {w} : SameCourier(u),
         CourierInv(w)', PartsInv(w)'
  PROVE  EventsInv'
<1>1. EventsTyped'
  <2>1. applied' \in 0..changed'
    BY EventTypes DEF Grows
  <2> QED
    BY <2>1 DEF EventsInv, EventsTyped, EventsTypeOK, operatorVars
<1>2. ASSUME NEW e \in Events PROVE RowInv(e)' /\ ReviewInv(e)'
  <2>1. SameRow(e)
    BY DEF SameRow, operatorVars
  <2> QED
    BY <2>1, RowStays
<1>3. ASSUME NEW u \in Couriers PROVE CourierInv(u)' /\ PartsInv(u)'
  BY CourierStays
<1> QED
  BY <1>1, <1>2, <1>3 DEF EventsInv

\* The step that leaves the workers and what they did alone.
LEMMA RowsStep ==
  ASSUME EventsInv, UNCHANGED <<providerVars, effectVars, customerLock, courier>>,
         EventsTyped', \A e \in Events : SameRow(e) \/ (RowInv(e)' /\ ReviewInv(e)')
  PROVE  EventsInv'
<1>1. Grows
  BY EventTypes DEF Grows, providerVars, effectVars
<1>2. ASSUME NEW w \in Couriers PROVE CourierInv(w)' /\ PartsInv(w)'
  BY <1>1, CourierStays DEF SameCourier, effectVars
<1>3. ASSUME NEW e \in Events PROVE RowInv(e)' /\ ReviewInv(e)'
  BY <1>1, RowStays
<1> QED
  BY <1>2, <1>3 DEF EventsInv

\* A row whose lease is given up.
LEMMA FreedRow ==
  ASSUME NEW row \in EventRows, NEW status
  PROVE  LET free == [row EXCEPT !.lease = "none", !.token = 0]
         IN /\ [free EXCEPT !.status = status] = [status |-> status, attempts |-> row.attempts, lease |-> "none", token |-> 0]
            /\ \A n : [free EXCEPT !.status = status, !.attempts = n]
                        = [status |-> status, attempts |-> n, lease |-> "none", token |-> 0]
<1> DEFINE free == [row EXCEPT !.lease = "none", !.token = 0]
<1>1. ASSUME NEW x, x = [free EXCEPT !.status = status]
      PROVE  x = [status |-> status, attempts |-> row.attempts, lease |-> "none", token |-> 0]
  BY <1>1 DEF EventRows
<1>2. ASSUME NEW n, NEW x, x = [free EXCEPT !.status = status, !.attempts = n]
      PROVE  x = [status |-> status, attempts |-> n, lease |-> "none", token |-> 0]
  BY <1>2 DEF EventRows
<1> QED
  BY <1>1, <1>2

\* One part of an event was tried.
LEMMA TriedRow ==
  ASSUME EventsInv, NEW w \in Couriers, NEW part, NEW ok \in BOOLEAN, Tried(w, part, ok)
  PROVE  /\ courier' \in [Couriers -> CourierRows] /\ \A u \in Couriers \ {w} : courier'[u] = courier[u]
         /\ courier'[w].at = courier[w].at /\ courier'[w].event = courier[w].event /\ courier'[w].token = courier[w].token
         /\ courier'[w].todo = courier[w].todo \ {part} /\ courier'[w].seen = 0
         /\ ~courier'[w].failed => ok /\ ~courier[w].failed
<1>1. courier \in [Couriers -> CourierRows] /\ courier[w] \in CourierRows
  BY EventTypes
<1>2. CASE ok
  <2>1. courier' = [courier EXCEPT ![w].todo = @ \ {part}, ![w].failed = @, ![w].seen = 0]
    <3>1. courier[w].failed \in BOOLEAN
      BY <1>1 DEF CourierRows
    <3>2. (courier[w].failed \/ ~ok) = courier[w].failed
      BY <1>2, <3>1
    <3> QED
      BY <3>2 DEF Tried
  <2>2. [courier[w] EXCEPT !.todo = @ \ {part}, !.failed = @, !.seen = 0] \in CourierRows
    BY <1>1 DEF CourierRows
  <2> QED
    BY <1>1, <1>2, <2>1, <2>2 DEF CourierRows
<1>3. CASE ~ok
  <2>1. courier' = [courier EXCEPT ![w].todo = @ \ {part}, ![w].failed = TRUE, ![w].seen = 0]
    <3>1. (courier[w].failed \/ ~ok) = TRUE
      BY <1>3
    <3> QED
      BY <3>1 DEF Tried
  <2>2. [courier[w] EXCEPT !.todo = @ \ {part}, !.failed = TRUE, !.seen = 0] \in CourierRows
    BY <1>1 DEF CourierRows
  <2> QED
    BY <1>1, <2>1, <2>2 DEF CourierRows
<1> QED
  BY <1>2, <1>3

-----------------------------------------------------------------------------
LEMMA EventsInitial == EventsInit => EventsInv
<1> SUFFICES ASSUME EventsInit PROVE EventsInv
  OBVIOUS
<1>1. Fresh \in EventRows /\ Fresh.status = "absent" /\ Fresh.token = 0 /\ Fresh.attempts = 0 /\ Fresh.lease = "none"
  BY EventFacts DEF Fresh, EventRows
<1>2. EventsTyped
  <2>1. changed = 0 /\ applied = 0 /\ 0 \in 0..MaxChanges /\ 0 \in 0..0
    BY EventFacts DEF EventsInit
  <2>2. EventsTypeOK
    BY <1>1, <2>1 DEF EventsInit, EventsTypeOK, EventRows
  <2>3. inbox \in Seq(Events) /\ DOMAIN inbox = {}
    BY DEF EventsInit
  <2> QED
    BY <2>2, <2>3, EventFacts DEF EventsInit, EventsTyped
<1>3. ASSUME NEW e \in Events PROVE RowInv(e) /\ ReviewInv(e)
  <2>1. event[e] = Fresh /\ spent[e] = 0 /\ generation[e] = 0 /\ claimed[e] = 0 /\ reviewed[e] = {}
    BY DEF EventsInit
  <2>2. MaxEventAttempts * 0 = 0
    BY EventFacts
  <2>3. RowInv(e)
    BY <1>1, <2>1, <2>2 DEF RowInv
  <2>4. Behind(e) = {} /\ Cardinality(Behind(e)) = 0
    BY <2>1, FS_EmptySet DEF Behind
  <2> QED
    BY <2>1, <2>3, <2>4 DEF ReviewInv
<1>4. ASSUME NEW w \in Couriers PROVE CourierInv(w) /\ PartsInv(w)
  BY EventFacts DEF EventsInit, CourierInv, PartsInv, Idle
<1> QED
  BY <1>2, <1>3, <1>4 DEF EventsInv

\* The provider's own steps.
LEMMA ProviderStep ==
  ASSUME EventsInv, ChangeSubscription \/ \E r \in Routes : CloseRoute(r)
  PROVE  EventsInv'
<1>1. /\ changed' \in 0..MaxChanges /\ changed <= changed' /\ changed' \in Nat /\ closedRoutes \subseteq closedRoutes'
      /\ UNCHANGED <<provider, inbox, event, claimed, effectVars, customerLock, courier, operatorVars, spent, yields>>
  BY EventTypes, EventFacts DEF ChangeSubscription, CloseRoute, EventsInv, EventsTyped, EventsTypeOK
<1>2. Grows
  BY <1>1, EventTypes DEF Grows, effectVars
<1>3. EventsTyped'
  <2>1. applied' \in 0..changed'
    BY <1>1, EventTypes DEF effectVars
  <2>2. \A k \in DOMAIN inbox' : inbox'[k] <= changed'
    <3>1. ASSUME NEW k \in DOMAIN inbox PROVE inbox[k] \in Nat /\ inbox[k] <= changed
      <4>1. inbox \in Seq(Events) /\ inbox[k] <= changed
        BY DEF EventsInv, EventsTyped
      <4>2. inbox[k] \in Events
        BY <4>1
      <4> QED
        BY <4>1, <4>2, EventFacts
    <3> QED
      BY <1>1, <3>1, EventTypes
  <2> QED
    BY <1>1, <2>1, <2>2 DEF EventsInv, EventsTyped, EventsTypeOK, effectVars, operatorVars
<1>4. ASSUME NEW e \in Events PROVE RowInv(e)' /\ ReviewInv(e)'
  BY <1>1, <1>2, RowStays DEF SameRow, operatorVars
<1>5. ASSUME NEW w \in Couriers PROVE CourierInv(w)' /\ PartsInv(w)'
  BY <1>1, <1>2, CourierStays DEF SameCourier, effectVars
<1> QED
  BY <1>3, <1>4, <1>5 DEF EventsInv

\* A webhook stores its event.
LEMMA StoreStep ==
  ASSUME EventsInv, NEW e \in Events, StoreEvent(e)
  PROVE  EventsInv'
<1>1. /\ e <= changed /\ event[e].status = "absent" /\ event' = [event EXCEPT ![e].status = "queued"] /\ inbox' = Append(inbox, e)
      /\ UNCHANGED <<providerVars, claimed, effectVars, customerLock, courier, operatorVars, spent, yields>>
  <2>1. e <= changed
    BY EventFacts, EventTypes DEF StoreEvent
  <2> QED
    BY <2>1 DEF StoreEvent
<1>2. event[e] \in EventRows /\ event[e].lease = "none"
  BY <1>1, EventTypes DEF EventsInv, EventsTyped, EventsTypeOK
<1>3. /\ event' \in [Events -> EventRows] /\ event'[e] = [event[e] EXCEPT !.status = "queued"]
      /\ \A d \in Events \ {e} : event'[d] = event[d]
  BY <1>1, <1>2, EventTypes DEF EventRows
<1>4. event'[e].status = "queued" /\ event'[e].lease = "none" /\ event'[e].attempts = event[e].attempts /\ event'[e].token = event[e].token
  BY <1>2, <1>3 DEF EventRows
<1>5. inbox' \in Seq(Events) /\ \A k \in DOMAIN inbox' : inbox'[k] <= changed
  <2>1. inbox \in Seq(Events) /\ \A k \in 1..Len(inbox) : inbox[k] <= changed
    BY DEF EventsInv, EventsTyped
  <2>2. /\ inbox' \in Seq(Events) /\ Len(inbox') = Len(inbox) + 1 /\ inbox'[Len(inbox) + 1] = e
        /\ \A k \in 1..Len(inbox) : inbox'[k] = inbox[k]
    BY <1>1, <2>1, AppendProperties
  <2>3. Len(inbox) \in Nat /\ DOMAIN inbox' = 1..(Len(inbox) + 1)
    BY <2>1, <2>2
  <2>4. ASSUME NEW k \in DOMAIN inbox' PROVE inbox'[k] <= changed
    <3>1. k \in 1..Len(inbox) \/ k = Len(inbox) + 1
      BY <2>3
    <3> QED
      BY <1>1, <2>1, <2>2, <3>1
  <2> QED
    BY <2>2, <2>4
<1>6. EventsTyped'
  <2>1. ASSUME NEW d \in Events PROVE event'[d].status = "processing" <=> event'[d].lease # "none"
    <3>1. event[d].status = "processing" <=> event[d].lease # "none"
      BY DEF EventsInv, EventsTyped, EventsTypeOK
    <3> QED
      BY <1>3, <1>4, <3>1
  <2> QED
    BY <1>1, <1>3, <1>5, <2>1 DEF EventsInv, EventsTyped, EventsTypeOK, EventRows, providerVars, effectVars, operatorVars
<1>7. RowInv(e)' /\ ReviewInv(e)'
  BY <1>1, <1>4 DEF EventsInv, RowInv, ReviewInv, Behind, operatorVars, effectVars
<1>8. \A d \in Events \ {e} : SameRow(d)
  BY <1>1, <1>3 DEF SameRow, operatorVars
<1> QED
  BY <1>1, <1>6, <1>7, <1>8, RowsStep

\* What a step does that only moves a lease or gives an event up.
LeaseMoves(e) ==
  /\ event'[e] \in EventRows /\ event'[e].attempts = event[e].attempts
  /\ event'[e].status = "completed" => event[e].status = "completed"
  /\ event'[e].status = "processing" => event[e].status = "processing"
  /\ event'[e].token # 0 => event'[e].status = "processing"
  /\ event'[e].status = "processing" <=> event'[e].lease # "none"

LEMMA LeaseRow ==
  ASSUME EventsInv, NEW e \in Events
  PROVE  /\ event'[e] = event[e] => LeaseMoves(e)
         /\ event[e].lease # "none" =>
              \A lease \in {"live", "expired"} : event'[e] = [event[e] EXCEPT !.lease = lease] => LeaseMoves(e)
         /\ event'[e] = [event[e] EXCEPT !.status = "failed", !.lease = "none", !.token = 0] => LeaseMoves(e)
<1>1. event[e] \in EventRows /\ (event[e].token # 0 => event[e].status = "processing")
      /\ (event[e].status = "processing" <=> event[e].lease # "none")
  BY EventTypes DEF EventsInv, EventsTyped, EventsTypeOK, RowInv
<1>2. event'[e] = event[e] => LeaseMoves(e)
  BY <1>1 DEF LeaseMoves
<1>3. ASSUME event[e].lease # "none", NEW lease \in {"live", "expired"}, event'[e] = [event[e] EXCEPT !.lease = lease]
      PROVE  LeaseMoves(e)
  BY <1>1, <1>3 DEF LeaseMoves, EventRows
<1>4. ASSUME event'[e] = [event[e] EXCEPT !.status = "failed", !.lease = "none", !.token = 0] PROVE LeaseMoves(e)
  <2>1. event'[e] \in EventRows
    <3>1. event[e].attempts \in 0..MaxEventAttempts /\ 0 \in Nat
      BY <1>1 DEF EventRows
    <3>2. event'[e] = [status |-> "failed", attempts |-> event[e].attempts, lease |-> "none", token |-> 0]
      BY <1>1, <1>4 DEF EventRows
    <3> QED
      BY <3>1, <3>2 DEF EventRows
  <2>2. event'[e].status = "failed" /\ event'[e].lease = "none" /\ event'[e].token = 0 /\ event'[e].attempts = event[e].attempts
    BY <1>1, <1>4 DEF EventRows
  <2> QED
    BY <2>1, <2>2 DEF LeaseMoves
<1> QED
  BY <1>2, <1>3, <1>4

\* Leases, and events that used up their budget in a worker that never came back.
LEMMA LeaseStep ==
  ASSUME EventsInv,
         FailExhaustedEvents \/ (\E e \in Events : ExpireLease(e)) \/ \E w \in Couriers : RenewLease(w)
  PROVE  EventsInv'
<1>1. event' \in [Events -> EventRows] /\ \A e \in Events : LeaseMoves(e)
  <2>1. CASE FailExhaustedEvents
    <3>1. event' = [e \in Events |->
            IF Exhausted(e) THEN [event[e] EXCEPT !.status = "failed", !.lease = "none", !.token = 0] ELSE event[e]]
      BY <2>1 DEF FailExhaustedEvents
    <3>2. ASSUME NEW e \in Events PROVE LeaseMoves(e)
      BY <3>1, LeaseRow
    <3> QED
      BY <3>1, <3>2 DEF LeaseMoves
  <2>2. ASSUME NEW e \in Events, NEW lease \in {"live", "expired"}, event[e].lease # "none", event' = [event EXCEPT ![e].lease = lease]
        PROVE  event' \in [Events -> EventRows] /\ \A d \in Events : LeaseMoves(d)
    <3>1. event \in [Events -> EventRows] /\ event'[e] = [event[e] EXCEPT !.lease = lease]
          /\ \A d \in Events \ {e} : event'[d] = event[d]
      BY <2>2, EventTypes
    <3>2. \A d \in Events : LeaseMoves(d)
      BY <2>2, <3>1, LeaseRow
    <3> QED
      BY <2>2, <3>1, <3>2 DEF LeaseMoves
  <2>3. ASSUME NEW w \in Couriers, RenewLease(w)
        PROVE  event' \in [Events -> EventRows] /\ \A d \in Events : LeaseMoves(d)
    <3>1. courier[w].event \in Events
      BY EventTypes DEF CourierRows
    <3> QED
      BY <2>2, <2>3, <3>1 DEF RenewLease
  <2> QED
    BY <2>1, <2>2, <2>3 DEF ExpireLease
<1>2. UNCHANGED <<providerVars, inbox, claimed, effectVars, customerLock, courier, operatorVars, spent>>
  BY DEF FailExhaustedEvents, ExpireLease, RenewLease
<1>3. EventsTyped'
  BY <1>1, <1>2 DEF EventsInv, EventsTyped, EventsTypeOK, EventRows, LeaseMoves, providerVars, effectVars, operatorVars
<1>4. ASSUME NEW e \in Events PROVE RowInv(e)' /\ ReviewInv(e)'
  <2>1. RowInv(e) /\ ReviewInv(e)
    BY DEF EventsInv
  <2> QED
    BY <1>1, <1>2, <2>1 DEF LeaseMoves, RowInv, ReviewInv, Behind, effectVars, operatorVars, providerVars
<1> QED
  BY <1>2, <1>3, <1>4, RowsStep

\* A claim: a new token, one attempt more, and everything still to do.
LEMMA ClaimStep ==
  ASSUME EventsInv, NEW w \in Couriers, ClaimEvent(w)
  PROVE  EventsInv'
<1>1. PICK k \in DOMAIN inbox :
        LET e == inbox[k]
        IN /\ courier[w].at = "idle" /\ Claimable(e)
           /\ claimed' = [claimed EXCEPT ![e] = @ + 1] /\ spent' = [spent EXCEPT ![e] = @ + 1]
           /\ event' = [event EXCEPT ![e] = [status |-> "processing", attempts |-> @.attempts + 1,
                                             lease |-> "live", token |-> claimed'[e]]]
           /\ courier' = [courier EXCEPT ![w] =
                [at |-> IF e = Email THEN "claimed" ELSE "working", event |-> e, token |-> claimed'[e],
                 todo |-> IF e = Email THEN {} ELSE PartsOf(e), failed |-> FALSE, seen |-> 0]]
  BY DEF ClaimEvent
<1>0. inbox[k] \in Events /\ inbox[k] <= changed
  <2>1. inbox \in Seq(Events) /\ inbox[k] <= changed
    BY DEF EventsInv, EventsTyped
  <2> QED
    BY <2>1
<1> PICK e \in Events : e = inbox[k]
  BY <1>0
<1> DEFINE row == [status |-> "processing", attempts |-> event[e].attempts + 1, lease |-> "live", token |-> claimed'[e]]
           begun == [at |-> IF e = Email THEN "claimed" ELSE "working", event |-> e, token |-> claimed'[e],
                     todo |-> IF e = Email THEN {} ELSE PartsOf(e), failed |-> FALSE, seen |-> 0]
<1>2. e \in Events /\ e <= changed
  BY <1>0
<1>3. /\ courier[w].at = "idle" /\ Claimable(e)
      /\ claimed' = [claimed EXCEPT ![e] = @ + 1] /\ spent' = [spent EXCEPT ![e] = @ + 1]
      /\ event' = [event EXCEPT ![e] = row] /\ courier' = [courier EXCEPT ![w] = begun]
      /\ UNCHANGED <<providerVars, inbox, effectVars, customerLock, operatorVars, yields>>
  BY <1>1 DEF ClaimEvent
<1>4. event[e] \in EventRows /\ event[e].attempts + 1 \in 0..MaxEventAttempts /\ event[e].attempts \in Nat
  <2>1. event[e].attempts \in 0..MaxEventAttempts /\ event[e].attempts < MaxEventAttempts
    BY <1>2, <1>3, EventTypes DEF EventRows, Claimable
  <2>2. event[e] \in EventRows
    BY EventTypes
  <2>3. event[e].attempts \in Nat /\ event[e].attempts + 1 <= MaxEventAttempts
    BY <2>1, EventFacts
  <2> QED
    BY <2>2, <2>3, EventFacts
<1>5. /\ claimed' \in [Events -> Nat] /\ claimed'[e] = claimed[e] + 1 /\ claimed[e] \in Nat
      /\ spent' \in [Events -> Nat] /\ spent'[e] = spent[e] + 1 /\ spent[e] \in Nat
  BY <1>2, <1>3, EventTypes
<1>6. row \in EventRows /\ row.status = "processing" /\ row.lease = "live" /\ row.attempts = event[e].attempts + 1
  BY <1>4, <1>5 DEF EventRows
<1>7. begun \in CourierRows
  <2>1. PartsOf(e) \subseteq Parts
    BY DEF PartsOf, Parts
  <2> QED
    BY <1>2, <1>5, <2>1 DEF CourierRows
<1>8. /\ begun.at = (IF e = Email THEN "claimed" ELSE "working") /\ begun.event = e /\ begun.token # 0 /\ begun.seen = 0
      /\ e = Email => begun.todo = {}
      /\ e # Email => begun.todo = {Reconciling} \cup (IF e \in WithCheckout THEN {Capturing} ELSE {})
  BY <1>5 DEF PartsOf
<1> HIDE DEF row, begun
<1>9. event' \in [Events -> EventRows] /\ event'[e] = row /\ \A d \in Events \ {e} : event'[d] = event[d]
  BY <1>2, <1>3, <1>6, EventTypes
<1>10. courier' \in [Couriers -> CourierRows] /\ courier'[w] = begun /\ \A u \in Couriers \ {w} : courier'[u] = courier[u]
  BY <1>3, <1>7, EventTypes
<1>11. Grows
  BY <1>3, EventTypes DEF Grows, providerVars, effectVars
<1>12. EventsTyped'
  <2>1. ASSUME NEW d \in Events PROVE event'[d].status = "processing" <=> event'[d].lease # "none"
    <3>1. event[d].status = "processing" <=> event[d].lease # "none"
      BY DEF EventsInv, EventsTyped, EventsTypeOK
    <3> QED
      BY <1>6, <1>9, <3>1
  <2> QED
    BY <1>3, <1>5, <1>9, <1>10, <2>1 DEF EventsInv, EventsTyped, EventsTypeOK, EventRows, providerVars, effectVars, operatorVars
<1>13. RowInv(e)' /\ ReviewInv(e)'
  <2>1. RowInv(e) /\ ReviewInv(e) /\ generation' = generation /\ reviewed' = reviewed
    BY <1>2, <1>3 DEF EventsInv, operatorVars
  <2>2. generation[e] \in Nat /\ MaxEventAttempts * generation[e] \in Nat
    BY <1>2, EventTypes, Budgets
  <2>3. reviewed[e] \subseteq 0..claimed'[e] /\ claimed'[e] \notin reviewed[e]
    BY <1>5, <2>1 DEF RowInv
  <2>4. event'[e].attempts # 0
    BY <1>4, <1>6, <1>9
  <2>5. RowInv(e)'
    BY <1>4, <1>5, <1>6, <1>9, <2>1, <2>2, <2>3, <2>4 DEF RowInv
  <2>6. Behind(e)' = reviewed[e]
    BY <2>1, <2>3, <2>4 DEF Behind
  <2>7. Cardinality(Behind(e)) <= Cardinality(reviewed[e]) /\ Cardinality(Behind(e)) \in Nat /\ Cardinality(reviewed[e]) \in Nat
    BY <1>2, ReviewsFinite
  <2>8. ReviewInv(e)'
    BY <2>1, <2>2, <2>6, <2>7 DEF ReviewInv
  <2> QED
    BY <2>5, <2>8
<1>14. ASSUME NEW d \in Events \ {e} PROVE RowInv(d)' /\ ReviewInv(d)'
  <2>1. SameRow(d)
    BY <1>3, <1>5, <1>9, EventTypes DEF SameRow, operatorVars
  <2> QED
    BY <1>11, <2>1, RowStays
<1>15. CourierInv(w)' /\ PartsInv(w)'
  <2>1. w \notin customerLock /\ customerLock' = customerLock /\ changed' = changed
    BY <1>3 DEF EventsInv, CourierInv, providerVars
  <2> QED
    BY <1>2, <1>8, <1>10, <2>1, EventFacts DEF CourierInv, PartsInv
<1>16. ASSUME NEW u \in Couriers \ {w} PROVE CourierInv(u)' /\ PartsInv(u)'
  <2>1. SameCourier(u)
    BY <1>3, <1>10 DEF SameCourier, effectVars
  <2> QED
    BY <1>11, <2>1, CourierStays
<1> QED
  BY <1>12, <1>13, <1>14, <1>15, <1>16 DEF EventsInv

\* Retrieving an email, or taking one of its items.
LEMMA EmailStep ==
  ASSUME EventsInv, NEW w \in Couriers, RetrieveEmail(w) \/ StopEarly(w) \/ \E i \in Items : TakeItem(w, i)
  PROVE  EventsInv'
<1> DEFINE r == courier[w]
<1>1. r \in CourierRows /\ CourierInv(w) /\ PartsInv(w) /\ courier \in [Couriers -> CourierRows]
  BY EventTypes DEF EventsInv
<1>2. CASE RetrieveEmail(w)
  <2>1. r.at = "claimed" /\ r.event = Email /\ UNCHANGED <<providerVars, inbox, event, claimed, effectVars, customerLock, operatorVars, spent>>
    BY <1>1, <1>2 DEF RetrieveEmail, CourierInv
  <2>2. PartsOf(Email) \subseteq Items /\ \A i \in Items : i \in PartsOf(Email) \/ Route(i) \in closedRoutes
    BY DEF PartsOf
  <2>3. \/ courier' = [courier EXCEPT ![w] = [r EXCEPT !.at = "working", !.todo = PartsOf(Email)]]
        \/ courier' = [courier EXCEPT ![w] = [r EXCEPT !.at = "settling", !.failed = TRUE]]
    BY <1>1, <1>2 DEF RetrieveEmail
  <2>4. /\ courier' \in [Couriers -> CourierRows] /\ \A u \in Couriers \ {w} : courier'[u] = courier[u]
        /\ courier'[w].event = Email /\ courier'[w].token = r.token /\ courier'[w].seen = r.seen
        /\ \/ courier'[w].at = "working" /\ courier'[w].todo = PartsOf(Email)
           \/ courier'[w].at = "settling" /\ courier'[w].todo = r.todo /\ courier'[w].failed
    <3>1. PartsOf(Email) \in SUBSET Parts
      BY <2>2 DEF Parts
    <3>2. [r EXCEPT !.at = "working", !.todo = PartsOf(Email)] \in CourierRows
      BY <1>1, <3>1 DEF CourierRows
    <3>3. [r EXCEPT !.at = "settling", !.failed = TRUE] \in CourierRows
      BY <1>1 DEF CourierRows
    <3>4. CASE courier' = [courier EXCEPT ![w] = [r EXCEPT !.at = "working", !.todo = PartsOf(Email)]]
      BY <1>1, <2>1, <3>2, <3>4 DEF CourierRows
    <3>5. CASE courier' = [courier EXCEPT ![w] = [r EXCEPT !.at = "settling", !.failed = TRUE]]
      <4>1. courier'[w] = [r EXCEPT !.at = "settling", !.failed = TRUE] /\ \A u \in Couriers \ {w} : courier'[u] = courier[u]
        BY <1>1, <3>5
      <4>2. courier'[w].at = "settling" /\ courier'[w].todo = r.todo /\ courier'[w].failed = TRUE
            /\ courier'[w].event = Email /\ courier'[w].token = r.token /\ courier'[w].seen = r.seen
        BY <1>1, <2>1, <4>1 DEF CourierRows
      <4> QED
        BY <1>1, <3>3, <3>5, <4>1, <4>2
    <3> QED
      BY <2>3, <3>4, <3>5
  <2>5. CourierInv(w)' /\ PartsInv(w)'
    BY <1>1, <2>1, <2>2, <2>4, EventFacts DEF CourierInv, PartsInv, providerVars, effectVars
  <2>6. Grows /\ \A u \in Couriers \ {w} : SameCourier(u)
    BY <2>1, <2>4, EventTypes DEF Grows, SameCourier, providerVars, effectVars
  <2> QED
    BY <2>1, <2>4, <2>5, <2>6, EventTypes, CourierStep DEF EventsInv, EventsTyped, EventsTypeOK, providerVars, effectVars
<1>3. CASE StopEarly(w)
  <2>1. r.at = "working" /\ r.event = Email /\ UNCHANGED <<providerVars, inbox, event, claimed, effectVars, customerLock, operatorVars, spent>>
    BY <1>3 DEF StopEarly
  <2>2. \/ courier' = [courier EXCEPT ![w] = [r EXCEPT !.at = "settling"]]
        \/ courier' = [courier EXCEPT ![w] = [r EXCEPT !.at = "settling", !.failed = TRUE]]
    BY <1>1, <1>3 DEF StopEarly
  <2>3. /\ courier' \in [Couriers -> CourierRows] /\ \A u \in Couriers \ {w} : courier'[u] = courier[u]
        /\ courier'[w].event = Email /\ courier'[w].token = r.token /\ courier'[w].seen = r.seen /\ courier'[w].todo = r.todo
        /\ courier'[w].at = "settling" /\ (~courier'[w].failed => ~r.failed)
    <3>1. [r EXCEPT !.at = "settling"] \in CourierRows /\ [r EXCEPT !.at = "settling", !.failed = TRUE] \in CourierRows
      BY <1>1 DEF CourierRows
    <3>2. CASE courier' = [courier EXCEPT ![w] = [r EXCEPT !.at = "settling"]]
      BY <1>1, <2>1, <3>1, <3>2 DEF CourierRows
    <3>3. CASE courier' = [courier EXCEPT ![w] = [r EXCEPT !.at = "settling", !.failed = TRUE]]
      <4>1. courier'[w] = [r EXCEPT !.at = "settling", !.failed = TRUE] /\ \A u \in Couriers \ {w} : courier'[u] = courier[u]
        BY <1>1, <3>3
      <4>2. courier'[w].at = "settling" /\ courier'[w].todo = r.todo /\ courier'[w].failed = TRUE
            /\ courier'[w].event = Email /\ courier'[w].token = r.token /\ courier'[w].seen = r.seen
        BY <1>1, <2>1, <4>1 DEF CourierRows
      <4> QED
        BY <1>1, <3>1, <3>3, <4>1, <4>2
    <3> QED
      BY <2>2, <3>2, <3>3
  <2>4. w \notin customerLock
    BY <1>1, <2>1, EventFacts DEF CourierInv
  <2>5. CourierInv(w)' /\ PartsInv(w)'
    BY <1>1, <2>1, <2>3, <2>4, EventFacts DEF CourierInv, PartsInv, providerVars, effectVars
  <2>6. Grows /\ \A u \in Couriers \ {w} : SameCourier(u)
    BY <2>1, <2>3, EventTypes DEF Grows, SameCourier, providerVars, effectVars
  <2> QED
    BY <2>1, <2>3, <2>5, <2>6, EventTypes, CourierStep DEF EventsInv, EventsTyped, EventsTypeOK, providerVars, effectVars
<1>4. ASSUME NEW i \in Items, TakeItem(w, i) PROVE EventsInv'
  <2>1. r.at = "working" /\ i \in r.todo /\ UNCHANGED <<providerVars, inbox, event, claimed, applied, evidence, customerLock, operatorVars, spent>>
    BY <1>4 DEF TakeItem
  <2>2. PICK ok \in BOOLEAN : Tried(w, i, ok) /\ received' \in {received, received \cup {i}} /\ (ok => i \in received')
    BY <1>4 DEF TakeItem
  <2>3. r.event = Email /\ w \notin customerLock
    BY <1>1, <2>1, EventFacts DEF CourierInv
  <2>4. /\ courier' \in [Couriers -> CourierRows] /\ \A u \in Couriers \ {w} : courier'[u] = courier[u]
        /\ courier'[w].at = "working" /\ courier'[w].event = Email /\ courier'[w].token = r.token
        /\ courier'[w].todo = r.todo \ {i} /\ courier'[w].seen = 0 /\ (~courier'[w].failed => ok /\ ~r.failed)
    BY <2>1, <2>2, <2>3, TriedRow
  <2>5. CourierInv(w)'
    BY <1>1, <2>1, <2>3, <2>4, EventFacts DEF CourierInv, providerVars
  <2>6. PartsInv(w)'
    BY <1>1, <2>1, <2>2, <2>3, <2>4 DEF PartsInv, providerVars
  <2>7. Grows /\ \A u \in Couriers \ {w} : SameCourier(u)
    BY <2>1, <2>2, <2>4, EventTypes DEF Grows, SameCourier, providerVars
  <2> QED
    BY <2>1, <2>2, <2>4, <2>5, <2>6, <2>7, EventTypes, CourierStep DEF EventsInv, EventsTyped, EventsTypeOK, providerVars
<1> QED
  BY <1>2, <1>3, <1>4

\* A Stripe event's two parts. The lock makes the list that is written the latest.
LEMMA StripeStep ==
  ASSUME EventsInv, NEW w \in Couriers,
         Capture(w) \/ LockCustomer(w) \/ ListSubscriptions(w) \/ WritePlan(w) \/ ReconcileFails(w)
  PROVE  EventsInv'
<1> DEFINE r == courier[w]
<1>1. r \in CourierRows /\ CourierInv(w) /\ PartsInv(w) /\ courier \in [Couriers -> CourierRows]
      /\ r.event \in Nat /\ r.seen \in Nat /\ customerLock \subseteq Couriers /\ \A u, v \in customerLock : u = v
  BY EventFacts, EventTypes DEF EventsInv, EventsTyped, EventsTypeOK, CourierRows
<1>2. UNCHANGED <<provider, changed, closedRoutes, inbox, event, claimed, operatorVars, spent, received>>
  BY DEF Capture, LockCustomer, ListSubscriptions, WritePlan, ReconcileFails, providerVars, effectVars
<1>3. changed \in Nat /\ applied \in Nat /\ applied <= changed /\ evidence \subseteq WithCheckout /\ received \subseteq Items
  BY EventTypes DEF EventsInv, EventsTyped, EventsTypeOK
<1>4. r.at = "working" /\ r.event # Email
  BY <1>1, EventFacts DEF Capture, LockCustomer, ListSubscriptions, WritePlan, ReconcileFails, CourierInv
<1>5. CASE Capture(w)
  <2>1. PICK ok \in BOOLEAN : Tried(w, Capturing, ok) /\ evidence' \in {evidence, evidence \cup {r.event}} /\ (ok => r.event \in evidence')
    BY <1>5 DEF Capture
  <2>2. Capturing \in r.todo /\ r.event \in WithCheckout /\ UNCHANGED <<applied, customerLock>>
    BY <1>1, <1>5 DEF Capture, CourierInv
  <2>3. /\ courier' \in [Couriers -> CourierRows] /\ \A u \in Couriers \ {w} : courier'[u] = courier[u]
        /\ courier'[w].at = "working" /\ courier'[w].event = r.event /\ courier'[w].token = r.token
        /\ courier'[w].todo = r.todo \ {Capturing} /\ courier'[w].seen = 0 /\ (~courier'[w].failed => ok /\ ~r.failed)
    BY <1>4, <2>1, TriedRow
  <2>4. CourierInv(w)'
    BY <1>1, <1>2, <1>4, <2>2, <2>3, EventFacts DEF CourierInv
  <2>5. PartsInv(w)'
    BY <1>1, <1>2, <1>4, <2>1, <2>2, <2>3, EventFacts DEF PartsInv
  <2>6. Grows /\ \A u \in Couriers \ {w} : SameCourier(u)
    BY <1>2, <1>3, <2>1, <2>2, <2>3 DEF Grows, SameCourier
  <2> QED
    BY <1>1, <1>2, <1>3, <2>1, <2>2, <2>3, <2>4, <2>5, <2>6, CourierStep
<1>6. CASE LockCustomer(w)
  <2>1. Reconciling \in r.todo /\ customerLock = {} /\ customerLock' = {w} /\ UNCHANGED <<applied, evidence, courier>>
    BY <1>6 DEF LockCustomer, effectVars
  <2>2. CourierInv(w)' /\ PartsInv(w)'
    BY <1>1, <1>2, <1>4, <2>1 DEF CourierInv, PartsInv
  <2>3. Grows /\ \A u \in Couriers \ {w} : SameCourier(u)
    BY <1>2, <1>3, <2>1 DEF Grows, SameCourier
  <2> QED
    BY <1>1, <1>2, <1>3, <2>1, <2>2, <2>3, CourierStep
<1>7. CASE ListSubscriptions(w)
  <2>1. w \in customerLock /\ courier' = [courier EXCEPT ![w] = [r EXCEPT !.seen = changed]] /\ UNCHANGED <<applied, evidence, customerLock>>
    BY <1>1, <1>7 DEF ListSubscriptions, MayList, effectVars
  <2>2. /\ courier' \in [Couriers -> CourierRows] /\ \A u \in Couriers \ {w} : courier'[u] = courier[u]
        /\ courier'[w].at = "working" /\ courier'[w].event = r.event /\ courier'[w].token = r.token
        /\ courier'[w].todo = r.todo /\ courier'[w].seen = changed /\ courier'[w].failed = r.failed
    BY <1>1, <1>3, <1>4, <2>1 DEF CourierRows
  <2>3. CourierInv(w)' /\ PartsInv(w)'
    BY <1>1, <1>2, <1>3, <1>4, <2>1, <2>2 DEF CourierInv, PartsInv
  <2>4. Grows /\ \A u \in Couriers \ {w} : SameCourier(u)
    BY <1>2, <1>3, <2>1, <2>2 DEF Grows, SameCourier
  <2> QED
    BY <1>1, <1>2, <1>3, <2>1, <2>2, <2>3, <2>4, CourierStep
<1>8. CASE WritePlan(w)
  <2>1. w \in customerLock /\ r.seen # 0 /\ applied' = r.seen /\ customerLock' = {} /\ Tried(w, Reconciling, TRUE) /\ UNCHANGED evidence
    BY <1>8 DEF WritePlan
  <2>2. applied <= r.seen /\ r.event <= r.seen /\ r.seen <= changed /\ \A u \in Couriers \ {w} : u \notin customerLock
    BY <1>1, <2>1 DEF CourierInv
  <2>3. /\ courier' \in [Couriers -> CourierRows] /\ \A u \in Couriers \ {w} : courier'[u] = courier[u]
        /\ courier'[w].at = "working" /\ courier'[w].event = r.event /\ courier'[w].token = r.token
        /\ courier'[w].todo = r.todo \ {Reconciling} /\ courier'[w].seen = 0 /\ (~courier'[w].failed => ~r.failed)
    BY <1>4, <2>1, TriedRow
  <2>4. CourierInv(w)' /\ PartsInv(w)'
    BY <1>1, <1>2, <1>3, <1>4, <2>1, <2>2, <2>3, EventFacts DEF CourierInv, PartsInv
  <2>5. Grows /\ \A u \in Couriers \ {w} : SameCourier(u)
    BY <1>1, <1>2, <1>3, <2>1, <2>2, <2>3 DEF Grows, SameCourier
  <2> QED
    BY <1>1, <1>2, <1>3, <2>1, <2>2, <2>3, <2>4, <2>5, CourierStep
<1>9. CASE ReconcileFails(w)
  <2>1. customerLock' = customerLock \ {w} /\ Tried(w, Reconciling, FALSE) /\ UNCHANGED <<applied, evidence>>
    BY <1>9 DEF ReconcileFails, effectVars
  <2>2. /\ courier' \in [Couriers -> CourierRows] /\ \A u \in Couriers \ {w} : courier'[u] = courier[u]
        /\ courier'[w].at = "working" /\ courier'[w].event = r.event /\ courier'[w].token = r.token
        /\ courier'[w].todo = r.todo \ {Reconciling} /\ courier'[w].seen = 0 /\ courier'[w].failed
    BY <1>4, <2>1, TriedRow
  <2>3. CourierInv(w)' /\ PartsInv(w)'
    BY <1>1, <1>2, <1>3, <1>4, <2>1, <2>2, EventFacts DEF CourierInv, PartsInv
  <2>4. Grows /\ \A u \in Couriers \ {w} : SameCourier(u)
    BY <1>1, <1>2, <1>3, <2>1, <2>2 DEF Grows, SameCourier
  <2> QED
    BY <1>1, <1>2, <1>3, <2>1, <2>2, <2>3, <2>4, CourierStep
<1> QED
  BY <1>5, <1>6, <1>7, <1>8, <1>9

\* A process stops; the database releases its lock.
LEMMA StopStep ==
  ASSUME EventsInv, NEW w \in Couriers, StopCourier(w)
  PROVE  EventsInv'
<1>1. /\ courier' = [courier EXCEPT ![w] = Idle] /\ customerLock' = customerLock \ {w}
      /\ UNCHANGED <<providerVars, inbox, event, claimed, effectVars, operatorVars, spent>>
  BY DEF StopCourier
<1>2. courier' \in [Couriers -> CourierRows] /\ courier'[w] = Idle /\ \A u \in Couriers \ {w} : courier'[u] = courier[u]
  BY <1>1, EventFacts, EventTypes
<1>3. CourierInv(w)' /\ PartsInv(w)'
  BY <1>1, <1>2, EventFacts DEF CourierInv, PartsInv, Idle
<1>4. Grows /\ \A u \in Couriers \ {w} : SameCourier(u)
  BY <1>1, <1>2, EventTypes DEF Grows, SameCourier, providerVars, effectVars
<1>5. /\ applied' <= changed /\ evidence' \subseteq WithCheckout /\ received' \subseteq Items
      /\ customerLock' \subseteq Couriers /\ \A u, v \in customerLock' : u = v
  BY <1>1, EventTypes DEF EventsInv, EventsTyped, EventsTypeOK, effectVars
<1> QED
  BY <1>1, <1>2, <1>3, <1>4, <1>5, CourierStep DEF providerVars

\* The last update: only of a claim that still counts, and "completed" only if every part was done.
LEMMA SettleStep ==
  ASSUME EventsInv, NEW w \in Couriers, NEW e \in Events, e = courier[w].event, Settle(w)
  PROVE  EventsInv'
<1> DEFINE r == courier[w]
<1>1. r \in CourierRows /\ CourierInv(w) /\ PartsInv(w) /\ e \in Events /\ event[e] \in EventRows /\ RowInv(e) /\ ReviewInv(e)
  BY EventTypes DEF EventsInv, CourierRows
<1>2. /\ r.at = "settling" \/ (r.at = "working" /\ r.todo = {})
      /\ courier' = [courier EXCEPT ![w] = Idle]
      /\ UNCHANGED <<providerVars, inbox, claimed, effectVars, customerLock, operatorVars, yields>>
  BY DEF Settle
<1>3. courier' \in [Couriers -> CourierRows] /\ courier'[w] = Idle /\ \A u \in Couriers \ {w} : courier'[u] = courier[u]
  BY <1>2, EventFacts, EventTypes
<1>4. Grows
  BY <1>2, EventTypes DEF Grows, providerVars, effectVars
<1>5. ASSUME NEW u \in Couriers PROVE CourierInv(u)' /\ PartsInv(u)'
  <2>1. CASE u = w
    <3>1. w \notin customerLock /\ customerLock' = customerLock
      BY <1>1, <1>2 DEF CourierInv
    <3> QED
      BY <1>3, <2>1, <3>1, EventFacts DEF CourierInv, PartsInv, Idle
  <2>2. CASE u # w
    BY <1>2, <1>3, <1>4, <2>2, CourierStays DEF SameCourier, effectVars
  <2> QED
    BY <2>1, <2>2
<1>6. CASE ~Owns(w)
  <2>1. UNCHANGED <<event, spent>>
    BY <1>6 DEF Settle
  <2>2. EventsTyped'
    BY <1>2, <1>3, <2>1 DEF EventsInv, EventsTyped, EventsTypeOK, providerVars, effectVars, operatorVars
  <2>3. ASSUME NEW d \in Events PROVE RowInv(d)' /\ ReviewInv(d)'
    BY <1>2, <1>4, <2>1, RowStays DEF SameRow, operatorVars
  <2> QED
    BY <1>5, <2>2, <2>3 DEF EventsInv
<1>7. CASE Owns(w)
  <2>1. event[e].status = "processing" /\ event[e].attempts # 0 /\ event[e].attempts \in 0..MaxEventAttempts
        /\ event[e].attempts \in Nat /\ event[e].attempts - 1 \in 0..MaxEventAttempts
    <3>1. event[e].token # 0
      BY <1>1, <1>2, <1>7 DEF Owns, CourierInv
    <3>2. event[e].status = "processing" /\ event[e].attempts # 0 /\ event[e].attempts \in 0..MaxEventAttempts
      BY <1>1, <3>1 DEF RowInv, EventRows
    <3> QED
      BY <3>2, EventFacts
  <2>2. spent[e] \in Nat /\ generation[e] \in Nat /\ MaxEventAttempts * generation[e] \in Nat
        /\ spent[e] = event[e].attempts + MaxEventAttempts * generation[e] /\ spent[e] - 1 \in Nat
    <3>1. spent[e] \in Nat /\ generation[e] \in Nat /\ MaxEventAttempts * generation[e] \in Nat
          /\ spent[e] = event[e].attempts + MaxEventAttempts * generation[e]
      BY <1>1, EventTypes, Budgets DEF RowInv
    <3> QED
      BY <2>1, <3>1
  <2>3. ASSUME NEW status \in {"completed", "retry", "failed"}, NEW attempts \in {event[e].attempts, event[e].attempts - 1},
               event' = [event EXCEPT ![e] = [status |-> status, attempts |-> attempts, lease |-> "none", token |-> 0]],
               spent' \in [Events -> Nat], \A d \in Events \ {e} : spent'[d] = spent[d],
               RowInv(e)', ReviewInv(e)'
        PROVE  EventsInv'
    <3>1. [status |-> status, attempts |-> attempts, lease |-> "none", token |-> 0] \in EventRows
      BY <2>1 DEF EventRows
    <3>2. event' \in [Events -> EventRows] /\ \A d \in Events \ {e} : event'[d] = event[d]
      BY <1>1, <2>3, <3>1, EventTypes
    <3>3. event'[e].status = status /\ event'[e].lease = "none"
      BY <1>1, <2>3, EventTypes
    <3>4. ASSUME NEW d \in Events PROVE event'[d].status = "processing" <=> event'[d].lease # "none"
      <4>1. event[d].status = "processing" <=> event[d].lease # "none"
        BY DEF EventsInv, EventsTyped, EventsTypeOK
      <4> QED
        BY <3>2, <3>3, <4>1
    <3>5. EventsTyped'
      BY <1>2, <1>3, <2>3, <3>2, <3>4 DEF EventsInv, EventsTyped, EventsTypeOK, EventRows, providerVars, effectVars, operatorVars
    <3>6. ASSUME NEW d \in Events PROVE RowInv(d)' /\ ReviewInv(d)'
      BY <1>2, <1>4, <2>3, <3>2, RowStays DEF SameRow, operatorVars
    <3> QED
      BY <1>5, <3>5, <3>6 DEF EventsInv
  <2> DEFINE free == [event[e] EXCEPT !.lease = "none", !.token = 0]
  <2>4. /\ spent' = IF Outcome(w) = "yielded" THEN [spent EXCEPT ![e] = @ - 1] ELSE spent
        /\ event' = [event EXCEPT ![e] =
             CASE Outcome(w) = "ok" -> [free EXCEPT !.status = "completed"]
               [] Outcome(w) = "yielded" -> [free EXCEPT !.status = "retry", !.attempts = @ - 1]
               [] OTHER -> [free EXCEPT !.status = IF free.attempts >= MaxEventAttempts THEN "failed" ELSE "retry"]]
    BY <1>7 DEF Settle
  <2>5. /\ [free EXCEPT !.status = "completed"] = [status |-> "completed", attempts |-> event[e].attempts, lease |-> "none", token |-> 0]
        /\ [free EXCEPT !.status = "retry", !.attempts = @ - 1]
             = [status |-> "retry", attempts |-> event[e].attempts - 1, lease |-> "none", token |-> 0]
        /\ \A status \in {"failed", "retry"} :
             [free EXCEPT !.status = status] = [status |-> status, attempts |-> event[e].attempts, lease |-> "none", token |-> 0]
    <3>1. \A status : [free EXCEPT !.status = status] = [status |-> status, attempts |-> event[e].attempts, lease |-> "none", token |-> 0]
      BY <1>1, FreedRow
    <3>2. [free EXCEPT !.status = "retry", !.attempts = @ - 1]
            = [status |-> "retry", attempts |-> event[e].attempts - 1, lease |-> "none", token |-> 0]
      <4>1. free.attempts = event[e].attempts
        BY <1>1 DEF EventRows
      <4>2. [free EXCEPT !.status = "retry", !.attempts = @ - 1] = [free EXCEPT !.status = "retry", !.attempts = event[e].attempts - 1]
        BY <4>1
      <4>3. \A n : [free EXCEPT !.status = "retry", !.attempts = n]
                     = [status |-> "retry", attempts |-> n, lease |-> "none", token |-> 0]
        BY <1>1, FreedRow
      <4>4. [free EXCEPT !.status = "retry", !.attempts = event[e].attempts - 1]
              = [status |-> "retry", attempts |-> event[e].attempts - 1, lease |-> "none", token |-> 0]
        BY <4>3
      <4> HIDE DEF free
      <4> QED
        BY <4>2, <4>4
    <3> QED
      BY <3>1, <3>2
  <2> HIDE DEF free
  <2>6. CASE Outcome(w) = "ok"
    <3>1. ~r.failed /\ r.todo = {}
      BY <2>6 DEF Outcome
    <3>2. event' = [event EXCEPT ![e] = [status |-> "completed", attempts |-> event[e].attempts, lease |-> "none", token |-> 0]]
          /\ spent' = spent
      BY <2>4, <2>5, <2>6
    <3>3. event'[e] = [status |-> "completed", attempts |-> event[e].attempts, lease |-> "none", token |-> 0]
      BY <1>1, <3>2, EventTypes
    <3>4. IF e = Email THEN \A i \in Items : i \in received \/ Route(i) \in closedRoutes
          ELSE e <= applied /\ (e \in WithCheckout => e \in evidence)
      BY <1>1, <1>2, <3>1 DEF PartsInv
    <3>5. RowInv(e)'
      BY <1>1, <1>2, <2>2, <3>2, <3>3, <3>4 DEF RowInv, providerVars, effectVars, operatorVars
    <3>6. ReviewInv(e)'
      BY <1>1, <1>2, <3>3 DEF ReviewInv, Behind, operatorVars
    <3> QED
      BY <2>3, <3>2, <3>5, <3>6, EventTypes
  <2>7. CASE Outcome(w) = "yielded"
    <3>1. e = Email
      BY <1>1, <1>2, <2>7 DEF Outcome, CourierInv
    <3>2. event' = [event EXCEPT ![e] = [status |-> "retry", attempts |-> event[e].attempts - 1, lease |-> "none", token |-> 0]]
          /\ spent' = [spent EXCEPT ![e] = @ - 1]
      BY <2>4, <2>5, <2>7
    <3>3. event'[e] = [status |-> "retry", attempts |-> event[e].attempts - 1, lease |-> "none", token |-> 0]
          /\ spent' \in [Events -> Nat] /\ spent'[e] = spent[e] - 1 /\ \A d \in Events \ {e} : spent'[d] = spent[d]
      BY <1>1, <2>2, <3>2, EventTypes
    <3>4. RowInv(e)'
      BY <1>1, <1>2, <2>1, <2>2, <3>3 DEF RowInv, providerVars, effectVars, operatorVars
    <3>5. ReviewInv(e)'
      BY <1>1, <1>2, <3>1 DEF ReviewInv, operatorVars
    <3> QED
      BY <2>3, <3>2, <3>3, <3>4, <3>5
  <2>8. CASE Outcome(w) \notin {"ok", "yielded"}
    <3>1. PICK status \in {"failed", "retry"} :
            event' = [event EXCEPT ![e] = [status |-> status, attempts |-> event[e].attempts, lease |-> "none", token |-> 0]]
      BY <2>4, <2>5, <2>8
    <3>2. spent' = spent
      BY <2>4, <2>8
    <3>3. event'[e] = [status |-> status, attempts |-> event[e].attempts, lease |-> "none", token |-> 0]
      BY <1>1, <3>1, EventTypes
    <3>4. RowInv(e)'
      BY <1>1, <1>2, <2>2, <3>2, <3>3 DEF RowInv, providerVars, effectVars, operatorVars
    <3>5. ReviewInv(e)'
      BY <1>1, <1>2, <3>3 DEF ReviewInv, Behind, operatorVars
    <3> QED
      BY <2>3, <3>1, <3>2, <3>4, <3>5, EventTypes
  <2> QED
    BY <2>6, <2>7, <2>8
<1> QED
  BY <1>6, <1>7

\* An operator inspects a failure.
LEMMA InspectStep ==
  ASSUME EventsInv, NEW e \in Events, Inspect(e)
  PROVE  EventsInv'
<1>1. /\ e # Email /\ event[e].attempts # 0
      /\ reviews' = reviews \cup {<<e, Digest(e)>>} /\ reviewed' = [reviewed EXCEPT ![e] = @ \cup {claimed[e]}]
      /\ UNCHANGED <<providerVars, inbox, event, claimed, effectVars, customerLock, courier, generation, spent, yields>>
  <2>1. event[e].attempts \in Nat /\ event[e].attempts >= MaxEventAttempts
    BY EventTypes, EventFacts DEF Inspect, Eligible, EventRows
  <2> QED
    BY <2>1, EventFacts DEF Inspect
<1>2. claimed[e] \in Nat /\ reviewed[e] \subseteq Nat /\ Digest(e).version = claimed[e]
  BY EventTypes DEF Digest
<1>3. reviewed' \in [Events -> SUBSET Nat] /\ reviewed'[e] = reviewed[e] \cup {claimed[e]}
      /\ \A d \in Events \ {e} : reviewed'[d] = reviewed[d]
  BY <1>1, <1>2, EventTypes
<1>4. EventsTyped'
  <2>1. ASSUME NEW r \in reviews' PROVE r[1] \in Events /\ r[1] # Email /\ r[2].version \in reviewed'[r[1]]
    <3>1. CASE r \in reviews
      BY <1>3, <3>1 DEF EventsInv, EventsTyped
    <3>2. CASE r = <<e, Digest(e)>>
      BY <1>1, <1>2, <1>3, <3>2
    <3> QED
      BY <1>1, <3>1, <3>2
  <2> QED
    BY <1>1, <1>3, <2>1 DEF EventsInv, EventsTyped, EventsTypeOK, providerVars, effectVars
<1>5. RowInv(e)' /\ ReviewInv(e)'
  <2>1. RowInv(e) /\ ReviewInv(e)
    BY DEF EventsInv
  <2>2. claimed[e] \in 0..claimed[e]
    BY <1>2
  <2>3. Behind(e)' = Behind(e)
    BY <1>1, <1>3 DEF Behind
  <2> QED
    BY <1>1, <1>3, <2>1, <2>2, <2>3 DEF RowInv, ReviewInv, providerVars, effectVars
<1>6. \A d \in Events \ {e} : SameRow(d)
  BY <1>1, <1>3 DEF SameRow
<1> QED
  BY <1>1, <1>4, <1>5, <1>6, RowsStep

\* A recovery uses up the inspection of the failure it recovers from.
LEMMA RecoverStep ==
  ASSUME EventsInv, NEW e \in Events, Recover(e)
  PROVE  EventsInv'
<1> DEFINE row == [Fresh EXCEPT !.status = "retry"]
<1>1. /\ <<e, Digest(e)>> \in reviews /\ Eligible(e) /\ event' = [event EXCEPT ![e] = row]
      /\ generation' = [generation EXCEPT ![e] = @ + 1]
      /\ UNCHANGED <<providerVars, inbox, claimed, effectVars, customerLock, courier, reviews, reviewed, spent, yields>>
  BY DEF Recover
<1>2. row \in EventRows /\ row.status = "retry" /\ row.attempts = 0 /\ row.lease = "none" /\ row.token = 0
  BY EventFacts DEF Fresh, EventRows
<1> HIDE DEF row
<1>3. e # Email /\ claimed[e] \in reviewed[e]
  <2>1. Digest(e).version = claimed[e] /\ <<e, Digest(e)>>[1] = e /\ <<e, Digest(e)>>[2] = Digest(e)
    BY DEF Digest
  <2> QED
    BY <1>1, <2>1 DEF EventsInv, EventsTyped
<1>4. event[e].attempts = MaxEventAttempts
  <2>1. event[e].attempts \in 0..MaxEventAttempts /\ event[e].attempts >= MaxEventAttempts
    BY <1>1, EventTypes DEF Eligible, EventRows
  <2> QED
    BY <2>1, EventFacts
<1>5. event' \in [Events -> EventRows] /\ event'[e] = row /\ \A d \in Events \ {e} : event'[d] = event[d]
  BY <1>1, <1>2, EventTypes
<1>6. /\ generation' \in [Events -> Nat] /\ generation[e] \in Nat /\ generation'[e] = generation[e] + 1
      /\ \A d \in Events \ {e} : generation'[d] = generation[d]
  BY <1>1, EventTypes
<1>7. EventsTyped'
  <2>1. ASSUME NEW d \in Events PROVE event'[d].status = "processing" <=> event'[d].lease # "none"
    <3>1. event[d].status = "processing" <=> event[d].lease # "none"
      BY DEF EventsInv, EventsTyped, EventsTypeOK
    <3> QED
      BY <1>2, <1>5, <3>1
  <2>2. EventsTypeOK'
    BY <1>1, <1>5, <2>1 DEF EventsInv, EventsTyped, EventsTypeOK, EventRows, providerVars, effectVars
  <2> QED
    BY <1>1, <1>6, <2>2 DEF EventsInv, EventsTyped, providerVars
<1>8. RowInv(e)' /\ ReviewInv(e)'
  <2>1. RowInv(e) /\ ReviewInv(e)
    BY DEF EventsInv
  <2>2. MaxEventAttempts * generation'[e] = MaxEventAttempts * generation[e] + MaxEventAttempts
        /\ MaxEventAttempts * generation[e] \in Nat
    BY <1>6, Budgets
  <2>3. spent'[e] = 0 + MaxEventAttempts * generation'[e]
    BY <1>1, <1>4, <2>1, <2>2, EventFacts DEF RowInv
  <2>4. RowInv(e)'
    BY <1>1, <1>2, <1>5, <2>1, <2>3 DEF RowInv, providerVars, effectVars
  <2>5. Behind(e) = reviewed[e] \ {claimed[e]} /\ Behind(e)' = reviewed[e]
    BY <1>1, <1>2, <1>4, <1>5, EventFacts DEF Behind
  <2>6. IsFiniteSet(reviewed[e]) /\ Cardinality(reviewed[e]) \in Nat
    BY ReviewsFinite
  <2>7. Cardinality(reviewed[e] \ {claimed[e]}) = Cardinality(reviewed[e]) - 1
    BY <1>3, <2>6, FS_RemoveElement
  <2>8. ReviewInv(e)'
    BY <1>3, <1>6, <2>1, <2>5, <2>6, <2>7 DEF ReviewInv
  <2> QED
    BY <2>4, <2>8
<1>9. \A d \in Events \ {e} : SameRow(d)
  BY <1>1, <1>5, <1>6 DEF SameRow
<1> QED
  BY <1>1, <1>7, <1>8, <1>9, RowsStep

LEMMA EventsStep == EventsInv /\ [EventsNext]_eventsVars => EventsInv'
<1> SUFFICES ASSUME EventsInv, [EventsNext]_eventsVars PROVE EventsInv'
  OBVIOUS
<1>1. CASE UNCHANGED eventsVars
  <2>1. UNCHANGED <<providerVars, inbox, event, claimed, effectVars, customerLock, courier, operatorVars, spent>>
    BY <1>1 DEF eventsVars
  <2>2. EventsTyped'
    BY <2>1 DEF EventsInv, EventsTyped, EventsTypeOK, providerVars, effectVars, operatorVars
  <2> QED
    BY <2>1, <2>2, RowsStep DEF SameRow, operatorVars
<1>2. CASE EventsNext
  <2>1. ASSUME NEW w \in Couriers, Settle(w) PROVE EventsInv'
    <3>1. courier[w].event \in Events
      BY EventTypes DEF CourierRows
    <3> QED
      BY <2>1, <3>1, SettleStep
  <2> QED
    BY <1>2, <2>1, ProviderStep, StoreStep, LeaseStep, ClaimStep, EmailStep, StripeStep, StopStep, InspectStep, RecoverStep
       DEF EventsNext
<1> QED
  BY <1>1, <1>2

\* Every state of the events and their workers satisfies the inductive invariant.
THEOREM EventsReached == EventsSpec => []EventsInv
<1> QED
  BY EventsInitial, EventsStep, PTL DEF EventsSpec

\* Types, and that one worker at most holds a customer's row.
THEOREM EventsTypes == EventsSpec => []EventsTypeOK
<1>1. EventsInv => EventsTypeOK
  BY DEF EventsInv, EventsTyped
<1> QED
  BY <1>1, EventsReached, PTL

\* "Reconcile current provider state under the customer lock" (providers.ts): the plan that is
\* stored never goes back, in whatever order a customer's events are processed.
THEOREM PlansNeverGoBack == EventsSpec => PlanNeverGoesBack
<1>1. ASSUME EventsInv, [EventsNext]_eventsVars PROVE [applied' >= applied]_eventsVars
  <2>1. applied \in Nat
    BY <1>1, EventTypes
  <2>2. ASSUME NEW w \in Couriers, WritePlan(w) PROVE applied' >= applied
    <3>1. CourierInv(w) /\ courier[w].seen \in Nat
      BY <1>1, EventTypes DEF EventsInv, CourierRows
    <3> QED
      BY <2>1, <2>2, <3>1 DEF CourierInv, WritePlan
  <2>3. CASE UNCHANGED applied
    BY <2>1, <2>3
  <2>4. (\E w \in Couriers : WritePlan(w)) \/ UNCHANGED applied \/ UNCHANGED eventsVars
    BY <1>1 DEF EventsNext, ChangeSubscription, FailExhaustedEvents, CloseRoute, StoreEvent, ExpireLease, Inspect, Recover,
         ClaimEvent, RenewLease, RetrieveEmail, Capture, LockCustomer, ListSubscriptions, ReconcileFails, StopEarly, Settle,
         StopCourier, TakeItem, effectVars
  <2> QED
    BY <2>2, <2>3, <2>4
<1> QED
  BY <1>1, EventsReached, PTL DEF EventsSpec, PlanNeverGoesBack

\* "Neither completion evidence nor entitlement reconciliation can starve the other": a completed
\* event is complete in every part, whoever processed which of them.
THEOREM CompletedEventsAreWhole == EventsSpec => []CompletedIsWhole
<1>1. EventsInv => CompletedIsWhole
  BY DEF EventsInv, RowInv, CompletedIsWhole
<1> QED
  BY <1>1, EventsReached, PTL

\* "One explicit reviewed request grants a fresh bounded five-attempt worker budget"
\* (stripe-event-recovery.ts): every budget but the first was inspected for.
THEOREM BudgetsAreReviewed == EventsSpec => []BudgetIsReviewed
<1>1. EventsInv => BudgetIsReviewed
  <2> SUFFICES ASSUME EventsInv, NEW e \in Events
               PROVE  spent[e] <= MaxEventAttempts * (1 + Cardinality(reviewed[e]))
    BY DEF BudgetIsReviewed
  <2> DEFINE n == Cardinality(reviewed[e])
             g == generation[e]
  <2>1. n \in Nat /\ g \in Nat /\ g <= n
    <3>1. n \in Nat /\ Cardinality(Behind(e)) \in Nat /\ Cardinality(Behind(e)) <= n /\ g \in Nat
      BY ReviewsFinite, EventTypes
    <3>2. ReviewInv(e)
      BY DEF EventsInv
    <3> QED
      BY <3>1, <3>2 DEF ReviewInv
  <2>2. spent[e] = event[e].attempts + MaxEventAttempts * g /\ event[e].attempts \in 0..MaxEventAttempts
    BY EventTypes DEF EventsInv, RowInv, EventRows
  <2> HIDE DEF n, g
  <2>3. MaxEventAttempts * g <= MaxEventAttempts * n /\ MaxEventAttempts * g \in Nat /\ MaxEventAttempts * n \in Nat
        /\ MaxEventAttempts * (n + 1) = MaxEventAttempts * n + MaxEventAttempts /\ n + 1 = 1 + n
    BY <2>1, Budgets
  <2>4. spent[e] <= MaxEventAttempts * (1 + n)
    BY <2>2, <2>3, EventFacts
  <2> QED
    BY <2>4 DEF n
<1> QED
  BY <1>1, EventsReached, PTL
=============================================================================
