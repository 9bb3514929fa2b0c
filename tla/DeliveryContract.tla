-------------------------- MODULE DeliveryContract --------------------------
(* What a subscriber may rely on (docs/WEBHOOK-EVENTS.md: at least once): an *)
(* event that is recorded as delivered was accepted by the destination since *)
(* it was last asked for, it is asked for again only by a person, and a      *)
(* deleted document's events are forgotten whatever still answers.           *)
(* No leases, workers, attempts or tokens: WebhookDelivery has those.        *)
CONSTANT Events

VARIABLES
  outcome, \* what the workspace's delivery log says
  accepted \* events the destination accepted since they were last asked for

vars == <<outcome, accepted>>

Outcomes == {"none", "pending", "delivered", "failed", "gone"}

Init == outcome = [e \in Events |-> "none"] /\ accepted = {}

\* Every event of E moves from one of the outcomes of From.
Move(E, From, to) ==
  /\ \A e \in E : outcome[e] \in From
  /\ outcome' = [e \in Events |-> IF e \in E THEN to ELSE outcome[e]]

Enqueue(E) == Move(E, {"none"}, "pending") /\ UNCHANGED accepted
Accept(e) == outcome[e] # "none" /\ accepted' = accepted \cup {e} /\ UNCHANGED outcome
Deliver(e) == e \in accepted /\ Move({e}, {"pending"}, "delivered") /\ UNCHANGED accepted
GiveUp(E) == Move(E, {"pending"}, "failed") /\ UNCHANGED accepted
Replay(e) == Move({e}, {"delivered", "failed"}, "pending") /\ accepted' = accepted \ {e}
Forget(e) == Move({e}, Outcomes, "gone") /\ UNCHANGED accepted

Next ==
  \/ \E E \in SUBSET Events : Enqueue(E) \/ GiveUp(E)
  \/ \E e \in Events : Accept(e) \/ Deliver(e) \/ Replay(e) \/ Forget(e)

Spec == Init /\ [][Next]_vars
============================================================================
