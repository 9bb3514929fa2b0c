----------------------------- MODULE MCAccounts -----------------------------
(* Provider events, Checkout, account access, invitations and hosted workers: *)
(* components that share no state, one of them active per behaviour.          *)
EXTENDS ProviderEvents, CheckoutSessions, AccountAccess, Invitations, HostedWorker, TLC

VARIABLE part

AccountsInit ==
  /\ part \in {"events", "checkout", "access", "invitations", "hosts"}
  /\ EventsInit /\ CheckoutInit /\ AccessInit /\ InvitationsInit /\ WorkerInit
  /\ part # "events" => provider = "stripe"
  /\ account.required /\ (part # "access" => ~account.verified)

AccountsNext ==
  /\ UNCHANGED part
  /\ \/ /\ part = "events" /\ EventsNext
        /\ UNCHANGED <<checkoutVars, accessVars, inviteVars, workerVars>>
     \/ /\ part = "checkout" /\ CheckoutNext
        /\ UNCHANGED <<eventsVars, accessVars, inviteVars, workerVars>>
     \/ /\ part = "access" /\ AccessNext
        /\ UNCHANGED <<eventsVars, checkoutVars, inviteVars, workerVars>>
     \/ /\ part = "invitations" /\ InvitationsNext
        /\ UNCHANGED <<eventsVars, checkoutVars, accessVars, workerVars>>
     \/ /\ part = "hosts" /\ WorkerNext
        /\ UNCHANGED <<eventsVars, checkoutVars, accessVars, inviteVars>>

AccountsSpec ==
  AccountsInit /\ [][AccountsNext]_<<part, eventsVars, checkoutVars, accessVars, inviteVars, workerVars>>

\* The same two processes play every part that several processes play, and are alike.
Alike == Permutations(Couriers)

\* The active component keeps its types and the relations its type invariant adds to them.
AccountsTypeOK ==
  /\ part = "events" => EventsTypeOK
  /\ part = "checkout" => CheckoutTypeOK
  /\ part = "access" => AccessTypeOK
  /\ part = "invitations" => InvitationsTypeOK
  /\ part = "hosts" => WorkerTypeOK
=============================================================================
