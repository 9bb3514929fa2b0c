----------------------------- MODULE MCLiveness -----------------------------
(* Two components under their fairness, one of them per behaviour: the life of *)
(* one attempt's objects, and the drains of serverless hosts.                   *)
EXTENDS StoredObjects, HostedWorker

VARIABLE part

LiveInit == part \in {"objects", "hosts"} /\ Init /\ WorkerInit /\ (part = "hosts" => kind = "plain" /\ ~remote)

LiveNext ==
  /\ UNCHANGED part
  /\ \/ part = "objects" /\ Next /\ UNCHANGED workerVars
     \/ part = "hosts" /\ WorkerNext /\ UNCHANGED vars

liveVars == <<part, vars, workerVars>>

\* FairSpec of the one part, WorkerSpec of the other: in the part at rest nothing is
\* enabled that UpkeepFairness or DrainFairness is about.
LiveSpec ==
  /\ LiveInit /\ [][LiveNext]_liveVars
  /\ UpkeepFairness /\ \A t \in Attempts : WF_liveVars(part = "objects" /\ AttemptStep(t) /\ UNCHANGED <<part, workerVars>>)
  /\ DrainFairness /\ WF_liveVars(part = "hosts" /\ WakeSomeHost /\ UNCHANGED <<part, vars>>)
=============================================================================
