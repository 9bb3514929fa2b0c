---------------------------- MODULE AiWorkQueue ----------------------------
(* What the three extraction lanes of one workspace promise together: rows   *)
(* of jobs, schema_suggestions and split_suggestions are admitted, attempted *)
(* at most MaxAttempts times, never more at once than the plan allows, and   *)
(* settle with the result of the attempt that was current.                   *)
(* No locks, snapshots, leases, clocks or workers: AiWorkClaims has those    *)
(* and is shown to implement this.                                           *)
EXTENDS Integers, FiniteSets

CONSTANTS
  Rows,        \* numbers in (created_at, id, lane) order
  MaxAttempts, \* jobs.max_attempts
  Caps         \* the values plan->>'maxConcurrent' may take

VARIABLES
  state,    \* the row's state; "absent" before it is admitted, "gone" once deleted
  attempts, \* attempts started
  result,   \* the attempt whose result is stored, 0 for none
  cap       \* the workspace plan's maxConcurrent

vars == <<state, attempts, result, cap>>

States == {"absent", "queued", "processing", "done", "failed", "gone"}

Running == {r \in Rows : state[r] = "processing"}

Init ==
  /\ state = [r \in Rows |-> "absent"]
  /\ attempts = [r \in Rows |-> 0]
  /\ result = [r \in Rows |-> 0]
  /\ cap \in Caps

Move(r, from, to) == state[r] = from /\ state' = [state EXCEPT ![r] = to]

Admit(r) == Move(r, "absent", "queued") /\ UNCHANGED <<attempts, result, cap>>

Start(r) ==
  /\ Move(r, "queued", "processing")
  /\ attempts[r] < MaxAttempts
  /\ Cardinality(Running) < cap
  /\ attempts' = [attempts EXCEPT ![r] = @ + 1]
  /\ UNCHANGED <<result, cap>>

Complete(r) ==
  /\ Move(r, "processing", "done")
  /\ result' = [result EXCEPT ![r] = attempts[r]]
  /\ UNCHANGED <<attempts, cap>>

Retry(r) ==
  /\ Move(r, "processing", "queued")
  /\ attempts[r] < MaxAttempts
  /\ UNCHANGED <<attempts, result, cap>>

Fail(r) == Move(r, "processing", "failed") /\ UNCHANGED <<attempts, result, cap>>

Remove(r) ==
  /\ state[r] \notin {"absent", "gone"}
  /\ state' = [state EXCEPT ![r] = "gone"]
  /\ result' = [result EXCEPT ![r] = 0]
  /\ UNCHANGED <<attempts, cap>>

ChangePlan == cap' \in Caps /\ UNCHANGED <<state, attempts, result>>

Next ==
  \/ \E r \in Rows : Admit(r) \/ Start(r) \/ Complete(r) \/ Retry(r) \/ Fail(r) \/ Remove(r)
  \/ ChangePlan

Spec == Init /\ [][Next]_vars
============================================================================
