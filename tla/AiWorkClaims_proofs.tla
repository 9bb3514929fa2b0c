------------------------- MODULE AiWorkClaims_proofs -------------------------
(* Proofs about AiWorkClaims for every set of rows and workers, every plan   *)
(* and every attempt limit: types, the locking and fencing invariant, the    *)
(* capacity of the plan, the order of the lanes and the refinement of        *)
(* AiWorkQueue. The steps that preserve an invariant are one per action.     *)
EXTENDS AiWorkClaims, FiniteSetTheorems, TLAPS

\* ClaimInv without RecheckStays, which needs a frame argument of its own.
LockInv ==
  /\ WorkspaceRowExclusive /\ AdvisoryHeld /\ LockedRowStays
  /\ AttemptKnown /\ OwnerIsCurrentAttempt

-----------------------------------------------------------------------------
\* Every action keeps every variable in its type.
LEMMA TypeStep ==
  ASSUME TypeOK, LockInv, [Next]_vars
  PROVE  TypeOK'
<1>1. ASSUME NEW r \in Rows, Admit(r) PROVE TypeOK'
  BY <1>1, ClaimsAssumption DEF Admit, rowVars, workerVars, TypeOK, States, Labels,
     RowLocked, InAttempt, Running
<1>2. ASSUME NEW r \in Rows, BackoffElapses(r) PROVE TypeOK'
  BY <1>2, ClaimsAssumption DEF BackoffElapses, rowVars, workerVars, TypeOK, States,
     Labels, RowLocked, InAttempt, Running
<1>3. ASSUME NEW r \in Rows, LeaseExpires(r) PROVE TypeOK'
  BY <1>3, ClaimsAssumption DEF LeaseExpires, rowVars, workerVars, TypeOK, States, Labels,
     RowLocked, InAttempt, Running
<1>4. ASSUME NEW r \in Rows, Remove(r) PROVE TypeOK'
  BY <1>4, ClaimsAssumption DEF Remove, ClearLease, IsRowLocked, rowVars, workerVars,
     TypeOK, States, Labels, RowLocked, InAttempt, Running
<1>5. ASSUME NEW w \in Workers, Scan(w) PROVE TypeOK'
  BY <1>5, ClaimsAssumption DEF Scan, Goto, rowVars, workerVars, TypeOK, States, Labels,
     RowLocked, InAttempt, Running
<1>6. ASSUME NEW w \in Workers, SelectNone(w) PROVE TypeOK'
  BY <1>6, ClaimsAssumption DEF SelectNone, Goto, rowVars, workerVars, TypeOK, States,
     Labels, RowLocked, InAttempt, Running
<1>7. ASSUME NEW w \in Workers, NEW r \in Rows, Recover(w, r) PROVE TypeOK'
  BY <1>7, ClaimsAssumption DEF Recover, Goto, ClearLease, LeaseStillExpired, rowVars,
     workerVars, TypeOK, States, Labels, RowLocked, InAttempt, Running
<1>8. ASSUME NEW w \in Workers, NEW r \in Rows, Select(w, r) PROVE TypeOK'
  BY <1>8, ClaimsAssumption DEF Select, Goto, rowVars, workerVars, TypeOK, States, Labels,
     RowLocked, InAttempt, Running
<1>9. ASSUME NEW w \in Workers, LockRows(w) PROVE TypeOK'
  BY <1>9, ClaimsAssumption DEF LockRows, Goto, Return, GiveBack, Runnable, rowVars,
     workerVars, TypeOK, States, Labels, RowLocked, InAttempt, Running
<1>10. ASSUME NEW w \in Workers, TryAdvisory(w) PROVE TypeOK'
  BY <1>10, ClaimsAssumption DEF TryAdvisory, Goto, Return, GiveBack, rowVars, workerVars,
     TypeOK, States, Labels, RowLocked, InAttempt, Running
<1>11. ASSUME NEW w \in Workers, Recheck(w) PROVE TypeOK'
  BY <1>11, ClaimsAssumption DEF Recheck, Goto, Return, GiveBack, rowVars, workerVars,
     TypeOK, States, Labels, RowLocked, InAttempt, Running
<1>12. ASSUME NEW w \in Workers, CommitClaim(w) PROVE TypeOK'
  <2>1. row[w] \in Rows /\ state[row[w]] = "queued" /\ attempts[row[w]] < MaxAttempts
    BY <1>12 DEF CommitClaim, LockInv, LockedRowStays, Lockers, RowLocked
  <2>2. attempts[row[w]] + 1 \in 1..MaxAttempts
    BY <2>1, ClaimsAssumption DEF TypeOK
  <2>3. owner' \in [Rows -> {NoOne} \cup (Workers \X (1..MaxAttempts))]
    BY <1>12, <2>2 DEF CommitClaim, Owner, TypeOK
  <2>4. \A r \in Rows : owner'[r] # NoOne <=> state'[r] = "processing"
    BY <1>12, <2>1, <2>2, ClaimsAssumption DEF CommitClaim, Owner, TypeOK
  <2>5. /\ state' \in [Rows -> States] /\ attempts' \in [Rows -> 0..MaxAttempts]
        /\ attempt' \in [Workers -> 0..MaxAttempts]
    BY <1>12, <2>1, <2>2 DEF CommitClaim, TypeOK, States
  <2>6. expired' \subseteq Running' /\ pc' \in [Workers -> Labels]
    BY <1>12, <2>1 DEF CommitClaim, Goto, TypeOK, Running, Labels, InAttempt
  <2>7. advisory' \in Workers \cup {NoOne, Api} /\ asOf' \in [Workers -> SUBSET Rows]
    BY <1>12 DEF CommitClaim, TypeOK
  <2>8. UNCHANGED <<result, cap, due, row, candidates, interrupts>>
    BY <1>12 DEF CommitClaim
  <2> QED
    BY <2>3, <2>4, <2>5, <2>6, <2>7, <2>8 DEF TypeOK
<1>13. ASSUME NEW w \in Workers, SourceMissing(w) PROVE TypeOK'
  BY <1>13, ClaimsAssumption DEF SourceMissing, Goto, Return, rowVars, workerVars, TypeOK,
     States, Labels, RowLocked, InAttempt, Running
<1>14. ASSUME NEW w \in Workers, Extracted(w) PROVE TypeOK'
  BY <1>14, ClaimsAssumption DEF Extracted, Goto, rowVars, workerVars, TypeOK, States,
     Labels, RowLocked, InAttempt, Running
<1>15. ASSUME NEW w \in Workers, Throws(w) PROVE TypeOK'
  BY <1>15, ClaimsAssumption DEF Throws, Goto, AfterError, rowVars, workerVars, TypeOK,
     States, Labels, RowLocked, InAttempt, Running
<1>16. ASSUME NEW w \in Workers, Save(w) PROVE TypeOK'
  <2>1. row[w] \in Rows /\ attempt[w] \in 1..MaxAttempts
    BY <1>16 DEF Save, LockInv, AttemptKnown, InAttempt
  <2>2. /\ pc' \in [Workers -> Labels] /\ row' \in [Workers -> Rows \cup {0}]
        /\ attempt' \in [Workers -> 0..MaxAttempts]
    BY <1>16, ClaimsAssumption DEF Save, Goto, Return, AfterError, TypeOK, Labels, InAttempt
  <2>3. UNCHANGED <<attempts, cap, due, advisory, asOf, candidates, interrupts>>
    BY <1>16 DEF Save
  <2>4. CASE Fenced(w)
    <3>1. /\ state' = [state EXCEPT ![row[w]] = "done"]
          /\ result' = [result EXCEPT ![row[w]] = attempt[w]]
          /\ owner' = [owner EXCEPT ![row[w]] = NoOne]
          /\ expired' = expired \ {row[w]}
      BY <1>16, <2>4 DEF Save, ClearLease
    <3>2. /\ state' \in [Rows -> States] /\ result' \in [Rows -> 0..MaxAttempts]
          /\ owner' \in [Rows -> {NoOne} \cup (Workers \X (1..MaxAttempts))]
          /\ expired' \subseteq Running'
      BY <2>1, <3>1 DEF TypeOK, States, Running
    <3>3. \A r \in Rows : owner'[r] # NoOne <=> state'[r] = "processing"
      BY <2>1, <3>1 DEF TypeOK
    <3> QED
      BY <2>2, <2>3, <3>2, <3>3 DEF TypeOK
  <2>5. CASE ~Fenced(w)
    BY <1>16, <2>2, <2>3, <2>5 DEF Save, TypeOK, Running
  <2> QED
    BY <2>4, <2>5
<1>17. ASSUME NEW w \in Workers, RecordFailure(w) PROVE TypeOK'
  <2>1. row[w] \in Rows
    BY <1>17 DEF RecordFailure, LockInv, AttemptKnown, InAttempt
  <2>2. /\ pc' \in [Workers -> Labels] /\ row' \in [Workers -> Rows \cup {0}]
        /\ attempt' \in [Workers -> 0..MaxAttempts]
    BY <1>17, ClaimsAssumption DEF RecordFailure, Goto, Return, TypeOK, Labels
  <2>3. UNCHANGED <<attempts, result, cap, advisory, candidates, interrupts>>
    BY <1>17 DEF RecordFailure
  <2>4. CASE Fenced(w)
    <3>1. /\ \E s \in {"failed", "queued"} : state' = [state EXCEPT ![row[w]] = s]
          /\ owner' = [owner EXCEPT ![row[w]] = NoOne]
          /\ expired' = expired \ {row[w]}
      BY <1>17, <2>4 DEF RecordFailure, ClearLease
    <3>2. due' \subseteq Rows /\ asOf' \in [Workers -> SUBSET Rows]
      BY <1>17, <2>4 DEF RecordFailure, TypeOK
    <3>3. /\ state' \in [Rows -> States]
          /\ owner' \in [Rows -> {NoOne} \cup (Workers \X (1..MaxAttempts))]
          /\ expired' \subseteq Running'
      BY <2>1, <3>1 DEF TypeOK, States, Running
    <3>4. \A r \in Rows : owner'[r] # NoOne <=> state'[r] = "processing"
      BY <2>1, <3>1 DEF TypeOK
    <3> QED
      BY <2>2, <2>3, <3>2, <3>3, <3>4 DEF TypeOK
  <2>5. CASE ~Fenced(w)
    BY <1>17, <2>2, <2>3, <2>5 DEF RecordFailure, TypeOK, Running
  <2> QED
    BY <2>4, <2>5
<1>18. ASSUME NEW w \in Workers, Interrupt(w) PROVE TypeOK'
  BY <1>18, ClaimsAssumption DEF Interrupt, Goto, Return, GiveBack, rowVars, workerVars,
     TypeOK, States, Labels, RowLocked, InAttempt, Running
<1>19. ASSUME ChangePlan PROVE TypeOK'
  BY <1>19, ClaimsAssumption DEF ChangePlan, rowVars, workerVars, TypeOK, States, Labels,
     RowLocked, InAttempt, Running
<1>20. ASSUME BeginRemove PROVE TypeOK'
  BY <1>20, ClaimsAssumption DEF BeginRemove, rowVars, workerVars, TypeOK, States, Labels,
     RowLocked, InAttempt, Running
<1>21. CASE UNCHANGED vars
  BY <1>21 DEF vars, rowVars, workerVars, TypeOK, Running
<1> QED
  BY <1>1, <1>2, <1>3, <1>4, <1>5, <1>6, <1>7, <1>8, <1>9, <1>10, <1>11, <1>12, <1>13,
     <1>14, <1>15, <1>16, <1>17, <1>18, <1>19, <1>20, <1>21 DEF Next, Work

\* Every action preserves what locks, leases and fences promise each other.
LEMMA LockStep ==
  ASSUME TypeOK, LockInv, [Next]_vars
  PROVE  LockInv'
<1>1. ASSUME NEW r \in Rows, Admit(r) PROVE LockInv'
  BY <1>1, ClaimsAssumption DEF LockInv, WorkspaceRowExclusive, AdvisoryHeld,
     LockedRowStays, AttemptKnown, OwnerIsCurrentAttempt, Admit, rowVars, workerVars,
     Lockers, TypeOK, RowLocked, InAttempt, Running, Owner
<1>2. ASSUME NEW r \in Rows, BackoffElapses(r) PROVE LockInv'
  BY <1>2, ClaimsAssumption DEF LockInv, WorkspaceRowExclusive, AdvisoryHeld,
     LockedRowStays, AttemptKnown, OwnerIsCurrentAttempt, BackoffElapses, rowVars,
     workerVars, Lockers, TypeOK, RowLocked, InAttempt, Running, Owner
<1>3. ASSUME NEW r \in Rows, LeaseExpires(r) PROVE LockInv'
  BY <1>3, ClaimsAssumption DEF LockInv, WorkspaceRowExclusive, AdvisoryHeld,
     LockedRowStays, AttemptKnown, OwnerIsCurrentAttempt, LeaseExpires, rowVars,
     workerVars, Lockers, TypeOK, RowLocked, InAttempt, Running, Owner
<1>4. ASSUME NEW r \in Rows, Remove(r) PROVE LockInv'
  BY <1>4, ClaimsAssumption DEF LockInv, WorkspaceRowExclusive, AdvisoryHeld,
     LockedRowStays, AttemptKnown, OwnerIsCurrentAttempt, Remove, ClearLease, IsRowLocked,
     rowVars, workerVars, Lockers, TypeOK, RowLocked, InAttempt, Running, Owner
<1>5. ASSUME NEW w \in Workers, Scan(w) PROVE LockInv'
  BY <1>5, ClaimsAssumption DEF LockInv, WorkspaceRowExclusive, AdvisoryHeld,
     LockedRowStays, AttemptKnown, OwnerIsCurrentAttempt, Scan, Goto, rowVars, workerVars,
     Lockers, TypeOK, RowLocked, InAttempt, Running, Owner
<1>6. ASSUME NEW w \in Workers, SelectNone(w) PROVE LockInv'
  <2>1. pc' = [pc EXCEPT ![w] = "idle"] /\ UNCHANGED <<state, attempts, owner, advisory,
  row, attempt>>
    BY <1>6 DEF SelectNone, Goto, rowVars
  <2> QED
    BY <1>6, <2>1, ClaimsAssumption DEF LockInv, WorkspaceRowExclusive, AdvisoryHeld,
       LockedRowStays, AttemptKnown, OwnerIsCurrentAttempt, SelectNone, Lockers, TypeOK,
       RowLocked, InAttempt
<1>7. ASSUME NEW w \in Workers, NEW r \in Rows, Recover(w, r) PROVE LockInv'
  BY <1>7, ClaimsAssumption DEF LockInv, WorkspaceRowExclusive, AdvisoryHeld,
     LockedRowStays, AttemptKnown, OwnerIsCurrentAttempt, Recover, Goto, ClearLease,
     LeaseStillExpired, rowVars, workerVars, Lockers, TypeOK, RowLocked, InAttempt,
     Running, Owner
<1>8. ASSUME NEW w \in Workers, NEW r \in Rows, Select(w, r) PROVE LockInv'
  BY <1>8, ClaimsAssumption DEF LockInv, WorkspaceRowExclusive, AdvisoryHeld,
     LockedRowStays, AttemptKnown, OwnerIsCurrentAttempt, Select, Goto, rowVars,
     workerVars, Lockers, TypeOK, RowLocked, InAttempt, Running, Owner
<1>9. ASSUME NEW w \in Workers, LockRows(w) PROVE LockInv'
  <2>1. pc[w] = "selected" /\ row[w] \in Rows /\ advisory # w
    BY <1>9 DEF LockRows, LockInv, AttemptKnown, AdvisoryHeld
  <2>2. UNCHANGED <<state, attempts, owner>>
    BY <1>9 DEF LockRows, rowVars
  <2>3. CASE Lockers = {} /\ Runnable(row[w], asOf[w])
    <3>1. pc' = [pc EXCEPT ![w] = "locked"] /\ UNCHANGED <<advisory, row, attempt>>
      BY <1>9, <2>3 DEF LockRows, Goto
    <3>2. \A v \in Workers \ {w} : pc[v] \notin RowLocked
      BY <2>3 DEF Lockers
    <3>3. Lockers' = {w}
      BY <3>1, <3>2 DEF Lockers, TypeOK, RowLocked
    <3>4. WorkspaceRowExclusive'
      BY <3>3 DEF WorkspaceRowExclusive
    <3>5. LockedRowStays'
      BY <2>1, <2>2, <2>3, <3>1, <3>3 DEF LockedRowStays, Runnable
    <3>6. AdvisoryHeld'
      BY <2>1, <3>1 DEF LockInv, AdvisoryHeld, TypeOK
    <3>7. AttemptKnown' /\ OwnerIsCurrentAttempt'
      BY <2>1, <2>2, <3>1 DEF LockInv, AttemptKnown, OwnerIsCurrentAttempt, Owner, TypeOK,
         InAttempt
    <3> QED
      BY <3>4, <3>5, <3>6, <3>7 DEF LockInv
  <2>4. CASE ~(Lockers = {} /\ Runnable(row[w], asOf[w]))
    <3>1. /\ pc' = [pc EXCEPT ![w] = "idle"] /\ row' = [row EXCEPT ![w] = 0]
          /\ attempt' = [attempt EXCEPT ![w] = 0] /\ UNCHANGED advisory
      BY <1>9, <2>1, <2>4 DEF LockRows, GiveBack, Return, Goto
    <3> QED
      BY <2>1, <2>2, <3>1, ClaimsAssumption DEF LockInv, WorkspaceRowExclusive,
         AdvisoryHeld, LockedRowStays, AttemptKnown, OwnerIsCurrentAttempt, Lockers, Owner,
         TypeOK, RowLocked, InAttempt
  <2> QED
    BY <2>3, <2>4
<1>10. ASSUME NEW w \in Workers, TryAdvisory(w) PROVE LockInv'
  BY <1>10, ClaimsAssumption DEF LockInv, WorkspaceRowExclusive, AdvisoryHeld,
     LockedRowStays, AttemptKnown, OwnerIsCurrentAttempt, TryAdvisory, Goto, Return,
     GiveBack, rowVars, workerVars, Lockers, TypeOK, RowLocked, InAttempt, Running, Owner
<1>11. ASSUME NEW w \in Workers, Recheck(w) PROVE LockInv'
  BY <1>11, ClaimsAssumption DEF LockInv, WorkspaceRowExclusive, AdvisoryHeld,
     LockedRowStays, AttemptKnown, OwnerIsCurrentAttempt, Recheck, Goto, Return, GiveBack,
     rowVars, workerVars, Lockers, TypeOK, RowLocked, InAttempt, Running, Owner
<1>12. ASSUME NEW w \in Workers, CommitClaim(w) PROVE LockInv'
  <2>1. /\ pc[w] = "checked" /\ w \in Lockers /\ row[w] \in Rows
        /\ state[row[w]] = "queued" /\ attempts[row[w]] + 1 \in 1..MaxAttempts
    <3>1. pc[w] = "checked" /\ w \in Lockers
      BY <1>12 DEF CommitClaim, Lockers, RowLocked
    <3>2. row[w] \in Rows /\ state[row[w]] = "queued" /\ attempts[row[w]] < MaxAttempts
      BY <3>1 DEF LockInv, LockedRowStays
    <3>3. attempts[row[w]] \in Nat
      BY <3>2 DEF TypeOK
    <3> QED
      BY <3>1, <3>2, <3>3, ClaimsAssumption
  <2>2. /\ pc' = [pc EXCEPT ![w] = "attempting"] /\ advisory' = NoOne /\ UNCHANGED row
        /\ state' = [state EXCEPT ![row[w]] = "processing"]
        /\ attempts' = [attempts EXCEPT ![row[w]] = @ + 1]
        /\ attempt' = [attempt EXCEPT ![w] = attempts[row[w]] + 1]
        /\ owner' = [owner EXCEPT ![row[w]] = Owner(w, attempts[row[w]] + 1)]
    BY <1>12 DEF CommitClaim, Goto
  <2>3. Lockers' = {}
    BY <2>1, <2>2 DEF LockInv, WorkspaceRowExclusive, Lockers, RowLocked, TypeOK
  <2>4. WorkspaceRowExclusive' /\ LockedRowStays'
    BY <2>3 DEF WorkspaceRowExclusive, LockedRowStays
  <2>5. AdvisoryHeld'
    BY <2>2, <2>3, ClaimsAssumption DEF AdvisoryHeld, Lockers, RowLocked
  <2>6. AttemptKnown'
    BY <2>1, <2>2 DEF LockInv, AttemptKnown, TypeOK, InAttempt
  <2>7. OwnerIsCurrentAttempt'
    <3> SUFFICES ASSUME NEW r \in Rows, state'[r] = "processing"
                 PROVE  \E v \in Workers : owner'[r] = Owner(v, attempts'[r])
      BY DEF OwnerIsCurrentAttempt
    <3>1. CASE r = row[w]
      BY <2>1, <2>2, <3>1 DEF TypeOK
    <3>2. CASE r # row[w]
      BY <2>1, <2>2, <3>2 DEF LockInv, OwnerIsCurrentAttempt, TypeOK
    <3> QED
      BY <3>1, <3>2
  <2> QED
    BY <2>4, <2>5, <2>6, <2>7 DEF LockInv
<1>13. ASSUME NEW w \in Workers, SourceMissing(w) PROVE LockInv'
  BY <1>13, ClaimsAssumption DEF LockInv, WorkspaceRowExclusive, AdvisoryHeld,
     LockedRowStays, AttemptKnown, OwnerIsCurrentAttempt, SourceMissing, Goto, Return,
     rowVars, workerVars, Lockers, TypeOK, RowLocked, InAttempt, Running, Owner
<1>14. ASSUME NEW w \in Workers, Extracted(w) PROVE LockInv'
  BY <1>14, ClaimsAssumption DEF LockInv, WorkspaceRowExclusive, AdvisoryHeld,
     LockedRowStays, AttemptKnown, OwnerIsCurrentAttempt, Extracted, Goto, rowVars,
     workerVars, Lockers, TypeOK, RowLocked, InAttempt, Running, Owner
<1>15. ASSUME NEW w \in Workers, Throws(w) PROVE LockInv'
  BY <1>15, ClaimsAssumption DEF LockInv, WorkspaceRowExclusive, AdvisoryHeld,
     LockedRowStays, AttemptKnown, OwnerIsCurrentAttempt, Throws, Goto, AfterError,
     rowVars, workerVars, Lockers, TypeOK, RowLocked, InAttempt, Running, Owner
<1>16. ASSUME NEW w \in Workers, Save(w) PROVE LockInv'
  BY <1>16, ClaimsAssumption DEF LockInv, WorkspaceRowExclusive, AdvisoryHeld,
     LockedRowStays, AttemptKnown, OwnerIsCurrentAttempt, Save, Goto, Return, ClearLease,
     AfterError, Fenced, rowVars, workerVars, Lockers, TypeOK, RowLocked, InAttempt,
     Running, Owner
<1>17. ASSUME NEW w \in Workers, RecordFailure(w) PROVE LockInv'
  BY <1>17, ClaimsAssumption DEF LockInv, WorkspaceRowExclusive, AdvisoryHeld,
     LockedRowStays, AttemptKnown, OwnerIsCurrentAttempt, RecordFailure, Goto, Return,
     ClearLease, Fenced, rowVars, workerVars, Lockers, TypeOK, RowLocked, InAttempt,
     Running, Owner
<1>18. ASSUME NEW w \in Workers, Interrupt(w) PROVE LockInv'
  BY <1>18, ClaimsAssumption DEF LockInv, WorkspaceRowExclusive, AdvisoryHeld,
     LockedRowStays, AttemptKnown, OwnerIsCurrentAttempt, Interrupt, Goto, Return,
     GiveBack, rowVars, workerVars, Lockers, TypeOK, RowLocked, InAttempt, Running, Owner
<1>19. ASSUME ChangePlan PROVE LockInv'
  BY <1>19, ClaimsAssumption DEF LockInv, WorkspaceRowExclusive, AdvisoryHeld,
     LockedRowStays, AttemptKnown, OwnerIsCurrentAttempt, ChangePlan, rowVars, workerVars,
     Lockers, TypeOK, RowLocked, InAttempt, Running, Owner
<1>20. ASSUME BeginRemove PROVE LockInv'
  BY <1>20, ClaimsAssumption DEF LockInv, WorkspaceRowExclusive, AdvisoryHeld,
     LockedRowStays, AttemptKnown, OwnerIsCurrentAttempt, BeginRemove, rowVars, workerVars,
     Lockers, TypeOK, RowLocked, InAttempt, Running, Owner
<1>21. CASE UNCHANGED vars
  BY <1>21 DEF vars, rowVars, workerVars, LockInv, WorkspaceRowExclusive, AdvisoryHeld,
     LockedRowStays, AttemptKnown, OwnerIsCurrentAttempt, Lockers
<1> QED
  BY <1>1, <1>2, <1>3, <1>4, <1>5, <1>6, <1>7, <1>8, <1>9, <1>10, <1>11, <1>12, <1>13,
     <1>14, <1>15, <1>16, <1>17, <1>18, <1>19, <1>20, <1>21 DEF Next, Work

\* The set a claim counts has a size, which grows by at most the claimed row.
LEMMA RunningFinite == IsFiniteSet(Running) /\ Cardinality(Running) \in Nat
<1>1. Running \subseteq Rows
  BY DEF Running
<1> QED
  BY <1>1, ClaimsAssumption, FS_Subset, FS_CardinalityType

\* What the recheck saw is still so when nothing it read has changed.
LEMMA RecheckFrame ==
  ASSUME RecheckStays, UNCHANGED <<state, attempts, cap>>,
         NEW w \in Workers, pc[w] = "checked", row'[w] = row[w], asOf'[w] = asOf[w]
  PROVE  Allowed(row[w], asOf[w])'
BY DEF RecheckStays, Allowed, HasCapacity, FirstInLine, Runnable, Running

\* While a claim is between its recheck and its commit it holds the advisory lock and
\* the workspace row, so the actions that need either do not happen.
LEMMA CheckedAlone ==
  ASSUME TypeOK, LockInv, NEW v \in Workers, pc[v] = "checked"
  PROVE  advisory = v /\ advisory # NoOne /\ advisory # Api /\ v \in Lockers /\ Lockers # {}
BY ClaimsAssumption DEF LockInv, AdvisoryHeld, Lockers, RowLocked

\* A step that changes no row, plan or other worker's claim leaves every recheck valid.
LEMMA RecheckQuiet ==
  ASSUME TypeOK, RecheckStays, UNCHANGED <<state, attempts, cap>>,
         \A v \in Workers : pc'[v] = "checked" =>
                              pc[v] = "checked" /\ row'[v] = row[v] /\ asOf'[v] = asOf[v]
  PROVE  RecheckStays'
<1> SUFFICES ASSUME NEW v \in Workers, pc'[v] = "checked" PROVE Allowed(row[v], asOf[v])'
  BY DEF RecheckStays
<1> QED
  BY RecheckFrame

\* A step taken with the advisory lock free, or held by a delete, finds no recheck to
\* disturb and makes none.
LEMMA RecheckAbsent ==
  ASSUME TypeOK, LockInv, advisory \in {NoOne, Api}, UNCHANGED pc
         \/ \E w \in Workers, label \in Labels \ {"checked"} : pc' = [pc EXCEPT ![w] = label]
  PROVE  RecheckStays'
<1>1. \A v \in Workers : pc[v] # "checked"
  BY CheckedAlone
<1>2. \A v \in Workers : pc'[v] # "checked"
  BY <1>1 DEF TypeOK
<1> QED
  BY <1>2 DEF RecheckStays

\* Every action preserves what a claim's second look at capacity and order saw.
LEMMA RecheckStep ==
  ASSUME TypeOK, LockInv, RecheckStays, [Next]_vars
  PROVE  RecheckStays'
<1>1. ASSUME NEW r \in Rows, Admit(r) PROVE RecheckStays'
  BY <1>1, RecheckAbsent DEF Admit, rowVars, workerVars, Labels, InAttempt
<1>2. ASSUME NEW r \in Rows, BackoffElapses(r) PROVE RecheckStays'
  <2>1. UNCHANGED <<state, attempts, cap>>
    BY <1>2 DEF BackoffElapses, rowVars
  <2>2. \A v \in Workers : pc'[v] = "checked" =>
                             pc[v] = "checked" /\ row'[v] = row[v] /\ asOf'[v] = asOf[v]
    BY <1>2 DEF BackoffElapses, rowVars, workerVars, TypeOK
  <2> QED
    BY <2>1, <2>2, RecheckQuiet
<1>3. ASSUME NEW r \in Rows, LeaseExpires(r) PROVE RecheckStays'
  <2>1. UNCHANGED <<state, attempts, cap>>
    BY <1>3 DEF LeaseExpires, rowVars
  <2>2. \A v \in Workers : pc'[v] = "checked" =>
                             pc[v] = "checked" /\ row'[v] = row[v] /\ asOf'[v] = asOf[v]
    BY <1>3 DEF LeaseExpires, rowVars, workerVars, TypeOK
  <2> QED
    BY <2>1, <2>2, RecheckQuiet
<1>4. ASSUME NEW r \in Rows, Remove(r) PROVE RecheckStays'
  BY <1>4, RecheckAbsent DEF Remove, rowVars, workerVars, Labels, InAttempt
<1>5. ASSUME NEW w \in Workers, Scan(w) PROVE RecheckStays'
  <2>1. UNCHANGED <<state, attempts, cap>>
    BY <1>5 DEF Scan, rowVars
  <2>2. \A v \in Workers : pc'[v] = "checked" =>
                             pc[v] = "checked" /\ row'[v] = row[v] /\ asOf'[v] = asOf[v]
    BY <1>5 DEF Scan, Goto, rowVars, workerVars, TypeOK
  <2> QED
    BY <2>1, <2>2, RecheckQuiet
<1>6. ASSUME NEW w \in Workers, SelectNone(w) PROVE RecheckStays'
  <2>1. UNCHANGED <<state, attempts, cap>>
    BY <1>6 DEF SelectNone, rowVars
  <2>2. \A v \in Workers : pc'[v] = "checked" =>
                             pc[v] = "checked" /\ row'[v] = row[v] /\ asOf'[v] = asOf[v]
    BY <1>6 DEF SelectNone, Goto, rowVars, workerVars, TypeOK
  <2> QED
    BY <2>1, <2>2, RecheckQuiet
<1>7. ASSUME NEW w \in Workers, NEW r \in Rows, Recover(w, r) PROVE RecheckStays'
  BY <1>7, RecheckAbsent DEF Recover, Goto, rowVars, workerVars, Labels, InAttempt
<1>8. ASSUME NEW w \in Workers, NEW r \in Rows, Select(w, r) PROVE RecheckStays'
  <2>1. UNCHANGED <<state, attempts, cap>>
    BY <1>8 DEF Select, rowVars
  <2>2. \A v \in Workers : pc'[v] = "checked" =>
                             pc[v] = "checked" /\ row'[v] = row[v] /\ asOf'[v] = asOf[v]
    BY <1>8 DEF Select, Goto, rowVars, workerVars, TypeOK
  <2> QED
    BY <2>1, <2>2, RecheckQuiet
<1>9. ASSUME NEW w \in Workers, LockRows(w) PROVE RecheckStays'
  <2>1. UNCHANGED <<state, attempts, cap>>
    BY <1>9 DEF LockRows, rowVars
  <2>2. \A v \in Workers : pc'[v] = "checked" =>
                             pc[v] = "checked" /\ row'[v] = row[v] /\ asOf'[v] = asOf[v]
    BY <1>9 DEF LockRows, Goto, Return, GiveBack, Runnable, rowVars, workerVars, TypeOK
  <2> QED
    BY <2>1, <2>2, RecheckQuiet
<1>10. ASSUME NEW w \in Workers, TryAdvisory(w) PROVE RecheckStays'
  <2>1. UNCHANGED <<state, attempts, cap>>
    BY <1>10 DEF TryAdvisory, rowVars
  <2>2. \A v \in Workers : pc'[v] = "checked" =>
                             pc[v] = "checked" /\ row'[v] = row[v] /\ asOf'[v] = asOf[v]
    BY <1>10 DEF TryAdvisory, Goto, Return, GiveBack, rowVars, workerVars, TypeOK
  <2> QED
    BY <2>1, <2>2, RecheckQuiet
<1>11. ASSUME NEW w \in Workers, Recheck(w) PROVE RecheckStays'
  <2>1. UNCHANGED <<state, attempts, cap>>
    BY <1>11 DEF Recheck, rowVars
  <2>2. CASE Allowed(row[w], asOf[w])
    <3>1. pc' = [pc EXCEPT ![w] = "checked"] /\ UNCHANGED <<row, asOf>>
      BY <1>11, <2>2 DEF Recheck, Goto
    <3> SUFFICES ASSUME NEW v \in Workers, pc'[v] = "checked" PROVE Allowed(row[v],
    asOf[v])'
      BY DEF RecheckStays
    <3>2. CASE v = w
      BY <2>1, <2>2, <3>1, <3>2 DEF Allowed, HasCapacity, FirstInLine, Runnable, Running
    <3>3. CASE v # w
      BY <2>1, <3>1, <3>3, RecheckFrame DEF TypeOK
    <3> QED
      BY <3>2, <3>3
  <2>3. CASE ~Allowed(row[w], asOf[w])
    <3>1. \A v \in Workers : pc'[v] = "checked" =>
                               pc[v] = "checked" /\ row'[v] = row[v] /\ asOf'[v] = asOf[v]
      BY <1>11, <2>3 DEF Recheck, GiveBack, Return, Goto, TypeOK
    <3> QED
      BY <2>1, <3>1, RecheckQuiet
  <2> QED
    BY <2>2, <2>3
<1>12. ASSUME NEW w \in Workers, CommitClaim(w) PROVE RecheckStays'
  <2>1. pc[w] = "checked" /\ pc' = [pc EXCEPT ![w] = "attempting"]
    BY <1>12 DEF CommitClaim, Goto
  <2>2. \A v \in Workers : pc[v] = "checked" => v = w
    BY <2>1, CheckedAlone
  <2>3. \A v \in Workers : pc'[v] # "checked"
    BY <2>1, <2>2 DEF TypeOK
  <2> QED
    BY <2>3 DEF RecheckStays
<1>13. ASSUME NEW w \in Workers, SourceMissing(w) PROVE RecheckStays'
  <2>1. UNCHANGED <<state, attempts, cap>>
    BY <1>13 DEF SourceMissing, rowVars
  <2>2. \A v \in Workers : pc'[v] = "checked" =>
                             pc[v] = "checked" /\ row'[v] = row[v] /\ asOf'[v] = asOf[v]
    BY <1>13 DEF SourceMissing, Goto, Return, rowVars, workerVars, TypeOK
  <2> QED
    BY <2>1, <2>2, RecheckQuiet
<1>14. ASSUME NEW w \in Workers, Extracted(w) PROVE RecheckStays'
  <2>1. UNCHANGED <<state, attempts, cap>>
    BY <1>14 DEF Extracted, rowVars
  <2>2. \A v \in Workers : pc'[v] = "checked" =>
                             pc[v] = "checked" /\ row'[v] = row[v] /\ asOf'[v] = asOf[v]
    BY <1>14 DEF Extracted, Goto, rowVars, workerVars, TypeOK
  <2> QED
    BY <2>1, <2>2, RecheckQuiet
<1>15. ASSUME NEW w \in Workers, Throws(w) PROVE RecheckStays'
  <2>1. UNCHANGED <<state, attempts, cap>>
    BY <1>15 DEF Throws, rowVars
  <2>2. \A v \in Workers : pc'[v] = "checked" =>
                             pc[v] = "checked" /\ row'[v] = row[v] /\ asOf'[v] = asOf[v]
    BY <1>15 DEF Throws, Goto, AfterError, rowVars, workerVars, TypeOK
  <2> QED
    BY <2>1, <2>2, RecheckQuiet
<1>16. ASSUME NEW w \in Workers, Save(w) PROVE RecheckStays'
  BY <1>16, RecheckAbsent DEF Save, Goto, Return, AfterError, rowVars, workerVars, Labels,
     InAttempt
<1>17. ASSUME NEW w \in Workers, RecordFailure(w) PROVE RecheckStays'
  BY <1>17, RecheckAbsent DEF RecordFailure, Goto, Return, rowVars, workerVars, Labels,
     InAttempt
<1>18. ASSUME NEW w \in Workers, Interrupt(w) PROVE RecheckStays'
  <2>1. UNCHANGED <<state, attempts, cap>>
    BY <1>18 DEF Interrupt, rowVars
  <2>2. \A v \in Workers : pc'[v] = "checked" =>
                             pc[v] = "checked" /\ row'[v] = row[v] /\ asOf'[v] = asOf[v]
    BY <1>18 DEF Interrupt, Goto, Return, GiveBack, rowVars, workerVars, TypeOK
  <2> QED
    BY <2>1, <2>2, RecheckQuiet
<1>19. ASSUME ChangePlan PROVE RecheckStays'
  <2>1. \A v \in Workers : pc'[v] # "checked"
    BY <1>19 DEF ChangePlan, workerVars, Lockers, RowLocked
  <2> QED
    BY <2>1 DEF RecheckStays
<1>20. ASSUME BeginRemove PROVE RecheckStays'
  <2>1. UNCHANGED <<state, attempts, cap>>
    BY <1>20 DEF BeginRemove, rowVars
  <2>2. \A v \in Workers : pc'[v] = "checked" =>
                             pc[v] = "checked" /\ row'[v] = row[v] /\ asOf'[v] = asOf[v]
    BY <1>20 DEF BeginRemove, rowVars, workerVars, TypeOK
  <2> QED
    BY <2>1, <2>2, RecheckQuiet
<1>21. CASE UNCHANGED vars
  <2>1. UNCHANGED <<state, attempts, cap, pc, row, asOf>>
    BY <1>21 DEF vars, rowVars, workerVars
  <2> QED
    BY <2>1, RecheckQuiet
<1> QED
  BY <1>1, <1>2, <1>3, <1>4, <1>5, <1>6, <1>7, <1>8, <1>9, <1>10, <1>11, <1>12, <1>13,
     <1>14, <1>15, <1>16, <1>17, <1>18, <1>19, <1>20, <1>21 DEF Next, Work

-----------------------------------------------------------------------------
\* A freshly migrated database satisfies the invariant.
LEMMA Initially == Init => TypeOK /\ ClaimInv
<1> SUFFICES ASSUME Init PROVE TypeOK /\ ClaimInv
  OBVIOUS
<1>1. TypeOK
  BY ClaimsAssumption DEF Init, TypeOK, States, Labels, Running
<1>2. \A w \in Workers : pc[w] = "idle" /\ advisory # w
  BY ClaimsAssumption DEF Init
<1>3. ClaimInv
  BY <1>2 DEF Init, ClaimInv, WorkspaceRowExclusive, AdvisoryHeld, LockedRowStays,
     RecheckStays,
     AttemptKnown, OwnerIsCurrentAttempt, Lockers, RowLocked, InAttempt
<1> QED
  BY <1>1, <1>3

\* The strengthened invariant is inductive.
LEMMA Inductive == TypeOK /\ ClaimInv /\ [Next]_vars => TypeOK' /\ ClaimInv'
<1> SUFFICES ASSUME TypeOK, ClaimInv, [Next]_vars PROVE TypeOK' /\ ClaimInv'
  OBVIOUS
<1>1. LockInv /\ RecheckStays
  BY DEF ClaimInv, LockInv
<1>2. TypeOK'
  BY <1>1, TypeStep
<1>3. LockInv'
  BY <1>1, LockStep
<1>4. RecheckStays'
  BY <1>1, RecheckStep
<1> QED
  BY <1>2, <1>3, <1>4 DEF ClaimInv, LockInv

\* Rows, locks, leases and snapshots always have their types, and only a processing row
\* has an owner.
THEOREM TypeCorrect == Spec => []TypeOK
<1>1. Init => TypeOK /\ ClaimInv
  BY Initially
<1>2. TypeOK /\ ClaimInv /\ [Next]_vars => TypeOK' /\ ClaimInv'
  BY Inductive
<1> QED
  BY <1>1, <1>2, PTL DEF Spec

\* Concurrent claims, attempts, recoveries, deletes and plan changes never break what a
\* claim has locked, seen or been given.
THEOREM ClaimsSafe == Spec => []ClaimInv
<1>1. Init => TypeOK /\ ClaimInv
  BY Initially
<1>2. TypeOK /\ ClaimInv /\ [Next]_vars => TypeOK' /\ ClaimInv'
  BY Inductive
<1> QED
  BY <1>1, <1>2, PTL DEF Spec

-----------------------------------------------------------------------------
\* Nothing but a committed claim makes a row processing.
LEMMA OnlyClaimsStart ==
  ASSUME TypeOK, [Next]_vars, \A w \in Workers : ~CommitClaim(w)
  PROVE  Running' \subseteq Running
<1>1. ASSUME NEW r \in Rows, Admit(r) PROVE Running' \subseteq Running
  BY <1>1 DEF Admit, Running, TypeOK
<1>2. ASSUME NEW r \in Rows, BackoffElapses(r) PROVE Running' \subseteq Running
  BY <1>2 DEF BackoffElapses, rowVars, Running
<1>3. ASSUME NEW r \in Rows, LeaseExpires(r) PROVE Running' \subseteq Running
  BY <1>3 DEF LeaseExpires, rowVars, Running
<1>4. ASSUME NEW r \in Rows, Remove(r) PROVE Running' \subseteq Running
  BY <1>4 DEF Remove, Running, TypeOK
<1>5. ASSUME NEW w \in Workers, Scan(w) PROVE Running' \subseteq Running
  BY <1>5 DEF Scan, rowVars, Running
<1>6. ASSUME NEW w \in Workers, SelectNone(w) PROVE Running' \subseteq Running
  BY <1>6 DEF SelectNone, rowVars, Running
<1>7. ASSUME NEW w \in Workers, NEW r \in Rows, Recover(w,
r) PROVE Running' \subseteq Running
  BY <1>7 DEF Recover, Running, TypeOK
<1>8. ASSUME NEW w \in Workers, NEW r \in Rows, Select(w,
r) PROVE Running' \subseteq Running
  BY <1>8 DEF Select, rowVars, Running
<1>9. ASSUME NEW w \in Workers, LockRows(w) PROVE Running' \subseteq Running
  BY <1>9 DEF LockRows, rowVars, Running
<1>10. ASSUME NEW w \in Workers, TryAdvisory(w) PROVE Running' \subseteq Running
  BY <1>10 DEF TryAdvisory, rowVars, Running
<1>11. ASSUME NEW w \in Workers, Recheck(w) PROVE Running' \subseteq Running
  BY <1>11 DEF Recheck, rowVars, Running
<1>12. ASSUME NEW w \in Workers, CommitClaim(w) PROVE Running' \subseteq Running
  BY <1>12
<1>13. ASSUME NEW w \in Workers, SourceMissing(w) PROVE Running' \subseteq Running
  BY <1>13 DEF SourceMissing, rowVars, Running
<1>14. ASSUME NEW w \in Workers, Extracted(w) PROVE Running' \subseteq Running
  BY <1>14 DEF Extracted, rowVars, Running
<1>15. ASSUME NEW w \in Workers, Throws(w) PROVE Running' \subseteq Running
  BY <1>15 DEF Throws, rowVars, Running
<1>16. ASSUME NEW w \in Workers, Save(w) PROVE Running' \subseteq Running
  BY <1>16 DEF Save, Running, TypeOK
<1>17. ASSUME NEW w \in Workers, RecordFailure(w) PROVE Running' \subseteq Running
  BY <1>17 DEF RecordFailure, Running, TypeOK
<1>18. ASSUME NEW w \in Workers, Interrupt(w) PROVE Running' \subseteq Running
  BY <1>18 DEF Interrupt, rowVars, Running
<1>19. ASSUME ChangePlan PROVE Running' \subseteq Running
  BY <1>19 DEF ChangePlan, rowVars, Running
<1>20. ASSUME BeginRemove PROVE Running' \subseteq Running
  BY <1>20 DEF BeginRemove, rowVars, Running
<1>21. CASE UNCHANGED vars
  BY <1>21 DEF vars, rowVars, Running
<1> QED
  BY <1>1, <1>2, <1>3, <1>4, <1>5, <1>6, <1>7, <1>8, <1>9, <1>10, <1>11, <1>12, <1>13,
     <1>14, <1>15, <1>16, <1>17, <1>18, <1>19, <1>20, <1>21 DEF Next, Work

\* A committed claim adds one row to a set its recheck counted below the cap.
LEMMA CapacityStep ==
  ASSUME TypeOK, ClaimInv, [Next]_vars
  PROVE  Cardinality(Running') > Cardinality(Running) => Cardinality(Running') <= cap'
<1>1. CASE \A w \in Workers : ~CommitClaim(w)
  <2>1. Running' \subseteq Running
    BY <1>1, OnlyClaimsStart
  <2>2. Cardinality(Running') <= Cardinality(Running) /\ Cardinality(Running') \in Nat
    BY <2>1, RunningFinite, FS_Subset, FS_CardinalityType
  <2> QED
    BY <2>2, RunningFinite
<1>2. ASSUME NEW w \in Workers, CommitClaim(w)
      PROVE  Cardinality(Running') <= cap'
  <2>1. pc[w] = "checked" /\ cap' = cap /\ state' = [state EXCEPT ![row[w]] = "processing"]
    BY <1>2 DEF CommitClaim
  <2>2. Cardinality(Running) < cap
    BY <2>1 DEF ClaimInv, RecheckStays, Allowed, HasCapacity
  <2>3. Running' \subseteq Running \cup {row[w]}
    BY <2>1 DEF Running, TypeOK
  <2>4. IsFiniteSet(Running \cup {row[w]}) /\ Cardinality(Running \cup {row[w]}) <= Cardinality(Running) + 1
    BY RunningFinite, FS_AddElement
  <2>5. Cardinality(Running') <= Cardinality(Running \cup {row[w]})
    BY <2>3, <2>4, FS_Subset
  <2>6. cap \in Nat /\ Cardinality(Running \cup {row[w]}) \in Nat /\ Cardinality(Running') \in Nat
    BY <2>3, <2>4, FS_Subset, FS_CardinalityType, ClaimsAssumption DEF TypeOK
  <2> QED
    BY <2>1, <2>2, <2>4, <2>5, <2>6, RunningFinite
<1> QED
  BY <1>1, <1>2

\* plan.maxConcurrent is never exceeded by starting work, for any number of workers and
\* any snapshot a claim counted in.
THEOREM Capacity == Spec => CapacityRespected
<1>1. Spec => []TypeOK
  BY TypeCorrect
<1>2. Spec => []ClaimInv
  BY ClaimsSafe
<1>3. TypeOK /\ ClaimInv /\ [Next]_vars =>
        [Cardinality(Running') > Cardinality(Running) => Cardinality(Running') <= cap']_vars
  BY CapacityStep
<1> QED
  BY <1>1, <1>2, <1>3, PTL DEF Spec, CapacityRespected

\* No committed claim takes its row past an earlier one that was available when the
\* claim began.
THEOREM Order == Spec => ClaimsInOrder
<1>1. Spec => []ClaimInv
  BY ClaimsSafe
<1>2. ClaimInv =>
        \A w \in Workers : pc[w] = "checked" /\ pc'[w] = "attempting" => FirstInLine(row[w], asOf[w])
  BY DEF ClaimInv, RecheckStays, Allowed
<1>3. ClaimInv /\ [Next]_vars =>
        [\A w \in Workers : pc[w] = "checked" /\ pc'[w] = "attempting" => FirstInLine(row[w], asOf[w])]_vars
  BY <1>2
<1> QED
  BY <1>1, <1>3, PTL DEF Spec, ClaimsInOrder

-----------------------------------------------------------------------------
\* The fence of an attempt: only the attempt the row's counter names passes it.
LEMMA FencedIsCurrent ==
  ASSUME TypeOK, ClaimInv, NEW w \in Workers, pc[w] \in InAttempt, Fenced(w)
  PROVE  row[w] \in Rows /\ attempts[row[w]] = attempt[w]
<1>1. row[w] \in Rows /\ attempt[w] \in 1..MaxAttempts
  BY DEF ClaimInv, AttemptKnown
<1>2. PICK v \in Workers : owner[row[w]] = Owner(v, attempts[row[w]])
  BY <1>1 DEF Fenced, ClaimInv, OwnerIsCurrentAttempt
<1>3. <<v, attempts[row[w]]>> = <<w, attempt[w]>>
  BY <1>2 DEF Fenced, Owner
<1> QED
  BY <1>1, <1>3

\* Every step is a step of AiWorkQueue or changes nothing it can see.
LEMMA QueueStep ==
  ASSUME TypeOK, ClaimInv, [Next]_vars
  PROVE  [Queue!Next]_(Queue!vars)
<1>1. ASSUME NEW r \in Rows, Admit(r) PROVE [Queue!Next]_(Queue!vars)
  BY <1>1 DEF Admit, rowVars, Queue!Next, Queue!Admit, Queue!Move
<1>2. ASSUME NEW r \in Rows, BackoffElapses(r) PROVE [Queue!Next]_(Queue!vars)
  BY <1>2 DEF BackoffElapses, rowVars, Queue!vars
<1>3. ASSUME NEW r \in Rows, LeaseExpires(r) PROVE [Queue!Next]_(Queue!vars)
  BY <1>3 DEF LeaseExpires, rowVars, Queue!vars
<1>4. ASSUME NEW r \in Rows, Remove(r) PROVE [Queue!Next]_(Queue!vars)
  BY <1>4 DEF Remove, rowVars, Queue!Next, Queue!Remove
<1>5. ASSUME NEW w \in Workers, Scan(w) PROVE [Queue!Next]_(Queue!vars)
  BY <1>5 DEF Scan, rowVars, Queue!vars
<1>6. ASSUME NEW w \in Workers, SelectNone(w) PROVE [Queue!Next]_(Queue!vars)
  BY <1>6 DEF SelectNone, rowVars, Queue!vars
<1>7. ASSUME NEW w \in Workers, NEW r \in Rows, Recover(w,
r) PROVE [Queue!Next]_(Queue!vars)
  <2>1. CASE LeaseStillExpired(r) /\ attempts[r] >= MaxAttempts
    <3>1. Queue!Fail(r)
      BY <1>7, <2>1 DEF Recover, LeaseStillExpired, Queue!Fail, Queue!Move
    <3> QED
      BY <3>1 DEF Queue!Next
  <2>2. CASE LeaseStillExpired(r) /\ ~(attempts[r] >= MaxAttempts)
    <3>1. attempts[r] < MaxAttempts
      BY <2>2, ClaimsAssumption DEF TypeOK
    <3>2. Queue!Retry(r)
      BY <1>7, <2>2, <3>1 DEF Recover, LeaseStillExpired, Queue!Retry, Queue!Move
    <3> QED
      BY <3>2 DEF Queue!Next
  <2>3. CASE ~LeaseStillExpired(r)
    BY <1>7, <2>3 DEF Recover, Queue!vars
  <2> QED
    BY <2>1, <2>2, <2>3
<1>8. ASSUME NEW w \in Workers, NEW r \in Rows, Select(w, r) PROVE [Queue!Next]_(Queue!vars)
  BY <1>8 DEF Select, rowVars, Queue!vars
<1>9. ASSUME NEW w \in Workers, LockRows(w) PROVE [Queue!Next]_(Queue!vars)
  BY <1>9 DEF LockRows, rowVars, Queue!vars
<1>10. ASSUME NEW w \in Workers, TryAdvisory(w) PROVE [Queue!Next]_(Queue!vars)
  BY <1>10 DEF TryAdvisory, rowVars, Queue!vars
<1>11. ASSUME NEW w \in Workers, Recheck(w) PROVE [Queue!Next]_(Queue!vars)
  BY <1>11 DEF Recheck, rowVars, Queue!vars
<1>12. ASSUME NEW w \in Workers, CommitClaim(w) PROVE [Queue!Next]_(Queue!vars)
  <2>1. row[w] \in Rows /\ state[row[w]] = "queued" /\ attempts[row[w]] < MaxAttempts
    BY <1>12 DEF CommitClaim, ClaimInv, LockedRowStays, Lockers, RowLocked
  <2>2. Cardinality(Running) < cap
    BY <1>12 DEF CommitClaim, ClaimInv, RecheckStays, Allowed, HasCapacity
  <2>3. Queue!Cardinality(Queue!Running) < cap
    BY <2>2 DEF Running, Queue!Running, Queue!Cardinality, Cardinality, Queue!IsFiniteSet,
       IsFiniteSet
  <2>4. Queue!Start(row[w])
    BY <1>12, <2>1, <2>3 DEF CommitClaim, Queue!Start, Queue!Move
  <2> QED
    BY <2>1, <2>4 DEF Queue!Next
<1>13. ASSUME NEW w \in Workers, SourceMissing(w) PROVE [Queue!Next]_(Queue!vars)
  BY <1>13 DEF SourceMissing, rowVars, Queue!vars
<1>14. ASSUME NEW w \in Workers, Extracted(w) PROVE [Queue!Next]_(Queue!vars)
  BY <1>14 DEF Extracted, rowVars, Queue!vars
<1>15. ASSUME NEW w \in Workers, Throws(w) PROVE [Queue!Next]_(Queue!vars)
  BY <1>15 DEF Throws, rowVars, Queue!vars
<1>16. ASSUME NEW w \in Workers, Save(w) PROVE [Queue!Next]_(Queue!vars)
  <2>1. CASE Fenced(w)
    <3>1. row[w] \in Rows /\ attempts[row[w]] = attempt[w]
      BY <1>16, <2>1, FencedIsCurrent DEF Save, InAttempt
    <3>2. Queue!Complete(row[w])
      BY <1>16, <2>1, <3>1 DEF Save, Fenced, Queue!Complete, Queue!Move
    <3> QED
      BY <3>1, <3>2 DEF Queue!Next
  <2>2. CASE ~Fenced(w)
    BY <1>16, <2>2 DEF Save, Queue!vars
  <2> QED
    BY <2>1, <2>2
<1>17. ASSUME NEW w \in Workers, RecordFailure(w) PROVE [Queue!Next]_(Queue!vars)
  <2>1. CASE Fenced(w)
    <3>1. row[w] \in Rows /\ attempts[row[w]] = attempt[w]
      BY <1>17, <2>1, FencedIsCurrent DEF RecordFailure, InAttempt
    <3>2. CASE pc[w] = "rejecting"
      <4>1. Queue!Fail(row[w])
        BY <1>17, <2>1, <3>2 DEF RecordFailure, Fenced, Queue!Fail, Queue!Move
      <4> QED
        BY <3>1, <4>1 DEF Queue!Next
    <3>3. CASE pc[w] = "retrying"
      <4>1. attempts[row[w]] < MaxAttempts
        BY <3>1, <3>3 DEF ClaimInv, AttemptKnown
      <4>2. Queue!Retry(row[w])
        BY <1>17, <2>1, <3>3, <4>1 DEF RecordFailure, Fenced, Queue!Retry, Queue!Move
      <4> QED
        BY <3>1, <4>2 DEF Queue!Next
    <3> QED
      BY <1>17, <3>2, <3>3 DEF RecordFailure
  <2>2. CASE ~Fenced(w)
    BY <1>17, <2>2 DEF RecordFailure, Queue!vars
  <2> QED
    BY <2>1, <2>2
<1>18. ASSUME NEW w \in Workers, Interrupt(w) PROVE [Queue!Next]_(Queue!vars)
  BY <1>18 DEF Interrupt, rowVars, Queue!vars
<1>19. ASSUME ChangePlan PROVE [Queue!Next]_(Queue!vars)
  BY <1>19 DEF ChangePlan, rowVars, Queue!Next, Queue!ChangePlan
<1>20. ASSUME BeginRemove PROVE [Queue!Next]_(Queue!vars)
  BY <1>20 DEF BeginRemove, rowVars, Queue!vars
<1>21. CASE UNCHANGED vars
  BY <1>21 DEF vars, rowVars, Queue!vars
<1> QED
  BY <1>1, <1>2, <1>3, <1>4, <1>5, <1>6, <1>7, <1>8, <1>9, <1>10, <1>11, <1>12, <1>13,
     <1>14, <1>15, <1>16, <1>17, <1>18, <1>19, <1>20, <1>21 DEF Next, Work

\* The lanes implement the queue they promise.
THEOREM Implements == Spec => ImplementsQueue
<1>1. Spec => []TypeOK
  BY TypeCorrect
<1>2. Spec => []ClaimInv
  BY ClaimsSafe
<1>3. Init => Queue!Init
  BY DEF Init, Queue!Init
<1>4. TypeOK /\ ClaimInv /\ [Next]_vars => [Queue!Next]_(Queue!vars)
  BY QueueStep
<1> QED
  BY <1>1, <1>2, <1>3, <1>4, PTL DEF Spec, ImplementsQueue, Queue!Spec
=============================================================================
